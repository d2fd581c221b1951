-------------------------- MODULE ProvenanceProofs --------------------------
(***************************************************************************)
(* Theorems about Provenance for every choice of its constants.  The       *)
(* commands that retain contents are commands of Pursuit, so what is       *)
(* proved of Pursuit holds here; on top of it, what a grant reaches, what  *)
(* a delegate knows and what a reader of the history finds.                *)
(***************************************************************************)
EXTENDS Provenance, PursuitProofs

(* Every command of Provenance is the command of Pursuit it is built from. *)

\* Listing fewer contents needs no other grant.
LEMMA FewerItems ==
    ASSUME NEW access, NEW action, NEW agreement, NEW auth, NEW items,
           RecordAccess(access, action, agreement, auth, items)
    PROVE  RecordAccess(access, action, agreement, auth, items \cap Contents)
  <1>1. \A spec : Covers(spec, items) => Covers(spec, items \cap Contents)
    BY DEF Covers
  <1> QED BY <1>1 DEF RecordAccess

LEMMA AccessibleType ==
    ASSUME NEW auth, NEW access \in Accessible(auth)
    PROVE  access \in Accesses
  BY DEF Accessible, Accesses

\* What observes with any contents observes with those of the Change.
LEMMA ReportObserves ==
    ASSUME TypeOK, NEW auth, Report(auth)
    PROVE  Observe(auth)
  <1>1. PICK access \in Accessible(auth), id \in {None, current},
             evidence \in (SUBSET Contents) \ {{}}, own \in Brings :
          Observed(access, id, evidence, own, auth)
    BY DEF Report
  <1>2. PICK items : items = Items(access, ObservationNeeds(id, evidence), own)
    OBVIOUS
  <1>3. /\ access \in Accesses /\ items \cap Contents \in SUBSET Contents
        /\ id \in AgreementIds \cup {None}
        /\ id # None => id \in AgreementIds
    BY AccessibleType DEF TypeOK, NegotiationTypeOK
  <1>4. CASE Finding(id, access, auth, items)
    <2>1. Finding(id, access, auth, items \cap Contents)
      BY <1>4, FewerItems DEF Finding
    <2> QED BY <1>3, <2>1 DEF Observe
  <1>5. ASSUME id # None,
               NEW judgment \in {"WithinDiscretion", "RequiresRevision", "Unavailable"},
               Adapt(id, access, auth, items, judgment)
        PROVE  Observe(auth)
    <2>1. Adapt(id, access, auth, items \cap Contents, judgment)
      BY <1>5, FewerItems DEF Adapt
    <2> QED BY <1>3, <1>5, <2>1 DEF Observe
  <1>6. ASSUME id # None,
               NEW terms, NEW criteria \in SUBSET {c.id : c \in UNION {t.criteria : t \in TermChoices}},
               NEW revised \in BOOLEAN,
               Progress(id, access, auth, items, terms, criteria, revised)
        PROVE  Observe(auth)
    <2>1. Progress(id, access, auth, items \cap Contents, terms, criteria, revised)
      BY <1>6, FewerItems DEF Progress
    <2>2. id \in DOMAIN agreements
      BY <1>6 DEF Progress, CurrentGrounds
    <2>3. proposals[agreements[id].proposal].terms \in TermChoices
      BY <2>2 DEF TypeOK, NegotiationTypeOK, References, IsPartial, ProposalRecord
    <2>4. terms \in SUBSET UNION {t.binding : t \in TermChoices}
      BY <1>6, <2>3 DEF Progress
    <2>5. \E x \in SUBSET UNION {t.binding : t \in TermChoices},
            y \in SUBSET {c.id : c \in UNION {t.criteria : t \in TermChoices}},
            z \in BOOLEAN : Progress(id, access, auth, items \cap Contents, x, y, z)
      BY ONLY <2>1, <2>4, <1>6
    <2> QED BY <1>3, <1>6, <2>5, Zenon DEF Observe
  <1> QED BY <1>1, <1>2, <1>4, <1>5, <1>6 DEF Observed

LEMMA StepsAreSteps ==
    ASSUME TypeOK, [ProvenanceNext]_provenanceVars
    PROVE  [Next]_vars
  <1>0. /\ DOMAIN proposals \subseteq ProposalIds
        /\ DOMAIN assessments \subseteq AssessmentIds
        /\ DOMAIN decisions \subseteq DecisionIds
        /\ DOMAIN agreements \subseteq AgreementIds
    BY DEF TypeOK, NegotiationTypeOK, IsPartial
  <1>1. ASSUME NEW auth, Begin(auth)
        PROVE  Start(auth)
    <2>1. PICK access, items :
             /\ access \in Accessible(auth)
             /\ RecordAccess(access, "CreateDraft", None, auth, items)
      BY <1>1 DEF Begin
    <2>2. /\ access \in Accesses /\ items \cap Contents \in SUBSET Contents
          /\ RecordAccess(access, "CreateDraft", None, auth, items \cap Contents)
      BY <2>1, AccessibleType, FewerItems
    <2> QED BY <1>1, <2>2 DEF Begin, Start
  <1>2. ASSUME NEW auth, Draft(auth)
        PROVE  Contribute(auth)
    <2>1. PICK access, id, a, expected, terms, deps, items :
             /\ access \in Accessible(auth)
             /\ id \in ProposalIds /\ a \in AgreementIds
             /\ expected \in AgreementIds \cup {None}
             /\ terms \in TermChoices /\ deps \in Dependencies
             /\ Propose(id, a, expected, terms, deps)
             /\ RecordAccess(access, "Propose", None, auth, items)
             /\ UNCHANGED << grounds, native, observations >>
      BY <1>2 DEF Draft
    <2>2. /\ access \in Accesses /\ items \cap Contents \in SUBSET Contents
          /\ RecordAccess(access, "Propose", None, auth, items \cap Contents)
      BY <2>1, AccessibleType, FewerItems
    <2> QED BY <2>1, <2>2 DEF Contribute
  <1>3. ASSUME NEW auth, Evaluate(auth)
        PROVE  Contribute(auth)
    <2>1. PICK access, id, p, b, deps, items :
             /\ access \in Accessible(auth)
             /\ id \in AssessmentIds /\ p \in ProposalIds
             /\ b \in SUBSET Blockers /\ deps \in Dependencies
             /\ Assess(id, p, deps, b)
             /\ RecordAccess(access, "Assess", None, auth, items)
             /\ UNCHANGED << grounds, native, observations >>
      BY <1>0, <1>3 DEF Evaluate
    <2>2. /\ access \in Accesses /\ items \cap Contents \in SUBSET Contents
          /\ RecordAccess(access, "Assess", None, auth, items \cap Contents)
      BY <2>1, AccessibleType, FewerItems
    <2> QED BY <2>1, <2>2 DEF Contribute
  <1>4. ASSUME NEW auth, TakeDecision(auth) \/ Renew(auth) \/ TakeBack(auth)
        PROVE  DecisionStep(auth)
    <2>1. CASE TakeDecision(auth)
      BY <1>0, <2>1 DEF TakeDecision, DecisionStep
    <2>2. CASE Renew(auth)
      BY <1>0, <2>2 DEF Renew, DecisionStep
    <2>3. CASE TakeBack(auth)
      BY <2>3 DEF TakeBack, DecisionStep
    <2> QED BY <1>4, <2>1, <2>2, <2>3
  <1>5. ASSUME NEW auth, Entrust(auth) \/ Revoke(auth)
        PROVE  GrantStep(auth)
    BY <1>5 DEF Entrust, Revoke, GrantStep
  <1>6. ASSUME NEW auth, Conclude(auth)
        PROVE  SettleStep(auth)
    BY <1>0, <1>6 DEF Conclude, SettleStep
  <1>7. CASE ProvenanceNext
    BY <1>1, <1>2, <1>3, <1>4, <1>5, <1>6, <1>7, ReportObserves
    DEF ProvenanceNext, Next, Command
  <1>8. CASE UNCHANGED provenanceVars
    BY <1>8 DEF provenanceVars
  <1> QED BY <1>7, <1>8

\* The contents and the history a Change keeps are an addition to what Pursuit says of it:
\* every accepted command is one of Pursuit's.
THEOREM ContentsImplementPursuit == ProvenanceSpec => Spec
  <1>1. ProvenanceInit => Init
    BY DEF ProvenanceInit
  <1>2. TypeOK /\ [ProvenanceNext]_provenanceVars => [Next]_vars
    BY StepsAreSteps
  <1> QED BY <1>1, <1>2, InitType, StepType, PTL DEF ProvenanceSpec, Spec

\* Also a history with its contents ends with settlement.
THEOREM SettledWithItsContents == ProvenanceSpec => SettlementFreezesPursuit
  BY ContentsImplementPursuit, SettledStaysSettled

-----------------------------------------------------------------------------
(* What every accepted command has in common. *)

\* What Accept may be asked to retain: citations that stand, of contents it needs.
Orderly(auth, access, needs, more) ==
    /\ access \in Accessible(auth)
    /\ more.own.fresh = {} => more.own.derived = {}
    /\ more.own.derived \subseteq memberships
    /\ more.cited \subseteq memberships
                         \cup {Citation(accepted + 1, k) : k \in needs.contents}
    /\ ContentsOf(more.cited) \subseteq needs.contents

\* One operation is accepted and no ground moves.
OneAccepted ==
    /\ UNCHANGED grounds
    /\ \E kind, auth, access, needs, more :
          Accept(kind, auth, access, needs, more) /\ Orderly(auth, access, needs, more)

\* Nothing is accepted: a ground moves.
NoneAccepted ==
    record' = None /\ UNCHANGED << accepted, established, memberships, statements, created >>

LEMMA BroughtStands ==
    ASSUME NEW own \in Brings
    PROVE  /\ own.fresh = {} => own.derived = {}
           /\ own.derived \subseteq memberships
  <1>1. CASE own = NoneBrought
    BY <1>1 DEF NoneBrought
  <1>2. CASE own \in [fresh : (SUBSET (Novel \ DOMAIN established)) \ {{}},
                      derived : Citing(Contents, {})]
    BY <1>2 DEF Citing
  <1> QED BY <1>1, <1>2 DEF Brings

\* A command that cites nothing.
LEMMA CitingNothingIsOrderly ==
    ASSUME NEW auth, NEW access \in Accessible(auth), NEW needs, NEW more,
           more.own \in Brings, more.cited = {}
    PROVE  Orderly(auth, access, needs, more)
  BY BroughtStands DEF Orderly, ContentsOf

LEMMA PlainIsOrderly ==
    ASSUME NEW auth, NEW needs
    PROVE  Orderly(auth, None, needs, Plain)
  <1>1. Plain.own = NoneBrought /\ Plain.cited = {} /\ NoneBrought \in Brings
    BY DEF Plain, Brings
  <1> QED BY <1>1, CitingNothingIsOrderly DEF Accessible

\* An agreement needs all of its terms and every blocker it carries.
LEMMA AgreementIsNeeded ==
    ASSUME AgreementRestsOnBothParties, NEW id \in DOMAIN agreements, NEW evidence, id # None
    PROVE  /\ agreements[id].blockers \subseteq ObservationNeeds(id, evidence).contents
           /\ TermsContents(proposals[agreements[id].proposal].terms)
                \subseteq ObservationNeeds(id, evidence).contents
  <1>1. decisions[agreements[id].adoption].proposal = agreements[id].proposal
    BY DEF AgreementRestsOnBothParties, Kinds
  <1> QED BY <1>1 DEF ObservationNeeds, Needs, AgreementContents, DecisionContents, ProposalContents

\* Every proposal was stated under citations that stand.
StatementsStand ==
    \A p \in DOMAIN proposals : p \in DOMAIN statements /\ statements[p] \subseteq memberships

\* What an observer is about is in force, and needed.
LEMMA ObservedIsOrderly ==
    ASSUME TypeOK, AgreementRestsOnBothParties, StatementsStand, NEW auth,
           NEW access \in Accessible(auth), NEW id,
           NEW evidence, NEW own \in Brings, Observed(access, id, evidence, own, auth)
    PROVE  OneAccepted
  <1>1. PICK needs : needs = ObservationNeeds(id, evidence)
    OBVIOUS
  <1>2. PICK more : more = [Plain EXCEPT !.own = own, !.about = id]
    OBVIOUS
  <1>3. more.own = own /\ more.cited = {}
    BY <1>2 DEF Plain
  <1>4. Orderly(auth, access, needs, more)
    BY <1>3, CitingNothingIsOrderly
  <1>5. UNCHANGED grounds
    BY DEF Observed, Finding, Adapt, Progress, Record
  <1>6. CASE Accept("Finding", auth, access, needs, more)
    BY <1>4, <1>5, <1>6 DEF OneAccepted
  <1>7. CASE Accept("Adapt", auth, access, needs, more)
    BY <1>4, <1>5, <1>7 DEF OneAccepted
  <1>8. ASSUME id # None, NEW items, NEW criteria, NEW revised,
               NEW cited \in SUBSET statements[agreements[id].proposal],
               Progress(id, access, auth, items, ContentsOf(cited), criteria, revised),
               Accept("Progress", auth, access, needs, [more EXCEPT !.cited = cited])
        PROVE  OneAccepted
    <2>1. /\ id \in DOMAIN agreements
          /\ ContentsOf(cited) \subseteq proposals[agreements[id].proposal].terms.binding
      BY <1>8 DEF Progress, CurrentGrounds
    <2>2. ContentsOf(cited) \subseteq needs.contents
      BY <1>1, <1>8, <2>1, AgreementIsNeeded DEF TermsContents
    <2>3. agreements[id].proposal \in DOMAIN proposals
      BY <2>1 DEF TypeOK, NegotiationTypeOK, References
    <2>4. cited \subseteq memberships
      BY <1>8, <2>3 DEF StatementsStand
    <2>5. PICK last : last = [more EXCEPT !.cited = cited]
      OBVIOUS
    <2>6. last.own = own /\ last.cited = cited
      BY <1>2, <2>5 DEF Plain
    <2>7. Orderly(auth, access, needs, last)
      BY <2>2, <2>4, <2>6, BroughtStands DEF Orderly
    <2> QED BY <1>5, <1>8, <2>5, <2>7 DEF OneAccepted
  <1> QED BY <1>1, <1>2, <1>6, <1>7, <1>8 DEF Observed

\* The history bears out what is cited of it.
CitationsInv ==
    /\ DOMAIN created \subseteq DOMAIN established
    /\ \A k \in DOMAIN established : Citation(established[k], k) \in memberships
    /\ StatementsStand

\* Citations of contents the operation binds.
LEMMA CitingStands ==
    ASSUME NEW contents, NEW cited \in Citing(contents, {accepted + 1})
    PROVE  /\ cited \subseteq memberships \cup {Citation(accepted + 1, k) : k \in contents}
           /\ ContentsOf(cited) \subseteq contents
  <1>1. ASSUME NEW c \in cited
        PROVE  /\ c \in memberships \cup {Citation(accepted + 1, k) : k \in contents}
               /\ c.content \in contents
    <2>1. \/ c \in memberships /\ c.content \in contents
          \/ \E k \in contents : c = Citation(accepted + 1, k)
      BY DEF Citing
    <2> QED BY <2>1 DEF Citation
  <1> QED BY <1>1 DEF ContentsOf

LEMMA AcceptedStep ==
    ASSUME StandingInv, CitationsInv, ProvenanceNext
    PROVE  NoneAccepted \/ OneAccepted
  <1>0. AgreementRestsOnBothParties /\ TypeOK /\ StatementsStand
    BY DEF StandingInv, AgreementStands, HistoryInv, CitationsInv
  <1>1. ASSUME NEW auth, Begin(auth)
        PROVE  OneAccepted
    <2>1. PICK access \in Accessible(auth), wish \in Contents, own \in Brings :
             Accept("Start", auth, access, Needs({wish}, {}), [Plain EXCEPT !.own = own])
      BY <1>1 DEF Begin
    <2>2. PICK more : more = [Plain EXCEPT !.own = own]
      OBVIOUS
    <2>3. more.own = own /\ more.cited = {}
      BY <2>2 DEF Plain
    <2>4. Orderly(auth, access, Needs({wish}, {}), more)
      BY <2>3, CitingNothingIsOrderly
    <2> QED BY <1>1, <2>1, <2>2, <2>4 DEF OneAccepted, Begin
  <1>2. ASSUME NEW auth, Draft(auth)
        PROVE  OneAccepted
    <2>0. PICK access \in Accessible(auth), terms \in TermChoices, deps \in Dependencies,
               own \in Brings :
             \E id : AcceptDraft(id, terms, auth, access,
                                Needs(TermsContents(terms), DOMAIN deps), own)
      BY <1>2 DEF Draft
    <2>1. PICK cited \in Citing(TermsContents(terms), {accepted + 1}) :
             Accept("Propose", auth, access, Needs(TermsContents(terms), DOMAIN deps),
                    [Plain EXCEPT !.own = own, !.cited = cited])
      BY <2>0 DEF AcceptDraft
    <2>2. PICK more : more = [Plain EXCEPT !.own = own, !.cited = cited]
      OBVIOUS
    <2>3. more.own = own /\ more.cited = cited
      BY <2>2 DEF Plain
    <2>4. Orderly(auth, access, Needs(TermsContents(terms), DOMAIN deps), more)
      BY <2>3, BroughtStands, CitingStands DEF Orderly, Needs
    <2> QED BY <1>2, <2>1, <2>2, <2>4 DEF OneAccepted, Draft
  <1>3. ASSUME NEW auth, Evaluate(auth)
        PROVE  OneAccepted
    <2>1. PICK access \in Accessible(auth), p \in DOMAIN proposals, blockers \in SUBSET Blockers,
               deps \in Dependencies, own \in Brings :
             Accept("Assess", auth, access, AssessmentNeeds(p, deps, blockers),
                    [Plain EXCEPT !.own = own, !.about = p])
      BY <1>3 DEF Evaluate
    <2>2. PICK more : more = [Plain EXCEPT !.own = own, !.about = p]
      OBVIOUS
    <2>3. more.own = own /\ more.cited = {}
      BY <2>2 DEF Plain
    <2>4. Orderly(auth, access, AssessmentNeeds(p, deps, blockers), more)
      BY <2>3, CitingNothingIsOrderly
    <2> QED BY <1>3, <2>1, <2>2, <2>4 DEF OneAccepted, Evaluate
  <1>4. ASSUME NEW auth, TakeDecision(auth) \/ Renew(auth) \/ TakeBack(auth)
        PROVE  OneAccepted
    <2>1. UNCHANGED grounds /\ \E kind, needs : Accept(kind, auth, None, needs, Plain)
      BY <1>4 DEF TakeDecision, Renew, TakeBack
    <2> QED BY <2>1, PlainIsOrderly DEF OneAccepted
  <1>5. ASSUME NEW auth, Entrust(auth)
        PROVE  OneAccepted
    <2>1. PICK id, expected, spec :
             /\ OriginsExist(spec)
             /\ SetGrant(id, expected, spec, auth)
             /\ Accept("SetGrant", auth, None, GrantNeeds(spec),
                  [Plain EXCEPT !.spec = spec, !.cited = OriginCitations(spec)])
      BY <1>5 DEF Entrust
    <2>2. PICK more : more = [Plain EXCEPT !.spec = spec, !.cited = OriginCitations(spec)]
      OBVIOUS
    <2>3. more.own = NoneBrought /\ more.cited = OriginCitations(spec)
      BY <2>2 DEF Plain
    <2>4. /\ OriginCitations(spec) \subseteq memberships
          /\ ContentsOf(OriginCitations(spec)) \subseteq GrantNeeds(spec).contents
      BY <2>1 DEF OriginCitations, OriginsExist, CitationsInv, ContentsOf, GrantNeeds, Needs, Citation
    <2>5. Orderly(auth, None, GrantNeeds(spec), more)
      BY <2>3, <2>4 DEF Orderly, Accessible, NoneBrought
    <2>6. UNCHANGED grounds
      BY <2>1 DEF SetGrant
    <2> QED BY <2>1, <2>2, <2>5, <2>6 DEF OneAccepted
  <1>6. ASSUME NEW auth, Revoke(auth) \/ Conclude(auth)
        PROVE  OneAccepted
    <2>1. UNCHANGED grounds /\ \E kind, needs : Accept(kind, auth, None, needs, Plain)
      BY <1>6 DEF Revoke, Conclude, RevokeGrant, Fulfill, Withdraw
    <2> QED BY <2>1, PlainIsOrderly DEF OneAccepted
  <1>7. ASSUME NEW auth, Report(auth)
        PROVE  OneAccepted
    BY <1>0, <1>7, ObservedIsOrderly DEF Report
  <1>8. CASE /\ record' = None
             /\ UNCHANGED << accepted, established, memberships, statements, created >>
    BY <1>8 DEF NoneAccepted
  <1> QED
    BY <1>1, <1>2, <1>3, <1>4, <1>5, <1>6, <1>7, <1>8 DEF ProvenanceNext

-----------------------------------------------------------------------------
(* What a reader of the history finds. *)

\* What a record refers to is a content it binds, as some operation bound it.
LEMMA VisitedStands ==
    ASSUME CitationsInv, NEW kind, NEW auth, NEW access, NEW needs, NEW more, NEW r,
           Accept(kind, auth, access, needs, more), Orderly(auth, access, needs, more),
           r = Stored(kind, auth, access, needs, more), NEW c \in Visited(r)
    PROVE  c.content \in DOMAIN r.intakes /\ c \in memberships'
  <1>1. /\ r.intakes = [k \in Bound(needs, more.own) |-> Prior(k)]
        /\ r.derived = more.own.derived /\ r.cited = more.cited
    BY DEF Stored
  <1>2. memberships' = memberships \cup {Citation(accepted + 1, k) : k \in Bound(needs, more.own)}
    BY DEF Accept
  <1>3. CASE c \in r.derived
    BY <1>1, <1>2, <1>3 DEF Orderly, Bound, ContentsOf
  <1>4. CASE c \in r.cited
    BY <1>1, <1>2, <1>4 DEF Orderly, Bound, ContentsOf
  <1>5. ASSUME NEW k \in DOMAIN r.intakes, c \in r.intakes[k]
        PROVE  c.content \in DOMAIN r.intakes /\ c \in memberships'
    <2>1. k \in DOMAIN established /\ c = Citation(established[k], k)
      BY <1>1, <1>5 DEF Prior
    <2>2. c.content = k
      BY <2>1 DEF Citation
    <2> QED BY <1>2, <1>5, <2>1, <2>2 DEF CitationsInv
  <1> QED BY <1>3, <1>4, <1>5 DEF Visited

\* The reference that established a content leads to every record that binds it.
LEMMA EstablishingIsVisited ==
    ASSUME NEW kind, NEW auth, NEW access, NEW needs, NEW more, NEW r,
           Accept(kind, auth, access, needs, more),
           r = Stored(kind, auth, access, needs, more), NEW k \in DOMAIN r.intakes
    PROVE  Citation(established'[k], k) \in Visited(r) \/ established'[k] = r.operation
  <1>1. /\ r.intakes = [x \in Bound(needs, more.own) |-> Prior(x)]
        /\ r.operation = accepted + 1
    BY DEF Stored
  <1>2. established' = Override(established, [x \in Bound(needs, more.own) |-> accepted + 1])
    BY DEF Accept
  <1>3. CASE k \in DOMAIN established
    <2>1. established'[k] = established[k]
      BY <1>2, <1>3 DEF Override
    <2>2. Citation(established[k], k) \in r.intakes[k]
      BY <1>1, <1>3 DEF Prior
    <2> QED BY <2>1, <2>2 DEF Visited
  <1>4. CASE k \notin DOMAIN established
    BY <1>1, <1>2, <1>4 DEF Override
  <1> QED BY <1>3, <1>4

LEMMA PublicFields ==
    ASSUME NEW r
    PROVE  /\ PublicRecord(r).operation = r.operation
           /\ PublicRecord(r).versions = r.versions
           /\ PublicRecord(r).cited = r.cited
           /\ DOMAIN PublicRecord(r).memberships = DOMAIN r.intakes
           /\ \A k \in DOMAIN r.intakes :
                 /\ PublicRecord(r).memberships[k].prior = r.intakes[k]
                 /\ PublicRecord(r).memberships[k].derived
                       = IF k \in r.fresh THEN r.derived ELSE {}
  BY DEF PublicRecord

\* The references a public record shows.
Shown(public) ==
    public.cited
        \cup (UNION {public.memberships[k].prior : k \in DOMAIN public.memberships})
        \cup (UNION {public.memberships[k].derived : k \in DOMAIN public.memberships})

\* The visitor of a record looks into what its public form shows.
LEMMA ShownIsVisited ==
    ASSUME NEW kind, NEW auth, NEW access, NEW needs, NEW more, NEW r,
           Accept(kind, auth, access, needs, more), Orderly(auth, access, needs, more),
           r = Stored(kind, auth, access, needs, more)
    PROVE  Shown(PublicRecord(r)) = Visited(r)
  <1>1. /\ DOMAIN r.intakes = Bound(needs, more.own)
        /\ r.fresh = more.own.fresh /\ r.derived = more.own.derived
    BY DEF Stored
  <1>2. r.fresh \subseteq DOMAIN r.intakes /\ (r.fresh = {} => r.derived = {})
    BY <1>1 DEF Accept, Orderly, Bound
  <1>3. PICK public : public = PublicRecord(r)
    OBVIOUS
  <1>4. /\ public.cited = r.cited /\ DOMAIN public.memberships = DOMAIN r.intakes
        /\ \A k \in DOMAIN r.intakes :
              /\ public.memberships[k].prior = r.intakes[k]
              /\ public.memberships[k].derived = IF k \in r.fresh THEN r.derived ELSE {}
    BY <1>3, PublicFields
  <1>5. Shown(public) = r.cited \cup (UNION {r.intakes[k] : k \in DOMAIN r.intakes})
           \cup (UNION {IF k \in r.fresh THEN r.derived ELSE {} : k \in DOMAIN r.intakes})
    BY ONLY <1>4 DEF Shown
  <1> QED BY ONLY <1>2, <1>3, <1>5 DEF Visited

LEMMA AcceptedIsFound ==
    ASSUME CitationsInv, OneAccepted
    PROVE  FoundWhereUsed'
  <1>1. PICK kind, auth, access, needs, more :
           Accept(kind, auth, access, needs, more) /\ Orderly(auth, access, needs, more)
    BY DEF OneAccepted
  <1>2. PICK r : r = Stored(kind, auth, access, needs, more)
    OBVIOUS
  <1>3. record' = r /\ grounds' = grounds
    BY <1>1, <1>2 DEF Accept, OneAccepted
  <1>4. PICK public : public = PublicRecord(r)
    OBVIOUS
  <1>5. PICK bound : bound = DOMAIN public.memberships
    OBVIOUS
  <1>6. /\ public.operation = r.operation /\ public.versions = r.versions
        /\ bound = DOMAIN r.intakes
        /\ r.versions = [g \in needs.grounds |-> grounds[g]]
        /\ memberships' = memberships
                            \cup {Citation(accepted + 1, k) : k \in Bound(needs, more.own)}
        /\ r.operation = accepted + 1 /\ DOMAIN r.intakes = Bound(needs, more.own)
    <2>1. /\ public.operation = r.operation /\ public.versions = r.versions
          /\ bound = DOMAIN r.intakes
      BY <1>4, <1>5, PublicFields
    <2>2. /\ r.versions = [g \in needs.grounds |-> grounds[g]]
          /\ r.operation = accepted + 1
          /\ r.intakes = [k \in Bound(needs, more.own) |-> Prior(k)]
      BY <1>2 DEF Stored
    <2>3. memberships' = memberships
                            \cup {Citation(accepted + 1, k) : k \in Bound(needs, more.own)}
      BY <1>1 DEF Accept
    <2> QED BY ONLY <2>1, <2>2, <2>3
  <1>7. \A c \in Visited(r) : c.content \in bound /\ c \in memberships'
    BY <1>1, <1>2, <1>6, VisitedStands
  <1>8. Shown(public) = Visited(r)
    BY <1>1, <1>2, <1>4, ShownIsVisited
  <1>9. \A k \in Contents : FoundByContent(r, k) <=> k \in bound
    BY ONLY <1>6, <1>7 DEF FoundByContent
  <1>10. \A n \in 1 .. MaxOperations :
           FoundByOperation(r, n) <=> n = public.operation \/ \E c \in Shown(public) : c.operation = n
    BY ONLY <1>6, <1>8 DEF FoundByOperation
  <1>11. ASSUME NEW n \in 1 .. MaxOperations, NEW k \in Contents,
                FoundByMembership(r, Citation(n, k))
         PROVE  k \in bound /\ Citation(n, k) \in memberships'
    <2>1. Citation(n, k).operation = n /\ Citation(n, k).content = k
      BY DEF Citation
    <2>2. CASE Citation(n, k) \in Visited(r)
      BY <1>7, <2>1, <2>2
    <2>3. CASE n = r.operation /\ k \in DOMAIN r.intakes
      BY <1>6, <2>3
    <2> QED BY <1>11, <2>1, <2>2, <2>3 DEF FoundByMembership
  <1>12. ASSUME NEW k \in bound
         PROVE  FoundByMembership(r, Citation(established'[k], k))
    <2>1. PICK c : c = Citation(established'[k], k)
      OBVIOUS
    <2>2. c.operation = established'[k] /\ c.content = k
      BY <2>1 DEF Citation
    <2>3. c \in Visited(r) \/ established'[k] = r.operation
      BY <1>1, <1>2, <1>6, <2>1, EstablishingIsVisited
    <2> QED BY <1>6, <2>1, <2>2, <2>3 DEF FoundByMembership
  <1>13. ASSUME NEW g \in Grounds, NEW v \in Versions, FoundByGround(r, g, v)
         PROVE  v = grounds[g] /\ g \in DOMAIN public.versions
    BY <1>6, <1>13 DEF FoundByGround
  <1>14. bound # {} => FoundByChange(r)
    BY <1>6 DEF FoundByChange
  <1>15. PublicRecord(record)' = public
    BY <1>3, <1>4 DEF PublicRecord
  <1>16. /\ \A k : FoundByContent(record, k)' = FoundByContent(r, k)
         /\ \A n : FoundByOperation(record, n)' = FoundByOperation(r, n)
         /\ \A c : FoundByMembership(record, c)' = FoundByMembership(r, c)
         /\ \A g, v : FoundByGround(record, g, v)' = FoundByGround(r, g, v)
         /\ FoundByChange(record)' = FoundByChange(r)
    BY <1>3 DEF FoundByContent, FoundByOperation, FoundByMembership, FoundByGround,
                FoundByChange, Visited
  <1> QED
    BY <1>3, <1>5, <1>9, <1>10, <1>11, <1>12, <1>13, <1>14, <1>15, <1>16
    DEF FoundWhereUsed, Shown, Citation

-----------------------------------------------------------------------------
(* What is retained of what the negotiation names. *)

\* Every term that was proposed and every blocker that was endorsed or is carried.
BlockersIn(B, f) == \A x \in DOMAIN f : f[x].blockers \subseteq B

Known ==
    /\ \A p \in DOMAIN proposals : TermsContents(proposals[p].terms) \subseteq DOMAIN established
    /\ BlockersIn(DOMAIN established, assessments)
    /\ BlockersIn(DOMAIN established, decisions)
    /\ BlockersIn(DOMAIN established, agreements)

\* What was established stays established.
LEMMA EstablishedGrows ==
    ASSUME NoneAccepted \/ OneAccepted
    PROVE  DOMAIN established \subseteq DOMAIN established'
  <1>1. \A kind, auth, access, needs, more :
           Accept(kind, auth, access, needs, more)
              => DOMAIN established \subseteq DOMAIN established'
    BY DEF Accept, Override
  <1> QED BY <1>1 DEF NoneAccepted, OneAccepted

LEMMA MoreBlockers ==
    ASSUME NEW B, NEW C, B \subseteq C, NEW f, BlockersIn(B, f)
    PROVE  BlockersIn(C, f)
  BY DEF BlockersIn

\* activate mixes blockers, it brings none up.
LEMMA ActivateBringsNone ==
    ASSUME TypeOK, NEW B, NEW p \in DOMAIN proposals, NEW ds,
           IsPartial(ds, DecisionIds, DecisionRecord),
           DOMAIN decisions \subseteq DOMAIN ds,
           BlockersIn(B, ds), BlockersIn(B, agreements), Activate(p, ds)
    PROVE  BlockersIn(B, decisions') /\ BlockersIn(B, agreements')
  <1>1. /\ \A d \in DOMAIN ds : ds[d] \in DecisionRecord
        /\ \A a \in DOMAIN agreements : /\ agreements[a] \in AgreementRecord
                                        /\ agreements[a].undertaking \in DOMAIN ds
        /\ current # None => current \in DOMAIN agreements
        /\ proposals[p].agreement # None
    BY IdsAreNotNone
    DEF TypeOK, NegotiationTypeOK, References, IsPartial, ProposalRecord
  <1>2. CASE ExtendCurrent(ds) /\ current = proposals[p].agreement
    <2>1. current \in DOMAIN agreements
      BY <1>1, <1>2
    <2>2. PICK new : new = [agreements[current] EXCEPT !.blockers =
                              @ \cup ds[agreements[current].undertaking].blockers]
      OBVIOUS
    <2>3. new.blockers = agreements[current].blockers
                            \cup ds[agreements[current].undertaking].blockers
      BY <1>1, <2>1, <2>2 DEF AgreementRecord
    <2>4. new.blockers \subseteq B
      BY <1>1, <2>1, <2>3 DEF BlockersIn
    <2>5. decisions' = ds /\ agreements' = [agreements EXCEPT ![current] = new]
      BY <1>2, <2>2 DEF ExtendCurrent
    <2> QED BY <2>4, <2>5 DEF BlockersIn
  <1>3. ASSUME NEW x \in Effective(ds, p, "adopt"), NEW y \in Effective(ds, p, "undertake"),
               Supersede(p, ds, x, y)
        PROVE  BlockersIn(B, decisions') /\ BlockersIn(B, agreements')
    <2>1. x \in DOMAIN ds /\ y \in DOMAIN ds
      BY DEF Effective
    <2>2. PICK new : new = [proposal |-> p, adoption |-> x, undertaking |-> y,
                            blockers |-> ds[y].blockers \cup CarriedBlockers]
      OBVIOUS
    <2>3. new.blockers = ds[y].blockers \cup CarriedBlockers
      BY <2>2
    <2>4. CarriedBlockers \subseteq B
      BY <1>1 DEF CarriedBlockers, BlockersIn
    <2>5. new.blockers \subseteq B
      BY <2>1, <2>3, <2>4 DEF BlockersIn
    <2>6. agreements' = Put(agreements, proposals[p].agreement, new)
      BY <1>3, <2>2 DEF Supersede
    <2>7. BlockersIn(B, agreements')
      BY <2>5, <2>6 DEF BlockersIn, Put
    <2>8. \A r \in DecisionRecord : [r EXCEPT !.matched = TRUE] \in DecisionRecord
                                    /\ [r EXCEPT !.matched = TRUE].blockers = r.blockers
      BY DEF DecisionRecord
    <2>9. PICK mid : mid = [ds EXCEPT ![x].matched = TRUE]
      OBVIOUS
    <2>10. /\ DOMAIN mid = DOMAIN ds
           /\ \A d \in DOMAIN ds : mid[d] \in DecisionRecord /\ mid[d].blockers = ds[d].blockers
      BY <1>1, <2>8, <2>9
    <2>11. decisions' = [mid EXCEPT ![y].matched = TRUE]
      BY <1>3, <2>9 DEF Supersede
    <2>12. /\ DOMAIN decisions' = DOMAIN ds
           /\ \A d \in DOMAIN ds : decisions'[d].blockers = ds[d].blockers
      BY ONLY <2>8, <2>10, <2>11
    <2> QED BY <2>7, <2>12 DEF BlockersIn
  <1>4. CASE decisions' = ds /\ UNCHANGED << agreements, current >>
    BY <1>4
  <1> QED BY <1>2, <1>3, <1>4 DEF Activate

\* What a command needs is established once it is accepted.
LEMMA NeededIsEstablished ==
    ASSUME NEW kind, NEW auth, NEW access, NEW needs, NEW more,
           Accept(kind, auth, access, needs, more)
    PROVE  needs.contents \subseteq DOMAIN established'
  BY DEF Accept, Override, Bound

LEMMA KnownFrame ==
    ASSUME Known, NoneAccepted \/ OneAccepted,
           UNCHANGED << proposals, assessments, decisions, agreements >>
    PROVE  Known'
  <1>1. DOMAIN established \subseteq DOMAIN established'
    BY EstablishedGrows
  <1> QED BY <1>1 DEF Known, BlockersIn

LEMMA DraftKnown ==
    ASSUME Known, NoneAccepted \/ OneAccepted, NEW auth, Draft(auth)
    PROVE  Known'
  <1>1. DOMAIN established \subseteq DOMAIN established'
    BY EstablishedGrows
  <1>2. PICK access, id, a, expected, terms, deps, own :
           /\ Propose(id, a, expected, terms, deps)
           /\ AcceptDraft(id, terms, auth, access, Needs(TermsContents(terms), DOMAIN deps), own)
    BY DEF Draft
  <1>3. TermsContents(terms) \subseteq DOMAIN established'
    BY <1>2, NeededIsEstablished DEF AcceptDraft, Needs
  <1>4. PICK new : new = [agreement |-> a, expected |-> expected, terms |-> terms, deps |-> deps]
    OBVIOUS
  <1>5. proposals' = Put(proposals, id, new) /\ new.terms = terms
    BY <1>2, <1>4 DEF Propose
  <1>6. \A p \in DOMAIN proposals' : TermsContents(proposals'[p].terms) \subseteq DOMAIN established'
    BY <1>1, <1>3, <1>5 DEF Known, Put
  <1>7. UNCHANGED << assessments, decisions, agreements >>
    BY <1>2 DEF Propose
  <1> QED BY <1>1, <1>6, <1>7 DEF Known, BlockersIn

LEMMA EvaluateKnown ==
    ASSUME Known, NoneAccepted \/ OneAccepted, NEW auth, Evaluate(auth)
    PROVE  Known'
  <1>1. DOMAIN established \subseteq DOMAIN established'
    BY EstablishedGrows
  <1>2. PICK id, p, blockers, deps, access, own :
           /\ Assess(id, p, deps, blockers)
           /\ Accept("Assess", auth, access, AssessmentNeeds(p, deps, blockers),
                     [Plain EXCEPT !.own = own, !.about = p])
    BY DEF Evaluate
  <1>3. blockers \subseteq DOMAIN established'
    BY <1>2, NeededIsEstablished DEF AssessmentNeeds, Needs
  <1>4. PICK new : new = [proposal |-> p, deps |-> deps, blockers |-> blockers]
    OBVIOUS
  <1>5. assessments' = Put(assessments, id, new) /\ new.blockers = blockers
    BY <1>2, <1>4 DEF Assess
  <1>6. BlockersIn(DOMAIN established', assessments')
    BY <1>1, <1>3, <1>5 DEF Known, BlockersIn, Put
  <1>7. UNCHANGED << proposals, decisions, agreements >>
    BY <1>2 DEF Assess
  <1> QED BY <1>1, <1>6, <1>7 DEF Known, BlockersIn

\* What a decision endorses was assessed, so it is established already.
LEMMA AssessedIsKnown ==
    ASSUME Known, NEW d, DecisionCoherent(d), d.kind \in Kinds
    PROVE  AssessedBlockers(d) \subseteq DOMAIN established
  BY DEF Known, BlockersIn, DecisionCoherent, AssessedBlockers, Kinds

LEMMA ActivateKnown ==
    ASSUME TypeOK, Known, NoneAccepted \/ OneAccepted, NEW p \in DOMAIN proposals, NEW ds,
           IsPartial(ds, DecisionIds, DecisionRecord),
           DOMAIN decisions \subseteq DOMAIN ds,
           BlockersIn(DOMAIN established, ds), Activate(p, ds),
           UNCHANGED << proposals, assessments >>
    PROVE  Known'
  <1>1. DOMAIN established \subseteq DOMAIN established'
    BY EstablishedGrows
  <1>2. BlockersIn(DOMAIN established, decisions') /\ BlockersIn(DOMAIN established, agreements')
    BY ActivateBringsNone DEF Known
  <1> QED BY <1>1, <1>2 DEF Known, BlockersIn

LEMMA DecideKnown ==
    ASSUME TypeOK, Known, NoneAccepted \/ OneAccepted, NEW id \in DecisionIds, NEW p \in ProposalIds,
           NEW kind \in Kinds, NEW assessment \in AssessmentIds \cup {None},
           NEW deps \in Dependencies, NEW auth \in Authorities,
           Decide(id, p, kind, assessment, deps, auth)
    PROVE  Known'
  <1>1. PICK d : d = NewDecision(p, kind, assessment, deps, auth)
    OBVIOUS
  <1>2. d \in DecisionRecord /\ d.kind = kind
    BY <1>1, ChoicesAreTyped DEF NewDecision, DecisionRecord
  <1>3. PICK e : e = [d EXCEPT !.blockers = AssessedBlockers(d)]
    OBVIOUS
  <1>4. PICK ds : ds = Put(decisions, id, e)
    OBVIOUS
  <1>5. DecisionCoherent(d) /\ p \in DOMAIN proposals /\ Activate(p, ds)
    BY <1>1, <1>3, <1>4 DEF Decide, Proposed, DecisionHolds
  <1>6. AssessedBlockers(d) \subseteq Blockers
    BY <1>2, <1>5, AssessedType
  <1>7. AssessedBlockers(d) \subseteq DOMAIN established
    BY <1>2, <1>5, AssessedIsKnown
  <1>8. e \in DecisionRecord /\ e.blockers = AssessedBlockers(d)
    BY ONLY <1>2, <1>3, <1>6 DEF DecisionRecord
  <1>9. IsPartial(ds, DecisionIds, DecisionRecord) /\ DOMAIN decisions \subseteq DOMAIN ds
    BY <1>4, <1>8, PutType DEF TypeOK, NegotiationTypeOK, Put
  <1>10. BlockersIn(DOMAIN established, ds)
    BY <1>4, <1>7, <1>8 DEF Known, BlockersIn, Put
  <1>11. UNCHANGED << proposals, assessments >>
    BY DEF Decide
  <1> QED BY <1>5, <1>9, <1>10, <1>11, ActivateKnown

LEMMA ReaffirmKnown ==
    ASSUME TypeOK, Known, NoneAccepted \/ OneAccepted, NEW id \in DecisionIds, NEW deps \in Dependencies,
           NEW assessment \in AssessmentIds \cup {None}, NEW auth \in Authorities,
           Reaffirm(id, deps, assessment, auth)
    PROVE  Known'
  <1>1. PICK old : old = decisions[id]
    OBVIOUS
  <1>2. PICK d : d = [old EXCEPT !.deps = deps, !.assessment = assessment]
    OBVIOUS
  <1>3. PICK e : e = [d EXCEPT !.blockers = RenewedBlockers(old, d)]
    OBVIOUS
  <1>4. PICK ds : ds = [decisions EXCEPT ![id] = e]
    OBVIOUS
  <1>5. /\ id \in DOMAIN decisions
        /\ DecisionCoherent(d)
        /\ Activate(old.proposal, ds)
    BY <1>1, <1>2, <1>3, <1>4 DEF Reaffirm
  <1>6. old \in DecisionRecord /\ old.proposal \in DOMAIN proposals
    BY <1>1, <1>5 DEF TypeOK, NegotiationTypeOK, References, IsPartial
  <1>7. d \in DecisionRecord /\ d.kind \in Kinds
    BY ONLY <1>2, <1>6, deps \in Dependencies, assessment \in AssessmentIds \cup {None}
       DEF DecisionRecord
  <1>8. RenewedBlockers(old, d) \subseteq Blockers
    BY <1>5, <1>6, <1>7, AssessedType DEF RenewedBlockers, DecisionRecord
  <1>9. RenewedBlockers(old, d) \subseteq DOMAIN established
    BY <1>1, <1>5, <1>7, AssessedIsKnown DEF RenewedBlockers, Known, BlockersIn
  <1>10. e \in DecisionRecord /\ e.blockers = RenewedBlockers(old, d)
    BY ONLY <1>3, <1>7, <1>8 DEF DecisionRecord
  <1>11. IsPartial(ds, DecisionIds, DecisionRecord) /\ DOMAIN decisions \subseteq DOMAIN ds
    BY <1>4, <1>10, UpdateType DEF TypeOK, NegotiationTypeOK
  <1>12. BlockersIn(DOMAIN established, ds)
    BY <1>4, <1>5, <1>9, <1>10 DEF Known, BlockersIn
  <1>13. UNCHANGED << proposals, assessments >>
    BY DEF Reaffirm
  <1> QED BY <1>5, <1>6, <1>11, <1>12, <1>13, ActivateKnown

LEMMA KnownNext ==
    ASSUME TypeOK, NoneAccepted \/ OneAccepted, Known, ProvenanceNext
    PROVE  Known'
  <1>0. \A auth \in Callers : auth \in Authorities
    BY DEF Callers
  <1>1. ASSUME NEW auth, Draft(auth) \/ Evaluate(auth)
        PROVE  Known'
    BY <1>1, DraftKnown, EvaluateKnown
  <1>2. ASSUME NEW auth \in Callers, TakeDecision(auth)
        PROVE  Known'
    <2>1. PICK id \in DecisionIds \ DOMAIN decisions, p \in DOMAIN proposals, kind \in Kinds,
               deps \in Dependencies, assessment \in DOMAIN assessments \cup {None} :
             Decide(id, p, kind, assessment, deps, auth)
      BY <1>2 DEF TakeDecision
    <2>2. p \in ProposalIds /\ assessment \in AssessmentIds \cup {None}
      BY DEF TypeOK, NegotiationTypeOK, IsPartial
    <2> QED BY <1>0, <2>1, <2>2, DecideKnown
  <1>3. ASSUME NEW auth \in Callers, Renew(auth)
        PROVE  Known'
    <2>1. PICK id \in DOMAIN decisions, deps \in Dependencies,
               assessment \in DOMAIN assessments \cup {None} :
             Reaffirm(id, deps, assessment, auth)
      BY <1>3 DEF Renew
    <2>2. id \in DecisionIds /\ assessment \in AssessmentIds \cup {None}
      BY DEF TypeOK, NegotiationTypeOK, IsPartial
    <2> QED BY <1>0, <2>1, <2>2, ReaffirmKnown
  <1>4. ASSUME NEW auth, TakeBack(auth)
        PROVE  Known'
    <2>1. PICK id : Retract(id, auth)
      BY <1>4 DEF TakeBack
    <2>2. PICK e : e = [decisions[id] EXCEPT !.retracted = TRUE]
      OBVIOUS
    <2>3. /\ id \in DOMAIN decisions /\ decisions' = [decisions EXCEPT ![id] = e]
          /\ UNCHANGED << proposals, assessments, agreements >>
      BY <2>1, <2>2 DEF Retract
    <2>4. decisions[id] \in DecisionRecord
      BY <2>3 DEF TypeOK, NegotiationTypeOK, IsPartial
    <2>5. e.blockers = decisions[id].blockers
      BY <2>2, <2>4 DEF DecisionRecord
    <2>6. BlockersIn(DOMAIN established, decisions')
      BY <2>3, <2>5 DEF Known, BlockersIn
    <2>7. DOMAIN established \subseteq DOMAIN established'
      BY EstablishedGrows
    <2> QED BY <2>3, <2>6, <2>7 DEF Known, BlockersIn
  <1>5. ASSUME NEW auth, Begin(auth) \/ Entrust(auth) \/ Revoke(auth)
        PROVE  Known'
    <2>1. UNCHANGED << proposals, assessments, decisions, agreements >>
      BY <1>5 DEF Begin, Initiate, Entrust, SetGrant, Revoke, RevokeGrant, negotiation
    <2> QED BY <2>1, KnownFrame
  <1>6. ASSUME NEW auth, Report(auth) \/ Conclude(auth)
        PROVE  Known'
    <2>1. ASSUME NEW access, NEW id, NEW evidence, NEW own,
                 Observed(access, id, evidence, own, auth)
          PROVE  UNCHANGED << proposals, assessments, decisions, agreements >>
      BY <2>1 DEF Observed, Finding, Adapt, Progress, Record, negotiation
    <2>2. UNCHANGED << proposals, assessments, decisions, agreements >>
      BY <1>6, <2>1 DEF Report, Conclude, Fulfill, Withdraw, Settle
    <2> QED BY <2>2, KnownFrame
  <1>7. CASE WorldMoves
    <2>1. UNCHANGED << proposals, assessments, decisions, agreements >>
      BY <1>7 DEF WorldMoves, negotiation
    <2> QED BY <2>1, KnownFrame
  <1> QED BY <1>1, <1>2, <1>3, <1>4, <1>5, <1>6, <1>7 DEF ProvenanceNext

-----------------------------------------------------------------------------
(* Where contents were made. *)

\* What was made is what was recorded, under a grant that existed by then; and a grant
\* selects only origins that exist.
OriginsInv ==
    /\ DOMAIN created \subseteq DOMAIN established
    /\ \A k \in DOMAIN created :
          LET use == created[k].use
          IN  /\ created[k].content = k
              /\ use \in Uses
              /\ use.id \in DOMAIN grants
              /\ use.generation <= grants[use.id].generation
    /\ \A id \in DOMAIN grants : OriginsExist(grants[id].spec)

\* A step keeps what was made, and makes at most what it brings under a standing grant.
MadeOnce ==
    /\ DOMAIN created \subseteq DOMAIN created'
    /\ \A k \in DOMAIN created : created'[k] = created[k]
    /\ \A k \in DOMAIN created' \ DOMAIN created :
          \E auth : \E access \in Uses :
             created'[k] = OriginOf(k, access, auth) /\ Holds(access, auth)

LEMMA CreatedOnce ==
    ASSUME NoneAccepted \/ OneAccepted
    PROVE  MadeOnce /\ (DOMAIN created \subseteq DOMAIN established
                           => DOMAIN created' \subseteq DOMAIN established')
  <1>1. CASE NoneAccepted
    BY <1>1 DEF NoneAccepted, MadeOnce
  <1>2. ASSUME NEW kind, NEW auth, NEW access, NEW needs, NEW more,
               Accept(kind, auth, access, needs, more), Orderly(auth, access, needs, more)
        PROVE  MadeOnce /\ (DOMAIN created \subseteq DOMAIN established
                               => DOMAIN created' \subseteq DOMAIN established')
    <2>1. PICK new : new = [k \in more.own.fresh |-> OriginOf(k, access, auth)]
      OBVIOUS
    <2>2. /\ created' = Override(created, new)
          /\ MayCreate(access, auth, more.own.fresh)
          /\ more.own.fresh \subseteq needs.contents
          /\ established' = Override(established, [k \in Bound(needs, more.own) |-> accepted + 1])
      BY <1>2, <2>1 DEF Accept
    <2>3. /\ DOMAIN created' = DOMAIN created \cup more.own.fresh
          /\ \A k \in DOMAIN created : created'[k] = created[k]
          /\ \A k \in more.own.fresh \ DOMAIN created : created'[k] = OriginOf(k, access, auth)
      BY <2>1, <2>2 DEF Override
    <2>4. DOMAIN established' = DOMAIN established \cup Bound(needs, more.own)
      BY <2>2 DEF Override
    <2>5. more.own.fresh # {} => access \in Uses /\ Holds(access, auth)
      BY <1>2, <2>2 DEF MayCreate, Orderly, Accessible
    <2>6. ASSUME NEW k \in DOMAIN created' \ DOMAIN created
          PROVE  \E by : \E use \in Uses : created'[k] = OriginOf(k, use, by) /\ Holds(use, by)
      <3>1. k \in more.own.fresh \ DOMAIN created
        BY ONLY <2>3, <2>6
      <3>2. access \in Uses /\ Holds(access, auth) /\ created'[k] = OriginOf(k, access, auth)
        BY ONLY <2>3, <2>5, <3>1
      <3> QED BY <3>2
    <2>7. MadeOnce
      BY <2>3, <2>6 DEF MadeOnce
    <2>8. DOMAIN created \subseteq DOMAIN established => DOMAIN created' \subseteq DOMAIN established'
      BY ONLY <2>2, <2>3, <2>4 DEF Bound
    <2> QED BY <2>7, <2>8
  <1> QED BY <1>1, <1>2 DEF OneAccepted

\* A grant changes only by being written or revoked, and nothing is made in that step.
LEMMA GrantChanges ==
    ASSUME TypeOK, ProvenanceNext, NEW id \in DOMAIN grants',
           ~(id \in DOMAIN grants /\ grants'[id] = grants[id])
    PROVE  /\ DOMAIN created' = DOMAIN created
           /\ id \in DOMAIN grants => grants'[id].generation # grants[id].generation
           /\ \/ /\ id \in DOMAIN grants
                 /\ grants'[id].revoked /\ grants'[id].spec = grants[id].spec
              \/ OriginsExist(grants'[id].spec)
  <1>0. \A g \in DOMAIN grants : grants[g] \in GrantRecord /\ grants[g].generation \in Int
    BY PursuitBounds DEF TypeOK, IsPartial, GrantRecord
  <1>1. ASSUME UNCHANGED grants
        PROVE  FALSE
    BY <1>1
  <1>2. \A kind, auth, needs, more :
           Accept(kind, auth, None, needs, more) /\ more.own = NoneBrought
              => DOMAIN created' = DOMAIN created
    BY DEF Accept, Override, NoneBrought
  <1>3. ASSUME NEW auth, Entrust(auth)
        PROVE  /\ DOMAIN created' = DOMAIN created
               /\ id \in DOMAIN grants => grants'[id].generation # grants[id].generation
               /\ OriginsExist(grants'[id].spec)
    <2>1. PICK g \in GrantIds, expected \in 1 .. MaxGeneration \cup {None}, spec \in SpecChoices :
             /\ OriginsExist(spec)
             /\ SetGrant(g, expected, spec, auth)
             /\ Accept("SetGrant", auth, None, GrantNeeds(spec),
                  [Plain EXCEPT !.spec = spec, !.cited = OriginCitations(spec)])
      BY <1>3 DEF Entrust
    <2>2. PICK more : more = [Plain EXCEPT !.spec = spec, !.cited = OriginCitations(spec)]
      OBVIOUS
    <2>3. more.own = NoneBrought
      BY <2>2 DEF Plain
    <2>4. DOMAIN created' = DOMAIN created
      BY <1>2, <2>1, <2>2, <2>3
    <2>5. PICK r : r = [generation |-> NextGeneration(g, expected), spec |-> spec, revoked |-> FALSE]
      OBVIOUS
    <2>6. grants' = Put(grants, g, r) /\ Replaceable(g, expected)
      BY <2>1, <2>5 DEF SetGrant
    <2>7. g = id /\ grants'[id] = r
      BY <2>6 DEF Put
    <2>8. g \in DOMAIN grants => r.generation = grants[g].generation + 1
      BY <2>5, <2>6 DEF Replaceable, NextGeneration
    <2> QED BY <1>0, <2>1, <2>4, <2>5, <2>7, <2>8
  <1>4. ASSUME NEW auth, Revoke(auth)
        PROVE  /\ DOMAIN created' = DOMAIN created
               /\ id \in DOMAIN grants => grants'[id].generation # grants[id].generation
               /\ id \in DOMAIN grants
               /\ grants'[id].revoked /\ grants'[id].spec = grants[id].spec
    <2>1. PICK g, expected : /\ RevokeGrant(g, expected, auth)
                             /\ Accept("RevokeGrant", auth, None, Nothing, Plain)
      BY <1>4 DEF Revoke
    <2>2. DOMAIN created' = DOMAIN created
      BY <1>2, <2>1 DEF Plain
    <2>3. g \in DOMAIN grants /\ grants' = [grants EXCEPT ![g] = RevokedGrant(grants[g])]
      BY <2>1 DEF RevokeGrant
    <2>4. id = g /\ grants'[id] = RevokedGrant(grants[id]) /\ id \in DOMAIN grants
      BY <2>3
    <2>5. /\ RevokedGrant(grants[id]).revoked
          /\ RevokedGrant(grants[id]).spec = grants[id].spec
          /\ RevokedGrant(grants[id]).generation = grants[id].generation + 1
      BY <1>0, <2>4 DEF RevokedGrant, GrantRecord
    <2> QED BY <1>0, <2>2, <2>4, <2>5
  <1>5. ASSUME NEW auth,
               \/ Begin(auth) \/ Draft(auth) \/ Evaluate(auth) \/ Report(auth)
               \/ TakeDecision(auth) \/ Renew(auth) \/ TakeBack(auth) \/ Conclude(auth)
        PROVE  UNCHANGED grants
    <2>1. ASSUME NEW access, NEW x, NEW evidence, NEW own,
                 Observed(access, x, evidence, own, auth)
          PROVE  UNCHANGED grants
      BY <2>1 DEF Observed, Finding, Adapt, Progress, Record, native
    <2>2. CASE Report(auth)
      BY <2>1, <2>2 DEF Report
    <2>3. CASE Begin(auth) \/ Draft(auth) \/ Evaluate(auth)
      <3>1. Begin(auth) => UNCHANGED grants
        BY DEF Begin, native
      <3>2. Draft(auth) => UNCHANGED grants
        BY DEF Draft, native
      <3>3. Evaluate(auth) => UNCHANGED grants
        BY DEF Evaluate, native
      <3> QED BY <2>3, <3>1, <3>2, <3>3
    <2>4. CASE TakeDecision(auth) \/ Renew(auth) \/ TakeBack(auth) \/ Conclude(auth)
      BY <2>4 DEF TakeDecision, Renew, TakeBack, Conclude, Fulfill, Withdraw, native
    <2> QED BY <1>5, <2>2, <2>3, <2>4
  <1>6. CASE WorldMoves
    BY <1>1, <1>6 DEF WorldMoves, native
  <1> QED BY <1>1, <1>3, <1>4, <1>5, <1>6 DEF ProvenanceNext

LEMMA OriginsInit == ProvenanceInit => OriginsInv
  <1> SUFFICES ASSUME ProvenanceInit PROVE OriginsInv
    OBVIOUS
  <1>1. DOMAIN created = {} /\ DOMAIN grants = {}
    BY EmptyType DEF ProvenanceInit, Init
  <1> QED BY <1>1 DEF OriginsInv

LEMMA OriginsNext ==
    ASSUME TypeOK, GrantsAdvance, NoneAccepted \/ OneAccepted, OriginsInv, ProvenanceNext
    PROVE  OriginsInv'
  <1>1. MadeOnce /\ DOMAIN created' \subseteq DOMAIN established'
    BY CreatedOnce DEF OriginsInv
  <1>0. \A g \in DOMAIN grants : grants[g].generation \in Int
    BY PursuitBounds DEF TypeOK, IsPartial, GrantRecord
  <1>5. \A g \in DOMAIN grants' : grants'[g].generation \in Int
    BY StepsAreSteps, StepType, PursuitBounds DEF TypeOK, IsPartial, GrantRecord
  <1>2. ASSUME NEW k \in DOMAIN created'
        PROVE  /\ created'[k].content = k
               /\ created'[k].use \in Uses
               /\ created'[k].use.id \in DOMAIN grants'
               /\ created'[k].use.generation <= grants'[created'[k].use.id].generation
    <2>1. CASE k \in DOMAIN created
      <3>1. PICK use : use = created[k].use
        OBVIOUS
      <3>2. /\ created'[k].content = k /\ created'[k].use = use /\ use \in Uses
            /\ use.id \in DOMAIN grants
            /\ use.generation <= grants[use.id].generation
        BY <1>1, <2>1, <3>1 DEF MadeOnce, OriginsInv
      <3>3. use.id \in DOMAIN grants' /\ grants'[use.id].generation >= grants[use.id].generation
        BY <3>2 DEF GrantsAdvance
      <3>4. use.generation \in Int
        BY <3>2 DEF Uses
      <3> QED BY <1>0, <1>5, <3>2, <3>3, <3>4
    <2>2. CASE k \notin DOMAIN created
      <3>1. PICK auth : \E access \in Uses :
               created'[k] = OriginOf(k, access, auth) /\ Holds(access, auth)
        BY <1>1, <2>2 DEF MadeOnce
      <3>2. PICK access \in Uses : created'[k] = OriginOf(k, access, auth) /\ Holds(access, auth)
        BY <3>1
      <3>3. created'[k].content = k /\ created'[k].use = access
        BY <3>2 DEF OriginOf
      <3>4. access.id \in DOMAIN grants /\ grants[access.id].generation = access.generation
        BY <3>2 DEF Holds
      <3>5. access.id \in DOMAIN grants'
            /\ grants'[access.id].generation >= grants[access.id].generation
        BY <3>4 DEF GrantsAdvance
      <3> QED BY <1>0, <1>5, <3>3, <3>4, <3>5
    <2> QED BY <2>1, <2>2
  <1>4. ASSUME NEW id \in DOMAIN grants'
        PROVE  OriginsExist(grants[id].spec)'
    <2>1. OriginsExist(grants'[id].spec)
      <3>1. CASE id \in DOMAIN grants /\ grants'[id] = grants[id]
        BY <3>1 DEF OriginsInv
      <3>2. CASE ~(id \in DOMAIN grants /\ grants'[id] = grants[id])
        BY <3>2, GrantChanges DEF OriginsInv
      <3> QED BY <3>1, <3>2
    <2>2. OriginsExist(grants'[id].spec) => OriginsExist(grants[id].spec)'
      BY <1>1 DEF OriginsExist, MadeOnce
    <2> QED BY <2>1, <2>2
  <1> QED BY <1>1, <1>2, <1>4 DEF OriginsInv

-----------------------------------------------------------------------------
(* What a grant reaches. *)

\* The contents made in this step under the grant as it is after it.
MadeUnder(id) ==
    {k \in DOMAIN created' \ DOMAIN created :
        created'[k].use = [id |-> id, generation |-> grants'[id].generation]}

\* What a selection finds anew is made under the very grant, or was there under its name.
LEMMA SelectionAnew ==
    ASSUME MadeOnce, NEW id, NEW own, NEW origins, NEW k, Selected(k, id, own, origins)',
           grants'[id] = grants[id],
           \A o \in origins : o.content \in DOMAIN created /\ created[o.content] = o
    PROVE  Selected(k, id, own, origins) \/ k \in MadeUnder(id)
  <1>1. k \in DOMAIN created' /\ grants'[id] = grants[id]
    BY DEF Selected
  <1>2. CASE k \in DOMAIN created
    BY <1>1, <1>2 DEF Selected, MadeOnce
  <1>3. CASE k \notin DOMAIN created
    <2>1. PICK auth : \E access \in Uses : created'[k] = OriginOf(k, access, auth)
      BY <1>1, <1>3 DEF MadeOnce
    <2>2. created'[k].content = k
      BY <2>1 DEF OriginOf
    <2>3. created'[k] \notin origins
      BY <1>3, <2>2
    <2> QED BY <1>1, <1>3, <2>3 DEF Selected, MadeUnder
  <1> QED BY <1>2, <1>3

\* Nobody made anything yet under a generation that was not reached.
LEMMA SelectionOfNew ==
    ASSUME OriginsInv, DOMAIN created' = DOMAIN created, MadeOnce, NEW id, NEW own, NEW origins,
           NEW k, Selected(k, id, own, origins)',
           id \in DOMAIN grants => grants[id].generation < grants'[id].generation,
           id \in DOMAIN grants => grants[id].generation \in Int,
           grants'[id].generation \in Int
    PROVE  k \in {o.content : o \in origins}
  <1>1. k \in DOMAIN created /\ created'[k] = created[k]
    BY DEF Selected, MadeOnce
  <1>2. PICK use : use = created[k].use
    OBVIOUS
  <1>3. /\ created[k].content = k /\ use \in Uses /\ use.id \in DOMAIN grants
        /\ use.generation <= grants[use.id].generation
    BY <1>1, <1>2 DEF OriginsInv
  <1>4. use.generation \in Int
    BY <1>3 DEF Uses
  <1>5. use # [id |-> id, generation |-> grants'[id].generation]
    BY <1>3, <1>4
  <1>6. created[k] \in origins
    BY <1>1, <1>2, <1>5 DEF Selected
  <1> QED BY <1>3, <1>6

Reaches ==
    \A id \in DOMAIN grants' :
        LET spec == grants'[id].spec
        IN  IF id \in DOMAIN grants /\ grants[id].generation = grants'[id].generation
            THEN /\ Usable(id)' \subseteq Usable(id) \cup MadeUnder(id)
                 /\ Readable(id)' \subseteq Readable(id) \cup MadeUnder(id)
            ELSE /\ Usable(id)' \subseteq Named(spec.content, spec.contentOrigins)
                 /\ Readable(id)' \subseteq Named(spec.disclosure, spec.disclosureOrigins)

LEMMA ReachesNext ==
    ASSUME TypeOK, OriginsInv, GrantsAdvance, NoneAccepted \/ OneAccepted, ProvenanceNext
    PROVE  Reaches
  <1>1. MadeOnce
    BY CreatedOnce
  <1>2. ~Open => ~Open'
    <2>1. [Next]_vars
      BY StepsAreSteps
    <2> QED BY <2>1, ClosedIsStill DEF Open, negotiation
  <1>3. ASSUME NEW id \in DOMAIN grants',
               id \in DOMAIN grants, grants[id].generation = grants'[id].generation
        PROVE  /\ Usable(id)' \subseteq Usable(id) \cup MadeUnder(id)
               /\ Readable(id)' \subseteq Readable(id) \cup MadeUnder(id)
    <2>1. grants'[id] = grants[id]
      BY <1>3 DEF GrantsAdvance
    <2>2. PICK spec : spec = grants[id].spec
      OBVIOUS
    <2>3. OriginsExist(spec)
      BY <1>3, <2>2 DEF OriginsInv
    <2>4. ASSUME NEW k, Selected(k, id, spec.contentOwn, spec.contentOrigins)'
          PROVE  Selected(k, id, spec.contentOwn, spec.contentOrigins) \/ k \in MadeUnder(id)
      BY <1>1, <2>1, <2>3, <2>4, SelectionAnew DEF OriginsExist
    <2>5. ASSUME NEW k, Selected(k, id, spec.disclosureOwn, spec.disclosureOrigins)'
          PROVE  Selected(k, id, spec.disclosureOwn, spec.disclosureOrigins) \/ k \in MadeUnder(id)
      BY <1>1, <2>1, <2>3, <2>5, SelectionAnew DEF OriginsExist
    <2>6. grants[id].spec = spec /\ grants'[id].spec = spec
      BY <2>1, <2>2
    <2>7. Usable(id)' \subseteq Usable(id) \cup MadeUnder(id)
      BY <2>4, <2>6 DEF Usable, SelectedForUse
    <2>8. Disclosed(id)' \subseteq Disclosed(id) \cup MadeUnder(id)
      BY <2>5, <2>6 DEF Disclosed
    <2> QED BY <1>2, <2>1, <2>7, <2>8 DEF Readable
  <1>4. ASSUME NEW id \in DOMAIN grants',
               ~(id \in DOMAIN grants /\ grants[id].generation = grants'[id].generation)
        PROVE  /\ Usable(id)' \subseteq Named(grants'[id].spec.content, grants'[id].spec.contentOrigins)
               /\ Readable(id)' \subseteq Named(grants'[id].spec.disclosure,
                                               grants'[id].spec.disclosureOrigins)
    <2>1. DOMAIN created' = DOMAIN created
      BY <1>4, GrantChanges
    <2>2. /\ id \in DOMAIN grants => grants[id].generation \in Int
          /\ grants'[id].generation \in Int
      BY StepsAreSteps, StepType, PursuitBounds DEF TypeOK, IsPartial, GrantRecord
    <2>3. id \in DOMAIN grants => grants[id].generation < grants'[id].generation
      BY <1>4, <2>2 DEF GrantsAdvance
    <2>4. PICK spec : spec = grants'[id].spec
      OBVIOUS
    <2>5. \A k, own, origins :
             Selected(k, id, own, origins)' => k \in {o.content : o \in origins}
      BY <1>1, <2>1, <2>2, <2>3, SelectionOfNew
    <2>6. Usable(id)' \subseteq Named(spec.content, spec.contentOrigins)
      BY <2>4, <2>5 DEF Usable, SelectedForUse, Named
    <2>7. Disclosed(id)' \subseteq Named(spec.disclosure, spec.disclosureOrigins)
      BY <2>4, <2>5 DEF Disclosed, Named
    <2> QED BY <2>4, <2>6, <2>7 DEF Readable
  <1> QED BY <1>3, <1>4 DEF Reaches

-----------------------------------------------------------------------------
(* What the properties rest on. *)

\* Proposals come with their statements, and otherwise both stay.
LEMMA ProposalsStay ==
    ASSUME NEW auth,
           \/ Begin(auth) \/ Entrust(auth) \/ Revoke(auth) \/ Evaluate(auth) \/ Report(auth)
           \/ TakeDecision(auth) \/ Renew(auth) \/ TakeBack(auth) \/ Conclude(auth)
    PROVE  UNCHANGED proposals
  <1>1. CASE Begin(auth) \/ Entrust(auth) \/ Revoke(auth)
    BY <1>1 DEF Begin, Initiate, Entrust, SetGrant, Revoke, RevokeGrant, negotiation
  <1>2. CASE Evaluate(auth)
    <2>1. \A id, p, deps, blockers : Assess(id, p, deps, blockers) => UNCHANGED proposals
      BY DEF Assess
    <2> QED BY <1>2, <2>1 DEF Evaluate
  <1>3. ASSUME NEW access, NEW id, NEW evidence, NEW own, Observed(access, id, evidence, own, auth)
        PROVE  UNCHANGED proposals
    BY <1>3 DEF Observed, Finding, Adapt, Progress, Record, negotiation
  <1>4. CASE Report(auth)
    BY <1>3, <1>4 DEF Report
  <1>5. CASE TakeDecision(auth) \/ Renew(auth) \/ TakeBack(auth)
    <2>1. \A id, p, kind, assessment, deps :
             Decide(id, p, kind, assessment, deps, auth) => UNCHANGED proposals
      BY DEF Decide
    <2>2. \A id, deps, assessment : Reaffirm(id, deps, assessment, auth) => UNCHANGED proposals
      BY DEF Reaffirm
    <2>3. \A id : Retract(id, auth) => UNCHANGED proposals
      BY DEF Retract
    <2> QED BY <1>5, <2>1, <2>2, <2>3 DEF TakeDecision, Renew, TakeBack
  <1>6. CASE Conclude(auth)
    BY <1>6 DEF Conclude, Fulfill, Withdraw, Settle
  <1> QED BY <1>1, <1>2, <1>4, <1>5, <1>6

\* What an operation bound is never unbound, and what it establishes it binds.
LEMMA MembershipsGrow ==
    ASSUME NoneAccepted \/ OneAccepted
    PROVE  /\ memberships \subseteq memberships'
           /\ (\A k \in DOMAIN established : Citation(established[k], k) \in memberships)
                => \A k \in DOMAIN established' : Citation(established'[k], k) \in memberships'
  <1>1. CASE NoneAccepted
    BY <1>1 DEF NoneAccepted
  <1>2. ASSUME NEW kind, NEW auth, NEW access, NEW needs, NEW more,
               Accept(kind, auth, access, needs, more)
        PROVE  /\ memberships \subseteq memberships'
               /\ (\A k \in DOMAIN established : Citation(established[k], k) \in memberships)
                    => \A k \in DOMAIN established' : Citation(established'[k], k) \in memberships'
    BY <1>2 DEF Accept, Override
  <1> QED BY <1>1, <1>2 DEF OneAccepted

LEMMA CitationsNext ==
    ASSUME NoneAccepted \/ OneAccepted, CitationsInv, ProvenanceNext
    PROVE  CitationsInv'
  <1>1. DOMAIN created' \subseteq DOMAIN established'
    BY CreatedOnce DEF CitationsInv
  <1>2. /\ memberships \subseteq memberships'
        /\ \A k \in DOMAIN established' : Citation(established'[k], k) \in memberships'
    BY MembershipsGrow DEF CitationsInv
  <1>3. ASSUME NEW auth, Draft(auth)
        PROVE  StatementsStand'
    <2>0. PICK access, id, a, expected, terms, deps, own :
             /\ Propose(id, a, expected, terms, deps)
             /\ AcceptDraft(id, terms, auth, access, Needs(TermsContents(terms), DOMAIN deps), own)
      BY <1>3 DEF Draft
    <2>1. PICK cited, more :
             /\ cited \in Citing(TermsContents(terms), {accepted + 1})
             /\ Accept("Propose", auth, access, Needs(TermsContents(terms), DOMAIN deps), more)
             /\ \E stated \in Statements(terms, cited) : statements' = Put(statements, id, stated)
      BY <2>0 DEF AcceptDraft
    <2>2. PICK stated \in SUBSET cited : statements' = Put(statements, id, stated)
      BY <2>1 DEF Statements
    <2>3. memberships \cup {Citation(accepted + 1, k) : k \in TermsContents(terms)}
             \subseteq memberships'
      BY <2>1 DEF Accept, Bound, Needs
    <2>4. stated \subseteq memberships'
      BY <2>1, <2>2, <2>3, CitingStands
    <2>5. PICK new : proposals' = Put(proposals, id, new)
      BY <2>0 DEF Propose
    <2> QED BY <1>2, <2>2, <2>4, <2>5 DEF CitationsInv, StatementsStand, Put
  <1>4. WorldMoves => UNCHANGED proposals
    BY DEF WorldMoves, negotiation
  <1>5. (\E auth : Draft(auth)) \/ (UNCHANGED proposals /\ UNCHANGED statements)
    BY <1>4, ProposalsStay DEF ProvenanceNext
  <1>6. StatementsStand'
    BY <1>2, <1>3, <1>5 DEF CitationsInv, StatementsStand
  <1> QED BY <1>1, <1>2, <1>6 DEF CitationsInv

ProvenanceInv == StandingInv /\ CitationsInv /\ OriginsInv /\ Known

LEMMA ProvenanceInvInit == ProvenanceInit => ProvenanceInv
  <1> SUFFICES ASSUME ProvenanceInit PROVE ProvenanceInv
    OBVIOUS
  <1>1. DOMAIN proposals = {} /\ DOMAIN assessments = {} /\ DOMAIN decisions = {} /\ DOMAIN agreements = {}
    BY EmptyType DEF ProvenanceInit, Init, NegotiationInit
  <1>2. Known
    BY <1>1 DEF Known, BlockersIn
  <1>3. CitationsInv
    BY <1>1, EmptyType DEF ProvenanceInit, CitationsInv, StatementsStand
  <1> QED BY <1>2, <1>3, OriginsInit, StandingInit DEF ProvenanceInit, ProvenanceInv

LEMMA ProvenanceInvNext ==
    ASSUME ProvenanceInv, [ProvenanceNext]_provenanceVars
    PROVE  ProvenanceInv'
  <1>1. StandingInv /\ TypeOK
    BY DEF ProvenanceInv, StandingInv, HistoryInv
  <1>2. [Next]_vars
    BY <1>1, StepsAreSteps
  <1>3. StandingInv'
    BY <1>1, <1>2, StandingInvNext
  <1>4. CASE ProvenanceNext
    <2>1. NoneAccepted \/ OneAccepted
      BY <1>1, <1>4, AcceptedStep DEF ProvenanceInv
    <2>4. CitationsInv'
      BY <1>4, <2>1, CitationsNext DEF ProvenanceInv
    <2>2. OriginsInv'
      BY <1>1, <1>2, <1>4, <2>1, GrantsOnlyAdvance, OriginsNext DEF ProvenanceInv
    <2>3. Known'
      BY <1>1, <1>4, <2>1, KnownNext DEF ProvenanceInv
    <2> QED BY <1>3, <2>2, <2>3, <2>4 DEF ProvenanceInv
  <1>5. CASE UNCHANGED provenanceVars
    <2>1. UNCHANGED << proposals, assessments, decisions, agreements, grants, created,
                       established, memberships, statements >>
      BY <1>5 DEF provenanceVars, vars, negotiation, native, history
    <2>2. OriginsInv'
      BY <2>1 DEF ProvenanceInv, OriginsInv, OriginsExist
    <2>3. Known'
      BY <2>1 DEF ProvenanceInv, Known, BlockersIn
    <2>4. CitationsInv'
      BY <2>1 DEF ProvenanceInv, CitationsInv, StatementsStand
    <2> QED BY <1>3, <2>2, <2>3, <2>4 DEF ProvenanceInv
  <1> QED BY <1>4, <1>5

LEMMA ProvenanceInvHolds == ProvenanceSpec => []ProvenanceInv
  BY ProvenanceInvInit, ProvenanceInvNext, PTL DEF ProvenanceSpec

\* No use of a content, an earlier operation or a ground escapes a reader of the history,
\* whichever of the operations that bound a content the caller cited; and whatever a record
\* is found by stands in the history under a content that it bound itself.
THEOREM UsesAreFound == ProvenanceSpec => []FoundWhereUsed
  <1>1. ProvenanceInit => FoundWhereUsed
    BY DEF ProvenanceInit, FoundWhereUsed
  <1>2. ProvenanceInv /\ FoundWhereUsed /\ [ProvenanceNext]_provenanceVars => FoundWhereUsed'
    <2>1. NoneAccepted => FoundWhereUsed'
      BY DEF NoneAccepted, FoundWhereUsed
    <2>2. FoundWhereUsed /\ UNCHANGED provenanceVars => FoundWhereUsed'
      <3> SUFFICES ASSUME FoundWhereUsed, UNCHANGED provenanceVars PROVE FoundWhereUsed'
        OBVIOUS
      <3>1. /\ record' = record /\ grounds' = grounds
            /\ established' = established /\ memberships' = memberships
        BY DEF provenanceVars, history, vars
      <3>2. PublicRecord(record)' = PublicRecord(record) /\ Visited(record)' = Visited(record)
        BY <3>1 DEF PublicRecord, Visited
      <3>3. /\ \A k : FoundByContent(record, k)' = FoundByContent(record, k)
            /\ \A n : FoundByOperation(record, n)' = FoundByOperation(record, n)
            /\ \A c : FoundByMembership(record, c)' = FoundByMembership(record, c)
            /\ \A g, v : FoundByGround(record, g, v)' = FoundByGround(record, g, v)
            /\ FoundByChange(record)' = FoundByChange(record)
        BY <3>1, <3>2 DEF FoundByContent, FoundByOperation, FoundByMembership, FoundByGround,
                          FoundByChange
      <3> QED
        BY <3>1, <3>2, <3>3 DEF FoundWhereUsed, Citation
    <2> QED BY <2>1, <2>2, AcceptedStep, AcceptedIsFound DEF ProvenanceInv
  <1> QED BY <1>1, <1>2, ProvenanceInvHolds, PTL DEF ProvenanceSpec

\* A standing grant reaches what its own holder makes under it and nothing else that comes
\* later, and a new generation starts with what the owner named.
THEOREM ReachStaysGranted == ProvenanceSpec => ReachIsGranted
  <1>1. ProvenanceInv /\ [ProvenanceNext]_provenanceVars => [Reaches]_provenanceVars
    <2> SUFFICES ASSUME ProvenanceInv, ProvenanceNext PROVE Reaches
      OBVIOUS
    <2>1. StandingInv /\ TypeOK /\ OriginsInv
      BY DEF ProvenanceInv, StandingInv, HistoryInv
    <2>2. GrantsAdvance
      BY <2>1, StepsAreSteps, GrantsOnlyAdvance
    <2> QED BY <2>1, <2>2, AcceptedStep, ReachesNext DEF ProvenanceInv
  <1>2. [Reaches]_provenanceVars =>
          [\A id \in DOMAIN grants' :
            LET made == {k \in DOMAIN created' \ DOMAIN created :
                            created'[k].use = [id |-> id, generation |-> grants'[id].generation]}
                spec == grants'[id].spec
            IN  IF id \in DOMAIN grants /\ grants[id].generation = grants'[id].generation
                THEN /\ Usable(id)' \subseteq Usable(id) \cup made
                     /\ Readable(id)' \subseteq Readable(id) \cup made
                ELSE /\ Usable(id)' \subseteq Named(spec.content, spec.contentOrigins)
                     /\ Readable(id)' \subseteq Named(spec.disclosure, spec.disclosureOrigins)
          ]_provenanceVars
    BY DEF Reaches, MadeUnder
  <1> QED BY <1>1, <1>2, ProvenanceInvHolds, PTL DEF ReachIsGranted, ProvenanceSpec

-----------------------------------------------------------------------------
(* What a delegate may use. *)

\* What a command under a grant needs and does not bring, the grant reaches.
LEMMA NeededIsUsable ==
    ASSUME MadeOnce, UNCHANGED grants, NEW access, access # None, NEW action, NEW agreement,
           NEW auth, NEW needs, NEW own,
           RecordAccess(access, action, agreement, auth, Items(access, needs, own)),
           MayCreate(access, auth, own.fresh),
           NEW X, X \subseteq needs.contents, X \subseteq DOMAIN established, X \subseteq Contents
    PROVE  X \subseteq Usable(access.id)'
  <1>1. ASSUME NEW k \in X
        PROVE  k \in Usable(access.id)'
    <2>1. k \notin own.fresh
      BY DEF MayCreate
    <2>2. /\ access.id \in DOMAIN grants
          /\ Items(access, needs, own) \subseteq grants[access.id].spec.content
      BY DEF RecordAccess, Holds, Covers
    <2>3. k \in Bound(needs, own) \ own.fresh
      BY <2>1 DEF Bound
    <2>4. k \in grants[access.id].spec.content \/ SelectedForUse(k, access.id)
      BY <2>2, <2>3 DEF Items
    <2>5. SelectedForUse(k, access.id) => SelectedForUse(k, access.id)'
      BY DEF SelectedForUse, Selected, MadeOnce
    <2> QED BY <2>4, <2>5 DEF Usable
  <1> QED BY <1>1

\* Terms and blockers are contents.
LEMMA NamedAreContents ==
    ASSUME TypeOK
    PROVE  /\ \A p \in DOMAIN proposals : TermsContents(proposals[p].terms) \subseteq Contents
           /\ \A a \in DOMAIN agreements : /\ agreements[a].blockers \subseteq Contents
                                           /\ agreements[a].proposal \in DOMAIN proposals
  BY ProvenanceAssumption
  DEF TypeOK, NegotiationTypeOK, References, IsPartial, ProposalRecord, AgreementRecord

\* What the record of a command is about.
AboutNothing == record' = None \/ record'.use = None \/ record'.about = None

LEMMA PlainIsAboutNothing ==
    ASSUME NEW kind, NEW auth, NEW access, NEW needs, NEW more,
           Accept(kind, auth, access, needs, more), access = None \/ more.about = None
    PROVE  AboutNothing
  <1>1. record'.use = access /\ record'.about = more.about
    BY DEF Accept, Stored
  <1> QED BY <1>1 DEF AboutNothing

LEMMA EvaluateKnows ==
    ASSUME TypeOK, Known, MadeOnce, NEW auth, Evaluate(auth)
    PROVE  DelegatesKnowTheWhole'
  <1>1. PICK access \in Accessible(auth), id \in AssessmentIds \ DOMAIN assessments,
             p \in DOMAIN proposals, blockers \in SUBSET Blockers, deps \in Dependencies,
             own \in Brings :
          /\ Assess(id, p, deps, blockers)
          /\ RecordAccess(access, "Assess", None, auth,
                          Items(access, AssessmentNeeds(p, deps, blockers), own))
          /\ Accept("Assess", auth, access, AssessmentNeeds(p, deps, blockers),
                    [Plain EXCEPT !.own = own, !.about = p])
          /\ UNCHANGED native
    BY ZenonT(20) DEF Evaluate
  <1>2. PICK needs : needs = AssessmentNeeds(p, deps, blockers)
    OBVIOUS
  <1>3. PICK more : more = [Plain EXCEPT !.own = own, !.about = p]
    OBVIOUS
  <1>4. more.own = own /\ more.about = p
    BY <1>3 DEF Plain
  <1>5. /\ record'.use = access /\ record'.about = p /\ record'.kind = "Assess"
        /\ MayCreate(access, auth, own.fresh)
    BY <1>1, <1>2, <1>3, <1>4 DEF Accept, Stored
  <1>6. grants' = grants /\ proposals' = proposals
    BY <1>1 DEF Assess, native
  <1>7. PICK X : X = TermsContents(proposals[p].terms)
    OBVIOUS
  <1>8. X \subseteq needs.contents /\ X \subseteq DOMAIN established /\ X \subseteq Contents
    BY <1>2, <1>7, NamedAreContents DEF Known, AssessmentNeeds, Needs, ProposalContents
  <1>9. access # None => X \subseteq Usable(access.id)'
    BY <1>1, <1>2, <1>5, <1>6, <1>8, NeededIsUsable
  <1> QED BY <1>5, <1>6, <1>7, <1>9 DEF DelegatesKnowTheWhole

LEMMA ObserverKnows ==
    ASSUME TypeOK, Known, AgreementRestsOnBothParties, MadeOnce, NEW auth, NEW access, NEW id,
           NEW evidence, NEW own, Observed(access, id, evidence, own, auth)
    PROVE  DelegatesKnowTheWhole'
  <1>1. PICK needs : needs = ObservationNeeds(id, evidence)
    OBVIOUS
  <1>2. PICK more : more = [Plain EXCEPT !.own = own, !.about = id]
    OBVIOUS
  <1>3. more.own = own /\ more.about = id
    BY <1>2 DEF Plain
  <1>4. \A cited : [more EXCEPT !.cited = cited].own = own /\ [more EXCEPT !.cited = cited].about = id
    BY <1>2 DEF Plain
  <1>5. PICK kind, last :
          /\ Accept(kind, auth, access, needs, last)
          /\ kind # "Assess" /\ last.own = own /\ last.about = id
    BY <1>1, <1>2, <1>3, <1>4 DEF Observed
  <1>6. /\ record'.use = access /\ record'.about = id /\ record'.kind # "Assess"
        /\ MayCreate(access, auth, own.fresh)
    BY <1>5 DEF Accept, Stored
  <1>7. /\ UNCHANGED << grants, proposals, agreements >>
        /\ id # None => id \in DOMAIN agreements
    BY DEF Observed, Finding, Adapt, Progress, Record, CurrentGrounds, negotiation, native
  <1>8. PICK action : RecordAccess(access, action, id, auth, Items(access, needs, own))
    BY <1>1 DEF Observed, Finding, Adapt, Progress
  <1>9. ASSUME access # None, id # None
        PROVE  agreements[id].blockers
                  \cup TermsContents(proposals[agreements[id].proposal].terms) \subseteq Usable(access.id)'
    <2>1. PICK X : X = agreements[id].blockers
                          \cup TermsContents(proposals[agreements[id].proposal].terms)
      OBVIOUS
    <2>2. id \in DOMAIN agreements
      BY <1>7, <1>9
    <2>3. X \subseteq needs.contents
      BY <1>1, <1>9, <2>1, <2>2, AgreementIsNeeded
    <2>4. X \subseteq DOMAIN established /\ X \subseteq Contents
      BY <2>1, <2>2, NamedAreContents DEF Known, BlockersIn
    <2>5. X \subseteq Usable(access.id)'
      BY <1>6, <1>7, <1>8, <1>9, <2>3, <2>4, NeededIsUsable
    <2> QED BY <2>1, <2>5
  <1>10. DelegatesKnowTheWhole' =
           (record' # None /\ record'.use # None /\ record'.about # None =>
              agreements'[record'.about].blockers
                \cup TermsContents(proposals'[agreements'[record'.about].proposal].terms)
              \subseteq Usable(record.use.id)')
    BY <1>6 DEF DelegatesKnowTheWhole
  <1> QED BY <1>6, <1>7, <1>9, <1>10

LEMMA DelegatesNext ==
    ASSUME ProvenanceInv, ProvenanceNext
    PROVE  DelegatesKnowTheWhole'
  <1>1. TypeOK /\ Known /\ StandingInv /\ AgreementRestsOnBothParties
    BY DEF ProvenanceInv, StandingInv, HistoryInv, AgreementStands
  <1>2. MadeOnce
    BY <1>1, AcceptedStep, CreatedOnce DEF ProvenanceInv
  <1>3. AboutNothing => DelegatesKnowTheWhole'
    BY DEF AboutNothing, DelegatesKnowTheWhole
  <1>4. ASSUME NEW auth, Begin(auth) \/ Draft(auth) \/ Entrust(auth)
        PROVE  AboutNothing
    <2>1. ASSUME NEW own
          PROVE  [Plain EXCEPT !.own = own].about = None
      BY DEF Plain
    <2>2. ASSUME NEW own, NEW cited
          PROVE  [Plain EXCEPT !.own = own, !.cited = cited].about = None
      BY DEF Plain
    <2>3. CASE Begin(auth)
      BY <2>1, <2>3, PlainIsAboutNothing DEF Begin
    <2>4. CASE Draft(auth)
      <3>1. PICK id, terms, access, needs, own : AcceptDraft(id, terms, auth, access, needs, own)
        BY <2>4 DEF Draft
      <3> QED BY <2>2, <3>1, PlainIsAboutNothing DEF AcceptDraft
    <2>5. CASE Entrust(auth)
      BY <2>5, PlainIsAboutNothing DEF Entrust
    <2> QED BY <1>4, <2>3, <2>4, <2>5
  <1>5. ASSUME NEW auth,
               TakeDecision(auth) \/ Renew(auth) \/ TakeBack(auth) \/ Revoke(auth) \/ Conclude(auth)
        PROVE  AboutNothing
    <2>1. \E kind, needs : Accept(kind, auth, None, needs, Plain)
      BY <1>5 DEF TakeDecision, Renew, TakeBack, Revoke, Conclude
    <2> QED BY <2>1, PlainIsAboutNothing
  <1>6. CASE record' = None
    BY <1>3, <1>6 DEF AboutNothing
  <1>7. ASSUME NEW auth, Report(auth)
        PROVE  DelegatesKnowTheWhole'
    BY <1>1, <1>2, <1>7, ObserverKnows DEF Report
  <1>8. ASSUME NEW auth, Evaluate(auth)
        PROVE  DelegatesKnowTheWhole'
    BY <1>1, <1>2, <1>8, EvaluateKnows
  <1> QED
    BY <1>3, <1>4, <1>5, <1>6, <1>7, <1>8 DEF ProvenanceNext

\* Nobody assesses a proposal or observes under an agreement with a grant that keeps part
\* of its terms, or a blocker it carries, out of reach.
THEOREM DelegatesKnow == ProvenanceSpec => []DelegatesKnowTheWhole
  <1>1. ProvenanceInit => DelegatesKnowTheWhole
    BY DEF ProvenanceInit, DelegatesKnowTheWhole
  <1>2. ProvenanceInv /\ DelegatesKnowTheWhole /\ [ProvenanceNext]_provenanceVars
           => DelegatesKnowTheWhole'
    <2>1. ASSUME DelegatesKnowTheWhole, UNCHANGED provenanceVars
          PROVE  DelegatesKnowTheWhole'
      <3>1. UNCHANGED << record, proposals, agreements, grants, created >>
        BY <2>1 DEF provenanceVars, vars, negotiation, native, history
      <3>2. \A id : Usable(id)' = Usable(id)
        BY <3>1 DEF Usable, SelectedForUse, Selected
      <3> QED BY <2>1, <3>1, <3>2 DEF DelegatesKnowTheWhole
    <2> QED BY <2>1, DelegatesNext
  <1> QED BY <1>1, <1>2, ProvenanceInvHolds, PTL DEF ProvenanceSpec
=============================================================================
