----------------------------- MODULE Provenance -----------------------------
(***************************************************************************)
(* The contents of a Change (src/kernel/change/content.rs), what every     *)
(* command needs of them (State::requirements, Change::execute) and what   *)
(* a history read by reference finds (src/application/read.rs), composed   *)
(* with Pursuit: every command that is accepted here is one of Pursuit's   *)
(* and also retains contents, creates some and leaves a record.            *)
(*                                                                         *)
(* A grant covers a content when it lists it, or selects its origin: the   *)
(* contents made under this very generation and target, or one origin the  *)
(* owner named.  So the items Pursuit has a grant list are the contents    *)
(* the command needs, less those it brings and those an origin selects.    *)
(*                                                                         *)
(* A citation names a content and an operation that bound it, which need   *)
(* not be the one that established it: the caller chooses.                 *)
(*                                                                         *)
(* Abstracted: a content is created once, so its origin names no operation *)
(* but the one that established it; open questions of Terms are context,   *)
(* the contents of an assessment are its blockers; the limit of a creation *)
(* counts items only; contents of other Changes are refused at once.       *)
(* Native actions, which create nothing, are left to Pursuit, and          *)
(* reconciling them with them.                                             *)
(*                                                                         *)
(* An operator under a comment that starts with "Mutant" is not part of    *)
(* the model: it is the definition after it with a plausible bug.          *)
(***************************************************************************)
EXTENDS Pursuit

CONSTANTS Novel,         \* content keys a command may bring as fresh
          MaxOperations, \* bound on the accepted operations
          MaxCitations   \* bound on the citations of one content by a command

VARIABLES accepted,     \* the number of accepted operations
          established,  \* State.established: the operation that first bound a content
          memberships,  \* content_items of the records: what each operation bound
          statements,   \* the citations that state the binding terms of a proposal
          created,      \* State.created: the origin of a content made here
          record        \* the StoredOperation of the last step, or None

history == << accepted, established, memberships, statements, created, record >>
provenanceVars == << vars, history >>

\* terms_content_items and Terms::references.
TermsContents(t) ==
    t.binding \cup t.context \cup {c.definition : c \in t.criteria}

ASSUME ProvenanceAssumption ==
    /\ MaxOperations \in Nat
    /\ MaxCitations \in Nat
    /\ Novel \subseteq Contents
    /\ Blockers \subseteq Contents
    /\ \A t \in TermChoices : TermsContents(t) \subseteq Contents

\* validate_roles: a content that binds is not context under another citation.
RolesApart(t) ==
    /\ \A c \in t.criteria : c.terms # {} /\ c.terms \subseteq t.binding
    /\ t.context \cap (t.binding \cup {c.definition : c \in t.criteria}) = {}

-----------------------------------------------------------------------------
(* Origins *)

TargetOf(spec) == << spec.target, spec.agreement, spec.originals >>

Origins == [content : Contents, recorder : Actors, use : Uses,
            target : {TargetOf(s) : s \in SpecChoices}]

\* Mutant: the generation of the grant is not compared.
SelectedUnderAnyGeneration(k, id, own, origins) ==
    /\ k \in DOMAIN created
    /\ \/ /\ own
          /\ created[k].use.id = id
          /\ created[k].target = TargetOf(grants[id].spec)
       \/ created[k] \in origins

\* selected_origin: only an accepted origin satisfies a selection.
Selected(k, id, own, origins) ==
    /\ k \in DOMAIN created
    /\ \/ /\ own
          /\ created[k].use = [id |-> id, generation |-> grants[id].generation]
          /\ created[k].target = TargetOf(grants[id].spec)
       \/ created[k] \in origins

SelectedForUse(k, id) ==
    Selected(k, id, grants[id].spec.contentOwn, grants[id].spec.contentOrigins)

Usable(id) ==
    {k \in Contents : k \in grants[id].spec.content \/ SelectedForUse(k, id)}

\* discloses_content
Disclosed(id) ==
    {k \in Contents :
        \/ k \in grants[id].spec.disclosure
        \/ Selected(k, id, grants[id].spec.disclosureOwn, grants[id].spec.disclosureOrigins)}

\* read_access: what the holder of a grant may read.
Readable(id) ==
    IF grants[id].revoked \/ (~Open /\ grants[id].spec.target # "reconciliation")
    THEN {}
    ELSE Disclosed(id)

\* validate_origin_selectors
OriginsExist(spec) ==
    \A o \in spec.contentOrigins \cup spec.disclosureOrigins :
        o.content \in DOMAIN created /\ created[o.content] = o

-----------------------------------------------------------------------------
(* What a command needs: the contents, and the grounds behind them *)

ProposalContents(p) == TermsContents(proposals[p].terms)

DecisionContents(d) ==
    ProposalContents(d.proposal)
        \cup (IF d.kind = "undertake" THEN assessments[d.assessment].blockers ELSE {})

AgreementContents(id) ==
    agreements[id].blockers
        \cup DecisionContents(decisions[agreements[id].adoption])
        \cup DecisionContents(decisions[agreements[id].undertaking])

AgreementGrounds(id) == DOMAIN AgreementDependencies(id)

LiveDecisions(p) ==
    {d \in DOMAIN decisions : ~decisions[d].retracted /\ decisions[d].proposal = p}

Nothing == [contents |-> {}, grounds |-> {}]

Needs(contents, deps) == [contents |-> contents, grounds |-> deps]

\* Mutant: an assessment needs only what it brings up itself.
AssessmentAlone(p, deps, blockers) == Needs(blockers, DOMAIN deps)

AssessmentNeeds(p, deps, blockers) ==
    Needs(ProposalContents(p) \cup blockers, DOMAIN proposals[p].deps \cup DOMAIN deps)

DecisionNeeds(d) ==
    LET all == {d} \cup {decisions[x] : x \in LiveDecisions(d.proposal)}
    IN  Needs(UNION {DecisionContents(x) : x \in all},
              UNION {DOMAIN DecisionDependencies(x) : x \in all})

RenewalNeeds(d, deps, assessment) ==
    LET old == DecisionNeeds(d)
    IN  IF assessment = None THEN Needs(old.contents, old.grounds \cup DOMAIN deps)
        ELSE Needs(old.contents \cup assessments[assessment].blockers,
                   old.grounds \cup DOMAIN deps \cup DOMAIN assessments[assessment].deps)

GrantNeeds(spec) ==
    Needs(spec.content \cup spec.disclosure
            \cup {o.content : o \in spec.contentOrigins \cup spec.disclosureOrigins}, {})

\* A finding, an adaptation or progress: the whole agreement and its evidence.
ObservationNeeds(id, evidence) ==
    IF id = None THEN Needs(evidence, {})
    ELSE Needs(AgreementContents(id) \cup evidence, AgreementGrounds(id))

-----------------------------------------------------------------------------
(* Citations *)

\* ContentReference: content k as operation n bound it.
Citation(n, k) == [operation |-> n, content |-> k]

ContentsOf(citations) == {c.content : c \in citations}

\* Citations of some of the contents.  derivation_references: by any accepted operation
\* that bound them; proposal_references: or by one in itself, the operation in progress.
Citing(contents, itself) ==
    {citations \in SUBSET ({c \in memberships : c.content \in contents}
                              \cup {Citation(n, k) : n \in itself, k \in contents}) :
        \A k \in contents : Cardinality({c \in citations : c.content = k}) <= MaxCitations}

-----------------------------------------------------------------------------
(* One accepted operation.  own is what the operation brings: fresh keys   *)
(* and the citations they are derived from.                                *)

NoneBrought == [fresh |-> {}, derived |-> {}]

\* Only fresh keys have sources, and no key that is established can be fresh.
Brings ==
    {NoneBrought} \cup [fresh : (SUBSET (Novel \ DOMAIN established)) \ {{}},
                       derived : Citing(Contents, {})]

\* A command that brings nothing and is about nothing.
Plain == [own |-> NoneBrought, spec |-> None, about |-> None, cited |-> {}]

Bound(needs, own) == needs.contents \cup ContentsOf(own.derived)

\* The contents of the command that the grant has to list.
Items(access, needs, own) ==
    {k \in Bound(needs, own) \ own.fresh :
        ~(access # None /\ access.id \in DOMAIN grants /\ SelectedForUse(k, access.id))}

\* prepare_creation: by the holder of a grant, within what one operation may.
MayCreate(access, auth, fresh) ==
    fresh # {} =>
        /\ access # None /\ Holds(access, auth)
        /\ Cardinality(fresh) <= grants[access.id].spec.creation
        /\ fresh \cap DOMAIN established = {}

OriginOf(k, access, auth) ==
    [content |-> k, recorder |-> auth.actor, use |-> access,
     target |-> TargetOf(grants[access.id].spec)]

\* The intake of a bound content: the reference that established it before.
Prior(k) == IF k \in DOMAIN established THEN {Citation(established[k], k)} ELSE {}

Stored(kind, auth, access, needs, more) ==
    [operation |-> accepted + 1, kind |-> kind, actor |-> auth.actor, use |-> access,
     intakes |-> [k \in Bound(needs, more.own) |-> Prior(k)],
     fresh |-> more.own.fresh,
     derived |-> more.own.derived, cited |-> more.cited,
     versions |-> [g \in needs.grounds |-> grounds[g]],
     spec |-> more.spec, about |-> more.about,
     snapshot |-> IF access = None THEN None ELSE grants[access.id].spec]

\* The rest of execute, after the command: the intake of contents and retain.
Accept(kind, auth, access, needs, more) ==
    /\ MayCreate(access, auth, more.own.fresh)
    /\ more.own.fresh \subseteq needs.contents
    /\ accepted' = accepted + 1
    /\ memberships' = memberships
                         \cup {Citation(accepted + 1, k) : k \in Bound(needs, more.own)}
    /\ established' = Override(established,
                               [k \in Bound(needs, more.own) |-> accepted + 1])
    /\ created' = Override(created,
                           [k \in more.own.fresh |-> OriginOf(k, access, auth)])
    /\ record' = Stored(kind, auth, access, needs, more)

-----------------------------------------------------------------------------
(* The commands *)

\* The grants the caller may act under; None is the owner's own access.
Accessible(auth) == {None} \cup {use \in Uses : Holds(use, auth)}

Begin(auth) ==
    /\ Initiate
    /\ \E access \in Accessible(auth), wish \in Contents, own \in Brings :
        LET needs == Needs({wish}, {})
        IN  /\ RecordAccess(access, "CreateDraft", None, auth, Items(access, needs, own))
            /\ Accept("Start", auth, access, needs, [Plain EXCEPT !.own = own])
            /\ UNCHANGED << grounds, native, observations >>

\* Terms::references: each content of the terms is cited.  The citations outside a set of
\* statements are context, define criteria or are affected by an open question.
Statements(t, cited) ==
    {stated \in SUBSET cited :
        ContentsOf(cited) = TermsContents(t) /\ ContentsOf(stated) = t.binding}

\* A proposal is accepted under citations of the caller's choice.
AcceptDraft(id, terms, auth, access, needs, own) ==
    \E cited \in Citing(TermsContents(terms), {accepted + 1}) :
        /\ Accept("Propose", auth, access, needs, [Plain EXCEPT !.own = own, !.cited = cited])
        /\ \E stated \in Statements(terms, cited) : statements' = Put(statements, id, stated)

Draft(auth) ==
    \E access \in Accessible(auth), id \in ProposalIds \ DOMAIN proposals, a \in AgreementIds,
       expected \in AgreementIds \cup {None}, terms \in TermChoices,
       deps \in Dependencies, own \in Brings :
        LET needs == Needs(TermsContents(terms), DOMAIN deps)
        IN  /\ Propose(id, a, expected, terms, deps)
            /\ RolesApart(terms)
            /\ RecordAccess(access, "Propose", None, auth, Items(access, needs, own))
            /\ AcceptDraft(id, terms, auth, access, needs, own)
            /\ UNCHANGED << grounds, native, observations >>

Evaluate(auth) ==
    \E access \in Accessible(auth), id \in AssessmentIds \ DOMAIN assessments,
       p \in DOMAIN proposals, blockers \in SUBSET Blockers, deps \in Dependencies, own \in Brings :
        LET needs == AssessmentNeeds(p, deps, blockers)
        IN  /\ Assess(id, p, deps, blockers)
            /\ RecordAccess(access, "Assess", None, auth, Items(access, needs, own))
            /\ Accept("Assess", auth, access, needs,
                      [Plain EXCEPT !.own = own, !.about = p])
            /\ UNCHANGED << grounds, native, observations >>

TakeDecision(auth) ==
    \E id \in DecisionIds \ DOMAIN decisions, p \in DOMAIN proposals, kind \in Kinds,
       deps \in Dependencies, assessment \in DOMAIN assessments \cup {None} :
        /\ (kind = "adopt") = (assessment = None)
        /\ Decide(id, p, kind, assessment, deps, auth)
        /\ Accept("Decide", auth, None,
                  DecisionNeeds(NewDecision(p, kind, assessment, deps, auth)), Plain)
        /\ UNCHANGED << grounds, native, observations >>

Renew(auth) ==
    \E id \in DOMAIN decisions, deps \in Dependencies,
       assessment \in DOMAIN assessments \cup {None} :
        /\ Reaffirm(id, deps, assessment, auth)
        /\ Accept("Reaffirm", auth, None,
                  RenewalNeeds(decisions[id], deps, assessment), Plain)
        /\ UNCHANGED << grounds, native, observations >>

TakeBack(auth) ==
    \E id \in DecisionIds :
        /\ Retract(id, auth)
        /\ Accept("Retract", auth, None, Nothing, Plain)
        /\ UNCHANGED << grounds, native, observations >>

\* ContentOrigin.binding: an origin is bound by the operation that made the content.
OriginCitations(spec) ==
    {Citation(established[o.content], o.content) :
        o \in spec.contentOrigins \cup spec.disclosureOrigins}

Entrust(auth) ==
    \E id \in GrantIds, expected \in 1 .. MaxGeneration \cup {None}, spec \in SpecChoices :
        /\ OriginsExist(spec)
        /\ SetGrant(id, expected, spec, auth)
        /\ Accept("SetGrant", auth, None, GrantNeeds(spec),
                  [Plain EXCEPT !.spec = spec, !.cited = OriginCitations(spec)])

Revoke(auth) ==
    \E id \in GrantIds, expected \in 1 .. MaxGeneration :
        /\ RevokeGrant(id, expected, auth)
        /\ Accept("RevokeGrant", auth, None, Nothing, Plain)

\* What an observer reports: a finding about anything, or about the agreement id.
Observed(access, id, evidence, own, auth) ==
    LET needs == ObservationNeeds(id, evidence)
        items == Items(access, needs, own)
        more  == [Plain EXCEPT !.own = own, !.about = id]
    IN  \/ /\ Finding(id, access, auth, items)
           /\ Accept("Finding", auth, access, needs, more)
        \/ /\ id # None
           /\ \E judgment \in {"WithinDiscretion", "RequiresRevision", "Unavailable"} :
                 Adapt(id, access, auth, items, judgment)
           /\ Accept("Adapt", auth, access, needs, more)
        \/ /\ id # None
           /\ \E cited \in SUBSET statements[agreements[id].proposal],
                 criteria \in SUBSET {c.id : c \in UNION {t.criteria : t \in TermChoices}},
                 revised \in BOOLEAN :
              /\ Progress(id, access, auth, items, ContentsOf(cited), criteria, revised)
              /\ Accept("Progress", auth, access, needs, [more EXCEPT !.cited = cited])

Report(auth) ==
    \E access \in Accessible(auth), id \in {None, current},
       evidence \in (SUBSET Contents) \ {{}}, own \in Brings :
        Observed(access, id, evidence, own, auth)

Conclude(auth) ==
    \/ \E id \in DOMAIN agreements, resolved \in SUBSET Blockers,
          provided \in SUBSET {c.id : c \in UNION {t.criteria : t \in TermChoices}},
          acceptance \in Contents :
          /\ Fulfill(id, provided, resolved, auth)
          /\ Accept("Fulfill", auth, None,
                    ObservationNeeds(id, {acceptance} \cup resolved), Plain)
    \/ \E reason \in Contents :
          /\ Withdraw(auth)
          /\ Accept("Withdraw", auth, None, Needs({reason}, {}), Plain)

ProvenanceInit ==
    /\ Init
    /\ accepted = 0
    /\ established = << >>
    /\ memberships = {}
    /\ statements = << >>
    /\ created = << >>
    /\ record = None

ProvenanceNext ==
    \/ /\ WorldMoves
       /\ record' = None
       /\ UNCHANGED << accepted, established, memberships, statements, created >>
    \/ /\ accepted < MaxOperations
       /\ \E auth \in Callers :
             \/ Negotiable /\ Draft(auth)
             \/ /\ UNCHANGED statements
                /\ \/ Begin(auth) \/ Entrust(auth) \/ Revoke(auth)
                   \/ /\ Negotiable
                      /\ \/ Evaluate(auth) \/ Report(auth)
                         \/ TakeDecision(auth) \/ Renew(auth) \/ TakeBack(auth)
                         \/ Conclude(auth)

ProvenanceSpec == ProvenanceInit /\ [][ProvenanceNext]_provenanceVars

-----------------------------------------------------------------------------
(* Reading the history by reference *)

\* PublicRecord::from_stored: the accepted meaning, without the grant used as control.
PublicRecord(r) ==
    [operation |-> r.operation, kind |-> r.kind, actor |-> r.actor, use |-> r.use,
     spec |-> r.spec, cited |-> r.cited,
     memberships |-> [k \in DOMAIN r.intakes |->
                        [prior |-> r.intakes[k], fresh |-> k \in r.fresh,
                         derived |-> IF k \in r.fresh THEN r.derived ELSE {}]],
     versions |-> r.versions]

\* What the visitor of a record looks into: the priors of its memberships, the
\* sources of what it made, and the references its command carries.

\* Mutant: the grant that was used is looked into as well.
VisitedWithControls(r) ==
    (UNION {r.intakes[k] : k \in DOMAIN r.intakes}) \cup r.derived \cup r.cited
        \cup (IF r.snapshot = None THEN {}
              ELSE {c \in memberships : c.content \in r.snapshot.content})

Visited(r) == (UNION {r.intakes[k] : k \in DOMAIN r.intakes}) \cup r.derived \cup r.cited

FoundByContent(r, k) == k \in DOMAIN r.intakes \/ \E c \in Visited(r) : c.content = k

\* QualifiedReference::Membership: a content as one operation bound it.
FoundByMembership(r, c) ==
    \/ c.operation = r.operation /\ c.content \in DOMAIN r.intakes
    \/ c \in Visited(r)

FoundByOperation(r, n) == n = r.operation \/ \E c \in Visited(r) : c.operation = n

FoundByGround(r, g, v) == g \in DOMAIN r.versions /\ r.versions[g] = v

FoundByChange(r) ==
    \/ DOMAIN r.intakes # {}
    \/ r.kind = "Propose"
    \/ r.spec # None /\ r.spec.target \in {"creation", "draft"}

-----------------------------------------------------------------------------
(* Properties *)

\* What the owner wrote into a grant by name.
Named(listed, origins) == listed \cup {o.content : o \in origins}

\* A standing grant comes to reach nothing but what its own holder makes under it, and
\* a grant that is written or replaced reaches only what the owner named: not the work
\* under an earlier generation, nor contents that others bring in later.
ReachIsGranted ==
    [][\A id \in DOMAIN grants' :
          LET made == {k \in DOMAIN created' \ DOMAIN created :
                          created'[k].use = [id |-> id, generation |-> grants'[id].generation]}
              spec == grants'[id].spec
          IN  IF id \in DOMAIN grants /\ grants[id].generation = grants'[id].generation
              THEN /\ Usable(id)' \subseteq Usable(id) \cup made
                   /\ Readable(id)' \subseteq Readable(id) \cup made
              ELSE /\ Usable(id)' \subseteq Named(spec.content, spec.contentOrigins)
                   /\ Readable(id)' \subseteq Named(spec.disclosure, spec.disclosureOrigins)
      ]_provenanceVars

\* Who assesses a proposal or observes under an agreement with a grant may use all of
\* it: its terms, and every blocker it carries, also those of earlier agreements.
DelegatesKnowTheWhole ==
    record # None /\ record.use # None /\ record.about # None =>
        IF record.kind = "Assess"
        THEN TermsContents(proposals[record.about].terms) \subseteq Usable(record.use.id)
        ELSE agreements[record.about].blockers
                \cup TermsContents(proposals[agreements[record.about].proposal].terms)
             \subseteq Usable(record.use.id)

\* A record is found by a content exactly when its acceptance bound it, and by an earlier
\* operation exactly when its public form shows a reference to it.  Every reference it is
\* found by stands in the history, under a content the record itself bound, and the one
\* that established each of these is among them: no use escapes a reader, and the grant
\* behind a record cannot be probed by what it selects.
FoundWhereUsed ==
    record # None =>
        LET public == PublicRecord(record)
            bound  == DOMAIN public.memberships
            shown  == public.cited
                         \cup (UNION {public.memberships[k].prior : k \in bound})
                         \cup (UNION {public.memberships[k].derived : k \in bound})
        IN  /\ \A k \in Contents : FoundByContent(record, k) <=> k \in bound
            /\ \A n \in 1 .. MaxOperations :
                  FoundByOperation(record, n)
                      <=> n = public.operation \/ \E c \in shown : c.operation = n
            /\ \A n \in 1 .. MaxOperations, k \in Contents :
                  FoundByMembership(record, Citation(n, k))
                      => k \in bound /\ Citation(n, k) \in memberships
            /\ \A k \in bound : FoundByMembership(record, Citation(established[k], k))
            /\ \A g \in Grounds, v \in Versions :
                  FoundByGround(record, g, v)
                      => v = grounds[g] /\ g \in DOMAIN public.versions
            /\ bound # {} => FoundByChange(record)
=============================================================================
