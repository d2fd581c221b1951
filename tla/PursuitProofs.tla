--------------------------- MODULE PursuitProofs ---------------------------
(***************************************************************************)
(* Theorems about Pursuit for every choice of its constants.               *)
(***************************************************************************)
EXTENDS Pursuit, TLAPS

(* What the helpers on partial functions return. *)

\* Writing one entry of the right type keeps a map of State well typed.
LEMMA PutType ==
    ASSUME NEW S, NEW R, NEW f, IsPartial(f, S, R), NEW k \in S, NEW v \in R
    PROVE  IsPartial(Put(f, k, v), S, R)
  BY DEF IsPartial, Put

\* Changing one entry of a map keeps its ids.
LEMMA UpdateType ==
    ASSUME NEW S, NEW R, NEW f, IsPartial(f, S, R), NEW k, NEW v \in R
    PROVE  IsPartial([f EXCEPT ![k] = v], S, R)
  BY DEF IsPartial

\* A merged dependency list is a dependency list (decision_dependencies, merged).
LEMMA OverrideType ==
    ASSUME NEW f \in Dependencies, NEW g \in Dependencies
    PROVE  Override(f, g) \in Dependencies
  <1>1. PICK D \in SUBSET Grounds : f \in [D -> Versions]
    BY DEF Dependencies
  <1>2. PICK E \in SUBSET Grounds : g \in [E -> Versions]
    BY DEF Dependencies
  <1>3. Override(f, g) \in [D \cup E -> Versions]
    BY <1>1, <1>2 DEF Override
  <1> QED BY <1>3 DEF Dependencies

\* What a decision depends on is well typed.
LEMMA DecisionDependenciesType ==
    ASSUME NegotiationTypeOK, NEW d \in DecisionRecord,
           d.proposal \in DOMAIN proposals,
           d.kind = "undertake" => d.assessment \in DOMAIN assessments
    PROVE  DecisionDependencies(d) \in Dependencies
  <1>1. proposals[d.proposal].deps \in Dependencies
    BY DEF NegotiationTypeOK, IsPartial, ProposalRecord
  <1>2. d.deps \in Dependencies /\ d.kind \in Kinds
    BY DEF DecisionRecord
  <1>3. CASE d.kind = "adopt"
    BY <1>1, <1>2, <1>3, OverrideType DEF DecisionDependencies
  <1>4. CASE d.kind = "undertake"
    <2>1. assessments[d.assessment].deps \in Dependencies
      BY <1>4 DEF NegotiationTypeOK, IsPartial, AssessmentRecord
    <2> QED BY <1>1, <1>2, <1>4, <2>1, OverrideType DEF DecisionDependencies
  <1> QED BY <1>2, <1>3, <1>4 DEF Kinds

-----------------------------------------------------------------------------
(* Types *)

\* Marking a decision as matched changes neither its type nor what it decides.
LEMMA MarkType ==
    ASSUME NEW f, IsPartial(f, DecisionIds, DecisionRecord), NEW k
    PROVE  /\ IsPartial([f EXCEPT ![k].matched = TRUE], DecisionIds, DecisionRecord)
           /\ DOMAIN [f EXCEPT ![k].matched = TRUE] = DOMAIN f
           /\ \A d \in DOMAIN f :
                 /\ [f EXCEPT ![k].matched = TRUE][d].proposal = f[d].proposal
                 /\ [f EXCEPT ![k].matched = TRUE][d].kind = f[d].kind
                 /\ [f EXCEPT ![k].matched = TRUE][d].assessment = f[d].assessment
  <1>1. \A r \in DecisionRecord : /\ [r EXCEPT !.matched = TRUE] \in DecisionRecord
                                 /\ [r EXCEPT !.matched = TRUE].proposal = r.proposal
                                 /\ [r EXCEPT !.matched = TRUE].kind = r.kind
                                 /\ [r EXCEPT !.matched = TRUE].assessment = r.assessment
    BY DEF DecisionRecord
  <1> QED BY <1>1 DEF IsPartial

\* activate keeps the maps well typed, and the decisions it writes decide what the
\* command's decisions do.
LEMMA ActivateType ==
    ASSUME TypeOK, NEW p \in DOMAIN proposals, NEW ds,
           IsPartial(ds, DecisionIds, DecisionRecord),
           DOMAIN decisions \subseteq DOMAIN ds,
           Activate(p, ds)
    PROVE  /\ IsPartial(decisions', DecisionIds, DecisionRecord)
           /\ IsPartial(agreements', AgreementIds, AgreementRecord)
           /\ current' \in AgreementIds \cup {None}
           /\ DOMAIN decisions' = DOMAIN ds
           /\ \A d \in DOMAIN ds :
                 /\ decisions'[d].proposal = ds[d].proposal
                 /\ decisions'[d].kind = ds[d].kind
                 /\ decisions'[d].assessment = ds[d].assessment
           /\ DOMAIN agreements \subseteq DOMAIN agreements'
           /\ \A a \in DOMAIN agreements' :
                 /\ agreements'[a].proposal \in DOMAIN proposals
                 /\ agreements'[a].adoption \in DOMAIN ds
                 /\ agreements'[a].undertaking \in DOMAIN ds
           /\ current' # None => current' \in DOMAIN agreements'
  <1>1. /\ IsPartial(agreements, AgreementIds, AgreementRecord)
        /\ proposals[p] \in ProposalRecord
        /\ p \in ProposalIds
        /\ current \in AgreementIds \cup {None}
        /\ current # None => current \in DOMAIN agreements
        /\ \A a \in DOMAIN agreements :
              /\ agreements[a].proposal \in DOMAIN proposals
              /\ agreements[a].adoption \in DOMAIN ds
              /\ agreements[a].undertaking \in DOMAIN ds
    BY DEF TypeOK, NegotiationTypeOK, References, IsPartial
  <1>2. proposals[p].agreement \in AgreementIds
    BY <1>1 DEF ProposalRecord
  <1>3. CASE ExtendCurrent(ds) /\ current = proposals[p].agreement
    <2>1. current \in DOMAIN agreements
      BY <1>1, <1>2, <1>3, IdsAreNotNone
    <2>2. ds[agreements[current].undertaking].blockers \subseteq Blockers
      BY <1>1, <2>1 DEF DecisionRecord, IsPartial
    <2>3. DEFINE new == [agreements[current] EXCEPT !.blockers =
                           @ \cup ds[agreements[current].undertaking].blockers]
    <2>4. /\ new \in AgreementRecord
          /\ new.proposal = agreements[current].proposal
          /\ new.adoption = agreements[current].adoption
          /\ new.undertaking = agreements[current].undertaking
      BY <1>1, <2>1, <2>2 DEF AgreementRecord, IsPartial
    <2>5. agreements' = [agreements EXCEPT ![current] = new]
      BY <1>3 DEF ExtendCurrent
    <2>6. IsPartial(agreements', AgreementIds, AgreementRecord)
      BY <1>1, <2>4, <2>5 DEF IsPartial
    <2> HIDE DEF new
    <2>7. \A a \in DOMAIN agreements' :
             /\ agreements'[a].proposal = agreements[a].proposal
             /\ agreements'[a].adoption = agreements[a].adoption
             /\ agreements'[a].undertaking = agreements[a].undertaking
      BY <1>1, <2>1, <2>4, <2>5 DEF IsPartial
    <2> QED BY <1>1, <1>3, <2>5, <2>6, <2>7 DEF ExtendCurrent
  <1>4. ASSUME NEW x \in Effective(ds, p, "adopt"), NEW y \in Effective(ds, p, "undertake"),
               Supersede(p, ds, x, y)
        PROVE  /\ IsPartial(decisions', DecisionIds, DecisionRecord)
               /\ IsPartial(agreements', AgreementIds, AgreementRecord)
               /\ current' \in AgreementIds
               /\ DOMAIN decisions' = DOMAIN ds
               /\ \A d \in DOMAIN ds :
                     /\ decisions'[d].proposal = ds[d].proposal
                     /\ decisions'[d].kind = ds[d].kind
                     /\ decisions'[d].assessment = ds[d].assessment
               /\ DOMAIN agreements' = DOMAIN agreements \cup {current'}
               /\ \A a \in DOMAIN agreements' :
                     /\ agreements'[a].proposal \in DOMAIN proposals
                     /\ agreements'[a].adoption \in DOMAIN ds
                     /\ agreements'[a].undertaking \in DOMAIN ds
    <2>1. x \in DOMAIN ds /\ y \in DOMAIN ds
      BY DEF Effective
    <2>2. CarriedBlockers \subseteq Blockers /\ ds[y].blockers \subseteq Blockers
      BY <1>1, <2>1 DEF CarriedBlockers, AgreementRecord, DecisionRecord, IsPartial
    <2>3. DEFINE new == [proposal |-> p, adoption |-> x, undertaking |-> y,
                         blockers |-> ds[y].blockers \cup CarriedBlockers]
    <2>4. new \in AgreementRecord
      BY <1>1, <2>1, <2>2 DEF AgreementRecord, IsPartial
    <2>5. agreements' = Put(agreements, proposals[p].agreement, new)
      BY <1>4 DEF Supersede
    <2>6. current' = proposals[p].agreement
      BY <1>4 DEF Supersede
    <2>7. /\ new.proposal = p
          /\ new.adoption = x
          /\ new.undertaking = y
      OBVIOUS
    <2> HIDE DEF new
    <2>8. IsPartial(agreements', AgreementIds, AgreementRecord)
      BY <1>1, <1>2, <2>4, <2>5, PutType
    <2>9. \A a \in DOMAIN agreements' :
             /\ agreements'[a].proposal \in DOMAIN proposals
             /\ agreements'[a].adoption \in DOMAIN ds
             /\ agreements'[a].undertaking \in DOMAIN ds
      BY <1>1, <2>1, <2>5, <2>7 DEF Put
    <2>10. decisions' = [ds EXCEPT ![x].matched = TRUE, ![y].matched = TRUE]
      BY <1>4 DEF Supersede
    <2>11. DEFINE mid == [ds EXCEPT ![x].matched = TRUE]
    <2>12. decisions' = [mid EXCEPT ![y].matched = TRUE]
      BY <2>10
    <2>13. /\ IsPartial(mid, DecisionIds, DecisionRecord)
           /\ DOMAIN mid = DOMAIN ds
           /\ \A d \in DOMAIN ds : /\ mid[d].proposal = ds[d].proposal
                                  /\ mid[d].kind = ds[d].kind
                                  /\ mid[d].assessment = ds[d].assessment
      BY MarkType, ZenonT(20)
    <2> HIDE DEF mid
    <2>14. DEFINE end == [mid EXCEPT ![y].matched = TRUE]
    <2>15. /\ IsPartial(end, DecisionIds, DecisionRecord)
           /\ DOMAIN end = DOMAIN mid
           /\ \A d \in DOMAIN mid : /\ end[d].proposal = mid[d].proposal
                                   /\ end[d].kind = mid[d].kind
                                   /\ end[d].assessment = mid[d].assessment
      BY <2>13, MarkType
    <2>16. decisions' = end
      BY <2>12
    <2> HIDE DEF end
    <2> QED BY <1>2, <2>5, <2>6, <2>8, <2>9, <2>13, <2>15, <2>16 DEF Put
  <1>5. CASE decisions' = ds /\ UNCHANGED << agreements, current >>
    BY <1>1, <1>5
  <1> QED BY <1>3, <1>4, <1>5 DEF Activate

NativeTypeOK ==
    /\ IsPartial(grants, GrantIds, GrantRecord)
    /\ IsPartial(actions, ActionIds, ActionRecord)
    /\ observations \subseteq [kind : ObservationKinds, agreement : AgreementIds \cup {None}]

\* A step that leaves the negotiation alone keeps its half of the types.
LEMMA NegotiationFrame ==
    ASSUME TypeOK, UNCHANGED << grounds, negotiation >>
    PROVE  (NegotiationTypeOK /\ References)'
  BY DEF TypeOK, negotiation, NegotiationTypeOK, References, IsPartial

\* A step that leaves grants, actions and observations alone keeps theirs.
LEMMA NativeFrame ==
    ASSUME TypeOK, UNCHANGED << native, observations >>
    PROVE  NativeTypeOK'
  BY DEF TypeOK, native, NativeTypeOK, IsPartial

\* An accepted proposal keeps State well typed.
LEMMA ProposeType ==
    ASSUME TypeOK, NEW id \in ProposalIds, NEW a \in AgreementIds,
           NEW expected \in AgreementIds \cup {None}, NEW terms \in TermChoices,
           NEW deps \in Dependencies,
           Propose(id, a, expected, terms, deps), UNCHANGED grounds
    PROVE  (NegotiationTypeOK /\ References)'
  <1>1. [agreement |-> a, expected |-> expected, terms |-> terms, deps |-> deps]
          \in ProposalRecord
    BY DEF ProposalRecord
  <1>2. IsPartial(proposals', ProposalIds, ProposalRecord)
    BY <1>1, PutType DEF Propose, TypeOK, NegotiationTypeOK
  <1>3. DOMAIN proposals \subseteq DOMAIN proposals'
    BY DEF Propose, Put
  <1>4. NegotiationTypeOK'
    BY <1>2 DEF Propose, TypeOK, NegotiationTypeOK, IsPartial
  <1>5. References'
    BY <1>3 DEF Propose, TypeOK, References
  <1> QED BY <1>4, <1>5

\* An accepted assessment keeps State well typed: its proposal is known.
LEMMA AssessType ==
    ASSUME TypeOK, NEW id \in AssessmentIds, NEW p \in ProposalIds,
           NEW deps \in Dependencies, NEW b \in SUBSET Blockers,
           Assess(id, p, deps, b), UNCHANGED grounds
    PROVE  (NegotiationTypeOK /\ References)'
  <1>1. [proposal |-> p, deps |-> deps, blockers |-> b] \in AssessmentRecord
    BY DEF AssessmentRecord
  <1>2. IsPartial(assessments', AssessmentIds, AssessmentRecord)
    BY <1>1, PutType DEF Assess, TypeOK, NegotiationTypeOK
  <1>3. DOMAIN assessments \subseteq DOMAIN assessments'
    BY DEF Assess, Put
  <1>4. \A s \in DOMAIN assessments' : assessments'[s].proposal \in DOMAIN proposals
    BY DEF Assess, Put, Proposed, TypeOK, References
  <1>5. NegotiationTypeOK'
    BY <1>2 DEF Assess, TypeOK, NegotiationTypeOK, IsPartial
  <1>6. References'
    BY <1>3, <1>4 DEF Assess, TypeOK, References
  <1> QED BY <1>5, <1>6

\* What a decision endorses is a set of blockers.
LEMMA AssessedType ==
    ASSUME TypeOK, NEW d \in DecisionRecord, DecisionCoherent(d)
    PROVE  AssessedBlockers(d) \subseteq Blockers
  BY DEF TypeOK, NegotiationTypeOK, IsPartial, AssessmentRecord, DecisionRecord, Kinds,
         DecisionCoherent, AssessedBlockers

\* A step that activates from well-typed decisions keeps State well typed.
LEMMA ActivationType ==
    ASSUME TypeOK, NEW p \in DOMAIN proposals, NEW ds,
           IsPartial(ds, DecisionIds, DecisionRecord),
           DOMAIN decisions \subseteq DOMAIN ds,
           \A d \in DOMAIN ds :
              /\ ds[d].proposal \in DOMAIN proposals
              /\ ds[d].kind = "undertake" => ds[d].assessment \in DOMAIN assessments,
           Activate(p, ds),
           UNCHANGED << grounds, initiated, proposals, assessments, settlement >>
    PROVE  (NegotiationTypeOK /\ References)'
  <1>1. /\ IsPartial(decisions', DecisionIds, DecisionRecord)
        /\ IsPartial(agreements', AgreementIds, AgreementRecord)
        /\ current' \in AgreementIds \cup {None}
        /\ DOMAIN decisions' = DOMAIN ds
        /\ \A d \in DOMAIN ds :
              /\ decisions'[d].proposal = ds[d].proposal
              /\ decisions'[d].kind = ds[d].kind
              /\ decisions'[d].assessment = ds[d].assessment
        /\ \A a \in DOMAIN agreements' :
              /\ agreements'[a].proposal \in DOMAIN proposals
              /\ agreements'[a].adoption \in DOMAIN ds
              /\ agreements'[a].undertaking \in DOMAIN ds
        /\ current' # None => current' \in DOMAIN agreements'
    BY ActivateType
  <1>2. NegotiationTypeOK'
    BY <1>1 DEF TypeOK, NegotiationTypeOK, IsPartial
  <1>3. References'
    BY <1>1 DEF TypeOK, References
  <1> QED BY <1>2, <1>3

\* A decision keeps State well typed, whether it activates or not.
LEMMA DecideType ==
    ASSUME TypeOK, NEW id \in DecisionIds, NEW p \in ProposalIds, NEW kind \in Kinds,
           NEW assessment \in AssessmentIds \cup {None}, NEW deps \in Dependencies,
           NEW auth \in Authorities,
           Decide(id, p, kind, assessment, deps, auth), UNCHANGED grounds
    PROVE  (NegotiationTypeOK /\ References)'
  <1> DEFINE d == NewDecision(p, kind, assessment, deps, auth)
  <1> DEFINE e == [d EXCEPT !.blockers = AssessedBlockers(d)]
  <1> DEFINE ds == Put(decisions, id, e)
  <1>1. d \in DecisionRecord /\ d.proposal = p
    BY ChoicesAreTyped DEF NewDecision, DecisionRecord
  <1>2. /\ DecisionCoherent(d)
        /\ p \in DOMAIN proposals
        /\ Activate(p, ds)
        /\ UNCHANGED << initiated, proposals, assessments, settlement >>
    BY DEF Decide, Proposed, DecisionHolds
  <1>3. AssessedBlockers(d) \subseteq Blockers
    BY <1>1, <1>2, AssessedType
  <1> HIDE DEF d
  <1>4. /\ e \in DecisionRecord
        /\ e.proposal = p
        /\ e.kind = d.kind
        /\ e.assessment = d.assessment
    BY <1>1, <1>3 DEF DecisionRecord
  <1>5. e.kind = "undertake" => e.assessment \in DOMAIN assessments
    BY <1>2, <1>4 DEF DecisionCoherent
  <1> HIDE DEF e
  <1>6. IsPartial(ds, DecisionIds, DecisionRecord)
    BY <1>4, PutType DEF TypeOK, NegotiationTypeOK
  <1>7. /\ DOMAIN decisions \subseteq DOMAIN ds
        /\ \A x \in DOMAIN ds :
              /\ ds[x].proposal \in DOMAIN proposals
              /\ ds[x].kind = "undertake" => ds[x].assessment \in DOMAIN assessments
    BY <1>2, <1>4, <1>5 DEF Put, TypeOK, References
  <1> HIDE DEF ds
  <1> QED BY <1>2, <1>6, <1>7, ActivationType

\* A retraction keeps State well typed.
LEMMA RetractType ==
    ASSUME TypeOK, NEW id \in DecisionIds, NEW auth \in Authorities,
           Retract(id, auth), UNCHANGED grounds
    PROVE  (NegotiationTypeOK /\ References)'
  <1> DEFINE e == [decisions[id] EXCEPT !.retracted = TRUE]
  <1>1. decisions' = [decisions EXCEPT ![id] = e] /\ id \in DOMAIN decisions
    BY DEF Retract
  <1>2. decisions[id] \in DecisionRecord
    BY <1>1 DEF TypeOK, NegotiationTypeOK, IsPartial
  <1>3. /\ e \in DecisionRecord
        /\ e.proposal = decisions[id].proposal
        /\ e.kind = decisions[id].kind
        /\ e.assessment = decisions[id].assessment
    BY <1>2 DEF DecisionRecord
  <1> HIDE DEF e
  <1>4. IsPartial(decisions', DecisionIds, DecisionRecord)
    BY <1>1, <1>3, UpdateType DEF TypeOK, NegotiationTypeOK
  <1>5. NegotiationTypeOK'
    BY <1>4 DEF Retract, TypeOK, NegotiationTypeOK, IsPartial
  <1>6. References'
    BY <1>1, <1>3 DEF Retract, TypeOK, References
  <1> QED BY <1>5, <1>6

\* A reaffirmation keeps State well typed, whether it activates or not.
LEMMA ReaffirmType ==
    ASSUME TypeOK, NEW id \in DecisionIds, NEW deps \in Dependencies,
           NEW assessment \in AssessmentIds \cup {None}, NEW auth \in Authorities,
           Reaffirm(id, deps, assessment, auth), UNCHANGED grounds
    PROVE  (NegotiationTypeOK /\ References)'
  <1> DEFINE old == decisions[id]
  <1> DEFINE d == [old EXCEPT !.deps = deps, !.assessment = assessment]
  <1> DEFINE e == [d EXCEPT !.blockers = RenewedBlockers(old, d)]
  <1> DEFINE ds == [decisions EXCEPT ![id] = e]
  <1>1. /\ id \in DOMAIN decisions
        /\ DecisionCoherent(d)
        /\ Activate(old.proposal, ds)
        /\ UNCHANGED << initiated, proposals, assessments, settlement >>
    BY DEF Reaffirm
  <1>2. old \in DecisionRecord /\ old.proposal \in DOMAIN proposals
    BY <1>1 DEF TypeOK, NegotiationTypeOK, References, IsPartial
  <1> HIDE DEF old
  <1>3. d \in DecisionRecord /\ d.proposal = old.proposal
    BY <1>2 DEF DecisionRecord
  <1>4. RenewedBlockers(old, d) \subseteq Blockers
    BY <1>1, <1>2, <1>3, AssessedType DEF RenewedBlockers, DecisionRecord
  <1> HIDE DEF d
  <1>5. /\ e \in DecisionRecord
        /\ e.proposal = old.proposal
        /\ e.kind = d.kind
        /\ e.assessment = d.assessment
    BY <1>3, <1>4 DEF DecisionRecord
  <1>6. e.kind = "undertake" => e.assessment \in DOMAIN assessments
    BY <1>1, <1>5 DEF DecisionCoherent
  <1> HIDE DEF e
  <1>7. IsPartial(ds, DecisionIds, DecisionRecord)
    BY <1>5, UpdateType DEF TypeOK, NegotiationTypeOK
  <1>8. /\ DOMAIN decisions \subseteq DOMAIN ds
        /\ \A x \in DOMAIN ds :
              /\ ds[x].proposal \in DOMAIN proposals
              /\ ds[x].kind = "undertake" => ds[x].assessment \in DOMAIN assessments
    BY <1>2, <1>5, <1>6 DEF TypeOK, References
  <1> HIDE DEF ds
  <1> QED BY <1>1, <1>2, <1>7, <1>8, ActivationType

\* Writing or revoking a grant keeps the grants well typed: a generation stays in range.
LEMMA GrantType ==
    ASSUME TypeOK, NEW auth, GrantStep(auth)
    PROVE  NativeTypeOK'
  <1>1. ASSUME NEW id \in GrantIds, NEW expected \in 1 .. MaxGeneration \cup {None},
               NEW spec \in SpecChoices, SetGrant(id, expected, spec, auth)
        PROVE  NativeTypeOK'
    <2>1. NextGeneration(id, expected) \in 1 .. MaxGeneration
      <3>1. CASE id \notin DOMAIN grants
        BY <3>1, PursuitBounds DEF NextGeneration
      <3>2. CASE id \in DOMAIN grants
        <4>1. grants[id].generation \in 1 .. MaxGeneration
          BY <3>2 DEF TypeOK, IsPartial, GrantRecord
        <4>2. expected = grants[id].generation /\ expected < MaxGeneration
          BY <1>1, <3>2 DEF SetGrant, Replaceable
        <4> QED BY <3>2, <4>1, <4>2, PursuitBounds DEF NextGeneration
      <3> QED BY <3>1, <3>2
    <2>2. [generation |-> NextGeneration(id, expected), spec |-> spec, revoked |-> FALSE]
            \in GrantRecord
      BY <2>1 DEF GrantRecord
    <2>3. IsPartial(grants', GrantIds, GrantRecord)
      BY <1>1, <2>2, PutType DEF SetGrant, TypeOK
    <2> QED BY <1>1, <2>3 DEF SetGrant, TypeOK, NativeTypeOK, IsPartial
  <1>2. ASSUME NEW id \in GrantIds, NEW expected \in 1 .. MaxGeneration,
               RevokeGrant(id, expected, auth)
        PROVE  NativeTypeOK'
    <2>1. id \in DOMAIN grants /\ grants[id] \in GrantRecord
      BY <1>2 DEF RevokeGrant, TypeOK, IsPartial
    <2>2. grants[id].generation = expected /\ expected < MaxGeneration
      BY <1>2 DEF RevokeGrant
    <2>3. RevokedGrant(grants[id]) \in GrantRecord
      <3>1. grants[id].generation + 1 \in 1 .. MaxGeneration
        BY <2>2, PursuitBounds
      <3>2. \A r \in GrantRecord, n \in 1 .. MaxGeneration :
               [r EXCEPT !.generation = n, !.revoked = TRUE] \in GrantRecord
        BY DEF GrantRecord
      <3> QED BY <2>1, <3>1, <3>2 DEF RevokedGrant
    <2>4. grants' = [grants EXCEPT ![id] = RevokedGrant(grants[id])]
      BY <1>2 DEF RevokeGrant
    <2>5. IsPartial(grants', GrantIds, GrantRecord)
      BY <2>3, <2>4, UpdateType DEF TypeOK
    <2> QED BY <1>2, <2>5 DEF RevokeGrant, TypeOK, NativeTypeOK, IsPartial
  <1> QED BY <1>1, <1>2 DEF GrantStep

\* Admission, dispatch and reconciliation keep the actions well typed.
LEMMA ActionType ==
    ASSUME TypeOK, NEW auth \in Authorities, ActionStep(auth)
    PROVE  NativeTypeOK'
  <1>1. ASSUME NEW id \in ActionIds, NEW seen, Dispatch(id, auth, seen)
        PROVE  NativeTypeOK'
    <2>1. id \in DOMAIN actions /\ actions[id] \in ActionRecord
      BY <1>1 DEF Dispatch, TypeOK, IsPartial
    <2>2. [actions[id] EXCEPT !.phase = "Dispatched"] \in ActionRecord
      BY <2>1 DEF ActionRecord, Phases
    <2>3. actions' = [actions EXCEPT ![id] = [actions[id] EXCEPT !.phase = "Dispatched"]]
      BY <1>1 DEF Dispatch
    <2>4. IsPartial(actions', ActionIds, ActionRecord)
      BY <2>2, <2>3, UpdateType DEF TypeOK
    <2> QED BY <1>1, <2>4 DEF Dispatch, TypeOK, NativeTypeOK, IsPartial
  <1>2. ASSUME NEW id \in ActionIds, NEW request \in RequestRecord, NEW seen,
               Admit(id, request, auth, seen)
        PROVE  NativeTypeOK'
    <2> DEFINE a == request.agreement
    <2> DEFINE x == decisions[agreements[a].adoption]
    <2> DEFINE y == decisions[agreements[a].undertaking]
    <2> DEFINE new == [request |-> request, actor |-> auth.actor, phase |-> "Admitted",
                       admission |-> AgreementDependencies(a), reports |-> 0,
                       outcome |-> "Unknown"]
    <2>1. a \in DOMAIN agreements
      BY <1>2 DEF Admit, NativeGrant, CurrentGrounds
    <2>2. /\ agreements[a].adoption \in DOMAIN decisions
          /\ agreements[a].undertaking \in DOMAIN decisions
      BY <2>1 DEF TypeOK, References
    <2>3. /\ NegotiationTypeOK
          /\ x \in DecisionRecord /\ x.proposal \in DOMAIN proposals
          /\ x.kind = "undertake" => x.assessment \in DOMAIN assessments
          /\ y \in DecisionRecord /\ y.proposal \in DOMAIN proposals
          /\ y.kind = "undertake" => y.assessment \in DOMAIN assessments
      BY <2>2 DEF TypeOK, NegotiationTypeOK, References, IsPartial
    <2>4. AgreementDependencies(a) \in Dependencies
      BY <2>3, DecisionDependenciesType, OverrideType DEF AgreementDependencies
    <2>5. auth.actor \in Actors /\ 0 \in 0 .. MaxReports
      BY ChoicesAreTyped, PursuitBounds
    <2>6. new \in ActionRecord
      BY <2>4, <2>5 DEF ActionRecord, Phases, Outcomes
    <2>7. actions' = Put(actions, id, new)
      BY <1>2 DEF Admit
    <2> HIDE DEF new
    <2>8. IsPartial(actions', ActionIds, ActionRecord)
      BY <2>6, <2>7, PutType DEF TypeOK
    <2> QED BY <1>2, <2>8 DEF Admit, TypeOK, NativeTypeOK, IsPartial
  <1>3. ASSUME NEW id \in ActionIds, NEW use \in Uses, NEW n \in 0 .. MaxReports,
               NEW outcome \in Outcomes, NEW items,
               Reconcile(id, use, n, outcome, auth, items)
        PROVE  NativeTypeOK'
    <2>1. id \in DOMAIN actions /\ actions[id] \in ActionRecord
      BY <1>3 DEF Reconcile, TypeOK, IsPartial
    <2>2. actions[id].reports + n \in 0 .. MaxReports
      <3>1. actions[id].reports \in 0 .. MaxReports
        BY <2>1 DEF ActionRecord
      <3>2. actions[id].reports + n <= MaxReports
        BY <1>3 DEF Reconcile
      <3> QED BY <3>1, <3>2, PursuitBounds
    <2>3. ReportedPhase(outcome) \in Phases
      BY DEF ReportedPhase, Phases
    <2>4. \A r \in ActionRecord, k \in 0 .. MaxReports, o \in Outcomes, ph \in Phases :
             [r EXCEPT !.reports = k, !.outcome = o, !.phase = ph] \in ActionRecord
      BY DEF ActionRecord
    <2>5. Reported(actions[id], n, outcome) \in ActionRecord
      BY <2>1, <2>2, <2>3, <2>4 DEF Reported
    <2>6. actions' = [actions EXCEPT ![id] = Reported(actions[id], n, outcome)]
      BY <1>3 DEF Reconcile
    <2>7. IsPartial(actions', ActionIds, ActionRecord)
      BY <2>5, <2>6, UpdateType DEF TypeOK
    <2> QED BY <1>3, <2>7 DEF Reconcile, TypeOK, NativeTypeOK, IsPartial
  <1>4. \A a \in AgreementIds, use \in Uses, ask \in RequestChoices, deps \in Dependencies :
           [agreement |-> a, use |-> use, ask |-> ask, deps |-> deps] \in RequestRecord
    BY DEF RequestRecord
  <1> QED BY <1>1, <1>2, <1>3, <1>4 DEF ActionStep

\* An observation keeps the records well typed.
LEMMA ObserveType ==
    ASSUME TypeOK, NEW auth, Observe(auth)
    PROVE  NativeTypeOK'
  <1>1. ASSUME NEW kind, NEW id \in AgreementIds \cup {None}, Record(kind, id)
        PROVE  NativeTypeOK'
    BY <1>1 DEF Record, TypeOK, NativeTypeOK, native, IsPartial
  <1> QED BY <1>1 DEF Observe, Finding, Adapt, Progress

\* Settlement keeps State well typed.
LEMMA SettleType ==
    ASSUME TypeOK, NEW auth, SettleStep(auth)
    PROVE  (NegotiationTypeOK /\ References)'
  <1>1. ASSUME NEW kind \in {"fulfilled", "withdrawn"}, NEW id \in AgreementIds \cup {None},
               NEW resolved \in SUBSET Blockers, Settle(kind, id, resolved), UNCHANGED grounds
        PROVE  (NegotiationTypeOK /\ References)'
    <2>1. settlement' \in [kind : {"open", "fulfilled", "withdrawn"},
                          agreement : AgreementIds \cup {None}, resolved : SUBSET Blockers]
      BY <1>1 DEF Settle
    <2> QED BY <1>1, <2>1 DEF Settle, TypeOK, NegotiationTypeOK, References, IsPartial
  <1> QED BY <1>1 DEF SettleStep, Fulfill, Withdraw

\* The empty map is a partial function.
LEMMA EmptyType ==
    ASSUME NEW S, NEW R
    PROVE  IsPartial(<< >>, S, R) /\ DOMAIN << >> = {}
  BY DEF IsPartial

\* The kernel starts well typed.
LEMMA InitType == Init => TypeOK
  <1> SUFFICES ASSUME Init PROVE TypeOK
    OBVIOUS
  <1>1. /\ IsPartial(proposals, ProposalIds, ProposalRecord)
        /\ IsPartial(assessments, AssessmentIds, AssessmentRecord)
        /\ IsPartial(decisions, DecisionIds, DecisionRecord)
        /\ IsPartial(agreements, AgreementIds, AgreementRecord)
        /\ IsPartial(grants, GrantIds, GrantRecord)
        /\ IsPartial(actions, ActionIds, ActionRecord)
    BY EmptyType DEF Init, NegotiationInit
  <1>2. /\ DOMAIN assessments = {}
        /\ DOMAIN decisions = {}
        /\ DOMAIN agreements = {}
    BY EmptyType DEF Init, NegotiationInit
  <1>3. 1 \in Versions
    BY BoundsAreNat DEF Versions
  <1>4. NegotiationTypeOK
    BY <1>1, <1>3 DEF Init, NegotiationInit, NegotiationTypeOK
  <1>5. References
    BY <1>2 DEF Init, NegotiationInit, References
  <1> QED BY <1>1, <1>4, <1>5 DEF Init, TypeOK

\* No command and no move of a ground breaks the types.
LEMMA StepType == TypeOK /\ [Next]_vars => TypeOK'
  <1> SUFFICES ASSUME TypeOK, [Next]_vars PROVE TypeOK'
    OBVIOUS
  <1>0. TypeOK' <=> (NegotiationTypeOK /\ References)' /\ NativeTypeOK'
    BY DEF TypeOK, NativeTypeOK
  <1>1. CASE WorldMoves
    <2>1. NativeTypeOK'
      BY <1>1, NativeFrame DEF WorldMoves
    <2>2. PICK g \in Grounds : GroundMoves(g)
      BY <1>1 DEF WorldMoves
    <2>3. grounds' \in [Grounds -> Versions]
      <3>1. grounds[g] \in 1 .. MaxVersion /\ grounds[g] < MaxVersion
        BY <2>2 DEF GroundMoves, TypeOK, NegotiationTypeOK, Versions
      <3>2. grounds[g] + 1 \in Versions
        BY <3>1, BoundsAreNat DEF Versions
      <3> QED BY <2>2, <3>2 DEF GroundMoves, TypeOK, NegotiationTypeOK
    <2> QED
      BY <1>0, <1>1, <2>1, <2>3
         DEF WorldMoves, negotiation, TypeOK, NegotiationTypeOK, References, IsPartial
  <1>2. ASSUME NEW auth \in Callers, Command(auth)
        PROVE  TypeOK'
    <2>0. auth \in Authorities
      BY DEF Callers
    <2>1. CASE Start(auth)
      BY <1>0, <2>1, NativeFrame
         DEF Start, Initiate, TypeOK, NegotiationTypeOK, References, IsPartial
    <2>2. CASE Contribute(auth)
      BY <1>0, <2>2, NativeFrame, ProposeType, AssessType DEF Contribute
    <2>3. CASE DecisionStep(auth)
      BY <1>0, <2>0, <2>3, NativeFrame, DecideType, RetractType, ReaffirmType DEF DecisionStep
    <2>4. CASE GrantStep(auth)
      <3>1. UNCHANGED << grounds, negotiation >>
        BY <2>4 DEF GrantStep, SetGrant, RevokeGrant
      <3> QED BY <1>0, <2>4, <3>1, NegotiationFrame, GrantType
    <2>5. CASE ActionStep(auth)
      <3>1. \A id, seen : Dispatch(id, auth, seen) => UNCHANGED << grounds, negotiation >>
        BY DEF Dispatch
      <3>2. \A id, request, seen :
               Admit(id, request, auth, seen) => UNCHANGED << grounds, negotiation >>
        BY DEF Admit
      <3>3. \A id, use, n, outcome, items :
               Reconcile(id, use, n, outcome, auth, items) => UNCHANGED << grounds, negotiation >>
        BY DEF Reconcile
      <3>4. UNCHANGED << grounds, negotiation >>
        BY <2>5, <3>1, <3>2, <3>3 DEF ActionStep
      <3> QED BY <1>0, <2>0, <2>5, <3>4, NegotiationFrame, ActionType
    <2>6. CASE Observe(auth)
      <3>1. \A kind, id : Record(kind, id) => UNCHANGED << grounds, negotiation >>
        BY DEF Record
      <3>2. UNCHANGED << grounds, negotiation >>
        BY <2>6, <3>1 DEF Observe, Finding, Adapt, Progress
      <3> QED BY <1>0, <2>6, <3>2, NegotiationFrame, ObserveType
    <2>7. CASE SettleStep(auth)
      BY <1>0, <2>7, NativeFrame, SettleType DEF SettleStep, Fulfill, Withdraw
    <2> QED BY <1>2, <2>1, <2>2, <2>3, <2>4, <2>5, <2>6, <2>7 DEF Command
  <1>3. CASE UNCHANGED vars
    BY <1>0, <1>3, NegotiationFrame, NativeFrame DEF vars
  <1> QED BY <1>1, <1>2, <1>3 DEF Next

\* Every reachable state is well typed: every id that State stores names an entry of
\* State, and no generation or report count leaves its range.
THEOREM TypeCorrect == Spec => []TypeOK
  BY InitType, StepType, PTL DEF Spec

-----------------------------------------------------------------------------
(* The line of agreements.  LinearHistory is not inductive alone: that the *)
(* agreement a proposal would make is new rests on no two proposals naming *)
(* the same agreement.                                                     *)

UniqueAgreementIds ==
    \A p, q \in DOMAIN proposals : proposals[p].agreement = proposals[q].agreement => p = q

HistoryInv == TypeOK /\ LinearHistory /\ UniqueAgreementIds

Supersession ==
    current' # current =>
        /\ current' \notin DOMAIN agreements
        /\ DOMAIN agreements' = DOMAIN agreements \cup {current'}
        /\ proposals'[agreements'[current'].proposal].expected = current

\* A step that touches neither proposals nor agreements keeps the line.
LEMMA HistoryFrame ==
    ASSUME HistoryInv, UNCHANGED << proposals, agreements, current >>
    PROVE  LinearHistory' /\ UniqueAgreementIds' /\ Supersession
  BY DEF HistoryInv, LinearHistory, Predecessor, UniqueAgreementIds, Supersession

\* A new proposal names a fresh agreement, so the line keeps its meaning.
LEMMA ProposeHistory ==
    ASSUME HistoryInv, NEW id, NEW a, NEW expected, NEW terms, NEW deps,
           Propose(id, a, expected, terms, deps)
    PROVE  LinearHistory' /\ UniqueAgreementIds' /\ Supersession
  <1>1. /\ proposals' = Put(proposals, id, [agreement |-> a, expected |-> expected,
                                            terms |-> terms, deps |-> deps])
        /\ id \notin DOMAIN proposals
        /\ \A p \in DOMAIN proposals : proposals[p].agreement # a
        /\ UNCHANGED << agreements, current >>
    BY DEF Propose, AgreementIdFree
  <1>2. /\ DOMAIN proposals' = DOMAIN proposals \cup {id}
        /\ proposals'[id].agreement = a
        /\ \A p \in DOMAIN proposals : proposals'[p] = proposals[p]
    BY <1>1 DEF Put
  <1>3. UniqueAgreementIds'
    BY <1>1, <1>2 DEF HistoryInv, UniqueAgreementIds
  <1>4. \A x \in DOMAIN agreements : agreements[x].proposal \in DOMAIN proposals
    BY DEF HistoryInv, TypeOK, References
  <1>5. LinearHistory'
    BY <1>1, <1>2, <1>4 DEF HistoryInv, LinearHistory, Predecessor
  <1> QED BY <1>1, <1>3, <1>5 DEF Supersession

\* Activation extends the line at its end or leaves it alone.
LEMMA ActivateHistory ==
    ASSUME HistoryInv, NEW p \in DOMAIN proposals, NEW ds, Activate(p, ds),
           UNCHANGED proposals
    PROVE  LinearHistory' /\ UniqueAgreementIds' /\ Supersession
  <1>0. UniqueAgreementIds'
    BY DEF HistoryInv, UniqueAgreementIds
  <1>1. /\ current \in AgreementIds \cup {None}
        /\ current # None => current \in DOMAIN agreements
        /\ proposals[p].agreement \in AgreementIds
        /\ \A a \in DOMAIN agreements : /\ agreements[a] \in AgreementRecord
                                      /\ agreements[a].proposal \in DOMAIN proposals
                                      /\ a \in AgreementIds
    BY DEF HistoryInv, TypeOK, NegotiationTypeOK, References, IsPartial, ProposalRecord
  <1>2. CASE ExtendCurrent(ds)
    <2>1. UNCHANGED current /\ DOMAIN agreements' = DOMAIN agreements
      BY <1>2 DEF ExtendCurrent
    <2>2. \A b : \A r \in AgreementRecord : [r EXCEPT !.blockers = b].proposal = r.proposal
      BY DEF AgreementRecord
    <2>3. \A a \in DOMAIN agreements : agreements'[a].proposal = agreements[a].proposal
      BY <1>1, <1>2, <2>2 DEF ExtendCurrent
    <2> QED
      BY <1>0, <2>1, <2>3 DEF HistoryInv, LinearHistory, Predecessor, Supersession
  <1>3. ASSUME Follows(p), NEW x, NEW y, Supersede(p, ds, x, y)
        PROVE  LinearHistory' /\ Supersession
    <2> DEFINE new == proposals[p].agreement
    <2>1. new \notin DOMAIN agreements
      <3>1. SUFFICES ASSUME new \in DOMAIN agreements PROVE FALSE
        OBVIOUS
      <3>2. agreements[new].proposal = p
        BY <1>1, <3>1 DEF HistoryInv, LinearHistory, UniqueAgreementIds
      <3>3. Predecessor(new) = current
        BY <1>3, <3>2 DEF Predecessor, Follows
      <3> QED BY <3>1, <3>3 DEF HistoryInv, LinearHistory
    <2>2. /\ current' = new
          /\ DOMAIN agreements' = DOMAIN agreements \cup {new}
          /\ agreements'[new].proposal = p
          /\ \A a \in DOMAIN agreements : agreements'[a] = agreements[a]
      BY <1>3, <2>1 DEF Supersede, Put
    <2>3. new # None
      BY <1>1, IdsAreNotNone
    <2>4. \A a \in DOMAIN agreements : Predecessor(a)' = Predecessor(a)
      BY <2>2 DEF Predecessor
    <2>5. proposals'[agreements'[new].proposal].expected = current
      BY <1>3, <2>2 DEF Follows
    <2>6. Supersession
      BY <2>1, <2>2, <2>5 DEF Supersession
    <2>7. \A a \in DOMAIN agreements :
             /\ Predecessor(a) # current
             /\ Predecessor(a) # new
             /\ Predecessor(a) \in DOMAIN agreements \cup {None}
             /\ proposals[agreements[a].proposal].agreement = a
      BY <2>1, <2>3 DEF HistoryInv, LinearHistory
    <2>8. current # new /\ current \in DOMAIN agreements \cup {None}
      BY <1>1, <2>1, <2>3
    <2>9. \A a, b \in DOMAIN agreements : Predecessor(a) = Predecessor(b) => a = b
      BY DEF HistoryInv, LinearHistory
    <2>10. \A a \in DOMAIN agreements' :
             proposals'[agreements'[a].proposal].expected
               = IF a = new THEN current ELSE Predecessor(a)
      BY <2>1, <2>2, <2>5 DEF Predecessor
    <2>11. LinearHistory'
      BY <2>2, <2>3, <2>7, <2>8, <2>9, <2>10 DEF LinearHistory, Predecessor
    <2> QED BY <2>6, <2>11
  <1>4. CASE UNCHANGED << agreements, current >>
    BY <1>4, HistoryFrame
  <1> QED BY <1>0, <1>2, <1>3, <1>4 DEF Activate

\* Every step of the kernel keeps the line and only ever extends it at its end.
LEMMA HistoryStep ==
    ASSUME HistoryInv, [Next]_vars
    PROVE  LinearHistory' /\ UniqueAgreementIds' /\ Supersession
  <1>1. CASE UNCHANGED << proposals, agreements, current >>
    BY <1>1, HistoryFrame
  <1>2. ASSUME NEW auth \in Callers, Contribute(auth)
        PROVE  LinearHistory' /\ UniqueAgreementIds' /\ Supersession
    <2>1. ASSUME NEW id, NEW p, NEW deps, NEW b, Assess(id, p, deps, b)
          PROVE  UNCHANGED << proposals, agreements, current >>
      BY <2>1 DEF Assess
    <2> QED BY <1>1, <1>2, <2>1, ProposeHistory DEF Contribute
  <1>3. ASSUME NEW auth \in Callers, DecisionStep(auth)
        PROVE  LinearHistory' /\ UniqueAgreementIds' /\ Supersession
    <2>1. ASSUME NEW id, NEW p, NEW kind, NEW assessment, NEW deps,
                 Decide(id, p, kind, assessment, deps, auth)
          PROVE  LinearHistory' /\ UniqueAgreementIds' /\ Supersession
      <3>1. PICK ds : Activate(p, ds)
        BY <2>1 DEF Decide
      <3>2. p \in DOMAIN proposals /\ UNCHANGED proposals
        BY <2>1 DEF Decide, Proposed
      <3> QED BY <3>1, <3>2, ActivateHistory
    <2>2. ASSUME NEW id, Retract(id, auth)
          PROVE  UNCHANGED << proposals, agreements, current >>
      BY <2>2 DEF Retract
    <2>3. ASSUME NEW id, NEW deps, NEW assessment, Reaffirm(id, deps, assessment, auth)
          PROVE  LinearHistory' /\ UniqueAgreementIds' /\ Supersession
      <3>1. PICK ds : Activate(decisions[id].proposal, ds)
        BY <2>3 DEF Reaffirm
      <3>2. id \in DOMAIN decisions /\ UNCHANGED proposals
        BY <2>3 DEF Reaffirm
      <3>3. decisions[id].proposal \in DOMAIN proposals
        BY <3>2 DEF HistoryInv, TypeOK, References
      <3> QED BY <3>1, <3>2, <3>3, ActivateHistory
    <2> QED BY <1>1, <1>3, <2>1, <2>2, <2>3 DEF DecisionStep
  <1>4. ASSUME NEW auth \in Callers,
               Start(auth) \/ GrantStep(auth) \/ ActionStep(auth) \/ Observe(auth)
                 \/ SettleStep(auth)
        PROVE  UNCHANGED << proposals, agreements, current >>
    <2>1. CASE Start(auth)
      BY <2>1 DEF Start, Initiate
    <2>2. CASE GrantStep(auth)
      BY <2>2 DEF GrantStep, SetGrant, RevokeGrant, negotiation
    <2>3. CASE ActionStep(auth)
      <3>1. \A id, seen : Dispatch(id, auth, seen) => UNCHANGED negotiation
        BY DEF Dispatch
      <3>2. \A id, request, seen : Admit(id, request, auth, seen) => UNCHANGED negotiation
        BY DEF Admit
      <3>3. \A id, use, n, outcome, items :
               Reconcile(id, use, n, outcome, auth, items) => UNCHANGED negotiation
        BY DEF Reconcile
      <3>4. UNCHANGED negotiation
        BY <2>3, <3>1, <3>2, <3>3 DEF ActionStep
      <3> QED BY <3>4 DEF negotiation
    <2>4. CASE Observe(auth)
      <3>1. \A kind, id : Record(kind, id) => UNCHANGED negotiation
        BY DEF Record
      <3>2. UNCHANGED negotiation
        BY <2>4, <3>1 DEF Observe, Finding, Adapt, Progress
      <3> QED BY <3>2 DEF negotiation
    <2>5. CASE SettleStep(auth)
      BY <2>5 DEF SettleStep, Fulfill, Withdraw, Settle
    <2> QED BY <1>4, <2>1, <2>2, <2>3, <2>4, <2>5
  <1>5. CASE WorldMoves \/ UNCHANGED vars
    BY <1>1, <1>5 DEF WorldMoves, vars, negotiation
  <1> QED BY <1>1, <1>2, <1>3, <1>4, <1>5 DEF Next, Command

\* The empty Change has the empty line.
LEMMA HistoryInit == Init => HistoryInv
  <1> SUFFICES ASSUME Init PROVE HistoryInv
    OBVIOUS
  <1>1. DOMAIN proposals = {} /\ DOMAIN agreements = {}
    BY EmptyType DEF Init, NegotiationInit
  <1> QED BY <1>1, InitType DEF HistoryInv, LinearHistory, UniqueAgreementIds

\* For every number of proposals, agreements, decisions and callers, and however they
\* interleave, the agreements of a Change form one line that ends in the current one.
THEOREM HistoryIsLinear == Spec => []LinearHistory
  <1>1. HistoryInv /\ [Next]_vars => HistoryInv'
    BY HistoryStep, StepType DEF HistoryInv
  <1>2. HistoryInv => LinearHistory
    BY DEF HistoryInv
  <1> QED BY HistoryInit, <1>1, <1>2, PTL DEF Spec

\* No step of any length of history puts a superseded agreement back in force.
THEOREM SupersededStaysSuperseded == Spec => SupersededNeverReturns
  <1>1. HistoryInv /\ [Next]_vars => HistoryInv'
    BY HistoryStep, StepType DEF HistoryInv
  <1>2. HistoryInv /\ [Next]_vars => [Supersession]_vars
    BY HistoryStep
  <1>3. Spec => [][Supersession]_vars
    BY HistoryInit, <1>1, <1>2, PTL DEF Spec
  <1> QED BY <1>3 DEF SupersededNeverReturns, Supersession

-----------------------------------------------------------------------------
(* What an agreement stands on.  That later decisions leave it alone rests *)
(* on knowing whose decision is matched: each matched decision belongs to  *)
(* the agreement of its own proposal.                                      *)

PartyOf(kind) == IF kind = "adopt" THEN OwnerActor ELSE AgentActor

Parties ==
    \A d \in DOMAIN decisions :
        /\ decisions[d].actor = PartyOf(decisions[d].kind)
        /\ decisions[d].kind = "adopt" => decisions[d].blockers = {}

MatchedBelong ==
    \A d \in DOMAIN decisions :
        decisions[d].matched =>
            LET a == proposals[decisions[d].proposal].agreement
            IN  a \in DOMAIN agreements /\ d \in {agreements[a].adoption, agreements[a].undertaking}

EndorsedIsCarried ==
    Open => \A d \in DOMAIN decisions :
                decisions[d].matched => decisions[d].blockers \subseteq agreements[current].blockers

StandingInv ==
    /\ HistoryInv
    /\ AgreementStands
    /\ Parties
    /\ MatchedBelong
    /\ EndorsedIsCarried
    /\ FulfilledResolvesEveryBlocker

\* What a step does to agreements that are not in force: nothing.
OldAgreementsKept ==
    /\ DOMAIN agreements \subseteq DOMAIN agreements'
    /\ \A a \in DOMAIN agreements \ {current} :
          /\ agreements'[a] = agreements[a]
          /\ decisions'[agreements[a].adoption] = decisions[agreements[a].adoption]
          /\ decisions'[agreements[a].undertaking] = decisions[agreements[a].undertaking]

\* What a decision or a renewal writes before activation, as far as p's rivals,
\* earlier agreements and blockers are concerned.
Writes(p, ds) ==
    /\ DOMAIN decisions \subseteq DOMAIN ds
    /\ \A d \in DOMAIN decisions :
          /\ ds[d].proposal = decisions[d].proposal
          /\ ds[d].kind = decisions[d].kind
          /\ ds[d].actor = decisions[d].actor
          /\ ds[d].matched = decisions[d].matched
          /\ ds[d].retracted = decisions[d].retracted
          /\ decisions[d].proposal # p => ds[d] = decisions[d]
    /\ \A d \in DOMAIN ds :
          /\ ds[d].actor = PartyOf(ds[d].kind)
          /\ ds[d].kind = "adopt" => ds[d].blockers = {}
          /\ d \notin DOMAIN decisions => ~ds[d].matched

\* Two records of one decision that differ in whether it is matched only.
SameDecision(r, s) ==
    /\ s.proposal = r.proposal /\ s.kind = r.kind
    /\ s.assessment = r.assessment /\ s.deps = r.deps
    /\ s.actor = r.actor /\ s.blockers = r.blockers
    /\ s.retracted = r.retracted

\* A matched decision is otherwise what it was.
LEMMA MarkedRow ==
    ASSUME NEW r \in DecisionRecord, NEW s, s = [r EXCEPT !.matched = TRUE]
    PROVE  s \in DecisionRecord /\ SameDecision(r, s) /\ s.matched
  BY DEF DecisionRecord, SameDecision

\* Two sets of decisions that differ in who is matched only.
SameButMatched(f, out, marked) ==
    /\ DOMAIN out = DOMAIN f
    /\ \A d \in DOMAIN f :
          /\ SameDecision(f[d], out[d])
          /\ out[d].matched <=> (f[d].matched \/ d \in marked)
          /\ d \notin marked => out[d] = f[d]

\* Marking one decision as matched changes nothing else.
LEMMA MarkOne ==
    ASSUME NEW f, IsPartial(f, DecisionIds, DecisionRecord), NEW k,
           NEW out, out = [f EXCEPT ![k].matched = TRUE]
    PROVE  IsPartial(out, DecisionIds, DecisionRecord) /\ SameButMatched(f, out, {k})
  <1>1. \A d \in DOMAIN f : f[d] \in DecisionRecord
    BY DEF IsPartial
  <1>2. /\ DOMAIN out = DOMAIN f
        /\ out = [d \in DOMAIN f |-> out[d]]
        /\ \A d \in DOMAIN f : d # k => out[d] = f[d]
        /\ k \in DOMAIN f => out[k] = [f[k] EXCEPT !.matched = TRUE]
    OBVIOUS
  <1>3. ASSUME k \in DOMAIN f
        PROVE  out[k] \in DecisionRecord /\ SameDecision(f[k], out[k]) /\ out[k].matched
    BY <1>1, <1>2, <1>3, MarkedRow
  <1>4. \A d \in DOMAIN f : out[d] \in DecisionRecord
    BY <1>1, <1>2, <1>3
  <1>5. IsPartial(out, DecisionIds, DecisionRecord)
    BY <1>2, <1>4 DEF IsPartial
  <1>6. \A d \in DOMAIN f : SameDecision(f[d], f[d])
    BY DEF SameDecision
  <1>7. SameButMatched(f, out, {k})
    BY <1>2, <1>3, <1>6 DEF SameButMatched
  <1> QED BY <1>5, <1>7

\* Marking two decisions as matched changes nothing else.
LEMMA MarkBoth ==
    ASSUME NEW f, IsPartial(f, DecisionIds, DecisionRecord), NEW x, NEW y,
           NEW out, out = [f EXCEPT ![x].matched = TRUE, ![y].matched = TRUE]
    PROVE  SameButMatched(f, out, {x, y})
  <1>1. PICK mid : mid = [f EXCEPT ![x].matched = TRUE]
    OBVIOUS
  <1>2. IsPartial(mid, DecisionIds, DecisionRecord) /\ SameButMatched(f, mid, {x})
    BY <1>1, MarkOne
  <1>3. out = [mid EXCEPT ![y].matched = TRUE]
    BY <1>1
  <1>4. SameButMatched(mid, out, {y})
    BY <1>2, <1>3, MarkOne
  <1>5. DOMAIN out = DOMAIN f
    BY <1>2, <1>4 DEF SameButMatched
  <1>6. ASSUME NEW d \in DOMAIN f
        PROVE  SameDecision(f[d], out[d])
    <2>1. SameDecision(f[d], mid[d]) /\ SameDecision(mid[d], out[d])
      BY <1>2, <1>4 DEF SameButMatched
    <2> QED BY ONLY <2>1 DEF SameDecision
  <1>7. ASSUME NEW d \in DOMAIN f
        PROVE  out[d].matched <=> (f[d].matched \/ d = x \/ d = y)
    <2>1. mid[d].matched <=> (f[d].matched \/ d = x)
      BY <1>2 DEF SameButMatched
    <2>2. out[d].matched <=> (mid[d].matched \/ d = y)
      BY <1>2, <1>4 DEF SameButMatched
    <2> QED BY ONLY <2>1, <2>2
  <1>8. ASSUME NEW d \in DOMAIN f, d # x, d # y
        PROVE  out[d] = f[d]
    BY <1>2, <1>4, <1>8 DEF SameButMatched
  <1> QED BY <1>5, <1>6, <1>7, <1>8 DEF SameButMatched

\* A decision that may be written for p is one of the agreement in force or of none.
LEMMA OthersApart ==
    ASSUME HistoryInv, NEW p \in DOMAIN proposals, Renewable(p)
    PROVE  \A a \in DOMAIN agreements \ {current} : agreements[a].proposal # p
  <1> SUFFICES ASSUME NEW a \in DOMAIN agreements, a # current, agreements[a].proposal = p
               PROVE  FALSE
    OBVIOUS
  <1>1. proposals[p].agreement = a
    BY DEF HistoryInv, LinearHistory
  <1>2. proposals[p].expected # current
    BY DEF HistoryInv, LinearHistory, Predecessor
  <1> QED BY <1>1, <1>2 DEF Renewable, Follows

\* What is known of the state and of what is written when activation begins.
Written(p, ds) ==
    /\ StandingInv
    /\ p \in DOMAIN proposals
    /\ IsPartial(ds, DecisionIds, DecisionRecord)
    /\ Writes(p, ds)
    /\ Renewable(p)
    /\ Open

\* What activation owes to the properties.
Stood ==
    /\ AgreementStands'
    /\ Parties'
    /\ MatchedBelong'
    /\ EndorsedIsCarried'
    /\ OldAgreementsKept

\* The facts about agreements and their decisions that the cases of activation use.
LEMMA WrittenFacts ==
    ASSUME NEW p, NEW ds, Written(p, ds)
    PROVE  /\ proposals[p].agreement \in AgreementIds
           /\ current \in AgreementIds => current \in DOMAIN agreements
           /\ current = None => DOMAIN agreements = {}
           /\ \A a \in DOMAIN agreements :
                 /\ agreements[a] \in AgreementRecord
                 /\ agreements[a].adoption \in DOMAIN decisions
                 /\ agreements[a].undertaking \in DOMAIN decisions
                 /\ decisions[agreements[a].adoption].proposal = agreements[a].proposal
                 /\ decisions[agreements[a].undertaking].proposal = agreements[a].proposal
                 /\ proposals[agreements[a].proposal].agreement = a
                 /\ a # current =>
                       /\ agreements[a].proposal # p
                       /\ ds[agreements[a].adoption] = decisions[agreements[a].adoption]
                       /\ ds[agreements[a].undertaking] = decisions[agreements[a].undertaking]
                 /\ Predecessor(a) \in DOMAIN agreements \cup {None}
                 /\ Predecessor(a) # current
  <1>1. HistoryInv /\ p \in DOMAIN proposals /\ Renewable(p)
    BY DEF Written, StandingInv
  <1>2. /\ proposals[p].agreement \in AgreementIds
        /\ current \in AgreementIds => current \in DOMAIN agreements
        /\ \A a \in DOMAIN agreements : agreements[a] \in AgreementRecord
    BY <1>1, IdsAreNotNone DEF HistoryInv, TypeOK, NegotiationTypeOK, References, IsPartial, ProposalRecord
  <1>3. \A a \in DOMAIN agreements \ {current} : agreements[a].proposal # p
    BY <1>1, OthersApart
  <1>4. \A a \in DOMAIN agreements :
           /\ agreements[a].adoption \in DOMAIN decisions
           /\ agreements[a].undertaking \in DOMAIN decisions
           /\ decisions[agreements[a].adoption].proposal = agreements[a].proposal
           /\ decisions[agreements[a].undertaking].proposal = agreements[a].proposal
    BY DEF Written, StandingInv, AgreementStands, AgreementRestsOnBothParties, Kinds
  <1>5. \A d \in DOMAIN decisions : decisions[d].proposal # p => ds[d] = decisions[d]
    BY DEF Written, Writes
  <1>6. /\ current = None => DOMAIN agreements = {}
        /\ \A a \in DOMAIN agreements :
              /\ proposals[agreements[a].proposal].agreement = a
              /\ Predecessor(a) \in DOMAIN agreements \cup {None}
              /\ Predecessor(a) # current
    BY <1>1 DEF HistoryInv, LinearHistory
  <1> QED BY <1>2, <1>3, <1>4, <1>5, <1>6

\* A renewal of a decision of the agreement in force leaves what the agreement
\* stands on and adds what it endorses.
LEMMA ExtendStands ==
    ASSUME NEW p, NEW ds, Written(p, ds),
           current = proposals[p].agreement, ExtendCurrent(ds),
           UNCHANGED << proposals, settlement >>
    PROVE  Stood
  <1> DEFINE more == agreements[current].blockers
                       \cup ds[agreements[current].undertaking].blockers
  <1>1. current \in DOMAIN agreements /\ current \in AgreementIds
    BY WrittenFacts
  <1>2. /\ decisions' = ds /\ UNCHANGED current
        /\ agreements' = [agreements EXCEPT ![current].blockers = more]
    BY DEF ExtendCurrent
  <1>3. \A a \in DOMAIN agreements : agreements[a] \in AgreementRecord
    BY WrittenFacts
  <1>4. /\ DOMAIN agreements' = DOMAIN agreements
        /\ \A a \in DOMAIN agreements : a # current => agreements'[a] = agreements[a]
        /\ agreements'[current] = [agreements[current] EXCEPT !.blockers = more]
    BY <1>1, <1>2
  <1> HIDE DEF more
  <1>5. /\ agreements'[current].blockers = more
        /\ agreements'[current].proposal = agreements[current].proposal
        /\ agreements'[current].adoption = agreements[current].adoption
        /\ agreements'[current].undertaking = agreements[current].undertaking
    BY <1>1, <1>3, <1>4 DEF AgreementRecord
  <1>6. \A a \in DOMAIN agreements :
           /\ agreements'[a].proposal = agreements[a].proposal
           /\ agreements'[a].adoption = agreements[a].adoption
           /\ agreements'[a].undertaking = agreements[a].undertaking
           /\ agreements[a].blockers \subseteq agreements'[a].blockers
           /\ Predecessor(a)' = Predecessor(a)
    BY <1>4, <1>5 DEF more, Predecessor
  <1>7. OldAgreementsKept
    BY <1>2, <1>4, WrittenFacts DEF OldAgreementsKept
  <1>8. AgreementRestsOnBothParties'
    <2>1. \A d \in DOMAIN decisions :
             /\ d \in DOMAIN ds
             /\ ds[d].proposal = decisions[d].proposal /\ ds[d].kind = decisions[d].kind
             /\ ds[d].actor = decisions[d].actor
             /\ ds[d].matched = decisions[d].matched
             /\ ds[d].retracted = decisions[d].retracted
      BY DEF Written, Writes
    <2>2. AgreementRestsOnBothParties
      BY DEF Written, StandingInv, AgreementStands
    <2>3. ASSUME NEW a \in DOMAIN agreements, NEW kind \in Kinds, NEW d,
                 d = IF kind = "adopt" THEN agreements[a].adoption ELSE agreements[a].undertaking
          PROVE  /\ d \in DOMAIN ds /\ ds[d].kind = kind /\ ds[d].matched /\ ~ds[d].retracted
                 /\ ds[d].proposal = agreements[a].proposal
                 /\ ds[d].actor = IF kind = "adopt" THEN OwnerActor ELSE AgentActor
      <3>1. /\ d \in DOMAIN decisions /\ decisions[d].kind = kind
            /\ decisions[d].matched /\ ~decisions[d].retracted
            /\ decisions[d].proposal = agreements[a].proposal
            /\ decisions[d].actor = IF kind = "adopt" THEN OwnerActor ELSE AgentActor
        BY <2>2, <2>3 DEF AgreementRestsOnBothParties
      <3> QED BY <2>1, <3>1
    <2>4. DOMAIN agreements' = DOMAIN agreements /\ decisions' = ds
      BY <1>2, <1>4
    <2> QED BY <1>6, <2>3, <2>4 DEF AgreementRestsOnBothParties
  <1>9. BlockersCarryForward'
    <2>1. BlockersCarryForward
      BY DEF Written, StandingInv, AgreementStands
    <2>2. ASSUME NEW a \in DOMAIN agreements
          PROVE  decisions'[agreements'[a].undertaking].blockers \subseteq agreements'[a].blockers
      <3>1. CASE a = current
        BY <1>2, <1>5, <3>1 DEF more
      <3>2. CASE a # current
        BY <1>2, <1>4, <2>1, <3>2, WrittenFacts DEF BlockersCarryForward
      <3> QED BY <3>1, <3>2
    <2>3. ASSUME NEW a \in DOMAIN agreements, Predecessor(a) # None
          PROVE  agreements'[Predecessor(a)].blockers \subseteq agreements'[a].blockers
      <3>1. Predecessor(a) \in DOMAIN agreements /\ Predecessor(a) # current
        BY <2>3, WrittenFacts
      <3>2. agreements'[Predecessor(a)] = agreements[Predecessor(a)]
        BY <1>4, <3>1
      <3> QED BY <1>6, <2>1, <2>3, <3>2 DEF BlockersCarryForward
    <2> QED BY <1>4, <1>6, <2>2, <2>3 DEF BlockersCarryForward
  <1>10. Parties'
    BY <1>2 DEF Written, Writes, Parties
  <1>11. \A d \in DOMAIN ds : ds[d].matched =>
            /\ d \in DOMAIN decisions /\ decisions[d].matched
            /\ ds[d].proposal = decisions[d].proposal
    BY DEF Written, Writes
  <1>12. MatchedBelong'
    BY <1>2, <1>4, <1>6, <1>11 DEF Written, StandingInv, MatchedBelong
  <1>13. EndorsedIsCarried'
    <2>1. ASSUME NEW d \in DOMAIN ds, ds[d].matched
          PROVE  ds[d].blockers \subseteq agreements'[current].blockers
      <3>1. d \in DOMAIN decisions /\ decisions[d].matched
        BY <1>11, <2>1
      <3>2. CASE ds[d] = decisions[d]
        BY <1>6, <1>1, <3>1, <3>2 DEF Written, StandingInv, EndorsedIsCarried
      <3>3. CASE ds[d] # decisions[d]
        <4>1. decisions[d].proposal = p
          BY <3>1, <3>3 DEF Written, Writes
        <4>2. d \in {agreements[current].adoption, agreements[current].undertaking}
          BY <3>1, <4>1 DEF Written, StandingInv, MatchedBelong
        <4>3. CASE d = agreements[current].undertaking
          BY <1>5, <4>3 DEF more
        <4>4. CASE d = agreements[current].adoption
          <5>1. decisions[d].kind = "adopt"
            BY <1>1, <4>4 DEF Written, StandingInv, AgreementStands,
                              AgreementRestsOnBothParties, Kinds
          <5>2. ds[d].blockers = {}
            BY <3>1, <5>1 DEF Written, Writes
          <5> QED BY <5>2
        <4> QED BY <4>2, <4>3, <4>4
      <3> QED BY <3>2, <3>3
    <2> QED BY <1>2, <2>1 DEF EndorsedIsCarried
  <1> QED BY <1>7, <1>8, <1>9, <1>10, <1>12, <1>13 DEF Stood, AgreementStands

\* Decisions on a proposal that no agreement was made of yet are not matched.
LEMMA RivalsUnmatched ==
    ASSUME NEW p, NEW ds, Written(p, ds),
           current # proposals[p].agreement, Follows(p)
    PROVE  /\ proposals[p].agreement \notin DOMAIN agreements
           /\ \A d \in DOMAIN ds :
                 ds[d].matched => d \in DOMAIN decisions /\ ds[d] = decisions[d]
  <1> DEFINE new == proposals[p].agreement
  <1>1. HistoryInv /\ p \in DOMAIN proposals
    BY DEF Written, StandingInv
  <1>2. new \notin DOMAIN agreements
    <2>1. SUFFICES ASSUME new \in DOMAIN agreements PROVE FALSE
      OBVIOUS
    <2>2. agreements[new].proposal = p
      BY <1>1, <2>1 DEF HistoryInv, LinearHistory, UniqueAgreementIds, TypeOK, References
    <2>3. Predecessor(new) = current
      BY <2>2 DEF Predecessor, Follows
    <2> QED BY <1>1, <2>1, <2>3 DEF HistoryInv, LinearHistory
  <1>3. ASSUME NEW d \in DOMAIN ds, ds[d].matched
        PROVE  d \in DOMAIN decisions /\ ds[d] = decisions[d]
    <2>1. d \in DOMAIN decisions /\ decisions[d].matched
      BY <1>3 DEF Written, Writes
    <2>2. decisions[d].proposal # p
      BY <1>2, <2>1 DEF Written, StandingInv, MatchedBelong
    <2> QED BY <2>1, <2>2 DEF Written, Writes
  <1> QED BY <1>2, <1>3

\* A decision that activates nothing leaves what the agreements stand on.
LEMMA NothingActivated ==
    ASSUME NEW p, NEW ds, Written(p, ds),
           current # proposals[p].agreement, Follows(p),
           decisions' = ds, UNCHANGED << proposals, settlement, agreements, current >>
    PROVE  Stood
  <1>1. \A d \in DOMAIN ds : ds[d].matched => d \in DOMAIN decisions /\ ds[d] = decisions[d]
    BY RivalsUnmatched
  <1>2. \A d \in DOMAIN decisions :
           d \in DOMAIN ds /\ (decisions[d].matched => ds[d].matched /\ ds[d] = decisions[d])
    BY <1>1 DEF Written, Writes
  <1>3. AgreementStands
    BY DEF Written, StandingInv
  <1>4. \A a \in DOMAIN agreements :
           /\ decisions'[agreements[a].adoption] = decisions[agreements[a].adoption]
           /\ decisions'[agreements[a].undertaking] = decisions[agreements[a].undertaking]
           /\ agreements[a].adoption \in DOMAIN ds
           /\ agreements[a].undertaking \in DOMAIN ds
    BY <1>2, <1>3 DEF AgreementStands, AgreementRestsOnBothParties, Kinds
  <1>5. AgreementRestsOnBothParties'
    BY <1>3, <1>4 DEF AgreementStands, AgreementRestsOnBothParties
  <1>6. BlockersCarryForward'
    BY <1>3, <1>4 DEF AgreementStands, BlockersCarryForward, Predecessor
  <1>7. Parties'
    BY DEF Written, Writes, Parties
  <1>8. MatchedBelong'
    BY <1>1 DEF Written, StandingInv, MatchedBelong
  <1>9. EndorsedIsCarried'
    BY <1>1 DEF Written, StandingInv, EndorsedIsCarried
  <1>10. OldAgreementsKept
    BY <1>4 DEF OldAgreementsKept
  <1> QED BY <1>5, <1>6, <1>7, <1>8, <1>9, <1>10 DEF Stood, AgreementStands

\* A new agreement stands on the two decisions that made it, and carries what its
\* predecessor carried.
LEMMA SupersedeStands ==
    ASSUME NEW p, NEW ds, Written(p, ds),
           current # proposals[p].agreement, Follows(p),
           NEW x \in Effective(ds, p, "adopt"), NEW y \in Effective(ds, p, "undertake"),
           Supersede(p, ds, x, y),
           UNCHANGED << proposals, settlement >>
    PROVE  Stood
  <1> DEFINE new == proposals[p].agreement
  <1>1. /\ new \notin DOMAIN agreements
        /\ \A d \in DOMAIN ds :
              ds[d].matched => d \in DOMAIN decisions /\ ds[d] = decisions[d]
    BY RivalsUnmatched
  <1>2. /\ x \in DOMAIN ds /\ ds[x].kind = "adopt" /\ ds[x].proposal = p /\ ~ds[x].retracted
        /\ y \in DOMAIN ds /\ ds[y].kind = "undertake" /\ ds[y].proposal = p /\ ~ds[y].retracted
    BY DEF Effective
  <1>3. SameButMatched(ds, decisions', {x, y})
    <2>1. PICK out : out = [ds EXCEPT ![x].matched = TRUE, ![y].matched = TRUE]
      OBVIOUS
    <2>2. SameButMatched(ds, out, {x, y})
      BY <2>1, MarkBoth DEF Written
    <2>3. decisions' = out
      BY <2>1 DEF Supersede
    <2> QED BY <2>2, <2>3
  <1>4. /\ DOMAIN decisions' = DOMAIN ds
        /\ \A d \in DOMAIN ds : d # x /\ d # y => decisions'[d] = ds[d]
    BY <1>3 DEF SameButMatched
  <1>21. \A d \in DOMAIN ds : SameDecision(ds[d], decisions'[d])
    BY <1>3 DEF SameButMatched
  <1>22. \A d \in DOMAIN ds : decisions'[d].matched <=> (ds[d].matched \/ d \in {x, y})
    BY <1>3 DEF SameButMatched
  <1>5. /\ current' = new
        /\ DOMAIN agreements' = DOMAIN agreements \cup {new}
        /\ \A a \in DOMAIN agreements : agreements'[a] = agreements[a]
        /\ agreements'[new].proposal = p
        /\ agreements'[new].adoption = x
        /\ agreements'[new].undertaking = y
        /\ agreements'[new].blockers = ds[y].blockers \cup CarriedBlockers
    BY <1>1 DEF Supersede, Put
  <1>6. AgreementStands
    BY DEF Written, StandingInv
  <1>7. \A a \in DOMAIN agreements :
           /\ agreements[a].adoption \in DOMAIN decisions
           /\ agreements[a].undertaking \in DOMAIN decisions
           /\ decisions[agreements[a].adoption].matched
           /\ decisions[agreements[a].undertaking].matched
           /\ decisions[agreements[a].adoption].proposal = agreements[a].proposal
           /\ decisions[agreements[a].undertaking].proposal = agreements[a].proposal
    BY <1>6 DEF AgreementStands, AgreementRestsOnBothParties, Kinds
  <1>8. \A d \in DOMAIN decisions : decisions[d].matched =>
            /\ d \in DOMAIN ds /\ ds[d] = decisions[d]
            /\ d # x /\ d # y
            /\ decisions'[d] = decisions[d]
    <2> SUFFICES ASSUME NEW d \in DOMAIN decisions, decisions[d].matched
                 PROVE  /\ d \in DOMAIN ds /\ ds[d] = decisions[d]
                        /\ d # x /\ d # y
                        /\ decisions'[d] = decisions[d]
      OBVIOUS
    <2>1. d \in DOMAIN ds /\ ds[d].matched
      BY DEF Written, Writes
    <2>2. ds[d] = decisions[d]
      BY <1>1, <2>1
    <2>3. decisions[d].proposal # p
      BY <1>1 DEF Written, StandingInv, MatchedBelong
    <2>4. d # x /\ d # y
      BY <1>2, <2>2, <2>3
    <2>5. decisions'[d] = ds[d]
      BY <1>4, <2>1, <2>4
    <2> QED BY ONLY <2>1, <2>2, <2>4, <2>5
  <1>9. \A a \in DOMAIN agreements :
           /\ decisions'[agreements[a].adoption] = decisions[agreements[a].adoption]
           /\ decisions'[agreements[a].undertaking] = decisions[agreements[a].undertaking]
           /\ agreements[a].adoption \in DOMAIN ds
           /\ agreements[a].undertaking \in DOMAIN ds
    BY <1>7, <1>8
  <1>10. \A d \in DOMAIN ds :
            /\ ds[d].actor = PartyOf(ds[d].kind)
            /\ ds[d].kind = "adopt" => ds[d].blockers = {}
    BY DEF Written, Writes
  <1>11. AgreementRestsOnBothParties'
    <2>1. ASSUME NEW a \in DOMAIN agreements, NEW kind \in Kinds
          PROVE  LET id == IF kind = "adopt" THEN agreements'[a].adoption
                                             ELSE agreements'[a].undertaking
                 IN  /\ id \in DOMAIN decisions'
                     /\ decisions'[id].kind = kind
                     /\ decisions'[id].matched /\ ~decisions'[id].retracted
                     /\ decisions'[id].proposal = agreements'[a].proposal
                     /\ decisions'[id].actor = IF kind = "adopt" THEN OwnerActor ELSE AgentActor
      BY <1>4, <1>5, <1>6, <1>9 DEF AgreementStands, AgreementRestsOnBothParties
    <2>2. /\ decisions'[x].kind = "adopt" /\ decisions'[x].matched /\ ~decisions'[x].retracted
          /\ decisions'[x].proposal = p /\ decisions'[x].actor = OwnerActor
          /\ decisions'[y].kind = "undertake" /\ decisions'[y].matched /\ ~decisions'[y].retracted
          /\ decisions'[y].proposal = p /\ decisions'[y].actor = AgentActor
      <3>1. SameDecision(ds[x], decisions'[x]) /\ SameDecision(ds[y], decisions'[y])
        BY <1>2, <1>21
      <3>2. decisions'[x].matched /\ decisions'[y].matched
        BY <1>2, <1>22
      <3>3. ds[x].actor = OwnerActor /\ ds[y].actor = AgentActor
        BY ONLY <1>2, <1>10 DEF PartyOf
      <3> QED BY ONLY <1>2, <3>1, <3>2, <3>3 DEF SameDecision
    <2> QED BY <1>2, <1>4, <1>5, <2>1, <2>2 DEF AgreementRestsOnBothParties, Kinds
  <1>12. \A a \in DOMAIN agreements : Predecessor(a)' = Predecessor(a)
    BY <1>5 DEF Predecessor
  <1>13. Predecessor(new)' = current
    BY <1>5 DEF Predecessor, Follows
  <1>14. decisions'[y].blockers = ds[y].blockers /\ decisions'[x].blockers = {}
    <2>1. SameDecision(ds[x], decisions'[x]) /\ SameDecision(ds[y], decisions'[y])
      BY <1>2, <1>21
    <2>2. ds[x].blockers = {}
      BY ONLY <1>2, <1>10
    <2> QED BY ONLY <2>1, <2>2 DEF SameDecision
  <1>15. BlockersCarryForward'
    <2>1. ASSUME NEW a \in DOMAIN agreements
          PROVE  /\ decisions'[agreements'[a].undertaking].blockers \subseteq agreements'[a].blockers
                 /\ Predecessor(a)' # None =>
                      agreements'[Predecessor(a)'].blockers \subseteq agreements'[a].blockers
      <3>1. Predecessor(a) # None => Predecessor(a) \in DOMAIN agreements
        BY WrittenFacts
      <3> QED BY <1>5, <1>6, <1>9, <1>12, <3>1 DEF AgreementStands, BlockersCarryForward
    <2>2. decisions'[agreements'[new].undertaking].blockers \subseteq agreements'[new].blockers
      BY <1>5, <1>14
    <2>3. ASSUME Predecessor(new)' # None
          PROVE  agreements'[Predecessor(new)'].blockers \subseteq agreements'[new].blockers
      <3>1. current # None /\ current \in DOMAIN agreements
        BY <1>13, <2>3 DEF Written, StandingInv, HistoryInv, TypeOK, References
      <3> QED BY <1>5, <1>13, <3>1 DEF CarriedBlockers
    <2> QED BY <1>5, <2>1, <2>2, <2>3 DEF BlockersCarryForward
  <1>16. Parties'
    <2>1. ASSUME NEW d \in DOMAIN ds
          PROVE  /\ decisions'[d].actor = PartyOf(decisions'[d].kind)
                 /\ decisions'[d].kind = "adopt" => decisions'[d].blockers = {}
      <3>1. SameDecision(ds[d], decisions'[d])
        BY <1>21
      <3>2. ds[d].actor = PartyOf(ds[d].kind) /\ (ds[d].kind = "adopt" => ds[d].blockers = {})
        BY ONLY <1>10, <2>1
      <3> QED BY ONLY <3>1, <3>2 DEF SameDecision
    <2> QED BY <1>4, <2>1 DEF Parties
  <1>17. \A d \in DOMAIN decisions' : decisions'[d].matched =>
            \/ d \in DOMAIN decisions /\ decisions[d].matched /\ decisions'[d] = decisions[d]
            \/ d = x \/ d = y
    <2> SUFFICES ASSUME NEW d \in DOMAIN ds, decisions'[d].matched, d # x, d # y
                 PROVE  d \in DOMAIN decisions /\ decisions[d].matched /\ decisions'[d] = decisions[d]
      BY <1>4
    <2>1. ds[d].matched /\ decisions'[d] = ds[d]
      BY <1>4, <1>22
    <2>2. d \in DOMAIN decisions /\ ds[d] = decisions[d]
      BY <1>1, <2>1
    <2> QED BY <2>1, <2>2
  <1>18. MatchedBelong'
    <2>1. decisions'[x].proposal = p /\ decisions'[y].proposal = p
      BY <1>2, <1>21 DEF SameDecision
    <2> QED BY <1>5, <1>17, <2>1 DEF Written, StandingInv, MatchedBelong
  <1>19. EndorsedIsCarried'
    <2>1. ASSUME NEW d \in DOMAIN decisions, decisions[d].matched
          PROVE  decisions[d].blockers \subseteq CarriedBlockers
      <3>1. DOMAIN agreements # {}
        BY <2>1 DEF Written, StandingInv, MatchedBelong
      <3>2. current # None
        BY <3>1, WrittenFacts
      <3> QED BY <2>1, <3>2 DEF CarriedBlockers, Written, StandingInv, EndorsedIsCarried
    <2> QED BY <1>5, <1>14, <1>17, <2>1 DEF EndorsedIsCarried
  <1>20. OldAgreementsKept
    BY <1>5, <1>9 DEF OldAgreementsKept
  <1> QED BY <1>11, <1>15, <1>16, <1>18, <1>19, <1>20 DEF Stood, AgreementStands

\* An agreement that comes into force rests on the grounds as they are.
LEMMA SupersedeFresh ==
    ASSUME NEW p, NEW ds, Written(p, ds), NEW x \in Effective(ds, p, "adopt"),
           NEW y \in Effective(ds, p, "undertake"), Supersede(p, ds, x, y),
           UNCHANGED << grounds, proposals, assessments, settlement >>
    PROVE  CurrentGrounds(current)'
  <1> DEFINE new == proposals[p].agreement
  <1>1. /\ x \in DOMAIN ds /\ DependenciesValid(DecisionDependencies(ds[x]))
        /\ y \in DOMAIN ds /\ DependenciesValid(DecisionDependencies(ds[y]))
    BY DEF Effective
  <1>2. SameButMatched(ds, decisions', {x, y})
    <2>1. PICK out : out = [ds EXCEPT ![x].matched = TRUE, ![y].matched = TRUE]
      OBVIOUS
    <2>2. SameButMatched(ds, out, {x, y})
      BY <2>1, MarkBoth DEF Written
    <2>3. decisions' = out
      BY <2>1 DEF Supersede
    <2> QED BY <2>2, <2>3
  <1>3. current' = new /\ new \in DOMAIN agreements'
        /\ agreements'[new].adoption = x /\ agreements'[new].undertaking = y
    BY DEF Supersede, Put
  <1>4. ASSUME NEW d \in DOMAIN ds, DependenciesValid(DecisionDependencies(ds[d]))
        PROVE  DependenciesValid(DecisionDependencies(decisions[d]))'
    <2>1. SameDecision(ds[d], decisions'[d])
      BY <1>2 DEF SameButMatched
    <2>2. DecisionDependencies(decisions[d])' = DecisionDependencies(ds[d])
      BY <2>1 DEF SameDecision, DecisionDependencies
    <2> QED BY <1>4, <2>2 DEF DependenciesValid
  <1>5. Open'
    BY DEF Written, Open
  <1> QED BY <1>1, <1>3, <1>4, <1>5 DEF CurrentGrounds

\* Activation keeps what agreements stand on, and makes them on fresh grounds only.
LEMMA ActivateStands ==
    ASSUME NEW p, NEW ds, Written(p, ds), Activate(p, ds),
           UNCHANGED << grounds, proposals, assessments, settlement >>
    PROVE  Stood /\ (current' # current => CurrentGrounds(current)')
  <1>1. CASE current = proposals[p].agreement /\ ExtendCurrent(ds)
    BY <1>1, ExtendStands DEF ExtendCurrent
  <1>2. ASSUME current # proposals[p].agreement, Follows(p),
               NEW x \in Effective(ds, p, "adopt"), NEW y \in Effective(ds, p, "undertake"),
               Supersede(p, ds, x, y)
        PROVE  Stood /\ CurrentGrounds(current)'
    BY <1>2, SupersedeStands, SupersedeFresh
  <1>3. CASE /\ current # proposals[p].agreement /\ Follows(p)
             /\ decisions' = ds /\ UNCHANGED << agreements, current >>
    BY <1>3, NothingActivated
  <1> QED BY <1>1, <1>2, <1>3 DEF Activate

\* A new decision is written so that activation may begin.
LEMMA DecideWrites ==
    ASSUME StandingInv, NEW id \in DecisionIds, NEW p \in ProposalIds, NEW kind \in Kinds,
           NEW assessment \in AssessmentIds \cup {None}, NEW deps \in Dependencies,
           NEW auth \in Authorities, Decide(id, p, kind, assessment, deps, auth)
    PROVE  \E ds : Written(p, ds) /\ Activate(p, ds)
  <1>0. TypeOK
    BY DEF StandingInv, HistoryInv
  <1>1. PICK d : d = NewDecision(p, kind, assessment, deps, auth)
    OBVIOUS
  <1>2. /\ d \in DecisionRecord /\ d.proposal = p /\ d.kind = kind
        /\ d.actor = auth.actor /\ ~d.matched
    BY <1>1, ChoicesAreTyped DEF NewDecision, DecisionRecord
  <1>3. PICK e : e = [d EXCEPT !.blockers = AssessedBlockers(d)]
    OBVIOUS
  <1>4. PICK ds : ds = Put(decisions, id, e)
    OBVIOUS
  <1>5. /\ DecisionCoherent(d) /\ Party(kind, auth) /\ Open
        /\ p \in DOMAIN proposals /\ Follows(p)
        /\ id \notin DOMAIN decisions
        /\ Activate(p, ds)
    BY <1>1, <1>3, <1>4 DEF Decide, Proposed, DecisionHolds, Negotiable
  <1>6. AssessedBlockers(d) \subseteq Blockers
    BY <1>0, <1>2, <1>5, AssessedType
  <1>7. /\ e \in DecisionRecord /\ e.proposal = p /\ e.kind = kind
        /\ e.actor = auth.actor /\ e.blockers = AssessedBlockers(d)
    BY ONLY <1>2, <1>3, <1>6 DEF DecisionRecord
  <1>8. ~e.matched
    BY ONLY <1>2, <1>3 DEF DecisionRecord
  <1>9. e.actor = PartyOf(e.kind) /\ (e.kind = "adopt" => e.blockers = {})
    BY <1>2, <1>5, <1>7 DEF Party, IsOwner, IsAgent, PartyOf, Kinds, AssessedBlockers
  <1>10. IsPartial(ds, DecisionIds, DecisionRecord)
    BY <1>0, <1>4, <1>7, PutType DEF TypeOK, NegotiationTypeOK
  <1>11. /\ DOMAIN ds = DOMAIN decisions \cup {id}
         /\ \A x \in DOMAIN decisions : ds[x] = decisions[x]
         /\ ds[id] = e
    BY <1>4, <1>5 DEF Put
  <1>12. Writes(p, ds)
    BY <1>8, <1>9, <1>11 DEF Writes, StandingInv, Parties
  <1> QED BY <1>5, <1>10, <1>12 DEF Written, Renewable

\* A renewed decision is written so that activation may begin.
LEMMA ReaffirmWrites ==
    ASSUME StandingInv, NEW id \in DecisionIds, NEW deps \in Dependencies,
           NEW assessment \in AssessmentIds \cup {None}, NEW auth \in Authorities,
           Reaffirm(id, deps, assessment, auth)
    PROVE  \E p, ds : Written(p, ds) /\ Activate(p, ds)
  <1>0. TypeOK
    BY DEF StandingInv, HistoryInv
  <1>1. PICK old : old = decisions[id]
    OBVIOUS
  <1>2. PICK d : d = [old EXCEPT !.deps = deps, !.assessment = assessment]
    OBVIOUS
  <1>3. PICK e : e = [d EXCEPT !.blockers = RenewedBlockers(old, d)]
    OBVIOUS
  <1>4. PICK ds : ds = [decisions EXCEPT ![id] = e]
    OBVIOUS
  <1>5. /\ id \in DOMAIN decisions /\ Open
        /\ Renewable(old.proposal)
        /\ DecisionCoherent(d)
        /\ Activate(old.proposal, ds)
    BY <1>1, <1>2, <1>3, <1>4 DEF Reaffirm, Negotiable
  <1>6. old \in DecisionRecord /\ old.proposal \in DOMAIN proposals
    BY <1>0, <1>1, <1>5 DEF TypeOK, NegotiationTypeOK, References, IsPartial
  <1>7. /\ d \in DecisionRecord /\ d.proposal = old.proposal /\ d.kind = old.kind
        /\ d.actor = old.actor
    BY ONLY <1>2, <1>6, deps \in Dependencies, assessment \in AssessmentIds \cup {None}
       DEF DecisionRecord
  <1>8. d.matched = old.matched /\ d.retracted = old.retracted
    BY ONLY <1>2, <1>6 DEF DecisionRecord
  <1>9. RenewedBlockers(old, d) \subseteq Blockers
    BY <1>0, <1>5, <1>6, <1>7, AssessedType DEF RenewedBlockers, DecisionRecord
  <1>10. /\ e \in DecisionRecord /\ e.proposal = old.proposal /\ e.kind = old.kind
         /\ e.actor = old.actor /\ e.blockers = RenewedBlockers(old, d)
    BY ONLY <1>3, <1>7, <1>9 DEF DecisionRecord
  <1>11. e.matched = old.matched /\ e.retracted = old.retracted
    BY ONLY <1>3, <1>7, <1>8 DEF DecisionRecord
  <1>12. old.actor = PartyOf(old.kind) /\ (old.kind = "adopt" => old.blockers = {})
    BY <1>1, <1>5 DEF StandingInv, Parties
  <1>13. e.actor = PartyOf(e.kind) /\ (e.kind = "adopt" => e.blockers = {})
    BY <1>7, <1>10, <1>12 DEF RenewedBlockers, AssessedBlockers
  <1>14. IsPartial(ds, DecisionIds, DecisionRecord)
    BY <1>0, <1>4, <1>10, UpdateType DEF TypeOK, NegotiationTypeOK
  <1>15. /\ DOMAIN ds = DOMAIN decisions
         /\ \A x \in DOMAIN decisions : x # id => ds[x] = decisions[x]
         /\ ds[id] = e
    BY <1>4, <1>5
  <1>16. Writes(old.proposal, ds)
    <2>1. \A x \in DOMAIN ds :
             ds[x].actor = PartyOf(ds[x].kind) /\ (ds[x].kind = "adopt" => ds[x].blockers = {})
      BY <1>13, <1>15 DEF StandingInv, Parties
    <2>2. \A x \in DOMAIN decisions :
             /\ ds[x].proposal = decisions[x].proposal
             /\ ds[x].kind = decisions[x].kind
             /\ ds[x].actor = decisions[x].actor
             /\ decisions[x].proposal # old.proposal => ds[x] = decisions[x]
      BY <1>1, <1>10, <1>15
    <2>3. \A x \in DOMAIN decisions :
             ds[x].matched = decisions[x].matched /\ ds[x].retracted = decisions[x].retracted
      BY <1>1, <1>11, <1>15
    <2> QED BY <1>15, <2>1, <2>2, <2>3 DEF Writes
  <1> QED BY <1>5, <1>6, <1>14, <1>16 DEF Written

\* What a step of the kernel owes to the properties of agreements.
StandingStep ==
    /\ Stood
    /\ FulfilledResolvesEveryBlocker'
    /\ current' # current => CurrentGrounds(current)'

\* A step that leaves the decisions and the agreements alone leaves what they are.
LEMMA StandingFrame ==
    ASSUME StandingInv, UNCHANGED << proposals, decisions, agreements, current, settlement >>
    PROVE  StandingStep
  <1>1. AgreementStands'
    BY DEF StandingInv, AgreementStands, AgreementRestsOnBothParties, BlockersCarryForward, Predecessor
  <1>2. Parties' /\ MatchedBelong' /\ EndorsedIsCarried' /\ FulfilledResolvesEveryBlocker'
    BY DEF StandingInv, Parties, MatchedBelong, EndorsedIsCarried, Open,
           FulfilledResolvesEveryBlocker
  <1> QED BY <1>1, <1>2 DEF StandingStep, Stood, OldAgreementsKept

\* A new proposal is one no decision names yet.
LEMMA ProposeStands ==
    ASSUME StandingInv, NEW id, NEW a, NEW expected, NEW terms, NEW deps,
           Propose(id, a, expected, terms, deps)
    PROVE  StandingStep
  <1>1. /\ proposals' = Put(proposals, id, [agreement |-> a, expected |-> expected,
                                            terms |-> terms, deps |-> deps])
        /\ id \notin DOMAIN proposals
        /\ UNCHANGED << decisions, agreements, current, settlement >>
    BY DEF Propose
  <1>2. \A p \in DOMAIN proposals : proposals'[p] = proposals[p]
    BY <1>1 DEF Put
  <1>3. /\ \A d \in DOMAIN decisions : decisions[d].proposal \in DOMAIN proposals
        /\ \A x \in DOMAIN agreements : agreements[x].proposal \in DOMAIN proposals
    BY DEF StandingInv, HistoryInv, TypeOK, References
  <1>4. AgreementRestsOnBothParties' /\ BlockersCarryForward'
    BY <1>1, <1>2, <1>3 DEF StandingInv, AgreementStands, AgreementRestsOnBothParties,
                            BlockersCarryForward, Predecessor
  <1>5. Parties' /\ EndorsedIsCarried' /\ FulfilledResolvesEveryBlocker' /\ MatchedBelong'
    BY <1>1, <1>2, <1>3 DEF StandingInv, Parties, EndorsedIsCarried, Open, MatchedBelong,
                            FulfilledResolvesEveryBlocker
  <1> QED BY <1>1, <1>4, <1>5 DEF StandingStep, Stood, AgreementStands, OldAgreementsKept

\* Only a decision that carries no agreement is retracted.
LEMMA RetractStands ==
    ASSUME StandingInv, NEW id, NEW auth, Retract(id, auth)
    PROVE  StandingStep
  <1>0. PICK old : old = decisions[id]
    OBVIOUS
  <1>1. /\ id \in DOMAIN decisions /\ ~old.matched
        /\ decisions' = [decisions EXCEPT ![id].retracted = TRUE]
        /\ UNCHANGED << proposals, agreements, current, settlement >>
    BY <1>0 DEF Retract, Retractable
  <1>2. PICK e : e = [old EXCEPT !.retracted = TRUE]
    OBVIOUS
  <1>3. old \in DecisionRecord
    BY <1>0, <1>1 DEF StandingInv, HistoryInv, TypeOK, NegotiationTypeOK, IsPartial
  <1>4. /\ e.proposal = old.proposal /\ e.kind = old.kind /\ e.actor = old.actor
        /\ e.blockers = old.blockers
    BY ONLY <1>2, <1>3 DEF DecisionRecord
  <1>5. ~e.matched
    BY ONLY <1>1, <1>2, <1>3 DEF DecisionRecord
  <1>6. /\ DOMAIN decisions' = DOMAIN decisions
        /\ \A d \in DOMAIN decisions : d # id => decisions'[d] = decisions[d]
        /\ decisions'[id] = e
    BY <1>0, <1>1, <1>2
  <1>7. \A d \in DOMAIN decisions' : decisions'[d].matched =>
            d # id /\ decisions[d].matched /\ decisions'[d] = decisions[d]
    BY <1>5, <1>6
  <1>8. \A a \in DOMAIN agreements :
           /\ agreements[a].adoption \in DOMAIN decisions
           /\ agreements[a].undertaking \in DOMAIN decisions
           /\ decisions'[agreements[a].adoption] = decisions[agreements[a].adoption]
           /\ decisions'[agreements[a].undertaking] = decisions[agreements[a].undertaking]
    BY <1>0, <1>1, <1>6 DEF StandingInv, AgreementStands, AgreementRestsOnBothParties, Kinds
  <1>9. AgreementStands'
    <2>1. AgreementRestsOnBothParties /\ BlockersCarryForward
      BY DEF StandingInv, AgreementStands
    <2>2. AgreementRestsOnBothParties'
      <3>1. DOMAIN decisions' = DOMAIN decisions /\ UNCHANGED agreements
        BY <1>1, <1>6
      <3> QED BY ONLY <1>8, <2>1, <3>1 DEF AgreementRestsOnBothParties, Kinds
    <2>3. BlockersCarryForward'
      BY <1>1, <1>8, <2>1 DEF BlockersCarryForward, Predecessor
    <2> QED BY <2>2, <2>3 DEF AgreementStands
  <1>10. Parties'
    BY <1>0, <1>1, <1>4, <1>6 DEF StandingInv, Parties
  <1>11. EndorsedIsCarried' /\ MatchedBelong'
    BY <1>1, <1>6, <1>7 DEF StandingInv, EndorsedIsCarried, Open, MatchedBelong
  <1>12. FulfilledResolvesEveryBlocker'
    BY <1>1, <1>6, <1>7 DEF StandingInv, FulfilledResolvesEveryBlocker
  <1>13. OldAgreementsKept
    BY <1>1, <1>8 DEF OldAgreementsKept
  <1> QED BY <1>1, <1>9, <1>10, <1>11, <1>12, <1>13 DEF StandingStep, Stood

\* A Change is fulfilled under the agreement in force, with all it carries resolved.
LEMMA SettleStands ==
    ASSUME StandingInv, NEW auth, SettleStep(auth)
    PROVE  StandingStep
  <1>1. ASSUME NEW kind, NEW id, NEW resolved, Settle(kind, id, resolved), Open,
               kind \in {"fulfilled", "withdrawn"},
               kind = "fulfilled" => current = id /\ BlockersResolved(id, resolved)
        PROVE  StandingStep
    <2>1. /\ UNCHANGED << proposals, decisions, agreements, current >>
          /\ settlement' = [kind |-> kind, agreement |-> id, resolved |-> resolved]
      BY <1>1 DEF Settle
    <2>2. settlement'.kind = kind /\ settlement'.resolved = resolved
      BY <2>1
    <2>3. AgreementStands'
      BY <2>1 DEF StandingInv, AgreementStands, AgreementRestsOnBothParties,
                  BlockersCarryForward, Predecessor
    <2>4. Parties' /\ MatchedBelong'
      BY <2>1 DEF StandingInv, Parties, MatchedBelong
    <2>5. EndorsedIsCarried'
      BY <1>1, <2>2 DEF EndorsedIsCarried, Open
    <2>6. FulfilledResolvesEveryBlocker'
      <3>1. SUFFICES ASSUME kind = "fulfilled", NEW d \in DOMAIN decisions, decisions[d].matched
                     PROVE  decisions[d].blockers \subseteq resolved
        BY <2>1, <2>2 DEF FulfilledResolvesEveryBlocker
      <3>2. decisions[d].blockers \subseteq agreements[current].blockers
        BY <1>1, <3>1 DEF StandingInv, EndorsedIsCarried
      <3> QED BY <1>1, <3>1, <3>2 DEF BlockersResolved
    <2> QED BY <2>1, <2>3, <2>4, <2>5, <2>6 DEF StandingStep, Stood, OldAgreementsKept
  <1> QED BY <1>1 DEF SettleStep, Fulfill, Withdraw, Negotiable, CurrentGrounds

\* The negotiation is touched by these commands only.
LEMMA OnlyNegotiation ==
    ASSUME NEW auth, GrantStep(auth) \/ ActionStep(auth) \/ Observe(auth)
    PROVE  UNCHANGED << grounds, negotiation >>
  <1>1. CASE GrantStep(auth)
    BY <1>1 DEF GrantStep, SetGrant, RevokeGrant
  <1>2. CASE ActionStep(auth)
    <2>1. \A id, seen : Dispatch(id, auth, seen) => UNCHANGED << grounds, negotiation >>
      BY DEF Dispatch
    <2>2. \A id, request, seen :
             Admit(id, request, auth, seen) => UNCHANGED << grounds, negotiation >>
      BY DEF Admit
    <2>3. \A id, use, n, outcome, items :
             Reconcile(id, use, n, outcome, auth, items) => UNCHANGED << grounds, negotiation >>
      BY DEF Reconcile
    <2> QED BY <1>2, <2>1, <2>2, <2>3 DEF ActionStep
  <1>3. CASE Observe(auth)
    <2>1. \A kind, id : Record(kind, id) => UNCHANGED << grounds, negotiation >>
      BY DEF Record
    <2> QED BY <1>3, <2>1 DEF Observe, Finding, Adapt, Progress
  <1> QED BY <1>1, <1>2, <1>3

\* Every step keeps what agreements stand on.
LEMMA StandingNext ==
    ASSUME StandingInv, [Next]_vars
    PROVE  StandingStep
  <1>1. CASE UNCHANGED negotiation
    BY <1>1, StandingFrame DEF negotiation
  <1>2. ASSUME NEW auth \in Callers, Start(auth)
        PROVE  StandingStep
    BY <1>2, StandingFrame DEF Start, Initiate
  <1>3. ASSUME NEW auth \in Callers, Contribute(auth)
        PROVE  StandingStep
    <2>1. ASSUME NEW id, NEW p, NEW deps, NEW b, Assess(id, p, deps, b)
          PROVE  StandingStep
      BY <2>1, StandingFrame DEF Assess
    <2> QED BY <1>3, <2>1, ProposeStands DEF Contribute
  <1>4. ASSUME NEW auth \in Callers, DecisionStep(auth)
        PROVE  StandingStep
    <2>0. auth \in Authorities
      BY DEF Callers
    <2>1. ASSUME NEW p, NEW ds, Written(p, ds), Activate(p, ds),
                 UNCHANGED << grounds, proposals, assessments, settlement >>
          PROVE  StandingStep
      <3>1. Stood /\ (current' # current => CurrentGrounds(current)')
        BY <2>1, ActivateStands
      <3>2. FulfilledResolvesEveryBlocker'
        BY <2>1 DEF Written, Open, FulfilledResolvesEveryBlocker
      <3> QED BY <3>1, <3>2 DEF StandingStep
    <2>2. ASSUME NEW id \in DecisionIds, NEW p \in ProposalIds, NEW kind \in Kinds,
                 NEW deps \in Dependencies, NEW assessment \in AssessmentIds \cup {None},
                 Decide(id, p, kind, assessment, deps, auth), UNCHANGED grounds
          PROVE  StandingStep
      <3>1. UNCHANGED << grounds, proposals, assessments, settlement >>
        BY <2>2 DEF Decide
      <3> QED BY <2>0, <2>1, <2>2, <3>1, DecideWrites
    <2>3. ASSUME NEW id \in DecisionIds, NEW deps \in Dependencies,
                 NEW assessment \in AssessmentIds \cup {None},
                 Reaffirm(id, deps, assessment, auth), UNCHANGED grounds
          PROVE  StandingStep
      <3>1. UNCHANGED << grounds, proposals, assessments, settlement >>
        BY <2>3 DEF Reaffirm
      <3> QED BY <2>0, <2>1, <2>3, <3>1, ReaffirmWrites
    <2> QED BY <1>4, <2>2, <2>3, RetractStands DEF DecisionStep
  <1>5. ASSUME NEW auth \in Callers, SettleStep(auth)
        PROVE  StandingStep
    BY <1>5, SettleStands
  <1> QED
    BY <1>1, <1>2, <1>3, <1>4, <1>5, OnlyNegotiation DEF Next, Command, WorldMoves, vars

StandingKept == (current' # current => CurrentGrounds(current)') /\ OldAgreementsKept

LEMMA StandingInit == Init => StandingInv
  <1> SUFFICES ASSUME Init PROVE StandingInv
    OBVIOUS
  <1>1. DOMAIN decisions = {} /\ DOMAIN agreements = {}
    BY EmptyType DEF Init, NegotiationInit
  <1>2. settlement.kind = "open"
    BY DEF Init, NegotiationInit
  <1> QED BY <1>1, <1>2, HistoryInit DEF StandingInv, AgreementStands,
             AgreementRestsOnBothParties, BlockersCarryForward, Parties, MatchedBelong,
             EndorsedIsCarried, FulfilledResolvesEveryBlocker

LEMMA StandingInvNext ==
    ASSUME StandingInv, [Next]_vars
    PROVE  StandingInv'
  <1>1. HistoryInv
    BY DEF StandingInv
  <1>2. HistoryInv'
    BY <1>1, HistoryStep, StepType DEF HistoryInv
  <1> QED BY <1>2, StandingNext DEF StandingStep, Stood, StandingInv

\* The invariant of the negotiation holds of every history.
LEMMA StandingHolds == Spec => []StandingInv /\ [][StandingKept]_vars
  <1>1. StandingInv /\ [Next]_vars => [StandingKept]_vars
    BY StandingNext DEF StandingStep, Stood, StandingKept
  <1> QED BY StandingInit, StandingInvNext, <1>1, PTL DEF Spec

\* Every agreement ever made rests on live decisions of both parties on one proposal and
\* carries every blocker endorsed for it and for its predecessors.
THEOREM AgreementsStand == Spec => []AgreementStands
  <1>1. StandingInv => AgreementStands
    BY DEF StandingInv
  <1> QED BY StandingHolds, <1>1, PTL

\* Fulfilment cannot forget a blocker: what it resolved covers every matched decision.
THEOREM FulfilmentIsComplete == Spec => []FulfilledResolvesEveryBlocker
  <1>1. StandingInv => FulfilledResolvesEveryBlocker
    BY DEF StandingInv
  <1> QED BY StandingHolds, <1>1, PTL

\* No agreement comes into force on grounds that moved since one of its parties spoke.
THEOREM ActivationIsFresh == Spec => ActivationOnFreshGrounds
  <1>1. [StandingKept]_vars => [current' # current => CurrentGrounds(current)']_vars
    BY DEF StandingKept
  <1> QED BY StandingHolds, <1>1, PTL DEF ActivationOnFreshGrounds

-----------------------------------------------------------------------------
(* What waits in the queue.  That a lost permission stays lost rests on    *)
(* what only grows: the generation of a grant, the version of a ground,    *)
(* and the line of agreements.                                             *)

GrantsAdvance ==
    \A g \in DOMAIN grants :
        /\ g \in DOMAIN grants'
        /\ grants'[g].generation >= grants[g].generation
        /\ grants'[g].generation = grants[g].generation => grants'[g] = grants[g]
        /\ grants[g].revoked => grants'[g] = grants[g]

\* Only a command about grants touches them.
LEMMA GrantsElsewhere ==
    ASSUME [Next]_vars
    PROVE  UNCHANGED grants \/ \E auth : GrantStep(auth)
  <1>1. ASSUME NEW auth,
               \/ Start(auth) \/ Contribute(auth) \/ DecisionStep(auth) \/ SettleStep(auth)
        PROVE  UNCHANGED grants
    BY <1>1 DEF Start, Contribute, DecisionStep, SettleStep, Fulfill, Withdraw, native
  <1>2. ASSUME NEW auth, ActionStep(auth) \/ Observe(auth)
        PROVE  UNCHANGED grants
    <2>1. \A id, seen : Dispatch(id, auth, seen) => UNCHANGED grants
      BY DEF Dispatch
    <2>2. \A id, request, seen : Admit(id, request, auth, seen) => UNCHANGED grants
      BY DEF Admit
    <2>3. \A id, use, n, outcome, items :
             Reconcile(id, use, n, outcome, auth, items) => UNCHANGED grants
      BY DEF Reconcile
    <2>4. \A kind, id : Record(kind, id) => UNCHANGED grants
      BY DEF Record, native
    <2>5. CASE ActionStep(auth)
      BY <2>1, <2>2, <2>3, <2>5 DEF ActionStep
    <2>6. CASE Observe(auth)
      BY <2>4, <2>6 DEF Observe, Finding, Adapt, Progress
    <2> QED BY <1>2, <2>5, <2>6
  <1> QED BY <1>1, <1>2 DEF Next, Command, WorldMoves, vars, native

\* A grant that is written again or revoked takes the next generation.
LEMMA GrantsOnlyAdvance ==
    ASSUME TypeOK, [Next]_vars
    PROVE  GrantsAdvance
  <1>0. \A g \in DOMAIN grants : grants[g] \in GrantRecord /\ grants[g].generation \in Int
    BY PursuitBounds DEF TypeOK, IsPartial, GrantRecord
  <1>1. CASE UNCHANGED grants
    BY <1>0, <1>1 DEF GrantsAdvance
  <1>2. ASSUME NEW auth, GrantStep(auth)
        PROVE  GrantsAdvance
    <2>1. ASSUME NEW id, NEW expected, NEW spec, SetGrant(id, expected, spec, auth)
          PROVE  GrantsAdvance
      <3>1. PICK r : r = [generation |-> NextGeneration(id, expected),
                          spec |-> spec, revoked |-> FALSE]
        OBVIOUS
      <3>2. grants' = Put(grants, id, r) /\ Replaceable(id, expected)
        BY <2>1, <3>1 DEF SetGrant
      <3>3. /\ DOMAIN grants' = DOMAIN grants \cup {id} /\ grants'[id] = r
            /\ \A g \in DOMAIN grants : g # id => grants'[g] = grants[g]
        BY <3>2 DEF Put
      <3>4. ASSUME id \in DOMAIN grants
            PROVE  ~grants[id].revoked /\ r.generation = grants[id].generation + 1
        BY <3>1, <3>2, <3>4 DEF Replaceable, NextGeneration
      <3> QED BY <1>0, <3>3, <3>4 DEF GrantsAdvance
    <2>2. ASSUME NEW id, NEW expected, RevokeGrant(id, expected, auth)
          PROVE  GrantsAdvance
      <3>1. /\ id \in DOMAIN grants /\ ~grants[id].revoked
            /\ grants' = [grants EXCEPT ![id] = RevokedGrant(grants[id])]
        BY <2>2 DEF RevokeGrant
      <3>2. RevokedGrant(grants[id]).generation = grants[id].generation + 1
        BY <1>0, <3>1 DEF RevokedGrant, GrantRecord
      <3>3. /\ DOMAIN grants' = DOMAIN grants /\ grants'[id] = RevokedGrant(grants[id])
            /\ \A g \in DOMAIN grants : g # id => grants'[g] = grants[g]
        BY <3>1
      <3> QED BY <1>0, <3>1, <3>2, <3>3 DEF GrantsAdvance
    <2> QED BY <1>2, <2>1, <2>2 DEF GrantStep
  <1> QED BY <1>1, <1>2, GrantsElsewhere

\* What replacement or revocation ended is not usable again.
THEOREM UsesStayEnded == Spec => UsesNeverRevive
  <1>1. TypeOK /\ [Next]_vars => [GrantsAdvance]_vars
    BY GrantsOnlyAdvance
  <1>2. Spec => [][GrantsAdvance]_vars
    BY InitType, StepType, <1>1, PTL DEF Spec
  <1> QED BY <1>2 DEF UsesNeverRevive, GrantsAdvance

\* A new action is admitted under the agreement in force and a grant that stands, on
\* grounds that hold.
Admitted(id, a) ==
    /\ id \notin DOMAIN actions
    /\ actions' = Put(actions, id, a)
    /\ a.phase = "Admitted"
    /\ Open /\ current \in DOMAIN agreements
    /\ a.request.agreement = current
    /\ a.request.use.id \in DOMAIN grants
    /\ grants[a.request.use.id].generation = a.request.use.generation
    /\ DependenciesValid(a.admission)

\* An action leaves the queue, if it still may, or its report is taken.
Moved(id, a) ==
    /\ id \in DOMAIN actions
    /\ actions' = [actions EXCEPT ![id] = a]
    /\ a.request = actions[id].request
    /\ a.admission = actions[id].admission
    /\ a.reports >= actions[id].reports
    /\ a.phase # "Admitted"
    /\ actions[id].phase = "Admitted" =>
          Open /\ actions[id].request.agreement = current /\ ~Invalidated(id)

\* Grounds on which an agreement is current validate what it depends on.
LEMMA CurrentDependencies ==
    ASSUME NEW id, CurrentGrounds(id)
    PROVE  DependenciesValid(AgreementDependencies(id))
  BY DEF CurrentGrounds, DependenciesValid, AgreementDependencies, Override

\* What a native command does to the actions.
LEMMA ActionCases ==
    ASSUME TypeOK, NEW auth, ActionStep(auth)
    PROVE  /\ \E id, a : Admitted(id, a) \/ Moved(id, a)
           /\ UNCHANGED << grounds, negotiation, grants, observations >>
  <1>1. ASSUME NEW id, NEW request, NEW seen, Admit(id, request, auth, seen)
        PROVE  /\ \E x, a : Admitted(x, a) \/ Moved(x, a)
               /\ UNCHANGED << grounds, negotiation, grants, observations >>
    <2>1. PICK a : a = [request |-> request, actor |-> auth.actor, phase |-> "Admitted",
                        admission |-> AgreementDependencies(request.agreement),
                        reports |-> 0, outcome |-> "Unknown"]
      OBVIOUS
    <2>2. /\ id \notin DOMAIN actions /\ actions' = Put(actions, id, a)
          /\ NativeGrant(request, id, "Admit", auth, seen)
          /\ UNCHANGED << grounds, negotiation, grants, observations >>
      BY <1>1, <2>1 DEF Admit
    <2>3. CurrentGrounds(request.agreement) /\ Holds(request.use, auth)
      BY <2>2 DEF NativeGrant
    <2>4. a.request = request /\ a.phase = "Admitted"
          /\ a.admission = AgreementDependencies(request.agreement)
      BY <2>1
    <2>5. DependenciesValid(a.admission)
      BY <2>3, <2>4, CurrentDependencies
    <2> QED BY <2>2, <2>3, <2>4, <2>5 DEF Admitted, CurrentGrounds, Holds
  <1>2. ASSUME NEW id, NEW seen, Dispatch(id, auth, seen)
        PROVE  /\ \E x, a : Admitted(x, a) \/ Moved(x, a)
               /\ UNCHANGED << grounds, negotiation, grants, observations >>
    <2>1. PICK a : a = [actions[id] EXCEPT !.phase = "Dispatched"]
      OBVIOUS
    <2>2. /\ id \in DOMAIN actions /\ actions' = [actions EXCEPT ![id] = a]
          /\ actions[id].phase = "Admitted"
          /\ NativeGrant(actions[id].request, id, "Dispatch", auth, seen)
          /\ DependenciesValid(actions[id].admission)
          /\ UNCHANGED << grounds, negotiation, grants, observations >>
      BY <1>2, <2>1 DEF Dispatch, StillAdmitted
    <2>3. actions[id] \in ActionRecord
      BY <2>2 DEF TypeOK, IsPartial
    <2>4. /\ a.request = actions[id].request /\ a.admission = actions[id].admission
          /\ a.reports = actions[id].reports /\ a.phase = "Dispatched"
          /\ a.reports \in Int
      BY <2>1, <2>3, PursuitBounds DEF ActionRecord
    <2>5. /\ CurrentGrounds(actions[id].request.agreement)
          /\ Holds(actions[id].request.use, auth)
      BY <2>2 DEF NativeGrant
    <2>6. ~Invalidated(id) /\ Open /\ actions[id].request.agreement = current
      BY <2>2, <2>5 DEF Invalidated, CurrentGrounds, Holds
    <2>7. a.reports >= actions[id].reports
      BY <2>4
    <2>8. Moved(id, a)
      BY <2>2, <2>4, <2>6, <2>7 DEF Moved
    <2> QED BY <2>2, <2>8
  <1>3. ASSUME NEW id, NEW use, NEW n \in 0 .. MaxReports, NEW outcome, NEW items,
               Reconcile(id, use, n, outcome, auth, items)
        PROVE  /\ \E x, a : Admitted(x, a) \/ Moved(x, a)
               /\ UNCHANGED << grounds, negotiation, grants, observations >>
    <2>1. PICK a : a = Reported(actions[id], n, outcome)
      OBVIOUS
    <2>2. /\ id \in DOMAIN actions /\ actions' = [actions EXCEPT ![id] = a]
          /\ actions[id].phase # "Admitted"
          /\ UNCHANGED << grounds, negotiation, grants, observations >>
      BY <1>3, <2>1 DEF Reconcile
    <2>3. actions[id] \in ActionRecord
      BY <2>2 DEF TypeOK, IsPartial
    <2>4. PICK r : r = [actions[id] EXCEPT !.reports = @ + n]
      OBVIOUS
    <2>5. /\ r.request = actions[id].request /\ r.admission = actions[id].admission
          /\ r.reports = actions[id].reports + n
          /\ r = [request |-> r.request, actor |-> r.actor, phase |-> r.phase,
                  admission |-> r.admission, reports |-> r.reports, outcome |-> r.outcome]
      BY <2>3, <2>4 DEF ActionRecord
    <2>6. a = [[r EXCEPT !.outcome = outcome] EXCEPT !.phase = ReportedPhase(outcome)]
      BY <2>1, <2>4 DEF Reported
    <2>7. /\ a.request = r.request /\ a.admission = r.admission /\ a.reports = r.reports
          /\ a.phase = ReportedPhase(outcome)
      BY ONLY <2>5, <2>6
    <2>8. a.phase # "Admitted"
      BY <2>7 DEF ReportedPhase
    <2>9. a.reports >= actions[id].reports
      BY <2>3, <2>5, <2>7, PursuitBounds DEF ActionRecord
    <2> QED BY <2>2, <2>5, <2>7, <2>8, <2>9 DEF Moved
  <1> QED BY <1>1, <1>2, <1>3 DEF ActionStep

\* No other step touches the actions.
LEMMA ActionsElsewhere ==
    ASSUME [Next]_vars
    PROVE  UNCHANGED actions \/ \E auth : ActionStep(auth)
  <1>1. \A id, expected, spec, auth : SetGrant(id, expected, spec, auth) => UNCHANGED actions
    BY DEF SetGrant
  <1>2. \A id, expected, auth : RevokeGrant(id, expected, auth) => UNCHANGED actions
    BY DEF RevokeGrant
  <1>3. \A kind, id : Record(kind, id) => UNCHANGED actions
    BY DEF Record, native
  <1>4. \A auth : GrantStep(auth) => UNCHANGED actions
    BY <1>1, <1>2 DEF GrantStep
  <1>5. \A auth : Observe(auth) => UNCHANGED actions
    BY <1>3 DEF Observe, Finding, Adapt, Progress
  <1>6. \A auth : Start(auth) \/ Contribute(auth) \/ DecisionStep(auth) \/ SettleStep(auth)
                    => UNCHANGED actions
    BY DEF Start, Contribute, DecisionStep, SettleStep, Fulfill, Withdraw, native
  <1> QED BY <1>4, <1>5, <1>6 DEF Next, Command, WorldMoves, vars, native

QueueInv ==
    \A x \in DOMAIN actions :
        LET a == actions[x]
        IN  /\ a.request.agreement \in DOMAIN agreements
            /\ a.request.use.id \in DOMAIN grants
            /\ grants[a.request.use.id].generation >= a.request.use.generation
            /\ \A g \in DOMAIN a.admission : a.admission[g] <= grounds[g]

\* Every command of the negotiation asks that the Change is still open.
LEMMA ClosedIsStill ==
    ASSUME [Next]_vars, ~Open
    PROVE  UNCHANGED << negotiation, observations >>
  <1>1. \A auth : ~Start(auth)
    BY DEF Start, Initiate
  <1>2. \A auth : ~Contribute(auth)
    <2>1. \A id, a, expected, terms, deps : ~Propose(id, a, expected, terms, deps)
      BY DEF Propose, Negotiable
    <2>2. \A id, p, deps, b : ~Assess(id, p, deps, b)
      BY DEF Assess, Negotiable
    <2> QED BY <2>1, <2>2 DEF Contribute
  <1>3. \A auth : ~DecisionStep(auth)
    <2>1. \A id, p, kind, assessment, deps, auth : ~Decide(id, p, kind, assessment, deps, auth)
      BY DEF Decide, Negotiable
    <2>2. \A id, auth : ~Retract(id, auth)
      BY DEF Retract, Negotiable
    <2>3. \A id, deps, assessment, auth : ~Reaffirm(id, deps, assessment, auth)
      BY DEF Reaffirm, Negotiable
    <2> QED BY <2>1, <2>2, <2>3 DEF DecisionStep
  <1>4. \A auth : ~Observe(auth)
    BY DEF Observe, Finding, Adapt, Progress, Negotiable
  <1>5. \A auth : ~SettleStep(auth)
    BY DEF SettleStep, Fulfill, Withdraw, Negotiable
  <1>6. \A auth : GrantStep(auth) => UNCHANGED << negotiation, observations >>
    BY DEF GrantStep, SetGrant, RevokeGrant
  <1>7. \A auth : ActionStep(auth) => UNCHANGED << negotiation, observations >>
    <2>1. \A id, request, auth, seen :
             Admit(id, request, auth, seen) => UNCHANGED << negotiation, observations >>
      BY DEF Admit
    <2>2. \A id, auth, seen :
             Dispatch(id, auth, seen) => UNCHANGED << negotiation, observations >>
      BY DEF Dispatch
    <2>3. \A id, use, n, outcome, auth, items :
             Reconcile(id, use, n, outcome, auth, items)
                => UNCHANGED << negotiation, observations >>
      BY DEF Reconcile
    <2> QED BY <2>1, <2>2, <2>3 DEF ActionStep
  <1> QED
    BY <1>1, <1>2, <1>3, <1>4, <1>5, <1>6, <1>7 DEF Next, Command, WorldMoves, vars

\* What only moves forward: agreements, settlement and the versions of grounds.
WorldAdvances ==
    /\ DOMAIN agreements \subseteq DOMAIN agreements'
    /\ current' # current => current' \notin DOMAIN agreements
    /\ ~Open => ~Open'
    /\ \A g \in Grounds : grounds[g] <= grounds'[g]

LEMMA WorldOnlyAdvances ==
    ASSUME StandingInv, [Next]_vars
    PROVE  WorldAdvances
  <1>1. DOMAIN agreements \subseteq DOMAIN agreements'
    BY StandingNext DEF StandingStep, Stood, OldAgreementsKept
  <1>2. current' # current => current' \notin DOMAIN agreements
    BY HistoryStep DEF StandingInv, Supersession
  <1>3. ~Open => UNCHANGED settlement
    BY ClosedIsStill DEF negotiation
  <1>4. \A g \in Grounds : grounds[g] <= grounds'[g]
    <2>1. \A g \in Grounds : grounds[g] \in Int
      BY BoundsAreNat DEF StandingInv, HistoryInv, TypeOK, NegotiationTypeOK, Versions
    <2>2. CASE UNCHANGED grounds
      BY <2>1, <2>2
    <2>3. ASSUME NEW g \in Grounds, GroundMoves(g)
          PROVE  \A h \in Grounds : grounds[h] <= grounds'[h]
      BY <2>1, <2>3 DEF GroundMoves, StandingInv, HistoryInv, TypeOK, NegotiationTypeOK
    <2>4. ASSUME NEW auth,
                 \/ Start(auth) \/ Contribute(auth) \/ DecisionStep(auth) \/ SettleStep(auth)
          PROVE  UNCHANGED grounds
      BY <2>4 DEF Start, Contribute, DecisionStep, SettleStep, Fulfill, Withdraw
    <2> QED BY <2>2, <2>3, <2>4, OnlyNegotiation DEF Next, Command, WorldMoves, vars
  <1> QED BY <1>1, <1>2, <1>3, <1>4 DEF WorldAdvances, Open

\* What an action that was there becomes.
ActionsAdvance ==
    \A x \in DOMAIN actions :
        /\ x \in DOMAIN actions'
        /\ actions'[x].request = actions[x].request
        /\ actions'[x].admission = actions[x].admission
        /\ actions'[x].reports >= actions[x].reports
        /\ actions[x].phase # "Admitted" => actions'[x].phase # "Admitted"
        /\ actions'[x].phase # actions[x].phase /\ actions[x].phase = "Admitted" =>
              Open /\ ~Invalidated(x) /\ actions[x].request.agreement = current

LEMMA ActionsOnlyAdvance ==
    ASSUME TypeOK, [Next]_vars
    PROVE  ActionsAdvance
  <1>0. \A x \in DOMAIN actions : actions[x].reports \in Int
    BY PursuitBounds DEF TypeOK, IsPartial, ActionRecord
  <1>1. CASE UNCHANGED actions
    BY <1>0, <1>1 DEF ActionsAdvance
  <1>2. ASSUME NEW id, NEW a, Admitted(id, a)
        PROVE  ActionsAdvance
    <2>1. \A x \in DOMAIN actions : x \in DOMAIN actions' /\ actions'[x] = actions[x]
      BY <1>2 DEF Admitted, Put
    <2> QED BY <1>0, <2>1 DEF ActionsAdvance
  <1>3. ASSUME NEW id, NEW a, Moved(id, a)
        PROVE  ActionsAdvance
    <2>1. /\ DOMAIN actions' = DOMAIN actions /\ actions'[id] = a
          /\ \A x \in DOMAIN actions : x # id => actions'[x] = actions[x]
      BY <1>3 DEF Moved
    <2> QED BY <1>0, <1>3, <2>1 DEF ActionsAdvance, Moved
  <1> QED BY <1>1, <1>2, <1>3, ActionCases, ActionsElsewhere

\* The queue keeps to what was granted, and what was lost stays lost.
LEMMA QueueStep ==
    ASSUME StandingInv, QueueInv, [Next]_vars
    PROVE  /\ QueueInv'
           /\ \A x \in DOMAIN actions : Invalidated(x) => Invalidated(x)'
  <1>0. TypeOK
    BY DEF StandingInv, HistoryInv
  <1>1. WorldAdvances /\ GrantsAdvance /\ ActionsAdvance
    BY <1>0, WorldOnlyAdvances, GrantsOnlyAdvance, ActionsOnlyAdvance
  <1>2. \A x \in DOMAIN actions :
           /\ actions[x].admission \in Dependencies
           /\ actions[x].request.use.generation \in Int
    BY <1>0, PursuitBounds DEF TypeOK, IsPartial, ActionRecord, RequestRecord, Uses
  <1>3. \A g \in DOMAIN grants : grants[g].generation \in Int
    BY <1>0, PursuitBounds DEF TypeOK, IsPartial, GrantRecord
  <1>4. /\ \A g \in Grounds : grounds[g] \in Int
        /\ \A f \in Dependencies : DOMAIN f \subseteq Grounds /\ \A g \in DOMAIN f : f[g] \in Int
    BY <1>0, BoundsAreNat DEF TypeOK, NegotiationTypeOK, Versions, Dependencies
  <1>5. TypeOK'
    BY <1>0, StepType
  <1>6. /\ \A g \in DOMAIN grants' : grants'[g].generation \in Int
        /\ \A g \in Grounds : grounds'[g] \in Int
    BY <1>5, PursuitBounds, BoundsAreNat DEF TypeOK, IsPartial, GrantRecord, NegotiationTypeOK, Versions
  <1>7. ASSUME NEW x \in DOMAIN actions
        PROVE  LET a == actions'[x]
               IN  /\ a.request.agreement \in DOMAIN agreements'
                   /\ a.request.use.id \in DOMAIN grants'
                   /\ grants'[a.request.use.id].generation >= a.request.use.generation
                   /\ \A g \in DOMAIN a.admission : a.admission[g] <= grounds'[g]
    <2>1. /\ actions'[x].request = actions[x].request
          /\ actions'[x].admission = actions[x].admission
      BY <1>1 DEF ActionsAdvance
    <2>2. /\ actions[x].request.agreement \in DOMAIN agreements
          /\ actions[x].request.use.id \in DOMAIN grants
          /\ grants[actions[x].request.use.id].generation >= actions[x].request.use.generation
          /\ \A g \in DOMAIN actions[x].admission : actions[x].admission[g] <= grounds[g]
      BY DEF QueueInv
    <2>3. actions[x].request.agreement \in DOMAIN agreements'
      BY <1>1, <2>2 DEF WorldAdvances
    <2>4. /\ actions[x].request.use.id \in DOMAIN grants'
          /\ grants'[actions[x].request.use.id].generation >= grants[actions[x].request.use.id].generation
      BY <1>1, <2>2 DEF GrantsAdvance
    <2>5. grants'[actions[x].request.use.id].generation >= actions[x].request.use.generation
      BY <1>2, <1>3, <1>6, <2>2, <2>4
    <2>6. \A g \in DOMAIN actions[x].admission : actions[x].admission[g] <= grounds'[g]
      <3>1. TAKE g \in DOMAIN actions[x].admission
      <3>2. g \in Grounds /\ actions[x].admission[g] \in Int
        BY <1>2, <1>4
      <3>3. grounds[g] <= grounds'[g]
        BY <1>1, <3>2 DEF WorldAdvances
      <3> QED BY <1>4, <1>6, <2>2, <3>2, <3>3
    <2> QED BY <2>1, <2>3, <2>4, <2>5, <2>6
  <1>8. ASSUME NEW x \in DOMAIN actions' \ DOMAIN actions
        PROVE  LET a == actions'[x]
               IN  /\ a.request.agreement \in DOMAIN agreements'
                   /\ a.request.use.id \in DOMAIN grants'
                   /\ grants'[a.request.use.id].generation >= a.request.use.generation
                   /\ \A g \in DOMAIN a.admission : a.admission[g] <= grounds'[g]
    <2>1. PICK auth : ActionStep(auth)
      BY ActionsElsewhere
    <2>2. UNCHANGED << grounds, negotiation, grants >>
      BY <1>0, <2>1, ActionCases
    <2>3. PICK id, a : Admitted(id, a) \/ Moved(id, a)
      BY <1>0, <2>1, ActionCases
    <2>4. ~Moved(id, a)
      BY DEF Moved
    <2>5. Admitted(id, a) /\ actions'[x] = a
      BY <2>3, <2>4 DEF Admitted, Put
    <2>6. a.admission \in Dependencies
      BY <1>5, <2>5 DEF TypeOK, IsPartial, ActionRecord
    <2>7. \A g \in DOMAIN a.admission : a.admission[g] <= grounds[g]
      BY <1>4, <2>5, <2>6 DEF Admitted, DependenciesValid
    <2>8. /\ a.request.use.id \in DOMAIN grants
          /\ grants[a.request.use.id].generation >= a.request.use.generation
      BY <1>3, <2>5 DEF Admitted
    <2>9. a.request.agreement \in DOMAIN agreements
      BY <2>5 DEF Admitted
    <2> QED BY <2>2, <2>5, <2>7, <2>8, <2>9 DEF negotiation
  <1>9. QueueInv'
    BY <1>7, <1>8 DEF QueueInv
  <1>10. ASSUME NEW x \in DOMAIN actions, Invalidated(x)
         PROVE  Invalidated(x)'
    <2> DEFINE a == actions[x]
    <2>1. /\ actions'[x].phase = "Admitted" /\ actions'[x].request = a.request
          /\ actions'[x].admission = a.admission
      BY <1>1, <1>10 DEF ActionsAdvance, Invalidated
    <2>2. CASE ~Open
      BY <1>1, <2>1, <2>2 DEF WorldAdvances, Invalidated
    <2>3. CASE current # a.request.agreement
      BY <1>1, <2>1, <2>3 DEF QueueInv, WorldAdvances, Invalidated
    <2>4. CASE grants[a.request.use.id].generation # a.request.use.generation
      <3> DEFINE g == a.request.use.id
      <3>1. g \in DOMAIN grants /\ grants[g].generation >= a.request.use.generation
        BY DEF QueueInv
      <3>2. g \in DOMAIN grants' /\ grants'[g].generation >= grants[g].generation
        BY <1>1, <3>1 DEF GrantsAdvance
      <3>3. grants'[g].generation # a.request.use.generation
        BY <1>2, <1>3, <1>6, <2>4, <3>1, <3>2
      <3> QED BY <2>1, <3>3 DEF Invalidated
    <2>5. CASE ~DependenciesValid(a.admission)
      <3>1. PICK g \in DOMAIN a.admission : a.admission[g] # grounds[g]
        BY <2>5 DEF DependenciesValid
      <3>2. g \in Grounds /\ a.admission[g] \in Int /\ a.admission[g] <= grounds[g]
        BY <1>2, <1>4 DEF QueueInv
      <3>3. grounds[g] <= grounds'[g]
        BY <1>1, <3>2 DEF WorldAdvances
      <3>4. a.admission[g] # grounds'[g]
        BY <1>4, <1>6, <3>1, <3>2, <3>3
      <3>5. ~DependenciesValid(a.admission)'
        BY <2>1, <3>4 DEF DependenciesValid
      <3> QED BY <2>1, <3>4 DEF Invalidated, DependenciesValid
    <2> QED BY <1>10, <2>2, <2>3, <2>4, <2>5 DEF Invalidated
  <1> QED BY <1>9, <1>10

QueueKept ==
    /\ \A x \in DOMAIN actions : Invalidated(x) => Invalidated(x)'
    /\ ActionsAdvance

\* A queued action runs at most once, and only under what it was admitted with: the
\* grounds, grants and agreement it names only move away from it.
THEOREM QueuedRunOnceOrNever == Spec => QueueIsSafe
  <1>1. Init => StandingInv /\ QueueInv
    BY StandingInit DEF Init, QueueInv
  <1>2. StandingInv /\ QueueInv /\ [Next]_vars => (StandingInv /\ QueueInv)'
    BY QueueStep, StandingInvNext
  <1>3. StandingInv /\ QueueInv /\ [Next]_vars => [QueueKept]_vars
    BY QueueStep, ActionsOnlyAdvance DEF QueueKept, StandingInv, HistoryInv
  <1>4. Spec => [][QueueKept]_vars
    BY <1>1, <1>2, <1>3, PTL DEF Spec
  <1>5. [QueueKept]_vars =>
           [\A x \in DOMAIN actions : Invalidated(x) => Invalidated(x)']_vars
    BY DEF QueueKept
  <1>6. [QueueKept]_vars =>
           [\A x \in DOMAIN actions :
                 /\ x \in DOMAIN actions'
                 /\ actions'[x].request = actions[x].request
                 /\ actions[x].phase # "Admitted" => actions'[x].phase # "Admitted"
                 /\ actions'[x].reports >= actions[x].reports]_vars
    BY DEF QueueKept, ActionsAdvance
  <1> QED
    BY <1>4, <1>5, <1>6, PTL DEF QueueIsSafe, QueuedPermissionStaysDead, NeverReplayed

\* Observations are made under the agreement in force or under none.
LEMMA ObservationsAreCurrent ==
    ASSUME [Next]_vars
    PROVE  /\ observations \subseteq observations'
           /\ \A o \in observations' \ observations : o.agreement \in {current, None}
  <1>1. CASE UNCHANGED observations
    BY <1>1
  <1>2. ASSUME NEW kind, NEW id \in {current, None}, Record(kind, id)
        PROVE  /\ observations \subseteq observations'
               /\ \A o \in observations' \ observations : o.agreement \in {current, None}
    BY <1>2 DEF Record
  <1>3. \A auth : Observe(auth) => \E kind, id : id \in {current, None} /\ Record(kind, id)
    <2>1. \A id, access, auth, items :
             Finding(id, access, auth, items) => id \in {current, None} /\ Record("finding", id)
      BY DEF Finding, CurrentGrounds
    <2>2. \A id, access, auth, items, judgment :
             Adapt(id, access, auth, items, judgment)
                => id \in {current, None} /\ Record("adapt", id)
      BY DEF Adapt, CurrentGrounds
    <2>3. \A id, access, auth, items, terms, criteria, revised :
             Progress(id, access, auth, items, terms, criteria, revised)
                => id \in {current, None} /\ Record("progress", id)
      BY DEF Progress, CurrentGrounds
    <2> QED BY <2>1, <2>2, <2>3 DEF Observe
  <1>4. \A auth : ActionStep(auth) \/ GrantStep(auth) => UNCHANGED observations
    <2>1. \A id, request, auth, seen : Admit(id, request, auth, seen) => UNCHANGED observations
      BY DEF Admit
    <2>2. \A id, auth, seen : Dispatch(id, auth, seen) => UNCHANGED observations
      BY DEF Dispatch
    <2>3. \A id, use, n, outcome, auth, items :
             Reconcile(id, use, n, outcome, auth, items) => UNCHANGED observations
      BY DEF Reconcile
    <2>4. \A auth : GrantStep(auth) => UNCHANGED observations
      BY DEF GrantStep, SetGrant, RevokeGrant
    <2> QED BY <2>1, <2>2, <2>3, <2>4 DEF ActionStep
  <1>5. \A auth : Start(auth) \/ Contribute(auth) \/ DecisionStep(auth) \/ SettleStep(auth)
                    => UNCHANGED observations
    BY DEF Start, Contribute, DecisionStep, SettleStep, Fulfill, Withdraw
  <1> QED BY <1>1, <1>2, <1>3, <1>4, <1>5 DEF Next, Command, WorldMoves, vars

\* The actions queued under an agreement.
QueuedUnder(a) ==
    {x \in DOMAIN actions : actions[x].request.agreement = a /\ actions[x].phase = "Admitted"}

\* Only the agreement in force lets actions into and out of the queue.
LEMMA QueueOfCurrentOnly ==
    ASSUME TypeOK, [Next]_vars, NEW a, a # current
    PROVE  QueuedUnder(a)' = QueuedUnder(a)
  <1>1. CASE UNCHANGED actions
    BY <1>1 DEF QueuedUnder
  <1>2. ASSUME NEW id, NEW r, Admitted(id, r)
        PROVE  QueuedUnder(a)' = QueuedUnder(a)
    <2>1. /\ DOMAIN actions' = DOMAIN actions \cup {id} /\ id \notin DOMAIN actions
          /\ actions'[id].request.agreement = current
          /\ \A x \in DOMAIN actions : actions'[x] = actions[x]
      BY <1>2 DEF Admitted, Put
    <2> QED BY <2>1 DEF QueuedUnder
  <1>3. ASSUME NEW id, NEW r, Moved(id, r)
        PROVE  QueuedUnder(a)' = QueuedUnder(a)
    <2>1. /\ DOMAIN actions' = DOMAIN actions /\ id \in DOMAIN actions
          /\ actions'[id].phase # "Admitted"
          /\ actions[id].phase = "Admitted" => actions[id].request.agreement = current
          /\ \A x \in DOMAIN actions : x # id => actions'[x] = actions[x]
      BY <1>3 DEF Moved
    <2> QED BY <2>1 DEF QueuedUnder
  <1> QED BY <1>1, <1>2, <1>3, ActionCases, ActionsElsewhere

Inert ==
    \A a \in DOMAIN agreements \ {current} :
        /\ agreements'[a] = agreements[a]
        /\ decisions'[agreements[a].adoption] = decisions[agreements[a].adoption]
        /\ decisions'[agreements[a].undertaking] = decisions[agreements[a].undertaking]
        /\ {o \in observations' : o.agreement = a} = {o \in observations : o.agreement = a}
        /\ QueuedUnder(a)' = QueuedUnder(a)

LEMMA SupersededStaysInert ==
    ASSUME StandingInv, [Next]_vars
    PROVE  Inert
  <1>1. OldAgreementsKept /\ TypeOK
    BY StandingNext DEF StandingStep, Stood, StandingInv, HistoryInv
  <1>2. ASSUME NEW a \in DOMAIN agreements \ {current}
        PROVE  {o \in observations' : o.agreement = a} = {o \in observations : o.agreement = a}
    <2>1. a # None
      BY <1>1, IdsAreNotNone DEF TypeOK, NegotiationTypeOK, IsPartial
    <2> QED BY <2>1, ObservationsAreCurrent
  <1> QED BY <1>1, <1>2, QueueOfCurrentOnly DEF Inert, OldAgreementsKept

\* What revision ended is inert, and a use that was replaced or revoked stays unusable.
THEOREM NothingEndedRevives == Spec => NothingRevives
  <1>1. StandingInv /\ [Next]_vars => [Inert]_vars
    BY SupersededStaysInert
  <1>2. Spec => [][Inert]_vars
    BY StandingHolds, <1>1, PTL DEF Spec
  <1>3. [Inert]_vars =>
          [\A a \in DOMAIN agreements \ {current} :
            /\ agreements'[a] = agreements[a]
            /\ decisions'[agreements[a].adoption] = decisions[agreements[a].adoption]
            /\ decisions'[agreements[a].undertaking] = decisions[agreements[a].undertaking]
            /\ {o \in observations' : o.agreement = a} = {o \in observations : o.agreement = a}
            /\ {x \in DOMAIN actions' : actions'[x].request.agreement = a /\ actions'[x].phase = "Admitted"}
               = {x \in DOMAIN actions : actions[x].request.agreement = a /\ actions[x].phase = "Admitted"}]_vars
    BY DEF Inert, QueuedUnder
  <1>4. Spec => SupersededIsInert
    BY <1>2, <1>3, PTL DEF SupersededIsInert
  <1> QED BY <1>4, UsesStayEnded DEF NothingRevives

Frozen ==
    ~Open =>
        /\ UNCHANGED << negotiation, observations >>
        /\ {x \in DOMAIN actions' : actions'[x].phase = "Admitted"}
           = {x \in DOMAIN actions : actions[x].phase = "Admitted"}
        /\ \A g \in DOMAIN grants' :
              \/ grants'[g].spec.target = "reconciliation"
              \/ g \in DOMAIN grants /\ grants'[g].spec = grants[g].spec

\* A settled Change takes revocations, grants to reconcile and reports, and nothing else.
LEMMA SettledIsFrozen ==
    ASSUME TypeOK, [Next]_vars
    PROVE  Frozen
  <1> SUFFICES ASSUME ~Open PROVE Frozen
    BY DEF Frozen
  <1>1. {x \in DOMAIN actions' : actions'[x].phase = "Admitted"}
        = {x \in DOMAIN actions : actions[x].phase = "Admitted"}
    <2>1. CASE UNCHANGED actions
      BY <2>1
    <2>2. \A id, r : ~Admitted(id, r)
      BY DEF Admitted
    <2>3. ASSUME NEW id, NEW r, Moved(id, r)
          PROVE  /\ DOMAIN actions' = DOMAIN actions
                 /\ \A x \in DOMAIN actions :
                       (actions'[x].phase = "Admitted") = (actions[x].phase = "Admitted")
      BY <2>3 DEF Moved
    <2> QED BY <2>1, <2>2, <2>3, ActionCases, ActionsElsewhere
  <1>2. ASSUME NEW g \in DOMAIN grants'
        PROVE  \/ grants'[g].spec.target = "reconciliation"
               \/ g \in DOMAIN grants /\ grants'[g].spec = grants[g].spec
    <2>1. CASE UNCHANGED grants
      BY <2>1
    <2>2. ASSUME NEW id, NEW expected, NEW spec, NEW auth, SetGrant(id, expected, spec, auth)
          PROVE  \/ grants'[g].spec.target = "reconciliation"
                 \/ g \in DOMAIN grants /\ grants'[g].spec = grants[g].spec
      BY <2>2 DEF SetGrant, Put
    <2>3. ASSUME NEW id, NEW expected, NEW auth, RevokeGrant(id, expected, auth)
          PROVE  g \in DOMAIN grants /\ grants'[g].spec = grants[g].spec
      <3>1. grants[id] \in GrantRecord
        BY <2>3 DEF RevokeGrant, TypeOK, IsPartial
      <3>2. RevokedGrant(grants[id]).spec = grants[id].spec
        BY <3>1 DEF RevokedGrant, GrantRecord
      <3> QED BY <2>3, <3>2 DEF RevokeGrant
    <2>4. UNCHANGED grants \/ \E auth : GrantStep(auth)
      BY GrantsElsewhere
    <2> QED BY <2>1, <2>2, <2>3, <2>4 DEF GrantStep
  <1> QED BY <1>1, <1>2, ClosedIsStill DEF Frozen

\* Settlement ends the negotiation, the observations and the queue for good.
THEOREM SettledStaysSettled == Spec => SettlementFreezesPursuit
  <1>1. TypeOK /\ [Next]_vars => [Frozen]_vars
    BY SettledIsFrozen
  <1>2. Spec => [][Frozen]_vars
    BY InitType, StepType, <1>1, PTL DEF Spec
  <1>3. [Frozen]_vars =>
          [~Open =>
            /\ UNCHANGED << negotiation, observations >>
            /\ {x \in DOMAIN actions' : actions'[x].phase = "Admitted"}
               = {x \in DOMAIN actions : actions[x].phase = "Admitted"}
            /\ \A g \in DOMAIN grants' :
                  \/ grants'[g].spec.target = "reconciliation"
                  \/ g \in DOMAIN grants /\ grants'[g].spec = grants[g].spec]_vars
    BY DEF Frozen
  <1> QED BY <1>2, <1>3, PTL DEF SettlementFreezesPursuit
=============================================================================
