------------------------------ MODULE Pursuit ------------------------------
(***************************************************************************)
(* The kernel's State::transition (src/kernel/change/rules.rs): one action *)
(* per Command.  It composes the negotiation of Agreements with grants,    *)
(* native actions, observations and settlement.                            *)
(*                                                                         *)
(* Abstractions.  Origins of contents and freshly created contents are     *)
(* left out, so a grant covers a command when it lists every content the   *)
(* command needs.  Grants whose draft target names another Change are      *)
(* refused at once and are not enumerated.                                 *)
(***************************************************************************)
EXTENDS Agreements

CONSTANTS
    GrantIds,
    SpecChoices,      \* the GrantSpec records an owner may write
    MaxGeneration,    \* the largest generation: checked_add refuses beyond it
    ActionIds,
    RequestChoices,   \* records [native, scope, limits, conditions] of an ActionRequest
    Contents,         \* content keys a delegated command may need
    MaxReports,       \* bound on the evidence reported for one action
    ObservationKinds  \* subset of {"finding", "adapt", "progress"}

ASSUME PursuitBounds ==
    /\ MaxGeneration \in Nat \ {0}
    /\ MaxReports \in Nat

VARIABLES
    grants,        \* State.grants
    actions,       \* State.actions
    observations   \* accepted Finding, Adapt and Progress records

native == << grants, actions >>
vars == << grounds, negotiation, native, observations >>

Uses == [id : GrantIds, generation : 1 .. MaxGeneration]
Phases == {"Admitted", "Dispatched", "Reconciled"}
Outcomes == {"Unknown", "Applied", "NotApplied", "Partial"}

GrantRecord ==
    [generation : 1 .. MaxGeneration, spec : SpecChoices, revoked : BOOLEAN]

RequestRecord ==
    [agreement : AgreementIds, use : Uses, ask : RequestChoices, deps : Dependencies]

ActionRecord ==
    [request : RequestRecord, actor : Actors, phase : Phases, admission : Dependencies,
     reports : 0 .. MaxReports, outcome : Outcomes]

-----------------------------------------------------------------------------
(* Grants *)

\* State::grant: the caller holds this exact generation.
Holds(use, auth) ==
    /\ use.id \in DOMAIN grants
    /\ ~grants[use.id].revoked
    /\ grants[use.id].generation = use.generation
    /\ grants[use.id].spec.recipient = auth.actor

Covers(spec, items) == items \subseteq spec.content

TargetMatches(spec, action, agreement) ==
    \/ /\ spec.target = "creation"
       /\ agreement = None
       /\ action = "CreateDraft"
       /\ ~initiated
    \/ spec.target = "draft" /\ agreement = None
    \/ /\ spec.target = "pursuit"
       /\ agreement # None
       /\ spec.agreement = agreement

\* record_access: the owner, or one complete grant.
RecordAccess(access, action, agreement, auth, items) ==
    \/ access = None /\ IsOwner(auth)
    \/ /\ access # None
       /\ Holds(access, auth)
       /\ LET spec == grants[access.id].spec
          IN  /\ action \in spec.actions
              /\ Covers(spec, items)
              /\ TargetMatches(spec, action, agreement)

Grantable(spec) ==
    \/ /\ spec.target = "creation"
       /\ ~initiated
       /\ spec.actions = {"CreateDraft"}
       /\ spec.natives = {} /\ spec.scope = {}
    \/ /\ spec.target = "draft"
       /\ spec.actions \subseteq {"Propose", "Assess", "Finding"}
       /\ spec.natives = {} /\ spec.scope = {}
    \/ /\ spec.target = "pursuit"
       /\ spec.agreement # None
       /\ current = spec.agreement
       /\ Open
    \/ /\ spec.target = "reconciliation"
       /\ spec.originals # {}
       /\ spec.originals \subseteq DOMAIN actions
       /\ spec.actions \subseteq {"Reconcile"}
       /\ spec.natives = {} /\ spec.scope = {}

WellFormed(spec) ==
    /\ spec.actions # {} \/ spec.discloses
    /\ spec.actions = {} => spec.natives = {} /\ spec.scope = {}

\* Mutant: a replacement starts counting again.
NextGenerationRestarts(id, expected) == 1

\* The generation a replacement gets; None when the id was never granted.
NextGeneration(id, expected) ==
    IF id \in DOMAIN grants THEN expected + 1 ELSE 1

Replaceable(id, expected) ==
    IF id \notin DOMAIN grants THEN expected = None
    ELSE /\ ~grants[id].revoked
         /\ expected = grants[id].generation
         /\ expected < MaxGeneration

SetGrant(id, expected, spec, auth) ==
    /\ Open \/ spec.target = "reconciliation"
    /\ IsOwner(auth)
    /\ WellFormed(spec)
    /\ Grantable(spec)
    /\ Replaceable(id, expected)
    /\ grants' = Put(grants, id, [generation |-> NextGeneration(id, expected),
                                  spec |-> spec, revoked |-> FALSE])
    /\ UNCHANGED << grounds, negotiation, actions, observations >>

\* Mutant: revocation keeps the generation.
RevokedGrantInPlace(g) == [g EXCEPT !.revoked = TRUE]

RevokedGrant(g) == [g EXCEPT !.generation = @ + 1, !.revoked = TRUE]

RevokeGrant(id, expected, auth) ==
    /\ IsOwner(auth)
    /\ id \in DOMAIN grants
    /\ ~grants[id].revoked
    /\ grants[id].generation = expected
    /\ expected < MaxGeneration
    /\ grants' = [grants EXCEPT ![id] = RevokedGrant(@)]
    /\ UNCHANGED << grounds, negotiation, actions, observations >>

-----------------------------------------------------------------------------
(* Native actions.  seen is the action the native port observed conditions *)
(* for, with evidence; None when the observation is missing or empty.      *)

NativeGrant(request, id, kind, auth, seen) ==
    /\ Holds(request.use, auth)
    /\ LET spec == grants[request.use.id].spec
       IN  /\ spec.target = "pursuit"
           /\ spec.agreement = request.agreement
           /\ kind \in spec.actions
           /\ request.ask.native \in spec.natives
           /\ request.ask.scope # {}
           /\ request.ask.scope \subseteq spec.scope
           /\ request.ask.limits # {}
           /\ request.ask.limits = spec.limits
    /\ request.ask.conditions # {}
    /\ seen = id
    /\ CurrentGrounds(request.agreement)
    /\ DependenciesValid(request.deps)

Admit(id, request, auth, seen) ==
    /\ Negotiable
    /\ id \notin DOMAIN actions
    /\ NativeGrant(request, id, "Admit", auth, seen)
    /\ actions' = Put(actions, id,
          [request |-> request, actor |-> auth.actor, phase |-> "Admitted",
           admission |-> AgreementDependencies(request.agreement),
           reports |-> 0, outcome |-> "Unknown"])
    /\ UNCHANGED << grounds, negotiation, grants, observations >>

\* Mutant: dispatch trusts the grounds the action was admitted on.
StillAdmittedAnyway(a) == TRUE

StillAdmitted(a) == DependenciesValid(a.admission)

Dispatch(id, auth, seen) ==
    /\ Negotiable
    /\ id \in DOMAIN actions
    /\ actions[id].phase = "Admitted"
    /\ actions[id].actor = auth.actor
    /\ NativeGrant(actions[id].request, id, "Dispatch", auth, seen)
    /\ StillAdmitted(actions[id])
    /\ actions' = [actions EXCEPT ![id].phase = "Dispatched"]
    /\ UNCHANGED << grounds, negotiation, grants, observations >>

\* Mutant: an unknown outcome puts the action back in the queue.
ReportedPhaseRetries(outcome) ==
    IF outcome = "Unknown" THEN "Admitted" ELSE "Reconciled"

ReportedPhase(outcome) ==
    IF outcome = "Unknown" THEN "Dispatched" ELSE "Reconciled"

Reported(a, n, outcome) ==
    [a EXCEPT !.reports = @ + n, !.outcome = outcome, !.phase = ReportedPhase(outcome)]

Reconcile(id, use, n, outcome, auth, items) ==
    /\ initiated
    /\ Holds(use, auth)
    /\ LET spec == grants[use.id].spec
       IN  /\ "Reconcile" \in spec.actions
           /\ spec.target = "reconciliation"
           /\ id \in spec.originals
           /\ Covers(spec, items)
    /\ n > 0
    /\ id \in DOMAIN actions
    /\ actions[id].phase # "Admitted"
    /\ actions[id].reports + n <= MaxReports
    /\ actions' = [actions EXCEPT ![id] = Reported(@, n, outcome)]
    /\ UNCHANGED << grounds, negotiation, grants, observations >>

-----------------------------------------------------------------------------
(* Observations change no State; the record they leave names the agreement *)
(* they were made under.                                                   *)

Record(kind, id) ==
    /\ kind \in ObservationKinds
    /\ observations' = observations \cup {[kind |-> kind, agreement |-> id]}
    /\ UNCHANGED << grounds, negotiation, native >>

Finding(id, access, auth, items) ==
    /\ Negotiable
    /\ id # None => CurrentGrounds(id)
    /\ RecordAccess(access, "Finding", id, auth, items)
    /\ Record("finding", id)

\* Requires the discretion port's judgment that the adaptation stays within scope.
Adapt(id, access, auth, items, judgment) ==
    /\ Negotiable
    /\ CurrentGrounds(id)
    /\ RecordAccess(access, "Adapt", id, auth, items)
    /\ judgment = "WithinDiscretion"
    /\ Record("adapt", id)

Progress(id, access, auth, items, terms, criteria, revised) ==
    /\ Negotiable
    /\ CurrentGrounds(id)
    /\ RecordAccess(access, "Progress", id, auth, items)
    /\ LET p == proposals[agreements[id].proposal]
       IN  /\ terms # {}
           /\ terms \subseteq p.terms.binding
           /\ criteria \subseteq {c.id : c \in p.terms.criteria}
           /\ revised => p.expected # None
    /\ Record("progress", id)

-----------------------------------------------------------------------------
(* Settlement *)

\* Every blocker the agreement carries is resolved with evidence.
BlockersResolved(id, resolved) == agreements[id].blockers \subseteq resolved

NothingInFlight == \A x \in DOMAIN actions : actions[x].phase # "Dispatched"

Fulfill(id, provided, resolved, auth) ==
    /\ Negotiable
    /\ IsOwner(auth)
    /\ CurrentGrounds(id)
    /\ LET criteria == {c.id : c \in proposals[agreements[id].proposal].terms.criteria}
       IN  criteria # {} /\ provided = criteria
    /\ BlockersResolved(id, resolved)
    /\ NothingInFlight
    /\ Settle("fulfilled", id, resolved)
    /\ UNCHANGED << grounds, native, observations >>

Withdraw(auth) ==
    /\ Negotiable
    /\ IsOwner(auth)
    /\ Settle("withdrawn", None, {})
    /\ UNCHANGED << grounds, native, observations >>

-----------------------------------------------------------------------------
(* The specification: any caller may send any command, and grounds move.   *)

Init ==
    /\ NegotiationInit
    /\ grants = << >>
    /\ actions = << >>
    /\ observations = {}

Accesses == {None} \cup Uses

WorldMoves ==
    /\ \E g \in Grounds : GroundMoves(g)
    /\ UNCHANGED << negotiation, native, observations >>

Start(auth) ==
    /\ \E access \in Accesses, items \in SUBSET Contents :
          RecordAccess(access, "CreateDraft", None, auth, items)
    /\ Initiate
    /\ UNCHANGED << grounds, native, observations >>

Contribute(auth) ==
    \E access \in Accesses, items \in SUBSET Contents, deps \in Dependencies :
        /\ \/ /\ RecordAccess(access, "Propose", None, auth, items)
              /\ \E id \in ProposalIds, a \in AgreementIds,
                    expected \in AgreementIds \cup {None}, terms \in TermChoices :
                    Propose(id, a, expected, terms, deps)
           \/ /\ RecordAccess(access, "Assess", None, auth, items)
              /\ \E id \in AssessmentIds, p \in ProposalIds, b \in SUBSET Blockers :
                    Assess(id, p, deps, b)
        /\ UNCHANGED << grounds, native, observations >>

DecisionStep(auth) ==
    /\ \E id \in DecisionIds :
          \/ \E p \in ProposalIds, kind \in Kinds, deps \in Dependencies,
                assessment \in AssessmentIds \cup {None} :
                Decide(id, p, kind, assessment, deps, auth)
          \/ Retract(id, auth)
          \/ \E deps \in Dependencies, assessment \in AssessmentIds \cup {None} :
                Reaffirm(id, deps, assessment, auth)
    /\ UNCHANGED << grounds, native, observations >>

GrantStep(auth) ==
    \E id \in GrantIds :
        \/ \E expected \in 1 .. MaxGeneration \cup {None}, spec \in SpecChoices :
              SetGrant(id, expected, spec, auth)
        \/ \E expected \in 1 .. MaxGeneration : RevokeGrant(id, expected, auth)

ActionStep(auth) ==
    \E id \in ActionIds :
        \/ \E seen \in ActionIds \cup {None} :
              \/ Dispatch(id, auth, seen)
              \/ \E a \in AgreementIds, use \in Uses, ask \in RequestChoices,
                    deps \in Dependencies :
                    Admit(id, [agreement |-> a, use |-> use, ask |-> ask, deps |-> deps],
                          auth, seen)
        \/ \E use \in Uses, n \in 0 .. MaxReports, outcome \in Outcomes,
              items \in SUBSET Contents :
              Reconcile(id, use, n, outcome, auth, items)

Observe(auth) ==
    \E access \in Accesses, items \in SUBSET Contents :
        \/ \E id \in AgreementIds \cup {None} : Finding(id, access, auth, items)
        \/ \E id \in AgreementIds :
              \/ \E judgment \in {"WithinDiscretion", "RequiresRevision", "Unavailable"} :
                    Adapt(id, access, auth, items, judgment)
              \/ \E terms \in SUBSET UNION {t.binding : t \in TermChoices},
                    criteria \in SUBSET {c.id : c \in UNION {t.criteria : t \in TermChoices}},
                    revised \in BOOLEAN :
                    Progress(id, access, auth, items, terms, criteria, revised)

SettleStep(auth) ==
    \/ \E id \in AgreementIds, resolved \in SUBSET Blockers,
          provided \in SUBSET {c.id : c \in UNION {t.criteria : t \in TermChoices}} :
          Fulfill(id, provided, resolved, auth)
    \/ Withdraw(auth)

Command(auth) ==
    \/ Start(auth)
    \/ Contribute(auth)
    \/ DecisionStep(auth)
    \/ GrantStep(auth)
    \/ ActionStep(auth)
    \/ Observe(auth)
    \/ SettleStep(auth)

Next ==
    \/ WorldMoves
    \/ \E auth \in Callers : Command(auth)

Spec == Init /\ [][Next]_vars

-----------------------------------------------------------------------------
(* Properties *)

\* The state is of the shape State has, with every stored decision, grant and action
\* complete; a reference that was stored names something that exists.
TypeOK ==
    /\ NegotiationTypeOK
    /\ References
    /\ IsPartial(grants, GrantIds, GrantRecord)
    /\ IsPartial(actions, ActionIds, ActionRecord)
    /\ observations \subseteq [kind : ObservationKinds, agreement : AgreementIds \cup {None}]

Predecessor(a) == proposals[agreements[a].proposal].expected

\* The agreements ever activated form one line: each names an existing agreement
\* (or none) as the one it supersedes, no two supersede the same one, and nothing
\* supersedes the one in force, although rival proposals may be decided in any order.
LinearHistory ==
    /\ current = None => DOMAIN agreements = {}
    /\ \A a \in DOMAIN agreements :
          /\ proposals[agreements[a].proposal].agreement = a
          /\ Predecessor(a) \in DOMAIN agreements \cup {None}
          /\ Predecessor(a) # current
          /\ \A b \in DOMAIN agreements : Predecessor(a) = Predecessor(b) => a = b

\* A step that changes the agreement in force puts a new one in force as the
\* successor of the old one: a superseded agreement never returns (activate).
SupersededNeverReturns ==
    [][current' # current =>
          /\ current' \notin DOMAIN agreements
          /\ DOMAIN agreements' = DOMAIN agreements \cup {current'}
          /\ proposals'[agreements'[current'].proposal].expected = current]_vars

\* Every agreement rests on a live adoption by the owner and a live undertaking by
\* the agent of the same proposal, whatever was retracted or reaffirmed since.
AgreementRestsOnBothParties ==
    \A a \in DOMAIN agreements :
        \A kind \in Kinds :
            LET id == IF kind = "adopt" THEN agreements[a].adoption
                                        ELSE agreements[a].undertaking
            IN  /\ id \in DOMAIN decisions
                /\ decisions[id].kind = kind
                /\ decisions[id].matched /\ ~decisions[id].retracted
                /\ decisions[id].proposal = agreements[a].proposal
                /\ decisions[id].actor = IF kind = "adopt" THEN OwnerActor ELSE AgentActor

\* A blocker once endorsed by a matched undertaking is carried by its agreement and
\* by every later one: no omission from a later assessment or revision drops it.
BlockersCarryForward ==
    \A a \in DOMAIN agreements :
        /\ decisions[agreements[a].undertaking].blockers \subseteq agreements[a].blockers
        /\ Predecessor(a) # None =>
              agreements[Predecessor(a)].blockers \subseteq agreements[a].blockers

\* An agreement stands on what both parties said: their live decisions, and every
\* blocker either endorsed.
AgreementStands == AgreementRestsOnBothParties /\ BlockersCarryForward

\* An agreement comes into force only while both decisions rest on the grounds as
\* they are now, also when the first of them was taken before a ground moved.
ActivationOnFreshGrounds ==
    [][current' # current => CurrentGrounds(current)']_vars

\* Once superseded, an agreement is inert: its record, the decisions behind it and
\* what was observed and dispatched under it stay as they were (stale commands are refused).
SupersededIsInert ==
    [][\A a \in DOMAIN agreements \ {current} :
          /\ agreements'[a] = agreements[a]
          /\ decisions'[agreements[a].adoption] = decisions[agreements[a].adoption]
          /\ decisions'[agreements[a].undertaking] = decisions[agreements[a].undertaking]
          /\ {o \in observations' : o.agreement = a} = {o \in observations : o.agreement = a}
          /\ {x \in DOMAIN actions' : actions'[x].request.agreement = a /\ actions'[x].phase = "Admitted"}
             = {x \in DOMAIN actions : actions[x].request.agreement = a /\ actions[x].phase = "Admitted"}]_vars

\* A grant use names one specification for ever, and once replaced or revoked it
\* never becomes usable again (SetGrant and RevokeGrant advance the generation).
UsesNeverRevive ==
    [][\A g \in DOMAIN grants :
          /\ g \in DOMAIN grants'
          /\ grants'[g].generation >= grants[g].generation
          /\ grants'[g].generation = grants[g].generation => grants'[g] = grants[g]
          /\ grants[g].revoked => grants'[g] = grants[g]]_vars

\* What revision, replacement or revocation ended stays ended.
NothingRevives == SupersededIsInert /\ UsesNeverRevive

\* A queued action that lost what it was admitted under.
Invalidated(x) ==
    LET a == actions[x]
    IN  /\ a.phase = "Admitted"
        /\ \/ ~Open
           \/ current # a.request.agreement
           \/ grants[a.request.use.id].generation # a.request.use.generation
           \/ ~DependenciesValid(a.admission)

\* Revision, revocation, replacement, settlement or a moved ground invalidates a
\* queued action for good: no later grant, reaffirmation or revision lets it dispatch.
QueuedPermissionStaysDead ==
    [][\A x \in DOMAIN actions : Invalidated(x) => Invalidated(x)']_vars

\* An action is dispatched at most once: past dispatch its request stays and it never
\* returns to the queue, however its outcome is reported or corrected.
NeverReplayed ==
    [][\A x \in DOMAIN actions :
          /\ x \in DOMAIN actions'
          /\ actions'[x].request = actions[x].request
          /\ actions[x].phase # "Admitted" => actions'[x].phase # "Admitted"
          /\ actions'[x].reports >= actions[x].reports]_vars

\* A queued action runs under the permission it was admitted with or not at all,
\* and at most once.
QueueIsSafe == QueuedPermissionStaysDead /\ NeverReplayed

\* After settlement nothing of the pursuit moves: only reports on actions already
\* dispatched, revocations and reconciliation grants are accepted.
SettlementFreezesPursuit ==
    [][~Open =>
          /\ UNCHANGED << negotiation, observations >>
          /\ {x \in DOMAIN actions' : actions'[x].phase = "Admitted"}
             = {x \in DOMAIN actions : actions[x].phase = "Admitted"}
          /\ \A g \in DOMAIN grants' :
                \/ grants'[g].spec.target = "reconciliation"
                \/ g \in DOMAIN grants /\ grants'[g].spec = grants[g].spec]_vars

\* A fulfilled Change had every blocker any matched undertaking ever endorsed
\* resolved with evidence in the accepting record.
FulfilledResolvesEveryBlocker ==
    settlement.kind = "fulfilled" =>
        \A d \in DOMAIN decisions :
            decisions[d].matched => decisions[d].blockers \subseteq settlement.resolved
=============================================================================
