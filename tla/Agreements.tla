----------------------------- MODULE Agreements -----------------------------
(***************************************************************************)
(* The negotiating half of the kernel's State (src/kernel/change): how     *)
(* proposals, assessments and decisions of two parties become a chain of   *)
(* agreements.  Pursuit composes these steps with grants and native        *)
(* actions.                                                                *)
(*                                                                         *)
(* A command that the kernel refuses leaves State unchanged (the           *)
(* application drops the candidate copy it was applied to), so a refusal   *)
(* is a stuttering step and a guard is the conjunction of the conditions   *)
(* under which the handler does not return early.                          *)
(*                                                                         *)
(* An operator under a comment that starts with "Mutant" is not part of    *)
(* the model: it is the definition after it with a plausible bug.          *)
(*                                                                         *)
(* Abstractions.  A Vec<Dependency> that names a ground twice is refused   *)
(* wherever it is read, so a dependency list is a partial function from    *)
(* grounds to versions.  Contents other than blockers carry no decision    *)
(* and are left out.  TermChoices are terms that validate_roles accepts.   *)
(***************************************************************************)
EXTENDS Integers, FiniteSets

CONSTANTS
    Actors, OwnerActor, AgentActor,  \* Identity.owner_actor and Identity.agent
    Authorities,    \* what the authority port may say of a caller
    ProposalIds, AgreementIds, AssessmentIds, DecisionIds,
    TermChoices,    \* records [binding, criteria] of sets
    Blockers,       \* content keys an assessment may name as blockers
    Grounds,        \* GroundId
    MaxVersion,     \* bound on how often a ground moves
    None            \* Option::None

ASSUME IdsAreNotNone ==
    /\ None \notin AgreementIds
    /\ None \notin AssessmentIds

ASSUME BoundsAreNat == MaxVersion \in Nat \ {0}

ASSUME ChoicesAreTyped ==
    /\ OwnerActor \in Actors
    /\ AgentActor \in Actors
    /\ OwnerActor # AgentActor   \* State::try_new refuses such an identity
    /\ \A a \in Authorities : a.actor \in Actors

VARIABLES
    grounds,      \* the world: the version each ground has now
    initiated,    \* State.initiated
    proposals,    \* State.proposals, as a partial function
    assessments,  \* State.assessments
    decisions,    \* State.decisions: EffectiveDecision by id
    agreements,   \* State.agreements
    current,      \* State.current
    settlement    \* State.settlement with the resolutions its record retains

negotiation == << initiated, proposals, assessments, decisions, agreements,
                  current, settlement >>

Versions == 1 .. MaxVersion
Dependencies == UNION {[D -> Versions] : D \in SUBSET Grounds}
Kinds == {"adopt", "undertake"}

ProposalRecord ==
    [agreement : AgreementIds, expected : AgreementIds \cup {None},
     terms : TermChoices, deps : Dependencies]

AssessmentRecord ==
    [proposal : ProposalIds, deps : Dependencies, blockers : SUBSET Blockers]

DecisionRecord ==
    [proposal : ProposalIds, kind : Kinds, assessment : AssessmentIds \cup {None},
     deps : Dependencies, actor : Actors, retracted : BOOLEAN, matched : BOOLEAN,
     blockers : SUBSET Blockers]

AgreementRecord ==
    [proposal : ProposalIds, adoption : DecisionIds, undertaking : DecisionIds,
     blockers : SUBSET Blockers]

-----------------------------------------------------------------------------
(* Partial functions *)

IsPartial(f, S, R) == DOMAIN f \subseteq S /\ f \in [DOMAIN f -> R]

Put(f, k, v) == [x \in DOMAIN f \cup {k} |-> IF x = k THEN v ELSE f[x]]

Override(f, g) ==
    [x \in DOMAIN f \cup DOMAIN g |-> IF x \in DOMAIN f THEN f[x] ELSE g[x]]

-----------------------------------------------------------------------------
(* Who may speak.  The prelude of transition refuses a caller who does not *)
(* represent the owner.                                                    *)

Callers == {a \in Authorities : a.represents}

IsOwner(auth) == auth.actor = OwnerActor /\ auth.control

IsAgent(auth) == auth.actor = AgentActor /\ auth.role

Party(kind, auth) == IF kind = "adopt" THEN IsOwner(auth) ELSE IsAgent(auth)

Open == settlement.kind = "open"

\* Mutant: the prelude forgets that settlement ends the pursuit.
NegotiableEvenSettled == initiated

Negotiable == initiated /\ Open

-----------------------------------------------------------------------------
(* Dependencies and what they rest on *)

DependenciesValid(deps) == \A g \in DOMAIN deps : deps[g] = grounds[g]

\* The later statement about a ground wins: decision over assessment over proposal.
DecisionDependencies(d) ==
    LET proposed == proposals[d.proposal].deps
        assessed == IF d.kind = "adopt" THEN proposed
                    ELSE Override(assessments[d.assessment].deps, proposed)
    IN  Override(d.deps, assessed)

\* An undertaking names an assessment of its own proposal and does not
\* contradict what that assessment says of a ground.
DecisionCoherent(d) ==
    d.kind = "undertake" =>
        /\ d.assessment \in DOMAIN assessments
        /\ assessments[d.assessment].proposal = d.proposal
        /\ \A g \in DOMAIN d.deps \cap DOMAIN assessments[d.assessment].deps :
              d.deps[g] = assessments[d.assessment].deps[g]

DecisionHolds(d) ==
    DecisionCoherent(d) /\ DependenciesValid(DecisionDependencies(d))

AssessedBlockers(d) ==
    IF d.kind = "adopt" THEN {} ELSE assessments[d.assessment].blockers

\* Both decisions' dependencies in one map; both hold, so they agree.
AgreementDependencies(id) ==
    Override(DecisionDependencies(decisions[agreements[id].adoption]),
             DecisionDependencies(decisions[agreements[id].undertaking]))

CurrentGrounds(id) ==
    /\ Open
    /\ current = id
    /\ id \in DOMAIN agreements
    /\ DependenciesValid(DecisionDependencies(decisions[agreements[id].adoption]))
    /\ DependenciesValid(DecisionDependencies(decisions[agreements[id].undertaking]))

-----------------------------------------------------------------------------
(* Steps.  Access to Initiate, Propose and Assess is checked by Pursuit.   *)

Initiate ==
    /\ Open
    /\ ~initiated
    /\ initiated' = TRUE
    /\ UNCHANGED << proposals, assessments, decisions, agreements, current,
                    settlement >>

AgreementIdFree(a) == \A p \in DOMAIN proposals : proposals[p].agreement # a

\* A criterion id keeps one definition across all proposals of the Change.
CriteriaConsistent(terms) ==
    \A p \in DOMAIN proposals :
        \A c \in terms.criteria, o \in proposals[p].terms.criteria :
            o.id = c.id => o = c

Propose(id, a, expected, terms, deps) ==
    /\ Negotiable
    /\ expected = current
    /\ id \notin DOMAIN proposals
    /\ AgreementIdFree(a)
    /\ CriteriaConsistent(terms)
    /\ DependenciesValid(deps)
    /\ proposals' = Put(proposals, id, [agreement |-> a, expected |-> expected,
                                        terms |-> terms, deps |-> deps])
    /\ UNCHANGED << initiated, assessments, decisions, agreements, current,
                    settlement >>

\* Mutant: a reference to a proposal is not looked up.
ProposedOrNot(p) == TRUE

Proposed(p) == p \in DOMAIN proposals

Assess(id, p, deps, blockers) ==
    /\ Negotiable
    /\ Proposed(p)
    /\ id \notin DOMAIN assessments
    /\ DependenciesValid(deps)
    /\ assessments' = Put(assessments, id, [proposal |-> p, deps |-> deps,
                                            blockers |-> blockers])
    /\ UNCHANGED << initiated, proposals, decisions, agreements, current,
                    settlement >>

\* Mutant: a decision is taken on a proposal whose predecessor was superseded.
FollowsAnything(p) == TRUE

\* The proposal still names the agreement in force as its predecessor.
Follows(p) == proposals[p].expected = current

\* Mutant: a decision taken before its grounds moved still counts.
EffectiveEvenStale(ds, p, kind) ==
    {d \in DOMAIN ds : ~ds[d].retracted /\ ds[d].proposal = p /\ ds[d].kind = kind}

\* Decisions in ds that can carry an activation of p: the last one of a kind
\* in id order is taken; Decide keeps at most one.
Effective(ds, p, kind) ==
    {d \in DOMAIN ds : /\ ~ds[d].retracted
                       /\ ds[d].proposal = p
                       /\ ds[d].kind = kind
                       /\ DependenciesValid(DecisionDependencies(ds[d]))}

\* Mutant: a reaffirmed undertaking adds no blockers to the agreement.
ExtendCurrentNot(ds) == decisions' = ds /\ UNCHANGED << agreements, current >>

ExtendCurrent(ds) ==
    /\ decisions' = ds
    /\ agreements' = [agreements EXCEPT ![current].blockers =
                        @ \cup ds[agreements[current].undertaking].blockers]
    /\ UNCHANGED current

\* Mutant: a revision starts from its own assessment's blockers.
CarriedBlockersForgotten == {}

CarriedBlockers == IF current = None THEN {} ELSE agreements[current].blockers

Supersede(p, ds, adoption, undertaking) ==
    /\ decisions' = [ds EXCEPT ![adoption].matched = TRUE,
                               ![undertaking].matched = TRUE]
    /\ agreements' = Put(agreements, proposals[p].agreement,
          [proposal |-> p, adoption |-> adoption, undertaking |-> undertaking,
           blockers |-> ds[undertaking].blockers \cup CarriedBlockers])
    /\ current' = proposals[p].agreement

\* activate: run on the decisions the command has just written.
Activate(p, ds) ==
    \/ /\ current = proposals[p].agreement
       /\ ExtendCurrent(ds)
    \/ /\ current # proposals[p].agreement
       /\ Follows(p)
       /\ LET adopts == Effective(ds, p, "adopt")
              undertakes == Effective(ds, p, "undertake")
          IN  \/ \E x \in adopts, y \in undertakes : Supersede(p, ds, x, y)
              \/ /\ adopts = {} \/ undertakes = {}
                 /\ decisions' = ds
                 /\ UNCHANGED << agreements, current >>

NoLiveTwin(p, kind) ==
    \A o \in DOMAIN decisions :
        ~(~decisions[o].retracted /\ decisions[o].proposal = p
                                  /\ decisions[o].kind = kind)

NewDecision(p, kind, assessment, deps, auth) ==
    [proposal |-> p, kind |-> kind, assessment |-> assessment, deps |-> deps,
     actor |-> auth.actor, retracted |-> FALSE, matched |-> FALSE, blockers |-> {}]

Decide(id, p, kind, assessment, deps, auth) ==
    LET d == NewDecision(p, kind, assessment, deps, auth)
    IN  /\ Negotiable
        /\ Party(kind, auth)
        /\ (kind = "adopt") = (assessment = None)
        /\ Proposed(p)
        /\ proposals[p].terms.binding # {}
        /\ Follows(p)
        /\ id \notin DOMAIN decisions
        /\ NoLiveTwin(p, kind)
        /\ DecisionHolds(d)
        /\ Activate(p, Put(decisions, id, [d EXCEPT !.blockers = AssessedBlockers(d)]))
        /\ UNCHANGED << initiated, proposals, assessments, settlement >>

\* Mutant: a decision that an agreement rests on may be retracted.
RetractableEvenMatched(d) == ~d.retracted

Retractable(d) == ~d.retracted /\ ~d.matched

Retract(id, auth) ==
    /\ Negotiable
    /\ id \in DOMAIN decisions
    /\ Party(decisions[id].kind, auth)
    /\ decisions[id].actor = auth.actor
    /\ Retractable(decisions[id])
    /\ decisions' = [decisions EXCEPT ![id].retracted = TRUE]
    /\ UNCHANGED << initiated, proposals, assessments, agreements, current,
                    settlement >>

\* The proposal of a decision that may still be renewed: it made the current
\* agreement or still competes to succeed it.
Renewable(p) ==
    current = proposals[p].agreement \/ Follows(p)

\* effective.blockers.extend: a renewal drops no blocker endorsed before.
RenewedBlockers(old, renewed) == old.blockers \cup AssessedBlockers(renewed)

Reaffirm(id, deps, assessment, auth) ==
    LET old == decisions[id]
        renewed == [old EXCEPT !.deps = deps, !.assessment = assessment]
    IN  /\ Negotiable
        /\ id \in DOMAIN decisions
        /\ Party(old.kind, auth)
        /\ old.actor = auth.actor
        /\ ~old.retracted
        /\ Renewable(old.proposal)
        /\ (old.kind = "adopt") = (assessment = None)
        /\ DecisionCoherent(renewed)
        /\ DOMAIN DecisionDependencies(old) \subseteq DOMAIN DecisionDependencies(renewed)
        /\ DependenciesValid(DecisionDependencies(renewed))
        /\ Activate(old.proposal,
                    [decisions EXCEPT ![id] =
                        [renewed EXCEPT !.blockers = RenewedBlockers(old, renewed)]])
        /\ UNCHANGED << initiated, proposals, assessments, settlement >>

\* Settlement::Fulfilled or Withdrawn; resolved is kept by the Fulfill record.
Settle(kind, id, resolved) ==
    /\ settlement' = [kind |-> kind, agreement |-> id, resolved |-> resolved]
    /\ UNCHANGED << initiated, proposals, assessments, decisions, agreements, current >>

\* External: a ground moves to a new, never used, version.
GroundMoves(g) ==
    /\ grounds[g] < MaxVersion
    /\ grounds' = [grounds EXCEPT ![g] = @ + 1]

NegotiationInit ==
    /\ grounds = [g \in Grounds |-> 1]
    /\ initiated = FALSE
    /\ proposals = << >>
    /\ assessments = << >>
    /\ decisions = << >>
    /\ agreements = << >>
    /\ current = None
    /\ settlement = [kind |-> "open", agreement |-> None, resolved |-> {}]

NegotiationTypeOK ==
    /\ grounds \in [Grounds -> Versions]
    /\ initiated \in BOOLEAN
    /\ IsPartial(proposals, ProposalIds, ProposalRecord)
    /\ IsPartial(assessments, AssessmentIds, AssessmentRecord)
    /\ IsPartial(decisions, DecisionIds, DecisionRecord)
    /\ IsPartial(agreements, AgreementIds, AgreementRecord)
    /\ current \in AgreementIds \cup {None}
    /\ settlement \in [kind : {"open", "fulfilled", "withdrawn"},
                       agreement : AgreementIds \cup {None},
                       resolved : SUBSET Blockers]

\* A reference that was stored names something that exists.
References ==
    /\ \A s \in DOMAIN assessments : assessments[s].proposal \in DOMAIN proposals
    /\ \A d \in DOMAIN decisions :
          /\ decisions[d].proposal \in DOMAIN proposals
          /\ decisions[d].kind = "undertake" => decisions[d].assessment \in DOMAIN assessments
    /\ \A a \in DOMAIN agreements :
          /\ agreements[a].proposal \in DOMAIN proposals
          /\ agreements[a].adoption \in DOMAIN decisions
          /\ agreements[a].undertaking \in DOMAIN decisions
    /\ current # None => current \in DOMAIN agreements
=============================================================================
