----------------------------- MODULE MCPursuit -----------------------------
(* Small instances of Pursuit: the ids, terms, grants and requests the runs *)
(* choose from.  Ids are numbers, so that IdsInOrder can keep one state of  *)
(* each class of states that differ only by which unused id was taken.      *)
EXTENDS Pursuit

\* The kernel compares ids for equality only: taking them in order loses nothing.
InOrder(f) == DOMAIN f = 1 .. Cardinality(DOMAIN f)

IdsInOrder ==
    /\ InOrder(proposals) /\ InOrder(assessments) /\ InOrder(decisions)
    /\ InOrder(grants) /\ InOrder(actions)
    /\ {proposals[p].agreement : p \in DOMAIN proposals} \subseteq DOMAIN proposals

\* The parties as the authority port reports them.
MCAuthorities ==
    { [actor |-> "owner", represents |-> TRUE, control |-> TRUE, role |-> FALSE],
      [actor |-> "agent", represents |-> TRUE, control |-> FALSE, role |-> TRUE] }

Criterion(c, d) == [id |-> c, definition |-> d]

MCBareTerms == { [binding |-> {"t"}, criteria |-> {}] }

MCTerms ==
    { [binding |-> {}, criteria |-> {}],
      [binding |-> {"t"}, criteria |-> {Criterion("c", "m")}] }

\* Grant specifications: a draft grant, pursuit of one agreement with or without a
\* native permission, and reconciliation of one action.
Bare(recipient, target, acts) ==
    [recipient |-> recipient, target |-> target, agreement |-> None, originals |-> {},
     actions |-> acts, content |-> {}, natives |-> {}, scope |-> {}, limits |-> {},
     discloses |-> FALSE]

Permit(a, acts, scope) ==
    [Bare("agent", "pursuit", acts) EXCEPT !.agreement = a, !.natives = {"n"},
                                           !.scope = scope, !.limits = {"l"}]

Account(acts) == [Bare("agent", "reconciliation", {"Reconcile"}) EXCEPT !.originals = acts]

MCNativeSpecs ==
    {Permit(a, {"Admit", "Dispatch"}, {"s"}) : a \in AgreementIds}
      \cup {Account({x}) : x \in ActionIds}

MCRequest == { [native |-> "n", scope |-> {"s"}, limits |-> {"l"}, conditions |-> {"c"}] }
=============================================================================
