---------------------------- MODULE MCProvenance ----------------------------
(* A small instance of Provenance: one proposal, one grant at a time for a  *)
(* helper, two contents.  Ids are taken in order, as in MCPursuit.         *)
EXTENDS Provenance

InOrder(f) == DOMAIN f = 1 .. Cardinality(DOMAIN f)

IdsInOrder ==
    /\ InOrder(proposals) /\ InOrder(assessments) /\ InOrder(decisions) /\ InOrder(grants)
    /\ {proposals[p].agreement : p \in DOMAIN proposals} \subseteq DOMAIN proposals

\* Commands that leave nothing in State (reports) or write what is there again (renewals,
\* retractions): few of them, so that the others come far.
Rewritten ==
    accepted - Cardinality(DOMAIN proposals) - Cardinality(DOMAIN assessments)
             - Cardinality(DOMAIN decisions) - (IF initiated THEN 1 ELSE 0)
             - (IF Open THEN 0 ELSE 1)
             - (IF DOMAIN grants = {} THEN 0 ELSE grants[1].generation)

FewRewritten == Rewritten <= 1

\* A record that cites a later binding of a content is looked at, but histories go on only
\* from those that cite the establishing one, and from a proposal stated before any grant.
CitedWhereEstablished ==
    record # None =>
        \/ record.kind = "Propose" /\ DOMAIN grants = {}
        \/ \A c \in record.cited \cup record.derived : c.operation = established[c.content]

\* A report that makes nothing leaves nothing in State but that it bound its contents once
\* more: it is looked at, and histories go on from those that make a content.
ReportsMakeSomething ==
    record # None /\ record.kind \in {"Finding", "Adapt", "Progress"} => record.fresh # {}

\* The parties, a helper, and an agent who represents another owner.
MCCallers ==
    { [actor |-> "owner", represents |-> TRUE, control |-> TRUE, role |-> FALSE],
      [actor |-> "agent", represents |-> TRUE, control |-> FALSE, role |-> TRUE],
      [actor |-> "helper", represents |-> TRUE, control |-> FALSE, role |-> FALSE],
      [actor |-> "agent", represents |-> FALSE, control |-> FALSE, role |-> TRUE] }

Term(context) ==
    [binding |-> {"t"}, context |-> context,
     criteria |-> { [id |-> "c", definition |-> "t", terms |-> {"t"}] }]

\* Terms that bind, with and without context, and terms that mix the two.
MCTerms == { Term({}), Term({"m"}), Term({"t"}) }

\* A grant for a helper that makes one content at a time, may use what it lists and
\* what it makes, and reads what it makes.
Helper(target, agreement, acts, listed) ==
    [recipient |-> "helper", target |-> target, agreement |-> agreement, originals |-> {},
     actions |-> acts, natives |-> {}, scope |-> {}, limits |-> {}, discloses |-> TRUE,
     content |-> listed, contentOwn |-> TRUE, contentOrigins |-> {},
     disclosure |-> {}, disclosureOwn |-> TRUE, disclosureOrigins |-> {}, creation |-> 1]

DraftTarget == << "draft", None, {} >>

\* The content a helper may have made under the first generation of its grant.
Made == [content |-> "m", recorder |-> "helper",
         use |-> [id |-> 1, generation |-> 1], target |-> DraftTarget]

\* What a helper may hold: drafting, an earlier work, observing under the agreement;
\* and a grant no owner can write.
MCSpecs ==
    { Helper("draft", None, {"Adapt"}, {"t"}),
      Helper("creation", None, {"CreateDraft"}, {"t"}),
      Helper("draft", None, {"Propose", "Assess", "Finding"}, {"t"}),
      [Helper("draft", None, {"Assess"}, {"t"}) EXCEPT !.contentOwn = FALSE,
          !.disclosureOwn = FALSE, !.contentOrigins = {Made}, !.disclosureOrigins = {Made}],
      Helper("pursuit", 1, {"Finding", "Adapt", "Progress"}, {"t", "m"}) }
=============================================================================
