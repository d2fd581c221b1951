--------------------------- MODULE MCCoordinator ---------------------------
(***************************************************************************)
(* Small instances of Coordinator: two ids, two actors, two contents and   *)
(* one ground.                                                             *)
(***************************************************************************)
EXTENDS Coordinator

CONSTANTS o1, o2, amy, bob, k, k2, b1, b2, g, first, later

\* A kernel that looks at everything it is given: what it answers depends on
\* the records before, and it refuses a judgment that names no evidence.
KernelAnswer(records, q, c) ==
    IF q.judged /\ c.judgment = {} THEN None
    ELSE IF records = <<>> THEN first ELSE later

Plain(id, actor) ==
    [id |-> id, actor |-> actor, uses |-> {}, fresh |-> Empty(Contents),
     first |-> {}, cites |-> {}, derived |-> {}, grounds |-> {},
     judged |-> FALSE]

Cited(id) == [operation |-> id, content |-> k]

Payload(key, b) == [Empty(Contents) EXCEPT ![key] = [bytes |-> b, by |-> amy]]

\* Fresh content, cited by its own operation, on a ground.
Contribution ==
    [Plain(o1, amy) EXCEPT !.uses = {k}, !.fresh = Payload(k, b1),
                           !.cites = {Cited(o1)}, !.grounds = {g}]

\* Something else under the same id.
Impostor == [Plain(o1, amy) EXCEPT !.grounds = {g}]

\* Content retained earlier, cited from where it was.
Reuse == [Plain(o2, bob) EXCEPT !.uses = {k}, !.cites = {Cited(o1)}]

\* The same content, declared as a first retention, judged by the host.
Retention ==
    [Plain(o2, bob) EXCEPT !.first = {k}, !.judged = TRUE]

\* New content derived from what the other operation retained.
Derivation ==
    [Plain(o2, bob) EXCEPT !.uses = {k2}, !.fresh = Payload(k2, b1),
                           !.derived = {Cited(o1)}]

\* A first retention that cites another operation for the same content.
Borrowing ==
    [Plain(o2, bob) EXCEPT !.uses = {k}, !.first = {k}, !.cites = {Cited(o1)}]

OldRetention == [Plain(o1, amy) EXCEPT !.uses = {k}, !.first = {k}]

Seen(b, known, kind) == [bytes |-> b, by |-> amy, known |-> known, kind |-> kind]

\* The second content is always at hand as a new contribution.
Source(s) == [x \in Contents |-> IF x = k THEN s ELSE Seen(b1, FALSE, "New")]

Everyone == {"intake", "disclose", "resolve"}

World(actor, scopes, s, version, evidence, permits) ==
    [context  |-> [actor |-> actor, mine |-> TRUE, shows |-> scopes],
     source   |-> Source(s), ground |-> [x \in {g} |-> version],
     judgment |-> evidence, permits |-> permits]

\* The world of one actor in which anything may move.
RacingWorlds ==
    {World(amy, scopes, s, version, {}, permits) :
        scopes \in {{o1}, {}},
        s \in {Seen(b1, FALSE, "New"), Seen(b1, TRUE, "PreExisting"),
               Seen(b2, TRUE, "PreExisting")},
        version \in 0..1,
        permits \in {Everyone, {"intake", "resolve"}}}

RacingRequests == {Contribution, Impostor}

\* Contents are contributed, retained, reused and rebound by two actors.
SharingWorlds ==
    {World(actor, {"change"}, s, 0, {k}, Everyone) :
        actor \in {amy, bob},
        s \in {Seen(b1, FALSE, "New"), Seen(b1, FALSE, "PreExisting"),
               Seen(b1, TRUE, "PreExisting"), Seen(b2, TRUE, "PreExisting")}}
    \cup {World(bob, {"change"}, Seen(b1, FALSE, "PreExisting"), 0, {}, Everyone)}

SharingRequests ==
    {Contribution, Reuse, Retention, Derivation, Borrowing, OldRetention}
=============================================================================
