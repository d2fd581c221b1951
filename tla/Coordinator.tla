---------------------------- MODULE Coordinator ----------------------------
(***************************************************************************)
(* One original served to its callers (application/change.rs with the      *)
(* ports of sqlite/ports.rs and the calls of sqlite/original.rs).  A call  *)
(* asks the host for the context, then for every content and ground and    *)
(* for its judgment, one callback at a time; plans a candidate; and has    *)
(* everything checked again under the host's guard, where the record is    *)
(* appended or the answer disclosed.                                       *)
(*                                                                         *)
(* The world moves between any two callbacks and stands still while the    *)
(* guard is held (local.rs: implementors serialize all relevant            *)
(* mutations with lock).  The store underneath is what Ledger says: a      *)
(* mutation can fail anywhere, and a commit declared possible that did not *)
(* happen stays undecided for good.                                        *)
(***************************************************************************)
EXTENDS Records

CONSTANTS Requests,      \* what callers may submit
          Worlds,        \* states the host's world may be in
          MaxMoves,      \* bound: moves of the world
          MaxFailures    \* bound: kills, failed calls and damage

\* What the host answers at one moment.
WorldType ==
    [context  : Context,
     source   : [Contents -> Observation],
     ground   : [Grounds -> Versions],
     judgment : SUBSET Contents,
     permits  : SUBSET {"intake", "disclose", "resolve"}]

Stages == {"contents", "bound", "grounds", "evidence", "planned",
           "locked", "declared", "committed", "final"}

CallType ==
    [kind : {"submit", "recover", "read"}, request : Requests \cup {None},
     about : Ids \cup Contents, stage : Stages, checks : Checks]

AttemptType == [record : Record, declared : BOOLEAN]

ASSUME CoordinatorAssumption ==
    /\ Requests \subseteq Request
    /\ Worlds \subseteq WorldType
    /\ Ids \cap Contents = {}
    /\ None \notin Ids \cup Contents \cup Effects \cup {"change", "absent", "asked"}
    /\ None \notin Request /\ None \notin Establishment
    /\ None \notin CallType /\ None \notin AttemptType
    /\ Effects \cap {"none", "asked", "absent"} = {}
    /\ MaxMoves \in Nat /\ MaxFailures \in Nat

VARIABLES world,      \* external
          log,        \* records SQLite holds
          tables,     \* the control rows SQLite holds
          attempt,    \* the pending mutation the witness knows, or None
          store,      \* "live", "fenced", "opening" or "down"
          memory,     \* the prefix the handle keeps, or None
          fenced,     \* the handle has lost track of the prefix
          call,       \* the call in progress, or None
          told,       \* history: what callers were last told of each request
          answer,     \* history: what the last read returned
          kept,       \* history: the world when each record was committed
          moves, failures

database == <<log, tables, attempt>>
handle   == <<store, memory, fenced>>
history  == <<told, answer, kept>>
bounds   == <<moves, failures>>
vars     == <<world, database, handle, call, history, bounds>>

NoDeclaration == [fresh |-> Empty(Contents), first |-> {}]

---------------------------------------------------------------------------
(* Calls *)

\* Stages at which the host's guard is held.
GuardedStages == {"locked", "declared", "committed", "final"}

At(stage) == call # None /\ call.stage = stage

Guarded == \E stage \in GuardedStages : At(stage)

NewChecks ==
    [expected |-> memory.last, context |-> world.context,
     intakes |-> Empty(Contents), grounds |-> Empty(Grounds), judgment |-> None]

Serving == store = "live" /\ memory # None /\ call = None

\* Change::context for an operation, and the retained actor.
Admitted(q) ==
    Shows(world.context, q.id) /\ world.context.actor = q.actor

\* Mutant: a known id answers whatever was asked under it.
SameById(r, q) == r.request.id = q.id

SameRequest(r, q) == r.request = q

\* submit of an id this prefix does not know.
BeginSubmit(q) ==
    /\ Serving /\ ~fenced
    /\ Admitted(q)
    /\ ~Knows(memory, q.id)
    /\ call' = [kind |-> "submit", request |-> q, about |-> q.id,
                stage |-> "contents", checks |-> NewChecks]
    /\ UNCHANGED <<world, database, handle, history, bounds>>

\* submit or resolve_original of an id this prefix knows: the exact request
\* is answered with its original result.
BeginRecover(q) ==
    /\ Serving /\ ~fenced
    /\ Admitted(q)
    /\ \E r \in RecordsOf(memory.records, q.id) : SameRequest(r, q)
    /\ call' = [kind |-> "recover", request |-> q, about |-> q.id,
                stage |-> "contents", checks |-> NewChecks]
    /\ UNCHANGED <<world, database, handle, history, bounds>>

\* read of an operation or of a content; what the kernel's read_access says
\* is one more refusal.
BeginRead(about) ==
    /\ Serving /\ ~fenced
    /\ Shows(world.context, about)
    /\ about \in Contents => about \in Bound(memory.bytes)
    /\ call' = [kind |-> "read", request |-> None, about |-> about,
                stage |-> "contents", checks |-> NewChecks]
    /\ UNCHANGED <<world, database, handle, history, bounds>>

\* The declaration contents are resolved against; a retry has none.
Declared == IF call.kind = "submit" THEN call.request ELSE NoDeclaration

\* The contents a call binds before the host has judged it.
Named ==
    IF call.kind = "submit" THEN Required(call.request, None)
    ELSE IF call.about \in Contents THEN {call.about}
    ELSE UNION {Bound(r.checks.intakes) : r \in RecordsOf(memory.records, call.about)}

Missing ==
    (IF At("evidence") THEN Required(call.request, call.checks.judgment) ELSE Named)
        \ Bound(call.checks.intakes)

ResolveContent(k) ==
    /\ At("contents") \/ At("evidence")
    /\ k \in Missing
    /\ LET s == SnapshotOf(memory, Declared, k, world.source[k])
       IN  /\ IntakeFits(memory, Declared, k, s)
           /\ call' = [call EXCEPT !.checks.intakes[k] = s]
    /\ UNCHANGED <<world, database, handle, history, bounds>>

\* Every content is bound: a submission goes on to its grounds, a retry or a
\* read to the disclosure.
ContentsBound ==
    /\ At("contents")
    /\ Missing = {}
    /\ call' = [call EXCEPT !.stage =
                   IF call.kind = "submit" THEN "grounds" ELSE "bound"]
    /\ UNCHANGED <<world, database, handle, history, bounds>>

ReadGround(g) ==
    /\ At("grounds")
    /\ g \in call.request.grounds \ Bound(call.checks.grounds)
    /\ call' = [call EXCEPT !.checks.grounds[g] = world.ground[g]]
    /\ UNCHANGED <<world, database, handle, history, bounds>>

\* discretion or native_conditions, with the evidence it names.
Judge ==
    /\ At("grounds")
    /\ call.request.grounds = Bound(call.checks.grounds)
    /\ call' = [call EXCEPT
                   !.checks.judgment =
                       IF call.request.judged THEN world.judgment ELSE None,
                   !.stage = "evidence"]
    /\ UNCHANGED <<world, database, handle, history, bounds>>

\* candidate_current and the intake authorisation.
Plan ==
    /\ At("evidence")
    /\ Missing = {}
    /\ ValidCurrent(memory, call.request, call.checks)
    /\ Kernel(memory.records, call.request, call.checks) \in Effects
    /\ "intake" \in world.permits
    /\ call' = [call EXCEPT !.stage = "planned"]
    /\ UNCHANGED <<world, database, handle, history, bounds>>

\* Any callback, check or rule refuses: nothing has happened.
Refuse ==
    /\ \E stage \in {"contents", "grounds", "evidence", "planned", "bound"} :
         At(stage)
    /\ call' = None
    /\ UNCHANGED <<world, database, handle, history, bounds>>

---------------------------------------------------------------------------
(* The guarded cut *)

\* Mutant: the context is not compared again.
RevalidatedInAnyContext(checks) ==
    /\ \A k \in Bound(checks.intakes) : world.source[k] = checks.intakes[k].claim
    /\ \A g \in Bound(checks.grounds) : world.ground[g] = checks.grounds[g]
    /\ checks.judgment # None => world.judgment = checks.judgment
    /\ "disclose" \in world.permits

\* Mutant: grounds are not asked for again.
RevalidatedWithoutGrounds(checks) ==
    /\ world.context = checks.context
    /\ \A k \in Bound(checks.intakes) : world.source[k] = checks.intakes[k].claim
    /\ checks.judgment # None => world.judgment = checks.judgment
    /\ "disclose" \in world.permits

\* Everything the host said still holds, and it permits the disclosure.
Revalidated(checks) ==
    /\ world.context = checks.context
    /\ \A k \in Bound(checks.intakes) : world.source[k] = checks.intakes[k].claim
    /\ \A g \in Bound(checks.grounds) : world.ground[g] = checks.grounds[g]
    /\ checks.judgment # None => world.judgment = checks.judgment
    /\ "disclose" \in world.permits

\* The record the call proposes.
Proposed == NewRecord(memory, call.request, call.checks)

\* accept: prefix, preparation of the rows, the guard, the revalidation, and
\* the first witness publication of the mutation.
Lock ==
    /\ At("planned")
    /\ store = "live"
    /\ call.checks.expected = memory.last
    /\ Coherent(Append(memory.records, Proposed))
    /\ Revalidated(call.checks)
    /\ "intake" \in world.permits
    /\ attempt' = [record |-> Proposed, declared |-> FALSE]
    /\ told' = [told EXCEPT ![call.request] = "asked"]
    /\ call' = [call EXCEPT !.stage = "locked"]
    /\ UNCHANGED <<world, log, tables, handle, answer, kept, bounds>>

\* Mutant: the candidate is published before its outcome is known.
DeclareAndPublish ==
    /\ At("locked")
    /\ attempt' = [attempt EXCEPT !.declared = TRUE]
    /\ memory' = Retain(memory, attempt.record)
    /\ call' = [call EXCEPT !.stage = "declared"]
    /\ UNCHANGED <<world, log, tables, store, fenced, history, bounds>>

Declare ==
    /\ At("locked")
    /\ attempt' = [attempt EXCEPT !.declared = TRUE]
    /\ call' = [call EXCEPT !.stage = "declared"]
    /\ UNCHANGED <<world, log, tables, handle, history, bounds>>

\* The record, its request, both digests and the new control rows at once.
Commit ==
    /\ At("declared")
    /\ log' = Append(log, attempt.record)
    /\ tables' = [t \in DOMAIN tables |->
                     tables[t] \cup Added(memory.records, attempt.record)[t]]
    /\ kept' = Append(kept, world)
    /\ call' = [call EXCEPT !.stage = "committed"]
    /\ UNCHANGED <<world, attempt, handle, told, answer, bounds>>

Finalize ==
    /\ At("committed")
    /\ attempt' = None
    /\ call' = [call EXCEPT !.stage = "final"]
    /\ UNCHANGED <<world, log, tables, handle, history, bounds>>

\* accept returned: the guard is gone and the result is the candidate.
Publish ==
    /\ At("final")
    /\ memory' = Retain(memory, log[Len(log)])
    /\ told' = [told EXCEPT ![call.request] = log[Len(log)].effect]
    /\ call' = None
    /\ UNCHANGED <<world, database, store, fenced, answer, kept, bounds>>

\* Mutant: an unknown outcome leaves the handle as it was.
OutcomeIgnored ==
    /\ Guarded
    /\ failures < MaxFailures
    /\ failures' = failures + 1
    /\ store' = "fenced" /\ fenced' = FALSE
    /\ call' = None
    /\ told' = [told EXCEPT ![call.request] = "absent"]
    /\ UNCHANGED <<world, database, memory, answer, kept, moves>>

\* The mutation fails after its first publication: Indeterminate.
FailMutation ==
    /\ Guarded
    /\ failures < MaxFailures
    /\ failures' = failures + 1
    /\ store' = "fenced" /\ fenced' = TRUE
    /\ call' = None
    /\ UNCHANGED <<world, database, memory, history, moves>>

\* disclose_checked of a retry, with the permission to resolve.
DiscloseOriginal ==
    /\ At("bound") /\ call.kind = "recover"
    /\ store = "live"
    /\ "resolve" \in world.permits
    /\ Revalidated(call.checks)
    /\ told' = [told EXCEPT ![call.request] = RecordOf(memory, call.about).effect]
    /\ call' = None
    /\ UNCHANGED <<world, database, handle, answer, kept, bounds>>

\* disclose_checked of a read.
DiscloseRead ==
    /\ At("bound") /\ call.kind = "read"
    /\ store = "live"
    /\ Revalidated(call.checks)
    /\ answer' = [about |-> call.about,
                  value |-> IF call.about \in Contents
                              THEN BytesIn(call.checks.intakes, call.about)
                            ELSE IF Knows(memory, call.about)
                              THEN RecordOf(memory, call.about).effect
                            ELSE "absent",
                  at    |-> Len(log)]
    /\ call' = None
    /\ UNCHANGED <<world, database, handle, told, kept, bounds>>

\* resolve_original of an id the store does not hold, under one guard.  The
\* records of the handle are asked, not its fence.
ResolveAbsent(q) ==
    /\ Serving
    /\ ~Knows(memory, q.id)
    /\ Admitted(q)
    /\ {"resolve", "disclose"} \subseteq world.permits
    /\ told' = [told EXCEPT ![q] = "absent"]
    /\ UNCHANGED <<world, database, handle, call, answer, kept, bounds>>

---------------------------------------------------------------------------
(* The store and the world *)

\* A call finds the files damaged.
Damage ==
    /\ store = "live" /\ ~Guarded
    /\ failures < MaxFailures
    /\ failures' = failures + 1
    /\ store' = "fenced"
    /\ UNCHANGED <<world, database, memory, fenced, call, history, moves>>

\* The handle is closed or dropped between calls.
Close ==
    /\ store # "down" /\ call = None
    /\ store' = "down" /\ memory' = None /\ fenced' = FALSE
    /\ UNCHANGED <<world, database, call, history, bounds>>

Crash ==
    /\ store # "down"
    /\ failures < MaxFailures
    /\ failures' = failures + 1
    /\ store' = "down" /\ memory' = None /\ fenced' = FALSE
    /\ call' = None
    /\ UNCHANGED <<world, database, history, moves>>

\* The operation of the witness's pending mutation may have been committed and
\* was not.
Undecidable ==
    attempt # None /\ attempt.declared /\ attempt.record \notin {log[i] : i \in DOMAIN log}

\* An opening interprets the records one after the other, from nothing.
BeginOpen ==
    /\ store = "down"
    /\ store' = "opening" /\ memory' = EmptyPrefix
    /\ UNCHANGED <<world, database, fenced, call, history, bounds>>

Unread == log[Len(memory.records) + 1]

Interpret ==
    /\ store = "opening"
    /\ Len(memory.records) < Len(log)
    /\ Interprets(memory, Unread)
    /\ memory' = Retain(memory, Unread)
    /\ UNCHANGED <<world, database, store, fenced, call, history, bounds>>

\* All of them, the tables agree, and the pending mutation is decided.
FinishOpen ==
    /\ store = "opening"
    /\ memory.records = log
    /\ Coherent(log) /\ tables = Controls(log)
    /\ ~Undecidable
    /\ attempt' = None
    /\ store' = "live"
    /\ UNCHANGED <<world, log, tables, memory, fenced, call, history, bounds>>

WorldMoves ==
    /\ ~Guarded
    /\ moves < MaxMoves
    /\ moves' = moves + 1
    /\ world' \in Worlds \ {world}
    /\ UNCHANGED <<database, handle, call, history, failures>>

Init ==
    /\ world \in Worlds
    /\ log = <<>> /\ tables = NoRows /\ attempt = None
    /\ store = "live" /\ memory = EmptyPrefix /\ fenced = FALSE
    /\ call = None
    /\ told = [q \in Requests |-> "none"] /\ answer = None /\ kept = <<>>
    /\ moves = 0 /\ failures = 0

Gather ==
    \/ \E q \in Requests : BeginSubmit(q) \/ BeginRecover(q)
    \/ \E about \in Ids \cup Contents : BeginRead(about)
    \/ \E k \in Contents : ResolveContent(k)
    \/ ContentsBound
    \/ \E g \in Grounds : ReadGround(g)
    \/ Judge \/ Plan \/ Refuse

Accept == Lock \/ Declare \/ Commit \/ Finalize \/ Publish \/ FailMutation

Disclose ==
    DiscloseOriginal \/ DiscloseRead \/ \E q \in Requests : ResolveAbsent(q)

Environment ==
    Damage \/ Close \/ Crash \/ BeginOpen \/ Interpret \/ FinishOpen \/ WorldMoves

Next == Gather \/ Accept \/ Disclose \/ Environment

Spec == Init /\ [][Next]_vars

---------------------------------------------------------------------------
(* Properties *)

InLog(q) == \E i \in DOMAIN log : log[i].request = q

\* A handle that has not lost track holds exactly the history SQLite holds, and
\* so does a reopened one, whatever was accepted, refused or interrupted before
\* (change.rs execute publishes the candidate only when it is accepted, and
\* reconstruct reaches the same state from the records alone).
MemoryIsHistory ==
    (store = "live" /\ ~fenced /\ ~At("committed") /\ ~At("final")) =>
        memory = PrefixOf(log)

\* Everything that was ever accepted can be opened again: the rules of
\* execute accept nothing the rules of reconstruct refuse, and the rows
\* inserted record by record are the rows the whole history has
\* (records.rs prepare and load).
AlwaysReadable ==
    /\ store = "opening" /\ memory.records # log => Interprets(memory, Unread)
    /\ Coherent(log)
    /\ tables = Controls(log)

\* What a record says of the host was true all at once when it was committed:
\* the context, every source, ground and judgment it was planned with, read
\* one by one while the world moved (ports.rs accept and revalidate).
TrueWhenKept ==
    \A i \in DOMAIN log :
        LET c == log[i].checks
            w == kept[i]
        IN  /\ w.context = c.context
            /\ c.context.actor = log[i].request.actor
            /\ \A k \in Bound(c.intakes) : w.source[k] = c.intakes[k].claim
            /\ \A g \in Bound(c.grounds) : w.ground[g] = c.grounds[g]
            /\ c.judgment # None => w.judgment = c.judgment
            /\ {"intake", "disclose"} \subseteq w.permits

\* A content has one meaning for good: every record that binds it binds the
\* same bytes, from the same author, and one record, the first, establishes it
\* (change.rs check_intake).
ContentHasOneMeaning ==
    \A i, j \in DOMAIN log : \A k \in Bound(log[i].checks.intakes) \cap
                                      Bound(log[j].checks.intakes) :
        /\ BytesIn(log[i].checks.intakes, k) = BytesIn(log[j].checks.intakes, k)
        /\ log[i].checks.intakes[k].claim.by = log[j].checks.intakes[k].claim.by
        /\ i < j => /\ k \in Established(log[i].request) \/ \E h \in 1..i :
                          k \in Established(log[h].request)
                    /\ k \notin Established(log[j].request)

\* A citation names a content its operation really bound, to the bytes it is
\* cited for (change.rs proposal_references and derivation_references).
CitationsStand ==
    \A j \in DOMAIN log :
        \A c \in log[j].request.cites \cup log[j].request.derived :
            \E i \in 1..j :
                /\ log[i].request.id = c.operation
                /\ c.content \in Bound(log[i].checks.intakes)
                /\ BytesIn(log[i].checks.intakes, c.content)
                     = BytesIn(log[j].checks.intakes, c.content)

\* What an operation bound and cited stays what it was for everything later.
ContentStands == ContentHasOneMeaning /\ CitationsStand

\* An answer is about the exact request that was asked: accepted means that
\* this request, and no other under its id, is in the log with that effect;
\* not accepted means that it is not there (change.rs execute, original.rs
\* resolve_original).  An id is used once, whatever is retried or interrupted.
HonestAnswers ==
    \A q \in Requests :
        /\ told[q] \in Effects =>
              \E i \in DOMAIN log : log[i].request = q /\ log[i].effect = told[q]
        /\ told[q] = "absent" => ~InLog(q)
        /\ \A i, j \in DOMAIN log :
              log[i].request.id = q.id /\ log[j].request.id = q.id => i = j

\* Nothing is shown, to a reader or to a caller that retries, unless the
\* context of that very moment lets it be shown, however long ago the call
\* began (ports.rs disclose_checked).
ShownOnlyInContext ==
    [][ (answer' # answer \/ (told' # told /\ At("bound")))
          => /\ Shows(world.context, call.about)
             /\ call.kind = "recover" => world.context.actor = call.request.actor
             /\ "disclose" \in world.permits ]_vars

\* What was read is what was accepted: the effect of the operation, or the
\* bytes its first record bound, however the source changed since.
ReadsAreHistory ==
    answer # None =>
        IF answer.about \in Contents
          THEN \E i \in DOMAIN log :
                 /\ answer.about \in Bound(log[i].checks.intakes)
                 /\ BytesIn(log[i].checks.intakes, answer.about) = answer.value
        ELSE IF answer.value = "absent"
          THEN \A i \in 1..answer.at : log[i].request.id # answer.about
        ELSE \E i \in DOMAIN log :
               log[i].request.id = answer.about /\ log[i].effect = answer.value

\* The callers of an original see what Ledger promises of its store.
Abstract == INSTANCE Ledger WITH
    log     <- [i \in DOMAIN log |-> log[i].request],
    attempt <- IF attempt = None THEN None ELSE attempt.record.request,
    verdict <- [q \in Requests |->
                   IF told[q] \in Effects THEN "accepted" ELSE told[q]]

ImplementsLedger == Abstract!Spec
=============================================================================
