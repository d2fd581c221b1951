------------------------------- MODULE Reading -------------------------------
(***************************************************************************)
(* Bounded reads of an original without a writer (adapters/sqlite/         *)
(* cold_read.rs and read.rs, the read copy of preflight.rs, application/   *)
(* read.rs, read_call.rs and read_budget.rs), over the files of Store.     *)
(*                                                                         *)
(* A read is one call that the host's callbacks and the files interrupt:   *)
(* it looks at the context, asks for permission, takes the writer lease    *)
(* (of a store that no process has open), copies the files, verifies the   *)
(* copy, makes the reply, asks for permission again and compares the files *)
(* and the context a last time.  Between two steps the host may withdraw   *)
(* or move anything, the journal may be lost or replaced, and when the     *)
(* call does not hold the lease a writer may open, append and close.       *)
(* A client walks a range page by page across several calls.               *)
(*                                                                         *)
(* Abstracted: the original read here was activated, so its receipt is not *)
(* looked at; the reply is a function of the private copy and is computed  *)
(* where it is released; of the budget source and I/O are counted, in      *)
(* units of a record, and allocation and work, which are charged in the    *)
(* same way, may run out wherever they are charged.  A cursor names no     *)
(* reader or scope: only the owner of this Change reads it.                *)
(*                                                                         *)
(* An operator under a comment that starts with "Mutant" is not part of    *)
(* the model: it is the definition after it with a plausible bug.          *)
(***************************************************************************)
EXTENDS Store, FiniteSets

CONSTANTS Worlds,           \* what the host may answer: version and permits
          PageLimits,       \* limits a page may be asked with
          Probes,           \* change requests nobody resolved before
          SourceCeiling,    \* bound of the budget: source lengths observed
          IoCeiling,        \* bound of the budget: bytes moved
          MaxMoves          \* bound: changes of the host's answers

Permits == {"owner", "history", "content", "custody"}

Positions == [at : Nat, operation : Requests \cup {None}]

Cursors ==
    [after : Positions, through : Positions, selection : SUBSET Requests, last : Positions]

ASSUME ReadingAssumption ==
    /\ \A w \in Worlds : w.version \in Nat /\ w.permits \subseteq Permits
    /\ \A l \in PageLimits \cup {q.limits : q \in Probes} :
         l.scanned \in Nat \ {0} /\ l.returned \in Nat \ {0} /\ l.reply \in Nat
    /\ SourceCeiling \in Nat /\ IoCeiling \in Nat /\ MaxMoves \in Nat
    /\ None \notin Cursors

VARIABLES world,    \* what the host answers now
          moves,
          call,     \* the read in progress, or None
          answer,   \* the last reply, or None
          walk      \* a client's traversal of one range, or None

reading  == <<call, answer, walk>>
host     == <<world, moves>>
readVars == <<vars, host, reading>>

---------------------------------------------------------------------------
(* Positions, pages and cursors over the records of an original *)

Refused(reason) == [kind |-> "refused", reason |-> reason]

\* resolve of a sequence: the operation accepted there, none at the beginning.
PositionAt(records, n) ==
    [at |-> n, operation |-> IF n = 0 THEN None ELSE records[n]]

ValidPosition(records, p) ==
    p.at \in 0..Len(records) /\ p = PositionAt(records, p.at)

\* What resolve makes of the anchors; one that names nothing is not clamped.
AnchorReplies(records) ==
    {[kind |-> "position", current |-> FALSE, position |-> PositionAt(records, n)] :
        n \in 0..Len(records)}
    \cup {[kind |-> "position", current |-> TRUE,
           position |-> PositionAt(records, Len(records))],
          Refused("Invalid")}

Part(records, from, to) == SubSeq(records, from + 1, to)

Picks(records, selection) == {k \in DOMAIN records : records[k] \in selection}

\* The i-th of some places, counted from the first.
Nth(places, i) == CHOOSE k \in places : Cardinality({j \in places : j <= k}) = i

\* The records that are selected, in their order.
Matching(records, selection) ==
    LET places == Picks(records, selection)
    IN  [i \in 1..Cardinality(places) |-> records[Nth(places, i)]]

\* The reservation of a page: a fixed part and the records selected.
Fits(limits, count) == 1 + count <= limits.reply

\* A request for a page: a range of two positions, a selection, limits and
\* the cursor of an earlier page or None.

\* Mutant: the cursor is checked and then forgotten.
StartAgain(q) == q.after.at

StartOf(q) == IF q.cursor = None THEN q.after.at ELSE q.cursor.last.at

CursorFits(records, q) ==
    q.cursor # None =>
        /\ q.cursor.after = q.after /\ q.cursor.through = q.through
        /\ q.cursor.selection = q.selection
        /\ q.cursor.last.at \in q.after.at .. q.through.at
        /\ ValidPosition(records, q.cursor.last)

WellFormed(records, q) ==
    /\ ValidPosition(records, q.after)
    /\ ValidPosition(records, q.through)
    /\ q.after.at <= q.through.at
    /\ q.selection # {}
    /\ CursorFits(records, q)

\* Records selected once the scan has come to n.
CountTo(records, q, n) ==
    Cardinality({k \in StartOf(q) + 1 .. n : records[k] \in q.selection})

\* Whether scan goes on from n, and whether the record after n still fits.
Wants(records, q, n) ==
    /\ n < q.through.at
    /\ n - StartOf(q) < q.limits.scanned
    /\ CountTo(records, q, n) # q.limits.returned

GoesOn(records, q, n) ==
    Wants(records, q, n) /\ Fits(q.limits, CountTo(records, q, n + 1))

\* Where scan stops: before the first record it does not take.
LastScanned(records, q) ==
    CHOOSE n \in StartOf(q) .. q.through.at :
        /\ ~GoesOn(records, q, n)
        /\ \A k \in StartOf(q) .. n - 1 : GoesOn(records, q, k)

\* A page that does not fit, or would advance over nothing, is refused.
Overflows(records, q) ==
    LET n == LastScanned(records, q) IN
    \/ ~Fits(q.limits, CountTo(records, q, n))
    \/ /\ Wants(records, q, n)
       /\ n = StartOf(q) \/ (CountTo(records, q, n) = 0 /\ records[n + 1] \in q.selection)

PageOf(records, q) ==
    LET n == LastScanned(records, q) IN
    [kind |-> "page", from |-> StartOf(q), to |-> n, selection |-> q.selection,
     records |-> Matching(Part(records, StartOf(q), n), q.selection),
     head |-> Len(records), more |-> n # q.through.at]

PageReply(records, q) ==
    IF ~WellFormed(records, q) THEN Refused("Invalid")
    ELSE IF Overflows(records, q) THEN Refused("Limit")
    ELSE PageOf(records, q)

---------------------------------------------------------------------------
(* The budget: source lengths observed and bytes moved *)

WitnessSize == 1

SizeOf(content) == IF Readable(content) THEN Len(content) + 1 ELSE 1

\* The members a read copies: the journal unless main alone is believed.
MainSize == SizeOf(main)
JournalSize == IF MainProof \/ wal = None THEN 0 ELSE SizeOf(wal.content)
CopySize == MainSize + JournalSize

\* copy_member: a member is read and written once, and after each member all
\* copied so far are compared, which reads both sides; then once more.
CaptureMoves ==
    2 * CopySize + 2 * MainSize
        + (IF JournalSize = 0 THEN 0 ELSE 2 * CopySize) + 2 * CopySize

\* Mutant: only the copying is reserved, and not the comparisons.
CopyReserve(size) == 4 * size + 1

\* All copies and comparisons to come, the last one included.
CaptureReserve(size) == 16 * size + 1

\* A debit of both counters; it is refused when more is taken than is left.
Affordable(c, source, io) ==
    c.source + source <= SourceCeiling /\ c.io + io <= IoCeiling

---------------------------------------------------------------------------
(* One read *)

Disclosure(c) == IF c.about = None THEN "history" ELSE "content"

Needs(c) == {"owner", "custody", Disclosure(c)}

CallAt(stage) == call # None /\ call.stage = stage

Leased == call # None /\ call.leased

\* A reply ends the call; it is seen in one state and then gone.
Reply(reply, early) ==
    /\ answer' = [reply |-> reply, early |-> early, call |-> call]
    /\ call' = None

\* A step of a call that is not its last.
Step(c) == call' = c /\ answer' = None /\ UNCHANGED <<vars, host, walk>>

Ask(about) ==
    /\ call = None
    /\ Step([stage |-> "asked", about |-> about, version |-> 0, leased |-> FALSE,
             image |-> None, journal |-> None, size |-> 0,
             outcome |-> "good", granted |-> FALSE, latest |-> "same",
             source |-> 0, io |-> 0, moved |-> 0, callbacks |-> 0, frames |-> 0, held |-> {}])

\* Limits that are out of range, and a host that cannot be locked, end it.
Turned(reason) ==
    /\ CallAt("asked")
    /\ Reply(Refused(reason), TRUE)
    /\ UNCHANGED <<vars, host, walk>>

Allowed(permits) == permits \subseteq world.permits

\* read_context, authorize and custody_permission before anything is touched.
Look ==
    /\ CallAt("asked")
    /\ Allowed({"owner"})
    /\ Step([call EXCEPT !.stage = "looked", !.version = world.version,
                         !.callbacks = @ + 1])

Authorize ==
    /\ CallAt("looked")
    /\ Allowed({Disclosure(call)})
    /\ Step([call EXCEPT !.stage = "authorized", !.callbacks = @ + 1])

AuthorizeCustody ==
    /\ CallAt("authorized")
    /\ Allowed({"custody"})
    /\ Step([call EXCEPT !.stage = "admitted", !.callbacks = @ + 2])

Deny ==
    /\ \/ CallAt("asked") /\ ~Allowed({"owner"})
       \/ CallAt("looked") /\ ~Allowed({Disclosure(call)})
       \/ CallAt("authorized") /\ ~Allowed({"custody"})
    /\ Reply(Refused("Denied"), TRUE)
    /\ UNCHANGED <<vars, host, walk>>

\* The lease of a store that no process has open, and its witness.
Lease ==
    /\ CallAt("admitted")
    /\ At("down")
    /\ witness # None /\ witness.phase # "Preparing"
    /\ Affordable(call, WitnessSize, WitnessSize)
    /\ Step([call EXCEPT !.stage = "leased", !.leased = TRUE,
                         !.source = @ + WitnessSize, !.io = @ + WitnessSize,
                         !.moved = @ + WitnessSize])

\* ReadCopy::capture: the files are copied and compared with their sources.
Capture ==
    /\ CallAt("leased")
    /\ JournalProof
    /\ Affordable(call, WitnessSize + CopySize, WitnessSize + CaptureReserve(CopySize))
    /\ Step([call EXCEPT !.stage = "captured", !.image = Inspected,
                         !.journal = ObjectOf(wal), !.size = CopySize,
                         !.source = @ + WitnessSize + CopySize,
                         !.io = @ + WitnessSize + CaptureReserve(CopySize),
                         !.moved = @ + WitnessSize + CaptureMoves])

\* What verify_source still has to see: the journal that was captured.
SourceStands == ObjectOf(wal) = call.journal

\* Mutant: whatever SQLite shows is current.
CurrentAnyway == TRUE

\* current_cut: the cut of the copy is the one the witness decides for.
Current == Resolved(call.image) # {}

\* read_inspection and current_cut over the copy, and a first comparison.
Verify ==
    /\ CallAt("captured")
    /\ Readable(call.image)
    /\ Current
    /\ SourceStands
    /\ Affordable(call, WitnessSize, WitnessSize + call.size)
    /\ Step([call EXCEPT !.stage = "read",
                         !.source = @ + WitnessSize,
                         !.io = @ + WitnessSize + call.size,
                         !.moved = @ + WitnessSize + 3 * call.size])

\* Any of these steps fails, for what it finds, for lack of budget or because
\* a call to the system does; the lease is let go.
Fail(reason) ==
    /\ CallAt("admitted") \/ CallAt("leased") \/ CallAt("captured")
    /\ Step([call EXCEPT !.stage = "read", !.outcome = reason, !.leased = FALSE])

\* disclose_retained_content, and the frame of the reply or of the refusal.
Retained == call.leased /\ call.about # None /\ Holds(call.image, call.about)

Outcomes ==
    IF call.outcome # "good" THEN {call.outcome}
    ELSE IF call.about # None /\ ~(Retained /\ Allowed({"content"})) THEN {"Denied"}
    ELSE {"good", "Limit"}

Pack ==
    /\ CallAt("read")
    /\ \E outcome \in Outcomes :
         Step([call EXCEPT !.stage = "packed", !.outcome = outcome,
                           !.callbacks = @ + (IF Retained THEN 1 ELSE 0),
                           !.frames = @ + (IF outcome = "good" THEN 0 ELSE 1),
                           !.held = world.permits])

\* authorize again, with what was retained, and custody_permission.
Recheck ==
    /\ CallAt("packed")
    /\ Step([call EXCEPT !.stage = "rechecked",
                         !.granted = Allowed({Disclosure(call), "custody"}),
                         !.callbacks = @ + (IF Retained THEN 4 ELSE 3)])

\* read_context again: the role, then the version.
LookAgain ==
    /\ CallAt("rechecked")
    /\ Step([call EXCEPT !.stage = "latest", !.callbacks = @ + 1,
                         !.latest = IF ~Allowed({"owner"}) THEN "denied"
                                    ELSE IF world.version # call.version THEN "changed"
                                    ELSE "same"])

\* verify_source once more; without a lease there is nothing to compare.
Checked ==
    call.leased => SourceStands /\ Affordable(call, WitnessSize, WitnessSize)

\* The comparison may fail, or may have to.
CheckRefusals ==
    (IF call.leased THEN {"Unavailable", "Limit"} ELSE {})
        \cup (IF Checked THEN {call.outcome} \ {"good"} ELSE {})

\* Mutant: what became of the source is said before who may know it.
RefusalsSourceFirst ==
    IF ~Checked THEN CheckRefusals
    ELSE IF ~call.granted \/ call.latest = "denied" THEN {"Denied"}
    ELSE IF call.latest = "changed" THEN {"Changed"}
    ELSE CheckRefusals

\* Denial is preferred over everything that depends on the source.
Refusals ==
    IF ~call.granted \/ call.latest = "denied" THEN {"Denied"}
    ELSE IF call.latest = "changed" THEN {"Changed"}
    ELSE CheckRefusals

Releasable ==
    /\ CallAt("latest")
    /\ call.granted /\ call.latest = "same" /\ call.outcome = "good"
    /\ Checked

FinishRefused ==
    /\ CallAt("latest")
    /\ \E reason \in Refusals : Reply(Refused(reason), FALSE)
    /\ UNCHANGED <<vars, host, walk>>

Replies ==
    IF call.about # None THEN {[kind |-> "content", of |-> call.about]}
    ELSE AnchorReplies(call.image) \cup {PageReply(call.image, q) : q \in Probes}

FinishReply ==
    /\ Releasable
    /\ \E reply \in Replies : Reply(reply, FALSE)
    /\ UNCHANGED <<vars, host, walk>>

---------------------------------------------------------------------------
(* The client's walk *)

\* The request for the next page: the range as first resolved, and the cursor
\* of the last page.
NextPage(limits) ==
    LET after == PositionAt(<<>>, 0)
    IN  [after |-> after, through |-> walk.through, selection |-> walk.selection,
         cursor |-> IF walk.last = after THEN None
                    ELSE [after |-> after, through |-> walk.through,
                          selection |-> walk.selection, last |-> walk.last],
         limits |-> limits]

\* The answer about the present head fixes the range.
Begin(selection) ==
    /\ answer # None /\ walk = None
    /\ answer.reply.kind = "position" /\ answer.reply.current
    /\ walk' = [through |-> answer.reply.position, selection |-> selection,
                last |-> PositionAt(<<>>, 0), got |-> <<>>, ended |-> FALSE]
    /\ answer' = None
    /\ UNCHANGED <<vars, host, call>>

FinishPage ==
    /\ Releasable /\ call.about = None
    /\ walk # None /\ ~walk.ended
    /\ \E limits \in PageLimits :
         LET reply == PageReply(call.image, NextPage(limits)) IN
         /\ Reply(reply, FALSE)
         /\ walk' = IF reply.kind = "refused" THEN walk
                    ELSE [walk EXCEPT !.got = @ \o reply.records,
                                      !.last = PositionAt(call.image, reply.to),
                                      !.ended = ~reply.more]
    /\ UNCHANGED <<vars, host>>

---------------------------------------------------------------------------
(* The host, the files and the reader's process *)

\* External: the host changes its mind; a permission seen since the reply was
\* packed is remembered.
WorldMoves ==
    /\ moves < MaxMoves /\ moves' = moves + 1
    /\ world' \in Worlds \ {world}
    /\ call' = IF call = None THEN None
               ELSE [call EXCEPT !.held =
                        IF call.stage \in {"packed", "rechecked", "latest"}
                          THEN @ \cup world'.permits ELSE @]
    /\ answer' = None
    /\ UNCHANGED <<vars, walk>>

\* External: the reading process is killed; nothing it did is left.
Kill ==
    /\ call # None
    /\ Step(None)

\* Whoever has the lease keeps writers out; it does not protect the journal.
StoreStep ==
    /\ IF Leased THEN LoseJournal \/ ReplaceJournal ELSE Next
    /\ answer' = None
    /\ UNCHANGED <<host, call, walk>>

ReadInit ==
    /\ Init
    /\ world \in {w \in Worlds : w.permits = Permits /\ w.version = 0}
    /\ moves = 0
    /\ call = None /\ answer = None /\ walk = None

CallStep ==
    \/ \E about \in Requests \cup {None} : Ask(about)
    \/ Look \/ Authorize \/ AuthorizeCustody \/ Deny
    \/ \E reason \in {"Limit", "Denied"} : Turned(reason)
    \/ Lease \/ Capture \/ Verify
    \/ \E reason \in {"Unavailable", "Limit"} : Fail(reason)
    \/ Pack \/ Recheck \/ LookAgain
    \/ FinishRefused \/ FinishReply \/ FinishPage
    \/ \E selection \in (SUBSET Requests) \ {{}} : Begin(selection)

ReadNext == CallStep \/ WorldMoves \/ Kill \/ StoreStep

ReadSpec == ReadInit /\ [][ReadNext]_readVars

---------------------------------------------------------------------------
(* Properties *)

CallStages == {"asked", "looked", "authorized", "admitted", "leased", "captured",
               "read", "packed", "rechecked", "latest"}

Calls ==
    [stage : CallStages, about : Requests \cup {None}, version : Nat,
     leased : BOOLEAN, image : Contents, journal : Nat \cup {None}, size : Nat,
     outcome : {"good", "Unavailable", "Limit", "Denied"}, granted : BOOLEAN,
     latest : {"same", "changed", "denied"},
     source : Nat, io : Nat, moved : Nat, callbacks : Nat, frames : Nat,
     held : SUBSET Permits]

\* Every variable of a read holds a value of its kind.
ReadTypeOK ==
    /\ world \in Worlds /\ moves \in 0..MaxMoves
    /\ call \in Calls \cup {None}
    /\ answer # None => answer.call \in Calls /\ answer.early \in BOOLEAN
    /\ walk # None => /\ walk.through \in Positions /\ walk.last \in Positions
                      /\ walk.selection \subseteq Requests
                      /\ walk.got \in Seq(Requests) /\ walk.ended \in BOOLEAN

\* What is said of an original is so at that moment: the head is the last
\* operation ever committed, a page holds exactly the matching records of the
\* part it says it scanned, a content is one an accepted operation retained.
\* No missing or older journal, and no commit in doubt, shows an older prefix
\* (cold_read.rs prepare, current_cut; preflight.rs proof_journals).
Truthful(reply) ==
    /\ reply.kind = "position" =>
         /\ ValidPosition(Log, reply.position)
         /\ reply.current => reply.position.at = Len(Log)
    /\ reply.kind = "page" =>
         /\ reply.head = Len(Log) /\ reply.from <= reply.to /\ reply.to <= Len(Log)
         /\ reply.records = Matching(Part(Log, reply.from, reply.to), reply.selection)
         /\ reply.more => reply.from < reply.to
    /\ reply.kind = "content" => Holds(Log, reply.of)

AnswersAreTheHistory == answer # None => Truthful(answer.reply)

\* Nothing that depends on the source is said, not even that it cannot be
\* read, unless every permission the call needs was there at some moment
\* after the reply was packed, however long the call took
\* (cold_read.rs execute, "Always prefer denial").
NothingWithoutPermission ==
    answer # None /\ ~answer.early /\ answer.reply # Refused("Denied")
        => Needs(answer.call) \subseteq answer.call.held

\* Everything a call moves was reserved before it moved, the comparison after
\* the reply is packed included, nothing is reserved beyond the budget, and no
\* reply needs a callback or the frame of a refusal that is not left
\* (preflight.rs capture, read_budget.rs debit, RefusalPacking).
WorkIsReserved ==
    /\ call # None =>
         /\ call.source <= SourceCeiling /\ call.io <= IoCeiling
         /\ call.moved <= call.io
         /\ call.leased => call.moved + 2 * call.size <= call.io
    /\ answer # None =>
         /\ answer.call.callbacks <= 16
         /\ answer.call.frames + (IF answer.reply.kind = "refused" THEN 1 ELSE 0) <= 2

\* The pages of a walk are, put together, the matching records of the part
\* walked, none twice and none left out, whatever was appended, refused or
\* killed between two pages and whatever limits each page had
\* (application/read.rs scan, read.rs page).
CoverageIsExact ==
    walk # None =>
        /\ ValidPosition(Log, walk.through) /\ ValidPosition(Log, walk.last)
        /\ walk.last.at <= walk.through.at
        /\ walk.got = Matching(Part(Log, 0, walk.last.at), walk.selection)
        /\ walk.ended => walk.last = walk.through
=============================================================================
