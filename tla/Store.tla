-------------------------------- MODULE Store --------------------------------
(***************************************************************************)
(* The durable store under one original (adapters/sqlite/backend.rs,       *)
(* control.rs, the proofs of preflight.rs and the pins of custody.rs): a   *)
(* SQLite database in WAL mode and, beside it, the custody witness that    *)
(* says which cut is current and which mutation is in flight.              *)
(*                                                                         *)
(* One process at a time holds the writer lease; `pc' is where it is.      *)
(* Every witness publication and every SQLite commit is a step of its own, *)
(* so that the process can be killed, or an I/O call fail, between any     *)
(* two.  The journal at its path can be removed or replaced by an older    *)
(* one at any moment.  Loss of pages that were written but not synced is   *)
(* not modelled.                                                           *)
(*                                                                         *)
(* Abstracted: a database is the sequence of the operations it holds, a    *)
(* journal the content a reader of main and journal together sees; -wal    *)
(* and -shm are one object; generation and epoch, which only number the    *)
(* publications, are left out.  Reading the witness back equals what the   *)
(* process remembers unless a publication failed, and then it is fenced.   *)
(*                                                                         *)
(* An operator under a comment that starts with "Mutant" is not part of    *)
(* the model: it is the definition after it with a plausible bug.          *)
(***************************************************************************)
EXTENDS Naturals, Sequences

CONSTANTS Requests,     \* operations callers may ask to append
          None,         \* no value; also the database before its schema
          Torn,         \* a main file a checkpoint has only begun to fill
          Provision,    \* the mutation that creates the schema
          MaxDamage,    \* bound: journals removed or replaced
          MaxCrashes    \* bound: kills of the process

\* Values of the state: contents, journals, cuts and witnesses.
Contents == {None, Torn} \cup Seq(Requests)

Journals == [object : Nat, content : Contents]

Cuts == [revision : Nat, last : Requests \cup {None}]

Pendings == [stage   : {"Prepared", "CommitPossible"},
             request : Requests \cup {Provision},
             after   : Cuts]

Phases == {"Preparing", "PreparingOpen", "Live", "Closing", "Clean"}

Witnesses == [phase   : Phases,
              journal : Nat \cup {None},
              cut     : Cuts,
              pending : Pendings \cup {None}]

ASSUME StoreAssumption ==
    /\ None \notin Requests
    /\ Torn \notin Requests \cup {None}
    /\ Provision \notin Requests \cup {None}
    /\ MaxDamage \in Nat
    /\ MaxCrashes \in Nat

\* None and Torn are not values of another kind.
ASSUME NoneAssumption ==
    /\ None \notin Seq(Requests) /\ Torn \notin Seq(Requests)
    /\ None \notin Nat
    /\ None \notin Journals
    /\ None \notin Pendings
    /\ None \notin Witnesses

VARIABLES allocation,   \* allocation.ctrl is published
          witness,      \* custody.ctrl, or None
          main,         \* content of ledger.sqlite alone
          wal,          \* the journal at its path, or None
          pc,           \* where the process that holds the lease is
          inode,        \* the journal the open connection uses, or None
          found,        \* journal object noted when opening began
          committed,    \* history: every operation SQLite ever committed,
                        \* None before the schema
          verdict,      \* history: what callers were last told
          objects,      \* file objects created so far
          crashes

persistent == <<allocation, witness, main, wal, objects>>
process    == <<pc, inode, found>>
history    == <<committed, verdict>>
vars       == <<persistent, process, history, crashes>>

---------------------------------------------------------------------------
(* Cuts, content and the witness *)

Holds(content, r) == \E i \in DOMAIN content : content[i] = r

EmptyCut == [revision |-> 0, last |-> None]

\* The head row of a database that holds this content.
CutOf(content) ==
    [revision |-> Len(content) + 1,
     last     |-> IF content = <<>> THEN None ELSE content[Len(content)]]

Readable(content) == content # None /\ content # Torn

\* The stored head is this cut.
HeadIs(content, cut) == Readable(content) /\ CutOf(content) = cut

Advanced(cut, r) == [revision |-> cut.revision + 1, last |-> r]

ObjectOf(journal) == IF journal = None THEN None ELSE journal.object

\* The connection's journal is still the one at the path.
Pinned == wal # None /\ inode # None /\ wal.object = inode.object

\* What a reader of the main file and the journal at its path sees.
Visible == IF wal = None THEN main ELSE wal.content

FirstWitness ==
    [phase   |-> "Preparing", journal |-> None, cut |-> EmptyCut,
     pending |-> [stage   |-> "Prepared", request |-> Provision,
                  after   |-> CutOf(<<>>)]]

PendingIs(stage) ==
    witness # None /\ witness.pending # None /\ witness.pending.stage = stage

Possible(w) == [w EXCEPT !.pending.stage = "CommitPossible"]

Adopted(w) == [w EXCEPT !.cut = w.pending.after, !.pending = None]

Released(w) == [w EXCEPT !.pending = None]

At(place) == pc = place

Init ==
    /\ allocation = FALSE
    /\ witness = None
    /\ main = None
    /\ wal = None
    /\ pc = "down"
    /\ inode = None
    /\ found = None
    /\ committed = None
    /\ verdict = [r \in Requests |-> "none"]
    /\ objects = 0
    /\ crashes = 0

---------------------------------------------------------------------------
(* Creation: the allocation manifest, the witness, the schema *)

Allocate ==
    /\ At("down")
    /\ ~allocation
    /\ allocation' = TRUE
    /\ pc' = "allocating"
    /\ UNCHANGED <<witness, main, wal, objects, inode, found, history, crashes>>

\* Both a first allocation and one resumed without a witness publish it.
PublishFirst ==
    /\ At("allocating")
    /\ witness' = FirstWitness
    /\ pc' = "allocated"
    /\ UNCHANGED <<allocation, main, wal, objects, inode, found, history, crashes>>

ResumeAllocation ==
    /\ At("down")
    /\ allocation
    /\ witness \in {None, FirstWitness}
    /\ main = None /\ wal = None
    /\ pc' = IF witness = None THEN "allocating" ELSE "allocated"
    /\ UNCHANGED <<persistent, inode, found, history, crashes>>

BeginProvision ==
    /\ At("allocated")
    /\ main = None /\ wal = None
    /\ witness' = Possible(witness)
    /\ pc' = "provisioning"
    /\ UNCHANGED <<allocation, main, wal, objects, inode, found, history, crashes>>

\* open_writer turns WAL mode on, the schema is committed to a new journal and
\* finish_open pins that journal.
CommitSchema ==
    /\ At("provisioning")
    /\ objects' = objects + 1
    /\ inode' = [object |-> objects', content |-> <<>>]
    /\ wal' = inode'
    /\ committed' = <<>>
    /\ pc' = "provisioned"
    /\ UNCHANGED <<allocation, witness, main, found, verdict, crashes>>

FinishProvision ==
    /\ At("provisioned")
    /\ Pinned
    /\ HeadIs(inode.content, witness.pending.after)
    /\ witness' = Adopted(witness)
    /\ pc' = "opened"
    /\ UNCHANGED <<allocation, main, wal, objects, inode, found, history, crashes>>

---------------------------------------------------------------------------
(* Opening an original that exists *)

\* Whether the main file alone is to be believed.
MainProof ==
    \/ witness.phase \in {"Clean", "Closing"} /\ wal = None
    \/ witness.phase = "PreparingOpen" /\ witness.journal = None

\* The journal at the path is the one the witness knows, as far as the
\* phase requires one.
JournalProof ==
    \/ MainProof
    \/ witness.phase = "Preparing"
    \/ witness.phase = "Clean" /\ ObjectOf(wal) = witness.journal
    \/ /\ witness.phase \in {"Live", "Closing", "PreparingOpen"}
       /\ witness.journal # None
       /\ ObjectOf(wal) = witness.journal

Inspected == IF MainProof THEN main ELSE Visible

\* What the pending mutation says and what the copy holds agree.
PendingFits(content) ==
    witness.pending.request = Provision
    \/ Holds(content, witness.pending.request)
           = HeadIs(content, witness.pending.after)

\* Mutant: a miss of a possible commit is taken for a noncommit.
ResolvedByAbort(content) ==
    IF witness.pending = None
      THEN IF HeadIs(content, witness.cut) THEN {witness} ELSE {}
    ELSE IF HeadIs(content, witness.cut) THEN {Released(witness)}
    ELSE IF HeadIs(content, witness.pending.after) THEN {Adopted(witness)} ELSE {}

\* Mutant: a possible commit is adopted without looking.
ResolvedByTrust(content) ==
    IF witness.pending = None
      THEN IF HeadIs(content, witness.cut) THEN {witness} ELSE {}
    ELSE IF witness.pending.stage = "Prepared"
      THEN IF HeadIs(content, witness.cut) THEN {Released(witness)} ELSE {}
    ELSE {Adopted(witness)}

\* The witness once its pending mutation is decided by the inspected cut;
\* there is none when the cut is not the one it must be.
Resolved(content) ==
    IF witness.pending = None
      THEN IF HeadIs(content, witness.cut) THEN {witness} ELSE {}
    ELSE IF ~PendingFits(content) THEN {}
    ELSE IF witness.pending.stage = "Prepared"
      THEN IF HeadIs(content, witness.cut) THEN {Released(witness)} ELSE {}
    ELSE IF HeadIs(content, witness.pending.after) THEN {Adopted(witness)} ELSE {}

\* inspect and resolve_cut; the copy is compared with its source to the end,
\* and what becomes of the journal afterwards is not looked at again here.
Inspect ==
    /\ At("down")
    /\ witness # None
    /\ JournalProof
    /\ Readable(Inspected)
    /\ witness' \in Resolved(Inspected)
    /\ found' = ObjectOf(wal)
    /\ pc' = IF MainProof THEN "mainProven" ELSE "proven"
    /\ UNCHANGED <<allocation, main, wal, objects, inode, history, crashes>>

\* Mutant: the close is completed on any proof.
CompleteCloseAnyway ==
    /\ pc \in {"mainProven", "proven"}
    /\ witness.phase = "Closing"
    /\ witness' = [witness EXCEPT !.phase = "Clean"]
    /\ UNCHANGED <<allocation, main, wal, objects, process, history, crashes>>

\* A close that was interrupted is completed by the same proof.
CompleteClose ==
    /\ At("mainProven")
    /\ witness.phase = "Closing"
    /\ witness' = [witness EXCEPT !.phase = "Clean"]
    /\ UNCHANGED <<allocation, main, wal, objects, process, history, crashes>>

\* Mutant: a close that was interrupted early is never opened again.
PublishOpeningUnlessClosing ==
    /\ pc \in {"proven", "mainProven"}
    /\ witness.phase # "Closing"
    /\ witness' = [witness EXCEPT !.phase = "PreparingOpen", !.journal = found]
    /\ pc' = "opening"
    /\ UNCHANGED <<allocation, main, wal, objects, inode, found, history, crashes>>

PublishOpening ==
    /\ At("proven") \/ (At("mainProven") /\ witness.phase # "Closing")
    /\ witness' = [witness EXCEPT !.phase = "PreparingOpen", !.journal = found]
    /\ pc' = "opening"
    /\ UNCHANGED <<allocation, main, wal, objects, inode, found, history, crashes>>

\* SQLite opens the journal at the path, or makes one over the main file; the
\* pin of finish_open is part of the step.
OpenWriter ==
    /\ At("opening")
    /\ IF wal = None
         THEN /\ objects' = objects + 1
              /\ wal' = [object |-> objects', content |-> main]
         ELSE UNCHANGED <<objects, wal>>
    /\ inode' = wal'
    /\ pc' = "opened"
    /\ UNCHANGED <<allocation, witness, main, found, history, crashes>>

\* Mutant: the proof of the copy is believed of the writer.
HeadBelieved == Readable(inode.content)

\* The head the writer sees is the witness's cut.
HeadConfirmed == HeadIs(inode.content, witness.cut)

PublishLive ==
    /\ At("opened")
    /\ Pinned
    /\ HeadConfirmed
    /\ witness' = [witness EXCEPT !.phase = "Live", !.journal = wal.object]
    /\ found' = None
    /\ pc' = "live"
    /\ UNCHANGED <<allocation, main, wal, objects, inode, history, crashes>>

\* Opening or provisioning stops at a check that fails.
GiveUpOpening ==
    /\ \/ At("opened") /\ ~(Pinned /\ HeadConfirmed)
       \/ At("provisioned") /\ ~Pinned
    /\ pc' = "fenced"
    /\ UNCHANGED <<persistent, inode, found, history, crashes>>

---------------------------------------------------------------------------
(* A live store *)

\* live(): the pins hold and the head is the witness's cut.
Sound == Pinned /\ HeadConfirmed

\* Any call on a store that is no longer sound fences it for good.
Detect ==
    /\ At("live")
    /\ ~Sound
    /\ pc' = "fenced"
    /\ UNCHANGED <<persistent, inode, found, history, crashes>>

\* Mutant: a retry is not recognised.
FreshOrNot(r) == TRUE

\* submit_inner resolves an operation the store holds and appends no other.
Fresh(r) == ~Holds(inode.content, r)

\* accept and the first publication of mutate.  An operation the store holds
\* is answered by Retry instead.
Prepare(r) ==
    /\ At("live") /\ Sound
    /\ Fresh(r)
    /\ witness' = [witness EXCEPT !.pending =
                      [stage   |-> "Prepared", request |-> r,
                       after   |-> Advanced(witness.cut, r)]]
    /\ verdict' = [verdict EXCEPT ![r] = "asked"]
    /\ pc' = "prepared"
    /\ UNCHANGED <<allocation, main, wal, objects, inode, found, committed, crashes>>

\* Mutant: the witness says so only after the COMMIT.
DeclareCommitLater ==
    /\ At("prepared")
    /\ Sound
    /\ pc' = "possible"
    /\ UNCHANGED <<persistent, inode, found, history, crashes>>

\* The rows are written inside the transaction; then the witness says that
\* the commit may have happened.
DeclareCommit ==
    /\ At("prepared")
    /\ Sound
    /\ witness' = Possible(witness)
    /\ pc' = "possible"
    /\ UNCHANGED <<allocation, main, wal, objects, inode, found, history, crashes>>

Commit ==
    /\ At("possible")
    /\ inode' = [inode EXCEPT !.content = Append(@, witness.pending.request)]
    /\ wal' = IF Pinned THEN inode' ELSE wal
    /\ committed' = Append(committed, witness.pending.request)
    /\ pc' = "committed"
    /\ UNCHANGED <<allocation, witness, main, objects, found, verdict, crashes>>

Finalize ==
    /\ At("committed")
    /\ Pinned
    /\ HeadIs(inode.content, witness.pending.after)
    /\ witness' = Adopted(witness)
    /\ found' = witness.pending.request
    /\ pc' = "final"
    /\ UNCHANGED <<allocation, main, wal, objects, inode, history, crashes>>

Report ==
    /\ At("final")
    /\ verdict' = [verdict EXCEPT ![found] = "accepted"]
    /\ found' = None
    /\ pc' = "live"
    /\ UNCHANGED <<persistent, inode, committed, crashes>>

\* A check of mutate fails, or any call it makes does: a publication may have
\* happened, the transaction is rolled back or its commit is not known.
FailMutation ==
    /\ pc \in {"prepared", "possible", "committed", "final"}
    /\ pc' = "fenced"
    /\ found' = None
    /\ UNCHANGED <<persistent, inode, history, crashes>>

\* submit and resolve_original of an operation the store holds.
Retry(r) ==
    /\ At("live") /\ Sound
    /\ Holds(inode.content, r)
    /\ verdict' = [verdict EXCEPT ![r] = "accepted"]
    /\ UNCHANGED <<persistent, process, committed, crashes>>

\* resolve_original of an operation the store does not hold.
ResolveAbsent(r) ==
    /\ At("live") /\ Sound
    /\ ~Holds(inode.content, r)
    /\ verdict' = [verdict EXCEPT ![r] = "absent"]
    /\ UNCHANGED <<persistent, process, committed, crashes>>

\* A checkpoint copies pages; until the last one is copied the main file
\* alone is nothing.
BeginCheckpoint ==
    /\ At("live") /\ Sound
    /\ main # inode.content
    /\ main' = Torn
    /\ pc' = "checkpointing"
    /\ UNCHANGED <<allocation, witness, wal, objects, inode, found, history, crashes>>

\* It may report that it did not copy everything; that is no error here.
EndCheckpoint ==
    /\ At("checkpointing")
    /\ main' \in {main, inode.content}
    /\ pc' = IF Pinned THEN "live" ELSE "fenced"
    /\ UNCHANGED <<allocation, witness, wal, objects, inode, found, history, crashes>>

---------------------------------------------------------------------------
(* Closing *)

BeginClose ==
    /\ At("live") /\ Sound
    /\ witness' = [witness EXCEPT !.phase = "Closing"]
    /\ pc' = "closing"
    /\ UNCHANGED <<allocation, main, wal, objects, inode, found, history, crashes>>

CopyPages ==
    /\ At("closing")
    /\ main # inode.content
    /\ main' = Torn
    /\ UNCHANGED <<allocation, witness, wal, objects, process, history, crashes>>

\* Whether a checkpoint with this result lets the close go on.
Complete(copied) == copied = inode.content

FinishCopy ==
    /\ At("closing")
    /\ \E copied \in {main, inode.content} :
         /\ Complete(copied)
         /\ Pinned
         /\ main' = copied
    /\ pc' = "copied"
    /\ UNCHANGED <<allocation, witness, wal, objects, inode, found, history, crashes>>

CloseConnection ==
    /\ At("copied")
    /\ inode' = None
    /\ pc' = "closed"
    /\ UNCHANGED <<persistent, found, history, crashes>>

\* sync, the proof of the main file, and the witness.
MainProven ==
    /\ wal = None \/ ObjectOf(wal) = witness.journal
    /\ HeadIs(main, witness.cut)

PublishClean ==
    /\ At("closed")
    /\ MainProven
    /\ witness' = [witness EXCEPT !.phase = "Clean"]
    /\ pc' = "down"
    /\ UNCHANGED <<allocation, main, wal, objects, inode, found, history, crashes>>

\* A close that fails gives the store up as it is.
GiveUpClose ==
    /\ \/ At("closing") /\ ~Pinned
       \/ At("closed") /\ ~MainProven
    /\ pc' = "fenced"
    /\ UNCHANGED <<persistent, inode, found, history, crashes>>

---------------------------------------------------------------------------
(* What happens to the process and to the files *)

\* Drop releases the connection, without a checkpoint, and then the lease.
Drop ==
    /\ At("fenced")
    /\ pc' = "down" /\ inode' = None /\ found' = None
    /\ UNCHANGED <<persistent, history, crashes>>

\* The process is killed, or an open, a provisioning or a close meets an error.
Crash ==
    /\ ~At("down")
    /\ crashes < MaxCrashes
    /\ crashes' = crashes + 1
    /\ pc' = "down" /\ inode' = None /\ found' = None
    /\ UNCHANGED <<persistent, history>>

\* Objects are numbered as they appear; one is created without damage.
LoseJournal ==
    /\ wal # None
    /\ objects <= MaxDamage
    /\ wal' = None
    /\ UNCHANGED <<allocation, witness, main, objects, process, history, crashes>>

\* An older journal of the same store is put in its place.
ReplaceJournal ==
    /\ wal # None
    /\ objects <= MaxDamage
    /\ objects' = objects + 1
    /\ \E n \in 0..Len(committed) :
         wal' = [object |-> objects', content |-> SubSeq(committed, 1, n)]
    /\ UNCHANGED <<allocation, witness, main, process, history, crashes>>

Provisioning ==
    Allocate \/ PublishFirst \/ ResumeAllocation \/ BeginProvision
        \/ CommitSchema \/ FinishProvision

Opening ==
    Inspect \/ CompleteClose \/ PublishOpening \/ OpenWriter \/ PublishLive
        \/ GiveUpOpening

Mutating == DeclareCommit \/ Commit \/ Finalize \/ Report

Closing ==
    BeginClose \/ CopyPages \/ FinishCopy \/ CloseConnection \/ PublishClean
        \/ GiveUpClose

Serving ==
    \/ \E r \in Requests : Prepare(r) \/ Retry(r) \/ ResolveAbsent(r)
    \/ BeginCheckpoint \/ EndCheckpoint \/ Detect

Environment == FailMutation \/ Drop \/ Crash \/ LoseJournal \/ ReplaceJournal

Next == Provisioning \/ Opening \/ Serving \/ Mutating \/ Closing \/ Environment

Spec == Init /\ [][Next]_vars

\* The process carries an opening through and lets go of a fenced store.
FairSpec == Spec /\ WF_vars(Opening) /\ WF_vars(Drop)

---------------------------------------------------------------------------
(* Properties *)

Places == {"down", "allocating", "allocated", "provisioning", "provisioned",
           "mainProven", "proven", "opening", "opened", "live", "prepared",
           "possible", "committed", "final", "checkpointing", "closing",
           "copied", "closed", "fenced"}

\* Every variable holds a value of its kind.
TypeOK ==
    /\ allocation \in BOOLEAN
    /\ witness \in Witnesses \cup {None}
    /\ main \in Contents
    /\ wal \in Journals \cup {None}
    /\ pc \in Places
    /\ inode \in Journals \cup {None}
    /\ found \in Nat \cup Requests \cup {None}
    /\ committed \in Seq(Requests) \cup {None}
    /\ verdict \in [Requests -> {"none", "asked", "accepted", "absent"}]
    /\ objects \in Nat
    /\ crashes \in 0..MaxCrashes

Log == IF committed = None THEN <<>> ELSE committed

Truth == IF committed = None THEN EmptyCut ELSE CutOf(committed)

\* The witness is never behind or ahead of SQLite by more than the one commit
\* it announces: what is really committed is the witness's cut, or the cut of
\* a pending mutation that was declared possible before its COMMIT
\* (backend.rs mutate, provision and resolve_cut).
WitnessBracketsTruth ==
    witness # None =>
        \/ Truth = witness.cut
        \/ PendingIs("CommitPossible") /\ Truth = witness.pending.after

\* A store goes live only over everything that was ever committed: neither a
\* missing journal nor an older one put in its place shows an older prefix
\* as current (backend.rs open and live, preflight.rs proof_journals).
LiveShowsEverything == At("live") /\ Sound => inode.content = committed

\* Once an opening has decided the pending mutation, its cut is the true one.
ProvenCutIsCurrent ==
    pc \in {"mainProven", "proven", "opening", "opened", "live"} =>
        witness.pending = None /\ witness.cut = Truth

\* A witness that says Clean needs no journal: the main file alone holds all
\* (backend.rs close: a complete PASSIVE checkpoint, a close, a proof).
CleanNeedsNoJournal ==
    witness # None /\ witness.phase = "Clean" => main = committed

\* The witness tells the truth as far as a restart relies on it: one announced
\* commit from what SQLite holds, exact once an opening decided, and sufficient
\* without a journal when it says Clean.
WitnessTellsTheTruth ==
    WitnessBracketsTruth /\ ProvenCutIsCurrent /\ CleanNeedsNoJournal

\* What callers were told holds: an operation reported accepted is in the
\* log for good; one reported not accepted is not in it, whatever attempts
\* were made of it before (original.rs submit and resolve_original).
HonestVerdicts ==
    \A r \in Requests :
        /\ verdict[r] = "accepted" => Holds(Log, r)
        /\ verdict[r] = "absent" => ~Holds(Log, r)

\* A process died after declaring a commit possible and before it: nobody
\* can know that it did not happen.
Blocked ==
    At("down") /\ PendingIs("CommitPossible") /\ Truth = witness.cut

\* There is no automatic abort: a store left so never goes live again
\* (backend.rs resolve_cut, the miss stays Indeterminate).
NoAutomaticAbort == [](Blocked => []~At("live"))

\* The operation whose pending mutation is not decided.
Attempt ==
    IF witness = None \/ witness.pending = None THEN None
    ELSE IF witness.pending.request = Provision THEN None
    ELSE witness.pending.request

\* The store keeps the promises of Ledger.
Abstract == INSTANCE Ledger WITH
    log <- Log, attempt <- Attempt, verdict <- verdict

ImplementsLedger == Abstract!Spec

\* The files hold every commit, and a journal the witness names is at its path.
Intact ==
    /\ Visible = committed
    /\ witness # None /\ witness.journal # None =>
         \/ witness.journal = ObjectOf(wal)
         \/ wal = None /\ witness.phase = "Clean"

\* A provisioned store whose files are not damaged and whose last commit is
\* not in doubt can be opened again, however often opening itself or anything
\* before it was interrupted.
OpensAgain ==
    (At("down") /\ committed # None /\ Intact /\ ~Blocked) ~> (At("live") \/ ~Intact)
=============================================================================
