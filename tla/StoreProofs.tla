---------------------------- MODULE StoreProofs ----------------------------
(***************************************************************************)
(* Proofs about Store: for any set of operations and any number of kills   *)
(* and damaged journals, a live store shows everything ever committed, a   *)
(* proven cut is the true one, Clean needs no journal and the answers the  *)
(* callers got hold.                                                       *)
(*                                                                         *)
(* The inductive invariant says, beside the types: every file holds a      *)
(* prefix of what was committed (or is unreadable), so that equal cuts     *)
(* mean equal contents; the witness brackets the truth, exactly unless a   *)
(* commit was declared possible; and for each place of the process what    *)
(* it has established by then.                                             *)
(***************************************************************************)
EXTENDS Store, TLAPS

\* A beginning of this log, or nothing that can be read.
Genuine(s, log) ==
    \/ s \in {None, Torn}
    \/ /\ s \in Seq(Requests)
       /\ Len(s) <= Len(log)
       /\ \A i \in 1..Len(s) : s[i] = log[i]

FilesAreGenuine ==
    /\ Genuine(main, Log)
    /\ wal # None => Genuine(wal.content, Log)
    /\ inode # None => Genuine(inode.content, Log)

\* Before the schema there are no files, and the witness says so.
CreationInv ==
    /\ ~allocation => witness = None /\ pc = "down"
    /\ committed = None =>
         /\ main = None /\ wal = None /\ inode = None
         /\ pc \in {"down", "allocating", "allocated", "provisioning"}
    /\ witness = None => committed = None
    /\ pc = "allocating" => witness = None
    /\ pc = "allocated" => witness = FirstWitness
    /\ pc = "provisioning" => witness = Possible(FirstWitness) /\ committed = None
    /\ pc = "provisioned" =>
         /\ witness = Possible(FirstWitness)
         /\ committed = <<>>
         /\ inode # None /\ inode.content = <<>>

\* A pending mutation follows the cut; unless it was declared possible the cut
\* is the truth.
PendingInv ==
    witness # None =>
        /\ witness.pending # None =>
             \/ /\ witness.pending.request = Provision
                /\ witness.cut = EmptyCut
                /\ witness.pending.after = CutOf(<<>>)
             \/ /\ witness.pending.request \in Requests
                /\ witness.cut.revision > 0
                /\ witness.pending.after = Advanced(witness.cut, witness.pending.request)
        /\ ~PendingIs("CommitPossible") => Truth = witness.cut

Settled == {"mainProven", "proven", "opening", "opened", "live", "final",
            "checkpointing", "closing", "copied", "closed"}

Mutations == {"prepared", "possible", "committed"}

\* What the process has established where it is.
PlaceInv ==
    /\ pc \in Settled =>
         witness # None /\ committed # None /\ witness.pending = None
    /\ pc \in Mutations =>
         /\ witness # None /\ committed # None /\ witness.pending # None
         /\ witness.pending.request \in Requests
         /\ witness.pending.stage = IF pc = "prepared" THEN "Prepared"
                                                       ELSE "CommitPossible"
    /\ pc \in Mutations \cup {"live", "final", "checkpointing", "closing", "copied"} =>
         inode # None /\ inode.content = committed
    /\ pc \in Mutations \cup {"live", "final", "checkpointing"} =>
         witness.phase = "Live"
    /\ pc \in {"closing", "copied", "closed"} => witness.phase = "Closing"
    /\ pc = "opened" => inode # None
    /\ pc = "mainProven" => main = committed
    /\ pc \in {"mainProven", "proven"} => found \in Nat \cup {None}
    /\ pc \in {"prepared", "possible"} =>
         /\ Truth = witness.cut
         /\ verdict[witness.pending.request] = "asked"
         /\ ~Holds(Log, witness.pending.request)
    /\ pc = "committed" =>
         /\ Truth = witness.pending.after
         /\ Holds(Log, witness.pending.request)
    /\ pc = "final" => found \in Requests /\ Holds(Log, found)

StoreInv ==
    /\ TypeOK
    /\ FilesAreGenuine
    /\ CreationInv
    /\ WitnessBracketsTruth
    /\ PendingInv
    /\ PlaceInv
    /\ CleanNeedsNoJournal
    /\ HonestVerdicts

---------------------------------------------------------------------------
(* Types *)

\* Facts about the helpers on witnesses and cuts.
LEMMA CutTyped ==
    ASSUME NEW s \in Seq(Requests)
    PROVE  CutOf(s) \in Cuts /\ CutOf(s).revision = Len(s) + 1
  BY DEF CutOf, Cuts

LEMMA WitnessTyped ==
    /\ FirstWitness \in Witnesses
    /\ FirstWitness.pending # None
    /\ \A w \in Witnesses : w.pending # None =>
         /\ Possible(w) \in Witnesses /\ Possible(w).pending # None
         /\ Adopted(w) \in Witnesses
         /\ Released(w) \in Witnesses
  <1>1. CutOf(<<>>) \in Cuts
    <2>1. <<>> \in Seq(Requests)
      OBVIOUS
    <2> QED
      BY <2>1, CutTyped
  <1>2. EmptyCut \in Cuts
    BY DEF EmptyCut, Cuts
  <1>3. FirstWitness \in Witnesses
    BY <1>1, <1>2 DEF FirstWitness, Witnesses, Pendings, Phases
  <1>5. FirstWitness.pending # None
    BY <1>1, NoneAssumption DEF FirstWitness, Pendings
  <1>4. ASSUME NEW w \in Witnesses, w.pending # None
        PROVE  /\ Possible(w) \in Witnesses /\ Possible(w).pending # None
               /\ Adopted(w) \in Witnesses
               /\ Released(w) \in Witnesses
    <2>1. Possible(w).pending \in Pendings
      BY <1>4 DEF Possible, Witnesses, Pendings
    <2>2. Possible(w) \in Witnesses
      BY <1>4, <2>1 DEF Possible, Witnesses
    <2>3. Adopted(w) \in Witnesses /\ Released(w) \in Witnesses
      BY <1>4 DEF Adopted, Released, Witnesses, Pendings
    <2> QED
      BY <2>1, <2>2, <2>3, NoneAssumption
  <1> QED
    BY <1>3, <1>4, <1>5

\* The fields of a witness once its pending mutation is decided or declared.
LEMMA Decided ==
    ASSUME NEW w \in Witnesses, w.pending # None
    PROVE  /\ Adopted(w).phase = w.phase /\ Adopted(w).pending = None
           /\ Adopted(w).cut = w.pending.after
           /\ Released(w).phase = w.phase /\ Released(w).pending = None
           /\ Released(w).cut = w.cut
           /\ Possible(w).phase = w.phase /\ Possible(w).cut = w.cut
           /\ Possible(w).pending.stage = "CommitPossible"
           /\ Possible(w).pending.request = w.pending.request
           /\ Possible(w).pending.after = w.pending.after
  BY DEF Adopted, Released, Possible, Witnesses, Pendings

LEMMA InitType == Init => TypeOK
  <1> SUFFICES ASSUME Init PROVE TypeOK
    OBVIOUS
  <1>1. verdict \in [Requests -> {"none", "asked", "accepted", "absent"}]
    BY DEF Init
  <1>2. crashes \in 0..MaxCrashes
    BY StoreAssumption DEF Init
  <1> QED
    BY <1>1, <1>2 DEF Init, TypeOK, Contents, Places

LEMMA ProvisioningType == StoreInv /\ Provisioning => TypeOK'
  <1> SUFFICES ASSUME TypeOK, CreationInv, Provisioning PROVE TypeOK'
    BY DEF StoreInv
  <1> USE DEF TypeOK, Places
  <1>1. CASE Allocate
    BY <1>1 DEF Allocate, history
  <1>2. CASE PublishFirst
    BY <1>2, WitnessTyped DEF PublishFirst, history
  <1>3. CASE ResumeAllocation
    BY <1>3 DEF ResumeAllocation, history, persistent
  <1>4. CASE BeginProvision
    <2>1. witness = FirstWitness
      BY <1>4 DEF BeginProvision, CreationInv, At
    <2> QED
      BY <1>4, <2>1, WitnessTyped DEF BeginProvision, history
  <1>5. CASE CommitSchema
    BY <1>5 DEF CommitSchema, Journals, Contents
  <1>6. CASE FinishProvision
    <2>1. witness = Possible(FirstWitness)
      BY <1>6 DEF FinishProvision, CreationInv, At
    <2>2. Possible(FirstWitness).pending # None
      BY WitnessTyped
    <2>3. witness' \in Witnesses
      BY <1>6, <2>1, <2>2, WitnessTyped DEF FinishProvision
    <2> QED
      BY <1>6, <2>3 DEF FinishProvision, history
  <1> QED
    BY <1>1, <1>2, <1>3, <1>4, <1>5, <1>6 DEF Provisioning

LEMMA OpeningType == StoreInv /\ Opening => TypeOK'
  <1> SUFFICES ASSUME TypeOK, PlaceInv, Opening PROVE TypeOK'
    BY DEF StoreInv
  <1> USE DEF TypeOK, Places
  <1>0. ASSUME wal # None PROVE ObjectOf(wal) \in Nat
    BY <1>0 DEF ObjectOf, Journals
  <1>1. CASE Inspect
    <2>1. witness' \in Witnesses
      BY <1>1, WitnessTyped DEF Inspect, Resolved
    <2>2. found' \in Nat \cup {None}
      BY <1>0, <1>1 DEF Inspect, ObjectOf
    <2> QED
      BY <1>1, <2>1, <2>2 DEF Inspect, history
  <1>2. CASE CompleteClose
    BY <1>2 DEF PlaceInv, Settled, At, CompleteClose, history, process, Witnesses, Phases
  <1>3. CASE PublishOpening
    <2>1. witness \in Witnesses /\ found \in Nat \cup {None}
      BY <1>3 DEF PublishOpening, At, PlaceInv, Settled
    <2>2. witness' \in Witnesses
      BY <1>3, <2>1 DEF PublishOpening, Witnesses, Phases
    <2> QED
      BY <1>3, <2>2 DEF PublishOpening, history
  <1>4. CASE OpenWriter
    BY <1>4 DEF OpenWriter, history, Journals
  <1>5. CASE PublishLive
    <2>1. wal.object \in Nat
      BY <1>5 DEF PublishLive, Pinned, Journals
    <2>2. witness \in Witnesses
      BY <1>5 DEF PublishLive, At, PlaceInv, Settled
    <2>3. witness' \in Witnesses
      BY <1>5, <2>1, <2>2 DEF PublishLive, Witnesses, Phases
    <2> QED
      BY <1>5, <2>3 DEF PublishLive, history
  <1>6. CASE GiveUpOpening
    BY <1>6 DEF GiveUpOpening, history, persistent
  <1> QED
    BY <1>1, <1>2, <1>3, <1>4, <1>5, <1>6 DEF Opening

LEMMA ServingType == StoreInv /\ Serving => TypeOK'
  <1> SUFFICES ASSUME TypeOK, PlaceInv, Serving PROVE TypeOK'
    BY DEF StoreInv
  <1> USE DEF TypeOK, Places
  <1>1. ASSUME NEW r \in Requests, Prepare(r) PROVE TypeOK'
    <2>1. witness \in Witnesses
      BY <1>1 DEF Prepare, At, PlaceInv, Settled
    <2>2. Advanced(witness.cut, r) \in Cuts
      BY <2>1 DEF Advanced, Witnesses, Cuts
    <2>3. witness' \in Witnesses
      BY <1>1, <2>1, <2>2 DEF Prepare, Witnesses, Pendings
    <2> QED
      BY <1>1, <2>3 DEF Prepare
  <1>2. ASSUME NEW r \in Requests, Retry(r) PROVE TypeOK'
    BY <1>2 DEF Retry, persistent, process
  <1>3. ASSUME NEW r \in Requests, ResolveAbsent(r) PROVE TypeOK'
    BY <1>3 DEF ResolveAbsent, persistent, process
  <1>4. CASE BeginCheckpoint
    BY <1>4 DEF BeginCheckpoint, history, Contents
  <1>5. CASE EndCheckpoint
    <2>1. inode.content \in Contents
      BY <1>5 DEF EndCheckpoint, At, PlaceInv, Journals
    <2> QED
      BY <1>5, <2>1 DEF EndCheckpoint, history
  <1>6. CASE Detect
    BY <1>6 DEF Detect, history, persistent
  <1> QED
    BY <1>1, <1>2, <1>3, <1>4, <1>5, <1>6 DEF Serving

LEMMA MutatingType == StoreInv /\ Mutating => TypeOK'
  <1> SUFFICES ASSUME TypeOK, PlaceInv, Mutating PROVE TypeOK'
    BY DEF StoreInv
  <1> USE DEF TypeOK, Places
  <1>1. CASE DeclareCommit
    <2>1. witness \in Witnesses /\ witness.pending # None
      BY <1>1 DEF DeclareCommit, At, PlaceInv, Mutations
    <2> QED
      BY <1>1, <2>1, WitnessTyped DEF DeclareCommit, history
  <1>2. CASE Commit
    <2>1. /\ witness.pending.request \in Requests
          /\ committed \in Seq(Requests)
          /\ inode \in Journals /\ inode.content = committed
      BY <1>2 DEF Commit, At, PlaceInv, Mutations
    <2>2. committed' \in Seq(Requests)
      BY <1>2, <2>1 DEF Commit
    <2>3. inode' = [inode EXCEPT !.content = committed']
      BY <1>2, <2>1 DEF Commit
    <2> QED
      BY <1>2, <2>1, <2>2, <2>3 DEF Commit, Journals, Contents
  <1>3. CASE Finalize
    <2>1. /\ witness \in Witnesses /\ witness.pending # None
          /\ witness.pending.request \in Requests
      BY <1>3 DEF Finalize, At, PlaceInv, Mutations
    <2> QED
      BY <1>3, <2>1, WitnessTyped DEF Finalize, history
  <1>4. CASE Report
    BY <1>4 DEF Report, persistent
  <1> QED
    BY <1>1, <1>2, <1>3, <1>4 DEF Mutating

LEMMA ClosingType == StoreInv /\ Closing => TypeOK'
  <1> SUFFICES ASSUME TypeOK, PlaceInv, Closing PROVE TypeOK'
    BY DEF StoreInv
  <1> USE DEF TypeOK, Places
  <1>1. CASE BeginClose
    <2>1. witness \in Witnesses
      BY <1>1 DEF BeginClose, At, PlaceInv, Settled
    <2> QED
      BY <1>1, <2>1 DEF BeginClose, history, Witnesses, Phases
  <1>2. CASE CopyPages
    BY <1>2 DEF CopyPages, history, process, Contents
  <1>3. CASE FinishCopy
    <2>1. inode.content \in Contents
      BY <1>3 DEF FinishCopy, At, PlaceInv, Journals
    <2> QED
      BY <1>3, <2>1 DEF FinishCopy, history
  <1>4. CASE CloseConnection
    BY <1>4 DEF CloseConnection, history, persistent
  <1>5. CASE PublishClean
    <2>1. witness \in Witnesses
      BY <1>5 DEF PublishClean, At, PlaceInv, Settled
    <2> QED
      BY <1>5, <2>1 DEF PublishClean, history, Witnesses, Phases
  <1>6. CASE GiveUpClose
    BY <1>6 DEF GiveUpClose, history, persistent
  <1> QED
    BY <1>1, <1>2, <1>3, <1>4, <1>5, <1>6 DEF Closing

LEMMA PrefixTyped ==
    ASSUME NEW s \in Seq(Requests), NEW n \in 0..Len(s)
    PROVE  /\ SubSeq(s, 1, n) \in Seq(Requests)
           /\ Len(SubSeq(s, 1, n)) = n
           /\ \A i \in 1..n : SubSeq(s, 1, n)[i] = s[i]
  OBVIOUS

LEMMA EnvironmentType == StoreInv /\ Environment => TypeOK'
  <1> SUFFICES ASSUME TypeOK, CreationInv, Environment PROVE TypeOK'
    BY DEF StoreInv
  <1> USE DEF TypeOK, Places
  <1>1. CASE FailMutation
    BY <1>1 DEF FailMutation, history, persistent
  <1>2. CASE Drop
    BY <1>2 DEF Drop, history, persistent
  <1>3. CASE Crash
    BY <1>3, StoreAssumption DEF Crash, history, persistent
  <1>4. CASE LoseJournal
    BY <1>4 DEF LoseJournal, history, process
  <1>5. CASE ReplaceJournal
    <2>1. committed \in Seq(Requests)
      BY <1>5 DEF ReplaceJournal, CreationInv
    <2>2. wal' \in Journals
      BY <1>5, <2>1, PrefixTyped DEF ReplaceJournal, Journals, Contents
    <2> QED
      BY <1>5, <2>2 DEF ReplaceJournal, history, process
  <1> QED
    BY <1>1, <1>2, <1>3, <1>4, <1>5 DEF Environment

LEMMA StepType == StoreInv /\ [Next]_vars => TypeOK'
  <1>1. StoreInv /\ UNCHANGED vars => TypeOK'
    BY DEF StoreInv, TypeOK, vars, persistent, process, history
  <1> QED
    BY <1>1, ProvisioningType, OpeningType, ServingType, MutatingType,
       ClosingType, EnvironmentType DEF Next

---------------------------------------------------------------------------
(* Files *)

LEMMA EmptyIsContent == <<>> \in Seq(Requests) /\ <<>> # None
  <1>1. <<>> \in Seq(Requests)
    OBVIOUS
  <1> QED
    BY <1>1, NoneAssumption

LEMMA LogTyped == TypeOK => Log \in Seq(Requests)
  BY DEF TypeOK, Log

\* Equal cuts mean equal contents.
LEMMA SameCut ==
    ASSUME NEW log \in Seq(Requests), NEW s, Genuine(s, log), HeadIs(s, CutOf(log))
    PROVE  s = log
  <1>1. s \in Seq(Requests)
    BY DEF Genuine, HeadIs, Readable
  <1>2. Len(s) = Len(log)
    BY <1>1, CutTyped DEF HeadIs
  <1>3. \A i \in 1..Len(s) : s[i] = log[i]
    BY <1>1, NoneAssumption DEF Genuine
  <1> QED
    BY <1>1, <1>2, <1>3

LEMMA GenuineGrows ==
    ASSUME NEW log \in Seq(Requests), NEW r \in Requests, NEW s, Genuine(s, log)
    PROVE  Genuine(s, Append(log, r))
  BY DEF Genuine

LEMMA GenuinePrefix ==
    ASSUME NEW log \in Seq(Requests)
    PROVE  /\ Genuine(log, log)
           /\ \A n \in 0..Len(log) : Genuine(SubSeq(log, 1, n), log)
  BY PrefixTyped DEF Genuine

\* The steps that touch no file.
Quiet == UNCHANGED <<main, wal, inode, committed>>

LEMMA QuietSteps ==
    \/ Allocate \/ PublishFirst \/ ResumeAllocation \/ BeginProvision
    \/ FinishProvision
    \/ Inspect \/ CompleteClose \/ PublishOpening \/ PublishLive
    \/ GiveUpOpening
    \/ (\E r \in Requests : Prepare(r) \/ Retry(r) \/ ResolveAbsent(r))
    \/ Detect
    \/ DeclareCommit \/ Finalize \/ Report
    \/ BeginClose \/ PublishClean \/ GiveUpClose
    \/ FailMutation
    => Quiet
  BY DEF Quiet, Allocate, PublishFirst, ResumeAllocation, BeginProvision,
         FinishProvision, Inspect, CompleteClose, PublishOpening, PublishLive,
         GiveUpOpening, Prepare, Retry, ResolveAbsent, Detect, DeclareCommit,
         Finalize, Report, BeginClose, PublishClean, GiveUpClose, FailMutation,
         persistent, process, history

LEMMA FilesStep == StoreInv /\ Next => FilesAreGenuine'
  <1> SUFFICES ASSUME StoreInv, Next PROVE FilesAreGenuine'
    OBVIOUS
  <1>0. /\ Log \in Seq(Requests)
        /\ FilesAreGenuine
        /\ committed # None => Log = committed
        /\ UNCHANGED committed => Log' = Log
    BY LogTyped DEF StoreInv, Log
  <1> USE DEF FilesAreGenuine
  <1>1. CASE Quiet
    BY <1>0, <1>1 DEF Quiet
  <1>2. CASE CommitSchema
    <2>1. main = None /\ Log' = <<>>
      BY <1>2 DEF CommitSchema, At, StoreInv, CreationInv, Log
    <2>2. Genuine(main, <<>>) /\ Genuine(<<>>, <<>>)
      BY <2>1 DEF Genuine
    <2> QED
      BY <1>2, <2>1, <2>2 DEF CommitSchema
  <1>3. CASE OpenWriter
    BY <1>0, <1>3 DEF OpenWriter, history
  <1>4. CASE Commit
    <2> DEFINE q == witness.pending.request
    <2>1. /\ q \in Requests /\ committed # None /\ inode # None
          /\ inode.content = committed /\ inode \in Journals
      BY <1>4 DEF Commit, At, StoreInv, PlaceInv, Mutations, TypeOK
    <2>2. committed' = Append(Log, q) /\ Log' = Append(Log, q)
      BY <1>0, <1>4, <2>1, NoneAssumption, SMTT(20) DEF Commit, Log
    <2>3. inode'.content = Log'
      BY <1>0, <1>4, <2>1, <2>2 DEF Commit, Journals
    <2>4. Genuine(inode'.content, Log')
      <3>1. Log' \in Seq(Requests)
        BY <1>0, <2>1, <2>2
      <3> QED
        BY <2>3, <3>1, GenuinePrefix
    <2>5. Genuine(main, Log') /\ (wal # None => Genuine(wal.content, Log'))
      BY <1>0, <2>1, <2>2, GenuineGrows
    <2> QED
      BY <1>4, <2>4, <2>5 DEF Commit
  <1>5. CASE BeginCheckpoint \/ CopyPages
    BY <1>0, <1>5 DEF BeginCheckpoint, CopyPages, history, process, Genuine
  <1>6. CASE EndCheckpoint \/ FinishCopy
    <2>1. inode # None
      BY <1>6 DEF EndCheckpoint, FinishCopy, At, StoreInv, PlaceInv
    <2> QED
      BY <1>0, <1>6, <2>1 DEF EndCheckpoint, FinishCopy, history
  <1>7. CASE CloseConnection \/ Drop \/ Crash
    BY <1>0, <1>7 DEF CloseConnection, Drop, Crash, history, persistent
  <1>8. CASE LoseJournal
    BY <1>0, <1>8 DEF LoseJournal, history, process
  <1>9. CASE ReplaceJournal
    <2>1. committed # None
      BY <1>9 DEF ReplaceJournal, StoreInv, CreationInv
    <2> QED
      BY <1>0, <1>9, <2>1, GenuinePrefix DEF ReplaceJournal, history, process
  <1> QED
    BY QuietSteps, <1>1, <1>2, <1>3, <1>4, <1>5, <1>6, <1>7, <1>8, <1>9
    DEF Next, Provisioning, Opening, Serving, Mutating, Closing, Environment

---------------------------------------------------------------------------
(* Creation *)

\* Once the schema is committed the witness is past its first form.
LEMMA NotFirst ==
    ASSUME StoreInv, committed # None
    PROVE  witness # None /\ witness # FirstWitness
  <1>1. witness # None
    BY DEF StoreInv, CreationInv
  <1>2. Truth.revision > 0
    BY CutTyped DEF Truth, StoreInv, TypeOK
  <1>3. ASSUME witness = FirstWitness PROVE FALSE
    <2>1. ~PendingIs("CommitPossible") /\ witness.cut = EmptyCut
      BY <1>3, WitnessTyped DEF FirstWitness, PendingIs
    <2> QED
      BY <1>1, <1>2, <2>1 DEF StoreInv, PendingInv, EmptyCut
  <1> QED
    BY <1>1, <1>3

\* What a step does to the witness.
Rephased == witness \in Witnesses /\ witness' \in Witnesses
              /\ witness'.cut = witness.cut
              /\ witness'.pending = witness.pending

LEMMA PhaseSteps ==
    ASSUME StoreInv
    PROVE  /\ CompleteClose => Rephased /\ witness'.phase = "Clean"
           /\ PublishOpening => Rephased /\ witness'.phase = "PreparingOpen"
           /\ PublishLive => Rephased /\ witness'.phase = "Live"
           /\ BeginClose => Rephased /\ witness'.phase = "Closing"
           /\ PublishClean => Rephased /\ witness'.phase = "Clean"
  <1>1. pc \in Settled => witness \in Witnesses
    BY DEF StoreInv, PlaceInv, TypeOK
  <1>3. PublishOpening => found \in Nat \cup {None}
    BY DEF StoreInv, PlaceInv, PublishOpening, At
  <1>4. PublishLive => wal.object \in Nat
    BY DEF StoreInv, TypeOK, Journals, PublishLive, Pinned
  <1> USE DEF Rephased, Settled, At
  <1>5. CompleteClose => Rephased /\ witness'.phase = "Clean"
    BY <1>1 DEF Witnesses, Phases, CompleteClose
  <1>6. PublishOpening => Rephased /\ witness'.phase = "PreparingOpen"
    BY <1>1, <1>3 DEF Witnesses, Phases, PublishOpening
  <1>7. PublishLive => Rephased /\ witness'.phase = "Live"
    BY <1>1, <1>4 DEF Witnesses, Phases, PublishLive
  <1>8. BeginClose => Rephased /\ witness'.phase = "Closing"
    BY <1>1 DEF Witnesses, Phases, BeginClose
  <1>9. PublishClean => Rephased /\ witness'.phase = "Clean"
    BY <1>1 DEF Witnesses, Phases, PublishClean
  <1> QED
    BY <1>5, <1>6, <1>7, <1>8, <1>9

LEMMA PendingSteps ==
    ASSUME StoreInv
    PROVE  /\ BeginProvision \/ DeclareCommit =>
                witness \in Witnesses /\ witness.pending # None
                  /\ witness' = Possible(witness)
           /\ FinishProvision \/ Finalize =>
                witness \in Witnesses /\ witness.pending # None
                  /\ witness' = Adopted(witness)
  BY WitnessTyped
  DEF StoreInv, CreationInv, PlaceInv, Mutations, TypeOK, At, BeginProvision,
      DeclareCommit, FinishProvision, Finalize

LEMMA PrepareStep ==
    ASSUME StoreInv, NEW r \in Requests, Prepare(r)
    PROVE  /\ witness \in Witnesses /\ witness' \in Witnesses
           /\ witness'.phase = witness.phase /\ witness'.cut = witness.cut
           /\ witness'.pending # None
           /\ witness'.pending.stage = "Prepared"
           /\ witness'.pending.request = r
           /\ witness'.pending.after = Advanced(witness.cut, r)
  <1>1. witness \in Witnesses
    BY DEF StoreInv, PlaceInv, Settled, TypeOK, At, Prepare
  <1>2. Advanced(witness.cut, r) \in Cuts
    BY <1>1 DEF Advanced, Witnesses, Cuts
  <1>3. [stage   |-> "Prepared", request |-> r,
         after   |-> Advanced(witness.cut, r)] \in Pendings
    BY <1>2 DEF Pendings
  <1>4. witness' \in Witnesses
    BY <1>1, <1>3 DEF Prepare, Witnesses
  <1>5. /\ witness'.phase = witness.phase /\ witness'.cut = witness.cut
        /\ witness'.pending = [stage   |-> "Prepared", request |-> r,
                               after   |-> Advanced(witness.cut, r)]
    BY <1>1 DEF Prepare, Witnesses
  <1> QED
    BY <1>1, <1>3, <1>4, <1>5, NoneAssumption

\* A proof of the files decides the pending mutation as it really went.
LEMMA InspectStep ==
    ASSUME StoreInv, Inspect
    PROVE  /\ committed # None
           /\ witness' \in Witnesses /\ witness'.phase = witness.phase
           /\ witness'.pending = None /\ witness'.cut = Truth
           /\ MainProof => main = committed
  <1>1. witness \in Witnesses /\ Readable(Inspected)
    BY DEF StoreInv, TypeOK, Inspect
  <1>2. committed # None
    BY <1>1 DEF StoreInv, CreationInv, Inspected, Visible, Readable
  <1>3. /\ Log = committed /\ Truth = CutOf(Log) /\ Log \in Seq(Requests)
        /\ Genuine(Inspected, Log)
    BY <1>2, LogTyped
    DEF Log, Truth, StoreInv, FilesAreGenuine, Inspected, Visible
  <1> DEFINE Known == /\ witness' \in Witnesses
                      /\ witness'.phase = witness.phase
                      /\ witness'.pending = None /\ witness'.cut = Truth
                      /\ HeadIs(Inspected, witness'.cut)
  <1>4. ASSUME witness.pending = None PROVE Known
    <2>1. witness' = witness /\ HeadIs(Inspected, witness.cut)
      BY <1>4 DEF Resolved, Inspect
    <2>2. Truth = witness.cut
      BY <1>1, <1>4, NoneAssumption DEF StoreInv, PendingInv, PendingIs
    <2> QED
      BY <1>1, <1>4, <2>1, <2>2
  <1>5. ASSUME witness.pending # None, witness.pending.stage = "Prepared"
        PROVE  Known
    <2>1. witness' = Released(witness) /\ HeadIs(Inspected, witness.cut)
      BY <1>5 DEF Resolved, Inspect
    <2>2. Truth = witness.cut
      BY <1>1, <1>5, NoneAssumption DEF StoreInv, PendingInv, PendingIs
    <2> QED
      BY <1>1, <1>5, <2>1, <2>2, WitnessTyped, Decided
  <1>6. ASSUME witness.pending # None, witness.pending.stage # "Prepared"
        PROVE  Known
    <2>1. /\ witness' = Adopted(witness)
          /\ HeadIs(Inspected, witness.pending.after)
      BY <1>6 DEF Resolved, Inspect
    <2>2. witness.cut.revision \in Nat
            /\ witness.pending.after.revision = witness.cut.revision + 1
      <3>1. CutOf(<<>>).revision = 1
        BY DEF CutOf
      <3>2. witness.cut.revision \in Nat
        BY <1>1 DEF Witnesses, Cuts
      <3> QED
        BY <1>1, <1>6, <3>1, <3>2, NoneAssumption
        DEF StoreInv, PendingInv, EmptyCut, Advanced
    <2>3. Len(Inspected) <= Len(Log) /\ Inspected \in Seq(Requests)
      BY <1>1, <1>3 DEF Genuine, Readable
    <2>4. witness.pending.after.revision = Len(Inspected) + 1
      BY <2>1, <2>3, CutTyped DEF HeadIs
    <2>5. Truth.revision = Len(Log) + 1 /\ Len(Log) \in Nat
      BY <1>3, CutTyped
    <2>6. Truth # witness.cut
      BY <2>2, <2>3, <2>4, <2>5
    <2>7. Truth = witness.pending.after
      BY <1>1, <2>6, NoneAssumption DEF StoreInv, WitnessBracketsTruth
    <2> QED
      BY <1>1, <1>6, <2>1, <2>7, WitnessTyped, Decided
  <1>7. Known
    BY <1>4, <1>5, <1>6
  <1>8. MainProof => main = committed
    BY <1>3, <1>7, SameCut DEF Inspected
  <1> QED
    BY <1>2, <1>7, <1>8

LEMMA CreationStep == StoreInv /\ Next => CreationInv'
  <1> SUFFICES ASSUME StoreInv, Next PROVE CreationInv'
    OBVIOUS
  <1>0. TypeOK /\ CreationInv
    BY DEF StoreInv
  <1> USE DEF CreationInv, At
  <1>1. CASE committed = None
    <2>1. \/ Allocate \/ PublishFirst \/ ResumeAllocation \/ BeginProvision
          \/ CommitSchema \/ Crash
      <3>1. ~Inspect
        BY <1>0, <1>1 DEF Inspect, Inspected, Visible, Readable
      <3>2. wal = None /\ pc \in {"down", "allocating", "allocated", "provisioning"}
        BY <1>0, <1>1
      <3>3. ~Opening /\ ~Mutating /\ ~Closing
        BY <3>1, <3>2 DEF Opening, CompleteClose, PublishOpening, OpenWriter,
           PublishLive, GiveUpOpening, Mutating, DeclareCommit, Commit, Finalize,
           Report, Closing, BeginClose, CopyPages, FinishCopy, CloseConnection,
           PublishClean, GiveUpClose
      <3>4. ~Serving
        BY <3>2 DEF Serving, Prepare, Retry, ResolveAbsent, BeginCheckpoint,
           EndCheckpoint, Detect
      <3> QED
        BY <3>2, <3>3, <3>4 DEF Next, Provisioning, FinishProvision,
           Environment, FailMutation, Drop, LoseJournal, ReplaceJournal
    <2>2. CASE Allocate
      BY <1>0, <1>1, <2>2 DEF Allocate, history
    <2>3. CASE PublishFirst
      BY <1>0, <1>1, <2>3, WitnessTyped, NoneAssumption DEF PublishFirst, history
    <2>4. CASE ResumeAllocation
      BY <1>0, <1>1, <2>4, WitnessTyped, NoneAssumption
      DEF ResumeAllocation, history, persistent
    <2>5. CASE BeginProvision
      BY <1>0, <1>1, <2>5 DEF BeginProvision, history
    <2>6. CASE CommitSchema
      <3>1. witness # None /\ witness = Possible(FirstWitness)
        BY <1>0, <2>6, WitnessTyped, NoneAssumption DEF CommitSchema
      <3>2. /\ inode'.content = <<>> /\ inode' # None /\ committed' = <<>>
            /\ committed' # None
        <4>1. inode' \in Journals
          BY <1>0, <2>6 DEF CommitSchema, TypeOK, Journals, Contents
        <4> QED
          BY <2>6, <4>1, EmptyIsContent, NoneAssumption DEF CommitSchema
      <3>3. witness' = witness /\ pc' = "provisioned" /\ allocation' = allocation
        BY <2>6 DEF CommitSchema
      <3> QED
        BY <1>0, <2>6, <3>1, <3>2, <3>3 DEF CommitSchema
    <2>7. CASE Crash
      BY <1>0, <1>1, <2>7 DEF Crash, history, persistent
    <2> QED
      BY <2>1, <2>2, <2>3, <2>4, <2>5, <2>6, <2>7
  <1>2. CASE committed # None
    <2>1. witness # None /\ witness # FirstWitness
      BY <1>2, NotFirst
    <2>2. pc \notin {"allocating", "allocated", "provisioning"}
      BY <1>0, <1>2, <2>1
    <2>3. committed' # None
      <3>1. CASE Commit
        <4>1. committed' \in Seq(Requests)
          BY <1>0, <1>2, <3>1 DEF Commit, StoreInv, PlaceInv, Mutations, TypeOK
        <4> QED
          BY <4>1, NoneAssumption
      <3>2. CASE UNCHANGED committed
        BY <1>2, <3>2
      <3> QED
        BY <3>1, <3>2, <2>2, QuietSteps DEF Next, Provisioning, CommitSchema,
           Opening, Serving, Mutating, Closing, Environment, Quiet, OpenWriter,
           BeginCheckpoint, EndCheckpoint, CopyPages, FinishCopy,
           CloseConnection, Drop, Crash, LoseJournal, ReplaceJournal, history
    <2>4. witness' # None
      <3>1. UNCHANGED witness \/ witness' \in Witnesses
        BY <2>2, PhaseSteps, PendingSteps, PrepareStep, InspectStep, WitnessTyped
        DEF Rephased, Next, Provisioning, Allocate, PublishFirst,
            ResumeAllocation, CommitSchema, Opening, OpenWriter, GiveUpOpening,
            Serving, Retry, ResolveAbsent, BeginCheckpoint, EndCheckpoint,
            Detect, Mutating, Commit, Report, Closing, CopyPages, FinishCopy,
            CloseConnection, GiveUpClose, Environment, FailMutation, Drop,
            Crash, LoseJournal, ReplaceJournal, persistent
      <3> QED
        BY <2>1, <3>1, NoneAssumption
    <2>5. /\ allocation'
          /\ pc' \notin {"allocating", "allocated", "provisioning"}
          /\ pc' = "provisioned" =>
               pc = "provisioned" /\ UNCHANGED <<inode, committed, witness>>
      <3>1. allocation
        BY <1>0, <2>1
      <3>2. CASE Provisioning
        BY <2>1, <2>2, <3>1, <3>2
        DEF Provisioning, Allocate, PublishFirst, ResumeAllocation,
            BeginProvision, CommitSchema, FinishProvision
      <3>3. CASE Opening
        BY <2>2, <3>1, <3>3
        DEF Opening, Inspect, CompleteClose, PublishOpening, OpenWriter,
            PublishLive, GiveUpOpening, persistent, process
      <3>4. CASE Serving
        BY <2>2, <3>1, <3>4
        DEF Serving, Prepare, Retry, ResolveAbsent, BeginCheckpoint,
            EndCheckpoint, Detect, persistent, process
      <3>5. CASE Mutating
        BY <2>2, <3>1, <3>5
        DEF Mutating, DeclareCommit, Commit, Finalize, Report, persistent
      <3>6. CASE Closing
        BY <2>2, <3>1, <3>6
        DEF Closing, BeginClose, CopyPages, FinishCopy, CloseConnection,
            PublishClean, GiveUpClose, persistent, process
      <3>7. CASE Environment
        BY <2>2, <3>1, <3>7
        DEF Environment, FailMutation, Drop, Crash, LoseJournal,
            ReplaceJournal, persistent, process, history
      <3> QED
        BY <3>2, <3>3, <3>4, <3>5, <3>6, <3>7 DEF Next
    <2> QED
      BY <1>0, <2>3, <2>4, <2>5
  <1> QED
    BY <1>1, <1>2

---------------------------------------------------------------------------
(* The witness and the truth *)

Bracketed == WitnessBracketsTruth /\ PendingInv

LEMMA CommitStep ==
    ASSUME StoreInv, Commit
    PROVE  /\ witness \in Witnesses /\ witness.pending # None
           /\ witness.pending.request \in Requests
           /\ committed # None
           /\ committed' = Append(committed, witness.pending.request)
           /\ committed' # None
           /\ Log = committed /\ Log' = committed' /\ Log \in Seq(Requests)
           /\ PendingIs("CommitPossible")
           /\ Truth' = witness.pending.after
  <1> DEFINE q == witness.pending.request
  <1>1. /\ witness \in Witnesses /\ witness # None /\ witness.pending # None
        /\ q \in Requests /\ committed \in Seq(Requests) /\ committed # None
        /\ witness.pending.stage = "CommitPossible" /\ Truth = witness.cut
    BY DEF StoreInv, TypeOK, PlaceInv, Mutations, Commit, At
  <1>2. committed' = Append(committed, q)
    BY DEF Commit
  <1>3. committed' \in Seq(Requests) /\ committed' # None
    BY <1>1, <1>2, NoneAssumption
  <1>4. Truth' = CutOf(Append(committed, q))
    BY <1>2, <1>3 DEF Truth
  <1>5. CutOf(Append(committed, q)) = Advanced(CutOf(committed), q)
    <2>1. /\ Append(committed, q) # <<>>
          /\ Len(Append(committed, q)) = Len(committed) + 1
          /\ Append(committed, q)[Len(committed) + 1] = q
          /\ CutOf(committed).revision = Len(committed) + 1
      BY <1>1, CutTyped
    <2> QED
      BY <2>1 DEF CutOf, Advanced
  <1>6. witness.pending.after = Advanced(witness.cut, q)
    BY <1>1, StoreAssumption DEF StoreInv, PendingInv
  <1>7. Truth = CutOf(committed)
    BY <1>1 DEF Truth
  <1> QED
    BY <1>1, <1>2, <1>3, <1>4, <1>5, <1>6, <1>7 DEF Log, PendingIs

LEMMA TruthStep == StoreInv /\ Next => Bracketed'
  <1> SUFFICES ASSUME StoreInv, Next PROVE Bracketed'
    OBVIOUS
  <1>0. /\ TypeOK /\ CreationInv /\ Bracketed /\ PlaceInv
        /\ UNCHANGED committed => Truth' = Truth
    BY DEF StoreInv, Bracketed, Truth
  <1> USE DEF Bracketed, WitnessBracketsTruth, PendingInv, PendingIs
  <1>1. CASE UNCHANGED <<witness, committed>>
    BY <1>0, <1>1
  <1>2. CASE Rephased /\ UNCHANGED committed
    BY <1>0, <1>2, NoneAssumption DEF Rephased
  <1>3. CASE PublishFirst
    <2>1. committed' = None /\ Truth' = EmptyCut
      BY <1>0, <1>3 DEF PublishFirst, CreationInv, At, history, Truth
    <2> QED
      BY <1>3, <2>1 DEF PublishFirst, FirstWitness
  <1>4. CASE BeginProvision \/ DeclareCommit
    <2>1. /\ witness \in Witnesses /\ witness.pending # None
          /\ witness' = Possible(witness)
      BY <1>4, PendingSteps
    <2>2. Truth = witness.cut
      <3>1. CASE BeginProvision
        BY <1>0, <3>1, WitnessTyped, NoneAssumption
        DEF BeginProvision, At, CreationInv, FirstWitness
      <3>2. CASE DeclareCommit
        BY <1>0, <3>2 DEF DeclareCommit, At, PlaceInv
      <3> QED
        BY <1>4, <3>1, <3>2
    <2>3. UNCHANGED committed
      BY <1>4 DEF BeginProvision, DeclareCommit, history
    <2>4. witness' # None /\ witness'.pending # None /\ witness # None
      BY <2>1, WitnessTyped, NoneAssumption
    <2>5. /\ witness'.cut = witness.cut
          /\ witness'.pending.request = witness.pending.request
          /\ witness'.pending.after = witness.pending.after
          /\ witness'.pending.stage = "CommitPossible"
      BY <2>1, Decided
    <2> QED
      BY <1>0, <2>1, <2>2, <2>3, <2>4, <2>5
  <1>5. CASE CommitSchema
    <2>1. /\ witness' = witness /\ witness = Possible(FirstWitness)
          /\ committed' = <<>>
      BY <1>0, <1>5 DEF CommitSchema, CreationInv, At
    <2>3. Truth' = CutOf(<<>>)
      BY <2>1, EmptyIsContent DEF Truth
    <2>4. /\ witness.pending.stage = "CommitPossible"
          /\ witness.pending.after = CutOf(<<>>)
          /\ witness # None /\ witness.pending # None
      BY <2>1, WitnessTyped, Decided, NoneAssumption DEF FirstWitness
    <2> QED
      BY <1>0, <2>1, <2>3, <2>4
  <1>6. CASE FinishProvision \/ Finalize
    <2>1. /\ witness \in Witnesses /\ witness.pending # None
          /\ witness' = Adopted(witness)
      BY <1>6, PendingSteps
    <2>2. Truth = witness.pending.after
      <3>1. CASE FinishProvision
        <4>1. witness = Possible(FirstWitness) /\ committed = <<>>
          BY <1>0, <3>1 DEF FinishProvision, At, CreationInv
        <4> QED
          BY <4>1, EmptyIsContent, WitnessTyped, Decided DEF Truth, FirstWitness
      <3>2. CASE Finalize
        BY <1>0, <3>2 DEF Finalize, At, PlaceInv
      <3> QED
        BY <1>6, <3>1, <3>2
    <2>3. UNCHANGED committed
      BY <1>6 DEF FinishProvision, Finalize, history
    <2>4. witness'.cut = witness.pending.after /\ witness'.pending = None
      BY <2>1, Decided
    <2> QED
      BY <1>0, <2>2, <2>3, <2>4
  <1>7. CASE Inspect
    BY <1>0, <1>7, InspectStep, QuietSteps DEF Quiet
  <1>8. ASSUME NEW r \in Requests, Prepare(r) PROVE Bracketed'
    <2>1. /\ witness # None /\ witness.pending = None
          /\ committed # None /\ committed \in Seq(Requests)
      BY <1>0, <1>8 DEF Prepare, At, PlaceInv, Settled, TypeOK
    <2>2. Truth = witness.cut /\ witness.cut.revision > 0
      BY <1>0, <2>1, CutTyped DEF Truth
    <2>3. UNCHANGED committed
      BY <1>8 DEF Prepare
    <2>4. /\ witness'.cut = witness.cut
          /\ witness'.pending.stage = "Prepared"
          /\ witness'.pending.request = r
          /\ witness'.pending.after = Advanced(witness'.cut, r)
      BY <1>8, PrepareStep
    <2> QED
      BY <1>0, <1>8, <2>1, <2>2, <2>3, <2>4, PrepareStep
  <1>9. CASE Commit
    <2>1. witness' = witness
      BY <1>9 DEF Commit
    <2> QED
      BY <1>0, <1>9, <2>1, CommitStep
  <1>10. CASE UNCHANGED committed /\ (CompleteClose \/ PublishOpening
              \/ PublishLive \/ BeginClose \/ PublishClean)
    BY <1>2, <1>10, PhaseSteps
  <1> QED
    <2>1. CASE Provisioning
      BY <1>3, <1>4, <1>5, <1>6, <1>1, <2>1
      DEF Provisioning, Allocate, ResumeAllocation, persistent, history
    <2>2. CASE Opening
      BY <1>7, <1>10, <1>1, <2>2, QuietSteps
      DEF Opening, OpenWriter, GiveUpOpening, persistent, history, Quiet
    <2>3. CASE Serving
      BY <1>8, <1>1, <2>3
      DEF Serving, Retry, ResolveAbsent, BeginCheckpoint, EndCheckpoint,
          Detect, persistent, history
    <2>4. CASE Mutating
      BY <1>4, <1>6, <1>9, <1>1, <2>4 DEF Mutating, Report, persistent
    <2>5. CASE Closing
      BY <1>10, <1>1, <2>5, QuietSteps
      DEF Closing, CopyPages, FinishCopy, CloseConnection, GiveUpClose,
          persistent, history, Quiet
    <2>6. CASE Environment
      BY <1>1, <2>6
      DEF Environment, FailMutation, Drop, Crash, LoseJournal, ReplaceJournal,
          persistent, history
    <2> QED
      BY <2>1, <2>2, <2>3, <2>4, <2>5, <2>6 DEF Next

---------------------------------------------------------------------------
(* Places, the clean main file and the answers *)

\* What the places of an opened store have in common.
LEMMA PlaceStep == StoreInv /\ Next => PlaceInv'
  <1> SUFFICES ASSUME StoreInv, Next PROVE PlaceInv'
    OBVIOUS
  <1>0. TypeOK /\ CreationInv /\ PlaceInv
    BY DEF StoreInv
  <1> USE DEF PlaceInv, At, Settled, Mutations
  <1>1. CASE pc' \in {"down", "allocating", "allocated", "provisioning",
                      "provisioned", "fenced"}
    BY <1>1
  <1>2. CASE FinishProvision
    <2>1. /\ witness \in Witnesses /\ witness.pending # None
          /\ witness' = Adopted(witness)
      BY <1>2, PendingSteps
    <2>2. witness'.pending = None /\ witness' # None
      BY <2>1, WitnessTyped, Decided, NoneAssumption
    <2>3. pc' = "opened" /\ UNCHANGED <<inode, committed>>
      BY <1>2 DEF FinishProvision, history
    <2>4. inode # None /\ committed # None
      BY <1>0, <1>2, EmptyIsContent DEF FinishProvision, CreationInv
    <2> QED
      BY <2>2, <2>3, <2>4
  <1>3. CASE Inspect
    <2>1. found' \in Nat \cup {None}
      BY <1>0, <1>3 DEF Inspect, ObjectOf, TypeOK, Journals
    <2>2. /\ witness' # None /\ witness'.pending = None
          /\ committed' # None /\ UNCHANGED <<main, committed>>
      BY <1>3, InspectStep, QuietSteps, NoneAssumption DEF Quiet
    <2>3. /\ pc' \in {"mainProven", "proven"}
          /\ pc' = "mainProven" => main = committed
      BY <1>3, InspectStep DEF Inspect
    <2> QED
      BY <2>1, <2>2, <2>3
  <1>4. CASE CompleteClose
    BY <1>0, <1>4, PhaseSteps, QuietSteps, NoneAssumption
    DEF CompleteClose, Rephased, Quiet, process
  <1>5. CASE PublishOpening
    BY <1>0, <1>5, PhaseSteps, QuietSteps, NoneAssumption
    DEF PublishOpening, Rephased, Quiet
  <1>6. CASE OpenWriter
    <2>1. inode' \in Journals /\ pc' = "opened"
      BY <1>0, <1>6 DEF OpenWriter, TypeOK, Journals
    <2>2. inode' # None
      BY <2>1, NoneAssumption
    <2> QED
      BY <1>0, <1>6, <2>1, <2>2 DEF OpenWriter, history
  <1>7. CASE PublishLive
    <2>1. /\ witness' # None /\ witness'.pending = None
          /\ witness'.phase = "Live" /\ pc' = "live"
      BY <1>0, <1>7, PhaseSteps, NoneAssumption DEF PublishLive, Rephased
    <2>2. committed # None /\ inode # None /\ UNCHANGED <<inode, committed>>
      BY <1>0, <1>7, QuietSteps DEF PublishLive, Quiet
    <2>3. inode.content = committed
      <3>1. witness.cut = CutOf(Log) /\ Log = committed /\ Log \in Seq(Requests)
        BY <1>0, <1>7, <2>2, LogTyped, NoneAssumption
        DEF PublishLive, StoreInv, PendingInv, PendingIs, Truth, Log
      <3>2. HeadIs(inode.content, CutOf(Log)) /\ Genuine(inode.content, Log)
        BY <1>7, <2>2, <3>1
        DEF PublishLive, HeadConfirmed, StoreInv, FilesAreGenuine
      <3> QED
        BY <3>1, <3>2, SameCut
    <2> QED
      BY <2>1, <2>2, <2>3
  <1>8. ASSUME NEW r \in Requests, Prepare(r) PROVE PlaceInv'
    <2>1. /\ pc' = "prepared" /\ UNCHANGED <<inode, committed>>
          /\ committed # None /\ inode # None /\ inode.content = committed
          /\ witness # None /\ witness.pending = None
          /\ witness.phase = "Live" /\ verdict'[r] = "asked"
          /\ ~Holds(Log', r)
      BY <1>0, <1>8 DEF Prepare, TypeOK, Fresh, Log
    <2>2. Truth' = witness.cut
      BY <1>8, <2>1 DEF StoreInv, PendingInv, PendingIs, Truth
    <2> QED
      BY <1>8, <2>1, <2>2, PrepareStep, NoneAssumption
  <1>9. CASE Detect \/ BeginCheckpoint \/ EndCheckpoint
             \/ \E r \in Requests : Retry(r) \/ ResolveAbsent(r)
    BY <1>0, <1>9
    DEF Detect, BeginCheckpoint, EndCheckpoint, Retry, ResolveAbsent,
        persistent, process, history
  <1>10. CASE DeclareCommit
    <2>1. /\ witness' # None /\ witness'.pending # None
          /\ witness'.pending.stage = "CommitPossible"
          /\ witness'.pending.request = witness.pending.request
          /\ witness'.phase = witness.phase /\ witness'.cut = witness.cut
      BY <1>10, PendingSteps, WitnessTyped, Decided, NoneAssumption
    <2>2. /\ pc = "prepared" /\ pc' = "possible"
          /\ UNCHANGED <<inode, committed, verdict, found>>
          /\ Truth' = Truth /\ Log' = Log
      BY <1>10 DEF DeclareCommit, history, Truth, Log
    <2> QED
      BY <1>0, <2>1, <2>2
  <1>11. CASE Commit
    <2>1. /\ pc = "possible" /\ pc' = "committed" /\ witness' = witness
          /\ inode \in Journals
          /\ inode' = [inode EXCEPT !.content =
                          Append(inode.content, witness.pending.request)]
      BY <1>0, <1>11 DEF Commit, TypeOK
    <2>2. inode' # None /\ inode'.content = committed'
      <3>1. /\ inode.content = committed
            /\ committed' = Append(committed, witness.pending.request)
            /\ committed' \in Seq(Requests)
        BY <1>0, <1>11, CommitStep DEF Commit
      <3>2. inode' \in Journals /\ inode'.content = committed'
        BY <2>1, <3>1 DEF Journals, Contents
      <3> QED
        BY <3>2, NoneAssumption
    <2>3. Holds(Log', witness.pending.request)
      BY <1>11, CommitStep DEF Holds
    <2> QED
      BY <1>0, <1>11, <2>1, <2>2, <2>3, CommitStep
  <1>12. CASE Finalize
    <2>1. /\ witness' # None /\ witness'.pending = None
          /\ witness'.phase = witness.phase
      BY <1>12, PendingSteps, WitnessTyped, Decided, NoneAssumption
    <2>2. /\ pc = "committed" /\ pc' = "final" /\ found' = witness.pending.request
          /\ UNCHANGED <<inode, committed>> /\ Log' = Log
      BY <1>12 DEF Finalize, history, Log
    <2> QED
      BY <1>0, <2>1, <2>2
  <1>13. CASE Report
    BY <1>0, <1>13 DEF Report, persistent
  <1>14. CASE BeginClose
    BY <1>0, <1>14, PhaseSteps, QuietSteps, NoneAssumption
    DEF BeginClose, Rephased, Quiet
  <1>15. CASE CopyPages \/ FinishCopy \/ CloseConnection
    BY <1>0, <1>15
    DEF CopyPages, FinishCopy, CloseConnection, persistent, process, history
  <1>16. CASE LoseJournal \/ ReplaceJournal
    BY <1>0, <1>16
    DEF LoseJournal, ReplaceJournal, process, history, Truth, Log
  <1> QED
    <2>1. CASE Provisioning
      BY <1>1, <1>2, <2>1
      DEF Provisioning, Allocate, PublishFirst, ResumeAllocation,
          BeginProvision, CommitSchema
    <2>2. CASE Opening
      BY <1>1, <1>3, <1>4, <1>5, <1>6, <1>7, <2>2 DEF Opening, GiveUpOpening
    <2>3. CASE Serving
      BY <1>8, <1>9, <2>3 DEF Serving
    <2>4. CASE Mutating
      BY <1>10, <1>11, <1>12, <1>13, <2>4 DEF Mutating
    <2>5. CASE Closing
      BY <1>1, <1>14, <1>15, <2>5 DEF Closing, PublishClean, GiveUpClose
    <2>6. CASE Environment
      BY <1>1, <1>16, <2>6 DEF Environment, FailMutation, Drop, Crash
    <2> QED
      BY <2>1, <2>2, <2>3, <2>4, <2>5, <2>6 DEF Next

LEMMA CleanStep == StoreInv /\ Next => CleanNeedsNoJournal'
  <1> SUFFICES ASSUME StoreInv, Next PROVE CleanNeedsNoJournal'
    OBVIOUS
  <1>0. /\ TypeOK /\ CreationInv /\ PlaceInv /\ CleanNeedsNoJournal
    BY DEF StoreInv
  <1> USE DEF CleanNeedsNoJournal
  <1>1. CASE UNCHANGED <<witness, main, committed>>
    BY <1>0, <1>1
  <1>2. CASE witness' \in Witnesses /\ witness'.phase # "Clean"
    BY <1>2
  <1>3. CASE PublishFirst
    BY <1>3 DEF PublishFirst, FirstWitness
  <1>4. CASE BeginProvision \/ DeclareCommit \/ FinishProvision \/ Finalize
    <2>1. witness'.phase = witness.phase
      BY <1>4, PendingSteps, Decided
    <2>2. UNCHANGED <<main, committed>> /\ witness # None
      BY <1>4, PendingSteps, NoneAssumption, QuietSteps DEF Quiet
    <2> QED
      BY <1>0, <2>1, <2>2
  <1>5. CASE CommitSchema
    <2>1. witness' = Possible(FirstWitness)
      BY <1>0, <1>5 DEF CommitSchema, CreationInv, At
    <2> QED
      BY <2>1, WitnessTyped, Decided DEF FirstWitness
  <1>6. CASE Inspect
    <2>1. witness # None /\ UNCHANGED <<main, committed>>
      BY <1>6, QuietSteps DEF Inspect, Quiet
    <2> QED
      BY <1>0, <1>6, <2>1, InspectStep
  <1>7. CASE CompleteClose
    BY <1>0, <1>7, QuietSteps DEF CompleteClose, PlaceInv, At, Quiet
  <1>8. CASE PublishOpening \/ PublishLive \/ BeginClose
    BY <1>8, PhaseSteps
  <1>9. ASSUME NEW r \in Requests, Prepare(r) PROVE CleanNeedsNoJournal'
    BY <1>0, <1>9, PrepareStep DEF Prepare, PlaceInv, At
  <1>10. CASE Commit
    BY <1>0, <1>10 DEF Commit, PlaceInv, Mutations, At
  <1>11. CASE BeginCheckpoint \/ EndCheckpoint \/ CopyPages \/ FinishCopy
    BY <1>0, <1>11
    DEF BeginCheckpoint, EndCheckpoint, CopyPages, FinishCopy, PlaceInv, At
  <1>12. CASE PublishClean
    <2>1. witness.cut = CutOf(Log) /\ Log = committed /\ Log \in Seq(Requests)
      BY <1>0, <1>12, LogTyped
      DEF PublishClean, At, PlaceInv, Settled, StoreInv, PendingInv, PendingIs,
          Truth, Log
    <2>2. HeadIs(main, CutOf(Log)) /\ Genuine(main, Log)
      BY <1>12, <2>1 DEF PublishClean, MainProven, StoreInv, FilesAreGenuine
    <2>3. main = committed
      BY <2>1, <2>2, SameCut
    <2> QED
      BY <1>12, <2>3, QuietSteps DEF Quiet
  <1> QED
    <2>1. CASE Provisioning
      BY <1>1, <1>3, <1>4, <1>5, <2>1
      DEF Provisioning, Allocate, ResumeAllocation, persistent, history
    <2>2. CASE Opening
      BY <1>1, <1>6, <1>7, <1>8, <2>2
      DEF Opening, OpenWriter, GiveUpOpening, persistent, history
    <2>3. CASE Serving
      BY <1>1, <1>9, <1>11, <2>3
      DEF Serving, Retry, ResolveAbsent, Detect, persistent, history
    <2>4. CASE Mutating
      BY <1>1, <1>4, <1>10, <2>4 DEF Mutating, Report, persistent
    <2>5. CASE Closing
      BY <1>1, <1>8, <1>11, <1>12, <2>5
      DEF Closing, CloseConnection, GiveUpClose, persistent, history
    <2>6. CASE Environment
      BY <1>1, <2>6
      DEF Environment, FailMutation, Drop, Crash, LoseJournal, ReplaceJournal,
          persistent, history
    <2> QED
      BY <2>1, <2>2, <2>3, <2>4, <2>5, <2>6 DEF Next

LEMMA VerdictStep == StoreInv /\ Next => HonestVerdicts'
  <1> SUFFICES ASSUME StoreInv, Next PROVE HonestVerdicts'
    OBVIOUS
  <1>0. /\ TypeOK /\ CreationInv /\ PlaceInv /\ HonestVerdicts
        /\ UNCHANGED committed => Log' = Log
    BY DEF StoreInv, Log
  <1> USE DEF HonestVerdicts
  <1>1. CASE UNCHANGED <<verdict, committed>>
    BY <1>0, <1>1
  <1>2. CASE CommitSchema
    <2>1. Log' = Log /\ UNCHANGED verdict
      BY <1>0, <1>2 DEF CommitSchema, CreationInv, At, Log
    <2> QED
      BY <1>0, <2>1
  <1>3. CASE Commit
    <2> DEFINE q == witness.pending.request
    <2>1. /\ Log' = Append(Log, q) /\ Log \in Seq(Requests) /\ q \in Requests
          /\ UNCHANGED verdict /\ verdict[q] = "asked"
      BY <1>0, <1>3, CommitStep DEF Commit, At, PlaceInv
    <2>2. ASSUME NEW r \in Requests PROVE Holds(Log', r) <=> Holds(Log, r) \/ r = q
      BY <2>1 DEF Holds
    <2> QED
      BY <1>0, <2>1, <2>2
  <1>4. ASSUME NEW r \in Requests, Prepare(r) PROVE HonestVerdicts'
    BY <1>0, <1>4 DEF Prepare, TypeOK
  <1>5. ASSUME NEW r \in Requests, Retry(r) \/ ResolveAbsent(r)
        PROVE  HonestVerdicts'
    <2>1. inode.content = Log /\ UNCHANGED committed
      BY <1>0, <1>5
      DEF Retry, ResolveAbsent, At, PlaceInv, Settled, Log, persistent
    <2> QED
      BY <1>0, <1>5, <2>1 DEF Retry, ResolveAbsent, TypeOK
  <1>6. CASE Report
    BY <1>0, <1>6 DEF Report, At, PlaceInv, TypeOK
  <1> QED
    <2>1. CASE Provisioning
      BY <1>1, <1>2, <2>1
      DEF Provisioning, Allocate, PublishFirst, ResumeAllocation,
          BeginProvision, FinishProvision, persistent, history
    <2>2. CASE Opening
      BY <1>1, <2>2
      DEF Opening, Inspect, CompleteClose, PublishOpening, OpenWriter,
          PublishLive, GiveUpOpening, persistent, history
    <2>3. CASE Serving
      BY <1>1, <1>4, <1>5, <2>3
      DEF Serving, Detect, BeginCheckpoint, EndCheckpoint, persistent, history
    <2>4. CASE Mutating
      BY <1>1, <1>3, <1>6, <2>4 DEF Mutating, DeclareCommit, Finalize, history
    <2>5. CASE Closing
      BY <1>1, <2>5
      DEF Closing, BeginClose, CopyPages, FinishCopy, CloseConnection,
          PublishClean, GiveUpClose, persistent, history
    <2>6. CASE Environment
      BY <1>1, <2>6
      DEF Environment, FailMutation, Drop, Crash, LoseJournal, ReplaceJournal,
          persistent, history
    <2> QED
      BY <2>1, <2>2, <2>3, <2>4, <2>5, <2>6 DEF Next

---------------------------------------------------------------------------
(* The invariant and what it shows *)

LEMMA InitInv == Init => StoreInv
  <1> SUFFICES ASSUME Init PROVE StoreInv
    OBVIOUS
  <1>1. Log = <<>> /\ Truth = EmptyCut
    BY DEF Init, Log, Truth
  <1>2. FilesAreGenuine /\ CreationInv /\ PlaceInv
    BY DEF Init, FilesAreGenuine, Genuine, CreationInv, PlaceInv, Settled, Mutations
  <1>3. HonestVerdicts
    BY DEF Init, HonestVerdicts
  <1> QED
    BY <1>2, <1>3, InitType
    DEF StoreInv, Init, WitnessBracketsTruth, PendingInv, CleanNeedsNoJournal

LEMMA StutterInv == StoreInv /\ UNCHANGED vars => StoreInv'
  <1> SUFFICES ASSUME StoreInv, UNCHANGED vars
               PROVE  StoreInv'
    OBVIOUS
  <1> USE DEF vars, persistent, process, history
  <1>1. TypeOK'
    BY DEF StoreInv, TypeOK
  <1>2. Log' = Log
    BY DEF Log
  <1>3. FilesAreGenuine'
    BY <1>2 DEF StoreInv, FilesAreGenuine, Genuine
  <1>4. CreationInv'
    BY DEF StoreInv, CreationInv
  <1>5. WitnessBracketsTruth' /\ CleanNeedsNoJournal' /\ HonestVerdicts'
    BY DEF StoreInv, WitnessBracketsTruth, CleanNeedsNoJournal, HonestVerdicts,
           PendingIs, Truth, Log
  <1>6. PendingInv' /\ PlaceInv'
    BY DEF StoreInv, PendingInv, PendingIs, PlaceInv, Truth, Log
  <1> QED
    BY <1>1, <1>3, <1>4, <1>5, <1>6 DEF StoreInv

\* The inductive invariant holds for every set of operations, every number of
\* kills and every number of damaged journals (backend.rs, control.rs).
THEOREM InvariantHolds == Spec => []StoreInv
  <1>1. StoreInv /\ [Next]_vars => StoreInv'
    BY StepType, FilesStep, CreationStep, TruthStep, PlaceStep, CleanStep,
       VerdictStep, StutterInv DEF StoreInv, Bracketed
  <1> QED
    BY InitInv, <1>1, PTL DEF Spec

\* Every variable keeps to its kind, whatever happens to process and files.
THEOREM TypeCorrect == Spec => []TypeOK
  <1>1. StoreInv => TypeOK
    BY DEF StoreInv
  <1> QED
    BY <1>1, InvariantHolds, PTL

\* The witness is never more than one announced commit away from SQLite
\* (backend.rs mutate, provision and resolve_cut).
THEOREM WitnessIsTrue == Spec => []WitnessBracketsTruth
  <1>1. StoreInv => WitnessBracketsTruth
    BY DEF StoreInv
  <1> QED
    BY <1>1, InvariantHolds, PTL

\* No removed or replaced journal makes a store go live on an older prefix
\* (backend.rs open and live).
THEOREM LiveIsComplete == Spec => []LiveShowsEverything
  <1>1. StoreInv => LiveShowsEverything
    BY DEF StoreInv, LiveShowsEverything, PlaceInv, At
  <1> QED
    BY <1>1, InvariantHolds, PTL

\* What an opening proved of the copied files is the truth, though they may
\* have been damaged since (backend.rs inspect and resolve_cut).
THEOREM ProofIsCurrent == Spec => []ProvenCutIsCurrent
  <1>1. StoreInv => ProvenCutIsCurrent
    BY NoneAssumption
    DEF StoreInv, ProvenCutIsCurrent, PlaceInv, Settled, PendingInv, PendingIs
  <1> QED
    BY <1>1, InvariantHolds, PTL

\* A store the witness calls Clean can lose its journal and lose nothing
\* (backend.rs close).
THEOREM CleanIsSelfContained == Spec => []CleanNeedsNoJournal
  <1>1. StoreInv => CleanNeedsNoJournal
    BY DEF StoreInv
  <1> QED
    BY <1>1, InvariantHolds, PTL

\* The witness tells the truth, whenever the process died before
\* (backend.rs mutate, resolve_cut and close).
THEOREM WitnessHolds == Spec => []WitnessTellsTheTruth
  <1>1. WitnessBracketsTruth /\ ProvenCutIsCurrent /\ CleanNeedsNoJournal
          => WitnessTellsTheTruth
    BY DEF WitnessTellsTheTruth
  <1> QED
    BY <1>1, WitnessIsTrue, ProofIsCurrent, CleanIsSelfContained, PTL

\* What callers are told of an operation is true and stays true
\* (original.rs submit and resolve_original).
THEOREM AnswersHold == Spec => []HonestVerdicts
  <1>1. StoreInv => HonestVerdicts
    BY DEF StoreInv
  <1> QED
    BY <1>1, InvariantHolds, PTL

---------------------------------------------------------------------------
(* The store implements Ledger *)

LEMMA RefinesInit == Init => Abstract!Init
  BY DEF Init, Abstract!Init, Log, Attempt

LEMMA RefinesStep == StoreInv /\ [Next]_vars => [Abstract!Next]_(Abstract!vars)
  <1> SUFFICES ASSUME StoreInv, [Next]_vars
               PROVE  Abstract!Next \/ UNCHANGED <<Log, Attempt, verdict>>
    BY DEF Abstract!vars
  <1>0. /\ TypeOK /\ CreationInv /\ PlaceInv
        /\ UNCHANGED committed => Log' = Log
        /\ \A r : Abstract!InLog(r) <=> Holds(Log, r)
    BY DEF StoreInv, Log, Holds, Abstract!InLog
  <1> USE DEF Attempt
  <1>1. CASE UNCHANGED <<witness, committed, verdict>>
    BY <1>0, <1>1
  <1>2. CASE Rephased /\ UNCHANGED <<committed, verdict>>
    BY <1>0, <1>2, NoneAssumption DEF Rephased
  <1>3. CASE PublishFirst
    <2>1. Attempt = None /\ UNCHANGED <<committed, verdict>>
      BY <1>0, <1>3 DEF PublishFirst, CreationInv, At, history
    <2>2. Attempt' = None
      BY <1>3 DEF PublishFirst, FirstWitness
    <2> QED
      BY <1>0, <2>1, <2>2
  <1>4. CASE BeginProvision \/ DeclareCommit
    <2>1. UNCHANGED <<committed, verdict>>
      BY <1>4 DEF BeginProvision, DeclareCommit, history
    <2>2. UNCHANGED Attempt
      BY <1>4, PendingSteps, WitnessTyped, Decided, NoneAssumption
    <2> QED
      BY <1>0, <2>1, <2>2
  <1>5. CASE CommitSchema
    BY <1>0, <1>5 DEF CommitSchema, CreationInv, At, Log
  <1>6. CASE FinishProvision \/ Finalize \/ Inspect
    <2>1. UNCHANGED <<committed, verdict>>
      BY <1>6 DEF FinishProvision, Finalize, Inspect, history
    <2>2. witness'.pending = None
      BY <1>6, PendingSteps, Decided, InspectStep
    <2>3. Attempt' = None
      BY <2>2
    <2> QED
      BY <1>0, <2>1, <2>3 DEF Abstract!Next, Abstract!Conclude
  <1>7. ASSUME NEW r \in Requests, Prepare(r) PROVE Abstract!Submit(r)
    <2>1. Attempt = None
      BY <1>0, <1>7 DEF Prepare, At, PlaceInv, Settled
    <2>2. Attempt' = r
      BY <1>7, PrepareStep, StoreAssumption, NoneAssumption
    <2>3. ~Abstract!InLog(r) /\ UNCHANGED committed
      BY <1>0, <1>7 DEF Prepare, Fresh, At, PlaceInv, Settled, Log
    <2> QED
      BY <1>0, <1>7, <2>1, <2>2, <2>3 DEF Prepare, Abstract!Submit
  <1>8. CASE Commit
    <2>1. /\ Attempt = witness.pending.request /\ Attempt # None
          /\ UNCHANGED <<witness, verdict>>
      BY <1>8, CommitStep, StoreAssumption, NoneAssumption DEF Commit
    <2>2. Log' = Append(Log, Attempt) /\ ~Holds(Log, Attempt)
      BY <1>0, <1>8, <2>1, CommitStep DEF Commit, At, PlaceInv
    <2> QED
      BY <1>0, <2>1, <2>2 DEF Abstract!Next, Abstract!Commit
  <1>9. ASSUME NEW r \in Requests, Retry(r) \/ ResolveAbsent(r)
        PROVE  Abstract!Answer(r)
    <2>1. /\ inode.content = Log /\ Attempt = None
          /\ UNCHANGED <<witness, committed>>
      BY <1>0, <1>9
      DEF Retry, ResolveAbsent, At, PlaceInv, Settled, Log, persistent
    <2> QED
      BY <1>0, <1>9, <2>1, StoreAssumption
      DEF Retry, ResolveAbsent, Abstract!Answer
  <1>10. CASE Report
    <2>1. /\ found \in Requests /\ Holds(Log, found) /\ Attempt = None
          /\ UNCHANGED <<witness, committed>>
      BY <1>0, <1>10 DEF Report, At, PlaceInv, Settled, persistent
    <2>2. Abstract!Answer(found)
      BY <1>0, <1>10, <2>1, StoreAssumption DEF Report, Abstract!Answer
    <2> QED
      BY <2>1, <2>2 DEF Abstract!Next
  <1> QED
    <2>1. CASE Provisioning
      BY <1>1, <1>3, <1>4, <1>5, <1>6, <2>1
      DEF Provisioning, Allocate, ResumeAllocation, persistent, history
    <2>2. CASE Opening
      <3>1. CASE CompleteClose \/ PublishOpening \/ PublishLive
        BY <1>2, <3>1, PhaseSteps
        DEF CompleteClose, PublishOpening, PublishLive, history
      <3> QED
        BY <1>1, <1>6, <2>2, <3>1
        DEF Opening, OpenWriter, GiveUpOpening, persistent, history
    <2>3. CASE Serving
      BY <1>1, <1>7, <1>9, <2>3
      DEF Serving, Detect, BeginCheckpoint, EndCheckpoint, persistent, history,
          Abstract!Next
    <2>4. CASE Mutating
      BY <1>4, <1>6, <1>8, <1>10, <2>4 DEF Mutating
    <2>5. CASE Closing
      <3>1. CASE BeginClose \/ PublishClean
        BY <1>2, <3>1, PhaseSteps DEF BeginClose, PublishClean, history
      <3> QED
        BY <1>1, <2>5, <3>1
        DEF Closing, CopyPages, FinishCopy, CloseConnection, GiveUpClose,
            persistent, history
    <2>6. CASE Environment
      BY <1>1, <2>6
      DEF Environment, FailMutation, Drop, Crash, LoseJournal, ReplaceJournal,
          persistent, history
    <2>7. CASE UNCHANGED vars
      BY <1>1, <2>7 DEF vars, persistent, history
    <2> QED
      BY <2>1, <2>2, <2>3, <2>4, <2>5, <2>6, <2>7 DEF Next

\* Every run of the store, with its kills and damaged journals, is a run of
\* Ledger: operations take effect at most once and in order, one attempt at a
\* time, and answers are only given when they are final (original.rs submit).
THEOREM StoreKeepsPromise == Spec => ImplementsLedger
  BY InvariantHolds, RefinesInit, RefinesStep, PTL
  DEF Spec, ImplementsLedger, Abstract!Spec

---------------------------------------------------------------------------
(* A commit in doubt *)

\* A store in doubt cannot be inspected: the cut that would settle it is not
\* in any of its files.
LEMMA DoubtIsNotSettled ==
    ASSUME StoreInv, Blocked
    PROVE  ~Inspect /\ ~Allocate /\ ~ResumeAllocation
  <1>1. /\ witness # None /\ witness.pending # None /\ witness.pending.stage = "CommitPossible"
        /\ witness \in Witnesses /\ Truth = witness.cut
    BY DEF Blocked, PendingIs, StoreInv, TypeOK
  <1>2. ~Allocate
    BY <1>1 DEF StoreInv, CreationInv, Allocate
  <1>3. ~ResumeAllocation
    BY <1>1 DEF ResumeAllocation, FirstWitness
  <1>4. ASSUME Inspect
        PROVE  FALSE
    <2>1. witness'.cut = Truth /\ witness' = Adopted(witness)
      BY <1>1, <1>4, InspectStep DEF Inspect, Resolved
    <2>2. witness'.cut = witness.pending.after
      BY <1>1, <2>1, Decided
    <2>3. CutOf(<<>>).revision = 1 /\ witness.cut.revision \in Nat
      BY <1>1 DEF CutOf, Witnesses, Cuts
    <2>4. witness.pending.after.revision = witness.cut.revision + 1
      BY <1>1, <2>3 DEF StoreInv, PendingInv, EmptyCut, Advanced
    <2> QED BY <1>1, <2>1, <2>2, <2>3, <2>4
  <1> QED BY <1>2, <1>3, <1>4

\* So nothing that can happen takes it out of doubt.
LEMMA DoubtStays == StoreInv /\ Blocked /\ [Next]_vars => Blocked'
  <1> SUFFICES ASSUME StoreInv, Blocked, [Next]_vars
               PROVE  Blocked'
    OBVIOUS
  <1>1. ASSUME UNCHANGED <<witness, pc, committed>>
        PROVE  Blocked'
    BY <1>1 DEF Blocked, PendingIs, At, Truth
  <1>2. pc = "down"
    BY DEF Blocked, At
  <1>3. CASE LoseJournal \/ ReplaceJournal
    BY <1>1, <1>3 DEF LoseJournal, ReplaceJournal, process, history
  <1>4. CASE UNCHANGED vars
    BY <1>1, <1>4 DEF vars, persistent, process, history
  <1>5. ~Provisioning /\ ~Opening
    BY <1>2, DoubtIsNotSettled
    DEF Provisioning, PublishFirst, BeginProvision, CommitSchema, FinishProvision,
        Opening, CompleteClose, PublishOpening, OpenWriter, PublishLive, GiveUpOpening, At
  <1>6. ~Serving /\ ~Mutating
    BY <1>2
    DEF Serving, Prepare, Retry, ResolveAbsent, BeginCheckpoint, EndCheckpoint, Detect,
        Mutating, DeclareCommit, Commit, Finalize, Report, At
  <1>7. ~Closing /\ ~FailMutation /\ ~Drop /\ ~Crash
    BY <1>2
    DEF Closing, BeginClose, CopyPages, FinishCopy, CloseConnection, PublishClean,
        GiveUpClose, FailMutation, Drop, Crash, At
  <1> QED BY <1>3, <1>4, <1>5, <1>6, <1>7 DEF Next, Environment

\* There is no automatic abort: a store whose process died after declaring a
\* commit possible and before it never goes live again, whatever journals are
\* lost or put back (backend.rs resolve_cut, the miss stays Indeterminate).
THEOREM DoubtIsForever == Spec => NoAutomaticAbort
  <1>1. StoreInv /\ Blocked /\ [Next]_vars => Blocked'
    BY DoubtStays
  <1>2. Blocked => ~At("live")
    BY DEF Blocked, At
  <1> QED
    BY <1>1, <1>2, InvariantHolds, PTL DEF Spec, NoAutomaticAbort
=============================================================================
