----------------------------- MODULE Publication -----------------------------
(***************************************************************************)
(* How a witness gets to disk and who may put it there: Witness::publish,  *)
(* replace and publish_allocation (adapters/sqlite/control.rs) under the   *)
(* writer lease of adapters/sqlite/custody.rs.                             *)
(*                                                                         *)
(* Processes open the directory at one path, lock the lock file they find  *)
(* in it, and believe the witness only when it names the objects they      *)
(* hold.  A publication writes a new file, syncs it, renames it over the   *)
(* canonical name, syncs the directory and reads the file back.  It can be *)
(* killed or fail between any two of these; losing power also takes back   *)
(* renames that were not synced and tears files that were not.  At rest    *)
(* the directory may be copied, a copy may be put in its place, and the    *)
(* lock file or the database may be replaced.  While a process publishes   *)
(* nobody else moves files under its path: the code excludes that.         *)
(*                                                                         *)
(* Abstracted: what a witness says is a mark, the number of the file that  *)
(* first said it; its generation is the length of its chain of marks.      *)
(* Which contents may follow which is part of Store.                       *)
(*                                                                         *)
(* An operator under a comment that starts with "Mutant" is not part of    *)
(* the model: it is the definition after it with a plausible bug.          *)
(***************************************************************************)
EXTENDS Naturals, Sequences

CONSTANTS Procs,        \* processes
          MaxDirs,      \* bound: directories, copies included
          MaxFiles,     \* bound: files of witnesses
          MaxHarm,      \* bound: objects replaced and copies put in place
          MaxLosses,    \* bound: times that power is lost
          None

Names == {"allocation", "custody"}

\* What a file says: the chain of marks, the object and the objects it was
\* written for.
Bindings == [dir : Nat, lock : Nat, base : Nat]

Witnesses == [line : Seq(Nat), object : Nat, binding : Bindings]

Files == [parts : 0..4, says : Witnesses, synced : BOOLEAN]

\* The entries of a name: the one on disk, then those renamed over it since;
\* 0 where there was none.
Dirs == [lock : Nat, base : Nat, entries : [Names -> Seq(Nat)]]

Stages == {"out", "leased", "allocating", "fresh", "open", "writing", "renamed", "synced"}

Leases == [stage : Stages, dir : Nat, lock : Nat, base : Nat,
           known : Witnesses \cup {None}, name : Names, file : Nat]

ASSUME PublicationAssumption ==
    /\ MaxDirs \in Nat \ {0} /\ MaxFiles \in Nat
    /\ MaxHarm \in Nat /\ MaxLosses \in Nat
    /\ None \notin Witnesses

VARIABLES dirs,     \* the directories there are
          path,     \* which of them is at the path, 0 if none
          files,    \* the witness files ever created
          lease,    \* process -> its lease and what it is doing
          objects,  \* lock files and databases created so far
          acked,    \* history: the chain of the last publication that succeeded
          harm, losses

disk == <<dirs, path, files, objects>>
vars == <<disk, lease, acked, harm, losses>>

NoLease == [stage |-> "out", dir |-> 0, lock |-> 0, base |-> 0,
            known |-> None, name |-> "custody", file |-> 0]

Init ==
    /\ dirs = <<>> /\ path = 0 /\ files = <<>> /\ objects = 0
    /\ lease = [p \in Procs |-> NoLease]
    /\ acked = <<>> /\ harm = 0 /\ losses = 0

---------------------------------------------------------------------------
(* Leases, and witnesses as they are read *)

At(p, stage) == lease[p].stage = stage

\* The file under a name, as the running system sees it.
Current(d, name) == LET e == dirs[d].entries[name] IN e[Len(e)]

BindingOf(p) == [dir |-> lease[p].dir, lock |-> lease[p].lock, base |-> lease[p].base]

\* check: what the process holds is what is at its path.
Held(p) ==
    /\ path # 0 /\ lease[p].dir = path
    /\ lease[p].lock = dirs[path].lock /\ lease[p].base = dirs[path].base

\* Mutant: a witness is believed wherever it is found.
BelievedAnywhere(p, f) == f # 0 /\ files[f].parts = 4

\* read_named: both frames are there and agree, and the witness names the
\* file that holds it and the objects of the lease.
Believed(p, f) ==
    /\ f # 0 /\ files[f].parts = 4
    /\ files[f].says.object = f
    /\ files[f].says.binding = BindingOf(p)

\* The name still shows what the process knows, or nothing before the first.
Expected(p, name) ==
    LET f == Current(lease[p].dir, name) IN
    IF lease[p].known = None THEN f = 0
    ELSE Believed(p, f) /\ files[f].says = lease[p].known

Becomes(p, l) == lease' = [lease EXCEPT ![p] = l]

Locked(lock) == \E q \in Procs : lease[q].stage # "out" /\ lease[q].lock = lock

---------------------------------------------------------------------------
(* Taking and leaving the lease *)

NewDir(lock, base, entries) == [lock |-> lock, base |-> base, entries |-> entries]

\* acquire with create: the directory and its files are synced at once.
Create(p) ==
    /\ At(p, "out") /\ path = 0
    /\ dirs' = <<NewDir(1, 2, [n \in Names |-> <<0>>])>>
    /\ path' = 1 /\ objects' = 2
    /\ Becomes(p, [NoLease EXCEPT !.stage = "allocating", !.dir = 1,
                                  !.lock = 1, !.base = 2])
    /\ UNCHANGED <<files, acked, harm, losses>>

Acquire(p) ==
    /\ At(p, "out") /\ path # 0
    /\ ~Locked(dirs[path].lock)
    /\ Becomes(p, [NoLease EXCEPT !.stage = "leased", !.dir = path,
                                  !.lock = dirs[path].lock, !.base = dirs[path].base])
    /\ UNCHANGED <<disk, acked, harm, losses>>

\* The canonical witness is read and believed.
Open(p) ==
    /\ At(p, "leased") /\ Held(p)
    /\ LET f == Current(lease[p].dir, "custody") IN
       /\ Believed(p, f)
       /\ Becomes(p, [lease[p] EXCEPT !.stage = "open", !.known = files[f].says])
    /\ UNCHANGED <<disk, acked, harm, losses>>

\* An allocation that was interrupted before the first witness is resumed.
Resume(p) ==
    /\ At(p, "leased") /\ Held(p)
    /\ Current(lease[p].dir, "custody") = 0
    /\ Believed(p, Current(lease[p].dir, "allocation"))
    /\ Becomes(p, [lease[p] EXCEPT !.stage = "fresh"])
    /\ UNCHANGED <<disk, acked, harm, losses>>

\* The process ends, is killed, or gives up at whatever failed.
Stop(p) ==
    /\ ~At(p, "out")
    /\ Becomes(p, NoLease)
    /\ UNCHANGED <<disk, acked, harm, losses>>

---------------------------------------------------------------------------
(* Publishing *)

Says(p) ==
    [line    |-> IF lease[p].known = None THEN <<Len(files) + 1>>
                 ELSE Append(lease[p].known.line, Len(files) + 1),
     object  |-> Len(files) + 1,
     binding |-> BindingOf(p)]

\* Checked first: what is known is still what is shown.  Then the temporary
\* file is made; its name is new.
Begin(p, name) ==
    /\ Len(files) < MaxFiles
    /\ IF name = "allocation" THEN At(p, "allocating") ELSE At(p, "fresh") \/ At(p, "open")
    /\ Held(p)
    /\ At(p, "open") => Expected(p, name)
    /\ files' = Append(files, [parts |-> 0, says |-> Says(p), synced |-> FALSE])
    /\ Becomes(p, [lease[p] EXCEPT !.stage = "writing", !.name = name,
                                   !.file = Len(files) + 1])
    /\ UNCHANGED <<dirs, path, objects, acked, harm, losses>>

Temp(p) == files[lease[p].file]

\* Header, payload, payload again, footer.
Write(p) ==
    /\ At(p, "writing") /\ Temp(p).parts < 4
    /\ files' = [files EXCEPT ![lease[p].file].parts = @ + 1]
    /\ UNCHANGED <<dirs, path, objects, lease, acked, harm, losses>>

SyncFile(p) ==
    /\ At(p, "writing") /\ Temp(p).parts = 4 /\ ~Temp(p).synced
    /\ files' = [files EXCEPT ![lease[p].file].synced = TRUE]
    /\ UNCHANGED <<dirs, path, objects, lease, acked, harm, losses>>

\* Mutant: the file is not synced before it is renamed.
WrittenOut(p) == Temp(p).parts = 4

Ready(p) == Temp(p).parts = 4 /\ Temp(p).synced

Rename(p) ==
    /\ At(p, "writing") /\ Ready(p)
    /\ Held(p) /\ Expected(p, lease[p].name)
    /\ dirs' = [dirs EXCEPT ![lease[p].dir].entries[lease[p].name] =
                   Append(@, lease[p].file)]
    /\ Becomes(p, [lease[p] EXCEPT !.stage = "renamed"])
    /\ UNCHANGED <<path, files, objects, acked, harm, losses>>

\* Mutant: the directory is not synced after the rename.
ForgetSync(p) ==
    /\ At(p, "renamed") /\ Held(p)
    /\ Becomes(p, [lease[p] EXCEPT !.stage = "synced"])
    /\ UNCHANGED <<disk, acked, harm, losses>>

\* What was renamed in the directory before is on disk as well.
SyncDirectory(p) ==
    /\ At(p, "renamed") /\ Held(p)
    /\ dirs' = [dirs EXCEPT ![lease[p].dir].entries =
                   [n \in Names |-> <<Current(lease[p].dir, n)>>]]
    /\ Becomes(p, [lease[p] EXCEPT !.stage = "synced"])
    /\ UNCHANGED <<path, files, objects, acked, harm, losses>>

\* The file is read back.  The first witness follows its allocation.
Confirm(p) ==
    /\ At(p, "synced") /\ Held(p)
    /\ Current(lease[p].dir, lease[p].name) = lease[p].file
    /\ Believed(p, lease[p].file)
    /\ IF lease[p].name = "allocation"
         THEN /\ Becomes(p, [lease[p] EXCEPT !.stage = "fresh"])
              /\ UNCHANGED acked
         ELSE /\ Becomes(p, [lease[p] EXCEPT !.stage = "open", !.known = Temp(p).says])
              /\ acked' = Temp(p).says.line
    /\ UNCHANGED <<disk, harm, losses>>

---------------------------------------------------------------------------
(* What happens to the machine and, at rest, to the files *)

\* What a name may show after a loss of power.  Nobody writes to a copy.
Entries(n) ==
    IF dirs = <<>> THEN {0}
    ELSE {dirs[1].entries[n][i] : i \in DOMAIN dirs[1].entries[n]}

\* One of the entries since the last sync is there again, and what was not
\* synced of a file may be gone.
LosePower ==
    /\ losses < MaxLosses /\ losses' = losses + 1
    /\ \E left \in [Names -> 0..Len(files)] :
         /\ \A n \in Names : left[n] \in Entries(n)
         /\ dirs' = IF dirs = <<>> THEN dirs
                    ELSE [dirs EXCEPT ![1].entries = [n \in Names |-> <<left[n]>>]]
    /\ \E torn \in SUBSET {f \in DOMAIN files : ~files[f].synced} :
         files' = [f \in DOMAIN files |->
                      IF f \in torn THEN [files[f] EXCEPT !.parts = 0] ELSE files[f]]
    /\ lease' = [p \in Procs |-> NoLease]
    /\ UNCHANGED <<path, objects, acked, harm>>

AtRest == \A p \in Procs : lease[p].stage \in {"out", "open"}

Harm == harm < MaxHarm /\ harm' = harm + 1

\* External: the directory is copied; the files are others, their bytes the same.
Copy ==
    /\ path # 0 /\ Len(dirs) < MaxDirs
    /\ LET there == {n \in Names : Current(path, n) # 0}
           first == Len(files) + 1
           Number(n) == IF n \notin there THEN 0
                        ELSE IF n = "allocation" THEN first
                        ELSE IF "allocation" \in there THEN first + 1 ELSE first
           Same(n) == IF n \in there THEN <<files[Current(path, n)]>> ELSE <<>>
       IN  /\ files' = files \o Same("allocation") \o Same("custody")
           /\ dirs' = Append(dirs, NewDir(objects + 1, objects + 2,
                                          [n \in Names |-> <<Number(n)>>]))
           /\ objects' = objects + 2
    /\ UNCHANGED <<path, lease, acked, harm, losses>>

\* External: another directory is put at the path.
Swap ==
    /\ AtRest /\ Harm
    /\ path # 0
    /\ path' \in DOMAIN dirs \ {path}
    /\ UNCHANGED <<dirs, files, objects, lease, acked, losses>>

\* External: the lock file or the database is replaced by another file.
Replace ==
    /\ AtRest /\ Harm
    /\ path # 0
    /\ objects' = objects + 1
    /\ dirs' \in {[dirs EXCEPT ![path].lock = objects'], [dirs EXCEPT ![path].base = objects']}
    /\ UNCHANGED <<path, files, lease, acked, losses>>

Publishing(p) ==
    (\E n \in Names : Begin(p, n)) \/ Write(p) \/ SyncFile(p) \/ Rename(p)
        \/ SyncDirectory(p) \/ Confirm(p)

Next ==
    \/ \E p \in Procs : Create(p) \/ Acquire(p) \/ Open(p) \/ Resume(p) \/ Stop(p)
                        \/ Publishing(p)
    \/ LosePower \/ Copy \/ Swap \/ Replace

Spec == Init /\ [][Next]_vars

---------------------------------------------------------------------------
(* Properties *)

\* Every variable holds a value of its kind.
TypeOK ==
    /\ dirs \in Seq(Dirs) /\ path \in 0..Len(dirs)
    /\ files \in Seq(Files)
    /\ lease \in [Procs -> Leases]
    /\ objects \in Nat /\ acked \in Seq(Nat)
    /\ harm \in 0..MaxHarm /\ losses \in 0..MaxLosses

\* Processes that were given the witness, or may write the first one.
Trusted == {p \in Procs : lease[p].stage \notin {"out", "leased"}}

\* At most one process can publish: of all that believe to have the store, no
\* two hold what is at the path, and none was ever let in by a copy of the
\* directory, a lock file made again or another database
\* (custody.rs acquire and check, control.rs read_named: the binding).
AuthorityIsOne ==
    /\ \A p, q \in Trusted : Held(p) /\ Held(q) => p = q
    /\ \A p \in Trusted : lease[p].dir = 1

\* Whatever is killed, fails or loses power at any moment, the store keeps a
\* whole witness of its own, which is not older than the last publication
\* that succeeded and descends from it (control.rs write_next: temporary file,
\* sync, rename, directory sync, read back).
WitnessSurvives ==
    /\ \A n \in Names : \A f \in Entries(n) \ {0} :
         files[f].parts = 4 /\ files[f].says.object = f
    /\ \A f \in Entries("custody") \ {0} :
         LET line == files[f].says.line IN
         Len(line) >= Len(acked) /\ SubSeq(line, 1, Len(acked)) = acked
    /\ acked # <<>> => 0 \notin Entries("custody")

Line ==
    IF dirs = <<>> \/ Current(1, "custody") = 0 THEN <<>>
    ELSE files[Current(1, "custody")].says.line

\* The store is shown one register, however many processes write it.
Register == INSTANCE WitnessRegister WITH
    Marks <- 1..MaxFiles + 2 * MaxDirs, shown <- Line, kept <- acked

ImplementsRegister == Register!Spec
=============================================================================
