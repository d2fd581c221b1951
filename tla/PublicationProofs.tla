-------------------------- MODULE PublicationProofs --------------------------
(***************************************************************************)
(* Proofs about Publication: for any processes, copies, replacements and   *)
(* losses of power at most one process can publish, the directory keeps a  *)
(* whole witness that descends from the last one acknowledged, and all of  *)
(* them together are one register.                                         *)
(*                                                                         *)
(* The argument.  Every witness names the directory it was written for, and*)
(* only the first directory was ever written to, so whoever was let in by  *)
(* a witness holds that directory; the lock makes it one process at a time *)
(* while it finds its lock file at the path.  Nothing is replaced while a  *)
(* process publishes, so what it checked when it began still holds when it *)
(* renames, syncs and acknowledges.  A file that is renamed is whole and   *)
(* synced, and what it says continues what was shown.                      *)
(***************************************************************************)
EXTENDS Publication, TLAPS

Busy == {"writing", "renamed", "synced"}

LineAt(f) == IF f = 0 THEN <<>> ELSE files[f].says.line

\* s is the beginning of t.
Begins(s, t) == Len(s) <= Len(t) /\ \A i \in 1..Len(s) : s[i] = t[i]

\* A directory has an entry for each name, and entries name files.
Shape ==
    /\ path = 0 => dirs = <<>>
    /\ dirs = <<>> => path = 0 /\ acked = <<>> /\ \A p \in Procs : At(p, "out")
    /\ \A d \in DOMAIN dirs : \A n \in Names :
          /\ dirs[d].entries[n] # <<>>
          /\ \A i \in DOMAIN dirs[d].entries[n] : dirs[d].entries[n][i] \in 0..Len(files)

\* One process has a lock file; who was let in is in the first directory, and so
\* is everything that was ever written.
Alone ==
    /\ \A p, q \in Procs :
          ~At(p, "out") /\ ~At(q, "out") /\ lease[p].lock = lease[q].lock => p = q
    /\ \A p \in Procs : ~At(p, "out") => lease[p].dir \in DOMAIN dirs
    /\ \A p \in Trusted : lease[p].dir = 1
    /\ \A f \in DOMAIN files : files[f].says.binding.dir = 1

\* What a file says that p writes.
Written(p) ==
    [line    |-> IF lease[p].known = None THEN <<lease[p].file>>
                 ELSE Append(lease[p].known.line, lease[p].file),
     object  |-> lease[p].file,
     binding |-> BindingOf(p)]

\* What the steps of a publication have established so far.
EngagedAt(p) ==
    /\ Held(p)
    /\ lease[p].file \in DOMAIN files /\ lease[p].file <= MaxFiles
    /\ Temp(p).says = Written(p)
    /\ ~At(p, "writing") =>
          /\ Current(1, lease[p].name) = lease[p].file
          /\ lease[p].name = "custody" => Len(acked) < Len(Temp(p).says.line)
    /\ At(p, "synced") => dirs[1].entries[lease[p].name] = <<lease[p].file>>

Engaged == \A p \in Procs : lease[p].stage \in Busy => EngagedAt(p)

WholeAt(f) == f # 0 => files[f].parts = 4 /\ files[f].synced /\ files[f].says.object = f

\* Every entry of the first directory is a whole file of its own.
Whole ==
    dirs # <<>> =>
        \A n \in Names : \A i \in DOMAIN dirs[1].entries[n] : WholeAt(dirs[1].entries[n][i])

\* Every entry of the witness lies between what was acknowledged and what is shown.
Chain ==
    dirs # <<>> =>
        LET e == dirs[1].entries["custody"]
        IN  \A i \in DOMAIN e : Begins(acked, LineAt(e[i])) /\ Begins(LineAt(e[i]), LineAt(e[Len(e)]))

PublicationInv == TypeOK /\ Shape /\ Alone /\ Engaged /\ Whole /\ Chain

\* What a step is to the register.
Kept == Line' = Line /\ acked' = acked

Published == (\E m \in 1..MaxFiles : Line' = Append(Line, m)) /\ acked' = acked

Acknowledged == Len(Line) > Len(acked) /\ acked' = Line /\ Line' = Line

Lost == (\E n \in Len(acked)..Len(Line) : Line' = SubSeq(Line, 1, n)) /\ acked' = acked

Registers == Kept \/ Published \/ Acknowledged \/ Lost

---------------------------------------------------------------------------
(* What the invariant says of each value *)

LEMMA Facts ==
    ASSUME PublicationInv
    PROVE  /\ Len(files) \in Nat /\ DOMAIN files = 1..Len(files)
           /\ \A f \in DOMAIN files :
                 /\ files[f] \in Files
                 /\ files[f].parts \in 0..4 /\ files[f].synced \in BOOLEAN
                 /\ files[f].says \in Witnesses /\ files[f].says.line \in Seq(Nat)
                 /\ files[f].says.object \in Nat /\ files[f].says.binding \in Bindings
           /\ acked \in Seq(Nat)
  <1>1. files \in Seq(Files) /\ acked \in Seq(Nat)
    BY DEF PublicationInv, TypeOK
  <1>2. Len(files) \in Nat /\ DOMAIN files = 1..Len(files) /\ \A f \in DOMAIN files : files[f] \in Files
    BY <1>1
  <1>3. \A r \in Files : r.parts \in 0..4 /\ r.synced \in BOOLEAN /\ r.says \in Witnesses
    BY DEF Files
  <1>4. \A w \in Witnesses : w.line \in Seq(Nat) /\ w.object \in Nat /\ w.binding \in Bindings
    BY DEF Witnesses
  <1> QED BY <1>1, <1>2, <1>3, <1>4

LEMMA LeaseFacts ==
    ASSUME PublicationInv, NEW p \in Procs
    PROVE  /\ lease[p] \in Leases
           /\ lease[p].stage \in Stages /\ lease[p].dir \in Nat /\ lease[p].lock \in Nat
           /\ lease[p].base \in Nat /\ lease[p].known \in Witnesses \cup {None}
           /\ lease[p].name \in Names /\ lease[p].file \in Nat
           /\ lease \in [Procs -> Leases]
  BY DEF PublicationInv, TypeOK, Leases

LEMMA DirFacts ==
    ASSUME PublicationInv
    PROVE  /\ dirs \in Seq(Dirs) /\ Len(dirs) \in Nat /\ DOMAIN dirs = 1..Len(dirs)
           /\ dirs # <<>> => 1 \in DOMAIN dirs
           /\ path \in 0..Len(dirs)
           /\ \A d \in DOMAIN dirs :
                 /\ dirs[d] \in Dirs /\ dirs[d].lock \in Nat /\ dirs[d].base \in Nat
                 /\ dirs[d].entries \in [Names -> Seq(Nat)]
                 /\ \A n \in Names :
                       /\ dirs[d].entries[n] \in Seq(Nat)
                       /\ Len(dirs[d].entries[n]) \in Nat \ {0}
                       /\ DOMAIN dirs[d].entries[n] = 1..Len(dirs[d].entries[n])
                       /\ Current(d, n) = dirs[d].entries[n][Len(dirs[d].entries[n])]
                       /\ Current(d, n) \in 0..Len(files)
  <1>1. /\ dirs \in Seq(Dirs) /\ path \in 0..Len(dirs)
    BY DEF PublicationInv, TypeOK
  <1>2. Len(dirs) \in Nat /\ DOMAIN dirs = 1..Len(dirs) /\ (dirs # <<>> => 1 \in DOMAIN dirs)
    BY <1>1
  <1>3. ASSUME NEW d \in DOMAIN dirs
        PROVE  /\ dirs[d] \in Dirs /\ dirs[d].lock \in Nat /\ dirs[d].base \in Nat
               /\ dirs[d].entries \in [Names -> Seq(Nat)]
    <2>1. dirs[d] \in Dirs
      BY <1>1
    <2>2. \A r \in Dirs : r.lock \in Nat /\ r.base \in Nat /\ r.entries \in [Names -> Seq(Nat)]
      BY DEF Dirs
    <2> QED BY <2>1, <2>2
  <1>4. ASSUME NEW d \in DOMAIN dirs, NEW n \in Names
        PROVE  /\ dirs[d].entries[n] \in Seq(Nat)
               /\ Len(dirs[d].entries[n]) \in Nat \ {0}
               /\ DOMAIN dirs[d].entries[n] = 1..Len(dirs[d].entries[n])
               /\ Current(d, n) = dirs[d].entries[n][Len(dirs[d].entries[n])]
               /\ Current(d, n) \in 0..Len(files)
    <2>1. dirs[d].entries[n] \in Seq(Nat) /\ dirs[d].entries[n] # <<>>
      BY <1>3 DEF PublicationInv, Shape
    <2>2. /\ Len(dirs[d].entries[n]) \in Nat \ {0}
          /\ DOMAIN dirs[d].entries[n] = 1..Len(dirs[d].entries[n])
      BY <2>1
    <2>3. Current(d, n) = dirs[d].entries[n][Len(dirs[d].entries[n])]
      BY DEF Current
    <2>4. Current(d, n) \in 0..Len(files)
      BY <2>2, <2>3 DEF PublicationInv, Shape
    <2> QED BY <2>1, <2>2, <2>3, <2>4
  <1> QED BY <1>1, <1>2, <1>3, <1>4

\* Who publishes has the first directory, and it is at the path.
LEMMA BusyFacts ==
    ASSUME PublicationInv, NEW p \in Procs, lease[p].stage \in Busy
    PROVE  /\ EngagedAt(p) /\ dirs # <<>> /\ path = 1 /\ lease[p].dir = 1
           /\ lease[p].lock = dirs[1].lock /\ lease[p].base = dirs[1].base
  <1>1. EngagedAt(p) /\ Held(p)
    BY DEF PublicationInv, Engaged, EngagedAt
  <1>2. lease[p].dir = 1
    BY DEF PublicationInv, Alone, Trusted, Busy
  <1>3. path = 1
    BY <1>1, <1>2 DEF Held
  <1>4. dirs # <<>>
    BY <1>3 DEF PublicationInv, Shape
  <1> QED BY <1>1, <1>2, <1>3, <1>4 DEF Held

\* Two processes that were let in and find what they hold at the path are one.
LEMMA OneHolder ==
    ASSUME PublicationInv, NEW p \in Trusted, NEW q \in Trusted, Held(p), Held(q)
    PROVE  p = q
  BY DEF PublicationInv, Alone, Trusted, Held, At

LEMMA LineIs ==
    ASSUME PublicationInv
    PROVE  /\ Line = (IF dirs = <<>> THEN <<>> ELSE LineAt(Current(1, "custody")))
           /\ Line \in Seq(Nat)
  <1>1. Line = (IF dirs = <<>> THEN <<>> ELSE LineAt(Current(1, "custody")))
    BY DEF Line, LineAt
  <1>2. dirs # <<>> => Current(1, "custody") \in 0..Len(files)
    BY DirFacts DEF Names
  <1>3. \A f \in 0..Len(files) : LineAt(f) \in Seq(Nat)
    BY Facts DEF LineAt
  <1> QED BY <1>1, <1>2, <1>3

---------------------------------------------------------------------------
(* Steps that leave the entries of the first directory alone *)

\* Files stay, and what they say; a whole, synced one stays so.
FilesStay ==
    /\ Len(files) <= Len(files')
    /\ \A f \in DOMAIN files :
          /\ f \in DOMAIN files'
          /\ files'[f].says = files[f].says
          /\ files[f].parts = 4 /\ files[f].synced => files'[f].parts = 4 /\ files'[f].synced

LEMMA EntriesStay ==
    ASSUME PublicationInv, FilesStay, acked' = acked, dirs # <<>>, dirs' # <<>>,
           dirs'[1].entries = dirs[1].entries
    PROVE  Whole' /\ Chain' /\ Kept
  <1>1. \A n \in Names : \A i \in DOMAIN dirs[1].entries[n] :
           dirs[1].entries[n][i] \in 0..Len(files)
    BY DirFacts DEF PublicationInv, Shape
  <1>2. \A f \in 0..Len(files) : f # 0 => f \in DOMAIN files
    BY Facts
  <1>3. \A f \in 0..Len(files) : WholeAt(f) => WholeAt(f)'
    BY <1>2 DEF WholeAt, FilesStay
  <1>4. \A f \in 0..Len(files) : LineAt(f)' = LineAt(f)
    BY <1>2 DEF LineAt, FilesStay
  <1>5. Whole'
    BY <1>1, <1>3 DEF PublicationInv, Whole
  <1>6. Chain'
    <2> DEFINE e == dirs[1].entries["custody"]
    <2>1. \A i \in DOMAIN e : LineAt(e[i])' = LineAt(e[i])
      BY <1>1, <1>4 DEF Names
    <2>2. Len(e) \in DOMAIN e
      BY DirFacts, SMTT(20) DEF Names
    <2>3. \A i \in DOMAIN e :
             Begins(acked, LineAt(e[i])) /\ Begins(LineAt(e[i]), LineAt(e[Len(e)]))
      BY DEF PublicationInv, Chain
    <2> QED BY <2>1, <2>2, <2>3 DEF Chain
  <1>7. Kept
    <2>1. Current(1, "custody")' = Current(1, "custody")
      BY DEF Current
    <2>2. Current(1, "custody") \in 0..Len(files)
      BY DirFacts DEF Names
    <2>3. Line' = LineAt(Current(1, "custody"))' /\ Line = LineAt(Current(1, "custody"))
      BY DEF Line, LineAt
    <2> QED BY <1>4, <2>1, <2>2, <2>3 DEF Kept
  <1> QED BY <1>5, <1>6, <1>7

\* A publication in progress is not disturbed by what leaves its directory alone.
LEMMA EngagedStays ==
    ASSUME PublicationInv, NEW q \in Procs, lease[q].stage \in Busy, lease'[q] = lease[q],
           FilesStay, dirs'[1] = dirs[1], path' = path, acked' = acked
    PROVE  EngagedAt(q)'
  <1>1. /\ EngagedAt(q) /\ dirs # <<>> /\ path = 1 /\ lease[q].dir = 1
        /\ lease[q].lock = dirs[1].lock /\ lease[q].base = dirs[1].base
    BY BusyFacts
  <1>2. /\ lease[q].file \in DOMAIN files /\ lease[q].file \in DOMAIN files'
        /\ files'[lease[q].file].says = files[lease[q].file].says
    BY <1>1 DEF EngagedAt, FilesStay
  <1>3. Held(q)'
    BY <1>1 DEF Held
  <1>4. Written(q)' = Written(q) /\ Temp(q)'.says = Temp(q).says
    BY <1>2 DEF Written, BindingOf, Temp
  <1>5. \A n \in Names : Current(1, n)' = Current(1, n)
    BY DEF Current
  <1>6. lease[q].name \in Names
    BY LeaseFacts
  <1> QED BY <1>1, <1>2, <1>3, <1>4, <1>5, <1>6 DEF EngagedAt, At

\* Nothing on disk changes when no step on disk is taken.
LEMMA DiskStays ==
    ASSUME PublicationInv, UNCHANGED << disk, acked >>
    PROVE  Whole' /\ Chain' /\ Kept /\ FilesStay
  <1>1. FilesStay
    BY Facts DEF FilesStay, disk
  <1>2. CASE dirs = <<>>
    <2>1. dirs' = <<>> /\ acked' = acked
      BY <1>2 DEF disk
    <2>2. Whole' /\ Chain'
      BY <2>1 DEF Whole, Chain
    <2>3. Line = <<>> /\ Line' = <<>>
      BY <1>2, <2>1 DEF Line
    <2> QED BY <1>1, <2>1, <2>2, <2>3 DEF Kept
  <1>3. CASE dirs # <<>>
    BY <1>1, <1>3, EntriesStay DEF disk
  <1> QED BY <1>1, <1>2, <1>3

LEMMA LeaseStep ==
    ASSUME PublicationInv, NEW p \in Procs, NEW l \in Leases, l.stage \notin Busy,
           Becomes(p, l), UNCHANGED << disk, acked, harm, losses >>,
           l.stage # "out" =>
               /\ l.dir \in DOMAIN dirs
               /\ \A q \in Procs : ~At(q, "out") /\ lease[q].lock = l.lock => q = p,
           l.stage \notin {"out", "leased"} => l.dir = 1
    PROVE  PublicationInv' /\ Kept
  <1>1. /\ lease' \in [Procs -> Leases] /\ lease'[p] = l
        /\ \A q \in Procs : q # p => lease'[q] = lease[q]
    BY LeaseFacts DEF Becomes
  <1>2. TypeOK'
    BY <1>1 DEF PublicationInv, TypeOK, disk
  <1>3. Shape'
    <2>1. dirs = <<>> => l.stage = "out"
      BY DirFacts
    <2> QED BY <1>1, <2>1 DEF PublicationInv, Shape, At, disk
  <1>4. Alone'
    <2>1. \A q, r \in Procs :
             ~At(q, "out")' /\ ~At(r, "out")' /\ lease'[q].lock = lease'[r].lock => q = r
      BY <1>1 DEF PublicationInv, Alone, At
    <2>2. \A q \in Procs : ~At(q, "out")' => lease'[q].dir \in DOMAIN dirs'
      BY <1>1 DEF PublicationInv, Alone, At, disk
    <2>3. \A q \in Trusted' : lease'[q].dir = 1
      BY <1>1 DEF PublicationInv, Alone, Trusted
    <2> QED BY <2>1, <2>2, <2>3 DEF PublicationInv, Alone, disk
  <1>5. Whole' /\ Chain' /\ Kept /\ FilesStay
    BY DiskStays DEF disk
  <1>6. Engaged'
    BY <1>1, <1>5, EngagedStays DEF Engaged, disk
  <1> QED BY <1>2, <1>3, <1>4, <1>5, <1>6 DEF PublicationInv

---------------------------------------------------------------------------
(* The lease *)

LEMMA NoLeaseIsLease == NoLease \in Leases /\ NoLease.stage = "out"
  BY DEF NoLease, Leases, Stages, Names

LEMMA StopKeeps ==
    ASSUME PublicationInv, NEW p \in Procs, Stop(p)
    PROVE  PublicationInv' /\ Kept
  BY NoLeaseIsLease, LeaseStep DEF Stop, Busy

LEMMA AcquireKeeps ==
    ASSUME PublicationInv, NEW p \in Procs, Acquire(p)
    PROVE  PublicationInv' /\ Kept
  <1> DEFINE l == [NoLease EXCEPT !.stage = "leased", !.dir = path,
                                  !.lock = dirs[path].lock, !.base = dirs[path].base]
  <1>1. path \in DOMAIN dirs /\ dirs[path].lock \in Nat /\ dirs[path].base \in Nat /\ path \in Nat
    BY DirFacts DEF Acquire
  <1>2. l \in Leases /\ l.stage = "leased" /\ l.dir = path /\ l.lock = dirs[path].lock
    BY <1>1 DEF NoLease, Leases, Stages, Names
  <1>3. Becomes(p, l) /\ UNCHANGED << disk, acked, harm, losses >>
    BY DEF Acquire
  <1>4. \A q \in Procs : ~At(q, "out") => lease[q].lock # l.lock
    BY <1>2 DEF Acquire, Locked, At
  <1> HIDE DEF l
  <1> QED BY <1>1, <1>2, <1>3, <1>4, LeaseStep DEF Busy

\* What a process believes was written for its own directory, the first one.
LEMMA BelievedIsFirst ==
    ASSUME PublicationInv, NEW p \in Procs, NEW f \in 0..Len(files), Believed(p, f)
    PROVE  lease[p].dir = 1 /\ f \in DOMAIN files
  BY Facts DEF PublicationInv, Alone, Believed, BindingOf

LEMMA OpenKeeps ==
    ASSUME PublicationInv, NEW p \in Procs, Open(p)
    PROVE  PublicationInv' /\ Kept
  <1>1. PICK f : f = Current(lease[p].dir, "custody")
    OBVIOUS
  <1>2. At(p, "leased") /\ lease[p].dir \in DOMAIN dirs
    BY DEF Open, PublicationInv, Alone, At
  <1>3. f \in 0..Len(files) /\ Believed(p, f)
    BY <1>1, <1>2, DirFacts DEF Open, Names
  <1>4. PICK l : l = [lease[p] EXCEPT !.stage = "open", !.known = files[f].says]
    OBVIOUS
  <1>5. /\ Becomes(p, l) /\ UNCHANGED << disk, acked, harm, losses >>
    BY <1>1, <1>4 DEF Open
  <1>6. files[f].says \in Witnesses
    BY <1>3, BelievedIsFirst, Facts
  <1>7. /\ l \in Leases /\ l.stage = "open" /\ l.dir = lease[p].dir /\ l.lock = lease[p].lock
    BY <1>4, <1>6, LeaseFacts DEF Leases, Stages
  <1>8. \A q \in Procs : ~At(q, "out") /\ lease[q].lock = l.lock => q = p
    BY <1>2, <1>7 DEF PublicationInv, Alone, At
  <1>9. l.dir = 1
    BY <1>3, <1>7, BelievedIsFirst
  <1> QED BY <1>2, <1>5, <1>7, <1>8, <1>9, LeaseStep DEF Busy

LEMMA ResumeKeeps ==
    ASSUME PublicationInv, NEW p \in Procs, Resume(p)
    PROVE  PublicationInv' /\ Kept
  <1>1. At(p, "leased") /\ lease[p].dir \in DOMAIN dirs
    BY DEF Resume, PublicationInv, Alone, At
  <1>2. PICK f : f = Current(lease[p].dir, "allocation")
    OBVIOUS
  <1>3. f \in 0..Len(files) /\ Believed(p, f)
    BY <1>1, <1>2, DirFacts DEF Resume, Names
  <1>4. PICK l : l = [lease[p] EXCEPT !.stage = "fresh"]
    OBVIOUS
  <1>5. /\ Becomes(p, l) /\ UNCHANGED << disk, acked, harm, losses >>
    BY <1>4 DEF Resume
  <1>6. /\ l \in Leases /\ l.stage = "fresh" /\ l.dir = lease[p].dir /\ l.lock = lease[p].lock
    BY <1>4, LeaseFacts DEF Leases, Stages
  <1>7. \A q \in Procs : ~At(q, "out") /\ lease[q].lock = l.lock => q = p
    BY <1>1, <1>6 DEF PublicationInv, Alone, At
  <1>8. l.dir = 1
    BY <1>3, <1>6, BelievedIsFirst
  <1> QED BY <1>1, <1>5, <1>6, <1>7, <1>8, LeaseStep DEF Busy

\* The directory is made where there was none.
LEMMA CreateKeeps ==
    ASSUME PublicationInv, NEW p \in Procs, Create(p)
    PROVE  PublicationInv' /\ Kept
  <1>1. dirs = <<>> /\ path = 0 /\ acked = <<>> /\ \A q \in Procs : At(q, "out")
    BY DEF Create, PublicationInv, Shape
  <1>2. PICK d : d = NewDir(1, 2, [n \in Names |-> <<0>>])
    OBVIOUS
  <1>3. /\ dirs' = <<d>> /\ path' = 1 /\ objects' = 2
        /\ UNCHANGED << files, acked, harm, losses >>
    BY <1>2 DEF Create
  <1>4. d \in Dirs /\ \A n \in Names : d.entries[n] = <<0>>
    BY <1>2 DEF NewDir, Dirs
  <1>5. Len(dirs') = 1 /\ dirs'[1] = d /\ DOMAIN dirs' = {1} /\ dirs' # <<>> /\ dirs' \in Seq(Dirs)
    BY <1>3, <1>4
  <1>6. PICK l : l = [NoLease EXCEPT !.stage = "allocating", !.dir = 1, !.lock = 1, !.base = 2]
    OBVIOUS
  <1>7. l \in Leases /\ l.stage = "allocating" /\ l.dir = 1
    BY <1>6 DEF NoLease, Leases, Stages, Names
  <1>8. /\ lease' \in [Procs -> Leases] /\ lease'[p] = l
        /\ \A q \in Procs : q # p => lease'[q] = lease[q]
    BY <1>6, <1>7, LeaseFacts DEF Create, Becomes
  <1>9. TypeOK'
    BY <1>3, <1>5, <1>8 DEF PublicationInv, TypeOK
  <1>10. Shape'
    <2>1. Len(files) \in Nat
      BY Facts
    <2>2. \A n \in Names : d.entries[n] # <<>> /\ \A i \in DOMAIN d.entries[n] : d.entries[n][i] = 0
      <3>1. <<0>> # <<>> /\ \A i \in DOMAIN <<0>> : <<0>>[i] = 0
        OBVIOUS
      <3> QED BY <1>4, <3>1
    <2> QED BY <1>3, <1>5, <2>1, <2>2 DEF Shape
  <1>11. Alone'
    BY <1>1, <1>3, <1>5, <1>7, <1>8 DEF PublicationInv, Alone, At, Trusted
  <1>12. Engaged'
    BY <1>1, <1>7, <1>8 DEF Engaged, Busy, At
  <1>13. LineAt(0)' = <<>>
    BY DEF LineAt
  <1>14. Whole' /\ Chain'
    <2>1. \A n \in Names : dirs'[1].entries[n] = <<0>>
      BY <1>4, <1>5
    <2>2. Begins(<<>>, <<>>)
      BY DEF Begins
    <2>3. Whole'
      BY <2>1 DEF Whole, WholeAt
    <2>4. Chain'
      BY <1>1, <1>3, <1>13, <2>1, <2>2 DEF Chain, Names
    <2> QED BY <2>3, <2>4
  <1>15. Kept
    <2>1. Current(1, "custody")' = 0
      BY <1>4, <1>5 DEF Current, Names
    <2> QED BY <1>1, <1>3, <2>1 DEF Kept, Line
  <1> QED BY <1>9, <1>10, <1>11, <1>12, <1>14, <1>15 DEF PublicationInv

---------------------------------------------------------------------------
(* Publishing *)

\* What a step does that writes to files and changes at most one lease of a process
\* that was let in, and leaves the directories alone.
LEMMA FilesStep ==
    ASSUME PublicationInv, NEW p \in Procs, p \in Trusted, Held(p), FilesStay,
           files' \in Seq(Files), \A f \in DOMAIN files' : files'[f].says.binding.dir = 1,
           NEW l \in Leases, lease' = [lease EXCEPT ![p] = l],
           l.stage \in Busy, l.dir = lease[p].dir, l.lock = lease[p].lock,
           EngagedAt(p)', UNCHANGED << dirs, path, objects, acked, harm, losses >>
    PROVE  PublicationInv' /\ Kept
  <1>1. /\ lease' \in [Procs -> Leases] /\ lease'[p] = l
        /\ \A q \in Procs : q # p => lease'[q] = lease[q]
    BY LeaseFacts
  <1>2. path # 0 /\ dirs # <<>> /\ ~At(p, "out") /\ lease[p].dir = 1
    BY DEF PublicationInv, Shape, Alone, Held, Trusted, At
  <1>3. TypeOK'
    BY <1>1 DEF PublicationInv, TypeOK
  <1>4. Shape'
    <2>1. Len(files) \in Nat /\ Len(files') \in Nat /\ Len(files) <= Len(files')
      BY Facts DEF FilesStay
    <2>2. \A d \in DOMAIN dirs : \A n \in Names : \A i \in DOMAIN dirs[d].entries[n] :
             dirs[d].entries[n][i] \in 0..Len(files')
      BY <2>1 DEF PublicationInv, Shape
    <2> QED BY <1>2, <2>2 DEF PublicationInv, Shape
  <1>5. Alone'
    <2>1. \A q, r \in Procs :
             ~At(q, "out")' /\ ~At(r, "out")' /\ lease'[q].lock = lease'[r].lock => q = r
      BY <1>1, <1>2 DEF PublicationInv, Alone, At
    <2>2. \A q \in Procs : ~At(q, "out")' => lease'[q].dir \in DOMAIN dirs'
      BY <1>1, <1>2 DEF PublicationInv, Alone, At
    <2>3. \A q \in Trusted' : lease'[q].dir = 1
      BY <1>1, <1>2 DEF PublicationInv, Alone, Trusted
    <2> QED BY <2>1, <2>2, <2>3 DEF Alone
  <1>6. Engaged'
    BY <1>1, EngagedStays DEF Engaged
  <1>7. Whole' /\ Chain' /\ Kept
    BY <1>2, EntriesStay
  <1> QED BY <1>3, <1>4, <1>5, <1>6, <1>7 DEF PublicationInv

LEMMA BeginKeeps ==
    ASSUME PublicationInv, NEW p \in Procs, NEW name \in Names, Begin(p, name)
    PROVE  PublicationInv' /\ Kept
  <1>1. p \in Trusted /\ Held(p)
    BY DEF Begin, Trusted, At
  <1>2. lease[p].dir = 1 /\ path = 1
    BY <1>1 DEF PublicationInv, Alone, Held
  <1>3. PICK n : n = Len(files) + 1
    OBVIOUS
  <1>4. n \in Nat /\ n = Len(files) + 1 /\ n <= MaxFiles
    BY <1>3, Facts, PublicationAssumption DEF Begin
  <1>5. PICK w : w = Says(p)
    OBVIOUS
  <1>6. PICK r : r = [parts |-> 0, says |-> w, synced |-> FALSE]
    OBVIOUS
  <1>7. files' = Append(files, r)
    BY <1>5, <1>6 DEF Begin
  <1>8. PICK l : l = [lease[p] EXCEPT !.stage = "writing", !.name = name, !.file = n]
    OBVIOUS
  <1>9. /\ lease' = [lease EXCEPT ![p] = l]
        /\ UNCHANGED << dirs, path, objects, acked, harm, losses >>
    BY <1>3, <1>8 DEF Begin, Becomes
  <1>10. /\ l \in Leases /\ l.stage = "writing" /\ l.name = name /\ l.file = n
         /\ l.dir = lease[p].dir /\ l.lock = lease[p].lock /\ l.base = lease[p].base
         /\ l.known = lease[p].known
    BY <1>4, <1>8, LeaseFacts DEF Leases, Stages
  <1>11. BindingOf(p) \in Bindings /\ BindingOf(p).dir = 1
    BY <1>2, LeaseFacts DEF BindingOf, Bindings
  <1>12. w = [line |-> IF lease[p].known = None THEN <<n>> ELSE Append(lease[p].known.line, n),
              object |-> n, binding |-> BindingOf(p)]
    BY <1>3, <1>5 DEF Says
  <1>13. w \in Witnesses /\ w.binding.dir = 1
    <2>1. lease[p].known # None => lease[p].known.line \in Seq(Nat)
      BY LeaseFacts DEF Witnesses
    <2>2. (IF lease[p].known = None THEN <<n>> ELSE Append(lease[p].known.line, n)) \in Seq(Nat)
      BY <1>4, <2>1
    <2> QED BY <1>4, <1>11, <1>12, <2>2 DEF Witnesses
  <1>14. r \in Files /\ r.says = w
    BY <1>6, <1>13 DEF Files
  <1>15. /\ files' \in Seq(Files) /\ Len(files') = n /\ files'[n] = r /\ DOMAIN files' = 1..n
         /\ \A f \in DOMAIN files : f \in DOMAIN files' /\ files'[f] = files[f]
    BY <1>4, <1>7, <1>14, Facts DEF PublicationInv, TypeOK
  <1>16. FilesStay
    BY <1>4, <1>15, Facts DEF FilesStay
  <1>17. \A f \in DOMAIN files' : files'[f].says.binding.dir = 1
    BY <1>4, <1>13, <1>14, <1>15, Facts DEF PublicationInv, Alone
  <1>18. EngagedAt(p)'
    <2>1. lease'[p] = l
      BY <1>9, LeaseFacts
    <2>2. Held(p)'
      BY <1>1, <1>9, <1>10, <2>1 DEF Held
    <2>3. Written(p)' = w
      BY <1>10, <1>12, <2>1 DEF Written, BindingOf
    <2>4. Temp(p)'.says = w
      BY <1>10, <1>14, <1>15, <2>1 DEF Temp
    <2> QED BY <1>4, <1>10, <1>15, <2>1, <2>2, <2>3, <2>4 DEF EngagedAt, At
  <1> QED BY <1>1, <1>9, <1>10, <1>15, <1>16, <1>17, <1>18, FilesStep DEF Busy

\* A step that changes how much of its file a process has written or synced.
LEMMA TempStep ==
    ASSUME PublicationInv, NEW p \in Procs, At(p, "writing"), NEW r \in Files,
           r.says = Temp(p).says, Temp(p).parts # 4 \/ ~Temp(p).synced \/ r = Temp(p),
           files' = [files EXCEPT ![lease[p].file] = r],
           UNCHANGED << dirs, path, objects, lease, acked, harm, losses >>
    PROVE  PublicationInv' /\ Kept
  <1>1. lease[p].stage \in Busy /\ p \in Trusted
    BY DEF At, Busy, Trusted
  <1>2. EngagedAt(p) /\ Held(p) /\ lease[p].file \in DOMAIN files
    BY <1>1, BusyFacts DEF EngagedAt
  <1>3. /\ files' \in Seq(Files) /\ Len(files') = Len(files) /\ DOMAIN files' = DOMAIN files
        /\ files'[lease[p].file] = r
        /\ \A f \in DOMAIN files : f # lease[p].file => files'[f] = files[f]
    BY <1>2 DEF PublicationInv, TypeOK
  <1>4. FilesStay
    BY <1>3, Facts DEF FilesStay, Temp
  <1>5. \A f \in DOMAIN files' : files'[f].says.binding.dir = 1
    BY <1>3 DEF PublicationInv, Alone, Temp
  <1>6. EngagedAt(p)'
    BY <1>1, <1>4, EngagedStays
  <1>7. lease[p] \in Leases /\ lease' = [lease EXCEPT ![p] = lease[p]]
    BY LeaseFacts
  <1> QED BY <1>1, <1>2, <1>3, <1>4, <1>5, <1>6, <1>7, FilesStep

LEMMA WriteKeeps ==
    ASSUME PublicationInv, NEW p \in Procs, Write(p)
    PROVE  PublicationInv' /\ Kept
  <1>1. PICK r : r = [Temp(p) EXCEPT !.parts = @ + 1]
    OBVIOUS
  <1>2. lease[p].file \in DOMAIN files
    BY BusyFacts DEF Write, At, Busy, EngagedAt
  <1>3. Temp(p) \in Files
    BY <1>2, Facts DEF Temp
  <1>4. r \in Files /\ r.says = Temp(p).says /\ Temp(p).parts # 4
    BY <1>1, <1>3 DEF Write, Files
  <1>5. files' = [files EXCEPT ![lease[p].file] = r]
    BY <1>1 DEF Write, Temp
  <1> QED BY <1>4, <1>5, TempStep DEF Write

LEMMA SyncFileKeeps ==
    ASSUME PublicationInv, NEW p \in Procs, SyncFile(p)
    PROVE  PublicationInv' /\ Kept
  <1>1. PICK r : r = [Temp(p) EXCEPT !.synced = TRUE]
    OBVIOUS
  <1>2. lease[p].file \in DOMAIN files
    BY BusyFacts DEF SyncFile, At, Busy, EngagedAt
  <1>3. Temp(p) \in Files
    BY <1>2, Facts DEF Temp
  <1>4. r \in Files /\ r.says = Temp(p).says /\ ~Temp(p).synced
    BY <1>1, <1>3 DEF SyncFile, Files
  <1>5. files' = [files EXCEPT ![lease[p].file] = r]
    BY <1>1 DEF SyncFile, Temp
  <1> QED BY <1>4, <1>5, TempStep DEF SyncFile

\* A step of the one process that publishes which changes entries of the directory.
LEMMA EntriesStep ==
    ASSUME PublicationInv, NEW p \in Procs, lease[p].stage \in Busy,
           NEW e \in [Names -> Seq(Nat)], dirs' = [dirs EXCEPT ![1].entries = e],
           \A n \in Names : e[n] # <<>> /\ \A i \in DOMAIN e[n] : e[n][i] \in 0..Len(files),
           NEW l \in Leases, lease' = [lease EXCEPT ![p] = l], l.stage \in Busy,
           l.dir = lease[p].dir, l.lock = lease[p].lock,
           UNCHANGED << path, files, objects, acked, harm, losses >>,
           EngagedAt(p)', Whole', Chain'
    PROVE  PublicationInv'
  <1>1. /\ lease' \in [Procs -> Leases] /\ lease'[p] = l
        /\ \A q \in Procs : q # p => lease'[q] = lease[q]
    BY LeaseFacts
  <1>2. Held(p) /\ dirs # <<>> /\ path = 1 /\ lease[p].dir = 1 /\ p \in Trusted /\ ~At(p, "out")
    BY BusyFacts DEF EngagedAt, Busy, Trusted, At
  <1>3. 1 \in DOMAIN dirs /\ dirs[1] \in Dirs /\ dirs \in Seq(Dirs)
    BY <1>2, DirFacts
  <1>4. PICK d : d = [dirs[1] EXCEPT !.entries = e]
    OBVIOUS
  <1>5. d \in Dirs /\ d.entries = e
    BY <1>3, <1>4 DEF Dirs
  <1>6. dirs' = [dirs EXCEPT ![1] = d]
    BY <1>4
  <1>7. /\ dirs' \in Seq(Dirs) /\ Len(dirs') = Len(dirs) /\ DOMAIN dirs' = DOMAIN dirs
        /\ dirs'[1] = d /\ \A c \in DOMAIN dirs : c # 1 => dirs'[c] = dirs[c]
    <2>1. /\ DOMAIN dirs = 1..Len(dirs) /\ Len(dirs) \in Nat
          /\ \A c \in DOMAIN dirs : dirs[c] \in Dirs
      BY <1>3, DirFacts
    <2>2. /\ dirs' = [c \in DOMAIN dirs |-> IF c = 1 THEN d ELSE dirs[c]]
      BY <1>6
    <2>3. dirs' \in Seq(Dirs) /\ DOMAIN dirs' = DOMAIN dirs /\ Len(dirs') = Len(dirs)
      BY ONLY <1>5, <2>1, <2>2
    <2> QED BY <1>3, <2>2, <2>3
  <1>8. TypeOK'
    BY <1>1, <1>7 DEF PublicationInv, TypeOK
  <1>9. Shape'
    <2>1. dirs' # <<>> /\ path' # 0
      BY <1>2, <1>3, <1>7
    <2>2. \A c \in DOMAIN dirs' : \A n \in Names :
             /\ dirs'[c].entries[n] # <<>>
             /\ \A i \in DOMAIN dirs'[c].entries[n] : dirs'[c].entries[n][i] \in 0..Len(files')
      BY <1>5, <1>7 DEF PublicationInv, Shape
    <2> QED BY <2>1, <2>2 DEF Shape
  <1>10. Alone'
    <2>1. \A q, r \in Procs :
             ~At(q, "out")' /\ ~At(r, "out")' /\ lease'[q].lock = lease'[r].lock => q = r
      BY <1>1, <1>2 DEF PublicationInv, Alone, At
    <2>2. \A q \in Procs : ~At(q, "out")' => lease'[q].dir \in DOMAIN dirs'
      BY <1>1, <1>2, <1>7 DEF PublicationInv, Alone, At
    <2>3. \A q \in Trusted' : lease'[q].dir = 1
      BY <1>1, <1>2 DEF PublicationInv, Alone, Trusted
    <2> QED BY <2>1, <2>2, <2>3 DEF PublicationInv, Alone
  <1>11. Engaged'
    <2> SUFFICES ASSUME NEW q \in Procs, lease'[q].stage \in Busy
                 PROVE  EngagedAt(q)'
      BY DEF Engaged
    <2>1. CASE q = p
      BY <2>1
    <2>2. CASE q # p
      <3>1. lease[q].stage \in Busy
        BY <1>1, <2>2
      <3>2. Held(q) /\ q \in Trusted
        BY <3>1, BusyFacts DEF EngagedAt, Busy, Trusted
      <3> QED BY <1>2, <2>2, <3>2, OneHolder
    <2> QED BY <2>1, <2>2
  <1> QED BY <1>8, <1>9, <1>10, <1>11 DEF PublicationInv

\* What a process that may rename writes continues what is shown.
LEMMA Continues ==
    ASSUME PublicationInv, NEW p \in Procs, lease[p].stage \in Busy,
           Expected(p, "custody")
    PROVE  Temp(p).says.line = Append(Line, lease[p].file)
  <1>1. EngagedAt(p) /\ dirs # <<>> /\ lease[p].dir = 1
    BY BusyFacts
  <1>2. Temp(p).says = Written(p)
    BY <1>1 DEF EngagedAt
  <1>3. CASE lease[p].known = None
    <2>1. Current(1, "custody") = 0
      BY <1>1, <1>3 DEF Expected
    <2>2. Line = <<>>
      BY <2>1 DEF Line
    <2> QED BY <1>2, <1>3, <2>2 DEF Written
  <1>4. CASE lease[p].known # None
    <2>1. Current(1, "custody") # 0 /\ files[Current(1, "custody")].says = lease[p].known
      BY <1>1, <1>4 DEF Expected, Believed
    <2>2. Line = lease[p].known.line
      BY <1>1, <2>1 DEF Line
    <2> QED BY <1>2, <1>4, <2>2 DEF Written
  <1> QED BY <1>3, <1>4

LEMMA BeginsSelf ==
    ASSUME NEW s \in Seq(Nat)
    PROVE  Begins(s, s)
  BY DEF Begins

LEMMA BeginsMore ==
    ASSUME NEW s \in Seq(Nat), NEW t \in Seq(Nat), NEW m \in Nat, Begins(s, t)
    PROVE  Begins(s, Append(t, m)) /\ Len(s) < Len(Append(t, m))
  <1>1. Len(Append(t, m)) = Len(t) + 1 /\ \A i \in 1..Len(t) : Append(t, m)[i] = t[i]
    OBVIOUS
  <1>2. Len(s) \in Nat /\ Len(t) \in Nat
    OBVIOUS
  <1> QED BY <1>1, <1>2 DEF Begins

\* What begins a sequence is cut from it.
LEMMA BeginsCut ==
    ASSUME NEW s \in Seq(Nat), NEW t \in Seq(Nat), Begins(s, t)
    PROVE  s = SubSeq(t, 1, Len(s)) /\ Len(s) \in 0..Len(t)
  <1>1. Len(s) \in Nat /\ Len(t) \in Nat /\ Len(s) <= Len(t)
    BY DEF Begins
  <1>2. /\ SubSeq(t, 1, Len(s)) \in Seq(Nat) /\ Len(SubSeq(t, 1, Len(s))) = Len(s)
        /\ \A i \in 1..Len(s) : SubSeq(t, 1, Len(s))[i] = t[i]
    BY <1>1
  <1> QED BY <1>1, <1>2 DEF Begins

\* What the entries of the witness say.
LEMMA EntryFacts ==
    ASSUME PublicationInv, dirs # <<>>, NEW i \in DOMAIN dirs[1].entries["custody"]
    PROVE  /\ LineAt(dirs[1].entries["custody"][i]) \in Seq(Nat)
           /\ Begins(acked, LineAt(dirs[1].entries["custody"][i]))
           /\ Begins(LineAt(dirs[1].entries["custody"][i]), Line)
           /\ Begins(acked, Line)
  <1>1. PICK e : e = dirs[1].entries["custody"]
    OBVIOUS
  <1>2. Len(e) \in DOMAIN e /\ Line = LineAt(e[Len(e)])
    <2>1. 1 \in DOMAIN dirs /\ "custody" \in Names
      BY DirFacts DEF Names
    <2>2. /\ Current(1, "custody") = e[Len(e)]
          /\ DOMAIN e = 1..Len(e) /\ Len(e) \in Nat \ {0}
      BY <1>1, <2>1, DirFacts
    <2> QED BY <2>2, LineIs
  <1>3. \A j \in DOMAIN e : Begins(acked, LineAt(e[j])) /\ Begins(LineAt(e[j]), LineAt(e[Len(e)]))
    BY <1>1 DEF PublicationInv, Chain
  <1>4. e[i] \in 0..Len(files)
    <2>1. 1 \in DOMAIN dirs /\ "custody" \in Names
      BY DirFacts DEF Names
    <2> QED BY <1>1, <2>1 DEF PublicationInv, Shape
  <1>5. LineAt(e[i]) \in Seq(Nat)
    BY <1>4, Facts DEF LineAt
  <1> QED BY <1>1, <1>2, <1>3, <1>5

LEMMA RenameKeeps ==
    ASSUME PublicationInv, NEW p \in Procs, Rename(p)
    PROVE  PublicationInv' /\ (Kept \/ Published)
  <1>1. lease[p].stage \in Busy
    BY DEF Rename, At, Busy
  <1>2. /\ EngagedAt(p) /\ dirs # <<>> /\ path = 1 /\ lease[p].dir = 1
        /\ lease[p].lock = dirs[1].lock /\ lease[p].base = dirs[1].base
    BY <1>1, BusyFacts
  <1>3. PICK f, n : f = lease[p].file /\ n = lease[p].name
    OBVIOUS
  <1>4. n \in Names /\ f \in DOMAIN files /\ f \in 1..MaxFiles /\ f \in 1..Len(files)
    BY <1>2, <1>3, LeaseFacts, Facts, PublicationAssumption DEF EngagedAt
  <1>5. PICK old : old = dirs[1].entries
    OBVIOUS
  <1>6. PICK e : e = [old EXCEPT ![n] = Append(@, f)]
    OBVIOUS
  <1>7. /\ 1 \in DOMAIN dirs /\ old \in [Names -> Seq(Nat)]
        /\ \A m \in Names : old[m] # <<>> /\ \A i \in DOMAIN old[m] : old[m][i] \in 0..Len(files)
    BY <1>2, <1>5, DirFacts DEF PublicationInv, Shape
  <1>8. old[n] \in Seq(Nat) /\ f \in Nat
    BY <1>4, <1>7
  <1>9. /\ Append(old[n], f) \in Seq(Nat) /\ Len(Append(old[n], f)) = Len(old[n]) + 1
        /\ DOMAIN Append(old[n], f) = 1..Len(old[n]) + 1
        /\ Append(old[n], f)[Len(old[n]) + 1] = f
        /\ \A i \in 1..Len(old[n]) : Append(old[n], f)[i] = old[n][i]
        /\ DOMAIN old[n] = 1..Len(old[n]) /\ Len(old[n]) \in Nat
        /\ Append(old[n], f) # <<>>
    BY <1>8
  <1>10. /\ e \in [Names -> Seq(Nat)] /\ e[n] = Append(old[n], f)
         /\ \A m \in Names : m # n => e[m] = old[m]
    BY <1>4, <1>6, <1>7, <1>9
  <1>11. dirs' = [dirs EXCEPT ![1].entries = e]
    BY <1>2, <1>3, <1>5, <1>6, <1>7 DEF Rename
  <1>12. dirs'[1].entries = e /\ dirs'[1].lock = dirs[1].lock /\ dirs'[1].base = dirs[1].base
         /\ dirs' # <<>>
    BY <1>2, <1>7, <1>11, DirFacts DEF Dirs
  <1>13. \A i \in DOMAIN e[n] : e[n][i] = f \/ \E j \in DOMAIN old[n] : e[n][i] = old[n][j]
    BY <1>9, <1>10
  <1>14. \A m \in Names : e[m] # <<>> /\ \A i \in DOMAIN e[m] : e[m][i] \in 0..Len(files)
    <2>1. Len(files) \in Nat
      BY Facts
    <2>2. ASSUME NEW m \in Names, m # n
          PROVE  e[m] # <<>> /\ \A i \in DOMAIN e[m] : e[m][i] \in 0..Len(files)
      BY <1>7, <1>10, <2>2
    <2>3. e[n] # <<>>
      BY <1>9, <1>10
    <2>4. \A i \in DOMAIN e[n] : e[n][i] \in 0..Len(files)
      BY <1>4, <1>7, <1>13, <2>1
    <2> QED BY <2>2, <2>3, <2>4
  <1>15. PICK l : l = [lease[p] EXCEPT !.stage = "renamed"]
    OBVIOUS
  <1>16. /\ lease' = [lease EXCEPT ![p] = l]
         /\ UNCHANGED << path, files, objects, acked, harm, losses >>
    BY <1>15 DEF Rename, Becomes
  <1>17. /\ l \in Leases /\ l.stage = "renamed" /\ l.name = n /\ l.file = f /\ l.dir = lease[p].dir
         /\ l.lock = lease[p].lock /\ l.base = lease[p].base /\ l.known = lease[p].known
    BY <1>3, <1>15, LeaseFacts DEF Leases, Stages
  <1>18. lease'[p] = l
    BY <1>16, LeaseFacts
  <1>19. files[f].parts = 4 /\ files[f].synced /\ files[f].says = Written(p) /\ files[f].says.object = f
    BY <1>2, <1>3 DEF Rename, Ready, Temp, EngagedAt, Written
  <1>20. Whole'
    <2>1. WholeAt(f)
      BY <1>19 DEF WholeAt
    <2>2. \A m \in Names : \A i \in DOMAIN old[m] : WholeAt(old[m][i])
      BY <1>2, <1>5 DEF PublicationInv, Whole
    <2>3. \A m \in Names : \A i \in DOMAIN e[m] : WholeAt(e[m][i])
      BY <1>10, <1>13, <1>4, <2>1, <2>2
    <2> QED BY <1>12, <1>16, <2>3 DEF Whole, WholeAt
  <1>21. Current(1, n)' = f
    BY <1>9, <1>10, <1>12 DEF Current
  <1>22. CASE n = "custody"
    <2>1. LineAt(f) = Append(Line, f)
      <3>1. Temp(p).says.line = Append(Line, f)
        BY <1>1, <1>3, <1>22, Continues DEF Rename
      <3> QED BY <1>3, <1>4, <3>1 DEF LineAt, Temp
    <2>2. Line \in Seq(Nat) /\ acked \in Seq(Nat)
      BY LineIs, Facts
    <2>3. \A i \in DOMAIN old[n] : /\ LineAt(old[n][i]) \in Seq(Nat)
                                    /\ Begins(acked, LineAt(old[n][i]))
                                    /\ Begins(LineAt(old[n][i]), Line)
      BY <1>2, <1>5, <1>22, EntryFacts
    <2>4. Begins(acked, Line)
      <3>1. 1 \in DOMAIN old[n]
        BY <1>7, <1>4, <1>9
      <3> QED BY <1>2, <1>5, <1>22, <3>1, EntryFacts
    <2>5. Begins(acked, LineAt(f)) /\ Begins(LineAt(f), LineAt(f)) /\ Len(acked) < Len(LineAt(f))
      <3>1. Append(Line, f) \in Seq(Nat)
        BY <1>8, <2>2
      <3> QED BY <1>8, <2>1, <2>2, <2>4, <3>1, BeginsMore, BeginsSelf
    <2>6. \A i \in DOMAIN old[n] : Begins(LineAt(old[n][i]), LineAt(f))
      BY <1>8, <2>1, <2>2, <2>3, BeginsMore
    <2>7. \A i \in DOMAIN e[n] : Begins(acked, LineAt(e[n][i])) /\ Begins(LineAt(e[n][i]), LineAt(f))
      BY <1>13, <2>3, <2>5, <2>6
    <2>8. e[n][Len(e[n])] = f
      BY <1>9, <1>10
    <2>9. Chain'
      <3>1. \A x : LineAt(x)' = LineAt(x)
        BY <1>16 DEF LineAt
      <3> QED BY <1>12, <1>16, <1>22, <2>7, <2>8, <3>1 DEF Chain
    <2>10. Published
      <3>1. Line' = LineAt(f)
        BY <1>4, <1>12, <1>16, <1>21, <1>22 DEF Line, LineAt
      <3> QED BY <1>4, <1>16, <2>1, <3>1 DEF Published
    <2>11. EngagedAt(p)'
      <3>1. Held(p)'
        BY <1>2, <1>12, <1>16, <1>17, <1>18 DEF Held
      <3>2. Written(p)' = Written(p) /\ Temp(p)' = files[f]
        <4>1. Written(p)' = Written(p)
          BY <1>17, <1>18, <1>3 DEF Written, BindingOf
        <4>2. Temp(p)' = files[f]
          BY <1>16, <1>17, <1>18 DEF Temp
        <4> QED BY <4>1, <4>2
      <3>3. Len(acked') < Len(Temp(p)'.says.line)
        BY <1>4, <1>16, <2>5, <3>2 DEF LineAt
      <3> QED BY <1>4, <1>16, <1>17, <1>18, <1>19, <1>21, <3>1, <3>2, <3>3 DEF EngagedAt, At
    <2>12. PublicationInv'
      BY <1>1, <1>10, <1>11, <1>14, <1>16, <1>17, <1>20, <2>9, <2>11, EntriesStep DEF Busy
    <2> QED BY <2>10, <2>12
  <1>23. CASE n = "allocation"
    <2>1. e["custody"] = old["custody"]
      BY <1>10, <1>23 DEF Names
    <2>2. Current(1, "custody")' = Current(1, "custody")
      BY <1>5, <1>12, <2>1 DEF Current
    <2>3. Kept
      BY <1>2, <1>12, <1>16, <2>2 DEF Kept, Line
    <2>4. Chain'
      <3>1. \A x : LineAt(x)' = LineAt(x)
        BY <1>16 DEF LineAt
      <3> QED BY <1>2, <1>5, <1>12, <1>16, <2>1, <3>1 DEF PublicationInv, Chain
    <2>5. EngagedAt(p)'
      <3>1. Held(p)'
        BY <1>2, <1>12, <1>16, <1>17, <1>18 DEF Held
      <3>2. Written(p)' = Written(p) /\ Temp(p)' = files[f]
        <4>1. Written(p)' = Written(p)
          BY <1>17, <1>18, <1>3 DEF Written, BindingOf
        <4>2. Temp(p)' = files[f]
          BY <1>16, <1>17, <1>18 DEF Temp
        <4> QED BY <4>1, <4>2
      <3> QED BY <1>4, <1>16, <1>17, <1>18, <1>19, <1>21, <1>23, <3>1, <3>2 DEF EngagedAt, At
    <2>6. PublicationInv'
      BY <1>1, <1>10, <1>11, <1>14, <1>16, <1>17, <1>20, <2>4, <2>5, EntriesStep DEF Busy
    <2> QED BY <2>3, <2>6
  <1> QED BY <1>4, <1>22, <1>23 DEF Names

LEMMA SyncDirectoryKeeps ==
    ASSUME PublicationInv, NEW p \in Procs, SyncDirectory(p)
    PROVE  PublicationInv' /\ Kept
  <1>1. lease[p].stage \in Busy
    BY DEF SyncDirectory, At, Busy
  <1>2. /\ EngagedAt(p) /\ dirs # <<>> /\ path = 1 /\ lease[p].dir = 1
        /\ lease[p].lock = dirs[1].lock /\ lease[p].base = dirs[1].base
    BY <1>1, BusyFacts
  <1>3. PICK e : e = [n \in Names |-> <<Current(1, n)>>]
    OBVIOUS
  <1>4. 1 \in DOMAIN dirs /\ \A n \in Names : Current(1, n) \in 0..Len(files)
    BY <1>2, DirFacts
  <1>5. \A n \in Names : /\ Len(dirs[1].entries[n]) \in DOMAIN dirs[1].entries[n]
                         /\ Current(1, n) = dirs[1].entries[n][Len(dirs[1].entries[n])]
    BY <1>4, DirFacts, SMTT(20)
  <1>6. /\ e \in [Names -> Seq(Nat)]
        /\ \A n \in Names : /\ e[n] = <<Current(1, n)>> /\ DOMAIN e[n] = {1} /\ Len(e[n]) = 1
                            /\ e[n] # <<>> /\ e[n][1] = Current(1, n)
    <2>1. Len(files) \in Nat
      BY Facts
    <2>2. ASSUME NEW n \in Names
          PROVE  /\ e[n] = <<Current(1, n)>> /\ e[n] \in Seq(Nat) /\ DOMAIN e[n] = {1}
                 /\ Len(e[n]) = 1 /\ e[n] # <<>> /\ e[n][1] = Current(1, n)
      <3>1. e[n] = <<Current(1, n)>> /\ Current(1, n) \in Nat
        BY <1>3, <1>4, <2>1
      <3> QED BY <3>1
    <2> QED BY <1>3, <2>2
  <1>7. dirs' = [dirs EXCEPT ![1].entries = e]
    BY <1>2, <1>3 DEF SyncDirectory
  <1>8. dirs'[1].entries = e /\ dirs'[1].lock = dirs[1].lock /\ dirs'[1].base = dirs[1].base
        /\ dirs' # <<>>
    BY <1>4, <1>7, DirFacts, SMTT(20) DEF Dirs
  <1>9. PICK l : l = [lease[p] EXCEPT !.stage = "synced"]
    OBVIOUS
  <1>10. /\ lease' = [lease EXCEPT ![p] = l]
         /\ UNCHANGED << path, files, objects, acked, harm, losses >>
    BY <1>9 DEF SyncDirectory, Becomes
  <1>11. /\ l \in Leases /\ l.stage = "synced" /\ l.name = lease[p].name /\ l.file = lease[p].file
         /\ l.dir = lease[p].dir /\ l.lock = lease[p].lock /\ l.base = lease[p].base
         /\ l.known = lease[p].known
    BY <1>9, LeaseFacts DEF Leases, Stages
  <1>12. lease'[p] = l /\ lease[p].name \in Names
    BY <1>10, LeaseFacts
  <1>13. \A x : LineAt(x)' = LineAt(x) /\ WholeAt(x)' = WholeAt(x)
    BY <1>10 DEF LineAt, WholeAt
  <1>14. Whole'
    <2>1. \A n \in Names : WholeAt(Current(1, n))
      BY <1>2, <1>5 DEF PublicationInv, Whole
    <2> QED BY <1>6, <1>8, <1>13, <2>1 DEF Whole
  <1>15. "custody" \in Names
    BY DEF Names
  <1>16. Chain'
    <2>1. /\ Begins(acked, LineAt(Current(1, "custody")))
          /\ Begins(LineAt(Current(1, "custody")), LineAt(Current(1, "custody")))
      BY <1>2, <1>5, <1>15 DEF PublicationInv, Chain
    <2> QED BY <1>6, <1>8, <1>10, <1>13, <1>15, <2>1 DEF Chain
  <1>17. \A n \in Names : Current(1, n)' = Current(1, n)
    BY <1>6, <1>8 DEF Current
  <1>18. EngagedAt(p)'
    <2>1. Held(p)'
      BY <1>2, <1>8, <1>10, <1>11, <1>12 DEF Held
    <2>2. Written(p)' = Written(p)
      BY <1>11, <1>12 DEF Written, BindingOf
    <2>3. Temp(p)' = Temp(p)
      BY <1>10, <1>11, <1>12 DEF Temp
    <2>4. /\ Current(1, lease[p].name) = lease[p].file
          /\ lease[p].name = "custody" => Len(acked) < Len(Temp(p).says.line)
          /\ lease[p].file \in DOMAIN files /\ lease[p].file <= MaxFiles
          /\ Temp(p).says = Written(p)
      BY <1>2 DEF EngagedAt, SyncDirectory, At
    <2>5. dirs'[1].entries[lease[p].name] = <<lease[p].file>>
      BY <1>6, <1>8, <1>12, <2>4
    <2> QED BY <1>10, <1>11, <1>12, <1>17, <2>1, <2>2, <2>3, <2>4, <2>5 DEF EngagedAt, At
  <1>19. \A n \in Names : e[n] # <<>> /\ \A i \in DOMAIN e[n] : e[n][i] \in 0..Len(files)
    BY <1>4, <1>6
  <1>20. PublicationInv'
    BY <1>1, <1>6, <1>7, <1>10, <1>11, <1>14, <1>16, <1>18, <1>19, EntriesStep DEF Busy
  <1>21. Kept
    BY <1>2, <1>8, <1>10, <1>15, <1>17 DEF Kept, Line
  <1> QED BY <1>20, <1>21

LEMMA ConfirmKeeps ==
    ASSUME PublicationInv, NEW p \in Procs, Confirm(p)
    PROVE  PublicationInv' /\ (Kept \/ Acknowledged)
  <1>1. lease[p].stage \in Busy /\ At(p, "synced")
    BY DEF Confirm, At, Busy
  <1>2. /\ EngagedAt(p) /\ dirs # <<>> /\ path = 1 /\ lease[p].dir = 1 /\ 1 \in DOMAIN dirs
        /\ p \in Trusted /\ ~At(p, "out")
    BY <1>1, BusyFacts, DirFacts DEF Trusted, Busy, At
  <1>3. \A q \in Procs : ~At(q, "out") /\ lease[q].lock = lease[p].lock => q = p
    BY <1>2 DEF PublicationInv, Alone
  <1>4. CASE lease[p].name = "allocation"
    <2>1. PICK l : l = [lease[p] EXCEPT !.stage = "fresh"]
      OBVIOUS
    <2>2. Becomes(p, l) /\ UNCHANGED << disk, acked, harm, losses >>
      BY <1>4, <2>1 DEF Confirm
    <2>3. l \in Leases /\ l.stage = "fresh" /\ l.dir = lease[p].dir /\ l.lock = lease[p].lock
      BY <2>1, LeaseFacts DEF Leases, Stages
    <2> QED BY <1>2, <1>3, <2>2, <2>3, LeaseStep DEF Busy
  <1>5. CASE lease[p].name # "allocation"
    <2>1. lease[p].name = "custody"
      BY <1>5, LeaseFacts DEF Names
    <2>2. PICK w, f : w = Temp(p).says /\ f = lease[p].file
      OBVIOUS
    <2>3. PICK l : l = [lease[p] EXCEPT !.stage = "open", !.known = w]
      OBVIOUS
    <2>4. /\ Becomes(p, l) /\ acked' = w.line /\ UNCHANGED << disk, harm, losses >>
      BY <1>5, <2>2, <2>3 DEF Confirm
    <2>5. f \in DOMAIN files /\ w = files[f].says /\ w \in Witnesses /\ w.line \in Seq(Nat)
      BY <1>2, <2>2, Facts DEF EngagedAt, Temp
    <2>6. l \in Leases /\ l.stage = "open" /\ l.dir = lease[p].dir /\ l.lock = lease[p].lock
      BY <2>3, <2>5, LeaseFacts DEF Leases, Stages
    <2>7. /\ lease' \in [Procs -> Leases] /\ lease'[p] = l
          /\ \A q \in Procs : q # p => lease'[q] = lease[q]
      BY <2>4, <2>6, LeaseFacts DEF Becomes
    <2>8. dirs[1].entries["custody"] = <<f>> /\ Len(acked) < Len(w.line)
      BY <1>1, <1>2, <2>1, <2>2 DEF EngagedAt, At
    <2>9. TypeOK'
      BY <2>4, <2>5, <2>7 DEF PublicationInv, TypeOK, disk
    <2>10. Shape'
      BY <1>2, <2>4 DEF PublicationInv, Shape, disk
    <2>11. Alone'
      <3>1. \A q, r \in Procs :
               ~At(q, "out")' /\ ~At(r, "out")' /\ lease'[q].lock = lease'[r].lock => q = r
        BY <1>2, <2>6, <2>7 DEF PublicationInv, Alone, At
      <3>2. \A q \in Procs : ~At(q, "out")' => lease'[q].dir \in DOMAIN dirs'
        BY <1>2, <2>4, <2>6, <2>7 DEF PublicationInv, Alone, At, disk
      <3>3. \A q \in Trusted' : lease'[q].dir = 1
        BY <1>2, <2>6, <2>7 DEF PublicationInv, Alone, Trusted
      <3> QED BY <2>4, <3>1, <3>2, <3>3 DEF PublicationInv, Alone, disk
    <2>12. Engaged'
      <3> SUFFICES ASSUME NEW q \in Procs, lease'[q].stage \in Busy
                   PROVE  FALSE
        BY DEF Engaged
      <3>1. q # p /\ lease[q].stage \in Busy
        BY <2>6, <2>7 DEF Busy
      <3>2. Held(q) /\ q \in Trusted
        BY <3>1, BusyFacts DEF EngagedAt, Busy, Trusted
      <3> QED BY <1>2, <3>1, <3>2, OneHolder DEF EngagedAt
    <2>13. Whole'
      BY <2>4 DEF PublicationInv, Whole, WholeAt, disk
    <2>14. f # 0 /\ LineAt(f) = w.line
      BY <2>5, Facts DEF LineAt
    <2>15. Line = w.line /\ Line' = Line
      <3>1. Current(1, "custody") = f
        BY <1>1, <1>2, <2>1, <2>2 DEF EngagedAt, At
      <3>2. Line = w.line
        BY <1>2, <2>14, <3>1, LineIs
      <3>3. Line' = Line
        BY <2>4 DEF Line, Current, disk
      <3> QED BY <3>2, <3>3
    <2>16. Chain'
      <3>1. Begins(w.line, w.line)
        BY <2>5, BeginsSelf
      <3>2. \A x : LineAt(x)' = LineAt(x)
        BY <2>4 DEF LineAt, disk
      <3>3. dirs'[1].entries["custody"] = <<f>>
        BY <2>4, <2>8 DEF disk
      <3> QED BY <2>4, <2>14, <3>1, <3>2, <3>3 DEF Chain
    <2>17. Acknowledged
      BY <2>4, <2>8, <2>15 DEF Acknowledged
    <2> QED BY <2>9, <2>10, <2>11, <2>12, <2>13, <2>16, <2>17 DEF PublicationInv
  <1> QED BY <1>4, <1>5

---------------------------------------------------------------------------
(* Losses of power, copies and replacements *)

LEMMA LosePowerKeeps ==
    ASSUME PublicationInv, LosePower
    PROVE  PublicationInv' /\ (Kept \/ Lost)
  <1>1. PICK torn \in SUBSET {f \in DOMAIN files : ~files[f].synced} :
           files' = [f \in DOMAIN files |->
                        IF f \in torn THEN [files[f] EXCEPT !.parts = 0] ELSE files[f]]
    BY DEF LosePower
  <1>2. /\ lease' = [p \in Procs |-> NoLease] /\ losses < MaxLosses /\ losses' = losses + 1
        /\ UNCHANGED << path, objects, acked, harm >>
    BY DEF LosePower
  <1>3. ASSUME NEW f \in DOMAIN files
        PROVE  /\ files'[f] \in Files /\ files'[f].says = files[f].says
               /\ files[f].synced => files'[f] = files[f]
    <2>1. files[f] \in Files
      BY Facts
    <2>2. CASE f \in torn
      <3>1. files'[f] = [files[f] EXCEPT !.parts = 0] /\ ~files[f].synced
        BY <1>1, <2>2
      <3> QED BY <2>1, <3>1 DEF Files
    <2>3. CASE f \notin torn
      BY <1>1, <2>1, <2>3
    <2> QED BY <2>2, <2>3
  <1>4. DOMAIN files' = DOMAIN files /\ DOMAIN files = 1..Len(files) /\ Len(files) \in Nat
    BY <1>1, Facts
  <1>5. files' \in Seq(Files) /\ Len(files') = Len(files)
    BY <1>1, <1>3, <1>4
  <1>6. FilesStay
    BY <1>3, <1>4, <1>5 DEF FilesStay
  <1>7. /\ lease' \in [Procs -> Leases]
        /\ \A p \in Procs : lease'[p].stage = "out"
    BY <1>2, NoLeaseIsLease
  <1>8. losses' \in 0..MaxLosses
    BY <1>2, PublicationAssumption DEF PublicationInv, TypeOK
  <1>9. Engaged'
    BY <1>7 DEF Engaged, Busy
  <1>10. CASE dirs = <<>>
    <2>1. dirs' = <<>>
      BY <1>10 DEF LosePower
    <2>2. TypeOK'
      BY <1>2, <1>5, <1>7, <1>8, <1>10, <2>1 DEF PublicationInv, TypeOK
    <2>3. Shape'
      BY <1>2, <1>7, <1>10, <2>1 DEF PublicationInv, Shape, At
    <2>4. Alone'
      BY <1>3, <1>4, <1>7 DEF PublicationInv, Alone, At, Trusted
    <2>5. Whole' /\ Chain'
      BY <2>1 DEF Whole, Chain
    <2>6. Kept
      BY <1>2, <1>10, <2>1 DEF Kept, Line
    <2> QED BY <1>9, <2>2, <2>3, <2>4, <2>5, <2>6 DEF PublicationInv
  <1>11. CASE dirs # <<>>
    <2>1. PICK left \in [Names -> 0..Len(files)] :
             /\ \A n \in Names : left[n] \in Entries(n)
             /\ dirs' = [dirs EXCEPT ![1].entries = [n \in Names |-> <<left[n]>>]]
      BY <1>11 DEF LosePower
    <2>2. PICK e : e = [n \in Names |-> <<left[n]>>]
      OBVIOUS
    <2>3. /\ e \in [Names -> Seq(Nat)]
          /\ \A n \in Names : /\ e[n] = <<left[n]>> /\ DOMAIN e[n] = {1} /\ Len(e[n]) = 1
                              /\ e[n] # <<>> /\ e[n][1] = left[n] /\ left[n] \in 0..Len(files)
      <3>1. ASSUME NEW n \in Names
            PROVE  /\ e[n] = <<left[n]>> /\ e[n] \in Seq(Nat) /\ DOMAIN e[n] = {1}
                   /\ Len(e[n]) = 1 /\ e[n] # <<>> /\ e[n][1] = left[n] /\ left[n] \in 0..Len(files)
        <4>1. e[n] = <<left[n]>> /\ left[n] \in Nat /\ left[n] \in 0..Len(files)
          BY <1>4, <2>2
        <4> QED BY <4>1
      <3> QED BY <2>2, <3>1
    <2>4. \A n \in Names : \E i \in DOMAIN dirs[1].entries[n] : left[n] = dirs[1].entries[n][i]
      BY <1>11, <2>1 DEF Entries
    <2>5. 1 \in DOMAIN dirs /\ dirs[1] \in Dirs /\ dirs \in Seq(Dirs) /\ path # 0
          /\ DOMAIN dirs = 1..Len(dirs) /\ Len(dirs) \in Nat
      BY <1>11, DirFacts DEF PublicationInv, Shape
    <2>6. PICK d : d = [dirs[1] EXCEPT !.entries = e]
      OBVIOUS
    <2>7. d \in Dirs /\ d.entries = e
      BY <2>3, <2>5, <2>6 DEF Dirs
    <2>8. dirs' = [dirs EXCEPT ![1] = d]
      BY <2>1, <2>2, <2>6
    <2>9. /\ dirs' \in Seq(Dirs) /\ Len(dirs') = Len(dirs) /\ DOMAIN dirs' = DOMAIN dirs
          /\ dirs'[1] = d /\ \A c \in DOMAIN dirs : c # 1 => dirs'[c] = dirs[c]
      <3>1. \A c \in DOMAIN dirs : dirs[c] \in Dirs
        BY DirFacts
      <3>2. dirs' = [c \in DOMAIN dirs |-> IF c = 1 THEN d ELSE dirs[c]]
        BY <2>8
      <3>3. dirs' \in Seq(Dirs) /\ DOMAIN dirs' = DOMAIN dirs /\ Len(dirs') = Len(dirs)
        BY ONLY <2>5, <2>7, <3>1, <3>2
      <3> QED BY <2>5, <3>2, <3>3
    <2>10. TypeOK'
      BY <1>2, <1>5, <1>7, <1>8, <2>9 DEF PublicationInv, TypeOK
    <2>11. Shape'
      <3>1. dirs' # <<>> /\ path' # 0
        BY <1>2, <2>5, <2>9
      <3>2. ASSUME NEW c \in DOMAIN dirs', NEW n \in Names
            PROVE  /\ dirs'[c].entries[n] # <<>>
                   /\ \A i \in DOMAIN dirs'[c].entries[n] : dirs'[c].entries[n][i] \in 0..Len(files')
        <4>1. CASE c = 1
          BY <1>5, <2>3, <2>7, <2>9, <4>1
        <4>2. CASE c # 1
          <5>1. dirs'[c] = dirs[c] /\ c \in DOMAIN dirs
            BY <2>9, <4>2
          <5> QED BY <1>5, <5>1 DEF PublicationInv, Shape
        <4> QED BY <4>1, <4>2
      <3> QED BY <3>1, <3>2 DEF Shape
    <2>12. Alone'
      BY <1>3, <1>4, <1>7 DEF PublicationInv, Alone, At, Trusted
    <2>13. "custody" \in Names /\ "allocation" \in Names
      BY DEF Names
    <2>14. PICK i \in DOMAIN dirs[1].entries["custody"] : left["custody"] = dirs[1].entries["custody"][i]
      BY <2>4, <2>13
    <2>15. PICK s : s = LineAt(left["custody"])
      OBVIOUS
    <2>16. s \in Seq(Nat) /\ Begins(acked, s) /\ Begins(s, Line) /\ Begins(acked, Line)
      BY <1>11, <2>14, <2>15, EntryFacts
    <2>17. \A f \in 0..Len(files) : LineAt(f)' = LineAt(f) /\ (WholeAt(f) => WholeAt(f)')
      BY <1>3, <1>4 DEF LineAt, WholeAt
    <2>18. Whole'
      <3>1. \A n \in Names : WholeAt(left[n])
        BY <1>11, <2>4 DEF PublicationInv, Whole
      <3>2. \A n \in Names : WholeAt(left[n])'
        BY <2>3, <2>17, <3>1
      <3> QED BY <2>3, <2>7, <2>9, <3>2 DEF Whole
    <2>19. LineAt(left["custody"])' = s
      BY <2>3, <2>13, <2>15, <2>17
    <2>20. Chain'
      <3>1. Begins(s, s)
        BY <2>16, BeginsSelf
      <3>2. dirs'[1].entries["custody"] = <<left["custody"]>>
        BY <2>3, <2>7, <2>9, <2>13
      <3>3. Begins(acked', LineAt(left["custody"])') /\ Begins(LineAt(left["custody"])', LineAt(left["custody"])')
        BY <1>2, <2>16, <2>19, <3>1
      <3> QED BY <3>2, <3>3 DEF Chain
    <2>21. Line' = s
      <3>1. Current(1, "custody")' = left["custody"]
        BY <2>3, <2>7, <2>9, <2>13 DEF Current
      <3>2. Line' = LineAt(left["custody"])'
        BY <1>5, <2>5, <2>9, <3>1 DEF Line, LineAt
      <3> QED BY <2>19, <3>2
    <2>22. Lost
      <3>1. Line \in Seq(Nat) /\ acked \in Seq(Nat)
        BY LineIs, Facts
      <3>2. s = SubSeq(Line, 1, Len(s)) /\ Len(s) \in 0..Len(Line)
        BY <2>16, <3>1, BeginsCut
      <3>3. Len(acked) \in 0..Len(s)
        BY <2>16, <3>1, BeginsCut
      <3>4. Len(s) \in Len(acked)..Len(Line)
        BY <3>2, <3>3
      <3> QED BY <1>2, <2>21, <3>2, <3>4 DEF Lost
    <2> QED BY <1>9, <2>10, <2>11, <2>12, <2>18, <2>20, <2>22 DEF PublicationInv
  <1> QED BY <1>10, <1>11

\* Steps taken while nobody publishes, which leave files and entries alone.
LEMMA RestStep ==
    ASSUME PublicationInv, AtRest, Harm, path # 0, dirs' \in Seq(Dirs), DOMAIN dirs' = DOMAIN dirs,
           Len(dirs') = Len(dirs), \A d \in DOMAIN dirs : dirs'[d].entries = dirs[d].entries,
           path' \in DOMAIN dirs, objects' \in Nat, UNCHANGED << files, lease, acked, losses >>
    PROVE  PublicationInv' /\ Kept
  <1>1. dirs # <<>> /\ 1 \in DOMAIN dirs /\ DOMAIN dirs = 1..Len(dirs) /\ Len(dirs) \in Nat
    BY DirFacts DEF PublicationInv, Shape
  <1>2. dirs' # <<>> /\ path' # 0 /\ dirs'[1].entries = dirs[1].entries
    BY <1>1
  <1>3. TypeOK'
    BY <1>1, PublicationAssumption DEF PublicationInv, TypeOK, Harm
  <1>4. Shape'
    BY <1>2 DEF PublicationInv, Shape
  <1>5. Alone'
    BY DEF PublicationInv, Alone, At, Trusted
  <1>6. Engaged'
    BY DEF AtRest, Engaged, Busy
  <1>7. FilesStay
    BY Facts DEF FilesStay
  <1>8. Whole' /\ Chain' /\ Kept
    BY <1>1, <1>2, <1>7, EntriesStay
  <1> QED BY <1>3, <1>4, <1>5, <1>6, <1>8 DEF PublicationInv

LEMMA SwapKeeps ==
    ASSUME PublicationInv, Swap
    PROVE  PublicationInv' /\ Kept
  <1>1. /\ dirs' \in Seq(Dirs) /\ objects' \in Nat /\ path' \in DOMAIN dirs
    BY DEF PublicationInv, TypeOK, Swap
  <1> QED BY <1>1, RestStep DEF Swap

LEMMA ReplaceKeeps ==
    ASSUME PublicationInv, Replace
    PROVE  PublicationInv' /\ Kept
  <1>1. PICK d : d = IF dirs' = [dirs EXCEPT ![path].lock = objects']
                       THEN [dirs[path] EXCEPT !.lock = objects']
                       ELSE [dirs[path] EXCEPT !.base = objects']
    OBVIOUS
  <1>2. dirs' = [dirs EXCEPT ![path] = d]
    BY <1>1 DEF Replace
  <1>3. /\ path \in DOMAIN dirs /\ dirs[path] \in Dirs /\ objects' \in Nat
        /\ DOMAIN dirs = 1..Len(dirs) /\ Len(dirs) \in Nat /\ \A c \in DOMAIN dirs : dirs[c] \in Dirs
    BY DirFacts DEF Replace, PublicationInv, TypeOK
  <1>4. d \in Dirs /\ d.entries = dirs[path].entries
    BY <1>1, <1>3 DEF Dirs
  <1>5. dirs' = [c \in DOMAIN dirs |-> IF c = path THEN d ELSE dirs[c]]
    BY <1>2
  <1>6. dirs' \in Seq(Dirs) /\ DOMAIN dirs' = DOMAIN dirs /\ Len(dirs') = Len(dirs)
    BY ONLY <1>3, <1>4, <1>5
  <1>7. \A c \in DOMAIN dirs : dirs'[c].entries = dirs[c].entries
    BY <1>4, <1>5
  <1> QED BY <1>3, <1>6, <1>7, RestStep DEF Replace

LEMMA CopyKeeps ==
    ASSUME PublicationInv, Copy
    PROVE  PublicationInv' /\ Kept
  <1>1. /\ path \in DOMAIN dirs /\ dirs # <<>> /\ 1 \in DOMAIN dirs /\ dirs \in Seq(Dirs)
        /\ DOMAIN dirs = 1..Len(dirs) /\ Len(dirs) \in Nat /\ objects \in Nat
        /\ files \in Seq(Files)
    BY DirFacts DEF Copy, PublicationInv, TypeOK, Shape
  <1>2. PICK there : there = {n \in Names : Current(path, n) # 0}
    OBVIOUS
  <1>3. PICK same : same = [n \in Names |->
             IF n \in there THEN <<files[Current(path, n)]>> ELSE <<>>]
    OBVIOUS
  <1>4. PICK number : number = [n \in Names |->
             IF n \notin there THEN 0
             ELSE IF n = "allocation" THEN Len(files) + 1
             ELSE IF "allocation" \in there THEN Len(files) + 2 ELSE Len(files) + 1]
    OBVIOUS
  <1>5. "allocation" \in Names /\ "custody" \in Names
    BY DEF Names
  <1>6. files' = files \o same["allocation"] \o same["custody"]
    BY <1>2, <1>3, <1>5 DEF Copy
  <1>7. /\ UNCHANGED << path, lease, acked, harm, losses >> /\ objects' = objects + 2
    BY DEF Copy
  <1>8. Len(files) \in Nat
    BY <1>1
  <1>9. ASSUME NEW n \in Names
        PROVE  /\ same[n] \in Seq(Files)
               /\ n \in there => /\ Len(same[n]) = 1 /\ same[n][1] = files[Current(path, n)]
                                 /\ Current(path, n) \in DOMAIN files
               /\ n \notin there => same[n] = <<>>
    <2>1. CASE n \in there
      <3>1. Current(path, n) \in DOMAIN files
        BY <1>1, <1>2, <2>1, DirFacts, Facts
      <3>2. files[Current(path, n)] \in Files
        BY <3>1, Facts
      <3>3. same[n] = <<files[Current(path, n)]>>
        BY <1>3, <2>1
      <3> QED BY <2>1, <3>1, <3>2, <3>3
    <2>2. CASE n \notin there
      <3>1. same[n] = <<>>
        BY <1>3, <2>2
      <3> QED BY <2>2, <3>1
    <2> QED BY <2>1, <2>2
  <1>10. PICK a, c : a = same["allocation"] /\ c = same["custody"]
    OBVIOUS
  <1>11. a \in Seq(Files) /\ c \in Seq(Files) /\ Len(a) \in {0, 1} /\ Len(c) \in {0, 1}
         /\ ("allocation" \in there => Len(a) = 1) /\ ("custody" \in there => Len(c) = 1)
    <2>1. Len(<<>>) = 0
      OBVIOUS
    <2> QED BY <1>5, <1>9, <1>10, <2>1
  <1>12. PICK fa : fa = files \o a
    OBVIOUS
  <1>13. /\ fa \in Seq(Files) /\ Len(fa) = Len(files) + Len(a)
         /\ \A f \in 1..Len(files) : fa[f] = files[f]
         /\ \A i \in 1..Len(a) : fa[Len(files) + i] = a[i]
    BY <1>1, <1>11, <1>12
  <1>14. files' = fa \o c
    BY <1>6, <1>10, <1>12
  <1>15. /\ files' \in Seq(Files) /\ Len(files') = Len(files) + Len(a) + Len(c)
         /\ \A f \in 1..Len(fa) : files'[f] = fa[f]
         /\ \A i \in 1..Len(c) : files'[Len(fa) + i] = c[i]
         /\ DOMAIN files' = 1..Len(files')
    <2>1. /\ files' \in Seq(Files) /\ Len(files') = Len(fa) + Len(c)
          /\ \A f \in 1..Len(fa) : files'[f] = fa[f]
          /\ \A i \in 1..Len(c) : files'[Len(fa) + i] = c[i]
      <3>1. fa \in Seq(Files) /\ c \in Seq(Files) /\ files' = fa \o c
        BY <1>11, <1>13, <1>14
      <3> QED BY ONLY <3>1
    <2>2. DOMAIN files' = 1..Len(files')
      BY <2>1
    <2> QED BY <1>13, <2>1, <2>2
  <1>16. \A f \in DOMAIN files : f \in DOMAIN files' /\ files'[f] = files[f]
    <2>1. Len(a) \in Nat /\ Len(c) \in Nat /\ Len(fa) \in Nat
      BY <1>11, <1>13
    <2>2. ASSUME NEW f \in DOMAIN files
          PROVE  f \in DOMAIN files' /\ files'[f] = files[f]
      <3>1. f \in 1..Len(files)
        BY <1>1
      <3>2. f \in 1..Len(fa) /\ fa[f] = files[f]
        BY <1>8, <1>13, <2>1, <3>1
      <3>3. f \in 1..Len(files')
        BY <1>8, <1>13, <1>15, <2>1, <3>1
      <3> QED BY <1>15, <3>2, <3>3
    <2> QED BY <2>2
  <1>17. FilesStay
    BY <1>8, <1>11, <1>15, <1>16 DEF FilesStay
  <1>18. \A f \in DOMAIN files' : files'[f].says.binding.dir = 1
    <2>1. \A f \in DOMAIN files : files[f].says.binding.dir = 1
      BY DEF PublicationInv, Alone
    <2>2. \A i \in 1..Len(a) : a[i].says.binding.dir = 1
      BY <1>5, <1>9, <1>10, <1>11, <2>1
    <2>3. \A i \in 1..Len(c) : c[i].says.binding.dir = 1
      BY <1>5, <1>9, <1>10, <1>11, <2>1
    <2> SUFFICES ASSUME NEW f \in DOMAIN files'
                 PROVE  files'[f].says.binding.dir = 1
      OBVIOUS
    <2>4. CASE f \in DOMAIN files
      BY <1>16, <2>1, <2>4
    <2>5. CASE f \in 1..Len(fa) /\ f \notin DOMAIN files
      <3>1. f - Len(files) \in 1..Len(a) /\ f = Len(files) + (f - Len(files))
        BY <1>1, <1>8, <1>11, <1>13, <2>5
      <3>2. files'[f] = a[f - Len(files)]
        BY <1>13, <1>15, <2>5, <3>1
      <3> QED BY <2>2, <3>1, <3>2
    <2>6. CASE f \notin 1..Len(fa)
      <3>1. f - Len(fa) \in 1..Len(c) /\ f = Len(fa) + (f - Len(fa))
        BY <1>8, <1>11, <1>13, <1>15, <2>6, SMTT(20)
      <3>2. files'[f] = c[f - Len(fa)]
        BY <1>15, <3>1
      <3> QED BY <2>3, <3>1, <3>2
    <2> QED BY <2>4, <2>5, <2>6
  <1>19. PICK e : e = [n \in Names |-> <<number[n]>>]
    OBVIOUS
  <1>20. PICK d : d = NewDir(objects + 1, objects + 2, e)
    OBVIOUS
  <1>21. dirs' = Append(dirs, d)
    <2>1. e = [n \in Names |-> <<IF n \notin there THEN 0
                                  ELSE IF n = "allocation" THEN Len(files) + 1
                                  ELSE IF "allocation" \in there THEN Len(files) + 1 + 1
                                  ELSE Len(files) + 1>>]
      BY <1>4, <1>8, <1>19
    <2> QED BY <1>2, <1>20, <2>1 DEF Copy
  <1>22. \A n \in Names : number[n] \in 0..Len(files')
    <2>0. /\ number["allocation"] = IF "allocation" \notin there THEN 0 ELSE Len(files) + 1
          /\ number["custody"] = IF "custody" \notin there THEN 0
                                 ELSE IF "allocation" \in there THEN Len(files) + 2
                                 ELSE Len(files) + 1
      BY <1>4, <1>5
    <2>1. number["allocation"] \in 0..Len(files')
      <3>1. "allocation" \in there => Len(files') = Len(files) + 1 + Len(c)
        BY <1>11, <1>15
      <3> QED BY <1>8, <1>11, <1>15, <2>0, <3>1
    <2>2. number["custody"] \in 0..Len(files')
      <3>1. "custody" \in there => Len(files') = Len(files) + Len(a) + 1
        BY <1>11, <1>15
      <3>2. "allocation" \in there => Len(a) = 1
        BY <1>11
      <3> QED BY <1>8, <1>11, <1>15, <2>0, <3>1, <3>2
    <2> QED BY <2>1, <2>2 DEF Names
  <1>23. Len(files') \in Nat /\ Len(files) <= Len(files')
    BY <1>8, <1>11, <1>15
  <1>24. /\ e \in [Names -> Seq(Nat)]
         /\ \A n \in Names : e[n] # <<>> /\ \A i \in DOMAIN e[n] : e[n][i] \in 0..Len(files')
    <2>1. ASSUME NEW n \in Names
          PROVE  /\ e[n] \in Seq(Nat) /\ e[n] # <<>>
                 /\ \A i \in DOMAIN e[n] : e[n][i] \in 0..Len(files')
      <3>1. e[n] = <<number[n]>> /\ number[n] \in Nat /\ number[n] \in 0..Len(files')
        BY <1>19, <1>22, <1>23
      <3> QED BY <3>1
    <2> QED BY <1>19, <2>1
  <1>25. d \in Dirs /\ d.entries = e
    BY <1>1, <1>20, <1>24 DEF NewDir, Dirs
  <1>26. /\ dirs' \in Seq(Dirs) /\ Len(dirs') = Len(dirs) + 1 /\ DOMAIN dirs' = 1..Len(dirs')
         /\ dirs'[Len(dirs) + 1] = d
         /\ \A b \in DOMAIN dirs : b \in DOMAIN dirs' /\ dirs'[b] = dirs[b]
    BY <1>1, <1>21, <1>25
  <1>27. dirs' # <<>> /\ dirs'[1] = dirs[1]
    BY <1>1, <1>26
  <1>28. TypeOK'
    BY <1>1, <1>7, <1>15, <1>26 DEF PublicationInv, TypeOK
  <1>29. Shape'
    <2>1. path' # 0
      BY <1>7 DEF Copy
    <2>2. ASSUME NEW b \in DOMAIN dirs', NEW n \in Names
          PROVE  /\ dirs'[b].entries[n] # <<>>
                 /\ \A i \in DOMAIN dirs'[b].entries[n] : dirs'[b].entries[n][i] \in 0..Len(files')
      <3>1. CASE b \in DOMAIN dirs
        <4>1. /\ dirs'[b].entries[n] # <<>>
              /\ \A i \in DOMAIN dirs'[b].entries[n] : dirs'[b].entries[n][i] \in 0..Len(files)
          BY <1>26, <3>1 DEF PublicationInv, Shape
        <4> QED BY <1>8, <1>23, <4>1
      <3>2. CASE b \notin DOMAIN dirs
        <4>1. dirs'[b].entries = e
          BY <1>1, <1>25, <1>26, <3>2
        <4> QED BY <1>24, <4>1
      <3> QED BY <3>1, <3>2
    <2> QED BY <1>27, <2>1, <2>2 DEF Shape
  <1>30. Alone'
    <2>1. \A q \in Procs : ~At(q, "out")' => lease'[q].dir \in DOMAIN dirs'
      BY <1>7, <1>26 DEF PublicationInv, Alone, At
    <2> QED BY <1>7, <1>18, <2>1 DEF PublicationInv, Alone, At, Trusted
  <1>31. Engaged'
    BY <1>7, <1>17, <1>27, EngagedStays DEF Engaged
  <1>32. Whole' /\ Chain' /\ Kept
    BY <1>1, <1>7, <1>17, <1>27, EntriesStay
  <1> QED BY <1>28, <1>29, <1>30, <1>31, <1>32 DEF PublicationInv

---------------------------------------------------------------------------
(* Theorems *)

LEMMA InitHolds == Init => PublicationInv
  <1> SUFFICES ASSUME Init PROVE PublicationInv
    OBVIOUS
  <1>1. /\ dirs = <<>> /\ path = 0 /\ files = <<>> /\ objects = 0
        /\ lease = [p \in Procs |-> NoLease] /\ acked = <<>> /\ harm = 0 /\ losses = 0
    BY DEF Init
  <1>2. \A p \in Procs : lease[p].stage = "out"
    BY <1>1, NoLeaseIsLease
  <1>3. TypeOK
    BY <1>1, NoLeaseIsLease, PublicationAssumption DEF TypeOK
  <1>4. Shape
    BY <1>1, <1>2 DEF Shape, At
  <1>5. Alone
    BY <1>1, <1>2 DEF Alone, At, Trusted
  <1>6. Engaged /\ Whole /\ Chain
    BY <1>1, <1>2 DEF Engaged, Busy, Whole, Chain
  <1> QED BY <1>3, <1>4, <1>5, <1>6 DEF PublicationInv

\* Every step keeps the invariant, and is a step of the register or none.
LEMMA NextHolds ==
    ASSUME PublicationInv, [Next]_vars
    PROVE  PublicationInv' /\ Registers
  <1>1. CASE UNCHANGED vars
    <2>1. PublicationInv'
      <3>1. UNCHANGED << dirs, path, files, lease, objects, acked, harm, losses >>
        BY <1>1 DEF vars, disk
      <3>2. TypeOK' /\ Shape' /\ Alone'
        BY <3>1 DEF PublicationInv, TypeOK, Shape, Alone, At, Trusted
      <3>3. Whole' /\ Chain' /\ FilesStay
        BY <3>1, DiskStays DEF disk
      <3>4. Engaged'
        BY <3>1, <3>3, EngagedStays DEF Engaged
      <3> QED BY <3>2, <3>3, <3>4 DEF PublicationInv
    <2>2. Kept
      BY <1>1 DEF vars, disk, Kept, Line, Current
    <2> QED BY <2>1, <2>2 DEF Registers
  <1>2. CASE \E p \in Procs : Create(p) \/ Acquire(p) \/ Open(p) \/ Resume(p) \/ Stop(p)
    BY <1>2, CreateKeeps, AcquireKeeps, OpenKeeps, ResumeKeeps, StopKeeps DEF Registers
  <1>3. CASE \E p \in Procs : Publishing(p)
    <2> PICK p \in Procs : Publishing(p)
      BY <1>3
    <2> QED BY BeginKeeps, WriteKeeps, SyncFileKeeps, RenameKeeps, SyncDirectoryKeeps, ConfirmKeeps
            DEF Publishing, Registers
  <1>4. CASE LosePower \/ Copy \/ Swap \/ Replace
    BY <1>4, LosePowerKeeps, CopyKeeps, SwapKeeps, ReplaceKeeps DEF Registers
  <1> QED BY <1>1, <1>2, <1>3, <1>4 DEF Next

\* The inductive invariant.
THEOREM InvariantHolds == Spec => []PublicationInv
  BY InitHolds, NextHolds, PTL DEF Spec

\* Every variable keeps a value of its kind (control.rs, custody.rs).
THEOREM TypeCorrect == Spec => []TypeOK
  <1>1. PublicationInv => TypeOK
    BY DEF PublicationInv
  <1> QED BY InvariantHolds, <1>1, PTL

\* Whatever is copied, put in place or replaced, at most one process that was let
\* in finds what it holds at the path, and it was let in by the directory the
\* witness was written for (custody.rs acquire, control.rs read_named).
THEOREM AuthorityHolds == Spec => []AuthorityIsOne
  <1>1. PublicationInv => AuthorityIsOne
    BY OneHolder DEF PublicationInv, Alone, AuthorityIsOne
  <1> QED BY InvariantHolds, <1>1, PTL

\* Killed, failed or out of power at any moment, the directory keeps a whole
\* witness that descends from the last one acknowledged (control.rs write_next).
THEOREM WitnessIsKept == Spec => []WitnessSurvives
  <1>1. ASSUME PublicationInv
        PROVE  WitnessSurvives
    <2>1. CASE dirs = <<>>
      <3>1. acked = <<>>
        BY <1>1, <2>1 DEF PublicationInv, Shape
      <3>2. \A n \in Names : Entries(n) \ {0} = {}
        BY <2>1 DEF Entries
      <3> QED BY <3>1, <3>2 DEF WitnessSurvives, Names
    <2>2. CASE dirs # <<>>
      <3>1. \A n \in Names : Entries(n) = {dirs[1].entries[n][i] : i \in DOMAIN dirs[1].entries[n]}
        BY <2>2 DEF Entries
      <3>2. \A n \in Names : \A f \in Entries(n) \ {0} : files[f].parts = 4 /\ files[f].says.object = f
        BY <1>1, <2>2, <3>1 DEF PublicationInv, Whole, WholeAt
      <3>3. "custody" \in Names
        BY DEF Names
      <3>4. ASSUME NEW f \in Entries("custody")
            PROVE  LineAt(f) \in Seq(Nat) /\ Begins(acked, LineAt(f))
        <4>1. PICK i \in DOMAIN dirs[1].entries["custody"] : f = dirs[1].entries["custody"][i]
          BY <3>1, <3>3
        <4> QED BY <1>1, <2>2, <4>1, EntryFacts
      <3>5. acked \in Seq(Nat)
        BY <1>1, Facts
      <3>6. ASSUME NEW f \in Entries("custody") \ {0}
            PROVE  /\ Len(files[f].says.line) >= Len(acked)
                   /\ SubSeq(files[f].says.line, 1, Len(acked)) = acked
        <4>1. LineAt(f) = files[f].says.line
          BY DEF LineAt
        <4>2. LineAt(f) \in Seq(Nat) /\ Begins(acked, LineAt(f))
          BY <3>4
        <4>3. acked = SubSeq(LineAt(f), 1, Len(acked)) /\ Len(acked) \in 0..Len(LineAt(f))
          BY <3>5, <4>2, BeginsCut
        <4>4. Len(LineAt(f)) \in Nat
          BY <4>2
        <4> QED BY <4>1, <4>3, <4>4
      <3>7. acked # <<>> => 0 \notin Entries("custody")
        <4> SUFFICES ASSUME 0 \in Entries("custody")
                     PROVE  acked = <<>>
          OBVIOUS
        <4>1. LineAt(0) = <<>> /\ Len(<<>>) = 0
          BY DEF LineAt
        <4>2. Begins(acked, <<>>)
          BY <3>4, <4>1
        <4>3. Len(acked) <= 0
          BY <4>1, <4>2 DEF Begins
        <4> QED BY <3>5, <4>3
      <3> QED BY <3>2, <3>6, <3>7 DEF WitnessSurvives
    <2> QED BY <2>1, <2>2
  <1> QED BY InvariantHolds, <1>1, PTL

\* All processes together are one register whose values form a chain, and nothing
\* acknowledged is ever taken back (control.rs publish, replace).
THEOREM RegisterKept == Spec => ImplementsRegister
  <1>1. Init => Register!Init
    BY DEF Init, Register!Init, Line
  <1>2. ASSUME PublicationInv, [Next]_vars
        PROVE  [Register!Next]_<<Line, acked>>
    <2>1. 1..MaxFiles \subseteq 1..MaxFiles + 2 * MaxDirs
      BY PublicationAssumption
    <2>2. CASE Kept
      BY <2>2 DEF Kept
    <2>3. CASE Published
      BY <2>1, <2>3 DEF Published, Register!Next, Register!Publish
    <2>4. CASE Acknowledged
      BY <2>4 DEF Acknowledged, Register!Next, Register!Acknowledge
    <2>5. CASE Lost
      BY <2>5 DEF Lost, Register!Next, Register!LosePower
    <2> QED BY <1>2, <2>2, <2>3, <2>4, <2>5, NextHolds DEF Registers
  <1> QED BY <1>1, <1>2, InvariantHolds, PTL DEF Spec, ImplementsRegister, Register!Spec
=============================================================================
