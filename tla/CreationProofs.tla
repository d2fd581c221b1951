--------------------------- MODULE CreationProofs ---------------------------
(***************************************************************************)
(* Proofs about Creation: for any Changes, requests, refusals, failures,   *)
(* kills and moves, no original is replaced, everything is made of the     *)
(* first request, work needs inclusion, the answers are about what was     *)
(* asked, a ready original opens, and the promise of Inclusion is kept.    *)
(*                                                                         *)
(* The inductive invariant has a part for each row of the register         *)
(* (RowFits), one for each directory (DirectoryFits) and one for each      *)
(* place of the call (CallFits).  The first two say that the register and  *)
(* a directory agree on the Change, its first request, the binding and how *)
(* far the original has come; the third says what the call relies on: the  *)
(* directory it holds is of its Change, nobody else touches it, and a call *)
(* that reserved finds no directory of the Change.                         *)
(***************************************************************************)
EXTENDS Creation, SequenceTheorems, TLAPS

Row(d) == entries[dirs[d].change]

\* What a row of the register says is true of the directory it binds.
RowFits(c) ==
    entries[c] # None =>
        /\ ValidEntry(c)
        /\ entries[c].intent \in Intents
        /\ entries[c].state > 0 =>
             /\ entries[c].binding \in Bindings
             /\ dirs[entries[c].binding].change = c
        /\ entries[c].state = 2 => dirs[entries[c].binding].started # None

\* What a directory holds is of its Change's first request, and no further
\* than the register allows.
DirectoryFits(d) ==
    /\ Row(d) # None
    /\ dirs[d].request = Row(d).intent
    /\ dirs[d].started # None =>
         /\ dirs[d].started = Row(d).intent
         /\ Row(d).state > 0 /\ Row(d).binding = d
         /\ dirs[d].stage = "provisioned"
    /\ dirs[d].activation # None =>
         /\ dirs[d].activation = ReceiptFor(Row(d).intent, d)
         /\ Row(d).state = 2 /\ Row(d).binding = d
         /\ dirs[d].started # None
    /\ dirs[d].more > 0 \/ dirs[d].holder = "owner" => dirs[d].activation # None

Searching == {"reserve", "find"}

Starting == {"provision", "start"}

Started == {"include", "explain", "activate", "unactivated", "ready"}

\* The stage the directory held is in before this stage of the call.
Expected(stage) ==
    CASE stage = "allocate" -> "made"
      [] stage = "prepare" -> "allocated"
      [] stage = "bind" -> "prepared"
      [] stage = "provision" -> "prepared"
      [] OTHER -> "provisioned"

\* The call and the row of its Change.
CallFitsRow ==
    LET e == entries[job.change] IN
    /\ job.change = job.incoming.change
    /\ job.stage = "reserve" => e = None /\ job.fresh
    /\ job.stage # "reserve" => e # None /\ Same(e.intent, job.incoming)
    /\ job.stage \in {"allocate", "prepare", "bind"} => e.state = 0
    /\ job.stage \in Starting \cup Started => e.state > 0 /\ e.binding = job.held
    /\ job.stage = "include" => e.state = 1
    /\ job.stage \in {"activate", "unactivated", "ready"} => e.state = 2

\* The call and the directory it holds.
CallFitsDirectory ==
    /\ job.stage \in Searching => job.held = None
    /\ job.stage \notin Searching =>
         /\ job.held \in Bindings
         /\ dirs[job.held].change = job.change
         /\ dirs[job.held].holder = "register"
         /\ dirs[job.held].stage = Expected(job.stage)
    /\ job.stage \in Started => dirs[job.held].started # None
    /\ job.stage = "ready" => dirs[job.held].activation # None

\* Whoever reserved finds no directory of the Change.
FreshFits ==
    job.stage \in Searching /\ job.fresh =>
        \A d \in Bindings : dirs[d].change # job.change

AnswersFit ==
    \A i \in Intents : told[i] # {} =>
        /\ entries[i.change] # None /\ Same(entries[i.change].intent, i)
        /\ "ready" \in told[i] =>
             /\ entries[i.change].state = 2
             /\ dirs[entries[i.change].binding].activation # None

Typed ==
    /\ dirs \in Seq(Directory) /\ Len(dirs) <= MaxDirectories
    /\ entries \in [Changes -> Entry \cup {None}]
    /\ job \in Call \cup {None}
    /\ register \in {"live", "fenced", "closed", "stuck"}
    /\ told \in [Intents -> SUBSET Progress]
    /\ failures \in 0..MaxFailures /\ moves \in 0..MaxMoves

Rows == \A c \in Changes : RowFits(c)

DirectoriesFit == \A d \in Bindings : DirectoryFits(d)

CallFits == job # None => CallFitsRow /\ CallFitsDirectory /\ FreshFits

CreationInv ==
    Typed /\ Rows /\ DirectoriesFit /\ NoReplacement /\ CallFits /\ AnswersFit

---------------------------------------------------------------------------
(* Nothing that was said of a Change or put into a directory is undone *)

Advances ==
    /\ \A c \in Changes : entries[c] # None =>
          /\ entries'[c] # None
          /\ entries'[c].intent = entries[c].intent
          /\ entries[c].state > 0 =>
               entries'[c].state >= entries[c].state
                 /\ entries'[c].binding = entries[c].binding
    /\ \A d \in Bindings :
          /\ d \in DOMAIN dirs'
          /\ dirs'[d].change = dirs[d].change
          /\ dirs'[d].request = dirs[d].request
          /\ dirs[d].started # None => dirs'[d].started = dirs[d].started
          /\ dirs[d].activation # None => dirs'[d].activation = dirs[d].activation

\* An update of one directory leaves a sequence of directories.
LEMMA OneDirectory ==
    ASSUME NEW s \in Seq(Directory), NEW h \in DOMAIN s, NEW r \in Directory,
           NEW t, t = [s EXCEPT ![h] = r]
    PROVE  /\ t \in Seq(Directory) /\ Len(t) = Len(s) /\ DOMAIN t = DOMAIN s
           /\ t[h] = r
           /\ \A d \in DOMAIN s : d # h => t[d] = s[d]
  <1>1. DOMAIN s = 1..Len(s)
    BY LenProperties
  <1>2. /\ t \in Seq(Directory) /\ Len(t) = Len(s)
        /\ \A j \in 1..Len(s) : t[j] = IF j = h THEN r ELSE s[j]
    BY <1>1, ExceptSeq
  <1>3. DOMAIN t = 1..Len(t)
    BY <1>2, LenProperties
  <1> QED
    BY <1>1, <1>2, <1>3

\* What is known of a directory, a row or a call.
LEMMA DirectoryTyped ==
    ASSUME Typed, NEW d \in Bindings
    PROVE  /\ dirs[d] \in Directory /\ dirs[d].change \in Changes
           /\ d \in 1..MaxDirectories /\ d \in Nat /\ Bindings = 1..Len(dirs)
  <1>1. Bindings = 1..Len(dirs) /\ Len(dirs) \in Nat
    BY LenProperties DEF Typed, Bindings
  <1>2. dirs[d] \in Directory
    BY <1>1, ElementOfSeq DEF Typed
  <1> QED
    BY <1>1, <1>2, CreationAssumption DEF Directory, Typed

LEMMA RowTyped ==
    ASSUME Typed, NEW c \in Changes, entries[c] # None
    PROVE  /\ entries[c] \in Entry
           /\ entries[c].state \in 0..2
  BY DEF Typed, Entry

LEMMA CallTyped ==
    ASSUME Typed, job # None
    PROVE  job \in Call /\ job.change \in Changes /\ job.incoming \in Intents
  BY DEF Typed, Call

LEMMA AnswersKept ==
    ASSUME CreationInv, Advances, told' = told, Typed'
    PROVE  AnswersFit'
  <1> SUFFICES ASSUME NEW i \in Intents, told[i] # {}
               PROVE  /\ entries'[i.change] # None /\ Same(entries'[i.change].intent, i)
                      /\ "ready" \in told[i] =>
                           /\ entries'[i.change].state = 2
                           /\ dirs'[entries'[i.change].binding].activation # None
    BY DEF AnswersFit, Same
  <1> DEFINE c == i.change
  <1>1. c \in Changes
    BY CreationAssumption DEF Intent
  <1>2. /\ entries[c] # None /\ Same(entries[c].intent, i)
        /\ "ready" \in told[i] =>
             entries[c].state = 2 /\ dirs[entries[c].binding].activation # None
    BY DEF CreationInv, AnswersFit
  <1>3. entries'[c] # None /\ Same(entries'[c].intent, i)
    BY <1>1, <1>2 DEF Advances
  <1>4. ASSUME "ready" \in told[i]
        PROVE  /\ entries'[c].state = 2
               /\ dirs'[entries'[c].binding].activation # None
    <2>1. entries[c].state = 2 /\ entries[c].binding \in Bindings
      BY <1>1, <1>2, <1>4 DEF CreationInv, Rows, RowFits
    <2>2. entries'[c].state >= 2 /\ entries'[c].binding = entries[c].binding
      BY <1>1, <1>2, <2>1 DEF Advances
    <2>3. entries'[c].state \in 0..2
      BY <1>1, <1>3 DEF Typed, Entry
    <2>4. dirs'[entries[c].binding].activation # None
      BY <1>2, <1>4, <2>1 DEF Advances
    <2> QED
      BY <2>2, <2>3, <2>4
  <1> QED
    BY <1>3, <1>4

LEMMA RowKept ==
    ASSUME CreationInv, Advances, NEW c \in Changes, entries'[c] = entries[c]
    PROVE  RowFits(c)'
  <1> SUFFICES ASSUME entries[c] # None
               PROVE  /\ ValidEntry(c)'
                      /\ entries[c].intent \in Intents
                      /\ entries[c].state > 0 =>
                           /\ entries[c].binding \in DOMAIN dirs'
                           /\ dirs'[entries[c].binding].change = c
                      /\ entries[c].state = 2 => dirs'[entries[c].binding].started # None
    BY DEF RowFits, Bindings
  <1>1. RowFits(c)
    BY DEF CreationInv, Rows
  <1>2. ValidEntry(c)'
    BY <1>1 DEF RowFits, ValidEntry
  <1> QED
    BY <1>1, <1>2 DEF RowFits, Advances

LEMMA RowsKept ==
    ASSUME CreationInv, Advances, UNCHANGED entries
    PROVE  Rows'
  BY RowKept DEF Rows

LEMMA DirectoryKept ==
    ASSUME NEW d \in Bindings, DirectoryFits(d), dirs'[d] = dirs[d],
           entries'[dirs[d].change] = entries[dirs[d].change]
    PROVE  DirectoryFits(d)'
  BY DEF DirectoryFits, Row, ReceiptFor

\* No directory is made, so none replaces another.
LEMMA NoneMade ==
    ASSUME CreationInv, Advances, DOMAIN dirs' = DOMAIN dirs
    PROVE  NoReplacement'
  BY DEF CreationInv, Advances, NoReplacement, Bindings

LEMMA NothingTouched ==
    ASSUME CreationInv, UNCHANGED <<entries, dirs>>
    PROVE  Advances /\ Rows' /\ DirectoriesFit' /\ NoReplacement'
  <1>1. Advances
    <2>1. \A c \in Changes : entries[c] # None /\ entries[c].state > 0 =>
             entries[c].state >= entries[c].state
      BY RowTyped DEF CreationInv
    <2> QED
      BY <2>1 DEF Advances, Bindings
  <1>2. DirectoriesFit'
    BY DirectoryKept, DirectoryTyped DEF CreationInv, DirectoriesFit, Bindings
  <1> QED
    BY <1>1, <1>2, RowsKept, NoneMade

\* One directory changes, and what is in it only grows.
LEMMA OneTouched ==
    ASSUME CreationInv, NEW h \in Bindings, NEW r \in Directory,
           dirs' = [dirs EXCEPT ![h] = r], UNCHANGED entries,
           r.change = dirs[h].change, r.request = dirs[h].request,
           dirs[h].started # None => r.started = dirs[h].started,
           dirs[h].activation # None => r.activation = dirs[h].activation
    PROVE  /\ dirs' \in Seq(Directory) /\ Len(dirs') = Len(dirs)
           /\ DOMAIN dirs' = DOMAIN dirs
           /\ dirs'[h] = r
           /\ \A d \in Bindings : d # h => dirs'[d] = dirs[d]
           /\ Advances /\ Rows' /\ NoReplacement'
           /\ DirectoryFits(h)' => DirectoriesFit'
  <1>1. /\ dirs' \in Seq(Directory) /\ Len(dirs') = Len(dirs)
        /\ DOMAIN dirs' = DOMAIN dirs
        /\ dirs'[h] = r
        /\ \A d \in Bindings : d # h => dirs'[d] = dirs[d]
    BY OneDirectory DEF CreationInv, Typed, Bindings
  <1>2. Advances
    <2>1. \A c \in Changes : entries[c] # None /\ entries[c].state > 0 =>
             entries[c].state >= entries[c].state
      BY RowTyped DEF CreationInv
    <2> QED
      BY <1>1, <2>1 DEF Advances, Bindings
  <1>3. ASSUME DirectoryFits(h)' PROVE DirectoriesFit'
    <2>1. \A d \in Bindings : d # h => DirectoryFits(d)'
      BY <1>1, DirectoryKept DEF CreationInv, DirectoriesFit
    <2> QED
      BY <1>1, <1>3, <2>1 DEF DirectoriesFit, Bindings
  <1> QED
    BY <1>1, <1>2, <1>3, RowsKept, NoneMade

\* A step of somebody else leaves the call what it relies on.
LEMMA CallUntouched ==
    ASSUME CreationInv, UNCHANGED <<entries, job>>, DOMAIN dirs' = DOMAIN dirs,
           \A d \in Bindings : dirs'[d].change = dirs[d].change,
           job # None /\ job.held # None =>
               /\ dirs'[job.held].holder = "register"
               /\ dirs'[job.held].stage = dirs[job.held].stage
               /\ dirs'[job.held].started = dirs[job.held].started
               /\ dirs'[job.held].activation = dirs[job.held].activation
    PROVE  CallFits'
  <1> SUFFICES ASSUME job # None
               PROVE  (CallFitsRow /\ CallFitsDirectory /\ FreshFits)'
    BY DEF CallFits
  <1>1. CallFitsRow /\ CallFitsDirectory /\ FreshFits
    BY DEF CreationInv, CallFits
  <1>2. CallFitsRow'
    BY <1>1 DEF CallFitsRow, Same
  <1>3. FreshFits'
    BY <1>1 DEF FreshFits, Bindings
  <1>4. job.stage \notin Searching => job.held # None
    BY <1>1, CreationAssumption, DirectoryTyped
    DEF CallFitsDirectory, CreationInv
  <1>5. job.stage \in Started => job.stage \notin Searching
    BY DEF Started, Searching
  <1>6. job.stage = "ready" => job.stage \in Started
    BY DEF Started
  <1>7. CallFitsDirectory'
    BY <1>1, <1>4, <1>5, <1>6 DEF CallFitsDirectory, Bindings
  <1> QED
    BY <1>2, <1>3, <1>7

LEMMA HeldIsRegistered ==
    ASSUME CreationInv, job # None, job.held # None
    PROVE  /\ job.held \in Bindings
           /\ dirs[job.held].change = job.change
           /\ dirs[job.held].holder = "register"
           /\ job.stage \notin Searching
           /\ dirs[job.held].stage = Expected(job.stage)
  BY DEF CreationInv, CallFits, CallFitsDirectory

\* The end of a call lets go of the directory and changes nothing else in it.
LEMMA CallEnds ==
    ASSUME CreationInv, job # None, dirs' = Released(dirs), UNCHANGED entries
    PROVE  /\ dirs' \in Seq(Directory) /\ Len(dirs') = Len(dirs)
           /\ Advances /\ Rows' /\ DirectoriesFit' /\ NoReplacement'
           /\ \A d \in Bindings : dirs'[d].started = dirs[d].started
  <1>1. CASE job.held = None
    <2>1. dirs' = dirs
      BY <1>1 DEF Released
    <2> QED
      BY <2>1, NothingTouched DEF CreationInv, Typed
  <1>2. CASE job.held # None
    <2>1. PICK h \in Bindings : h = job.held
      BY <1>2, HeldIsRegistered
    <2> DEFINE r == [dirs[h] EXCEPT !.holder = "nobody"]
    <2>2. dirs[h] \in Directory
      BY <2>1, DirectoryTyped DEF CreationInv
    <2>3. r \in Directory
      BY <2>2 DEF Directory
    <2>4. dirs' = [dirs EXCEPT ![h] = r]
      BY <1>2, <2>1 DEF Released
    <2>5. /\ r.change = dirs[h].change /\ r.request = dirs[h].request
          /\ r.started = dirs[h].started /\ r.activation = dirs[h].activation
          /\ r.more = dirs[h].more /\ r.stage = dirs[h].stage
          /\ r.holder = "nobody"
      BY <2>2 DEF Directory
    <2> HIDE DEF r
    <2>6. /\ dirs' \in Seq(Directory) /\ Len(dirs') = Len(dirs)
          /\ dirs'[h] = r
          /\ \A d \in Bindings : d # h => dirs'[d] = dirs[d]
          /\ Advances /\ Rows' /\ NoReplacement'
          /\ DirectoryFits(h)' => DirectoriesFit'
      BY <2>2, <2>3, <2>4, <2>5, OneTouched
    <2>7. DirectoryFits(h)
      BY <2>1 DEF CreationInv, DirectoriesFit
    <2>8. DirectoryFits(h)'
      BY <2>5, <2>6, <2>7 DEF DirectoryFits, Row, ReceiptFor
    <2> QED
      BY <2>5, <2>6, <2>8
  <1> QED
    BY <1>1, <1>2

---------------------------------------------------------------------------
(* Around the call *)

LEMMA AskStep ==
    ASSUME CreationInv, NEW i \in Intents, Ask(i)
    PROVE  CreationInv' /\ Advances
  <1>1. UNCHANGED <<entries, dirs, register, told, failures, moves>>
    BY DEF Ask, stores, bounds
  <1>2. Advances /\ Rows' /\ DirectoriesFit' /\ NoReplacement'
    BY <1>1, NothingTouched
  <1>3. i.change \in Changes /\ i \in Intent
    BY CreationAssumption DEF Intent
  <1> DEFINE c == i.change
             j == [change |-> c, incoming |-> i, fresh |-> entries[c] = None,
                   stage |-> IF entries[c] = None THEN "reserve" ELSE "find",
                   held |-> None]
  <1>4. job' = j
    BY DEF Ask
  <1>5. job' \in Call
    BY <1>3, <1>4 DEF Call, CallStages
  <1>6. Typed'
    BY <1>1, <1>5 DEF Typed, CreationInv
  <1>7. /\ job'.change = c /\ job'.incoming = i /\ job'.held = None
        /\ job'.fresh = (entries[c] = None)
        /\ job'.stage = IF entries[c] = None THEN "reserve" ELSE "find"
    BY <1>4
  <1>8. CallFitsRow'
    <2>1. entries[c] # None => Same(entries[c].intent, i)
      BY DEF Ask
    <2> QED
      BY <1>1, <1>7, <2>1 DEF CallFitsRow, Same, Starting, Started
  <1>9. CallFitsDirectory'
    BY <1>7 DEF CallFitsDirectory, Searching, Started
  <1>10. FreshFits'
    <2>1. \A d \in Bindings : entries[dirs[d].change] # None
      BY DEF CreationInv, DirectoriesFit, DirectoryFits, Row
    <2> QED
      BY <1>1, <1>7, <2>1 DEF FreshFits, Bindings
  <1>11. AnswersFit'
    BY <1>1, <1>2, <1>6, AnswersKept
  <1> QED
    BY <1>2, <1>6, <1>8, <1>9, <1>10, <1>11 DEF CreationInv, CallFits

LEMMA SpendTyped ==
    ASSUME Typed, Spend
    PROVE  failures' \in 0..MaxFailures
  BY CreationAssumption DEF Typed, Spend

LEMMA PayTyped ==
    ASSUME Typed, NEW o, Pay(o)
    PROVE  failures' \in 0..MaxFailures
  BY SpendTyped DEF Pay, Typed

LEMMA KillStep ==
    ASSUME CreationInv, Kill
    PROVE  CreationInv' /\ Advances
  <1>1. UNCHANGED <<entries, told, moves>> /\ job' = None
    BY DEF Kill, End
  <1>2. /\ dirs' \in Seq(Directory) /\ Len(dirs') = Len(dirs)
        /\ Advances /\ Rows' /\ DirectoriesFit' /\ NoReplacement'
    <2>1. CASE job = None
      BY <1>1, <2>1, NothingTouched DEF Kill, CreationInv, Typed
    <2>2. CASE job # None
      BY <1>1, <2>2, CallEnds DEF Kill
    <2> QED
      BY <2>1, <2>2
  <1>3. Typed'
    <2>1. failures' \in 0..MaxFailures
      BY SpendTyped DEF Kill, CreationInv
    <2> QED
      BY <1>1, <1>2, <2>1 DEF Typed, CreationInv, Kill
  <1>4. AnswersFit'
    BY <1>1, <1>2, <1>3, AnswersKept
  <1> QED
    BY <1>1, <1>2, <1>3, <1>4 DEF CreationInv, CallFits

LEMMA ReopenStep ==
    ASSUME CreationInv, Reopen
    PROVE  CreationInv' /\ Advances
  <1>1. UNCHANGED <<entries, dirs, job, told, failures, moves>> /\ register' = "live"
    BY DEF Reopen, bounds
  <1>2. Advances /\ Rows' /\ DirectoriesFit' /\ NoReplacement'
    BY <1>1, NothingTouched
  <1>3. Typed'
    BY <1>1 DEF Typed, CreationInv
  <1>4. CallFits'
    BY <1>1 DEF Reopen, CallFits
  <1>5. AnswersFit'
    BY <1>1, <1>2, <1>3, AnswersKept
  <1> QED
    BY <1>2, <1>3, <1>4, <1>5 DEF CreationInv

\* What others may do to a directory the call does not hold, or to where it is.
LEMMA OthersStep ==
    ASSUME CreationInv, NEW h \in Bindings, NEW r \in Directory,
           dirs' = [dirs EXCEPT ![h] = r], UNCHANGED <<entries, register, job, told>>,
           failures' \in 0..MaxFailures, moves' \in 0..MaxMoves,
           r.change = dirs[h].change, r.request = dirs[h].request,
           r.started = dirs[h].started, r.activation = dirs[h].activation,
           r.stage = dirs[h].stage,
           r.more > 0 \/ r.holder = "owner" => dirs[h].activation # None,
           dirs[h].holder = "register" => r.holder = "register"
    PROVE  CreationInv' /\ Advances
  <1>1. /\ dirs' \in Seq(Directory) /\ Len(dirs') = Len(dirs)
        /\ DOMAIN dirs' = DOMAIN dirs
        /\ dirs'[h] = r
        /\ \A d \in Bindings : d # h => dirs'[d] = dirs[d]
        /\ Advances /\ Rows' /\ NoReplacement'
        /\ DirectoryFits(h)' => DirectoriesFit'
    BY OneTouched
  <1>2. DirectoriesFit'
    <2>1. DirectoryFits(h)
      BY DEF CreationInv, DirectoriesFit
    <2>2. DirectoryFits(h)'
      BY <1>1, <2>1 DEF DirectoryFits, Row, ReceiptFor
    <2> QED
      BY <1>1, <2>2
  <1>3. Typed'
    BY <1>1 DEF Typed, CreationInv
  <1>4. CallFits'
    <2>1. \A d \in Bindings : /\ dirs'[d].change = dirs[d].change
                              /\ dirs'[d].stage = dirs[d].stage
                              /\ dirs'[d].started = dirs[d].started
                              /\ dirs'[d].activation = dirs[d].activation
                              /\ dirs[d].holder = "register" => dirs'[d].holder = "register"
      BY <1>1
    <2>2. job # None /\ job.held # None =>
             job.held \in Bindings /\ dirs[job.held].holder = "register"
      BY HeldIsRegistered
    <2> QED
      BY <1>1, <2>1, <2>2, CallUntouched
  <1>5. AnswersFit'
    BY <1>1, <1>3, AnswersKept
  <1> QED
    BY <1>1, <1>2, <1>3, <1>4, <1>5 DEF CreationInv

LEMMA OpenOriginalStep ==
    ASSUME CreationInv, NEW ref \in References, OpenOriginal(ref)
    PROVE  CreationInv' /\ Advances
  <1>1. PICK c \in Changes : /\ entries[c] # None /\ entries[c].binding # None
                             /\ ref = ReferenceOf(ReceiptFor(entries[c].intent, entries[c].binding))
    BY DEF References
  <1>2. ref.binding = entries[c].binding
    BY <1>1 DEF ReferenceOf, ReceiptFor
  <1>3. ValidEntry(c) /\ entries[c].state \in 0..2
    BY <1>1, RowTyped DEF CreationInv, Rows, RowFits
  <1>4. entries[c].state > 0
    BY <1>1, <1>3 DEF ValidEntry
  <1>5. PICK h \in Bindings : h = ref.binding
    BY <1>1, <1>2, <1>4 DEF CreationInv, Rows, RowFits
  <1> DEFINE r == [dirs[h] EXCEPT !.holder = "owner"]
  <1>6. dirs[h] \in Directory
    BY DirectoryTyped DEF CreationInv
  <1>7. /\ r \in Directory /\ r.holder = "owner"
        /\ r.change = dirs[h].change /\ r.request = dirs[h].request
        /\ r.started = dirs[h].started /\ r.activation = dirs[h].activation
        /\ r.stage = dirs[h].stage /\ r.more = dirs[h].more
    BY <1>6 DEF Directory
  <1>8. dirs' = [dirs EXCEPT ![h] = r]
    BY <1>5 DEF OpenOriginal
  <1>9. dirs[h].activation # None /\ dirs[h].holder = "nobody"
    BY <1>5 DEF OpenOriginal, MayOpenOriginal, OpensBy
  <1>10. /\ UNCHANGED <<entries, register, job, told>>
         /\ failures' \in 0..MaxFailures /\ moves' \in 0..MaxMoves
    BY DEF OpenOriginal, bounds, CreationInv, Typed
  <1> HIDE DEF r
  <1> QED
    BY <1>7, <1>8, <1>9, <1>10, OthersStep

LEMMA WorkStep ==
    ASSUME CreationInv, NEW h \in Bindings, NEW o \in Outcomes, Work(h, o)
    PROVE  CreationInv' /\ Advances
  <1>1. dirs[h] \in Directory
    BY DirectoryTyped DEF CreationInv
  <1>2. dirs[h].more \in Nat /\ dirs[h].more < MaxWork /\ dirs[h].stuck \in BOOLEAN
    BY <1>1, CreationAssumption DEF Directory, Work
  <1> DEFINE r == [dirs[h] EXCEPT
                      !.more = IF Effective(o) THEN dirs[h].more + 1 ELSE dirs[h].more,
                      !.stuck = dirs[h].stuck \/ o = "stuck",
                      !.holder = IF o = "done" THEN "owner" ELSE "nobody"]
  <1>3. (IF Effective(o) THEN dirs[h].more + 1 ELSE dirs[h].more) \in 0..MaxWork
    BY <1>2, CreationAssumption
  <1>4. /\ r \in Directory
        /\ r.change = dirs[h].change /\ r.request = dirs[h].request
        /\ r.started = dirs[h].started /\ r.activation = dirs[h].activation
        /\ r.stage = dirs[h].stage
    BY <1>1, <1>2, <1>3 DEF Directory
  <1>5. dirs' = [dirs EXCEPT ![h] = r]
    BY <1>1 DEF Work
  <1>6. dirs[h].holder = "owner"
    BY DEF Work
  <1>7. dirs[h].activation # None
    BY <1>6 DEF CreationInv, DirectoriesFit, DirectoryFits
  <1>8. /\ UNCHANGED <<entries, register, job, told>>
        /\ failures' \in 0..MaxFailures /\ moves' \in 0..MaxMoves
    BY PayTyped DEF Work, CreationInv, Typed
  <1> HIDE DEF r
  <1> QED
    BY <1>4, <1>5, <1>6, <1>7, <1>8, OthersStep

LEMMA LeaveStep ==
    ASSUME CreationInv, NEW h \in Bindings, Leave(h)
    PROVE  CreationInv' /\ Advances
  <1> DEFINE r == [dirs[h] EXCEPT !.holder = "nobody"]
  <1>1. dirs[h] \in Directory
    BY DirectoryTyped DEF CreationInv
  <1>2. /\ r \in Directory /\ r.holder = "nobody" /\ r.more = dirs[h].more
        /\ r.change = dirs[h].change /\ r.request = dirs[h].request
        /\ r.started = dirs[h].started /\ r.activation = dirs[h].activation
        /\ r.stage = dirs[h].stage
    BY <1>1 DEF Directory
  <1>3. dirs' = [dirs EXCEPT ![h] = r] /\ dirs[h].holder = "owner"
    BY DEF Leave
  <1>4. dirs[h].activation # None
    BY <1>3 DEF CreationInv, DirectoriesFit, DirectoryFits
  <1>5. /\ UNCHANGED <<entries, register, job, told>>
        /\ failures' \in 0..MaxFailures /\ moves' \in 0..MaxMoves
    BY DEF Leave, bounds, CreationInv, Typed
  <1> HIDE DEF r
  <1> QED
    BY <1>2, <1>3, <1>4, <1>5, OthersStep

LEMMA MoveStep ==
    ASSUME CreationInv, NEW h \in Bindings, NEW p \in Paths \cup {None}, Move(h, p)
    PROVE  CreationInv' /\ Advances
  <1> DEFINE r == [dirs[h] EXCEPT !.at = p]
  <1>1. dirs[h] \in Directory
    BY DirectoryTyped DEF CreationInv
  <1>2. /\ r \in Directory /\ r.holder = dirs[h].holder /\ r.more = dirs[h].more
        /\ r.change = dirs[h].change /\ r.request = dirs[h].request
        /\ r.started = dirs[h].started /\ r.activation = dirs[h].activation
        /\ r.stage = dirs[h].stage
    BY <1>1 DEF Directory
  <1>3. dirs' = [dirs EXCEPT ![h] = r]
    BY DEF Move
  <1>4. dirs[h].more > 0 \/ dirs[h].holder = "owner" => dirs[h].activation # None
    BY DEF CreationInv, DirectoriesFit, DirectoryFits
  <1>5. /\ UNCHANGED <<entries, register, job, told>>
        /\ failures' \in 0..MaxFailures /\ moves' \in 0..MaxMoves
    BY CreationAssumption DEF Move, CreationInv, Typed
  <1> HIDE DEF r
  <1> QED
    BY <1>2, <1>3, <1>4, <1>5, OthersStep

---------------------------------------------------------------------------
(* The call goes on or ends *)

LEMMA CallGoes ==
    ASSUME CreationInv, job # None, NEW s \in CallStages, Go(s)
    PROVE  /\ job' \in Call /\ job' # None
           /\ job'.change = job.change /\ job'.incoming = job.incoming
           /\ job'.fresh = job.fresh /\ job'.held = job.held
           /\ job'.stage = s
  <1>1. job \in Call
    BY CallTyped DEF CreationInv
  <1>2. job' = [job EXCEPT !.stage = s]
    BY DEF Go
  <1>3. job' \in Call
    BY <1>1, <1>2 DEF Call
  <1> QED
    BY <1>1, <1>2, <1>3, NoneAssumption DEF Call

LEMMA CallTakes ==
    ASSUME CreationInv, job # None, NEW s \in CallStages, NEW d \in Nat, Take(d, s)
    PROVE  /\ job' \in Call /\ job' # None
           /\ job'.change = job.change /\ job'.incoming = job.incoming
           /\ job'.fresh = job.fresh /\ job'.held = d
           /\ job'.stage = s
  <1>1. job \in Call
    BY CallTyped DEF CreationInv
  <1>2. job' = [job EXCEPT !.held = d, !.stage = s]
    BY DEF Take
  <1>3. job' \in Call
    BY <1>1, <1>2 DEF Call
  <1> QED
    BY <1>1, <1>2, <1>3, NoneAssumption DEF Call

LEMMA CallNow ==
    ASSUME CreationInv, job # None
    PROVE  CallFitsRow /\ CallFitsDirectory /\ FreshFits
  BY DEF CreationInv, CallFits

LEMMA CallHolds ==
    ASSUME CreationInv, job # None, job.stage \notin Searching
    PROVE  /\ job.held \in Bindings /\ job.held # None
           /\ dirs[job.held] \in Directory
           /\ dirs[job.held].change = job.change
           /\ dirs[job.held].holder = "register"
           /\ dirs[job.held].stage = Expected(job.stage)
  BY CallNow, DirectoryTyped, CreationAssumption DEF CallFitsDirectory, CreationInv

\* The call goes on with the register and the directories as they are.
LEMMA StageStep ==
    ASSUME CreationInv, job # None, job.stage \in Starting \cup Started,
           NEW s \in Started,
           Go(s), UNCHANGED <<entries, dirs, told, moves>>,
           register' \in {"live", "fenced", "closed", "stuck"},
           failures' \in 0..MaxFailures,
           job.stage \in Starting => job.stage = "start",
           dirs[job.held].started # None,
           s = "include" => entries[job.change].state = 1,
           s \in {"activate", "unactivated", "ready"} => entries[job.change].state = 2,
           s = "ready" => dirs[job.held].activation # None
    PROVE  CreationInv' /\ Advances
  <1>0. s \in CallStages
    BY DEF Started, CallStages
  <1>1. /\ job' \in Call /\ job' # None
        /\ job'.change = job.change /\ job'.incoming = job.incoming
        /\ job'.fresh = job.fresh /\ job'.held = job.held
        /\ job'.stage = s
    BY <1>0, CallGoes
  <1>2. Advances /\ Rows' /\ DirectoriesFit' /\ NoReplacement'
    BY NothingTouched
  <1>3. Typed'
    BY <1>1 DEF Typed, CreationInv
  <1>4. AnswersFit'
    BY <1>2, <1>3, AnswersKept
  <1>5. CallFitsRow'
    <2>1. CallFitsRow
      BY CallNow
    <2>2. /\ s \notin {"reserve", "allocate", "prepare", "bind", "find"}
          /\ job.stage # "reserve"
      BY DEF Started, Starting
    <2> QED
      BY <1>1, <2>1, <2>2 DEF CallFitsRow, Same
  <1>6. CallFitsDirectory'
    <2>1. job.stage \notin Searching /\ s \notin Searching
      BY DEF Searching, Starting, Started
    <2>2. Expected(job.stage) = "provisioned" /\ Expected(s) = "provisioned"
      BY DEF Expected, Starting, Started
    <2>3. /\ job.held \in Bindings /\ dirs[job.held].change = job.change
          /\ dirs[job.held].holder = "register"
          /\ dirs[job.held].stage = "provisioned"
      BY <2>1, <2>2, CallHolds
    <2> QED
      BY <1>1, <2>1, <2>2, <2>3 DEF CallFitsDirectory, Bindings
  <1>7. FreshFits'
    BY <1>1 DEF FreshFits, Searching, Started
  <1> QED
    BY <1>1, <1>2, <1>3, <1>4, <1>5, <1>6, <1>7 DEF CreationInv, CallFits

LEMMA RecoverStartStep ==
    ASSUME CreationInv, RecoverStart
    PROVE  CreationInv' /\ Advances
  <1>1. /\ job # None /\ job.stage = "start" /\ dirs[job.held].started # None
        /\ Go(AfterStart(entries[job.change].state))
        /\ UNCHANGED <<entries, dirs, told, moves, register, failures>>
    BY DEF RecoverStart, At, Held, Kept, stores, bounds
  <1>2. job.stage \in Starting
    BY <1>1 DEF Starting
  <1>3. entries[job.change] # None /\ entries[job.change].state > 0
    BY <1>1, <1>2, CallNow DEF CallFitsRow
  <1>4. entries[job.change].state \in 1..2
    BY <1>1, <1>3, CallTyped, RowTyped DEF CreationInv
  <1> DEFINE s == AfterStart(entries[job.change].state)
  <1>5. PICK t \in Started : t = s
    BY DEF AfterStart, Started
  <1>6. /\ t = "include" => entries[job.change].state = 1
        /\ t \in {"activate", "unactivated", "ready"} => entries[job.change].state = 2
        /\ t # "ready"
    BY <1>4, <1>5 DEF AfterStart
  <1>7. register \in {"live", "fenced", "closed", "stuck"} /\ failures \in 0..MaxFailures
    BY DEF CreationInv, Typed
  <1>8. Go(t)
    BY <1>1, <1>5
  <1> QED
    BY <1>1, <1>2, <1>6, <1>7, <1>8, StageStep

LEMMA IncludeFailsStep ==
    ASSUME CreationInv, IncludeFails \/ IncludeRefused
    PROVE  CreationInv' /\ Advances
  <1>1. /\ job # None /\ job.stage = "include" /\ Go("explain")
        /\ UNCHANGED <<entries, dirs, told, moves>>
    BY DEF IncludeFails, IncludeRefused, At, stores, bounds
  <1>2. job.stage \in Started /\ job.stage \notin Starting /\ "explain" \in Started
    BY <1>1 DEF Started, Starting
  <1>3. dirs[job.held].started # None
    BY <1>1, <1>2, CallNow DEF CallFitsDirectory
  <1>4. /\ register' \in {"live", "fenced", "closed", "stuck"}
        /\ failures' \in 0..MaxFailures
    BY SpendTyped DEF CreationInv, Typed, IncludeFails, IncludeRefused, stores, bounds
  <1> QED
    BY <1>1, <1>2, <1>3, <1>4, StageStep

LEMMA AlreadyActiveStep ==
    ASSUME CreationInv, AlreadyActive
    PROVE  CreationInv' /\ Advances
  <1>1. /\ job # None /\ job.stage = "activate" /\ Go("ready")
        /\ UNCHANGED <<entries, dirs, told, moves, register, failures>>
        /\ dirs[job.held].activation = SavedReceipt(job)
    BY DEF AlreadyActive, At, stores, bounds, Held
  <1>2. job.stage \in Started /\ job.stage \notin Starting /\ "ready" \in Started
    BY <1>1 DEF Started, Starting
  <1>3. dirs[job.held].started # None
    BY <1>1, <1>2, CallNow DEF CallFitsDirectory
  <1>4. entries[job.change] # None /\ entries[job.change].state = 2
    BY <1>1, CallNow DEF CallFitsRow
  <1>5. /\ entries[job.change].receipt
             = ReceiptFor(entries[job.change].intent, entries[job.change].binding)
        /\ entries[job.change].intent \in Intent /\ entries[job.change].binding \in Nat
    <2>1. job.change \in Changes /\ RowFits(job.change)
      BY <1>1, CallTyped DEF CreationInv, Rows
    <2> QED
      BY <1>4, <2>1, CreationAssumption, DirectoryTyped
      DEF RowFits, ValidEntry, CreationInv
  <1>6. dirs[job.held].activation # None
    BY <1>1, <1>4, <1>5, CreationAssumption DEF SavedReceipt, ReceiptFor, Receipt
  <1>7. register \in {"live", "fenced", "closed", "stuck"} /\ failures \in 0..MaxFailures
    BY DEF CreationInv, Typed
  <1> QED
    BY <1>1, <1>2, <1>3, <1>4, <1>6, <1>7, StageStep

LEMMA ActivateFailsStep ==
    ASSUME CreationInv, ActivateFails
    PROVE  CreationInv' /\ Advances
  <1>1. /\ job # None /\ job.stage = "activate" /\ Go("unactivated")
        /\ UNCHANGED <<entries, dirs, told, moves, register>>
    BY DEF ActivateFails, At, stores
  <1>2. job.stage \in Started /\ job.stage \notin Starting /\ "unactivated" \in Started
    BY <1>1 DEF Started, Starting
  <1>3. dirs[job.held].started # None
    BY <1>1, <1>2, CallNow DEF CallFitsDirectory
  <1>4. entries[job.change].state = 2
    BY <1>1, CallNow DEF CallFitsRow
  <1>5. /\ register' \in {"live", "fenced", "closed", "stuck"}
        /\ failures' \in 0..MaxFailures
    BY <1>1, SpendTyped DEF CreationInv, Typed, ActivateFails
  <1> QED
    BY <1>1, <1>2, <1>3, <1>4, <1>5, StageStep

LEMMA EndStep ==
    ASSUME CreationInv, BindFails \/ GiveUp \/ Refused
    PROVE  CreationInv' /\ Advances
  <1>1. /\ job # None /\ job' = None /\ dirs' = Released(dirs)
        /\ UNCHANGED <<entries, told, moves>>
        /\ register' \in {register, "fenced"}
    BY DEF BindFails, GiveUp, Refused, At, End, bounds
  <1>2. /\ dirs' \in Seq(Directory) /\ Len(dirs') = Len(dirs)
        /\ Advances /\ Rows' /\ DirectoriesFit' /\ NoReplacement'
    BY <1>1, CallEnds
  <1>3. failures' \in 0..MaxFailures
    BY SpendTyped DEF BindFails, GiveUp, Refused, bounds, CreationInv, Typed
  <1>4. Typed'
    BY <1>1, <1>2, <1>3 DEF Typed, CreationInv
  <1>5. AnswersFit'
    BY <1>1, <1>2, <1>4, AnswersKept
  <1> QED
    BY <1>1, <1>2, <1>4, <1>5 DEF CreationInv, CallFits

LEMMA AnswerStep ==
    ASSUME CreationInv, Answer
    PROVE  CreationInv' /\ Advances
  <1>1. PICK s \in {"explain", "unactivated", "ready"} : At(s) /\ Tell(AnswerAt(s))
    BY DEF Answer
  <1>2. /\ job # None /\ job.stage = s /\ job' = None /\ dirs' = Released(dirs)
        /\ UNCHANGED <<entries, register, failures, moves>>
    BY <1>1 DEF Answer, At, End, bounds
  <1>3. /\ dirs' \in Seq(Directory) /\ Len(dirs') = Len(dirs)
        /\ Advances /\ Rows' /\ DirectoriesFit' /\ NoReplacement'
    BY <1>2, CallEnds
  <1>4. AnswerAt(s) \in Progress /\ (AnswerAt(s) = "ready" => s = "ready")
    BY DEF AnswerAt, Progress
  <1>5. PICK q \in Intents : q = job.incoming
    BY <1>2, CallTyped DEF CreationInv
  <1>6. /\ told' \in [Intents -> SUBSET Progress]
        /\ told'[q] = told[q] \cup {AnswerAt(s)}
        /\ \A i \in Intents : i # q => told'[i] = told[i]
    BY <1>1, <1>4, <1>5 DEF Tell, CreationInv, Typed
  <1>7. Typed'
    BY <1>2, <1>3, <1>6 DEF Typed, CreationInv
  <1>8. AnswersFit'
    <2>1. /\ job.change = q.change /\ entries[q.change] # None
          /\ Same(entries[q.change].intent, q)
      BY <1>2, <1>5, CallNow DEF CallFitsRow
    <2>2. q.change \in Changes
      BY CreationAssumption DEF Intent
    <2>3. s = "ready" =>
            /\ entries[q.change].state = 2
            /\ entries[q.change].binding \in Bindings
            /\ dirs[entries[q.change].binding].activation # None
      BY <1>2, <2>1, CallNow, CallHolds
      DEF CallFitsRow, CallFitsDirectory, Started, Starting, Searching
    <2>4. \A d \in Bindings : dirs[d].activation # None => dirs'[d].activation # None
      BY <1>3 DEF Advances
    <2>5. \A i \in Intents : told[i] # {} =>
             /\ entries[i.change] # None /\ Same(entries[i.change].intent, i)
             /\ "ready" \in told[i] =>
                  /\ entries[i.change].state = 2
                  /\ entries[i.change].binding \in Bindings
                  /\ dirs[entries[i.change].binding].activation # None
      BY CreationAssumption DEF CreationInv, AnswersFit, Rows, RowFits, Intent
    <2> QED
      BY <1>2, <1>4, <1>6, <2>1, <2>3, <2>4, <2>5 DEF AnswersFit, Same
  <1> QED
    BY <1>2, <1>3, <1>7, <1>8 DEF CreationInv, CallFits

---------------------------------------------------------------------------
(* The call prepares a directory *)

Preparing == {"allocate", "prepare", "bind", "provision", "start"}

\* The call goes on with a directory in which no Start is accepted yet, or
\* opens the bound one.
LEMMA PrepareStep ==
    ASSUME CreationInv, job # None, job.stage # "reserve",
           NEW h \in Bindings, NEW r \in Directory, NEW s \in Preparing,
           dirs' = [dirs EXCEPT ![h] = r],
           job' \in Call, job' # None, job'.change = job.change,
           job'.incoming = job.incoming, job'.held = h, job'.stage = s,
           UNCHANGED <<entries, register, told, moves>>,
           failures' \in 0..MaxFailures,
           dirs[h].change = job.change,
           r.change = dirs[h].change, r.request = dirs[h].request,
           r.started = dirs[h].started, r.activation = dirs[h].activation,
           r.more = dirs[h].more, r.holder = "register", r.stage = Expected(s),
           dirs[h].started # None => r.stage = "provisioned",
           s \in {"allocate", "prepare", "bind"} => entries[job.change].state = 0,
           s \in Starting => entries[job.change].state > 0
                               /\ entries[job.change].binding = h
    PROVE  CreationInv' /\ Advances
  <1>1. /\ dirs' \in Seq(Directory) /\ Len(dirs') = Len(dirs)
        /\ DOMAIN dirs' = DOMAIN dirs
        /\ dirs'[h] = r
        /\ \A d \in Bindings : d # h => dirs'[d] = dirs[d]
        /\ Advances /\ Rows' /\ NoReplacement'
        /\ DirectoryFits(h)' => DirectoriesFit'
    BY OneTouched
  <1>2. DirectoriesFit'
    <2>1. DirectoryFits(h)
      BY DEF CreationInv, DirectoriesFit
    <2>2. DirectoryFits(h)'
      BY <1>1, <2>1 DEF DirectoryFits, Row, ReceiptFor
    <2> QED
      BY <1>1, <2>2
  <1>3. Typed'
    BY <1>1 DEF Typed, CreationInv
  <1>4. /\ s \notin Searching /\ s \notin Started /\ s # "ready" /\ s # "reserve"
        /\ s \notin {"include", "activate", "unactivated", "ready"}
    BY DEF Preparing, Searching, Started
  <1>5. CallFitsRow'
    <2>1. CallFitsRow
      BY CallNow
    <2> QED
      BY <1>4, <2>1 DEF CallFitsRow, Same, Starting
  <1>6. CallFitsDirectory'
    BY <1>1, <1>4 DEF CallFitsDirectory, Bindings
  <1>7. FreshFits'
    BY <1>4 DEF FreshFits
  <1>8. AnswersFit'
    BY <1>1, <1>3, AnswersKept
  <1> QED
    BY <1>1, <1>2, <1>3, <1>5, <1>6, <1>7, <1>8 DEF CreationInv, CallFits

LEMMA ResumePreparationStep ==
    ASSUME CreationInv, ResumePreparation
    PROVE  CreationInv' /\ Advances
  <1>1. PICK h \in Bindings :
          /\ MayPrepare(job, h)
          /\ dirs' = [dirs EXCEPT ![h].stage = "prepared", ![h].holder = "register"]
          /\ Take(h, IF Kept.state = 0 THEN "bind" ELSE "provision")
    BY DEF ResumePreparation
  <1>2. job # None /\ job.stage = "find"
        /\ UNCHANGED <<entries, register, told, failures, moves>>
    BY DEF ResumePreparation, At, bounds
  <1>3. dirs[h] \in Directory /\ h \in Nat
    BY DirectoryTyped DEF CreationInv
  <1> DEFINE r == [dirs[h] EXCEPT !.stage = "prepared", !.holder = "register"]
  <1>4. /\ r \in Directory /\ r.holder = "register" /\ r.stage = "prepared"
        /\ r.change = dirs[h].change /\ r.request = dirs[h].request
        /\ r.started = dirs[h].started /\ r.activation = dirs[h].activation
        /\ r.more = dirs[h].more
    BY <1>3 DEF Directory, Stages
  <1>5. dirs' = [dirs EXCEPT ![h] = r]
    BY <1>1, <1>3 DEF Directory
  <1>6. entries[job.change] # None /\ entries[job.change].state \in 0..2
    BY <1>2, CallNow, CallTyped, RowTyped DEF CallFitsRow, CreationInv
  <1>7. dirs[h].change = job.change /\ dirs[h].stage # "provisioned"
    BY <1>1 DEF MayPrepare, Explains
  <1>8. dirs[h].started = None
    BY <1>7 DEF CreationInv, DirectoriesFit, DirectoryFits
  <1> DEFINE s == IF entries[job.change].state = 0 THEN "bind" ELSE "provision"
  <1>9. PICK t \in CallStages : t = s
    BY DEF CallStages
  <1>10. /\ t \in Preparing /\ Expected(t) = "prepared"
         /\ t \in {"allocate", "prepare", "bind"} => entries[job.change].state = 0
         /\ t \in Starting => entries[job.change].state > 0
    BY <1>6, <1>9 DEF Preparing, Expected, Starting
  <1>11. entries[job.change].state > 0 => entries[job.change].binding = h
    BY <1>1 DEF MayPrepare
  <1>12. Take(h, t)
    BY <1>1, <1>9 DEF Kept
  <1>13. /\ job' \in Call /\ job' # None
         /\ job'.change = job.change /\ job'.incoming = job.incoming
         /\ job'.held = h /\ job'.stage = t
    BY <1>2, <1>3, <1>12, CallTakes
  <1>14. failures' \in 0..MaxFailures
    BY <1>2 DEF CreationInv, Typed
  <1> HIDE DEF r, s
  <1>15. /\ job # None /\ job.stage # "reserve" /\ r.stage = Expected(t)
         /\ dirs[h].started # None => r.stage = "provisioned"
         /\ t \in Starting => entries[job.change].state > 0
                                 /\ entries[job.change].binding = h
    BY <1>2, <1>4, <1>8, <1>10, <1>11
  <1>16. UNCHANGED <<entries, register, told, moves>>
    BY <1>2
  <1> QED
    BY <1>4, <1>5, <1>7, <1>10, <1>13, <1>14, <1>15, <1>16, PrepareStep

LEMMA OpenBoundStep ==
    ASSUME CreationInv, OpenBound
    PROVE  CreationInv' /\ Advances
  <1>1. PICK h \in Bindings :
          /\ MayOpenBound(h)
          /\ dirs' = [dirs EXCEPT ![h].holder = "register"]
          /\ Take(h, "start")
    BY DEF OpenBound
  <1>2. job # None /\ job.stage = "find"
        /\ UNCHANGED <<entries, register, told, failures, moves>>
    BY DEF OpenBound, At, bounds
  <1>3. dirs[h] \in Directory /\ h \in Nat
    BY DirectoryTyped DEF CreationInv
  <1> DEFINE r == [dirs[h] EXCEPT !.holder = "register"]
  <1>4. /\ r \in Directory /\ r.holder = "register" /\ r.stage = dirs[h].stage
        /\ r.change = dirs[h].change /\ r.request = dirs[h].request
        /\ r.started = dirs[h].started /\ r.activation = dirs[h].activation
        /\ r.more = dirs[h].more
    BY <1>3 DEF Directory
  <1>5. dirs' = [dirs EXCEPT ![h] = r]
    BY <1>1
  <1>6. /\ dirs[h].change = job.change /\ dirs[h].stage = "provisioned"
        /\ entries[job.change].state > 0 /\ entries[job.change].binding = h
    BY <1>1 DEF MayOpenBound, Kept
  <1>7. /\ "start" \in Preparing /\ "start" \in CallStages
        /\ Expected("start") = "provisioned"
        /\ "start" \notin {"allocate", "prepare", "bind"}
    BY DEF Preparing, CallStages, Expected
  <1>8. /\ job' \in Call /\ job' # None
        /\ job'.change = job.change /\ job'.incoming = job.incoming
        /\ job'.held = h /\ job'.stage = "start"
    BY <1>1, <1>2, <1>3, <1>7, CallTakes
  <1>9. failures' \in 0..MaxFailures
    BY <1>2 DEF CreationInv, Typed
  <1> HIDE DEF r
  <1> QED
    BY <1>2, <1>4, <1>5, <1>6, <1>7, <1>8, <1>9, PrepareStep

\* One of the steps of an allocation, or the schema in its place.
LEMMA StageOfDirectoryStep ==
    ASSUME CreationInv, job # None, NEW s \in Preparing, NEW t \in Preparing,
           job.stage = s, t # "allocate",
           dirs' = [dirs EXCEPT ![job.held].stage = Expected(t)],
           Go(t), UNCHANGED <<entries, register, told, failures, moves>>,
           s \in {"allocate", "prepare"} => t \in {"prepare", "bind"},
           s \in {"provision"} => t = "start",
           s \in {"allocate", "prepare", "provision"}
    PROVE  CreationInv' /\ Advances
  <1>1. job.stage \notin Searching
    BY DEF Searching, Preparing
  <1>2. PICK h \in Bindings : h = job.held
    BY <1>1, CallHolds
  <1>3. /\ dirs[h] \in Directory /\ dirs[h].change = job.change
        /\ dirs[h].holder = "register" /\ dirs[h].stage = Expected(s)
    BY <1>1, <1>2, CallHolds
  <1> DEFINE r == [dirs[h] EXCEPT !.stage = Expected(t)]
  <1>4. /\ r \in Directory /\ r.holder = "register" /\ r.stage = Expected(t)
        /\ r.change = dirs[h].change /\ r.request = dirs[h].request
        /\ r.started = dirs[h].started /\ r.activation = dirs[h].activation
        /\ r.more = dirs[h].more
    BY <1>3 DEF Directory, Stages, Expected
  <1>5. dirs' = [dirs EXCEPT ![h] = r]
    BY <1>2
  <1>6. dirs[h].started = None
    <2>1. Expected(s) # "provisioned"
      BY DEF Expected
    <2> QED
      BY <1>3, <2>1 DEF CreationInv, DirectoriesFit, DirectoryFits
  <1>7. /\ s \in {"allocate", "prepare"} => entries[job.change].state = 0
        /\ s = "provision" => entries[job.change].state > 0
                                /\ entries[job.change].binding = h
    BY <1>2, CallNow DEF CallFitsRow, Starting
  <1>8. /\ t \in CallStages /\ s # "reserve"
        /\ t \in {"allocate", "prepare", "bind"} => s # "provision"
        /\ t \in Starting => s = "provision"
    BY DEF CallStages, Preparing, Starting
  <1>9. /\ job' \in Call /\ job' # None
        /\ job'.change = job.change /\ job'.incoming = job.incoming
        /\ job'.held = h /\ job'.stage = t
    BY <1>2, <1>8, CallGoes
  <1>10. failures' \in 0..MaxFailures
    BY DEF CreationInv, Typed
  <1> HIDE DEF r
  <1>11. /\ job.stage # "reserve"
         /\ dirs[h].started # None => r.stage = "provisioned"
         /\ t \in {"allocate", "prepare", "bind"} => entries[job.change].state = 0
         /\ t \in Starting => entries[job.change].state > 0
                                 /\ entries[job.change].binding = h
    BY <1>6, <1>7, <1>8
  <1>12. UNCHANGED <<entries, register, told, moves>>
    OBVIOUS
  <1>13. /\ CreationInv /\ job # None /\ h \in Bindings /\ t \in Preparing
         /\ dirs[h].change = job.change
    BY <1>3
  <1> QED
    BY ONLY <1>4, <1>5, <1>9, <1>10, <1>11, <1>12, <1>13, PrepareStep

LEMMA PublishStep ==
    ASSUME CreationInv, PublishAllocation \/ PublishWitness
    PROVE  CreationInv' /\ Advances
  <1>1. CASE PublishAllocation
    <2>1. /\ job # None /\ job.stage = "allocate" /\ Go("prepare")
          /\ dirs' = [dirs EXCEPT ![job.held].stage = "allocated"]
          /\ UNCHANGED <<entries, register, told, failures, moves>>
      BY <1>1 DEF PublishAllocation, At, bounds
    <2>2. /\ "allocate" \in Preparing /\ "prepare" \in Preparing
          /\ Expected("prepare") = "allocated"
      BY DEF Preparing, Expected
    <2> QED
      BY <2>1, <2>2, StageOfDirectoryStep
  <1>2. CASE PublishWitness
    <2>1. /\ job # None /\ job.stage = "prepare" /\ Go("bind")
          /\ dirs' = [dirs EXCEPT ![job.held].stage = "prepared"]
          /\ UNCHANGED <<entries, register, told, failures, moves>>
      BY <1>2 DEF PublishWitness, At, bounds
    <2>2. /\ "bind" \in Preparing /\ "prepare" \in Preparing
          /\ Expected("bind") = "prepared"
      BY DEF Preparing, Expected
    <2> QED
      BY <2>1, <2>2, StageOfDirectoryStep
  <1> QED
    BY <1>1, <1>2

---------------------------------------------------------------------------
(* The original is provisioned, started and activated *)

\* Everything but the call: what is put into the directory held is of the
\* retained request and the binding.
LEMMA OriginalStep ==
    ASSUME CreationInv, job # None, job.stage \in Starting \cup Started,
           NEW h \in Bindings, h = job.held, NEW r \in Directory,
           dirs' = [dirs EXCEPT ![h] = r], job' \in Call \cup {None},
           UNCHANGED <<entries, register, told, moves>>,
           failures' \in 0..MaxFailures,
           r.change = dirs[h].change, r.request = dirs[h].request,
           r.more = dirs[h].more, r.holder # "owner",
           r.started \in {dirs[h].started, entries[job.change].intent},
           dirs[h].started # None => r.started = dirs[h].started,
           r.started # None => r.stage = "provisioned",
           r.activation # dirs[h].activation =>
               /\ r.activation = ReceiptFor(entries[job.change].intent, h)
               /\ entries[job.change].state = 2 /\ dirs[h].started # None,
           dirs[h].activation # None => r.activation = dirs[h].activation
    PROVE  /\ Typed' /\ Rows' /\ DirectoriesFit' /\ NoReplacement' /\ AnswersFit'
           /\ Advances /\ dirs'[h] = r /\ DOMAIN dirs' = DOMAIN dirs
  <1>1. /\ dirs' \in Seq(Directory) /\ Len(dirs') = Len(dirs)
        /\ DOMAIN dirs' = DOMAIN dirs
        /\ dirs'[h] = r
        /\ \A d \in Bindings : d # h => dirs'[d] = dirs[d]
        /\ Advances /\ Rows' /\ NoReplacement'
        /\ DirectoryFits(h)' => DirectoriesFit'
    BY OneTouched
  <1>2. job.stage \notin Searching
    BY DEF Starting, Started, Searching
  <1>3. dirs[h].change = job.change
    BY <1>2, CallHolds
  <1>4. entries[job.change].state > 0 /\ entries[job.change].binding = h
    BY CallNow DEF CallFitsRow
  <1>5. DirectoryFits(h)
    BY DEF CreationInv, DirectoriesFit
  <1>6. DirectoryFits(h)'
    BY <1>1, <1>3, <1>4, <1>5 DEF DirectoryFits, Row, ReceiptFor
  <1>7. Typed'
    BY <1>1 DEF Typed, CreationInv
  <1>8. AnswersFit'
    BY <1>1, <1>7, AnswersKept
  <1> QED
    BY <1>1, <1>6, <1>7, <1>8

\* The call that goes on.
LEMMA GoesOn ==
    ASSUME CreationInv, job # None, job.stage \in Starting \cup Started,
           NEW h \in Bindings, h = job.held, NEW s \in Started \cup {"start"}, Go(s),
           UNCHANGED entries, DOMAIN dirs' = DOMAIN dirs,
           dirs'[h].change = dirs[h].change, dirs'[h].holder = "register",
           dirs'[h].stage = "provisioned",
           s # "start" => dirs'[h].started # None,
           s = "ready" => dirs'[h].activation # None,
           s = "include" => entries[job.change].state = 1,
           s \in {"activate", "unactivated", "ready"} => entries[job.change].state = 2
    PROVE  CallFits' /\ job' \in Call
  <1>1. s \in CallStages /\ s \notin Searching /\ Expected(s) = "provisioned"
    BY DEF CallStages, Started, Searching, Expected
  <1>2. /\ job' \in Call /\ job' # None
        /\ job'.change = job.change /\ job'.incoming = job.incoming
        /\ job'.fresh = job.fresh /\ job'.held = h
        /\ job'.stage = s
    BY <1>1, CallGoes
  <1>3. job.stage \notin Searching /\ job.stage # "reserve"
    BY DEF Starting, Started, Searching
  <1>4. dirs[h].change = job.change
    BY <1>3, CallHolds
  <1>5. s \notin {"reserve", "allocate", "prepare", "bind"}
    BY DEF Started
  <1>6. CallFitsRow'
    BY <1>2, <1>3, <1>5, CallNow DEF CallFitsRow, Same
  <1>7. CallFitsDirectory'
    <2>1. s \in Started => s # "start"
      BY DEF Started
    <2> QED
      BY <1>1, <1>2, <1>4, <2>1 DEF CallFitsDirectory, Bindings
  <1>8. FreshFits'
    BY <1>1, <1>2 DEF FreshFits
  <1> QED
    BY <1>2, <1>6, <1>7, <1>8 DEF CallFits

LEMMA ReleasedOne ==
    ASSUME CreationInv, NEW h \in Bindings, h = job.held, NEW r \in Directory,
           NEW ds, ds = [dirs EXCEPT ![h] = r]
    PROVE  Released(ds) = [dirs EXCEPT ![h] = [r EXCEPT !.holder = "nobody"]]
  <1> DEFINE q == [r EXCEPT !.holder = "nobody"]
             es == [ds EXCEPT ![h] = q]
             fs == [dirs EXCEPT ![h] = q]
  <1>1. q \in Directory
    BY DEF Directory
  <1>2. dirs \in Seq(Directory) /\ h \in Nat /\ Bindings = 1..Len(dirs)
    BY DirectoryTyped DEF CreationInv, Typed
  <1>3. ds \in Seq(Directory) /\ Len(ds) = Len(dirs) /\ ds[h] = r
        /\ DOMAIN ds = DOMAIN dirs
        /\ \A d \in DOMAIN dirs : d # h => ds[d] = dirs[d]
    BY <1>2, OneDirectory DEF Bindings
  <1>4. es \in Seq(Directory) /\ Len(es) = Len(ds) /\ es[h] = q
        /\ \A d \in DOMAIN ds : d # h => es[d] = ds[d]
    BY <1>1, <1>3, OneDirectory DEF Bindings
  <1>5. fs \in Seq(Directory) /\ Len(fs) = Len(dirs) /\ fs[h] = q
        /\ \A d \in DOMAIN dirs : d # h => fs[d] = dirs[d]
    BY <1>1, <1>2, OneDirectory DEF Bindings
  <1> HIDE DEF q
  <1>6. \A i \in 1..Len(es) : es[i] = fs[i]
    BY <1>2, <1>3, <1>4, <1>5 DEF Bindings
  <1> HIDE DEF es, fs
  <1>7. es = fs
    BY <1>3, <1>4, <1>5, <1>6, SeqEqual
  <1>8. Released(ds) = es
    <2>1. job.held # None
      BY <1>2, CreationAssumption
    <2> QED
      BY <1>3, <2>1 DEF Released, es, q
  <1> QED
    BY <1>7, <1>8 DEF fs, q

LEMMA ProvisionStep ==
    ASSUME CreationInv, NEW o \in Outcomes, Provision(o)
    PROVE  CreationInv' /\ Advances
  <1> DEFINE t == CASE Effective(o) -> "provisioned"
                    [] o = "stuck" -> "possible"
                    [] OTHER -> "prepared"
  <1>1. /\ job # None /\ job.stage = "provision"
        /\ UNCHANGED <<entries, register, told, moves>>
    BY DEF Provision, At
  <1>2. job.stage \in Starting /\ job.stage \notin Searching
    BY <1>1 DEF Starting, Searching
  <1>3. PICK h \in Bindings : h = job.held
    BY <1>1, <1>2, CallHolds
  <1>4. /\ dirs[h] \in Directory /\ dirs[h].holder = "register"
        /\ dirs[h].stage = "prepared"
    BY <1>1, <1>2, <1>3, CallHolds DEF Expected
  <1>5. dirs[h].started = None /\ dirs[h].activation = None
    BY <1>4 DEF CreationInv, DirectoriesFit, DirectoryFits
  <1>6. failures' \in 0..MaxFailures
    BY PayTyped DEF Provision, CreationInv
  <1> DEFINE r == [dirs[h] EXCEPT !.stage = t]
             after == [dirs EXCEPT ![job.held].stage = t]
  <1>7. /\ r \in Directory /\ r.holder = "register" /\ r.stage = t
        /\ r.change = dirs[h].change /\ r.request = dirs[h].request
        /\ r.started = None /\ r.activation = None /\ r.more = dirs[h].more
    BY <1>4, <1>5 DEF Directory, Stages
  <1>8. after = [dirs EXCEPT ![h] = r]
    BY <1>3
  <1>9. IF o = "done" THEN dirs' = after /\ Go("start")
                      ELSE dirs' = Released(after) /\ End
    BY DEF Provision
  <1>10. t = "provisioned" \/ o # "done"
    BY DEF Effective
  <1> HIDE DEF r, t, after
  <1>11. CASE o = "done"
    <2>1. dirs' = [dirs EXCEPT ![h] = r] /\ Go("start")
      BY <1>8, <1>9, <1>11
    <2>2. job' \in Call
      <3>1. "start" \in CallStages
        BY DEF CallStages
      <3> QED
        BY <1>1, <2>1, <3>1, CallGoes
    <2>3. /\ Typed' /\ Rows' /\ DirectoriesFit' /\ NoReplacement' /\ AnswersFit'
          /\ Advances /\ dirs'[h] = r /\ DOMAIN dirs' = DOMAIN dirs
      BY <1>1, <1>2, <1>3, <1>5, <1>6, <1>7, <2>1, <2>2, OriginalStep
    <2>4. CallFits'
      BY <1>1, <1>2, <1>3, <1>7, <1>10, <1>11, <2>1, <2>3, GoesOn
    <2> QED
      BY <2>3, <2>4 DEF CreationInv
  <1>12. CASE o # "done"
    <2> DEFINE q == [r EXCEPT !.holder = "nobody"]
    <2>1. dirs' = [dirs EXCEPT ![h] = q] /\ job' = None
      BY <1>3, <1>7, <1>8, <1>9, <1>12, ReleasedOne DEF End
    <2>2. /\ q \in Directory /\ q.holder = "nobody"
          /\ q.change = dirs[h].change /\ q.request = dirs[h].request
          /\ q.started = None /\ q.activation = None /\ q.more = dirs[h].more
      BY <1>7 DEF Directory
    <2> HIDE DEF q
    <2>3. /\ Typed' /\ Rows' /\ DirectoriesFit' /\ NoReplacement' /\ AnswersFit'
          /\ Advances
      BY <1>1, <1>2, <1>3, <1>5, <1>6, <2>1, <2>2, OriginalStep
    <2> QED
      BY <2>1, <2>3 DEF CreationInv, CallFits
  <1> QED
    BY <1>11, <1>12

\* A mutation of the original held, whatever its outcome.
LEMMA MutateOriginalStep ==
    ASSUME CreationInv, job # None, job.stage \in {"start", "activate"},
           NEW h \in Bindings, h = job.held, NEW a \in Directory,
           NEW o \in Outcomes, MutateOriginal(a, o), NEW s \in Started,
           IF o = "done" THEN Go(s) ELSE End,
           UNCHANGED <<entries, register, told, moves>>,
           a.change = dirs[h].change, a.request = dirs[h].request,
           a.more = dirs[h].more, a.holder = dirs[h].holder, a.stage = dirs[h].stage,
           a.started \in {dirs[h].started, entries[job.change].intent},
           dirs[h].started # None => a.started = dirs[h].started,
           a.started # None,
           a.activation # dirs[h].activation =>
               /\ a.activation = ReceiptFor(entries[job.change].intent, h)
               /\ entries[job.change].state = 2 /\ dirs[h].started # None,
           dirs[h].activation # None => a.activation = dirs[h].activation,
           s = "ready" => a.activation # None,
           s = "include" => entries[job.change].state = 1,
           s \in {"activate", "unactivated", "ready"} => entries[job.change].state = 2
    PROVE  CreationInv' /\ Advances
  <1>1. /\ job.stage \in Starting \cup Started /\ job.stage \notin Searching
        /\ Expected(job.stage) = "provisioned"
    BY DEF Starting, Started, Searching, Expected
  <1>2. /\ dirs[h] \in Directory /\ dirs[h].holder = "register"
        /\ dirs[h].stage = "provisioned"
    BY <1>1, CallHolds
  <1>3. failures' \in 0..MaxFailures
    BY PayTyped DEF MutateOriginal, CreationInv
  <1> DEFINE ds == CASE Effective(o) -> [dirs EXCEPT ![job.held] = a]
                     [] o = "stuck" -> [dirs EXCEPT ![job.held].stuck = TRUE]
                     [] OTHER -> dirs
             b == CASE Effective(o) -> a
                    [] o = "stuck" -> [dirs[h] EXCEPT !.stuck = TRUE]
                    [] OTHER -> dirs[h]
  <1>4. b \in Directory
    BY <1>2 DEF Directory
  <1>5. /\ b.change = dirs[h].change /\ b.request = dirs[h].request
        /\ b.more = dirs[h].more /\ b.holder = "register" /\ b.stage = "provisioned"
        /\ b.started \in {dirs[h].started, a.started}
        /\ dirs[h].started # None => b.started = dirs[h].started
        /\ b.activation \in {dirs[h].activation, a.activation}
        /\ o = "done" => b = a
    BY <1>2 DEF Directory, Effective
  <1>6. ds = [dirs EXCEPT ![h] = b]
    <2>1. dirs \in Seq(Directory) /\ DOMAIN dirs = 1..Len(dirs)
      BY LenProperties DEF CreationInv, Typed
    <2>2. dirs = [dirs EXCEPT ![h] = dirs[h]]
      BY <2>1, LenProperties
    <2>3. CASE Effective(o)
      <3>1. ds = [dirs EXCEPT ![job.held] = a] /\ b = a
        BY <2>3 DEF Effective
      <3> QED
        BY <3>1
    <2>4. CASE ~Effective(o) /\ o = "stuck"
      BY <2>4
    <2>5. CASE ~Effective(o) /\ o # "stuck"
      BY <2>2, <2>5
    <2> QED
      BY <2>3, <2>4, <2>5
  <1>7. dirs' = IF o = "done" THEN ds ELSE Released(ds)
    BY DEF MutateOriginal
  <1> HIDE DEF b, ds
  <1>8. CASE o = "done"
    <2>1. dirs' = [dirs EXCEPT ![h] = b] /\ Go(s) /\ b = a
      BY <1>5, <1>6, <1>7, <1>8
    <2>2. job' \in Call
      <3>1. s \in CallStages
        BY DEF CallStages, Started
      <3> QED
        BY <2>1, <3>1, CallGoes
    <2>3. /\ Typed' /\ Rows' /\ DirectoriesFit' /\ NoReplacement' /\ AnswersFit'
          /\ Advances /\ dirs'[h] = b /\ DOMAIN dirs' = DOMAIN dirs
      BY <1>1, <1>3, <1>4, <1>5, <2>1, <2>2, OriginalStep
    <2>4. CallFits'
      BY <1>1, <1>5, <2>1, <2>3, GoesOn
    <2> QED
      BY <2>3, <2>4 DEF CreationInv
  <1>9. CASE o # "done"
    <2> DEFINE q == [b EXCEPT !.holder = "nobody"]
    <2>0. Released(ds) = [dirs EXCEPT ![h] = q]
      <3>1. CreationInv /\ h \in Bindings /\ h = job.held
        OBVIOUS
      <3> QED
        BY ONLY <1>4, <1>6, <3>1, ReleasedOne
    <2>1. dirs' = [dirs EXCEPT ![h] = q] /\ job' = None
      BY <2>0, <1>7, <1>9 DEF End
    <2>2. /\ q \in Directory /\ q.holder = "nobody" /\ q.stage = b.stage
          /\ q.change = b.change /\ q.request = b.request
          /\ q.started = b.started /\ q.activation = b.activation /\ q.more = b.more
      BY <1>4 DEF Directory
    <2> HIDE DEF q
    <2>3. /\ q.started \in {dirs[h].started, entries[job.change].intent}
          /\ dirs[h].started # None => q.started = dirs[h].started
          /\ q.stage = "provisioned" /\ q.more = dirs[h].more
          /\ q.change = dirs[h].change /\ q.request = dirs[h].request
          /\ q.activation # dirs[h].activation =>
                /\ q.activation = ReceiptFor(entries[job.change].intent, h)
                /\ entries[job.change].state = 2 /\ dirs[h].started # None
          /\ dirs[h].activation # None => q.activation = dirs[h].activation
      BY <1>5, <2>2
    <2>4. /\ Typed' /\ Rows' /\ DirectoriesFit' /\ NoReplacement' /\ AnswersFit'
          /\ Advances
      BY <1>1, <1>3, <2>1, <2>2, <2>3, OriginalStep
    <2> QED
      BY <2>1, <2>4 DEF CreationInv, CallFits
  <1> QED
    BY <1>8, <1>9

LEMMA RetainedTyped ==
    ASSUME CreationInv, job # None, job.stage # "reserve"
    PROVE  /\ job.change \in Changes /\ entries[job.change] # None
           /\ entries[job.change] \in Entry
           /\ entries[job.change].intent \in Intent
           /\ entries[job.change].intent \in Intents
           /\ entries[job.change].intent # None
           /\ entries[job.change].intent.change = job.change
           /\ RowFits(job.change)
  <1>1. job.change \in Changes /\ entries[job.change] # None
    BY CallTyped, CallNow DEF CallFitsRow, CreationInv
  <1>2. RowFits(job.change) /\ entries[job.change] \in Entry
    BY <1>1, RowTyped DEF CreationInv, Rows
  <1> QED
    BY <1>1, <1>2, CreationAssumption DEF RowFits, ValidEntry

LEMMA StartStep ==
    ASSUME CreationInv, NEW o \in Outcomes, Start(o)
    PROVE  CreationInv' /\ Advances
  <1>1. /\ job # None /\ job.stage = "start" /\ dirs[job.held].started = None
        /\ MutateOriginal([dirs[job.held] EXCEPT !.started = entries[job.change].intent], o)
        /\ IF o = "done" THEN Go(AfterStart(entries[job.change].state)) ELSE End
        /\ UNCHANGED <<entries, register, told, moves>>
    BY DEF Start, At, Held, Kept, RetainedRequest
  <1>2. job.stage \notin Searching /\ job.stage \in Starting /\ job.stage # "reserve"
    BY <1>1 DEF Searching, Starting
  <1>3. PICK h \in Bindings : h = job.held
    BY <1>1, <1>2, CallHolds
  <1>4. dirs[h] \in Directory
    BY DirectoryTyped DEF CreationInv
  <1>5. /\ entries[job.change].intent \in Intent
        /\ entries[job.change].intent # None
    BY <1>1, <1>2, RetainedTyped
  <1> DEFINE a == [dirs[h] EXCEPT !.started = entries[job.change].intent]
  <1>6. a \in Directory
    BY <1>4, <1>5 DEF Directory
  <1>7. /\ a.change = dirs[h].change /\ a.request = dirs[h].request
        /\ a.more = dirs[h].more /\ a.holder = dirs[h].holder /\ a.stage = dirs[h].stage
        /\ a.started = entries[job.change].intent /\ a.activation = dirs[h].activation
    BY <1>4 DEF Directory
  <1>8. PICK s \in Started : s = AfterStart(entries[job.change].state)
    BY DEF AfterStart, Started
  <1>9. /\ s # "ready"
        /\ s = "include" => entries[job.change].state = 1
        /\ s \in {"activate", "unactivated", "ready"} => entries[job.change].state = 2
    <2>1. entries[job.change].state \in 1..2
      BY <1>1, <1>2, RetainedTyped, CallNow DEF CallFitsRow, Entry
    <2> QED
      BY <1>8, <2>1 DEF AfterStart
  <1>10. /\ MutateOriginal(a, o)
         /\ IF o = "done" THEN Go(s) ELSE End
         /\ dirs[h].started = None
    BY <1>1, <1>3, <1>8
  <1>11. CreationInv /\ h \in Bindings /\ h = job.held /\ o \in Outcomes
    BY <1>3
  <1> HIDE DEF a
  <1> QED
    BY ONLY <1>1, <1>5, <1>6, <1>7, <1>8, <1>9, <1>10, <1>11, MutateOriginalStep

LEMMA ActivateStep ==
    ASSUME CreationInv, NEW o \in Outcomes, Activate(o)
    PROVE  CreationInv' /\ Advances
  <1>1. /\ job # None /\ job.stage = "activate" /\ dirs[job.held].activation = None
        /\ MutateOriginal([dirs[job.held] EXCEPT !.activation = SavedReceipt(job)], o)
        /\ IF o = "done" THEN Go("ready") ELSE End
        /\ UNCHANGED <<entries, register, told, moves>>
    BY DEF Activate, At, Held
  <1>2. job.stage \notin Searching /\ job.stage \in Started /\ job.stage # "reserve"
    BY <1>1 DEF Searching, Started
  <1>3. PICK h \in Bindings : h = job.held
    BY <1>1, <1>2, CallHolds
  <1>4. dirs[h] \in Directory /\ h \in Nat
    BY DirectoryTyped DEF CreationInv
  <1>5. /\ entries[job.change].state = 2 /\ entries[job.change].binding = h
        /\ dirs[h].started # None
    BY <1>1, <1>2, <1>3, CallNow DEF CallFitsRow, CallFitsDirectory
  <1>6. /\ SavedReceipt(job) = ReceiptFor(entries[job.change].intent, h)
        /\ SavedReceipt(job) \in Receipt /\ SavedReceipt(job) # None
    <2>1. ValidEntry(job.change) /\ entries[job.change].intent \in Intent
      BY <1>1, <1>2, RetainedTyped DEF RowFits
    <2> QED
      BY <1>4, <1>5, <2>1, CreationAssumption
      DEF SavedReceipt, ValidEntry, ReceiptFor, Receipt
  <1> DEFINE a == [dirs[h] EXCEPT !.activation = SavedReceipt(job)]
  <1>7. a \in Directory
    BY <1>4, <1>6 DEF Directory
  <1>8. /\ a.change = dirs[h].change /\ a.request = dirs[h].request
        /\ a.more = dirs[h].more /\ a.holder = dirs[h].holder /\ a.stage = dirs[h].stage
        /\ a.started = dirs[h].started /\ a.activation = SavedReceipt(job)
    BY <1>4 DEF Directory
  <1>9. /\ MutateOriginal(a, o) /\ "ready" \in Started
        /\ dirs[h].activation = None
    BY <1>1, <1>3 DEF Started
  <1>10. CreationInv /\ h \in Bindings /\ h = job.held /\ o \in Outcomes
    BY <1>3
  <1> HIDE DEF a
  <1> QED
    BY ONLY <1>1, <1>5, <1>6, <1>7, <1>8, <1>9, <1>10, MutateOriginalStep

---------------------------------------------------------------------------
(* The register's row is written *)

\* All a directory holds is as it was; at most it is let go of.
SameHistory(d) ==
    /\ dirs'[d].change = dirs[d].change /\ dirs'[d].request = dirs[d].request
    /\ dirs'[d].stage = dirs[d].stage /\ dirs'[d].started = dirs[d].started
    /\ dirs'[d].activation = dirs[d].activation /\ dirs'[d].more = dirs[d].more
    /\ dirs'[d].holder \in {dirs[d].holder, "nobody"}

LEMMA LetGo ==
    ASSUME CreationInv, job # None, dirs' = Released(dirs)
    PROVE  /\ dirs' \in Seq(Directory) /\ Len(dirs') = Len(dirs)
           /\ DOMAIN dirs' = DOMAIN dirs
           /\ \A d \in Bindings : SameHistory(d)
  <1>1. CASE job.held = None
    <2>1. dirs' = dirs
      BY <1>1 DEF Released
    <2> QED
      BY <2>1 DEF SameHistory, CreationInv, Typed
  <1>2. CASE job.held # None
    <2>1. PICK h \in Bindings : h = job.held
      BY <1>2, HeldIsRegistered
    <2> DEFINE r == [dirs[h] EXCEPT !.holder = "nobody"]
    <2>2. dirs[h] \in Directory
      BY DirectoryTyped DEF CreationInv
    <2>3. /\ r \in Directory /\ r.holder = "nobody"
          /\ r.change = dirs[h].change /\ r.request = dirs[h].request
          /\ r.stage = dirs[h].stage /\ r.started = dirs[h].started
          /\ r.activation = dirs[h].activation /\ r.more = dirs[h].more
      BY <2>2 DEF Directory
    <2>4. dirs' = [dirs EXCEPT ![h] = r]
      BY <1>2, <2>1 DEF Released
    <2> HIDE DEF r
    <2>5. /\ dirs' \in Seq(Directory) /\ Len(dirs') = Len(dirs)
          /\ DOMAIN dirs' = DOMAIN dirs /\ dirs'[h] = r
          /\ \A d \in Bindings : d # h => dirs'[d] = dirs[d]
      BY <2>3, <2>4, OneDirectory DEF CreationInv, Typed, Bindings
    <2> QED
      BY <2>3, <2>5 DEF SameHistory
  <1> QED
    BY <1>1, <1>2

LEMMA RowWritten ==
    ASSUME CreationInv, NEW c \in Changes, NEW e \in Entry,
           entries' = [entries EXCEPT ![c] = e],
           DOMAIN dirs' = DOMAIN dirs, \A d \in Bindings : SameHistory(d),
           entries[c] # None =>
               /\ e.intent = entries[c].intent
               /\ entries[c].state > 0 =>
                    e.state >= entries[c].state /\ e.binding = entries[c].binding,
           e.intent \in Intents, e.intent.change = c,
           (e.binding = None) <=> (e.state = 0),
           e.receipt = IF e.state = 2 THEN ReceiptFor(e.intent, e.binding) ELSE None,
           e.state > 0 => e.binding \in Bindings /\ dirs[e.binding].change = c,
           e.state = 2 => dirs[e.binding].started # None
    PROVE  /\ Advances /\ Rows' /\ DirectoriesFit' /\ NoReplacement'
           /\ entries' \in [Changes -> Entry \cup {None}] /\ entries'[c] = e
  <1>1. /\ entries' \in [Changes -> Entry \cup {None}]
        /\ entries'[c] = e /\ e # None
        /\ \A x \in Changes : x # c => entries'[x] = entries[x]
    BY NoneAssumption DEF CreationInv, Typed
  <1>2. Advances
    <2>1. \A x \in Changes : x # c /\ entries[x] # None =>
            /\ entries'[x] # None
            /\ entries'[x].intent = entries[x].intent
            /\ entries[x].state > 0 => entries'[x].state >= entries[x].state
            /\ entries'[x].binding = entries[x].binding
      <3>1. \A x \in Changes : entries[x] # None => entries[x].state \in 0..2
        BY RowTyped DEF CreationInv
      <3> QED
        BY <1>1, <3>1
    <2>2. \A d \in Bindings :
            /\ d \in DOMAIN dirs'
            /\ dirs'[d].change = dirs[d].change
            /\ dirs'[d].request = dirs[d].request
            /\ dirs'[d].started = dirs[d].started
            /\ dirs'[d].activation = dirs[d].activation
      BY DEF SameHistory, Bindings
    <2> QED
      BY <1>1, <2>1, <2>2 DEF Advances
  <1>3. Rows'
    <2>1. RowFits(c)'
      BY <1>1 DEF RowFits, ValidEntry, SameHistory, Bindings
    <2>2. \A x \in Changes : x # c => RowFits(x)'
      BY <1>1, <1>2, RowKept
    <2> QED
      BY <2>1, <2>2 DEF Rows
  <1>4. DirectoriesFit'
    <2> SUFFICES ASSUME NEW d \in Bindings PROVE DirectoryFits(d)'
      BY DEF DirectoriesFit, Bindings
    <2>1. DirectoryFits(d) /\ SameHistory(d) /\ dirs[d].change \in Changes
      BY DirectoryTyped DEF CreationInv, DirectoriesFit
    <2>2. CASE dirs[d].change # c
      BY <1>1, <2>1, <2>2 DEF DirectoryFits, SameHistory, Row, ReceiptFor
    <2>3. CASE dirs[d].change = c
      <3>1. entries[c] # None /\ entries[c].state \in 0..2
        BY <2>1, <2>3, RowTyped DEF DirectoryFits, Row, CreationInv
      <3>2. /\ e.intent = entries[c].intent /\ e.state \in 0..2
            /\ entries[c].state > 0 => e.state >= entries[c].state
                                         /\ e.binding = entries[c].binding
        BY <3>1 DEF Entry
      <3>3. /\ Row(d) = entries[c] /\ Row(d)' = e
        BY <1>1, <2>1, <2>3 DEF Row, SameHistory
      <3>4. entries[c].state = 2 => e.state = 2
        BY <3>1, <3>2
      <3> QED
        BY <1>1, <2>1, <3>1, <3>2, <3>3, <3>4 DEF DirectoryFits, SameHistory, ReceiptFor
    <2> QED
      BY <2>2, <2>3
  <1> QED
    BY <1>1, <1>2, <1>3, <1>4, NoneMade

LEMMA RegisterTyped ==
    ASSUME CreationInv, NEW c, NEW e, NEW o \in Outcomes, MutateRegister(c, e, o)
    PROVE  /\ register' \in {"live", "fenced", "closed", "stuck"}
           /\ failures' \in 0..MaxFailures
           /\ entries' = IF Effective(o) THEN [entries EXCEPT ![c] = e] ELSE entries
  BY PayTyped DEF MutateRegister, RegisterAfter, CreationInv

LEMMA ReserveStep ==
    ASSUME CreationInv, NEW o \in Outcomes, Reserve(o)
    PROVE  CreationInv' /\ Advances
  <1>1. /\ job # None /\ job.stage = "reserve"
        /\ UNCHANGED <<dirs, told, moves>>
        /\ IF o = "done" THEN Go("find") ELSE End
    BY DEF Reserve, At
  <1>2. /\ job.change \in Changes /\ job.incoming \in Intents /\ job.incoming \in Intent
        /\ job.incoming.change = job.change /\ job.fresh /\ entries[job.change] = None
        /\ job.held = None /\ \A d \in Bindings : dirs[d].change # job.change
    BY <1>1, CallTyped, CallNow, CreationAssumption
    DEF CreationInv, CallFitsRow, CallFitsDirectory, FreshFits, Searching
  <1>3. PICK c \in Changes : c = job.change
    BY <1>2
  <1> DEFINE f == [intent |-> job.incoming, state |-> 0, binding |-> None, receipt |-> None]
  <1>0. f \in Entry
    BY <1>2, CreationAssumption DEF Entry
  <1>4. PICK e \in Entry : e = f
    BY <1>0
  <1>5. MutateRegister(c, e, o)
    BY <1>3, <1>4 DEF Reserve
  <1>6. /\ register' \in {"live", "fenced", "closed", "stuck"}
        /\ failures' \in 0..MaxFailures
        /\ entries' = IF Effective(o) THEN [entries EXCEPT ![c] = e] ELSE entries
    BY <1>5, RegisterTyped
  <1>7. /\ Advances /\ Rows' /\ DirectoriesFit' /\ NoReplacement'
        /\ entries' \in [Changes -> Entry \cup {None}]
        /\ Effective(o) => entries'[c] = e
    <2>1. CASE Effective(o)
      <3>1. DOMAIN dirs' = DOMAIN dirs /\ \A d \in Bindings : SameHistory(d)
        BY <1>1 DEF SameHistory
      <3>2. /\ e.intent = job.incoming /\ e.state = 0 /\ e.binding = None
            /\ e.receipt = None
        BY <1>4
      <3>3. entries' = [entries EXCEPT ![c] = e]
        BY <1>6, <2>1
      <3>4. /\ CreationInv /\ c \in Changes /\ e \in Entry
            /\ entries[c] = None /\ e.intent \in Intents /\ e.intent.change = c
            /\ ~(e.state > 0) /\ e.state # 2
        BY <1>2, <1>3, <3>2
      <3> QED
        BY ONLY <3>1, <3>2, <3>3, <3>4, RowWritten
    <2>2. CASE ~Effective(o)
      BY <1>1, <1>6, <2>2, NothingTouched DEF CreationInv, Typed
    <2> QED
      BY <2>1, <2>2
  <1>8. Typed' /\ CallFits'
    <2>1. CASE o = "done"
      <3>1. Go("find") /\ "find" \in CallStages /\ Effective(o)
        BY <1>1, <2>1 DEF CallStages, Effective
      <3>2. /\ job' \in Call /\ job' # None
            /\ job'.change = job.change /\ job'.incoming = job.incoming
            /\ job'.fresh = job.fresh /\ job'.held = job.held
            /\ job'.stage = "find"
        BY <1>1, <3>1, CallGoes
      <3>3. Typed'
        BY <1>1, <1>6, <1>7, <3>2 DEF CreationInv, Typed
      <3>4. entries'[job'.change] = e /\ e # None /\ e.intent = job.incoming
        BY <1>3, <1>4, <1>7, <3>1, <3>2, NoneAssumption
      <3>5. CallFitsRow'
        BY <1>2, <3>2, <3>4 DEF CallFitsRow, Same, Starting, Started
      <3>6. CallFitsDirectory'
        BY <1>2, <3>2 DEF CallFitsDirectory, Searching, Started
      <3>7. FreshFits'
        BY <1>1, <1>2, <3>2 DEF FreshFits, Bindings
      <3> QED
        BY <3>3, <3>5, <3>6, <3>7 DEF CallFits
    <2>2. CASE o # "done"
      BY <1>1, <1>6, <1>7, <2>2 DEF CreationInv, Typed, CallFits, End
    <2> QED
      BY <2>1, <2>2
  <1>9. AnswersFit'
    BY <1>1, <1>7, <1>8, AnswersKept
  <1> QED
    BY <1>7, <1>8, <1>9 DEF CreationInv

\* The rows Bind and Include write.
LEMMA BoundRow ==
    ASSUME NEW r \in Entry, NEW h \in Nat
    PROVE  \E f \in Entry :
              /\ f = [r EXCEPT !.state = 1, !.binding = h] /\ f # None
              /\ f.intent = r.intent /\ f.state = 1 /\ f.binding = h
              /\ f.receipt = r.receipt
  <1> DEFINE g == [r EXCEPT !.state = 1]
             f == [g EXCEPT !.binding = h]
  <1>1. /\ g \in Entry /\ g.intent = r.intent /\ g.state = 1
        /\ g.receipt = r.receipt
    BY DEF Entry
  <1>2. f = [r EXCEPT !.state = 1, !.binding = h]
    OBVIOUS
  <1> HIDE DEF g
  <1>3. /\ f \in Entry /\ f.intent = r.intent /\ f.state = 1
        /\ f.binding = h /\ f.receipt = r.receipt
    BY <1>1 DEF Entry
  <1> HIDE DEF f
  <1> QED
    BY <1>2, <1>3, NoneAssumption

LEMMA IncludedRow ==
    ASSUME NEW r \in Entry, NEW rc \in Receipt
    PROVE  \E f \in Entry :
              /\ f = [r EXCEPT !.state = 2, !.receipt = rc] /\ f # None
              /\ f.intent = r.intent /\ f.state = 2 /\ f.receipt = rc
              /\ f.binding = r.binding
  <1> DEFINE g == [r EXCEPT !.state = 2]
             f == [g EXCEPT !.receipt = rc]
  <1>1. /\ g \in Entry /\ g.intent = r.intent /\ g.state = 2
        /\ g.binding = r.binding
    BY DEF Entry
  <1>2. f = [r EXCEPT !.state = 2, !.receipt = rc]
    OBVIOUS
  <1> HIDE DEF g
  <1>3. /\ f \in Entry /\ f.intent = r.intent /\ f.state = 2
        /\ f.receipt = rc /\ f.binding = r.binding
    BY <1>1 DEF Entry
  <1> HIDE DEF f
  <1> QED
    BY <1>2, <1>3, NoneAssumption

LEMMA BindStep ==
    ASSUME CreationInv, NEW o \in Outcomes, Bind(o)
    PROVE  CreationInv' /\ Advances
  <1>1. /\ job # None /\ job.stage = "bind" /\ UNCHANGED <<told, moves>>
        /\ IF o = "done" THEN Go("provision") /\ UNCHANGED dirs
                         ELSE End /\ dirs' = Released(dirs)
    BY DEF Bind, At
  <1>2. /\ job.stage \notin Searching /\ job.stage # "reserve"
        /\ Expected(job.stage) = "prepared"
    BY <1>1 DEF Searching, Expected
  <1>3. PICK h \in Bindings : h = job.held
    BY <1>1, <1>2, CallHolds
  <1>4. PICK c \in Changes : c = job.change
    BY <1>1, <1>2, RetainedTyped
  <1>5. /\ entries[c] # None /\ entries[c].state = 0 /\ entries[c] \in Entry
        /\ entries[c].intent \in Intents /\ entries[c].intent.change = c
        /\ Same(entries[c].intent, job.incoming) /\ ValidEntry(c)
        /\ job.change = job.incoming.change
    BY <1>1, <1>2, <1>4, RetainedTyped, CallNow DEF CallFitsRow, RowFits
  <1>6. /\ dirs[h] \in Directory /\ dirs[h].change = c /\ dirs[h].holder = "register"
        /\ dirs[h].stage = "prepared" /\ h \in Nat /\ h # None
    BY <1>1, <1>2, <1>3, <1>4, CallHolds, DirectoryTyped DEF CreationInv
  <1> DEFINE f == [entries[c] EXCEPT !.state = 1, !.binding = h]
  <1>70. entries[c].receipt = None
    BY <1>5 DEF ValidEntry
  <1>7. /\ f \in Entry /\ f.intent = entries[c].intent /\ f.state = 1 /\ f.binding = h
        /\ f.receipt = None
    <2>1. entries[c] \in Entry /\ h \in Nat
      BY <1>5, <1>6
    <2>2. PICK r \in Entry : r = entries[c]
      BY <2>1
    <2>3. PICK y \in Entry :
             /\ y = [r EXCEPT !.state = 1, !.binding = h] /\ y # None
             /\ y.intent = r.intent /\ y.state = 1 /\ y.binding = h
             /\ y.receipt = r.receipt
      BY <2>1, BoundRow
    <2>4. y = f
      BY <2>2, <2>3
    <2> HIDE DEF f
    <2> QED
      BY <1>70, <2>2, <2>3, <2>4
  <1>8. PICK e \in Entry : e = f
    BY <1>7
  <1>9. MutateRegister(c, e, o)
    BY <1>3, <1>4, <1>8 DEF Bind, Kept
  <1>10. /\ register' \in {"live", "fenced", "closed", "stuck"}
         /\ failures' \in 0..MaxFailures
         /\ entries' = IF Effective(o) THEN [entries EXCEPT ![c] = e] ELSE entries
    BY <1>9, RegisterTyped
  <1> HIDE DEF f
  <1>11. /\ dirs' \in Seq(Directory) /\ Len(dirs') = Len(dirs)
         /\ DOMAIN dirs' = DOMAIN dirs
         /\ \A d \in Bindings : SameHistory(d)
    <2>1. CASE o = "done"
      BY <1>1, <2>1 DEF SameHistory, CreationInv, Typed
    <2>2. CASE o # "done"
      BY <1>1, <2>2, LetGo
    <2> QED
      BY <2>1, <2>2
  <1>12. /\ Advances /\ Rows' /\ DirectoriesFit' /\ NoReplacement'
         /\ entries' \in [Changes -> Entry \cup {None}]
         /\ Effective(o) => entries'[c] = e
    <2>1. CASE Effective(o)
      <3>1. entries' = [entries EXCEPT ![c] = e]
        BY <1>10, <2>1
      <3>2. /\ CreationInv /\ c \in Changes /\ e \in Entry
            /\ e.intent = entries[c].intent /\ ~(entries[c].state > 0)
            /\ e.intent \in Intents /\ e.intent.change = c
            /\ e.state # 0 /\ e.state # 2 /\ e.binding # None /\ e.receipt = None
            /\ e.binding \in Bindings /\ dirs[e.binding].change = c
        BY <1>5, <1>6, <1>7, <1>8
      <3> QED
        BY ONLY <1>11, <3>1, <3>2, RowWritten
    <2>2. CASE ~Effective(o)
      <3>1. UNCHANGED entries /\ dirs' = Released(dirs)
        BY <1>1, <1>10, <2>2 DEF Effective
      <3> QED
        BY <1>1, <2>2, <3>1, CallEnds DEF CreationInv, Typed
    <2> QED
      BY <2>1, <2>2
  <1>13. Typed' /\ CallFits'
    <2>1. CASE o = "done"
      <3>1. /\ Go("provision") /\ "provision" \in CallStages /\ Effective(o)
            /\ UNCHANGED dirs
        BY <1>1, <2>1 DEF CallStages, Effective
      <3>2. /\ job' \in Call /\ job' # None
            /\ job'.change = job.change /\ job'.incoming = job.incoming
            /\ job'.fresh = job.fresh /\ job'.held = job.held
            /\ job'.stage = "provision"
        BY <1>1, <3>1, CallGoes
      <3>3. Typed'
        BY <1>1, <1>10, <1>12, <3>1, <3>2 DEF CreationInv, Typed
      <3>4. /\ entries'[job'.change] = e /\ e # None /\ e.intent = entries[c].intent
            /\ e.state = 1 /\ e.binding = h
        BY <1>4, <1>7, <1>8, <1>12, <3>1, <3>2, NoneAssumption
      <3>5. CallFitsRow'
        <4>1. Same(e.intent, job.incoming)
          BY <1>5, <3>4
        <4>2. /\ "provision" \notin Started /\ "provision" # "reserve"
              /\ "provision" \notin {"allocate", "prepare", "bind"}
              /\ "provision" \notin {"activate", "unactivated", "ready"}
          BY DEF Started
        <4> QED
          BY <1>3, <1>5, <3>2, <3>4, <4>1, <4>2 DEF CallFitsRow, Same
      <3>6. CallFitsDirectory'
        BY <1>3, <1>4, <1>6, <3>1, <3>2
        DEF CallFitsDirectory, Searching, Started, Expected, Bindings
      <3>7. FreshFits'
        BY <3>2 DEF FreshFits, Searching
      <3> QED
        BY <3>3, <3>5, <3>6, <3>7 DEF CallFits
    <2>2. CASE o # "done"
      BY <1>1, <1>10, <1>11, <1>12, <2>2 DEF CreationInv, Typed, CallFits, End
    <2> QED
      BY <2>1, <2>2
  <1>14. AnswersFit'
    BY <1>1, <1>12, <1>13, AnswersKept
  <1> QED
    BY <1>12, <1>13, <1>14 DEF CreationInv

LEMMA IncludeStep ==
    ASSUME CreationInv, NEW o \in Outcomes, Include(o)
    PROVE  CreationInv' /\ Advances
  <1>1. /\ job # None /\ job.stage = "include" /\ UNCHANGED <<dirs, told, moves>>
        /\ Go(AfterInclude(o))
    BY DEF Include, At
  <1>2. /\ job.stage \notin Searching /\ job.stage # "reserve"
        /\ job.stage \in Started /\ Expected(job.stage) = "provisioned"
    BY <1>1 DEF Searching, Expected, Started
  <1>3. PICK h \in Bindings : h = job.held
    BY <1>1, <1>2, CallHolds
  <1>4. PICK c \in Changes : c = job.change
    BY <1>1, <1>2, RetainedTyped
  <1>5. /\ entries[c] # None /\ entries[c].state = 1 /\ entries[c].binding = h
        /\ entries[c] \in Entry /\ entries[c].intent \in Intent
        /\ entries[c].intent \in Intents /\ entries[c].intent.change = c
        /\ Same(entries[c].intent, job.incoming)
        /\ job.change = job.incoming.change
    BY <1>1, <1>2, <1>3, <1>4, RetainedTyped, CallNow DEF CallFitsRow
  <1>6. /\ dirs[h].change = c /\ h \in Nat /\ h # None
        /\ dirs[h].holder = "register" /\ dirs[h].stage = "provisioned"
        /\ dirs[h].started # None
    BY <1>1, <1>2, <1>3, <1>4, CallHolds, CallNow, DirectoryTyped
    DEF CreationInv, CallFitsDirectory
  <1> DEFINE rc == ReceiptFor(entries[c].intent, h)
             f == [entries[c] EXCEPT !.state = 2, !.receipt = SavedReceipt(job)]
  <1>7. /\ SavedReceipt(job) = rc /\ rc \in Receipt
    BY <1>4, <1>5, <1>6 DEF SavedReceipt, RetainedRequest, ReceiptFor, Receipt
  <1>8. /\ f \in Entry /\ f.intent = entries[c].intent /\ f.state = 2 /\ f.binding = h
        /\ f.receipt = rc
    <2>1. PICK r \in Entry : r = entries[c]
      BY <1>5
    <2>2. PICK k \in Receipt : k = rc
      BY <1>7
    <2>3. PICK y \in Entry :
             /\ y = [r EXCEPT !.state = 2, !.receipt = k] /\ y # None
             /\ y.intent = r.intent /\ y.state = 2 /\ y.receipt = k
             /\ y.binding = r.binding
      BY IncludedRow
    <2>4. y = f
      BY <1>7, <2>1, <2>2, <2>3
    <2> HIDE DEF f, rc
    <2> QED
      BY <1>5, <2>1, <2>2, <2>3, <2>4
  <1>9. PICK e \in Entry : e = f
    BY <1>8
  <1>10. MutateRegister(c, e, o)
    BY <1>4, <1>9 DEF Include, Kept
  <1>11. /\ register' \in {"live", "fenced", "closed", "stuck"}
         /\ failures' \in 0..MaxFailures
         /\ entries' = IF Effective(o) THEN [entries EXCEPT ![c] = e] ELSE entries
    BY <1>10, RegisterTyped
  <1> HIDE DEF f
  <1>12. /\ Advances /\ Rows' /\ DirectoriesFit' /\ NoReplacement'
         /\ entries' \in [Changes -> Entry \cup {None}]
         /\ Effective(o) => entries'[c] = e
    <2>1. CASE Effective(o)
      <3>1. entries' = [entries EXCEPT ![c] = e]
        BY <1>11, <2>1
      <3>2. DOMAIN dirs' = DOMAIN dirs /\ \A d \in Bindings : SameHistory(d)
        BY <1>1 DEF SameHistory
      <3>3. /\ CreationInv /\ c \in Changes /\ e \in Entry
            /\ e.intent = entries[c].intent
            /\ e.state >= entries[c].state /\ e.binding = entries[c].binding
            /\ e.intent \in Intents /\ e.intent.change = c
            /\ e.state = 2 /\ e.state # 0 /\ e.binding # None
            /\ e.receipt = ReceiptFor(e.intent, e.binding)
            /\ e.binding \in Bindings /\ dirs[e.binding].change = c
            /\ dirs[e.binding].started # None
        BY <1>5, <1>6, <1>8, <1>9
      <3> QED
        BY ONLY <3>1, <3>2, <3>3, RowWritten
    <2>2. CASE ~Effective(o)
      BY <1>1, <1>11, <2>2, NothingTouched DEF CreationInv, Typed
    <2> QED
      BY <2>1, <2>2
  <1>13. /\ AfterInclude(o) \in {"activate", "explain"}
         /\ AfterInclude(o) = "activate" => Effective(o)
    BY DEF AfterInclude, Effective
  <1>14. PICK s \in {"activate", "explain"} : s = AfterInclude(o)
    BY <1>13
  <1>15. /\ job' \in Call /\ job' # None
         /\ job'.change = job.change /\ job'.incoming = job.incoming
         /\ job'.fresh = job.fresh /\ job'.held = job.held
         /\ job'.stage = s
    <2>1. s \in CallStages /\ Go(s)
      BY <1>1, <1>14 DEF CallStages
    <2> QED
      BY <1>1, <2>1, CallGoes
  <1>16. Typed'
    BY <1>1, <1>11, <1>12, <1>15 DEF CreationInv, Typed
  <1>17. /\ entries'[c] # None /\ entries'[c].intent = entries[c].intent
         /\ entries'[c].state > 0 /\ entries'[c].binding = h
         /\ s = "activate" => entries'[c].state = 2
    <2>1. CASE Effective(o)
      BY <1>8, <1>9, <1>12, <2>1, NoneAssumption
    <2>2. CASE ~Effective(o)
      BY <1>5, <1>11, <1>13, <1>14, <2>2
    <2> QED
      BY <2>1, <2>2
  <1>18. CallFitsRow'
    <2>1. Same(entries'[c].intent, job.incoming)
      BY <1>5, <1>17
    <2>2. /\ s \in {"activate", "explain"} /\ s # "reserve" /\ s # "include"
          /\ s \notin {"allocate", "prepare", "bind"}
          /\ s \in {"activate", "unactivated", "ready"} => s = "activate"
      OBVIOUS
    <2> QED
      BY <1>3, <1>4, <1>5, <1>15, <1>17, <2>1, <2>2 DEF CallFitsRow, Same
  <1>19. CallFitsDirectory'
    BY <1>1, <1>3, <1>4, <1>6, <1>15
    DEF CallFitsDirectory, Searching, Started, Expected, Bindings
  <1>20. FreshFits'
    BY <1>15 DEF FreshFits, Searching
  <1>21. AnswersFit'
    BY <1>1, <1>12, <1>16, AnswersKept
  <1> QED
    BY <1>12, <1>15, <1>16, <1>18, <1>19, <1>20, <1>21 DEF CreationInv, CallFits

---------------------------------------------------------------------------
(* A directory is made *)

LEMMA MakeDirectoryStep ==
    ASSUME CreationInv, MakeDirectory
    PROVE  CreationInv' /\ Advances
  <1>0. PICK n \in Nat : n = Len(dirs) + 1
    BY LenProperties DEF CreationInv, Typed
  <1>1. /\ job # None /\ job.stage = "find" /\ Kept.state = 0 /\ job.fresh
        /\ Len(dirs) < MaxDirectories /\ Take(n, "allocate")
        /\ UNCHANGED <<entries, register, told, failures, moves>>
    BY <1>0 DEF MakeDirectory, At, CanAllocate, MayAllocate, bounds
  <1>2. PICK c \in Changes : c = job.change
    BY <1>1, RetainedTyped
  <1>3. /\ entries[c] # None /\ entries[c].state = 0 /\ entries[c] \in Entry
        /\ entries[c].intent \in Intent
        /\ Same(entries[c].intent, job.incoming)
        /\ job.change = job.incoming.change
        /\ \A d \in Bindings : dirs[d].change # c
    BY <1>1, <1>2, RetainedTyped, CallNow DEF CallFitsRow, FreshFits, Searching, Kept
  <1> DEFINE r == [at |-> entries[c].intent.path, change |-> c,
                   request |-> entries[c].intent, stage |-> "made", started |-> None,
                   more |-> 0, activation |-> None, stuck |-> FALSE,
                   holder |-> "register"]
  <1>4. dirs' = Append(dirs, r)
    BY <1>2 DEF MakeDirectory, RetainedRequest
  <1>5. r \in Directory
    BY <1>3, CreationAssumption DEF Directory, Stages, Intent
  <1>6. /\ r.change = c /\ r.request = entries[c].intent /\ r.stage = "made"
        /\ r.started = None /\ r.activation = None /\ r.more = 0
        /\ r.holder = "register"
    OBVIOUS
  <1> HIDE DEF r
  <1>7. /\ dirs \in Seq(Directory) /\ Len(dirs) \in Nat
        /\ Bindings = 1..Len(dirs)
    BY LenProperties DEF CreationInv, Typed, Bindings
  <1>8. /\ dirs' \in Seq(Directory) /\ Len(dirs') = n
        /\ dirs'[n] = r /\ \A d \in 1..Len(dirs) : dirs'[d] = dirs[d]
    BY <1>0, <1>4, <1>5, <1>7, AppendProperties
  <1>9. Bindings' = 1..n /\ n \in Nat
    BY <1>7, <1>8, LenProperties DEF Bindings
  <1>10. \A d \in Bindings : d # n /\ d \in Bindings' /\ dirs'[d] = dirs[d]
    BY <1>0, <1>7, <1>8, <1>9
  <1>11. \A d \in Bindings' : d = n \/ d \in Bindings
    BY <1>0, <1>7, <1>9
  <1>12. n \in Bindings' /\ n \in Nat /\ n <= MaxDirectories
    BY <1>0, <1>1, <1>7, <1>9, CreationAssumption
  <1>13. Advances
    <2>1. \A x \in Changes : entries[x] # None /\ entries[x].state > 0 =>
             entries[x].state >= entries[x].state
      BY RowTyped DEF CreationInv
    <2> QED
      BY <1>1, <1>10, <2>1 DEF Advances, Bindings
  <1>14. Rows'
    BY <1>1, <1>13, RowsKept
  <1>15. DirectoriesFit'
    <2>1. \A d \in Bindings : DirectoryFits(d)'
      BY <1>1, <1>10, DirectoryKept DEF CreationInv, DirectoriesFit
    <2>2. DirectoryFits(n)'
      BY <1>1, <1>3, <1>6, <1>8 DEF DirectoryFits, Row
    <2> QED
      BY <1>11, <2>1, <2>2 DEF DirectoriesFit
  <1>16. NoReplacement'
    <2>1. \A d \in Bindings : dirs'[d].change # c
      BY <1>3, <1>10
    <2>2. \A d, e \in Bindings : dirs'[d].change = dirs'[e].change => d = e
      BY <1>10 DEF CreationInv, NoReplacement
    <2> QED
      BY <1>6, <1>8, <1>11, <2>1, <2>2 DEF NoReplacement
  <1>17. /\ job' \in Call /\ job' # None
         /\ job'.change = job.change /\ job'.incoming = job.incoming
         /\ job'.fresh = job.fresh /\ job'.held = n
         /\ job'.stage = "allocate"
    <2>1. "allocate" \in CallStages
      BY DEF CallStages
    <2> QED
      BY ONLY <1>1, <1>12, <2>1, CreationInv, CallTakes
  <1>18. Typed'
    BY <1>1, <1>8, <1>12, <1>17 DEF CreationInv, Typed
  <1>19. CallFitsRow'
    <2>1. /\ "allocate" \notin Starting \cup Started /\ "allocate" # "include"
          /\ "allocate" \notin {"activate", "unactivated", "ready"}
      BY DEF Starting, Started
    <2> QED
      BY <1>1, <1>2, <1>3, <1>17, <2>1 DEF CallFitsRow, Same
  <1>20. CallFitsDirectory'
    BY <1>2, <1>6, <1>8, <1>12, <1>17
    DEF CallFitsDirectory, Searching, Started, Expected
  <1>21. FreshFits'
    BY <1>17 DEF FreshFits, Searching
  <1>22. AnswersFit'
    BY <1>1, <1>13, <1>18, AnswersKept
  <1> QED
    BY <1>13, <1>14, <1>15, <1>16, <1>18, <1>19, <1>20, <1>21, <1>22
    DEF CreationInv, CallFits

---------------------------------------------------------------------------
(* The invariant *)

LEMMA InitHolds ==
    ASSUME Init
    PROVE  CreationInv
  <1>1. dirs = <<>> /\ Len(dirs) = 0 /\ Bindings = {} /\ dirs \in Seq(Directory)
    BY EmptySeq, LenProperties DEF Init, Bindings
  <1>2. Typed
    BY <1>1, CreationAssumption DEF Init, Typed
  <1>3. /\ entries = [c \in Changes |-> None] /\ job = None
        /\ told = [i \in Intents |-> {}]
    BY DEF Init
  <1>4. Rows
    BY <1>3 DEF Rows, RowFits
  <1>5. DirectoriesFit /\ NoReplacement
    BY <1>1 DEF DirectoriesFit, NoReplacement
  <1>6. CallFits /\ AnswersFit
    BY <1>3 DEF CallFits, AnswersFit
  <1> QED
    BY <1>2, <1>4, <1>5, <1>6 DEF CreationInv

LEMMA StutterHolds ==
    ASSUME CreationInv, UNCHANGED vars
    PROVE  CreationInv'
  <1>1. UNCHANGED <<entries, register, dirs, job, told, failures, moves>>
    BY DEF vars
  <1>2. Typed'
    BY <1>1 DEF CreationInv, Typed
  <1>3. Rows' /\ DirectoriesFit' /\ NoReplacement' /\ Advances
    BY <1>1, NothingTouched
  <1>4. AnswersFit'
    BY <1>1, <1>2, <1>3, AnswersKept
  <1>5. CallFits'
    BY <1>1 DEF CreationInv, CallFits, CallFitsRow, CallFitsDirectory, FreshFits,
                Same, Bindings
  <1> QED
    BY <1>2, <1>3, <1>4, <1>5 DEF CreationInv

LEMMA JobStepHolds ==
    ASSUME CreationInv, JobStep
    PROVE  CreationInv' /\ Advances
  <1>1. ASSUME NEW o \in Outcomes,
               Reserve(o) \/ Bind(o) \/ Provision(o)
                 \/ Start(o) \/ Include(o) \/ Activate(o)
        PROVE  CreationInv' /\ Advances
    BY <1>1, ReserveStep, BindStep, ProvisionStep, StartStep, IncludeStep, ActivateStep
  <1>2. CASE ResumePreparation \/ OpenBound \/ MakeDirectory
    BY <1>2, ResumePreparationStep, OpenBoundStep, MakeDirectoryStep
  <1>3. CASE PublishAllocation \/ PublishWitness \/ BindFails \/ RecoverStart
    BY <1>3, PublishStep, EndStep, RecoverStartStep
  <1>4. CASE IncludeFails \/ IncludeRefused \/ AlreadyActive \/ ActivateFails
    BY <1>4, IncludeFailsStep, AlreadyActiveStep, ActivateFailsStep
  <1>5. CASE Answer \/ GiveUp \/ Refused
    BY <1>5, AnswerStep, EndStep
  <1> QED
    BY <1>1, <1>2, <1>3, <1>4, <1>5 DEF JobStep

LEMMA NextHolds ==
    ASSUME CreationInv, Next
    PROVE  CreationInv' /\ Advances
  <1>1. CASE \E i \in Intents : Ask(i)
    BY <1>1, AskStep
  <1>2. CASE JobStep
    BY <1>2, JobStepHolds
  <1>3. CASE Kill \/ Reopen
    BY <1>3, KillStep, ReopenStep
  <1>4. CASE \E ref \in References : OpenOriginal(ref)
    BY <1>4, OpenOriginalStep
  <1>5. ASSUME NEW d \in Bindings,
               \/ \E o \in Outcomes : Work(d, o)
               \/ Leave(d)
               \/ \E p \in Paths \cup {None} : Move(d, p)
        PROVE  CreationInv' /\ Advances
    BY <1>5, WorkStep, LeaveStep, MoveStep
  <1> QED
    BY <1>1, <1>2, <1>3, <1>4, <1>5 DEF Next

\* The register, the directories, the call and the answers always agree.
THEOREM InvariantHolds == Spec => []CreationInv
  <1>1. Init => CreationInv
    BY InitHolds
  <1>2. CreationInv /\ [Next]_vars => CreationInv'
    BY NextHolds, StutterHolds
  <1> QED
    BY <1>1, <1>2, PTL DEF Spec

---------------------------------------------------------------------------
(* What follows *)

\* Every variable keeps its type, however many Changes, requests, failures
\* and moves there are.
THEOREM TypeCorrect == Spec => []TypeOK
  <1>1. CreationInv => TypeOK
    BY DirectoryTyped DEF CreationInv, Typed, TypeOK
  <1> QED
    BY <1>1, InvariantHolds, PTL

\* A Change has one directory (register.rs: only the call that reserved may
\* allocate), and its first complete request is what the allocation, the
\* accepted Start and both receipts are made of (reconcile reloads the
\* retained bytes).
THEOREM FirstKept == Spec => []OriginalIsTheFirst
  <1>1. CreationInv => FirstRequestIsKept
    <2> SUFFICES ASSUME CreationInv, NEW d \in Bindings
                 PROVE  LET first == entries[dirs[d].change].intent IN
                        /\ entries[dirs[d].change] # None
                        /\ dirs[d].request = first
                        /\ dirs[d].started \in {None, first}
                        /\ dirs[d].activation \in {None, ReceiptFor(first, d)}
                        /\ ValidEntry(dirs[d].change)
      BY DEF FirstRequestIsKept
    <2>1. DirectoryFits(d) /\ dirs[d].change \in Changes
      BY DirectoryTyped DEF CreationInv, DirectoriesFit
    <2>2. RowFits(dirs[d].change)
      BY <2>1 DEF CreationInv, Rows
    <2> QED
      BY <2>1, <2>2 DEF DirectoryFits, RowFits, Row
  <1>2. CreationInv => NoReplacement
    BY DEF CreationInv
  <1>3. CreationInv => OriginalIsTheFirst
    BY <1>1, <1>2 DEF OriginalIsTheFirst
  <1> QED
    BY <1>3, InvariantHolds, PTL

\* Nothing follows the Start before the inclusion is confirmed and its
\* receipt retained (original.rs: open needs the receipt).
THEOREM InclusionComesFirst == Spec => []WorkNeedsInclusion
  <1>1. CreationInv => WorkNeedsInclusion
    <2> SUFFICES ASSUME CreationInv, NEW d \in Bindings,
                        dirs[d].more > 0 \/ dirs[d].holder = "owner"
                 PROVE  LET e == entries[dirs[d].change] IN
                        /\ e.state = 2 /\ e.binding = d
                        /\ dirs[d].activation = e.receipt
      BY DEF WorkNeedsInclusion
    <2>1. DirectoryFits(d) /\ dirs[d].change \in Changes
      BY DirectoryTyped DEF CreationInv, DirectoriesFit
    <2>2. RowFits(dirs[d].change)
      BY <2>1 DEF CreationInv, Rows
    <2> QED
      BY <2>1, <2>2 DEF DirectoryFits, RowFits, Row, ValidEntry
  <1> QED
    BY <1>1, InvariantHolds, PTL

\* Nobody is answered for a request that was not the retained one
\* (register.rs: create compares the typed requests).
THEOREM AnswersMatch == Spec => []AnswersMatchRequest
  <1>1. CreationInv => AnswersMatchRequest
    BY DEF CreationInv, AnswersFit, AnswersMatchRequest, Same
  <1> QED
    BY <1>1, InvariantHolds, PTL

\* An original declared ready opens by its reference alone, whatever became
\* of the register (original.rs: open compares the receipt inside).
THEOREM ReadyMeansOpen == Spec => []ReadyOpens
  <1>1. CreationInv => ReadyOpens
    <2> SUFFICES ASSUME CreationInv, NEW i \in Intents, "ready" \in told[i]
                 PROVE  LET ref == ReferenceOf(entries[i.change].receipt)
                            d == dirs[ref.binding]
                        IN d.at = ref.path /\ d.holder = "nobody" /\ ~d.stuck
                             => MayOpenOriginal(ref)
      BY DEF ReadyOpens
    <2> DEFINE c == i.change
               e == entries[c]
               b == e.binding
    <2>1. c \in Changes
      BY CreationAssumption DEF Intent
    <2>2. e # None /\ e.state = 2 /\ dirs[b].activation # None
      BY DEF CreationInv, AnswersFit
    <2>3. /\ e.receipt = ReceiptFor(e.intent, b) /\ b \in Bindings
          /\ dirs[b].change = c /\ e.intent.change = c
      BY <2>1, <2>2 DEF CreationInv, Rows, RowFits, ValidEntry
    <2>4. /\ dirs[b].activation = ReceiptFor(e.intent, b)
          /\ dirs[b].stage = "provisioned"
      BY <2>2, <2>3 DEF CreationInv, DirectoriesFit, DirectoryFits, Row
    <2>5. /\ ReferenceOf(e.receipt).binding = b
          /\ ReferenceOf(e.receipt).change = c
      BY <2>3 DEF ReferenceOf, ReceiptFor
    <2> QED
      BY <2>2, <2>3, <2>4, <2>5 DEF MayOpenOriginal, OpensBy
  <1> QED
    BY <1>1, InvariantHolds, PTL

\* Whoever was answered can rely on the answer (register.rs: create).
THEOREM AnswersHold == Spec => []AnswersCanBeReliedOn
  <1>1. AnswersMatchRequest /\ ReadyOpens => AnswersCanBeReliedOn
    BY DEF AnswersCanBeReliedOn
  <1> QED
    BY <1>1, AnswersMatch, ReadyMeansOpen, PTL

---------------------------------------------------------------------------
(* Creation implements Inclusion.  The standing of a Change is read off    *)
(* its row and the directory the row binds, so a step is abstractly        *)
(* visible only when it writes a row, makes the Start or the receipt of    *)
(* an original, or answers; Advances says that none of these is undone.    *)

\* What an original accepted is as it was.
SameMade(d) ==
    dirs'[d].started = dirs[d].started /\ dirs'[d].activation = dirs[d].activation

\* The standing of a Change follows its row and the directory it binds.
LEMMA OthersStand ==
    ASSUME CreationInv, NEW S,
           \A x \in Changes : x \notin S => entries'[x] = entries[x],
           \A d \in Bindings : dirs[d].change \notin S => SameMade(d)
    PROVE  \A x \in Changes : x \notin S => StandingOf(x)' = StandingOf(x)
  <1> SUFFICES ASSUME NEW x \in Changes, x \notin S
               PROVE  StandingOf(x)' = StandingOf(x)
    OBVIOUS
  <1>1. entries'[x] = entries[x]
    OBVIOUS
  <1>2. CASE entries[x] = None
    BY <1>1, <1>2 DEF StandingOf
  <1>3. CASE entries[x] # None /\ entries[x].state = 0
    BY <1>1, <1>3 DEF StandingOf
  <1>4. CASE entries[x] # None /\ entries[x].state # 0
    <2>1. entries[x].state > 0
      BY <1>4, RowTyped DEF CreationInv
    <2>2. entries[x].binding \in Bindings /\ dirs[entries[x].binding].change = x
      BY <1>4, <2>1 DEF CreationInv, Rows, RowFits
    <2>3. SameMade(entries[x].binding)
      BY <2>2
    <2> QED
      BY <1>1, <1>4, <2>3 DEF StandingOf, SameMade
  <1> QED
    BY <1>2, <1>3, <1>4

\* A step that writes no row, makes nothing in an original and answers
\* nobody is a stutter of Inclusion.
LEMMA NothingSaid ==
    ASSUME CreationInv, UNCHANGED <<entries, told>>, \A d \in Bindings : SameMade(d)
    PROVE  UNCHANGED I!vars
  <1>1. \A x \in Changes : StandingOf(x)' = StandingOf(x)
    <2>1. PICK S : S = {}
      OBVIOUS
    <2>2. \A x \in Changes : x \notin S => StandingOf(x)' = StandingOf(x)
      <3>1. \A x \in Changes : x \notin S => entries'[x] = entries[x]
        OBVIOUS
      <3>2. \A d \in Bindings : dirs[d].change \notin S => SameMade(d)
        OBVIOUS
      <3> QED
        BY ONLY <3>1, <3>2, CreationInv, OthersStand
    <2> QED
      BY <2>1, <2>2
  <1> QED
    BY <1>1 DEF I!vars

LEMMA StandingMoves ==
    ASSUME CreationInv, NEW c \in Changes, NEW to,
           \A x \in Changes : x # c => entries'[x] = entries[x],
           \A d \in Bindings : dirs[d].change # c => SameMade(d),
           StandingOf(c)' = to
    PROVE  I!Moves(c, StandingOf(c), to)
  <1>1. \A x \in Changes : x \notin {c} => StandingOf(x)' = StandingOf(x)
    <2>1. \A x \in Changes : x \notin {c} => entries'[x] = entries[x]
      OBVIOUS
    <2>2. \A d \in Bindings : dirs[d].change \notin {c} => SameMade(d)
      OBVIOUS
    <2> QED
      BY ONLY <2>1, <2>2, CreationInv, OthersStand
  <1> QED
    BY <1>1 DEF I!Moves

---------------------------------------------------------------------------
(* Steps that make nothing *)

LEMMA OneSame ==
    ASSUME CreationInv, NEW h \in Bindings, NEW r,
           dirs' = [dirs EXCEPT ![h] = r],
           r.started = dirs[h].started, r.activation = dirs[h].activation
    PROVE  \A d \in Bindings : SameMade(d)
  BY LenProperties DEF SameMade, CreationInv, Typed, Bindings

LEMMA LetGoSame ==
    ASSUME CreationInv, job # None, dirs' = Released(dirs)
    PROVE  \A d \in Bindings : SameMade(d)
  BY LetGo DEF SameHistory, SameMade

\* The call's own steps up to the Start, and those that only end it.
LEMMA JobMakesNothing ==
    ASSUME CreationInv,
           \/ ResumePreparation \/ OpenBound
           \/ MakeDirectory \/ PublishAllocation \/ PublishWitness
           \/ BindFails \/ RecoverStart
           \/ IncludeFails \/ IncludeRefused
           \/ AlreadyActive \/ ActivateFails
           \/ GiveUp \/ Refused
    PROVE  UNCHANGED I!vars
  <1>1. UNCHANGED <<entries, told>>
    BY DEF ResumePreparation, OpenBound, MakeDirectory, PublishAllocation,
           PublishWitness, BindFails, RecoverStart, IncludeFails, IncludeRefused,
           AlreadyActive, ActivateFails, GiveUp, Refused, stores
  <1>2. CASE BindFails \/ GiveUp \/ Refused
    <2>1. job # None /\ dirs' = Released(dirs)
      BY <1>2 DEF BindFails, GiveUp, Refused, At
    <2> QED
      BY <1>1, <2>1, LetGoSame, NothingSaid
  <1>3. CASE RecoverStart \/ IncludeFails \/ IncludeRefused
               \/ AlreadyActive \/ ActivateFails
    <2>1. \A d \in Bindings : SameMade(d)
      BY <1>3 DEF RecoverStart, IncludeFails, IncludeRefused, AlreadyActive,
                  ActivateFails, stores, SameMade
    <2> QED
      BY <1>1, <2>1, NothingSaid
  <1>4. CASE ResumePreparation \/ OpenBound
    <2>1. PICK h \in Bindings :
             \/ dirs' = [dirs EXCEPT ![h].stage = "prepared", ![h].holder = "register"]
             \/ dirs' = [dirs EXCEPT ![h].holder = "register"]
      BY <1>4 DEF ResumePreparation, OpenBound
    <2>2. dirs[h] \in Directory
      BY DirectoryTyped DEF CreationInv
    <2>3. PICK r : /\ dirs' = [dirs EXCEPT ![h] = r]
                   /\ r.started = dirs[h].started /\ r.activation = dirs[h].activation
      <3>1. CASE dirs' = [dirs EXCEPT ![h].holder = "register"]
        <4> DEFINE q == [dirs[h] EXCEPT !.holder = "register"]
        <4>1. q.started = dirs[h].started /\ q.activation = dirs[h].activation
          BY <2>2 DEF Directory
        <4>2. dirs' = [dirs EXCEPT ![h] = q]
          BY <3>1
        <4> HIDE DEF q
        <4> QED
          BY <4>1, <4>2
      <3>2. CASE dirs' = [dirs EXCEPT ![h].stage = "prepared", ![h].holder = "register"]
        <4> DEFINE q == [dirs[h] EXCEPT !.stage = "prepared", !.holder = "register"]
        <4>1. q.started = dirs[h].started /\ q.activation = dirs[h].activation
          BY <2>2 DEF Directory
        <4>2. dirs' = [dirs EXCEPT ![h] = q]
          BY <3>2
        <4> HIDE DEF q
        <4> QED
          BY <4>1, <4>2
      <3> QED
        BY <2>1, <3>1, <3>2
    <2> QED
      BY <1>1, <2>3, OneSame, NothingSaid
  <1>5. CASE PublishAllocation \/ PublishWitness
    <2>1. PICK h \in Bindings : h = job.held
      <3>1. job # None /\ job.stage \notin Searching
        BY <1>5 DEF PublishAllocation, PublishWitness, At, Searching
      <3> QED
        BY <3>1, CallHolds
    <2>2. PICK s : dirs' = [dirs EXCEPT ![h].stage = s]
      BY <1>5, <2>1 DEF PublishAllocation, PublishWitness
    <2>3. dirs[h] \in Directory
      BY DirectoryTyped DEF CreationInv
    <2> DEFINE q == [dirs[h] EXCEPT !.stage = s]
    <2>4. q.started = dirs[h].started /\ q.activation = dirs[h].activation
      BY <2>3 DEF Directory
    <2>5. dirs' = [dirs EXCEPT ![h] = q]
      BY <2>2
    <2> HIDE DEF q
    <2> QED
      BY <1>1, <2>4, <2>5, OneSame, NothingSaid
  <1>6. CASE MakeDirectory
    <2>1. PICK r : dirs' = Append(dirs, r)
      BY <1>6 DEF MakeDirectory
    <2>2. \A d \in Bindings : dirs'[d] = dirs[d]
      BY <2>1, LenProperties DEF CreationInv, Typed, Bindings
    <2> QED
      BY <1>1, <2>2, NothingSaid DEF SameMade
  <1> QED
    BY <1>2, <1>3, <1>4, <1>5, <1>6

---------------------------------------------------------------------------
(* Steps on the original held *)

LEMMA ReleasedSame ==
    ASSUME CreationInv, NEW ds \in Seq(Directory), DOMAIN ds = Bindings,
           NEW d \in Bindings
    PROVE  /\ Released(ds)[d].started = ds[d].started
           /\ Released(ds)[d].activation = ds[d].activation
  <1>1. CASE job.held = None
    BY <1>1 DEF Released
  <1>2. CASE job.held # None
    <2>1. ds[d] \in Directory
      BY LenProperties, ElementOfSeq
    <2> DEFINE q == [ds[d] EXCEPT !.holder = "nobody"]
    <2>2. q.started = ds[d].started /\ q.activation = ds[d].activation
      BY <2>1 DEF Directory
    <2>3. Released(ds)[d] \in {q, ds[d]}
      BY <1>2 DEF Released
    <2> HIDE DEF q
    <2> QED
      BY <2>2, <2>3
  <1> QED
    BY <1>1, <1>2

\* One directory becomes r and may be let go of.
LEMMA OneMade ==
    ASSUME CreationInv, NEW h \in Bindings, NEW r \in Directory,
           NEW ds, ds = [dirs EXCEPT ![h] = r], dirs' \in {ds, Released(ds)}
    PROVE  /\ dirs'[h].started = r.started /\ dirs'[h].activation = r.activation
           /\ \A d \in Bindings : d # h => SameMade(d)
  <1>1. /\ ds \in Seq(Directory) /\ DOMAIN ds = Bindings
        /\ ds[h] = r /\ \A d \in Bindings : d # h => ds[d] = dirs[d]
    BY OneDirectory DEF CreationInv, Typed, Bindings
  <1>2. \A d \in Bindings : /\ dirs'[d].started = ds[d].started
                            /\ dirs'[d].activation = ds[d].activation
    <2> SUFFICES ASSUME NEW d \in Bindings
                 PROVE  /\ dirs'[d].started = ds[d].started
                        /\ dirs'[d].activation = ds[d].activation
      OBVIOUS
    <2>1. /\ Released(ds)[d].started = ds[d].started
          /\ Released(ds)[d].activation = ds[d].activation
      BY <1>1, ReleasedSame
    <2>2. dirs' = ds \/ dirs' = Released(ds)
      OBVIOUS
    <2> QED
      BY <2>1, <2>2
  <1> QED
    BY <1>1, <1>2 DEF SameMade

LEMMA ProvisionMakesNothing ==
    ASSUME CreationInv, NEW o \in Outcomes, Provision(o)
    PROVE  UNCHANGED I!vars
  <1>1. PICK h \in Bindings : h = job.held
    <2>1. job # None /\ job.stage \notin Searching
      BY DEF Provision, At, Searching
    <2> QED
      BY <2>1, CallHolds
  <1> DEFINE t == CASE Effective(o) -> "provisioned"
                    [] o = "stuck" -> "possible"
                    [] OTHER -> "prepared"
             r == [dirs[h] EXCEPT !.stage = t]
             ds == [dirs EXCEPT ![h] = r]
  <1>2. dirs' \in {ds, Released(ds)}
    BY <1>1 DEF Provision
  <1>3. /\ r \in Directory /\ r.started = dirs[h].started
        /\ r.activation = dirs[h].activation
    <2>1. dirs[h] \in Directory
      BY DirectoryTyped DEF CreationInv
    <2>2. t \in Stages
      BY DEF Stages
    <2> HIDE DEF t
    <2> QED
      BY <2>1, <2>2 DEF Directory
  <1>4. PICK ex : ex = ds
    OBVIOUS
  <1> HIDE DEF r
  <1>5. \A d \in Bindings : SameMade(d)
    <2>1. /\ dirs'[h].started = r.started /\ dirs'[h].activation = r.activation
          /\ \A d \in Bindings : d # h => SameMade(d)
      <3>1. dirs' \in {ex, Released(ex)} /\ ex = [dirs EXCEPT ![h] = r]
        BY <1>2, <1>4
      <3> QED
        BY ONLY <1>3, <3>1, CreationInv, h \in Bindings, OneMade
    <2> QED
      BY <1>3, <2>1 DEF SameMade
  <1>6. UNCHANGED <<entries, told>>
    BY DEF Provision
  <1> QED
    BY <1>5, <1>6, NothingSaid

\* A mutation of the original held makes what it was to make, or nothing.
LEMMA OriginalMade ==
    ASSUME CreationInv, NEW h \in Bindings, h = job.held, NEW a \in Directory,
           NEW o \in Outcomes, MutateOriginal(a, o)
    PROVE  /\ \A d \in Bindings : d # h => SameMade(d)
           /\ IF Effective(o)
              THEN dirs'[h].started = a.started /\ dirs'[h].activation = a.activation
              ELSE SameMade(h)
  <1> DEFINE ds == CASE Effective(o) -> [dirs EXCEPT ![job.held] = a]
                     [] o = "stuck" -> [dirs EXCEPT ![job.held].stuck = TRUE]
                     [] OTHER -> dirs
             k == [dirs[h] EXCEPT !.stuck = TRUE]
  <1>1. dirs' \in {ds, Released(ds)}
    BY DEF MutateOriginal
  <1>2. dirs[h] \in Directory /\ dirs \in Seq(Directory)
    BY DirectoryTyped DEF CreationInv, Typed
  <1>3. /\ k \in Directory /\ k.started = dirs[h].started
        /\ k.activation = dirs[h].activation
    BY <1>2 DEF Directory
  <1>4. PICK r \in Directory :
          /\ ds = [dirs EXCEPT ![h] = r]
          /\ IF Effective(o) THEN r = a
             ELSE r.started = dirs[h].started /\ r.activation = dirs[h].activation
    <2>1. CASE Effective(o)
      <3>1. ds = [dirs EXCEPT ![h] = a]
        BY <2>1 DEF Effective
      <3> HIDE DEF ds
      <3> QED
        BY <2>1, <3>1
    <2>2. CASE ~Effective(o) /\ o = "stuck"
      <3>1. ds = [dirs EXCEPT ![h] = k]
        BY <2>2
      <3> HIDE DEF ds, k
      <3> QED
        BY <1>3, <2>2, <3>1
    <2>3. CASE ~Effective(o) /\ o # "stuck"
      <3>1. ds = dirs
        BY <2>3
      <3>2. dirs = [dirs EXCEPT ![h] = dirs[h]]
        BY <1>2, LenProperties
      <3> HIDE DEF ds
      <3> QED
        BY <1>2, <2>3, <3>1, <3>2
    <2> QED
      BY <2>1, <2>2, <2>3
  <1> HIDE DEF ds
  <1>5. PICK ex : ex = ds
    OBVIOUS
  <1>6. /\ dirs'[h].started = r.started /\ dirs'[h].activation = r.activation
        /\ \A d \in Bindings : d # h => SameMade(d)
    <2>1. dirs' \in {ex, Released(ex)} /\ ex = [dirs EXCEPT ![h] = r]
      BY <1>1, <1>4, <1>5
    <2> QED
      BY ONLY <1>4, <2>1, CreationInv, h \in Bindings, OneMade
  <1> QED
    BY <1>4, <1>6 DEF SameMade

LEMMA StartMaps ==
    ASSUME CreationInv, NEW o \in Outcomes, Start(o)
    PROVE  [I!Next]_(I!vars)
  <1>1. /\ job # None /\ job.stage = "start" /\ UNCHANGED <<entries, told>>
        /\ dirs[job.held].started = None
        /\ MutateOriginal([dirs[job.held] EXCEPT !.started = RetainedRequest(job)], o)
    BY DEF Start, At, Held
  <1>2. /\ job.stage \notin Searching /\ job.stage # "reserve"
        /\ job.stage \in Starting
    BY <1>1 DEF Searching, Starting
  <1>3. PICK h \in Bindings : h = job.held
    BY <1>1, <1>2, CallHolds
  <1>4. PICK c \in Changes : c = job.change
    BY <1>1, <1>2, RetainedTyped
  <1>5. /\ entries[c] # None /\ entries[c].state > 0 /\ entries[c].binding = h
        /\ entries[c] \in Entry /\ entries[c].intent \in Intent
        /\ entries[c].intent # None /\ dirs[h].change = c
    BY <1>1, <1>2, <1>3, <1>4, RetainedTyped, CallNow, CallHolds DEF CallFitsRow
  <1>6. entries[c].state = 1 /\ dirs[h].activation = None
    <2>1. entries[c].state # 2
      BY <1>1, <1>3, <1>5 DEF CreationInv, Rows, RowFits
    <2>2. dirs[h].activation = None
      BY <1>1, <1>3 DEF CreationInv, DirectoriesFit, DirectoryFits
    <2> QED
      BY <1>5, <2>1, <2>2 DEF Entry
  <1> DEFINE a == [dirs[h] EXCEPT !.started = entries[c].intent]
  <1>7. /\ a \in Directory /\ a.started = entries[c].intent
        /\ a.activation = dirs[h].activation
    BY <1>5, DirectoryTyped DEF CreationInv, Directory
  <1>8. MutateOriginal(a, o)
    BY <1>1, <1>3, <1>4 DEF RetainedRequest
  <1> HIDE DEF a
  <1>9. /\ \A d \in Bindings : d # h => SameMade(d)
        /\ IF Effective(o)
           THEN dirs'[h].started = a.started /\ dirs'[h].activation = a.activation
           ELSE SameMade(h)
    BY ONLY <1>3, <1>7, <1>8, CreationInv, o \in Outcomes, OriginalMade
  <1>10. CASE Effective(o)
    <2>1. dirs'[h].started # None /\ dirs'[h].activation = None
      BY <1>5, <1>6, <1>7, <1>9, <1>10
    <2>2. StandingOf(c) = "bound"
      BY <1>1, <1>3, <1>5, <1>6 DEF StandingOf
    <2>3. StandingOf(c)' = "started"
      BY <1>1, <1>5, <1>6, <2>1 DEF StandingOf
    <2>4. I!Moves(c, StandingOf(c), "started")
      BY <1>1, <1>5, <1>9, <2>3, StandingMoves
    <2>5. I!Start(c)
      BY <1>1, <2>2, <2>4 DEF I!Start
    <2> QED
      BY <2>5 DEF I!Next
  <1>11. CASE ~Effective(o)
    BY <1>1, <1>9, <1>11, NothingSaid
  <1> QED
    BY <1>10, <1>11

LEMMA ActivateMaps ==
    ASSUME CreationInv, NEW o \in Outcomes, Activate(o)
    PROVE  [I!Next]_(I!vars)
  <1>1. /\ job # None /\ job.stage = "activate" /\ UNCHANGED <<entries, told>>
        /\ dirs[job.held].activation = None
        /\ MutateOriginal([dirs[job.held] EXCEPT !.activation = SavedReceipt(job)], o)
    BY DEF Activate, At, Held
  <1>2. /\ job.stage \notin Searching /\ job.stage # "reserve"
        /\ job.stage \in Started
    BY <1>1 DEF Searching, Started
  <1>3. PICK h \in Bindings : h = job.held
    BY <1>1, <1>2, CallHolds
  <1>4. PICK c \in Changes : c = job.change
    BY <1>1, <1>2, RetainedTyped
  <1>5. /\ entries[c] # None /\ entries[c].state = 2 /\ entries[c].binding = h
        /\ entries[c].receipt = ReceiptFor(entries[c].intent, h)
        /\ entries[c].intent \in Intent /\ dirs[h].change = c
    BY <1>1, <1>2, <1>3, <1>4, RetainedTyped, CallNow, CallHolds
    DEF CallFitsRow, RowFits, ValidEntry
  <1>6. PICK rc \in Receipt : rc = SavedReceipt(job) /\ rc # None
    <2>1. h \in Nat
      BY DirectoryTyped DEF CreationInv
    <2> QED
      BY <1>4, <1>5, <2>1, CreationAssumption DEF SavedReceipt, ReceiptFor, Receipt
  <1> DEFINE a == [dirs[h] EXCEPT !.activation = rc]
  <1>7. a \in Directory /\ a.activation = rc /\ a.started = dirs[h].started
    BY DirectoryTyped DEF CreationInv, Directory
  <1>8. MutateOriginal(a, o)
    BY <1>1, <1>3, <1>6
  <1> HIDE DEF a
  <1>9. /\ \A d \in Bindings : d # h => SameMade(d)
        /\ IF Effective(o)
           THEN dirs'[h].started = a.started /\ dirs'[h].activation = a.activation
           ELSE SameMade(h)
    BY ONLY <1>3, <1>7, <1>8, CreationInv, o \in Outcomes, OriginalMade
  <1>10. CASE Effective(o)
    <2>1. dirs'[h].activation # None
      BY <1>6, <1>7, <1>9, <1>10
    <2>2. StandingOf(c) = "included"
      BY <1>1, <1>3, <1>5 DEF StandingOf
    <2>3. StandingOf(c)' = "active"
      BY <1>1, <1>5, <2>1 DEF StandingOf
    <2>4. I!Moves(c, StandingOf(c), "active")
      BY <1>1, <1>5, <1>9, <2>3, StandingMoves
    <2>5. I!Activate(c)
      BY <1>1, <2>2, <2>4 DEF I!Activate
    <2> QED
      BY <2>5 DEF I!Next
  <1>11. CASE ~Effective(o)
    BY <1>1, <1>9, <1>11, NothingSaid
  <1> QED
    BY <1>10, <1>11

---------------------------------------------------------------------------
(* Steps on the register's row *)

\* What a mutation of the register leaves of the rows.
LEMMA RowAfter ==
    ASSUME CreationInv, NEW c \in Changes, NEW e, NEW o, MutateRegister(c, e, o)
    PROVE  /\ \A x \in Changes : x # c => entries'[x] = entries[x]
           /\ Effective(o) => entries'[c] = e /\ entries' = [entries EXCEPT ![c] = e]
           /\ ~Effective(o) => UNCHANGED entries
  BY DEF MutateRegister, CreationInv, Typed

LEMMA ReserveMaps ==
    ASSUME CreationInv, NEW o \in Outcomes, Reserve(o)
    PROVE  [I!Next]_(I!vars)
  <1>1. /\ job # None /\ job.stage = "reserve" /\ UNCHANGED <<dirs, told>>
    BY DEF Reserve, At
  <1>2. PICK c \in Changes : c = job.change
    BY <1>1, CallTyped DEF CreationInv
  <1>3. PICK i \in Intents : i = job.incoming
    BY <1>1, CallTyped DEF CreationInv
  <1>4. entries[c] = None
    BY <1>1, <1>2, CallNow DEF CallFitsRow
  <1> DEFINE f == [intent |-> i, state |-> 0, binding |-> None, receipt |-> None]
  <1>5. PICK e : e = f
    OBVIOUS
  <1>6. e \in Entry /\ e.intent = i /\ e.state = 0 /\ e.binding = None /\ e # None
    BY <1>5, CreationAssumption, NoneAssumption DEF Entry
  <1>7. MutateRegister(c, e, o)
    BY <1>2, <1>3, <1>5 DEF Reserve
  <1>8. /\ \A x \in Changes : x # c => entries'[x] = entries[x]
        /\ Effective(o) => entries'[c] = e /\ entries' = [entries EXCEPT ![c] = e]
        /\ ~Effective(o) => UNCHANGED entries
    BY <1>7, RowAfter
  <1>9. \A d \in Bindings : SameMade(d)
    BY <1>1 DEF SameMade
  <1>10. CASE Effective(o)
    <2>1. StandingOf(c) = "absent" /\ StandingOf(c)' = "reserved"
      BY <1>4, <1>6, <1>8, <1>10 DEF StandingOf
    <2>2. I!Moves(c, "absent", "reserved")
      BY <1>8, <1>9, <2>1, StandingMoves
    <2>3. I!Reserve(c, i)
      <3>1. \A x \in Changes :
              (IF entries'[x] = None THEN None ELSE entries'[x].intent)
                = IF x = c THEN i ELSE IF entries[x] = None THEN None ELSE entries[x].intent
        BY <1>6, <1>8, <1>10
      <3>2. \A x \in Changes :
              (IF entries'[x] = None THEN None ELSE entries'[x].binding)
                = IF entries[x] = None THEN None ELSE entries[x].binding
        BY <1>4, <1>6, <1>8, <1>10
      <3> QED
        BY <1>1, <2>2, <3>1, <3>2 DEF I!Reserve
    <2> QED
      BY <2>3 DEF I!Next
  <1>11. CASE ~Effective(o)
    BY <1>1, <1>8, <1>9, <1>11, NothingSaid
  <1> QED
    BY <1>10, <1>11

LEMMA BindMaps ==
    ASSUME CreationInv, NEW o \in Outcomes, Bind(o)
    PROVE  [I!Next]_(I!vars)
  <1>1. /\ job # None /\ job.stage = "bind" /\ UNCHANGED told
        /\ dirs' = dirs \/ dirs' = Released(dirs)
    BY DEF Bind, At
  <1>2. job.stage \notin Searching /\ job.stage # "reserve"
    BY <1>1 DEF Searching
  <1>3. PICK h \in Bindings : h = job.held
    BY <1>1, <1>2, CallHolds
  <1>4. PICK c \in Changes : c = job.change
    BY <1>1, <1>2, RetainedTyped
  <1>5. PICK r \in Entry : r = entries[c]
    BY <1>1, <1>2, <1>4, RetainedTyped
  <1>6. /\ r # None /\ r.state = 0 /\ r.binding = None /\ dirs[h].change = c
        /\ h \in Nat /\ h \in 1..MaxDirectories /\ h # None
    BY <1>1, <1>2, <1>3, <1>4, <1>5, RetainedTyped, CallNow, CallHolds, DirectoryTyped
    DEF CallFitsRow, RowFits, ValidEntry, CreationInv
  <1>7. PICK e \in Entry :
           /\ e = [r EXCEPT !.state = 1, !.binding = h] /\ e # None
           /\ e.intent = r.intent /\ e.state = 1 /\ e.binding = h
           /\ e.receipt = r.receipt
    BY <1>6, BoundRow
  <1>70. e # None /\ e.intent = r.intent /\ e.state = 1 /\ e.binding = h
    BY <1>7
  <1>8. MutateRegister(c, e, o)
    BY <1>3, <1>4, <1>5, <1>7 DEF Bind, Kept
  <1>9. /\ \A x \in Changes : x # c => entries'[x] = entries[x]
        /\ Effective(o) => entries'[c] = e /\ entries' = [entries EXCEPT ![c] = e]
        /\ ~Effective(o) => UNCHANGED entries
    BY <1>8, RowAfter
  <1>10. \A d \in Bindings : SameMade(d)
    <2>1. CASE dirs' = dirs
      BY <2>1 DEF SameMade
    <2>2. CASE dirs' = Released(dirs)
      BY <1>1, <2>2, LetGoSame
    <2> QED
      BY <1>1, <2>1, <2>2
  <1>11. CASE Effective(o)
    <2>1. dirs'[h].started = None /\ dirs'[h].activation = None
      <3>1. dirs[h].started = None
        BY <1>5, <1>6 DEF CreationInv, DirectoriesFit, DirectoryFits, Row
      <3>2. dirs[h].activation = None
        BY <3>1 DEF CreationInv, DirectoriesFit, DirectoryFits
      <3> QED
        BY <1>10, <3>1, <3>2 DEF SameMade
    <2>2. StandingOf(c) = "reserved"
      BY <1>5, <1>6 DEF StandingOf
    <2>3. StandingOf(c)' = "bound"
      <3>1. /\ entries'[c] # None /\ entries'[c].state = 1
            /\ entries'[c].binding = h
        BY <1>9, <1>11, <1>70
      <3> QED
        BY <2>1, <3>1 DEF StandingOf
    <2>4. I!Moves(c, StandingOf(c), "bound")
      BY <1>9, <1>10, <2>3, StandingMoves
    <2>5. I!Bind(c, h)
      <3>1. \A x \in Changes :
              (IF entries[x] = None THEN None ELSE entries[x].binding) # h
        <4> SUFFICES ASSUME NEW x \in Changes, entries[x] # None,
                            entries[x].binding = h
                     PROVE  FALSE
          BY <1>6
        <4>1. RowFits(x) /\ entries[x].state \in 0..2
          BY RowTyped DEF CreationInv, Rows
        <4>2. entries[x].state > 0 /\ dirs[h].change = x
          BY <1>6, <4>1 DEF RowFits, ValidEntry
        <4> QED
          BY <1>5, <1>6, <4>2
      <3>2. \A x \in Changes :
              (IF entries'[x] = None THEN None ELSE entries'[x].binding)
                = IF x = c THEN h
                  ELSE IF entries[x] = None THEN None ELSE entries[x].binding
        BY <1>9, <1>11, <1>70
      <3>3. \A x \in Changes :
              (IF entries'[x] = None THEN None ELSE entries'[x].intent)
                = IF entries[x] = None THEN None ELSE entries[x].intent
        BY <1>5, <1>6, <1>9, <1>11, <1>70
      <3> QED
        BY <1>1, <2>2, <2>4, <3>1, <3>2, <3>3 DEF I!Bind
    <2> QED
      BY <1>6, <2>5 DEF I!Next
  <1>12. CASE ~Effective(o)
    BY <1>1, <1>9, <1>10, <1>12, NothingSaid
  <1> QED
    BY <1>11, <1>12

LEMMA IncludeMaps ==
    ASSUME CreationInv, NEW o \in Outcomes, Include(o)
    PROVE  [I!Next]_(I!vars)
  <1>1. job # None /\ job.stage = "include" /\ UNCHANGED <<dirs, told>>
    BY DEF Include, At
  <1>2. /\ job.stage \notin Searching /\ job.stage # "reserve"
        /\ job.stage \in Started
    BY <1>1 DEF Searching, Started
  <1>3. PICK h \in Bindings : h = job.held
    BY <1>1, <1>2, CallHolds
  <1>4. PICK c \in Changes : c = job.change
    BY <1>1, <1>2, RetainedTyped
  <1>5. PICK r \in Entry : r = entries[c]
    BY <1>1, <1>2, <1>4, RetainedTyped
  <1>6. /\ r # None /\ r.state = 1 /\ r.binding = h /\ r.intent \in Intent
        /\ dirs[h].started # None /\ h \in Nat
    BY <1>1, <1>2, <1>3, <1>4, <1>5, RetainedTyped, CallNow, DirectoryTyped
    DEF CallFitsRow, CallFitsDirectory, CreationInv
  <1>7. dirs[h].activation = None
    BY <1>1, <1>2, <1>3, <1>4, <1>5, <1>6, CallHolds
    DEF CreationInv, DirectoriesFit, DirectoryFits, Row
  <1>8. PICK k \in Receipt : k = SavedReceipt(job)
    <2>1. SavedReceipt(job) = ReceiptFor(r.intent, h)
      BY <1>4, <1>5, <1>6 DEF SavedReceipt, RetainedRequest
    <2>2. ReceiptFor(r.intent, h) \in Receipt
      BY <1>6 DEF ReceiptFor, Receipt
    <2> QED
      BY <2>1, <2>2
  <1>9. PICK e \in Entry :
           /\ e = [r EXCEPT !.state = 2, !.receipt = k] /\ e # None
           /\ e.intent = r.intent /\ e.state = 2 /\ e.receipt = k
           /\ e.binding = r.binding
    BY IncludedRow
  <1>90. e # None /\ e.intent = r.intent /\ e.state = 2 /\ e.binding = r.binding
    BY <1>9
  <1>10. MutateRegister(c, e, o)
    BY <1>4, <1>5, <1>8, <1>9 DEF Include, Kept
  <1>11. /\ \A x \in Changes : x # c => entries'[x] = entries[x]
         /\ Effective(o) => entries'[c] = e /\ entries' = [entries EXCEPT ![c] = e]
         /\ ~Effective(o) => UNCHANGED entries
    BY <1>10, RowAfter
  <1>12. \A d \in Bindings : SameMade(d)
    BY <1>1 DEF SameMade
  <1>13. CASE Effective(o)
    <2>1. StandingOf(c) = "started"
      BY <1>5, <1>6, <1>7 DEF StandingOf
    <2>2. StandingOf(c)' = "included"
      <3>1. /\ entries'[c] # None /\ entries'[c].state = 2
            /\ entries'[c].binding = h /\ dirs'[h].activation = None
        BY <1>1, <1>6, <1>7, <1>11, <1>13, <1>90
      <3> QED
        BY <3>1 DEF StandingOf
    <2>3. I!Moves(c, StandingOf(c), "included")
      BY <1>11, <1>12, <2>2, StandingMoves
    <2>4. I!Include(c)
      <3>1. \A x \in Changes :
              /\ (IF entries'[x] = None THEN None ELSE entries'[x].binding)
                   = IF entries[x] = None THEN None ELSE entries[x].binding
              /\ (IF entries'[x] = None THEN None ELSE entries'[x].intent)
                   = IF entries[x] = None THEN None ELSE entries[x].intent
        BY <1>5, <1>6, <1>11, <1>13, <1>90
      <3> QED
        BY <1>1, <2>1, <2>3, <3>1 DEF I!Include
    <2> QED
      BY <2>4 DEF I!Next
  <1>14. CASE ~Effective(o)
    BY <1>1, <1>11, <1>12, <1>14, NothingSaid
  <1> QED
    BY <1>13, <1>14

---------------------------------------------------------------------------
(* Answers, kills and others *)

\* What is asked of a Change's requests together.
LEMMA ToldOf ==
    ASSUME NEW i \in Intents, NEW a, told \in [Intents -> SUBSET Progress],
           told' = [told EXCEPT ![i] = @ \cup {a}], i.change \in Changes
    PROVE  [c \in Changes |-> UNION {told'[x] : x \in {y \in Intents : y.change = c}}]
             = [[c \in Changes |-> UNION {told[x] : x \in {y \in Intents : y.change = c}}]
                  EXCEPT ![i.change] = @ \cup {a}]
  <1> DEFINE before(c) == UNION {told[x] : x \in {y \in Intents : y.change = c}}
             after(c) == UNION {told'[x] : x \in {y \in Intents : y.change = c}}
  <1>1. \A x \in Intents : told'[x] = IF x = i THEN told[x] \cup {a} ELSE told[x]
    OBVIOUS
  <1>2. ASSUME NEW c \in Changes, c # i.change PROVE after(c) = before(c)
    <2>1. \A x \in Intents : x.change = c => told'[x] = told[x]
      BY <1>1, <1>2
    <2> QED
      BY <2>1
  <1>3. after(i.change) = before(i.change) \cup {a}
    <2>1. ASSUME NEW z PROVE z \in after(i.change) <=> z \in before(i.change) \cup {a}
      <3>1. z \in after(i.change)
              <=> \E x \in Intents : x.change = i.change /\ z \in told'[x]
        OBVIOUS
      <3>2. z \in before(i.change)
              <=> \E x \in Intents : x.change = i.change /\ z \in told[x]
        OBVIOUS
      <3> QED
        BY <1>1, <3>1, <3>2
    <2> QED
      BY <2>1
  <1> HIDE DEF before, after
  <1>4. [c \in Changes |-> after(c)]
           = [[c \in Changes |-> before(c)] EXCEPT ![i.change] = @ \cup {a}]
    BY <1>2, <1>3
  <1> QED
    BY <1>4 DEF before, after

LEMMA AnswerMaps ==
    ASSUME CreationInv, Answer
    PROVE  [I!Next]_(I!vars)
  <1>1. PICK s \in {"explain", "unactivated", "ready"} : At(s) /\ Tell(AnswerAt(s))
    BY DEF Answer
  <1>2. /\ job # None /\ job.stage = s /\ dirs' = Released(dirs) /\ UNCHANGED entries
    BY <1>1 DEF Answer, At
  <1>3. /\ job.stage \notin Searching /\ job.stage \in Started /\ job.stage # "reserve"
        /\ s # "include"
    BY <1>2 DEF Searching, Started
  <1>4. PICK h \in Bindings : h = job.held
    BY <1>2, <1>3, CallHolds
  <1>5. PICK i \in Intents : i = job.incoming
    BY <1>2, CallTyped DEF CreationInv
  <1>6. PICK c \in Changes : c = i.change /\ c = job.change
    BY <1>2, <1>3, <1>5, RetainedTyped, CallNow DEF CallFitsRow
  <1>7. /\ entries[c] # None /\ entries[c].state > 0 /\ entries[c].binding = h
        /\ entries[c].state \in 0..2
        /\ s \in {"unactivated", "ready"} => entries[c].state = 2
        /\ dirs[h].started # None
        /\ s = "ready" => dirs[h].activation # None
    BY <1>2, <1>3, <1>4, <1>6, CallNow, RowTyped
    DEF CallFitsRow, CallFitsDirectory, CreationInv
  <1> DEFINE a == AnswerAt(s)
  <1>8. /\ a \in I!Answers
        /\ StandingOf(c) \in I!Proves(a)
    <2>1. CASE s = "explain"
      <3>1. /\ a = "pending inclusion"
            /\ StandingOf(c) \in {"started", "included", "active"}
        BY <1>7, <2>1 DEF AnswerAt, StandingOf
      <3> QED
        BY <3>1 DEF I!Answers, I!Proves
    <2>2. CASE s = "unactivated"
      <3>1. a = "pending activation" /\ StandingOf(c) \in {"included", "active"}
        BY <1>7, <2>2 DEF AnswerAt, StandingOf
      <3> QED
        BY <3>1 DEF I!Answers, I!Proves
    <2>3. CASE s = "ready"
      <3>1. a = "ready" /\ StandingOf(c) = "active"
        BY <1>7, <2>3 DEF AnswerAt, StandingOf
      <3> QED
        BY <3>1 DEF I!Answers, I!Proves
    <2> QED
      BY <2>1, <2>2, <2>3
  <1>9. PICK b : b = a
    OBVIOUS
  <1>10. told' = [told EXCEPT ![i] = @ \cup {b}]
    BY <1>1, <1>5, <1>9 DEF Tell
  <1> HIDE DEF a
  <1>11. [x \in Changes |-> UNION {told'[y] : y \in {z \in Intents : z.change = x}}]
           = [[x \in Changes |-> UNION {told[y] : y \in {z \in Intents : z.change = x}}]
                EXCEPT ![i.change] = @ \cup {b}]
    BY <1>6, <1>10, ToldOf, ZenonT(20) DEF CreationInv, Typed
  <1>12. \A x \in Changes : StandingOf(x)' = StandingOf(x)
    <2>1. \A d \in Bindings : SameMade(d)
      BY <1>2, LetGoSame
    <2>2. PICK S : S = {}
      OBVIOUS
    <2>3. \A x \in Changes : x \notin S => StandingOf(x)' = StandingOf(x)
      <3>1. \A x \in Changes : x \notin S => entries'[x] = entries[x]
        BY <1>2
      <3>2. \A d \in Bindings : dirs[d].change \notin S => SameMade(d)
        BY <2>1
      <3> QED
        BY ONLY <3>1, <3>2, CreationInv, OthersStand
    <2> QED
      BY <2>2, <2>3
  <1>13. I!Tell(c, b)
    BY <1>2, <1>6, <1>8, <1>9, <1>11, <1>12 DEF I!Tell
  <1> QED
    BY <1>8, <1>9, <1>13 DEF I!Next

\* Kills, openings, moves and the owner's work are none of its business.
LEMMA OthersSayNothing ==
    ASSUME CreationInv,
           \/ \E i \in Intents : Ask(i)
           \/ Kill \/ Reopen
           \/ \E ref \in References : OpenOriginal(ref)
           \/ \E d \in Bindings :
                 \/ \E o \in Outcomes : Work(d, o)
                 \/ Leave(d)
                 \/ \E p \in Paths \cup {None} : Move(d, p)
    PROVE  UNCHANGED I!vars
  <1>1. UNCHANGED <<entries, told>>
    BY DEF Ask, Kill, Reopen, OpenOriginal, Work, Leave, Move, stores
  <1>2. CASE (\E i \in Intents : Ask(i)) \/ Reopen
    <2>1. UNCHANGED dirs
      BY <1>2 DEF Ask, Reopen, stores
    <2> QED
      BY <1>1, <2>1, NothingSaid DEF SameMade
  <1>3. CASE Kill
    <2>1. CASE job = None
      <3>1. UNCHANGED dirs
        BY <1>3, <2>1 DEF Kill
      <3> QED
        BY <1>1, <3>1, NothingSaid DEF SameMade
    <2>2. CASE job # None
      <3>1. dirs' = Released(dirs)
        BY <1>3, <2>2 DEF Kill
      <3> QED
        BY <1>1, <2>2, <3>1, LetGoSame, NothingSaid
    <2> QED
      BY <2>1, <2>2
  <1>4. ASSUME NEW h \in Bindings, NEW r, dirs' = [dirs EXCEPT ![h] = r],
               r.started = dirs[h].started, r.activation = dirs[h].activation
        PROVE  UNCHANGED I!vars
    BY <1>1, <1>4, OneSame, NothingSaid
  <1>5. ASSUME NEW ref \in References, OpenOriginal(ref)
        PROVE  UNCHANGED I!vars
    <2>1. PICK h \in Bindings : h = ref.binding
      <3>1. PICK c \in Changes :
              /\ entries[c] # None /\ entries[c].binding # None
              /\ ref = ReferenceOf(ReceiptFor(entries[c].intent, entries[c].binding))
        BY DEF References
      <3>2. ref.binding = entries[c].binding
        BY <3>1 DEF ReferenceOf, ReceiptFor
      <3>3. RowFits(c) /\ entries[c].state \in 0..2
        BY <3>1, RowTyped DEF CreationInv, Rows
      <3>4. entries[c].binding \in Bindings
        BY <3>1, <3>3 DEF RowFits, ValidEntry
      <3> QED
        BY <3>2, <3>4
    <2> DEFINE r == [dirs[h] EXCEPT !.holder = "owner"]
    <2>2. r.started = dirs[h].started /\ r.activation = dirs[h].activation
      BY DirectoryTyped DEF CreationInv, Directory
    <2>3. dirs' = [dirs EXCEPT ![h] = r]
      BY <1>5, <2>1 DEF OpenOriginal
    <2> HIDE DEF r
    <2> QED
      BY <1>4, <2>2, <2>3
  <1>6. ASSUME NEW h \in Bindings, NEW o \in Outcomes, Work(h, o)
        PROVE  UNCHANGED I!vars
    <2> DEFINE r == [dirs[h] EXCEPT
                        !.more = IF Effective(o) THEN @ + 1 ELSE @,
                        !.stuck = @ \/ o = "stuck",
                        !.holder = IF o = "done" THEN "owner" ELSE "nobody"]
    <2>1. r.started = dirs[h].started /\ r.activation = dirs[h].activation
      BY DirectoryTyped DEF CreationInv, Directory
    <2>2. dirs' = [dirs EXCEPT ![h] = r]
      BY <1>6 DEF Work
    <2> HIDE DEF r
    <2> QED
      BY <1>4, <2>1, <2>2
  <1>7. ASSUME NEW h \in Bindings, Leave(h)
        PROVE  UNCHANGED I!vars
    <2> DEFINE r == [dirs[h] EXCEPT !.holder = "nobody"]
    <2>1. r.started = dirs[h].started /\ r.activation = dirs[h].activation
      BY DirectoryTyped DEF CreationInv, Directory
    <2>2. dirs' = [dirs EXCEPT ![h] = r]
      BY <1>7 DEF Leave
    <2> HIDE DEF r
    <2> QED
      BY <1>4, <2>1, <2>2
  <1>8. ASSUME NEW h \in Bindings, NEW p \in Paths \cup {None}, Move(h, p)
        PROVE  UNCHANGED I!vars
    <2> DEFINE r == [dirs[h] EXCEPT !.at = p]
    <2>1. r.started = dirs[h].started /\ r.activation = dirs[h].activation
      BY DirectoryTyped DEF CreationInv, Directory
    <2>2. dirs' = [dirs EXCEPT ![h] = r]
      BY <1>8 DEF Move
    <2> HIDE DEF r
    <2> QED
      BY <1>4, <2>1, <2>2
  <1> QED
    BY <1>2, <1>3, <1>5, <1>6, <1>7, <1>8

---------------------------------------------------------------------------
(* The refinement *)

LEMMA StepMaps ==
    ASSUME CreationInv, Next
    PROVE  [I!Next]_(I!vars)
  <1>1. CASE JobStep
    <2>1. ASSUME NEW o \in Outcomes,
                 Reserve(o) \/ Bind(o) \/ Provision(o)
                   \/ Start(o) \/ Include(o) \/ Activate(o)
          PROVE  [I!Next]_(I!vars)
      BY <2>1, ReserveMaps, BindMaps, ProvisionMakesNothing, StartMaps, IncludeMaps,
         ActivateMaps
    <2>2. CASE Answer
      BY <2>2, AnswerMaps
    <2> QED
      BY <1>1, <2>1, <2>2, JobMakesNothing DEF JobStep
  <1>2. CASE ~JobStep
    BY <1>2, OthersSayNothing DEF Next
  <1> QED
    BY <1>1, <1>2

LEMMA InitMaps ==
    ASSUME Init
    PROVE  I!Init
  <1>1. /\ entries = [c \in Changes |-> None]
        /\ told = [i \in Intents |-> {}]
    BY DEF Init
  <1>2. \A c \in Changes : StandingOf(c) = "absent"
    BY <1>1 DEF StandingOf
  <1>3. \A c \in Changes : UNION {told[i] : i \in {x \in Intents : x.change = c}} = {}
    BY <1>1
  <1> QED
    BY <1>1, <1>2, <1>3 DEF I!Init

\* Creating originals keeps the promise of Inclusion (CHANGEKERNEL_SYSTEM.md,
\* "Inclusion"), whatever fails, is killed, moved or asked again: the first
\* complete request is retained, one original is bound before its Start, the
\* inclusion comes before the activation, and no answer is ahead of it.
THEOREM CreationImplementsInclusion == Spec => ImplementsInclusion
  <1>1. Init => I!Init
    BY InitMaps
  <1>2. CreationInv /\ [Next]_vars => [I!Next]_(I!vars)
    <2>1. ASSUME CreationInv, UNCHANGED vars PROVE UNCHANGED I!vars
      <3>1. UNCHANGED <<entries, dirs, told>>
        BY <2>1 DEF vars
      <3> QED
        BY <2>1, <3>1, NothingSaid DEF SameMade
    <2> QED
      BY <2>1, StepMaps
  <1> QED
    BY <1>1, <1>2, InvariantHolds, PTL DEF Spec, ImplementsInclusion, I!Spec
=============================================================================
