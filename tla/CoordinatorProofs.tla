-------------------------- MODULE CoordinatorProofs --------------------------
(***************************************************************************)
(* Proofs about Coordinator: for any requests, worlds, kernels and         *)
(* failures, what a handle remembers is the history SQLite holds, what was *)
(* accepted can be opened again, was true of the host when it was          *)
(* committed and keeps its meaning, and callers are told the truth.        *)
(*                                                                         *)
(* The argument.  Everything rests on one lemma about records: if a record *)
(* is valid after a history, then adding it to the prefix that this        *)
(* history makes gives the prefix that the longer history makes            *)
(* (RetainIsPrefix), and the longer history has again the properties that  *)
(* make a prefix well defined (AppendHistory): no id twice, one meaning    *)
(* and one establishment per content, citations that stand.  The rest of   *)
(* the invariant says what each stage of a call has established, that the  *)
(* memory of a handle is such a prefix, and that nothing moves under the   *)
(* guard.                                                                  *)
(***************************************************************************)
EXTENDS Coordinator, TLAPS

Told == Effects \cup {"none", "asked", "absent"}

\* Every variable holds a value of its kind.
TypeOK ==
    /\ world \in Worlds
    /\ log \in Seq(Record)
    /\ attempt \in AttemptType \cup {None}
    /\ store \in {"live", "fenced", "opening", "down"}
    /\ memory \in Prefix \cup {None}
    /\ fenced \in BOOLEAN
    /\ call \in CallType \cup {None}
    /\ told \in [Requests -> Told]
    /\ kept \in Seq(Worlds) /\ Len(kept) = Len(log)
    /\ moves \in 0..MaxMoves /\ failures \in 0..MaxFailures

---------------------------------------------------------------------------
(* Histories: sequences of records each of which was valid when it was added *)

UniqueIds(s) ==
    \A i, j \in DOMAIN s : s[i].request.id = s[j].request.id => i = j

OneMeaning(s) ==
    \A i, j \in DOMAIN s : \A k \in Bound(s[i].checks.intakes) \cap Bound(s[j].checks.intakes) :
        /\ BytesIn(s[i].checks.intakes, k) = BytesIn(s[j].checks.intakes, k)
        /\ s[i].checks.intakes[k].claim.by = s[j].checks.intakes[k].claim.by

OneEstablishment(s) ==
    \A i, j \in DOMAIN s : \A k \in Established(s[i].request) \cap Established(s[j].request) : i = j

\* What is bound was established, then or before, and what is established is bound.
EstablishedFirst(s) ==
    \A i \in DOMAIN s :
        /\ \A k \in Bound(s[i].checks.intakes) : \E h \in 1..i : k \in Established(s[h].request)
        /\ Established(s[i].request) \subseteq Bound(s[i].checks.intakes)

Cited(s) ==
    \A j \in DOMAIN s : \A c \in s[j].request.cites \cup s[j].request.derived :
        \E i \in 1..j :
            /\ s[i].request.id = c.operation
            /\ c.content \in Bound(s[i].checks.intakes)
            /\ BytesIn(s[i].checks.intakes, c.content) = BytesIn(s[j].checks.intakes, c.content)

Replayable(s) ==
    \A i \in DOMAIN s : Interprets(PrefixOf(SubSeq(s, 1, i - 1)), s[i])

\* What makes the prefix of a sequence well defined.
Sound(s) ==
    /\ s \in Seq(Record)
    /\ UniqueIds(s) /\ OneMeaning(s) /\ OneEstablishment(s) /\ EstablishedFirst(s)

History(s) == Sound(s) /\ Cited(s) /\ Replayable(s)

---------------------------------------------------------------------------
(* Facts about records and prefixes *)

LEMMA RecordFacts ==
    ASSUME NEW r \in Record
    PROVE  /\ r.request \in Request /\ r.checks \in Checks /\ r.effect \in Effects
           /\ r.request.id \in Ids /\ r.request.first \subseteq Contents
           /\ r.request.fresh \in Partial(Contents, [bytes : Bytes, by : Actors])
           /\ r.checks.intakes \in Partial(Contents, Snapshot)
           /\ Bound(r.checks.intakes) \subseteq Contents
           /\ Established(r.request) \subseteq Contents
  <1>1. r.request \in Request /\ r.checks \in Checks /\ r.effect \in Effects
    BY DEF Record
  <1>2. /\ r.request.id \in Ids /\ r.request.first \subseteq Contents
        /\ r.request.fresh \in Partial(Contents, [bytes : Bytes, by : Actors])
    BY <1>1 DEF Request
  <1>3. r.checks.intakes \in Partial(Contents, Snapshot)
    BY <1>1 DEF Checks
  <1>4. Bound(r.checks.intakes) \subseteq Contents
    BY <1>3 DEF Bound, Partial
  <1>5. Established(r.request) \subseteq Contents
    BY <1>2 DEF Established, Bound, Partial
  <1> QED BY <1>1, <1>2, <1>3, <1>4, <1>5

LEMMA IntakeFacts ==
    ASSUME NEW f \in Partial(Contents, Snapshot), NEW k \in Bound(f)
    PROVE  /\ k \in Contents /\ f[k] \in Snapshot /\ f[k].claim \in Observation
           /\ f[k].claim.bytes \in Bytes /\ f[k].claim.by \in Actors \cup {None}
  <1>1. k \in Contents /\ f[k] \in Snapshot
    BY DEF Bound, Partial
  <1>2. f[k].claim \in Observation
    BY <1>1 DEF Snapshot
  <1> QED BY <1>1, <1>2 DEF Observation

LEMMA EstablishmentFacts ==
    ASSUME NEW r \in Record, NEW k \in Bound(r.checks.intakes)
    PROVE  EstablishmentOf(r, k) \in Establishment /\ EstablishmentOf(r, k) # None
  <1>1. r.request.id \in Ids /\ r.checks.intakes[k].claim.by \in Actors \cup {None}
    BY RecordFacts, IntakeFacts
  <1>2. EstablishmentOf(r, k) \in Establishment
    BY <1>1 DEF EstablishmentOf, Establishment
  <1> QED BY <1>2, CoordinatorAssumption

\* What the prefix of a sound sequence says of a content.
LEMMA PrefixFacts ==
    ASSUME NEW s, Sound(s), NEW k \in Contents
    PROVE  /\ PrefixOf(s).records = s
           /\ \A i \in DOMAIN s : k \in Established(s[i].request) =>
                 /\ PrefixOf(s).established[k] = EstablishmentOf(s[i], k)
                 /\ PrefixOf(s).established[k] # None
                 /\ PrefixOf(s).established[k] \in Establishment
           /\ (\A i \in DOMAIN s : k \notin Established(s[i].request)) =>
                 PrefixOf(s).established[k] = None
           /\ \A i \in DOMAIN s : k \in Bound(s[i].checks.intakes) =>
                 /\ PrefixOf(s).bytes[k] = BytesIn(s[i].checks.intakes, k)
                 /\ PrefixOf(s).bytes[k] \in Bytes
           /\ (\A i \in DOMAIN s : k \notin Bound(s[i].checks.intakes)) =>
                 PrefixOf(s).bytes[k] = None
  <1> DEFINE B == {i \in DOMAIN s : k \in Bound(s[i].checks.intakes)}
             E == {i \in DOMAIN s : k \in Established(s[i].request)}
             b == CHOOSE i \in B : TRUE
             e == CHOOSE i \in E : TRUE
  <1>1. PrefixOf(s).records = s
    BY DEF PrefixOf
  <1>2. PrefixOf(s).established[k] = IF E = {} THEN None ELSE EstablishmentOf(s[e], k)
    BY DEF PrefixOf
  <1>3. PrefixOf(s).bytes[k] = IF B = {} THEN None ELSE BytesIn(s[b].checks.intakes, k)
    BY DEF PrefixOf
  <1>4. \A i \in DOMAIN s : s[i] \in Record
    BY DEF Sound
  <1>5. ASSUME NEW i \in DOMAIN s, k \in Established(s[i].request)
        PROVE  /\ PrefixOf(s).established[k] = EstablishmentOf(s[i], k)
               /\ PrefixOf(s).established[k] # None
               /\ PrefixOf(s).established[k] \in Establishment
    <2>1. e \in E
      BY <1>5
    <2>2. e = i
      BY <1>5, <2>1 DEF Sound, OneEstablishment
    <2>3. k \in Bound(s[i].checks.intakes)
      BY <1>5 DEF Sound, EstablishedFirst
    <2> QED BY <1>2, <1>4, <1>5, <2>2, <2>3, EstablishmentFacts
  <1>6. ASSUME NEW i \in DOMAIN s, k \in Bound(s[i].checks.intakes)
        PROVE  /\ PrefixOf(s).bytes[k] = BytesIn(s[i].checks.intakes, k)
               /\ PrefixOf(s).bytes[k] \in Bytes
    <2>1. b \in B
      BY <1>6
    <2>2. BytesIn(s[b].checks.intakes, k) = BytesIn(s[i].checks.intakes, k)
      BY <1>6, <2>1 DEF Sound, OneMeaning
    <2>3. BytesIn(s[i].checks.intakes, k) \in Bytes
      BY <1>4, <1>6, RecordFacts, IntakeFacts DEF BytesIn
    <2> QED BY <1>3, <1>6, <2>2, <2>3
  <1>7. (\A i \in DOMAIN s : k \notin Established(s[i].request)) => E = {}
    OBVIOUS
  <1>8. (\A i \in DOMAIN s : k \notin Bound(s[i].checks.intakes)) => B = {}
    OBVIOUS
  <1> HIDE DEF B, E, b, e
  <1> QED BY <1>1, <1>2, <1>3, <1>5, <1>6, <1>7, <1>8

\* The prefix knows exactly what its records say.
LEMMA KnownFacts ==
    ASSUME NEW s, Sound(s)
    PROVE  /\ PrefixOf(s).established \in Partial(Contents, Establishment)
           /\ PrefixOf(s).bytes \in Partial(Contents, Bytes)
           /\ PrefixOf(s).last = (IF s = <<>> THEN None ELSE s[Len(s)].request.id)
           /\ PrefixOf(s) = [records |-> PrefixOf(s).records,
                             established |-> PrefixOf(s).established,
                             bytes |-> PrefixOf(s).bytes, last |-> PrefixOf(s).last]
           /\ PrefixOf(s) \in Prefix
  <1>1. /\ PrefixOf(s).established = [k \in Contents |-> PrefixOf(s).established[k]]
        /\ PrefixOf(s).bytes = [k \in Contents |-> PrefixOf(s).bytes[k]]
        /\ PrefixOf(s).last = (IF s = <<>> THEN None ELSE s[Len(s)].request.id)
        /\ PrefixOf(s).records = s
        /\ PrefixOf(s) = [records |-> PrefixOf(s).records,
                          established |-> PrefixOf(s).established,
                          bytes |-> PrefixOf(s).bytes, last |-> PrefixOf(s).last]
    BY DEF PrefixOf
  <1>2. ASSUME NEW k \in Contents
        PROVE  /\ PrefixOf(s).established[k] \in Establishment \cup {None}
               /\ PrefixOf(s).bytes[k] \in Bytes \cup {None}
    BY PrefixFacts
  <1>3. /\ PrefixOf(s).established \in Partial(Contents, Establishment)
        /\ PrefixOf(s).bytes \in Partial(Contents, Bytes)
    BY <1>1, <1>2 DEF Partial
  <1>4. s \in Seq(Record)
    BY DEF Sound
  <1>5. PrefixOf(s).last \in Ids \cup {None}
    <2>1. s # <<>> => Len(s) \in DOMAIN s
      BY <1>4
    <2>2. s # <<>> => s[Len(s)] \in Record
      BY <1>4, <2>1
    <2> QED BY <1>1, <2>2, RecordFacts
  <1> QED BY <1>1, <1>3, <1>4, <1>5 DEF Prefix

\* Whether a content is established or bound in the prefix.
LEMMA BoundIn ==
    ASSUME NEW s, Sound(s), NEW k \in Contents
    PROVE  /\ k \in Bound(PrefixOf(s).established) <=>
                 \E i \in DOMAIN s : k \in Established(s[i].request)
           /\ k \in Bound(PrefixOf(s).bytes) =>
                 \E i \in DOMAIN s : k \in Bound(s[i].checks.intakes)
  <1>1. /\ DOMAIN PrefixOf(s).established = Contents
        /\ DOMAIN PrefixOf(s).bytes = Contents
    BY KnownFacts DEF Partial
  <1> QED BY <1>1, PrefixFacts DEF Bound

LEMMA KnowsIs ==
    ASSUME NEW s, NEW id
    PROVE  Knows(PrefixOf(s), id) <=> \E i \in DOMAIN s : s[i].request.id = id
  <1>1. PrefixOf(s).records = s
    BY DEF PrefixOf
  <1> QED BY <1>1 DEF Knows, RecordsOf

LEMMA EmptySound == Sound(<<>>) /\ History(<<>>) /\ PrefixOf(<<>>) = EmptyPrefix
  <1>1. DOMAIN <<>> = {} /\ <<>> \in Seq(Record)
    OBVIOUS
  <1>2. Sound(<<>>) /\ History(<<>>)
    BY <1>1 DEF Sound, History, UniqueIds, OneMeaning, OneEstablishment, EstablishedFirst,
                Cited, Replayable
  <1>3. \A k \in Contents : PrefixOf(<<>>).established[k] = None /\ PrefixOf(<<>>).bytes[k] = None
    BY <1>1, <1>2, PrefixFacts
  <1>4. /\ PrefixOf(<<>>).established = [k \in Contents |-> PrefixOf(<<>>).established[k]]
        /\ PrefixOf(<<>>).bytes = [k \in Contents |-> PrefixOf(<<>>).bytes[k]]
        /\ PrefixOf(<<>>).last = None /\ PrefixOf(<<>>).records = <<>>
        /\ PrefixOf(<<>>) = [records |-> PrefixOf(<<>>).records,
                          established |-> PrefixOf(<<>>).established,
                          bytes |-> PrefixOf(<<>>).bytes, last |-> PrefixOf(<<>>).last]
    BY DEF PrefixOf
  <1> QED BY <1>2, <1>3, <1>4 DEF EmptyPrefix, Empty

---------------------------------------------------------------------------
(* Adding a valid record *)

LEMMA AppendFacts ==
    ASSUME NEW s \in Seq(Record), NEW r \in Record
    PROVE  /\ Append(s, r) \in Seq(Record) /\ Len(s) \in Nat /\ Len(Append(s, r)) = Len(s) + 1
           /\ DOMAIN s = 1..Len(s) /\ DOMAIN Append(s, r) = 1..Len(s) + 1
           /\ \A i \in DOMAIN s : i \in DOMAIN Append(s, r) /\ i <= Len(s) /\ Append(s, r)[i] = s[i]
           /\ Append(s, r)[Len(s) + 1] = r
           /\ \A i \in DOMAIN Append(s, r) : i \in DOMAIN s \/ i = Len(s) + 1
           /\ Append(s, r) # <<>>
  OBVIOUS

\* A valid record establishes only what nobody established, and what else it binds
\* it binds as it was bound before.
LEMMA ValidIntake ==
    ASSUME NEW s, Sound(s), NEW r \in Record, Interprets(PrefixOf(s), r),
           NEW k \in Bound(r.checks.intakes)
    PROVE  /\ k \in Established(r.request) => \A i \in DOMAIN s : k \notin Established(s[i].request)
           /\ k \notin Established(r.request) =>
                 \E i \in DOMAIN s : /\ k \in Established(s[i].request)
                                     /\ r.checks.intakes[k].claim.by = s[i].checks.intakes[k].claim.by
                                     /\ r.checks.intakes[k].claim.bytes = BytesIn(s[i].checks.intakes, k)
  <1> DEFINE p == PrefixOf(s)
             q == r.request
             x == r.checks.intakes[k]
  <1>1. k \in Contents
    BY RecordFacts
  <1>2. x.case = CaseOf(q, k) /\ IntakeFits(p, q, k, x)
    BY DEF Interprets, ValidCurrent
  <1>3. CASE k \in Bound(q.fresh)
    <2>1. FreshFits(p, q, k, x)
      BY <1>2, <1>3 DEF CaseOf, IntakeFits
    <2> QED BY <1>1, <1>3, <2>1, BoundIn DEF FreshFits, Established
  <1>4. CASE k \notin Bound(q.fresh) /\ k \in q.first
    <2>1. FirstRetentionFits(p, q, k, x)
      BY <1>2, <1>4 DEF CaseOf, IntakeFits
    <2> QED BY <1>1, <1>4, <2>1, BoundIn DEF FirstRetentionFits, Established
  <1>5. CASE k \notin Bound(q.fresh) /\ k \notin q.first
    <2>1. KnownReuseFits(p, q, k, x)
      BY <1>2, <1>5 DEF CaseOf, IntakeFits
    <2>2. /\ k \in Bound(p.established) /\ x.claim.bytes = p.bytes[k]
          /\ x.claim.by = p.established[k].by
      BY <2>1 DEF KnownReuseFits
    <2>3. PICK i \in DOMAIN s : k \in Established(s[i].request)
      BY <1>1, <2>2, BoundIn
    <2>4. p.established[k] = EstablishmentOf(s[i], k)
      BY <1>1, <2>3, PrefixFacts
    <2>5. p.established[k].by = s[i].checks.intakes[k].claim.by
      BY <2>4 DEF EstablishmentOf
    <2>6. k \in Bound(s[i].checks.intakes)
      BY <2>3 DEF Sound, EstablishedFirst
    <2>7. p.bytes[k] = BytesIn(s[i].checks.intakes, k)
      BY <1>1, <2>6, PrefixFacts
    <2> QED BY <1>5, <2>2, <2>3, <2>5, <2>7 DEF Established
  <1> QED BY <1>3, <1>4, <1>5

LEMMA ValidEstablishes ==
    ASSUME NEW s, NEW r \in Record, Interprets(PrefixOf(s), r)
    PROVE  Established(r.request) \subseteq Bound(r.checks.intakes)
  BY DEF Interprets, ValidCurrent, Established

LEMMA AppendSound ==
    ASSUME NEW s, Sound(s), NEW r \in Record, Interprets(PrefixOf(s), r)
    PROVE  Sound(Append(s, r))
  <1> DEFINE t == Append(s, r)
             n == Len(s) + 1
  <1>1. s \in Seq(Record)
    BY DEF Sound
  <1>2. /\ t \in Seq(Record) /\ Len(s) \in Nat /\ DOMAIN s = 1..Len(s) /\ DOMAIN t = 1..n
        /\ \A i \in DOMAIN s : i \in DOMAIN t /\ i <= Len(s) /\ t[i] = s[i]
        /\ t[n] = r /\ \A i \in DOMAIN t : i \in DOMAIN s \/ i = n
    BY <1>1, AppendFacts
  <1>3. \A k \in Bound(r.checks.intakes) :
           /\ k \in Established(r.request) => \A i \in DOMAIN s : k \notin Established(s[i].request)
           /\ k \notin Established(r.request) =>
                 \E i \in DOMAIN s : /\ k \in Established(s[i].request)
                                     /\ r.checks.intakes[k].claim.by = s[i].checks.intakes[k].claim.by
                                     /\ r.checks.intakes[k].claim.bytes = BytesIn(s[i].checks.intakes, k)
    BY ValidIntake
  <1>4. Established(r.request) \subseteq Bound(r.checks.intakes)
    BY ValidEstablishes
  <1>5. UniqueIds(t)
    <2>1. \A i \in DOMAIN s : s[i].request.id # r.request.id
      BY KnowsIs DEF Interprets, ValidCurrent
    <2>2. \A i, j \in DOMAIN s : s[i].request.id = s[j].request.id => i = j
      BY DEF Sound, UniqueIds
    <2> HIDE DEF t, n
    <2> QED BY <1>2, <2>1, <2>2 DEF UniqueIds
  <1>6. OneEstablishment(t)
    <2>1. \A i \in DOMAIN s : \A k \in Established(r.request) : k \notin Established(s[i].request)
      BY <1>3, <1>4
    <2>2. \A i, j \in DOMAIN s : \A k \in Established(s[i].request) \cap Established(s[j].request) : i = j
      BY DEF Sound, OneEstablishment
    <2> HIDE DEF t, n
    <2> QED BY <1>2, <2>1, <2>2 DEF OneEstablishment
  <1>7. EstablishedFirst(t)
    <2>1. \A i \in DOMAIN s :
             /\ \A k \in Bound(s[i].checks.intakes) : \E h \in 1..i : k \in Established(s[h].request)
             /\ Established(s[i].request) \subseteq Bound(s[i].checks.intakes)
      BY DEF Sound, EstablishedFirst
    <2> SUFFICES ASSUME NEW i \in DOMAIN t
                 PROVE  /\ \A k \in Bound(t[i].checks.intakes) : \E h \in 1..i : k \in Established(t[h].request)
                        /\ Established(t[i].request) \subseteq Bound(t[i].checks.intakes)
      BY DEF EstablishedFirst
    <2> HIDE DEF t, n
    <2>2. CASE i \in DOMAIN s
      <3>1. \A h \in 1..i : h \in DOMAIN s /\ t[h] = s[h]
        BY <1>2, <2>2
      <3> QED BY <1>2, <2>1, <2>2, <3>1
    <2>3. CASE i = n
      <3>1. t[i] = r /\ i \in 1..i /\ DOMAIN s \subseteq 1..i
        BY <1>2, <2>3 DEF n
      <3>2. ASSUME NEW k \in Bound(r.checks.intakes)
            PROVE  \E h \in 1..i : k \in Established(t[h].request)
        <4>1. CASE k \in Established(r.request)
          BY <3>1, <4>1
        <4>2. CASE k \notin Established(r.request)
          <5>1. PICK h \in DOMAIN s : k \in Established(s[h].request)
            BY <1>3, <4>2
          <5> QED BY <1>2, <3>1, <5>1
        <4> QED BY <4>1, <4>2
      <3> QED BY <1>4, <3>1, <3>2
    <2> QED BY <1>2, <2>2, <2>3
  <1>8. OneMeaning(t)
    <2>1. \A i, j \in DOMAIN s : \A k \in Bound(s[i].checks.intakes) \cap Bound(s[j].checks.intakes) :
             /\ BytesIn(s[i].checks.intakes, k) = BytesIn(s[j].checks.intakes, k)
             /\ s[i].checks.intakes[k].claim.by = s[j].checks.intakes[k].claim.by
      BY DEF Sound, OneMeaning
    <2>2. ASSUME NEW i \in DOMAIN s, NEW k \in Bound(s[i].checks.intakes) \cap Bound(r.checks.intakes)
          PROVE  /\ BytesIn(s[i].checks.intakes, k) = BytesIn(r.checks.intakes, k)
                 /\ s[i].checks.intakes[k].claim.by = r.checks.intakes[k].claim.by
      <3>1. PICK h \in 1..i : k \in Established(s[h].request)
        BY DEF Sound, EstablishedFirst
      <3>2. h \in DOMAIN s
        BY <1>2
      <3>3. k \notin Established(r.request)
        BY <1>3, <3>1, <3>2
      <3>4. PICK j \in DOMAIN s : /\ k \in Established(s[j].request)
                                  /\ r.checks.intakes[k].claim.by = s[j].checks.intakes[k].claim.by
                                  /\ r.checks.intakes[k].claim.bytes = BytesIn(s[j].checks.intakes, k)
        BY <1>3, <3>3
      <3>5. k \in Bound(s[j].checks.intakes)
        BY <3>4 DEF Sound, EstablishedFirst
      <3> QED BY <2>1, <3>4, <3>5 DEF BytesIn
    <2> HIDE DEF t, n
    <2> SUFFICES ASSUME NEW i \in DOMAIN t, NEW j \in DOMAIN t,
                        NEW k \in Bound(t[i].checks.intakes) \cap Bound(t[j].checks.intakes)
                 PROVE  /\ BytesIn(t[i].checks.intakes, k) = BytesIn(t[j].checks.intakes, k)
                        /\ t[i].checks.intakes[k].claim.by = t[j].checks.intakes[k].claim.by
      BY DEF OneMeaning
    <2>3. CASE i \in DOMAIN s /\ j \in DOMAIN s
      BY <1>2, <2>1, <2>3
    <2>4. CASE i \in DOMAIN s /\ j = n
      BY <1>2, <2>2, <2>4
    <2>5. CASE i = n /\ j \in DOMAIN s
      BY <1>2, <2>2, <2>5
    <2>6. CASE i = n /\ j = n
      BY <2>6
    <2> QED BY <1>2, <2>3, <2>4, <2>5, <2>6
  <1> QED BY <1>2, <1>5, <1>6, <1>7, <1>8 DEF Sound

\* What a valid record adds to a prefix is what the longer history makes of it.
LEMMA RetainIsPrefix ==
    ASSUME NEW s, Sound(s), NEW r \in Record, Interprets(PrefixOf(s), r)
    PROVE  Retain(PrefixOf(s), r) = PrefixOf(Append(s, r))
  <1> DEFINE t == Append(s, r)
             n == Len(s) + 1
  <1>1. s \in Seq(Record)
    BY DEF Sound
  <1>2. /\ t \in Seq(Record) /\ Len(s) \in Nat /\ Len(t) = n /\ DOMAIN t = 1..n
        /\ \A i \in DOMAIN s : i \in DOMAIN t /\ t[i] = s[i]
        /\ t[n] = r /\ n \in DOMAIN t /\ \A i \in DOMAIN t : i \in DOMAIN s \/ i = n
        /\ t # <<>>
    BY <1>1, AppendFacts
  <1>3. Sound(t)
    BY AppendSound
  <1> HIDE DEF t, n
  <1>4. PrefixOf(s).records = s /\ PrefixOf(t).records = t
    BY DEF PrefixOf
  <1>5. PrefixOf(t).last = r.request.id
    BY <1>2 DEF PrefixOf
  <1>6. ASSUME NEW k \in Contents
        PROVE  PrefixOf(t).established[k] =
                 IF k \in Established(r.request) THEN EstablishmentOf(r, k)
                 ELSE PrefixOf(s).established[k]
    <2>1. CASE k \in Established(r.request)
      BY <1>2, <1>3, <2>1, PrefixFacts
    <2>2. CASE k \notin Established(r.request) /\ \E i \in DOMAIN s : k \in Established(s[i].request)
      <3>1. PICK i \in DOMAIN s : k \in Established(s[i].request)
        BY <2>2
      <3>2. PrefixOf(s).established[k] = EstablishmentOf(s[i], k)
        BY <3>1, PrefixFacts
      <3>3. PrefixOf(t).established[k] = EstablishmentOf(t[i], k)
        BY <1>2, <1>3, <3>1, PrefixFacts
      <3> QED BY <1>2, <2>2, <3>2, <3>3
    <2>3. CASE k \notin Established(r.request) /\ \A i \in DOMAIN s : k \notin Established(s[i].request)
      <3>1. PrefixOf(s).established[k] = None
        BY <2>3, PrefixFacts
      <3>2. \A i \in DOMAIN t : k \notin Established(t[i].request)
        BY <1>2, <2>3
      <3>3. PrefixOf(t).established[k] = None
        BY <1>3, <3>2, PrefixFacts
      <3> QED BY <2>3, <3>1, <3>3
    <2> QED BY <2>1, <2>2, <2>3
  <1>7. ASSUME NEW k \in Contents
        PROVE  PrefixOf(t).bytes[k] =
                 IF k \in Bound(r.checks.intakes) THEN BytesIn(r.checks.intakes, k)
                 ELSE PrefixOf(s).bytes[k]
    <2>1. CASE k \in Bound(r.checks.intakes)
      BY <1>2, <1>3, <2>1, PrefixFacts
    <2>2. CASE k \notin Bound(r.checks.intakes) /\ \E i \in DOMAIN s : k \in Bound(s[i].checks.intakes)
      <3>1. PICK i \in DOMAIN s : k \in Bound(s[i].checks.intakes)
        BY <2>2
      <3>2. PrefixOf(s).bytes[k] = BytesIn(s[i].checks.intakes, k)
        BY <3>1, PrefixFacts
      <3>3. PrefixOf(t).bytes[k] = BytesIn(t[i].checks.intakes, k)
        BY <1>2, <1>3, <3>1, PrefixFacts
      <3> QED BY <1>2, <2>2, <3>2, <3>3
    <2>3. CASE k \notin Bound(r.checks.intakes) /\ \A i \in DOMAIN s : k \notin Bound(s[i].checks.intakes)
      <3>1. PrefixOf(s).bytes[k] = None
        BY <2>3, PrefixFacts
      <3>2. \A i \in DOMAIN t : k \notin Bound(t[i].checks.intakes)
        BY <1>2, <2>3
      <3>3. PrefixOf(t).bytes[k] = None
        BY <1>3, <3>2, PrefixFacts
      <3> QED BY <2>3, <3>1, <3>3
    <2> QED BY <2>1, <2>2, <2>3
  <1>8. /\ PrefixOf(t).established = [k \in Contents |-> PrefixOf(t).established[k]]
        /\ PrefixOf(t).bytes = [k \in Contents |-> PrefixOf(t).bytes[k]]
        /\ PrefixOf(t) = [records |-> PrefixOf(t).records,
                          established |-> PrefixOf(t).established,
                          bytes |-> PrefixOf(t).bytes, last |-> PrefixOf(t).last]
    BY DEF PrefixOf
  <1>9. PrefixOf(t).established = [k \in Contents |->
            IF k \in Established(r.request) THEN EstablishmentOf(r, k)
            ELSE PrefixOf(s).established[k]]
    BY <1>6, <1>8
  <1>10. PrefixOf(t).bytes = Learnt(PrefixOf(s).bytes, r.checks.intakes)
    BY <1>7, <1>8 DEF Learnt
  <1>11. Retain(PrefixOf(s), r) =
            [records |-> t,
             established |-> [k \in Contents |->
                IF k \in Established(r.request) THEN EstablishmentOf(r, k)
                ELSE PrefixOf(s).established[k]],
             bytes |-> Learnt(PrefixOf(s).bytes, r.checks.intakes), last |-> r.request.id]
    BY <1>4 DEF Retain, t
  <1> QED BY ONLY <1>4, <1>5, <1>8, <1>9, <1>10, <1>11 DEF t

LEMMA AppendHistory ==
    ASSUME NEW s, History(s), NEW r \in Record, Interprets(PrefixOf(s), r)
    PROVE  History(Append(s, r))
  <1> DEFINE t == Append(s, r)
             n == Len(s) + 1
  <1>1. Sound(s) /\ s \in Seq(Record)
    BY DEF History, Sound
  <1>2. /\ t \in Seq(Record) /\ Len(s) \in Nat /\ DOMAIN s = 1..Len(s) /\ DOMAIN t = 1..n
        /\ \A i \in DOMAIN s : i \in DOMAIN t /\ i <= Len(s) /\ t[i] = s[i]
        /\ t[n] = r /\ n \in DOMAIN t /\ \A i \in DOMAIN t : i \in DOMAIN s \/ i = n
    BY <1>1, AppendFacts
  <1>3. Sound(t)
    BY <1>1, AppendSound
  <1>4. Cited(t)
    <2> SUFFICES ASSUME NEW j \in DOMAIN t, NEW c \in t[j].request.cites \cup t[j].request.derived
                 PROVE  \E i \in 1..j :
                           /\ t[i].request.id = c.operation
                           /\ c.content \in Bound(t[i].checks.intakes)
                           /\ BytesIn(t[i].checks.intakes, c.content)
                                = BytesIn(t[j].checks.intakes, c.content)
      BY DEF Cited
    <2>1. CASE j \in DOMAIN s
      <3>1. \A i \in 1..j : i \in DOMAIN s /\ t[i] = s[i]
        BY <1>2, <2>1
      <3>2. \E i \in 1..j : /\ s[i].request.id = c.operation
                            /\ c.content \in Bound(s[i].checks.intakes)
                            /\ BytesIn(s[i].checks.intakes, c.content)
                                 = BytesIn(s[j].checks.intakes, c.content)
        BY <1>2, <2>1 DEF History, Cited
      <3> HIDE DEF t, n
      <3> QED BY <1>2, <2>1, <3>1, <3>2
    <2>2. CASE j = n
      <3>1. t[j] = r /\ j \in 1..j /\ \A i \in DOMAIN s : i \in 1..j /\ t[i] = s[i]
        BY <1>2, <2>2
      <3>2. \/ c.operation = r.request.id /\ c.content \in Bound(r.checks.intakes)
            \/ \E x \in RecordsOf(s, c.operation) : StandsIn(x.checks.intakes, c, r.checks.intakes)
        <4>1. PrefixOf(s).records = s
          BY DEF PrefixOf
        <4> QED BY <1>2, <2>2, <4>1
                DEF Interprets, ValidCurrent, CitationStands, DerivationStands
      <3>3. CASE c.operation = r.request.id /\ c.content \in Bound(r.checks.intakes)
        BY <3>1, <3>3
      <3>4. CASE \E x \in RecordsOf(s, c.operation) : StandsIn(x.checks.intakes, c, r.checks.intakes)
        <4>1. PICK i \in DOMAIN s : /\ s[i].request.id = c.operation
                                    /\ StandsIn(s[i].checks.intakes, c, r.checks.intakes)
          BY <3>4 DEF RecordsOf
        <4> QED BY <3>1, <4>1 DEF StandsIn
      <3> QED BY <3>2, <3>3, <3>4
    <2> QED BY <1>2, <2>1, <2>2
  <1>5. Replayable(t)
    <2> SUFFICES ASSUME NEW i \in DOMAIN t
                 PROVE  Interprets(PrefixOf(SubSeq(t, 1, i - 1)), t[i])
      BY DEF Replayable
    <2>1. SubSeq(t, 1, i - 1) = SubSeq(s, 1, i - 1)
      <3>1. i - 1 \in 0..Len(s)
        BY <1>2
      <3>2. \A j \in 1..(i - 1) : t[j] = s[j]
        BY <1>2, <3>1
      <3>3. Len(t) = Len(s) + 1
        BY <1>1
      <3> QED BY ONLY <1>1, <1>2, <3>1, <3>2, <3>3
    <2>2. CASE i \in DOMAIN s
      BY <1>2, <2>1, <2>2 DEF History, Replayable
    <2>3. CASE i = n
      <3>1. SubSeq(s, 1, i - 1) = s
        BY <1>1, <1>2, <2>3
      <3> QED BY <1>2, <2>1, <2>3, <3>1
    <2> QED BY <1>2, <2>2, <2>3
  <1> QED BY <1>3, <1>4, <1>5 DEF History

\* A beginning of a history is one.
LEMMA BeginningSound ==
    ASSUME NEW s, Sound(s), NEW n \in 0..Len(s)
    PROVE  /\ Sound(SubSeq(s, 1, n)) /\ Len(SubSeq(s, 1, n)) = n
           /\ SubSeq(s, 1, n) \in Seq(Record)
  <1> DEFINE t == SubSeq(s, 1, n)
  <1>1. s \in Seq(Record) /\ Len(s) \in Nat /\ DOMAIN s = 1..Len(s)
    BY DEF Sound
  <1>2. /\ t \in Seq(Record) /\ Len(t) = n /\ DOMAIN t = 1..n
        /\ \A i \in DOMAIN t : i \in DOMAIN s /\ t[i] = s[i]
    BY <1>1
  <1> HIDE DEF t
  <1>3. UniqueIds(t)
    BY <1>2 DEF Sound, UniqueIds
  <1>4. OneMeaning(t)
    BY <1>2, SMTT(20) DEF Sound, OneMeaning
  <1>5. OneEstablishment(t)
    BY <1>2 DEF Sound, OneEstablishment
  <1>6. EstablishedFirst(t)
    <2>1. \A i \in DOMAIN t : \A h \in 1..i : h \in DOMAIN t
      BY <1>1, <1>2
    <2>2. \A i \in DOMAIN s :
             /\ \A k \in Bound(s[i].checks.intakes) : \E h \in 1..i : k \in Established(s[h].request)
             /\ Established(s[i].request) \subseteq Bound(s[i].checks.intakes)
      BY DEF Sound, EstablishedFirst
    <2> QED BY <1>2, <2>1, <2>2 DEF EstablishedFirst
  <1>7. Sound(t)
    BY <1>2, <1>3, <1>4, <1>5, <1>6 DEF Sound
  <1> QED BY <1>2, <1>7 DEF t

---------------------------------------------------------------------------
(* The tables *)

LEMMA ControlsOf ==
    ASSUME NEW s
    PROVE  /\ DOMAIN Controls(s) = DOMAIN NoRows
           /\ \A t \in DOMAIN NoRows : Controls(s)[t] = UNION {RowsOf(s[i])[t] : i \in DOMAIN s}
  BY DEF Controls

\* What an append inserts are the rows that the longer history has and the shorter
\* one has not.
LEMMA AddedIs ==
    ASSUME NEW s \in Seq(Record), NEW r \in Record
    PROVE  [t \in DOMAIN Controls(s) |-> Controls(s)[t] \cup Added(s, r)[t]]
              = Controls(Append(s, r))
  <1>1. ASSUME NEW t \in DOMAIN NoRows
        PROVE  Controls(s)[t] \subseteq Controls(Append(s, r))[t]
    <2> SUFFICES ASSUME NEW x \in Controls(s)[t] PROVE x \in Controls(Append(s, r))[t]
      OBVIOUS
    <2>1. PICK i \in DOMAIN s : x \in RowsOf(s[i])[t]
      BY ControlsOf
    <2>2. i \in DOMAIN Append(s, r) /\ Append(s, r)[i] = s[i]
      BY AppendFacts
    <2>3. Controls(Append(s, r))[t]
             = UNION {RowsOf(Append(s, r)[j])[t] : j \in DOMAIN Append(s, r)}
      BY ControlsOf
    <2>4. RowsOf(s[i])[t] \in {RowsOf(Append(s, r)[j])[t] : j \in DOMAIN Append(s, r)}
      BY <2>2
    <2> QED BY <2>1, <2>3, <2>4
  <1>2. ASSUME NEW t \in DOMAIN NoRows
        PROVE  Controls(s)[t] \cup Added(s, r)[t] = Controls(Append(s, r))[t]
    <2>1. Added(s, r)[t] = Controls(Append(s, r))[t] \ Controls(s)[t]
      BY DEF Added
    <2> QED BY <1>1, <2>1
  <1>3. Controls(Append(s, r)) = [t \in DOMAIN NoRows |-> Controls(Append(s, r))[t]]
    BY DEF Controls
  <1> QED BY <1>2, <1>3, ControlsOf

LEMMA NoControls == NoRows = Controls(<<>>) /\ Coherent(<<>>)
  <1>1. \A t \in DOMAIN NoRows : NoRows[t] = {}
    BY DEF NoRows
  <1>2. DOMAIN <<>> = {}
    OBVIOUS
  <1>3. \A t \in DOMAIN NoRows : Controls(<<>>)[t] = {}
    BY <1>2, ControlsOf
  <1>4. NoRows = [t \in DOMAIN NoRows |-> NoRows[t]]
    BY DEF NoRows
  <1>5. NoRows = Controls(<<>>)
    BY <1>1, <1>3, <1>4 DEF Controls
  <1>6. Controls(<<>>).materials = {} /\ Controls(<<>>).establishments = {}
    BY <1>5 DEF NoRows
  <1> QED BY <1>2, <1>5, <1>6 DEF Coherent

---------------------------------------------------------------------------
(* The invariant *)

DatabaseInv ==
    /\ History(log) /\ Coherent(log) /\ tables = Controls(log) /\ TrueWhenKept

\* What the handle remembers, and what an opening has read so far.
HandleInv ==
    /\ fenced => store = "fenced"
    /\ store \in {"live", "fenced"} /\ ~fenced /\ ~At("committed") /\ ~At("final") =>
          memory = PrefixOf(log)
    /\ store = "opening" =>
          /\ Len(memory.records) \in 0..Len(log)
          /\ memory = PrefixOf(SubSeq(log, 1, Len(memory.records)))

LateStages == {"planned"} \cup GuardedStages

\* What the callbacks have established so far.
CallInv ==
    call # None =>
        /\ store \in {"live", "fenced"} /\ ~fenced
        /\ Shows(call.checks.context, call.about)
        /\ call.kind # "read" =>
              /\ call.request \in Requests /\ call.about = call.request.id
              /\ call.checks.context.actor = call.request.actor
        /\ \A k \in Bound(call.checks.intakes) :
              /\ call.checks.intakes[k].case = CaseOf(Declared, k)
              /\ IntakeFits(memory, Declared, k, call.checks.intakes[k])
        /\ call.kind = "recover" =>
              \E r \in RecordsOf(memory.records, call.about) : r.request = call.request
        /\ call.kind = "submit" => call.stage # "bound"
        /\ call.kind # "submit" => call.stage \in {"contents", "bound"}
        /\ call.stage = "bound" => Named \subseteq Bound(call.checks.intakes)
        /\ call.stage \in LateStages =>
              /\ ValidCurrent(memory, call.request, call.checks)
              /\ Kernel(memory.records, call.request, call.checks) \in Effects

\* What holds while the guard is held.
GuardInv ==
    call # None /\ call.stage \in GuardedStages =>
        /\ store = "live" /\ told[call.request] = "asked"
        /\ Coherent(Append(memory.records, Proposed))
        /\ Revalidated(call.checks) /\ "intake" \in world.permits
        /\ memory \in Prefix /\ memory = PrefixOf(memory.records) /\ Sound(memory.records)
        /\ call.stage # "final" => attempt # None /\ attempt.record = Proposed
        /\ call.stage \in {"committed", "final"} => log = Append(memory.records, Proposed)

AttemptInv ==
    store = "live" /\ ~(call # None /\ call.stage \in {"locked", "declared", "committed"}) =>
        attempt = None

\* What callers were told, and what readers were shown.
ToldInv ==
    \A q \in Requests :
        /\ told[q] \in Effects => \E i \in DOMAIN log : log[i].request = q /\ log[i].effect = told[q]
        /\ told[q] = "absent" => ~InLog(q)

ShownInv == ReadsAreHistory /\ (answer # None => answer.at \in 0..Len(log))

CoordinatorInv ==
    /\ TypeOK /\ DatabaseInv /\ HandleInv /\ CallInv /\ GuardInv /\ AttemptInv /\ ToldInv /\ ShownInv

---------------------------------------------------------------------------
(* Facts about reachable states *)

LEMMA LogFacts ==
    ASSUME CoordinatorInv
    PROVE  /\ History(log) /\ Sound(log) /\ log \in Seq(Record) /\ Len(log) \in Nat
           /\ DOMAIN log = 1..Len(log) /\ \A i \in DOMAIN log : log[i] \in Record
  <1>1. History(log) /\ Sound(log) /\ log \in Seq(Record)
    BY DEF CoordinatorInv, DatabaseInv, History, Sound
  <1> QED BY <1>1

LEMMA WorldFacts ==
    ASSUME CoordinatorInv
    PROVE  /\ world \in Worlds /\ world.context \in Context /\ world.source \in [Contents -> Observation]
           /\ world.ground \in [Grounds -> Versions] /\ world.judgment \in SUBSET Contents
  BY CoordinatorAssumption DEF CoordinatorInv, TypeOK, WorldType

LEMMA CallFacts ==
    ASSUME CoordinatorInv, call # None
    PROVE  /\ call \in CallType /\ call.kind \in {"submit", "recover", "read"}
           /\ call.request \in Requests \cup {None} /\ call.about \in Ids \cup Contents
           /\ call.stage \in Stages /\ call.checks \in Checks
           /\ call.checks.intakes \in Partial(Contents, Snapshot)
           /\ call.checks.context \in Context
           /\ call.checks.grounds \in Partial(Grounds, Versions)
           /\ call.checks.judgment \in (SUBSET Contents) \cup {None}
  <1>1. call \in CallType
    BY DEF CoordinatorInv, TypeOK
  <1>2. call.checks \in Checks
    BY <1>1 DEF CallType
  <1>3. /\ call.kind \in {"submit", "recover", "read"}
        /\ call.request \in Requests \cup {None} /\ call.about \in Ids \cup Contents
        /\ call.stage \in Stages
    BY <1>1 DEF CallType
  <1> QED BY <1>1, <1>2, <1>3 DEF Checks

\* The memory of a handle whose call is not beyond its commit.
LEMMA MemoryFacts ==
    ASSUME CoordinatorInv, store \in {"live", "fenced"}, ~fenced, ~At("committed"), ~At("final")
    PROVE  memory = PrefixOf(log) /\ memory.records = log /\ memory \in Prefix
  <1>1. memory = PrefixOf(log)
    BY DEF CoordinatorInv, HandleInv
  <1>2. PrefixOf(log).records = log
    BY DEF PrefixOf
  <1> QED BY <1>1, <1>2, LogFacts, KnownFacts

\* Nothing the database or the answers say changes.
LEMMA DatabaseStays ==
    ASSUME CoordinatorInv, UNCHANGED << log, tables, kept >>
    PROVE  DatabaseInv'
  BY DEF CoordinatorInv, DatabaseInv, TrueWhenKept

LEMMA ToldStays ==
    ASSUME CoordinatorInv, UNCHANGED << log, told >>
    PROVE  ToldInv'
  BY DEF CoordinatorInv, ToldInv, InLog

LEMMA ShownStays ==
    ASSUME CoordinatorInv, UNCHANGED << log, answer >>
    PROVE  ShownInv'
  BY DEF CoordinatorInv, ShownInv, ReadsAreHistory

\* A step between two callbacks, before the guard.
LEMMA GatherStep ==
    ASSUME CoordinatorInv, UNCHANGED << world, database, handle, history, bounds >>,
           ~Guarded, call' \in CallType \cup {None}, call' # None => call'.stage \notin GuardedStages,
           CallInv'
    PROVE  CoordinatorInv'
  <1>1. UNCHANGED << world, log, tables, attempt, store, memory, fenced, told, answer, kept, moves, failures >>
    BY DEF database, handle, history, bounds
  <1>2. TypeOK'
    BY <1>1 DEF CoordinatorInv, TypeOK
  <1>3. DatabaseInv' /\ ToldInv' /\ ShownInv'
    BY <1>1, DatabaseStays, ToldStays, ShownStays
  <1>4. /\ ~At("locked") /\ ~At("declared") /\ ~At("committed") /\ ~At("final")
        /\ ~At("locked")' /\ ~At("declared")' /\ ~At("committed")' /\ ~At("final")'
    BY DEF Guarded, GuardedStages, At
  <1>5. HandleInv'
    BY <1>1, <1>4 DEF CoordinatorInv, HandleInv
  <1>6. GuardInv'
    BY DEF GuardInv
  <1>7. AttemptInv'
    BY <1>1, <1>4 DEF CoordinatorInv, AttemptInv, At
  <1> QED BY <1>2, <1>3, <1>5, <1>6, <1>7 DEF CoordinatorInv

---------------------------------------------------------------------------
(* The callbacks before the guard *)

LEMMA ServingFacts ==
    ASSUME CoordinatorInv, Serving
    PROVE  /\ store = "live" /\ ~fenced /\ call = None /\ attempt = None /\ ~Guarded
           /\ memory = PrefixOf(log) /\ memory.records = log /\ memory \in Prefix
  <1>1. store = "live" /\ call = None
    BY DEF Serving
  <1>2. ~fenced
    BY <1>1 DEF CoordinatorInv, HandleInv
  <1>3. ~At("committed") /\ ~At("final") /\ ~Guarded
    BY <1>1 DEF At, Guarded
  <1>4. attempt = None
    BY <1>1 DEF CoordinatorInv, AttemptInv
  <1> QED BY <1>1, <1>2, <1>3, <1>4, MemoryFacts

LEMMA NewChecksFacts ==
    ASSUME CoordinatorInv, Serving
    PROVE  /\ NewChecks \in Checks /\ NewChecks.context = world.context
           /\ Bound(NewChecks.intakes) = {}
  <1>1. memory.last \in Ids \cup {None}
    BY ServingFacts DEF Prefix
  <1>2. Empty(Contents) \in Partial(Contents, Snapshot) /\ Empty(Grounds) \in Partial(Grounds, Versions)
    BY DEF Empty, Partial
  <1>3. NewChecks \in Checks
    BY <1>1, <1>2, WorldFacts DEF NewChecks, Checks
  <1> QED BY <1>3 DEF NewChecks, Bound, Empty

\* A new call starts with nothing bound.
LEMMA BeginStep ==
    ASSUME CoordinatorInv, Serving, NEW c \in CallType, call' = c, c.stage = "contents",
           c.checks = NewChecks, Shows(world.context, c.about),
           c.kind # "read" => /\ c.request \in Requests /\ c.about = c.request.id
                              /\ world.context.actor = c.request.actor,
           c.kind = "recover" => \E r \in RecordsOf(memory.records, c.about) : r.request = c.request,
           UNCHANGED << world, database, handle, history, bounds >>
    PROVE  CoordinatorInv'
  <1>1. store' = "live" /\ fenced' = FALSE /\ memory' = memory
    BY ServingFacts DEF handle, CoordinatorInv, TypeOK
  <1>2. CallInv'
    BY <1>1, NewChecksFacts DEF CallInv, LateStages, GuardedStages
  <1> QED BY <1>2, ServingFacts, GatherStep DEF GuardedStages

LEMMA BeginKeeps ==
    ASSUME CoordinatorInv,
           \/ \E q \in Requests : BeginSubmit(q) \/ BeginRecover(q)
           \/ \E about \in Ids \cup Contents : BeginRead(about)
    PROVE  CoordinatorInv'
  <1>1. ASSUME NEW q \in Requests, BeginSubmit(q)
        PROVE  CoordinatorInv'
    <2>1. PICK c : c = [kind |-> "submit", request |-> q, about |-> q.id,
                        stage |-> "contents", checks |-> NewChecks]
      OBVIOUS
    <2>2. Serving /\ call' = c /\ UNCHANGED << world, database, handle, history, bounds >>
      BY <1>1, <2>1 DEF BeginSubmit
    <2>3. q.id \in Ids
      BY CoordinatorAssumption DEF Request
    <2>4. c \in CallType /\ c.stage = "contents" /\ c.checks = NewChecks /\ c.about = q.id
          /\ c.request = q /\ c.kind = "submit"
      BY <2>1, <2>2, <2>3, NewChecksFacts DEF CallType, Stages
    <2>5. Shows(world.context, q.id) /\ world.context.actor = q.actor
      BY <1>1 DEF BeginSubmit, Admitted
    <2> QED BY <2>2, <2>4, <2>5, BeginStep
  <1>2. ASSUME NEW q \in Requests, BeginRecover(q)
        PROVE  CoordinatorInv'
    <2>1. PICK c : c = [kind |-> "recover", request |-> q, about |-> q.id,
                        stage |-> "contents", checks |-> NewChecks]
      OBVIOUS
    <2>2. Serving /\ call' = c /\ UNCHANGED << world, database, handle, history, bounds >>
      BY <1>2, <2>1 DEF BeginRecover
    <2>3. q.id \in Ids
      BY CoordinatorAssumption DEF Request
    <2>4. c \in CallType /\ c.stage = "contents" /\ c.checks = NewChecks /\ c.about = q.id
          /\ c.request = q /\ c.kind = "recover"
      BY <2>1, <2>2, <2>3, NewChecksFacts DEF CallType, Stages
    <2>5. Shows(world.context, q.id) /\ world.context.actor = q.actor
      BY <1>2 DEF BeginRecover, Admitted
    <2>6. \E r \in RecordsOf(memory.records, q.id) : r.request = q
      BY <1>2 DEF BeginRecover, SameRequest
    <2> QED BY <2>2, <2>4, <2>5, <2>6, BeginStep
  <1>3. ASSUME NEW about \in Ids \cup Contents, BeginRead(about)
        PROVE  CoordinatorInv'
    <2>1. PICK c : c = [kind |-> "read", request |-> None, about |-> about,
                        stage |-> "contents", checks |-> NewChecks]
      OBVIOUS
    <2>2. Serving /\ call' = c /\ UNCHANGED << world, database, handle, history, bounds >>
      BY <1>3, <2>1 DEF BeginRead
    <2>3. c \in CallType /\ c.stage = "contents" /\ c.checks = NewChecks /\ c.about = about
          /\ c.kind = "read"
      BY <2>1, <2>2, NewChecksFacts DEF CallType, Stages
    <2>4. Shows(world.context, about)
      BY <1>3 DEF BeginRead
    <2> QED BY <2>2, <2>3, <2>4, BeginStep
  <1> QED BY <1>1, <1>2, <1>3

\* A call before the guard finds the memory that the log makes.
LEMMA EarlyFacts ==
    ASSUME CoordinatorInv, call # None, call.stage \notin GuardedStages
    PROVE  /\ ~Guarded /\ store \in {"live", "fenced"} /\ ~fenced
           /\ memory = PrefixOf(log) /\ memory.records = log /\ memory \in Prefix
  <1>1. ~Guarded /\ ~At("committed") /\ ~At("final")
    BY DEF Guarded, At, GuardedStages
  <1>2. store \in {"live", "fenced"} /\ ~fenced
    BY DEF CoordinatorInv, CallInv
  <1> QED BY <1>1, <1>2, MemoryFacts

\* A step of a call that binds nothing and stays before the guard.
LEMMA AdvanceStep ==
    ASSUME CoordinatorInv, call # None, call.stage \notin GuardedStages,
           NEW c \in CallType, call' = c, c.kind = call.kind, c.request = call.request,
           c.about = call.about, c.stage \notin GuardedStages,
           c.checks.context = call.checks.context, c.checks.intakes = call.checks.intakes,
           c.kind = "submit" => c.stage # "bound",
           c.kind # "submit" => c.stage \in {"contents", "bound"},
           c.stage = "bound" => Named \subseteq Bound(call.checks.intakes),
           c.stage = "planned" =>
              /\ ValidCurrent(memory, c.request, c.checks)
              /\ Kernel(memory.records, c.request, c.checks) \in Effects,
           UNCHANGED << world, database, handle, history, bounds >>
    PROVE  CoordinatorInv'
  <1>1. store' = store /\ fenced' = fenced /\ memory' = memory
    BY DEF handle
  <1>2. Declared' = Declared
    BY DEF Declared
  <1>3. Named' = Named
    BY <1>1 DEF Named
  <1>4. CallInv'
    <2>1. /\ store \in {"live", "fenced"} /\ ~fenced /\ Shows(call.checks.context, call.about)
          /\ call.kind # "read" =>
                /\ call.request \in Requests /\ call.about = call.request.id
                /\ call.checks.context.actor = call.request.actor
          /\ \A k \in Bound(call.checks.intakes) :
                /\ call.checks.intakes[k].case = CaseOf(Declared, k)
                /\ IntakeFits(memory, Declared, k, call.checks.intakes[k])
          /\ call.kind = "recover" =>
                \E r \in RecordsOf(memory.records, call.about) : r.request = call.request
      BY DEF CoordinatorInv, CallInv
    <2> QED BY <1>1, <1>2, <1>3, <2>1 DEF CallInv, LateStages
  <1> QED BY <1>4, EarlyFacts, GatherStep

LEMMA RefuseKeeps ==
    ASSUME CoordinatorInv, Refuse
    PROVE  CoordinatorInv'
  <1>1. call' = None /\ call # None /\ call.stage \notin GuardedStages
        /\ UNCHANGED << world, database, handle, history, bounds >>
    BY DEF Refuse, At, GuardedStages
  <1>2. CallInv'
    BY <1>1 DEF CallInv
  <1> QED BY <1>1, <1>2, EarlyFacts, GatherStep

LEMMA ContentsBoundKeeps ==
    ASSUME CoordinatorInv, ContentsBound
    PROVE  CoordinatorInv'
  <1>1. call # None /\ call.stage = "contents" /\ Missing = {}
        /\ UNCHANGED << world, database, handle, history, bounds >>
    BY DEF ContentsBound, At
  <1>2. PICK c : c = [call EXCEPT !.stage = IF call.kind = "submit" THEN "grounds" ELSE "bound"]
    OBVIOUS
  <1>3. call' = c
    BY <1>2 DEF ContentsBound
  <1>4. /\ c \in CallType /\ c.kind = call.kind /\ c.request = call.request /\ c.about = call.about
        /\ c.checks = call.checks
        /\ c.stage = IF call.kind = "submit" THEN "grounds" ELSE "bound"
    BY <1>1, <1>2, CallFacts DEF CallType, Stages
  <1>5. Named \subseteq Bound(call.checks.intakes)
    BY <1>1 DEF Missing, At
  <1> QED BY <1>1, <1>3, <1>4, <1>5, AdvanceStep DEF GuardedStages

LEMMA ReadGroundKeeps ==
    ASSUME CoordinatorInv, NEW g \in Grounds, ReadGround(g)
    PROVE  CoordinatorInv'
  <1>1. call # None /\ call.stage = "grounds"
        /\ UNCHANGED << world, database, handle, history, bounds >>
    BY DEF ReadGround, At
  <1>2. PICK G : G = [call.checks.grounds EXCEPT ![g] = world.ground[g]]
    OBVIOUS
  <1>3. PICK k : k = [call.checks EXCEPT !.grounds = G]
    OBVIOUS
  <1>4. PICK c : c = [call EXCEPT !.checks = k]
    OBVIOUS
  <1>5. call' = c
    BY <1>2, <1>3, <1>4 DEF ReadGround
  <1>6. G \in Partial(Grounds, Versions)
    BY <1>1, <1>2, CallFacts, WorldFacts DEF Partial
  <1>7. k \in Checks /\ k.context = call.checks.context /\ k.intakes = call.checks.intakes
    BY <1>1, <1>3, <1>6, CallFacts DEF Checks
  <1>8. /\ c \in CallType /\ c.kind = call.kind /\ c.request = call.request /\ c.about = call.about
        /\ c.checks = k /\ c.stage = "grounds"
    BY <1>1, <1>4, <1>7, CallFacts DEF CallType
  <1>9. call.kind = "submit"
    BY <1>1 DEF CoordinatorInv, CallInv
  <1> QED BY <1>1, <1>5, <1>7, <1>8, <1>9, AdvanceStep DEF GuardedStages

LEMMA JudgeKeeps ==
    ASSUME CoordinatorInv, Judge
    PROVE  CoordinatorInv'
  <1>1. call # None /\ call.stage = "grounds"
        /\ UNCHANGED << world, database, handle, history, bounds >>
    BY DEF Judge, At
  <1>2. PICK j : j = IF call.request.judged THEN world.judgment ELSE None
    OBVIOUS
  <1>3. PICK k : k = [call.checks EXCEPT !.judgment = j]
    OBVIOUS
  <1>4. PICK c : c = [call EXCEPT !.checks = k, !.stage = "evidence"]
    OBVIOUS
  <1>5. call' = c
    BY <1>2, <1>3, <1>4 DEF Judge
  <1>6. j \in (SUBSET Contents) \cup {None}
    BY <1>2, WorldFacts
  <1>7. k \in Checks /\ k.context = call.checks.context /\ k.intakes = call.checks.intakes
    BY <1>1, <1>3, <1>6, CallFacts DEF Checks
  <1>8. /\ c \in CallType /\ c.kind = call.kind /\ c.request = call.request /\ c.about = call.about
        /\ c.checks = k /\ c.stage = "evidence"
    BY <1>1, <1>4, <1>7, CallFacts DEF CallType, Stages
  <1>9. call.kind = "submit"
    BY <1>1 DEF CoordinatorInv, CallInv
  <1> QED BY <1>1, <1>5, <1>7, <1>8, <1>9, AdvanceStep DEF GuardedStages

LEMMA PlanKeeps ==
    ASSUME CoordinatorInv, Plan
    PROVE  CoordinatorInv'
  <1>1. call # None /\ call.stage = "evidence"
        /\ UNCHANGED << world, database, handle, history, bounds >>
    BY DEF Plan, At
  <1>2. PICK c : c = [call EXCEPT !.stage = "planned"]
    OBVIOUS
  <1>3. call' = c
    BY <1>2 DEF Plan
  <1>4. /\ c \in CallType /\ c.kind = call.kind /\ c.request = call.request /\ c.about = call.about
        /\ c.checks = call.checks /\ c.stage = "planned"
    BY <1>1, <1>2, CallFacts DEF CallType, Stages
  <1>5. call.kind = "submit"
    BY <1>1 DEF CoordinatorInv, CallInv
  <1>6. /\ ValidCurrent(memory, call.request, call.checks)
        /\ Kernel(memory.records, call.request, call.checks) \in Effects
    BY DEF Plan
  <1> QED BY <1>1, <1>3, <1>4, <1>5, <1>6, AdvanceStep DEF GuardedStages

LEMMA ResolveContentKeeps ==
    ASSUME CoordinatorInv, NEW k \in Contents, ResolveContent(k)
    PROVE  CoordinatorInv'
  <1>1. call # None /\ call.stage \in {"contents", "evidence"}
        /\ UNCHANGED << world, database, handle, history, bounds >>
    BY DEF ResolveContent, At
  <1>2. PICK s : s = SnapshotOf(memory, Declared, k, world.source[k])
    OBVIOUS
  <1>3. PICK I : I = [call.checks.intakes EXCEPT ![k] = s]
    OBVIOUS
  <1>4. PICK h : h = [call.checks EXCEPT !.intakes = I]
    OBVIOUS
  <1>5. PICK c : c = [call EXCEPT !.checks = h]
    OBVIOUS
  <1>6. call' = c /\ IntakeFits(memory, Declared, k, s)
    BY <1>2, <1>3, <1>4, <1>5 DEF ResolveContent
  <1>7. memory \in Prefix /\ call.stage \notin GuardedStages /\ call.stage \notin LateStages
    BY <1>1, EarlyFacts DEF GuardedStages, LateStages
  <1>8. s \in Snapshot /\ s.case = CaseOf(Declared, k)
    <2>1. memory.established \in Partial(Contents, Establishment)
      BY <1>7 DEF Prefix
    <2>2. k \in Bound(memory.established) => memory.established[k].operation \in Ids
      BY <2>1 DEF Bound, Partial, Establishment
    <2>3. CaseOf(Declared, k) \in Cases
      BY DEF CaseOf, Cases
    <2>4. world.source[k] \in Observation
      BY WorldFacts
    <2> QED BY <1>2, <2>2, <2>3, <2>4 DEF SnapshotOf, Snapshot
  <1>9. /\ I \in Partial(Contents, Snapshot) /\ I[k] = s
        /\ \A x \in Bound(I) : x = k \/ (x \in Bound(call.checks.intakes) /\ I[x] = call.checks.intakes[x])
    BY <1>1, <1>3, <1>8, CallFacts DEF Partial, Bound
  <1>10. h \in Checks /\ h.context = call.checks.context /\ h.intakes = I
    BY <1>1, <1>4, <1>9, CallFacts DEF Checks
  <1>11. /\ c \in CallType /\ c.kind = call.kind /\ c.request = call.request /\ c.about = call.about
         /\ c.checks = h /\ c.stage = call.stage
    BY <1>1, <1>5, <1>10, CallFacts DEF CallType
  <1>12. store' = store /\ fenced' = fenced /\ memory' = memory
    BY <1>1 DEF handle
  <1>13. Declared' = Declared
    BY <1>6, <1>11 DEF Declared
  <1>14. CallInv'
    <2>1. /\ store \in {"live", "fenced"} /\ ~fenced /\ Shows(call.checks.context, call.about)
          /\ call.kind # "read" =>
                /\ call.request \in Requests /\ call.about = call.request.id
                /\ call.checks.context.actor = call.request.actor
          /\ \A x \in Bound(call.checks.intakes) :
                /\ call.checks.intakes[x].case = CaseOf(Declared, x)
                /\ IntakeFits(memory, Declared, x, call.checks.intakes[x])
          /\ call.kind = "recover" =>
                \E r \in RecordsOf(memory.records, call.about) : r.request = call.request
          /\ call.kind # "submit" => call.stage \in {"contents", "bound"}
      BY <1>1 DEF CoordinatorInv, CallInv
    <2>2. \A x \in Bound(I) : I[x].case = CaseOf(Declared, x) /\ IntakeFits(memory, Declared, x, I[x])
      BY <1>6, <1>8, <1>9, <2>1
    <2>3. c.stage # "bound" /\ c.stage \notin LateStages
      BY <1>1, <1>7, <1>11
    <2> QED BY <1>6, <1>10, <1>11, <1>12, <1>13, <2>1, <2>2, <2>3 DEF CallInv
  <1> QED BY <1>1, <1>6, <1>7, <1>11, <1>14, EarlyFacts, GatherStep

---------------------------------------------------------------------------
(* The guarded cut *)

\* What a call that is planned or under the guard proposes.
LEMMA LateFacts ==
    ASSUME CoordinatorInv, call # None, call.stage \in LateStages
    PROVE  /\ call.kind = "submit" /\ call.request \in Requests /\ call.request \in Request
           /\ memory \in Prefix /\ memory = PrefixOf(memory.records) /\ Sound(memory.records)
           /\ Proposed \in Record /\ Proposed.request = call.request
           /\ Proposed.checks = call.checks /\ Proposed.effect \in Effects
           /\ Interprets(memory, Proposed)
           /\ \A i \in DOMAIN memory.records : memory.records[i].request.id # call.request.id
  <1>1. call.kind = "submit"
    BY CallFacts DEF CoordinatorInv, CallInv, LateStages, GuardedStages
  <1>2. /\ call.request \in Requests /\ call.checks.context.actor = call.request.actor
        /\ ValidCurrent(memory, call.request, call.checks)
        /\ Kernel(memory.records, call.request, call.checks) \in Effects
    BY <1>1 DEF CoordinatorInv, CallInv
  <1>3. memory \in Prefix /\ memory = PrefixOf(memory.records) /\ Sound(memory.records)
    <2>1. CASE call.stage \in GuardedStages
      BY <2>1 DEF CoordinatorInv, GuardInv
    <2>2. CASE call.stage \notin GuardedStages
      BY <2>2, EarlyFacts, LogFacts
    <2> QED BY <2>1, <2>2
  <1>4. call.request \in Request /\ call.checks \in Checks
    BY <1>2, CallFacts, CoordinatorAssumption
  <1>5. memory.records \in Seq(Record)
    BY <1>3 DEF Sound
  <1>6. Len(memory.records) + 1 \in Nat \ {0}
    BY <1>5
  <1>7. Proposed \in Record
    BY <1>2, <1>4, <1>6 DEF Proposed, NewRecord, Record
  <1>8. /\ Proposed.request = call.request /\ Proposed.checks = call.checks
        /\ Proposed.effect = Kernel(memory.records, call.request, call.checks)
        /\ Proposed.sequence = Len(memory.records) + 1
    BY DEF Proposed, NewRecord
  <1>9. Interprets(memory, Proposed)
    BY <1>2, <1>8 DEF Interprets
  <1>10. ~Knows(memory, call.request.id)
    BY <1>2 DEF ValidCurrent
  <1>11. \A i \in DOMAIN memory.records : memory.records[i].request.id # call.request.id
    BY <1>3, <1>10, KnowsIs
  <1> QED BY <1>1, <1>2, <1>3, <1>4, <1>7, <1>8, <1>9, <1>11

\* A call that only goes on to another stage keeps what it has established.
LEMMA LateCallStays ==
    ASSUME CoordinatorInv, call # None, call.stage \in LateStages, NEW c \in CallType, call' = c,
           c.kind = call.kind, c.request = call.request, c.about = call.about,
           c.checks = call.checks, c.stage \in LateStages, UNCHANGED handle
    PROVE  CallInv'
  <1>1. store' = store /\ fenced' = fenced /\ memory' = memory
    BY DEF handle
  <1>2. Declared' = Declared
    BY DEF Declared
  <1>3. call.kind = "submit"
    BY LateFacts
  <1>4. c.stage # "bound"
    BY DEF LateStages, GuardedStages
  <1> QED BY <1>1, <1>2, <1>3, <1>4 DEF CoordinatorInv, CallInv

LEMMA LockKeeps ==
    ASSUME CoordinatorInv, Lock
    PROVE  CoordinatorInv'
  <1>1. /\ call # None /\ call.stage = "planned" /\ store = "live"
        /\ Coherent(Append(memory.records, Proposed))
        /\ Revalidated(call.checks) /\ "intake" \in world.permits
        /\ attempt' = [record |-> Proposed, declared |-> FALSE]
        /\ told' = [told EXCEPT ![call.request] = "asked"]
        /\ UNCHANGED << world, log, tables, handle, answer, kept, bounds >>
    BY DEF Lock, At
  <1>2. PICK c : c = [call EXCEPT !.stage = "locked"]
    OBVIOUS
  <1>3. call' = c
    BY <1>2 DEF Lock
  <1>4. /\ c \in CallType /\ c.kind = call.kind /\ c.request = call.request /\ c.about = call.about
        /\ c.checks = call.checks /\ c.stage = "locked"
    BY <1>1, <1>2, CallFacts DEF CallType, Stages, GuardedStages
  <1>5. call.stage \in LateStages /\ c.stage \in LateStages /\ c.stage \in GuardedStages
    BY <1>1, <1>4 DEF LateStages, GuardedStages
  <1>6. c # None
    BY <1>4, CoordinatorAssumption
  <1>7. store' = store /\ fenced' = fenced /\ memory' = memory /\ moves' = moves /\ failures' = failures
    BY <1>1 DEF handle, bounds
  <1>8. call.request \in Requests /\ Proposed \in Record
    BY <1>1, <1>5, LateFacts
  <1>9. Proposed' = Proposed
    BY <1>3, <1>4, <1>7 DEF Proposed
  <1>10. told' \in [Requests -> Told] /\ told'[call.request] = "asked"
         /\ \A q \in Requests : q # call.request => told'[q] = told[q]
    BY <1>1, <1>8 DEF CoordinatorInv, TypeOK, Told
  <1>11. attempt' \in AttemptType /\ attempt'.record = Proposed /\ attempt' # None
    <2>1. attempt' \in AttemptType
      BY <1>1, <1>8 DEF AttemptType
    <2> QED BY <1>1, <2>1, CoordinatorAssumption
  <1>12. TypeOK'
    BY <1>1, <1>3, <1>4, <1>7, <1>10, <1>11 DEF CoordinatorInv, TypeOK
  <1>13. DatabaseInv' /\ ShownInv'
    BY <1>1, DatabaseStays, ShownStays
  <1>14. HandleInv'
    BY <1>1, <1>7 DEF CoordinatorInv, HandleInv, At
  <1>15. CallInv'
    BY <1>1, <1>3, <1>4, <1>5, LateCallStays
  <1>16. GuardInv'
    <2>1. Revalidated(call.checks)'
      BY <1>1, <1>3, <1>4 DEF Revalidated
    <2> QED BY <1>1, <1>3, <1>4, <1>5, <1>7, <1>9, <1>10, <1>11, <2>1, LateFacts DEF GuardInv
  <1>17. AttemptInv'
    BY <1>3, <1>4, <1>6 DEF AttemptInv
  <1>18. ToldInv'
    <2>1. told'[call.request] \notin Effects /\ told'[call.request] # "absent"
      BY <1>10, CoordinatorAssumption
    <2> QED BY <1>1, <1>10, <2>1 DEF CoordinatorInv, ToldInv, InLog
  <1> QED BY <1>12, <1>13, <1>14, <1>15, <1>16, <1>17, <1>18 DEF CoordinatorInv

LEMMA DeclareKeeps ==
    ASSUME CoordinatorInv, Declare
    PROVE  CoordinatorInv'
  <1>1. /\ call # None /\ call.stage = "locked" /\ UNCHANGED << world, log, tables, handle, history, bounds >>
        /\ attempt' = [attempt EXCEPT !.declared = TRUE]
    BY DEF Declare, At
  <1>2. PICK c : c = [call EXCEPT !.stage = "declared"]
    OBVIOUS
  <1>3. call' = c
    BY <1>2 DEF Declare
  <1>4. /\ c \in CallType /\ c.kind = call.kind /\ c.request = call.request /\ c.about = call.about
        /\ c.checks = call.checks /\ c.stage = "declared"
    BY <1>1, <1>2, CallFacts DEF CallType, Stages
  <1>5. call.stage \in LateStages /\ c.stage \in LateStages /\ c.stage \in GuardedStages
        /\ call.stage \in GuardedStages
    BY <1>1, <1>4 DEF LateStages, GuardedStages
  <1>6. c # None
    BY <1>4, CoordinatorAssumption
  <1>7. /\ store' = store /\ fenced' = fenced /\ memory' = memory /\ moves' = moves
        /\ failures' = failures /\ told' = told /\ answer' = answer /\ kept' = kept
    BY <1>1 DEF handle, bounds, history
  <1>8. Proposed' = Proposed
    BY <1>3, <1>4, <1>7 DEF Proposed
  <1>9. attempt \in AttemptType /\ attempt.record = Proposed
    BY <1>1, <1>5 DEF CoordinatorInv, TypeOK, GuardInv
  <1>10. attempt' \in AttemptType /\ attempt'.record = Proposed
    BY <1>1, <1>9 DEF AttemptType
  <1>11. attempt' # None
    BY <1>10, CoordinatorAssumption
  <1>12. TypeOK'
    BY <1>1, <1>3, <1>4, <1>7, <1>10 DEF CoordinatorInv, TypeOK
  <1>13. DatabaseInv' /\ ShownInv' /\ ToldInv'
    BY <1>1, <1>7, DatabaseStays, ShownStays, ToldStays
  <1>14. HandleInv'
    BY <1>1, <1>7 DEF CoordinatorInv, HandleInv, At
  <1>15. CallInv'
    BY <1>1, <1>3, <1>4, <1>5, LateCallStays
  <1>16. GuardInv'
    <2>1. Revalidated(call.checks)'
      BY <1>1, <1>3, <1>4, <1>5 DEF Revalidated, CoordinatorInv, GuardInv
    <2> QED BY <1>1, <1>3, <1>4, <1>5, <1>7, <1>8, <1>10, <1>11, <2>1 DEF CoordinatorInv, GuardInv
  <1>17. AttemptInv'
    BY <1>3, <1>4, <1>6 DEF AttemptInv
  <1> QED BY <1>12, <1>13, <1>14, <1>15, <1>16, <1>17 DEF CoordinatorInv

LEMMA CommitKeeps ==
    ASSUME CoordinatorInv, Commit
    PROVE  CoordinatorInv'
  <1>1. /\ call # None /\ call.stage = "declared" /\ UNCHANGED << world, attempt, handle, told, answer, bounds >>
        /\ log' = Append(log, attempt.record) /\ kept' = Append(kept, world)
        /\ tables' = [t \in DOMAIN tables |->
                         tables[t] \cup Added(memory.records, attempt.record)[t]]
    BY DEF Commit, At
  <1>2. PICK c : c = [call EXCEPT !.stage = "committed"]
    OBVIOUS
  <1>3. call' = c
    BY <1>2 DEF Commit
  <1>4. /\ c \in CallType /\ c.kind = call.kind /\ c.request = call.request /\ c.about = call.about
        /\ c.checks = call.checks /\ c.stage = "committed"
    BY <1>1, <1>2, CallFacts DEF CallType, Stages
  <1>5. call.stage \in LateStages /\ c.stage \in LateStages /\ c.stage \in GuardedStages
        /\ call.stage \in GuardedStages
    BY <1>1, <1>4 DEF LateStages, GuardedStages
  <1>6. c # None
    BY <1>4, CoordinatorAssumption
  <1>7. /\ store' = store /\ fenced' = fenced /\ memory' = memory /\ moves' = moves
        /\ failures' = failures
    BY <1>1 DEF handle, bounds
  <1>8. Proposed' = Proposed
    BY <1>3, <1>4, <1>7 DEF Proposed
  <1>9. attempt # None /\ attempt.record = Proposed /\ store = "live"
        /\ told[call.request] = "asked" /\ Coherent(Append(memory.records, Proposed))
        /\ Revalidated(call.checks) /\ "intake" \in world.permits
    BY <1>1, <1>5 DEF CoordinatorInv, GuardInv
  <1>10. memory = PrefixOf(log) /\ memory.records = log
    <2>1. ~At("committed") /\ ~At("final") /\ ~fenced
      BY <1>1 DEF At, CoordinatorInv, CallInv
    <2> QED BY <1>9, <2>1, MemoryFacts
  <1>11. /\ Proposed \in Record /\ Proposed.request = call.request /\ Proposed.checks = call.checks
         /\ Interprets(memory, Proposed) /\ call.request \in Requests
    BY <1>1, <1>5, LateFacts
  <1> DEFINE n == Len(log) + 1
  <1>12. /\ log' \in Seq(Record) /\ Len(log) \in Nat /\ Len(log') = n /\ DOMAIN log' = 1..n
         /\ DOMAIN log = 1..Len(log)
         /\ \A i \in DOMAIN log : i \in DOMAIN log' /\ i <= Len(log) /\ log'[i] = log[i]
         /\ log'[n] = Proposed /\ n \in DOMAIN log' /\ \A i \in DOMAIN log' : i \in DOMAIN log \/ i = n
    BY <1>1, <1>9, <1>11, LogFacts, AppendFacts
  <1>13. /\ kept' \in Seq(Worlds) /\ Len(kept') = n /\ kept'[n] = world
         /\ \A i \in DOMAIN log : kept'[i] = kept[i]
    <2>1. kept \in Seq(Worlds) /\ Len(kept) = Len(log) /\ world \in Worlds
      BY DEF CoordinatorInv, TypeOK
    <2> QED BY ONLY <1>1, <1>12, <2>1
  <1> HIDE DEF n
  <1>14. TypeOK'
    BY <1>1, <1>3, <1>4, <1>7, <1>12, <1>13 DEF CoordinatorInv, TypeOK
  <1>15. DatabaseInv'
    <2>1. History(log')
      BY <1>1, <1>9, <1>10, <1>11, LogFacts, AppendHistory
    <2>2. Coherent(log')
      BY <1>1, <1>9, <1>10
    <2>3. tables = Controls(log)
      BY DEF CoordinatorInv, DatabaseInv
    <2>4. tables' = Controls(log')
      BY <1>1, <1>9, <1>10, <1>11, <2>3, LogFacts, AddedIs
    <2>5. /\ world.context = call.checks.context
          /\ \A k \in Bound(call.checks.intakes) : world.source[k] = call.checks.intakes[k].claim
          /\ \A g \in Bound(call.checks.grounds) : world.ground[g] = call.checks.grounds[g]
          /\ call.checks.judgment # None => world.judgment = call.checks.judgment
          /\ {"intake", "disclose"} \subseteq world.permits
      BY <1>9 DEF Revalidated
    <2>6. call.checks.context.actor = call.request.actor
      BY <1>11 DEF Interprets
    <2>7. ASSUME NEW i \in DOMAIN log'
          PROVE  /\ kept'[i].context = log'[i].checks.context
                 /\ log'[i].checks.context.actor = log'[i].request.actor
                 /\ \A k \in Bound(log'[i].checks.intakes) : kept'[i].source[k] = log'[i].checks.intakes[k].claim
                 /\ \A g \in Bound(log'[i].checks.grounds) : kept'[i].ground[g] = log'[i].checks.grounds[g]
                 /\ log'[i].checks.judgment # None => kept'[i].judgment = log'[i].checks.judgment
                 /\ {"intake", "disclose"} \subseteq kept'[i].permits
      <3>1. CASE i \in DOMAIN log
        <4>1. log'[i] = log[i] /\ kept'[i] = kept[i]
          BY <1>12, <1>13, <3>1
        <4> QED BY <3>1, <4>1 DEF CoordinatorInv, DatabaseInv, TrueWhenKept
      <3>2. CASE i = n
        BY <1>11, <1>12, <1>13, <2>5, <2>6, <3>2
      <3> QED BY <1>12, <3>1, <3>2
    <2>8. TrueWhenKept'
      BY <2>7 DEF TrueWhenKept
    <2> QED BY <2>1, <2>2, <2>4, <2>8 DEF DatabaseInv
  <1>16. HandleInv'
    BY <1>3, <1>4, <1>6, <1>7, <1>9 DEF CoordinatorInv, HandleInv, At
  <1>17. CallInv'
    BY <1>1, <1>3, <1>4, <1>5, LateCallStays
  <1>18. GuardInv'
    <2>1. Revalidated(call.checks)'
      BY <1>1, <1>3, <1>4, <1>9 DEF Revalidated
    <2>2. log' = Append(memory.records, Proposed)
      BY <1>1, <1>9, <1>10
    <2> QED BY <1>1, <1>3, <1>4, <1>5, <1>7, <1>8, <1>9, <2>1, <2>2 DEF CoordinatorInv, GuardInv
  <1>19. AttemptInv'
    BY <1>3, <1>4, <1>6 DEF AttemptInv
  <1>20. ToldInv'
    <2> SUFFICES ASSUME NEW q \in Requests
                 PROVE  /\ told'[q] \in Effects =>
                              \E i \in DOMAIN log' : log'[i].request = q /\ log'[i].effect = told'[q]
                        /\ told'[q] = "absent" => \A i \in DOMAIN log' : log'[i].request # q
      BY DEF ToldInv, InLog
    <2>1. told'[q] = told[q]
      BY <1>1
    <2>2. told[q] \in Effects => \E i \in DOMAIN log : log[i].request = q /\ log[i].effect = told[q]
      BY DEF CoordinatorInv, ToldInv
    <2>3. told[q] = "absent" => \A i \in DOMAIN log : log[i].request # q
      BY DEF CoordinatorInv, ToldInv, InLog
    <2>4. told[q] = "absent" => q # call.request
      BY <1>9
    <2> QED BY <1>11, <1>12, <2>1, <2>2, <2>3, <2>4
  <1>21. ShownInv'
    <2>1. answer' = answer
      BY <1>1
    <2>2. answer # None =>
            /\ answer.at \in 0..Len(log)
            /\ IF answer.about \in Contents
                 THEN \E i \in DOMAIN log :
                        /\ answer.about \in Bound(log[i].checks.intakes)
                        /\ BytesIn(log[i].checks.intakes, answer.about) = answer.value
               ELSE IF answer.value = "absent"
                 THEN \A i \in 1..answer.at : log[i].request.id # answer.about
               ELSE \E i \in DOMAIN log :
                      log[i].request.id = answer.about /\ log[i].effect = answer.value
      BY DEF CoordinatorInv, ShownInv, ReadsAreHistory
    <2>3. answer # None => answer.at \in 0..n /\ \A i \in 1..answer.at : i \in DOMAIN log
      BY <1>12, <2>2 DEF n
    <2>4. ReadsAreHistory'
      BY <1>12, <2>1, <2>2, <2>3 DEF ReadsAreHistory
    <2> QED BY <1>12, <2>1, <2>3, <2>4 DEF ShownInv
  <1> QED BY <1>14, <1>15, <1>16, <1>17, <1>18, <1>19, <1>20, <1>21 DEF CoordinatorInv

LEMMA FinalizeKeeps ==
    ASSUME CoordinatorInv, Finalize
    PROVE  CoordinatorInv'
  <1>1. /\ call # None /\ call.stage = "committed" /\ attempt' = None
        /\ UNCHANGED << world, log, tables, handle, history, bounds >>
    BY DEF Finalize, At
  <1>2. PICK c : c = [call EXCEPT !.stage = "final"]
    OBVIOUS
  <1>3. call' = c
    BY <1>2 DEF Finalize
  <1>4. /\ c \in CallType /\ c.kind = call.kind /\ c.request = call.request /\ c.about = call.about
        /\ c.checks = call.checks /\ c.stage = "final"
    BY <1>1, <1>2, CallFacts DEF CallType, Stages
  <1>5. call.stage \in LateStages /\ c.stage \in LateStages /\ c.stage \in GuardedStages
        /\ call.stage \in GuardedStages
    BY <1>1, <1>4 DEF LateStages, GuardedStages
  <1>6. c # None
    BY <1>4, CoordinatorAssumption
  <1>7. /\ store' = store /\ fenced' = fenced /\ memory' = memory /\ moves' = moves
        /\ failures' = failures /\ told' = told /\ answer' = answer /\ kept' = kept
    BY <1>1 DEF handle, bounds, history
  <1>8. Proposed' = Proposed
    BY <1>3, <1>4, <1>7 DEF Proposed
  <1>9. TypeOK'
    BY <1>1, <1>3, <1>4, <1>7 DEF CoordinatorInv, TypeOK
  <1>10. DatabaseInv' /\ ShownInv' /\ ToldInv'
    BY <1>1, <1>7, DatabaseStays, ShownStays, ToldStays
  <1>11. store = "live"
    BY <1>1, <1>5 DEF CoordinatorInv, GuardInv
  <1>12. HandleInv'
    BY <1>3, <1>4, <1>6, <1>7, <1>11 DEF CoordinatorInv, HandleInv, At
  <1>13. CallInv'
    BY <1>1, <1>3, <1>4, <1>5, LateCallStays
  <1>14. GuardInv'
    <2>1. Revalidated(call.checks)'
      BY <1>1, <1>3, <1>4, <1>5 DEF Revalidated, CoordinatorInv, GuardInv
    <2> QED BY <1>1, <1>3, <1>4, <1>5, <1>7, <1>8, <2>1 DEF CoordinatorInv, GuardInv
  <1>15. AttemptInv'
    BY <1>1 DEF AttemptInv
  <1> QED BY <1>9, <1>10, <1>12, <1>13, <1>14, <1>15 DEF CoordinatorInv

\* The call is over and the answers, if any, are the only change besides the handle.
LEMMA ReturnStep ==
    ASSUME CoordinatorInv, call' = None, UNCHANGED << world, log, tables, kept, bounds >>,
           ToldInv', ShownInv', HandleInv', AttemptInv', told' \in [Requests -> Told],
           attempt' \in AttemptType \cup {None}, store' \in {"live", "fenced", "opening", "down"},
           memory' \in Prefix \cup {None}, fenced' \in BOOLEAN
    PROVE  CoordinatorInv'
  <1>1. TypeOK'
    BY DEF CoordinatorInv, TypeOK, bounds
  <1>2. DatabaseInv'
    BY DatabaseStays
  <1>3. CallInv' /\ GuardInv'
    BY DEF CallInv, GuardInv
  <1> QED BY <1>1, <1>2, <1>3 DEF CoordinatorInv

LEMMA PublishKeeps ==
    ASSUME CoordinatorInv, Publish
    PROVE  CoordinatorInv'
  <1>1. /\ call # None /\ call.stage = "final" /\ call' = None
        /\ UNCHANGED << world, log, tables, attempt, store, fenced, answer, kept, bounds >>
        /\ memory' = Retain(memory, log[Len(log)])
        /\ told' = [told EXCEPT ![call.request] = log[Len(log)].effect]
    BY DEF Publish, At, database
  <1>2. call.stage \in LateStages /\ call.stage \in GuardedStages
    BY <1>1 DEF LateStages, GuardedStages
  <1>3. /\ Proposed \in Record /\ Proposed.request = call.request /\ Proposed.effect \in Effects
        /\ Interprets(memory, Proposed) /\ call.request \in Requests /\ memory \in Prefix
        /\ memory = PrefixOf(memory.records) /\ Sound(memory.records)
    BY <1>1, <1>2, LateFacts
  <1>4. store = "live" /\ log = Append(memory.records, Proposed)
    BY <1>1, <1>2 DEF CoordinatorInv, GuardInv
  <1>5. memory.records \in Seq(Record)
    BY <1>3 DEF Sound
  <1>6. log[Len(log)] = Proposed /\ Len(log) \in DOMAIN log
    BY <1>3, <1>4, <1>5, AppendFacts
  <1>7. memory' = PrefixOf(log)
    BY <1>1, <1>3, <1>4, <1>6, RetainIsPrefix
  <1>8. memory' \in Prefix
    BY <1>7, LogFacts, KnownFacts
  <1>9. /\ told' \in [Requests -> Told] /\ told'[call.request] = Proposed.effect
        /\ \A q \in Requests : q # call.request => told'[q] = told[q]
    BY <1>1, <1>3, <1>6 DEF CoordinatorInv, TypeOK, Told
  <1>10. ToldInv'
    <2>1. told'[call.request] # "absent"
      BY <1>3, <1>9, CoordinatorAssumption
    <2> QED BY <1>1, <1>3, <1>6, <1>9, <2>1 DEF CoordinatorInv, ToldInv, InLog
  <1>11. ShownInv'
    BY <1>1, ShownStays
  <1>12. HandleInv'
    BY <1>1, <1>4, <1>7 DEF CoordinatorInv, HandleInv
  <1>13. AttemptInv'
    BY <1>1, <1>4 DEF CoordinatorInv, AttemptInv
  <1>14. attempt' \in AttemptType \cup {None} /\ store' \in {"live", "fenced", "opening", "down"}
         /\ fenced' \in BOOLEAN
    BY <1>1 DEF CoordinatorInv, TypeOK
  <1> QED BY <1>1, <1>8, <1>9, <1>10, <1>11, <1>12, <1>13, <1>14, ReturnStep

LEMMA FailMutationKeeps ==
    ASSUME CoordinatorInv, FailMutation
    PROVE  CoordinatorInv'
  <1>1. /\ call' = None /\ store' = "fenced" /\ fenced' = TRUE
        /\ failures < MaxFailures /\ failures' = failures + 1
        /\ UNCHANGED << world, log, tables, attempt, memory, told, answer, kept, moves >>
    BY DEF FailMutation, database, history
  <1>2. TypeOK'
    BY <1>1, CoordinatorAssumption DEF CoordinatorInv, TypeOK
  <1>3. DatabaseInv' /\ ToldInv' /\ ShownInv'
    BY <1>1, DatabaseStays, ToldStays, ShownStays
  <1>4. HandleInv' /\ CallInv' /\ GuardInv' /\ AttemptInv'
    BY <1>1 DEF HandleInv, CallInv, GuardInv, AttemptInv
  <1> QED BY <1>2, <1>3, <1>4 DEF CoordinatorInv

---------------------------------------------------------------------------
(* Disclosures *)

\* The record an id names, in a sound history.
LEMMA RecordOfIs ==
    ASSUME CoordinatorInv, memory.records = log, NEW id, RecordsOf(memory.records, id) # {}
    PROVE  /\ \E i \in DOMAIN log : RecordOf(memory, id) = log[i] /\ log[i].request.id = id
           /\ RecordOf(memory, id) \in Record
           /\ \A r \in RecordsOf(memory.records, id) : r = RecordOf(memory, id)
  <1>1. RecordOf(memory, id) \in RecordsOf(memory.records, id)
    BY DEF RecordOf
  <1>2. \A r \in RecordsOf(memory.records, id) :
           \E i \in DOMAIN log : r = log[i] /\ log[i].request.id = id
    BY DEF RecordsOf
  <1>3. \A i, j \in DOMAIN log : log[i].request.id = log[j].request.id => i = j
    BY LogFacts DEF Sound, UniqueIds
  <1>4. \A r, x \in RecordsOf(memory.records, id) : r = x
    BY <1>2, <1>3
  <1> HIDE DEF RecordOf
  <1> QED BY <1>1, <1>2, <1>4, LogFacts

LEMMA DiscloseOriginalKeeps ==
    ASSUME CoordinatorInv, DiscloseOriginal
    PROVE  CoordinatorInv'
  <1>1. /\ call # None /\ call.stage = "bound" /\ call.kind = "recover" /\ call' = None
        /\ store = "live"
        /\ UNCHANGED << world, log, tables, attempt, store, memory, fenced, answer, kept, bounds >>
        /\ told' = [told EXCEPT ![call.request] = RecordOf(memory, call.about).effect]
    BY DEF DiscloseOriginal, At, database, handle
  <1>2. memory.records = log /\ ~fenced /\ memory = PrefixOf(log)
    BY <1>1, EarlyFacts DEF GuardedStages
  <1>3. /\ call.request \in Requests
        /\ \E r \in RecordsOf(memory.records, call.about) : r.request = call.request
    BY <1>1 DEF CoordinatorInv, CallInv
  <1>4. PICK i \in DOMAIN log : RecordOf(memory, call.about) = log[i] /\ log[i].request = call.request
    BY <1>2, <1>3, RecordOfIs
  <1>5. log[i].effect \in Effects
    BY LogFacts, RecordFacts
  <1>6. /\ told' \in [Requests -> Told] /\ told'[call.request] = log[i].effect
        /\ \A q \in Requests : q # call.request => told'[q] = told[q]
    BY <1>1, <1>3, <1>4, <1>5 DEF CoordinatorInv, TypeOK, Told
  <1>7. ToldInv'
    <2>1. told'[call.request] # "absent"
      BY <1>5, <1>6, CoordinatorAssumption
    <2> QED BY <1>1, <1>3, <1>4, <1>6, <2>1 DEF CoordinatorInv, ToldInv, InLog
  <1>8. ShownInv'
    BY <1>1, ShownStays
  <1>9. HandleInv'
    BY <1>1, <1>2 DEF CoordinatorInv, HandleInv
  <1>10. AttemptInv'
    BY <1>1 DEF CoordinatorInv, AttemptInv
  <1>11. /\ attempt' \in AttemptType \cup {None} /\ store' \in {"live", "fenced", "opening", "down"}
         /\ fenced' \in BOOLEAN /\ memory' \in Prefix \cup {None}
    BY <1>1 DEF CoordinatorInv, TypeOK
  <1> QED BY <1>1, <1>6, <1>7, <1>8, <1>9, <1>10, <1>11, ReturnStep

\* What a read resolves a content to is what its first record bound.
LEMMA ResolvedAsBound ==
    ASSUME CoordinatorInv, call # None, call.stage = "bound", call.kind = "read",
           call.about \in Contents
    PROVE  \E i \in DOMAIN log :
              /\ call.about \in Bound(log[i].checks.intakes)
              /\ BytesIn(log[i].checks.intakes, call.about) = BytesIn(call.checks.intakes, call.about)
  <1> DEFINE k == call.about
  <1>1. memory = PrefixOf(log)
    BY EarlyFacts DEF GuardedStages
  <1>2. k \in Bound(call.checks.intakes)
    <2>1. Named = {k}
      BY DEF Named
    <2> QED BY <2>1 DEF CoordinatorInv, CallInv
  <1>3. CaseOf(Declared, k) = "KnownReuse"
    <2>1. Declared = NoDeclaration
      BY DEF Declared
    <2>2. Bound(NoDeclaration.fresh) = {} /\ NoDeclaration.first = {}
      BY DEF NoDeclaration, Empty, Bound
    <2> QED BY <2>1, <2>2 DEF CaseOf
  <1>4. KnownReuseFits(memory, Declared, k, call.checks.intakes[k])
    BY <1>2, <1>3 DEF CoordinatorInv, CallInv, IntakeFits
  <1>5. k \in Bound(memory.bytes) /\ call.checks.intakes[k].claim.bytes = memory.bytes[k]
    BY <1>4 DEF KnownReuseFits
  <1>6. PICK i \in DOMAIN log : k \in Bound(log[i].checks.intakes)
    BY <1>1, <1>5, LogFacts, BoundIn
  <1>7. memory.bytes[k] = BytesIn(log[i].checks.intakes, k)
    BY <1>1, <1>6, LogFacts, PrefixFacts
  <1> QED BY <1>5, <1>6, <1>7 DEF BytesIn

LEMMA DiscloseReadKeeps ==
    ASSUME CoordinatorInv, DiscloseRead
    PROVE  CoordinatorInv'
  <1>1. /\ call # None /\ call.stage = "bound" /\ call.kind = "read" /\ call' = None
        /\ store = "live"
        /\ UNCHANGED << world, log, tables, attempt, store, memory, fenced, told, kept, bounds >>
    BY DEF DiscloseRead, At, database, handle
  <1>2. answer' = [about |-> call.about,
                   value |-> IF call.about \in Contents
                               THEN BytesIn(call.checks.intakes, call.about)
                             ELSE IF Knows(memory, call.about)
                               THEN RecordOf(memory, call.about).effect
                             ELSE "absent",
                   at    |-> Len(log)]
    BY DEF DiscloseRead
  <1>3. memory.records = log /\ ~fenced /\ memory = PrefixOf(log)
    BY <1>1, EarlyFacts DEF GuardedStages
  <1>4. answer'.about = call.about /\ answer'.at = Len(log)
    BY <1>2
  <1>5. ASSUME call.about \in Contents
        PROVE  ReadsAreHistory'
    <2>1. answer'.value = BytesIn(call.checks.intakes, call.about)
      BY <1>2, <1>5
    <2> QED BY <1>1, <1>4, <1>5, <2>1, ResolvedAsBound DEF ReadsAreHistory
  <1>6. ASSUME call.about \notin Contents, Knows(memory, call.about)
        PROVE  ReadsAreHistory'
    <2>1. answer'.value = RecordOf(memory, call.about).effect
      BY <1>2, <1>6
    <2>2. RecordsOf(memory.records, call.about) # {}
      BY <1>6 DEF Knows
    <2>3. PICK i \in DOMAIN log : RecordOf(memory, call.about) = log[i] /\ log[i].request.id = call.about
      BY <1>3, <2>2, RecordOfIs
    <2>4. log[i].effect # "absent"
      BY LogFacts, RecordFacts, CoordinatorAssumption
    <2> QED BY <1>1, <1>4, <1>6, <2>1, <2>3, <2>4 DEF ReadsAreHistory
  <1>7. ASSUME call.about \notin Contents, ~Knows(memory, call.about)
        PROVE  ReadsAreHistory'
    <2>1. answer'.value = "absent"
      BY <1>2, <1>7
    <2>2. \A i \in DOMAIN log : log[i].request.id # call.about
      BY <1>3, <1>7, KnowsIs
    <2> QED BY <1>1, <1>4, <1>7, <2>1, <2>2, LogFacts DEF ReadsAreHistory
  <1>8. ShownInv'
    BY <1>1, <1>4, <1>5, <1>6, <1>7, LogFacts DEF ShownInv
  <1>9. ToldInv'
    BY <1>1, ToldStays
  <1>10. HandleInv'
    BY <1>1, <1>3 DEF CoordinatorInv, HandleInv
  <1>11. AttemptInv'
    BY <1>1 DEF CoordinatorInv, AttemptInv
  <1>12. /\ attempt' \in AttemptType \cup {None} /\ store' \in {"live", "fenced", "opening", "down"}
         /\ fenced' \in BOOLEAN /\ memory' \in Prefix \cup {None} /\ told' \in [Requests -> Told]
    BY <1>1 DEF CoordinatorInv, TypeOK
  <1> QED BY <1>1, <1>8, <1>9, <1>10, <1>11, <1>12, ReturnStep

LEMMA ResolveAbsentKeeps ==
    ASSUME CoordinatorInv, NEW q \in Requests, ResolveAbsent(q)
    PROVE  CoordinatorInv'
  <1>1. /\ Serving /\ ~Knows(memory, q.id) /\ told' = [told EXCEPT ![q] = "absent"]
        /\ UNCHANGED << world, log, tables, attempt, store, memory, fenced, call, answer, kept, bounds >>
    BY DEF ResolveAbsent, database, handle
  <1>2. store = "live" /\ ~fenced /\ call = None /\ memory = PrefixOf(log)
    BY <1>1, ServingFacts
  <1>3. \A i \in DOMAIN log : log[i].request.id # q.id
    BY <1>1, <1>2, KnowsIs
  <1>4. /\ told' \in [Requests -> Told] /\ told'[q] = "absent"
        /\ \A x \in Requests : x # q => told'[x] = told[x]
    BY <1>1 DEF CoordinatorInv, TypeOK, Told
  <1>5. ToldInv'
    <2>1. "absent" \notin Effects
      BY CoordinatorAssumption
    <2> QED BY <1>1, <1>3, <1>4, <2>1 DEF CoordinatorInv, ToldInv, InLog
  <1>6. ShownInv'
    BY <1>1, ShownStays
  <1>7. HandleInv'
    BY <1>1, <1>2 DEF CoordinatorInv, HandleInv
  <1>8. AttemptInv'
    BY <1>1 DEF CoordinatorInv, AttemptInv
  <1>9. /\ attempt' \in AttemptType \cup {None} /\ store' \in {"live", "fenced", "opening", "down"}
        /\ fenced' \in BOOLEAN /\ memory' \in Prefix \cup {None}
    BY <1>1 DEF CoordinatorInv, TypeOK
  <1> QED BY <1>1, <1>2, <1>4, <1>5, <1>6, <1>7, <1>8, <1>9, ReturnStep

---------------------------------------------------------------------------
(* The store and the world *)

\* A step of the environment touches nothing that is kept or was said.
LEMMA EnvironmentStep ==
    ASSUME CoordinatorInv, UNCHANGED << log, tables, told, answer, kept >>, TypeOK',
           HandleInv', CallInv', GuardInv', AttemptInv'
    PROVE  CoordinatorInv'
  BY DatabaseStays, ToldStays, ShownStays DEF CoordinatorInv

LEMMA DamageKeeps ==
    ASSUME CoordinatorInv, Damage
    PROVE  CoordinatorInv'
  <1>1. /\ store = "live" /\ ~Guarded /\ store' = "fenced"
        /\ failures < MaxFailures /\ failures' = failures + 1
        /\ UNCHANGED << world, log, tables, attempt, memory, fenced, call, told, answer, kept, moves >>
    BY DEF Damage, database, history
  <1>2. TypeOK'
    BY <1>1, CoordinatorAssumption DEF CoordinatorInv, TypeOK
  <1>3. HandleInv'
    BY <1>1 DEF CoordinatorInv, HandleInv, At
  <1>4. CallInv'
    <2>1. Declared' = Declared /\ Named' = Named
      BY <1>1 DEF Declared, Named
    <2> QED BY <1>1, <2>1 DEF CoordinatorInv, CallInv
  <1>5. GuardInv'
    BY <1>1 DEF GuardInv, Guarded, At
  <1>6. AttemptInv'
    BY <1>1 DEF AttemptInv
  <1> QED BY <1>1, <1>2, <1>3, <1>4, <1>5, <1>6, EnvironmentStep

\* The process is gone: nothing is remembered.
LEMMA DownKeeps ==
    ASSUME CoordinatorInv, Close \/ Crash
    PROVE  CoordinatorInv'
  <1>1. /\ store' = "down" /\ memory' = None /\ fenced' = FALSE /\ call' = None
        /\ UNCHANGED << world, log, tables, attempt, told, answer, kept, moves >>
        /\ failures' = failures \/ (failures < MaxFailures /\ failures' = failures + 1)
    BY DEF Close, Crash, database, history, bounds
  <1>2. TypeOK'
    <2>1. failures' \in 0..MaxFailures
      BY <1>1, CoordinatorAssumption DEF CoordinatorInv, TypeOK
    <2> QED BY <1>1, <2>1 DEF CoordinatorInv, TypeOK
  <1>3. HandleInv' /\ CallInv' /\ GuardInv' /\ AttemptInv'
    BY <1>1 DEF HandleInv, CallInv, GuardInv, AttemptInv
  <1> QED BY <1>1, <1>2, <1>3, EnvironmentStep

LEMMA BeginOpenKeeps ==
    ASSUME CoordinatorInv, BeginOpen
    PROVE  CoordinatorInv'
  <1>1. /\ store = "down" /\ store' = "opening" /\ memory' = EmptyPrefix
        /\ UNCHANGED << world, log, tables, attempt, fenced, call, told, answer, kept, moves, failures >>
    BY DEF BeginOpen, database, history, bounds
  <1>2. call = None /\ ~fenced
    BY <1>1 DEF CoordinatorInv, CallInv, HandleInv
  <1>3. EmptyPrefix = PrefixOf(<<>>) /\ EmptyPrefix \in Prefix
    BY EmptySound, KnownFacts
  <1>4. EmptyPrefix.records = <<>> /\ Len(<<>>) = 0
    BY DEF EmptyPrefix
  <1>5. SubSeq(log, 1, 0) = <<>> /\ 0 \in 0..Len(log)
    BY LogFacts
  <1>6. TypeOK'
    BY <1>1, <1>3 DEF CoordinatorInv, TypeOK
  <1>7. HandleInv'
    BY <1>1, <1>2, <1>3, <1>4, <1>5 DEF HandleInv
  <1>8. CallInv' /\ GuardInv' /\ AttemptInv'
    BY <1>1, <1>2 DEF CallInv, GuardInv, AttemptInv
  <1> QED BY <1>1, <1>6, <1>7, <1>8, EnvironmentStep

\* An opening that has read some of the records can read the next one.
LEMMA NextIsReadable ==
    ASSUME CoordinatorInv, store = "opening"
    PROVE  LET n == Len(memory.records)
           IN  /\ n \in 0..Len(log) /\ memory = PrefixOf(SubSeq(log, 1, n))
               /\ memory.records = SubSeq(log, 1, n) /\ Sound(SubSeq(log, 1, n))
               /\ n < Len(log) => /\ n + 1 \in DOMAIN log
                                  /\ Interprets(memory, log[n + 1])
                                  /\ Append(SubSeq(log, 1, n), log[n + 1]) = SubSeq(log, 1, n + 1)
               /\ n = Len(log) => memory.records = log
  <1> DEFINE n == Len(memory.records)
  <1>1. n \in 0..Len(log) /\ memory = PrefixOf(SubSeq(log, 1, n))
    BY DEF CoordinatorInv, HandleInv
  <1> HIDE DEF n
  <1>2. PrefixOf(SubSeq(log, 1, n)).records = SubSeq(log, 1, n)
    BY DEF PrefixOf
  <1>3. Sound(SubSeq(log, 1, n))
    BY <1>1, LogFacts, BeginningSound
  <1>4. ASSUME n < Len(log)
        PROVE  /\ n + 1 \in DOMAIN log /\ Interprets(memory, log[n + 1])
               /\ Append(SubSeq(log, 1, n), log[n + 1]) = SubSeq(log, 1, n + 1)
    <2>1. n + 1 \in DOMAIN log /\ n + 1 - 1 = n
      BY <1>1, <1>4, LogFacts
    <2>2. Interprets(PrefixOf(SubSeq(log, 1, n)), log[n + 1])
      <3>1. PICK i : i = n + 1
        OBVIOUS
      <3>2. Interprets(PrefixOf(SubSeq(log, 1, i - 1)), log[i])
        BY <2>1, <3>1, LogFacts DEF History, Replayable
      <3>3. i - 1 = n
        BY <1>1, <3>1, LogFacts
      <3> QED BY <3>1, <3>2, <3>3
    <2>3. log \in Seq(Record)
      BY LogFacts
    <2>4. Append(SubSeq(log, 1, n), log[n + 1]) = SubSeq(log, 1, n + 1)
      BY ONLY <1>1, <1>4, <2>3
    <2> QED BY <1>1, <2>1, <2>2, <2>4
  <1>5. n = Len(log) => SubSeq(log, 1, n) = log
    BY LogFacts
  <1> QED BY <1>1, <1>2, <1>3, <1>4, <1>5 DEF n

LEMMA InterpretKeeps ==
    ASSUME CoordinatorInv, Interpret
    PROVE  CoordinatorInv'
  <1> DEFINE n == Len(memory.records)
  <1>1. /\ store = "opening" /\ n < Len(log) /\ memory' = Retain(memory, log[n + 1])
        /\ UNCHANGED << world, log, tables, attempt, store, fenced, call, told, answer, kept, moves, failures >>
    BY DEF Interpret, Unread, database, history, bounds
  <1>2. /\ n \in 0..Len(log) /\ memory = PrefixOf(SubSeq(log, 1, n))
        /\ Sound(SubSeq(log, 1, n)) /\ n + 1 \in DOMAIN log /\ Interprets(memory, log[n + 1])
        /\ Append(SubSeq(log, 1, n), log[n + 1]) = SubSeq(log, 1, n + 1)
    BY <1>1, NextIsReadable
  <1> HIDE DEF n
  <1>3. memory' = PrefixOf(SubSeq(log, 1, n + 1))
    BY <1>1, <1>2, LogFacts, RetainIsPrefix
  <1>4. n + 1 \in 0..Len(log)
    BY <1>1, <1>2, LogFacts
  <1>5. Sound(SubSeq(log, 1, n + 1)) /\ Len(SubSeq(log, 1, n + 1)) = n + 1
    BY <1>4, LogFacts, BeginningSound
  <1>6. memory' \in Prefix /\ memory'.records = SubSeq(log, 1, n + 1)
    <2>1. PrefixOf(SubSeq(log, 1, n + 1)).records = SubSeq(log, 1, n + 1)
      BY DEF PrefixOf
    <2> QED BY <1>3, <1>5, <2>1, KnownFacts
  <1>7. TypeOK'
    BY <1>1, <1>6 DEF CoordinatorInv, TypeOK
  <1>8. call = None
    BY <1>1 DEF CoordinatorInv, CallInv
  <1>9. HandleInv'
    <2>1. Len(memory'.records) = n + 1
      BY <1>5, <1>6
    <2>2. ~fenced
      BY <1>1 DEF CoordinatorInv, HandleInv
    <2> QED BY <1>1, <1>3, <1>4, <2>1, <2>2 DEF HandleInv
  <1>10. CallInv' /\ GuardInv' /\ AttemptInv'
    BY <1>1, <1>8 DEF CallInv, GuardInv, AttemptInv
  <1> QED BY <1>1, <1>7, <1>9, <1>10, EnvironmentStep

LEMMA FinishOpenKeeps ==
    ASSUME CoordinatorInv, FinishOpen
    PROVE  CoordinatorInv'
  <1>1. /\ store = "opening" /\ memory.records = log /\ attempt' = None /\ store' = "live"
        /\ UNCHANGED << world, log, tables, memory, fenced, call, told, answer, kept, moves, failures >>
    BY DEF FinishOpen, history, bounds
  <1>2. memory = PrefixOf(log)
    <2>1. memory = PrefixOf(SubSeq(log, 1, Len(memory.records)))
          /\ memory.records = SubSeq(log, 1, Len(memory.records))
      BY <1>1, NextIsReadable
    <2> QED BY <1>1, <2>1
  <1>3. call = None /\ ~fenced
    BY <1>1 DEF CoordinatorInv, CallInv, HandleInv
  <1>4. TypeOK'
    BY <1>1 DEF CoordinatorInv, TypeOK
  <1>5. HandleInv'
    BY <1>1, <1>2, <1>3 DEF HandleInv
  <1>6. CallInv' /\ GuardInv' /\ AttemptInv'
    BY <1>1, <1>3 DEF CallInv, GuardInv, AttemptInv
  <1> QED BY <1>1, <1>4, <1>5, <1>6, EnvironmentStep

LEMMA WorldMovesKeeps ==
    ASSUME CoordinatorInv, WorldMoves
    PROVE  CoordinatorInv'
  <1>1. /\ ~Guarded /\ moves < MaxMoves /\ moves' = moves + 1 /\ world' \in Worlds
        /\ UNCHANGED << log, tables, attempt, store, memory, fenced, call, told, answer, kept, failures >>
    BY DEF WorldMoves, database, handle, history
  <1>2. TypeOK'
    BY <1>1, CoordinatorAssumption DEF CoordinatorInv, TypeOK
  <1>3. HandleInv' /\ AttemptInv'
    BY <1>1 DEF CoordinatorInv, HandleInv, AttemptInv, At
  <1>4. CallInv'
    <2>1. Declared' = Declared /\ Named' = Named
      BY <1>1 DEF Declared, Named
    <2> QED BY <1>1, <2>1 DEF CoordinatorInv, CallInv
  <1>5. GuardInv'
    BY <1>1 DEF GuardInv, Guarded, At
  <1> QED BY <1>1, <1>2, <1>3, <1>4, <1>5, EnvironmentStep

---------------------------------------------------------------------------
(* The invariant is inductive *)

LEMMA InitHolds == Init => CoordinatorInv
  <1> SUFFICES ASSUME Init PROVE CoordinatorInv
    OBVIOUS
  <1>1. /\ world \in Worlds /\ log = <<>> /\ tables = NoRows /\ attempt = None
        /\ store = "live" /\ memory = EmptyPrefix /\ fenced = FALSE /\ call = None
        /\ told = [q \in Requests |-> "none"] /\ answer = None /\ kept = <<>>
        /\ moves = 0 /\ failures = 0
    BY DEF Init
  <1>2. memory = PrefixOf(log) /\ memory \in Prefix
    BY <1>1, EmptySound, KnownFacts
  <1>3. TypeOK
    <2>1. log \in Seq(Record) /\ kept \in Seq(Worlds) /\ Len(kept) = Len(log)
      BY <1>1
    <2>2. told \in [Requests -> Told]
      BY <1>1 DEF Told
    <2>3. moves \in 0..MaxMoves /\ failures \in 0..MaxFailures
      BY <1>1, CoordinatorAssumption
    <2> QED BY <1>1, <1>2, <2>1, <2>2, <2>3 DEF TypeOK
  <1>4. DatabaseInv
    BY <1>1, EmptySound, NoControls DEF DatabaseInv, TrueWhenKept
  <1>5. HandleInv /\ CallInv /\ GuardInv /\ AttemptInv
    BY <1>1, <1>2 DEF HandleInv, CallInv, GuardInv, AttemptInv
  <1>6. ToldInv
    BY <1>1, CoordinatorAssumption DEF ToldInv
  <1>7. ShownInv
    BY <1>1 DEF ShownInv, ReadsAreHistory
  <1> QED BY <1>3, <1>4, <1>5, <1>6, <1>7 DEF CoordinatorInv

LEMMA StutterHolds ==
    ASSUME CoordinatorInv, UNCHANGED vars
    PROVE  CoordinatorInv'
  <1>1. /\ UNCHANGED << world, log, tables, attempt, store, memory, fenced, call, told, answer, kept, moves, failures >>
    BY DEF vars, database, handle, history, bounds
  <1>2. TypeOK'
    BY <1>1 DEF CoordinatorInv, TypeOK
  <1>3. HandleInv' /\ AttemptInv'
    BY <1>1 DEF CoordinatorInv, HandleInv, AttemptInv, At
  <1>4. CallInv'
    <2>1. Declared' = Declared /\ Named' = Named
      BY <1>1 DEF Declared, Named
    <2> QED BY <1>1, <2>1 DEF CoordinatorInv, CallInv
  <1>5. GuardInv'
    <2>1. Proposed' = Proposed /\ Revalidated(call.checks)' = Revalidated(call.checks)
      BY <1>1 DEF Proposed, Revalidated
    <2> QED BY <1>1, <2>1 DEF CoordinatorInv, GuardInv
  <1> QED BY <1>1, <1>2, <1>3, <1>4, <1>5, EnvironmentStep

LEMMA NextHolds ==
    ASSUME CoordinatorInv, [Next]_vars
    PROVE  CoordinatorInv'
  <1>1. CASE Gather
    BY <1>1, BeginKeeps, ResolveContentKeeps, ContentsBoundKeeps, ReadGroundKeeps, JudgeKeeps,
       PlanKeeps, RefuseKeeps DEF Gather
  <1>2. CASE Accept
    BY <1>2, LockKeeps, DeclareKeeps, CommitKeeps, FinalizeKeeps, PublishKeeps,
       FailMutationKeeps DEF Accept
  <1>3. CASE Disclose
    BY <1>3, DiscloseOriginalKeeps, DiscloseReadKeeps, ResolveAbsentKeeps DEF Disclose
  <1>4. CASE Environment
    BY <1>4, DamageKeeps, DownKeeps, BeginOpenKeeps, InterpretKeeps, FinishOpenKeeps,
       WorldMovesKeeps DEF Environment
  <1>5. CASE UNCHANGED vars
    BY <1>5, StutterHolds
  <1> QED BY <1>1, <1>2, <1>3, <1>4, <1>5 DEF Next

---------------------------------------------------------------------------
(* Theorems *)

\* Every part of the invariant holds in every reachable state of an original that
\* is served (ports.rs, change.rs).
THEOREM InvariantHolds == Spec => []CoordinatorInv
  BY InitHolds, NextHolds, PTL DEF Spec

THEOREM TypeCorrect == Spec => []TypeOK
  <1>1. CoordinatorInv => TypeOK
    BY DEF CoordinatorInv
  <1> QED BY <1>1, InvariantHolds, PTL

\* A handle that has not lost track holds exactly the history SQLite holds
\* (change.rs execute and reconstruct).
THEOREM MemoryKept == Spec => []MemoryIsHistory
  <1>1. CoordinatorInv => MemoryIsHistory
    BY DEF CoordinatorInv, HandleInv, MemoryIsHistory
  <1> QED BY <1>1, InvariantHolds, PTL

\* Whatever was accepted can be opened again, record by record, with the rows the
\* tables have (records.rs prepare and load, change.rs reconstruct).
THEOREM Readable == Spec => []AlwaysReadable
  <1>1. CoordinatorInv => AlwaysReadable
    <2> SUFFICES ASSUME CoordinatorInv PROVE AlwaysReadable
      OBVIOUS
    <2>1. Coherent(log) /\ tables = Controls(log)
      BY DEF CoordinatorInv, DatabaseInv
    <2>2. ASSUME store = "opening", memory.records # log
          PROVE  Interprets(memory, Unread)
      <3>1. Len(memory.records) < Len(log)
        BY <2>2, LogFacts, NextIsReadable
      <3> QED BY <2>2, <3>1, NextIsReadable DEF Unread
    <2> QED BY <2>1, <2>2 DEF AlwaysReadable
  <1> QED BY <1>1, InvariantHolds, PTL

\* What a record says of the host was true of one single moment, the commit
\* (ports.rs accept).
THEOREM KeptIsTrue == Spec => []TrueWhenKept
  <1>1. CoordinatorInv => TrueWhenKept
    BY DEF CoordinatorInv, DatabaseInv
  <1> QED BY <1>1, InvariantHolds, PTL

\* A content keeps its bytes, its author and its one establishment, and citations
\* stand, through every later operation (change.rs check_intake, references).
THEOREM Content == Spec => []ContentStands
  <1>1. CoordinatorInv => ContentStands
    <2> SUFFICES ASSUME CoordinatorInv PROVE ContentHasOneMeaning /\ CitationsStand
      BY DEF ContentStands
    <2>1. /\ OneMeaning(log) /\ OneEstablishment(log) /\ EstablishedFirst(log) /\ Cited(log)
          /\ DOMAIN log = 1..Len(log) /\ Len(log) \in Nat
      BY LogFacts DEF History, Sound
    <2>2. CitationsStand
      BY <2>1 DEF CitationsStand, Cited
    <2>3. ASSUME NEW i \in DOMAIN log, NEW j \in DOMAIN log,
                 NEW k \in Bound(log[i].checks.intakes) \cap Bound(log[j].checks.intakes), i < j
          PROVE  /\ \E h \in 1..i : k \in Established(log[h].request)
                 /\ k \notin Established(log[j].request)
      <3>1. PICK h \in 1..i : k \in Established(log[h].request)
        BY <2>1 DEF EstablishedFirst
      <3>2. h \in DOMAIN log /\ h # j
        BY <2>1, <2>3
      <3> QED BY <2>1, <3>1, <3>2 DEF OneEstablishment
    <2>4. ContentHasOneMeaning
      <3> SUFFICES ASSUME NEW i \in DOMAIN log, NEW j \in DOMAIN log,
                          NEW k \in Bound(log[i].checks.intakes) \cap Bound(log[j].checks.intakes)
                   PROVE  /\ BytesIn(log[i].checks.intakes, k) = BytesIn(log[j].checks.intakes, k)
                          /\ log[i].checks.intakes[k].claim.by = log[j].checks.intakes[k].claim.by
                          /\ i < j => /\ k \in Established(log[i].request) \/ \E h \in 1..i :
                                            k \in Established(log[h].request)
                                      /\ k \notin Established(log[j].request)
        BY DEF ContentHasOneMeaning
      <3>1. /\ BytesIn(log[i].checks.intakes, k) = BytesIn(log[j].checks.intakes, k)
            /\ log[i].checks.intakes[k].claim.by = log[j].checks.intakes[k].claim.by
        BY <2>1 DEF OneMeaning
      <3> QED BY <2>3, <3>1
    <2> QED BY <2>2, <2>4
  <1> QED BY <1>1, InvariantHolds, PTL

\* What a caller was told of a request is the truth about exactly that request, and
\* an id is used once (change.rs execute, original.rs resolve_original).
THEOREM AnswersHold == Spec => []HonestAnswers
  <1>1. CoordinatorInv => HonestAnswers
    <2> SUFFICES ASSUME CoordinatorInv PROVE HonestAnswers
      OBVIOUS
    <2>1. UniqueIds(log)
      BY LogFacts DEF Sound
    <2> QED BY <2>1 DEF CoordinatorInv, ToldInv, HonestAnswers, UniqueIds
  <1> QED BY <1>1, InvariantHolds, PTL

\* What was read is what was accepted, and what was said to be absent was
\* (original.rs read, ports.rs disclose_checked).
THEOREM Reads == Spec => []ReadsAreHistory
  <1>1. CoordinatorInv => ReadsAreHistory
    BY DEF CoordinatorInv, ShownInv
  <1> QED BY <1>1, InvariantHolds, PTL

\* What the host said when a call began is compared with what it says at the very
\* moment something is shown (ports.rs disclose_checked).
THEOREM Shown == Spec => ShownOnlyInContext
  <1> DEFINE Fact ==
        (answer' # answer \/ (told' # told /\ At("bound")))
          => /\ Shows(world.context, call.about)
             /\ call.kind = "recover" => world.context.actor = call.request.actor
             /\ "disclose" \in world.permits
  <1>1. ASSUME CoordinatorInv, [Next]_vars
        PROVE  [Fact]_vars
    <2>1. ASSUME Gather \/ Environment \/ Declare \/ Commit \/ Finalize \/ FailMutation
          PROVE  answer' = answer /\ told' = told
      BY <2>1 DEF Gather, Environment, BeginSubmit, BeginRecover, BeginRead, ResolveContent,
                  ContentsBound, ReadGround, Judge, Plan, Refuse, Damage, Close, Crash, BeginOpen,
                  Interpret, FinishOpen, WorldMoves, Declare, Commit, Finalize, FailMutation, history
    <2>2. ASSUME Lock \/ Publish \/ \E q \in Requests : ResolveAbsent(q)
          PROVE  answer' = answer /\ ~At("bound")
      BY <2>2 DEF Lock, Publish, ResolveAbsent, At, Serving
    <2>3. ASSUME DiscloseOriginal \/ DiscloseRead
          PROVE  Fact
      <3>1. call # None /\ call.stage = "bound" /\ Revalidated(call.checks)
        BY <2>3 DEF DiscloseOriginal, DiscloseRead, At
      <3>2. /\ Shows(call.checks.context, call.about)
            /\ call.kind = "recover" => call.checks.context.actor = call.request.actor
        BY <1>1, <3>1 DEF CoordinatorInv, CallInv
      <3>3. world.context = call.checks.context /\ "disclose" \in world.permits
        BY <3>1 DEF Revalidated
      <3> QED BY <3>2, <3>3
    <2>4. CASE Next
      BY <2>1, <2>2, <2>3, <2>4 DEF Next, Accept, Disclose
    <2> HIDE DEF Fact
    <2> QED BY <1>1, <2>4
  <1>2. [Fact]_vars =>
          [ (answer' # answer \/ (told' # told /\ At("bound")))
              => /\ Shows(world.context, call.about)
                 /\ call.kind = "recover" => world.context.actor = call.request.actor
                 /\ "disclose" \in world.permits ]_vars
    BY DEF Fact
  <1> HIDE DEF Fact
  <1> QED BY <1>1, <1>2, InvariantHolds, PTL DEF Spec, ShownOnlyInContext

---------------------------------------------------------------------------
(* An original is the ledger its callers see *)

LogSeen == [i \in DOMAIN log |-> log[i].request]

AttemptSeen == IF attempt = None THEN None ELSE attempt.record.request

VerdictSeen == [q \in Requests |-> IF told[q] \in Effects THEN "accepted" ELSE told[q]]

Unseen == UNCHANGED << LogSeen, AttemptSeen, VerdictSeen >>

LEMMA SeenStays ==
    ASSUME UNCHANGED << log, attempt, told >>
    PROVE  Unseen
  BY DEF Unseen, LogSeen, AttemptSeen, VerdictSeen

\* A step that tells the caller of q what is true, when nothing is attempted.
LEMMA AnswerSeen ==
    ASSUME CoordinatorInv, NEW q \in Requests, attempt = None, UNCHANGED << log, attempt >>,
           NEW v \in Effects \cup {"absent"}, told' = [told EXCEPT ![q] = v],
           v \in Effects <=> InLog(q)
    PROVE  Abstract!Answer(q)
  <1>1. "absent" \notin Effects /\ None \notin Requests
    BY CoordinatorAssumption
  <1>2. AttemptSeen = None /\ AttemptSeen' = None /\ LogSeen' = LogSeen
    BY DEF AttemptSeen, LogSeen
  <1>3. Abstract!InLog(q) <=> InLog(q)
    BY DEF Abstract!InLog, InLog
  <1>4. told \in [Requests -> Told]
    BY DEF CoordinatorInv, TypeOK
  <1>5. VerdictSeen' = [VerdictSeen EXCEPT ![q] = IF InLog(q) THEN "accepted" ELSE "absent"]
    <2>1. ASSUME NEW x \in Requests
          PROVE  (IF told'[x] \in Effects THEN "accepted" ELSE told'[x])
                   = (IF x = q THEN IF InLog(q) THEN "accepted" ELSE "absent"
                      ELSE IF told[x] \in Effects THEN "accepted" ELSE told[x])
      <3>1. x = q => told'[x] = v
        BY <1>4
      <3>2. x # q => told'[x] = told[x]
        BY <1>4
      <3> QED BY <1>1, <3>1, <3>2
    <2> QED BY <2>1 DEF VerdictSeen
  <1> QED BY <1>1, <1>2, <1>3, <1>5 DEF Abstract!Answer, LogSeen, AttemptSeen, VerdictSeen

LEMMA LockSeen ==
    ASSUME CoordinatorInv, Lock
    PROVE  \E q \in Requests : Abstract!Submit(q)
  <1>1. /\ call # None /\ call.stage = "planned" /\ store = "live" /\ log' = log
        /\ attempt' = [record |-> Proposed, declared |-> FALSE]
        /\ told' = [told EXCEPT ![call.request] = "asked"]
    BY DEF Lock, At
  <1>2. call.stage \in LateStages /\ call.stage \notin GuardedStages
    BY <1>1 DEF LateStages, GuardedStages
  <1>3. /\ call.request \in Requests /\ Proposed.request = call.request /\ Proposed \in Record
        /\ \A i \in DOMAIN memory.records : memory.records[i].request.id # call.request.id
    BY <1>1, <1>2, LateFacts
  <1>4. memory.records = log
    BY <1>1, <1>2, EarlyFacts
  <1>5. attempt = None
    BY <1>1 DEF CoordinatorInv, AttemptInv
  <1>6. attempt' # None
    <2>1. attempt' \in AttemptType
      BY <1>1, <1>3 DEF AttemptType
    <2> QED BY <2>1, CoordinatorAssumption
  <1>7. AttemptSeen = None /\ AttemptSeen' = call.request /\ LogSeen' = LogSeen
    BY <1>1, <1>3, <1>5, <1>6 DEF AttemptSeen, LogSeen
  <1>8. ~Abstract!InLog(call.request)
    BY <1>3, <1>4 DEF Abstract!InLog
  <1>9. VerdictSeen' = [VerdictSeen EXCEPT ![call.request] = "asked"]
    <2>1. told \in [Requests -> Told] /\ "asked" \notin Effects
      BY CoordinatorAssumption DEF CoordinatorInv, TypeOK
    <2>2. ASSUME NEW x \in Requests
          PROVE  (IF told'[x] \in Effects THEN "accepted" ELSE told'[x])
                   = (IF x = call.request THEN "asked"
                      ELSE IF told[x] \in Effects THEN "accepted" ELSE told[x])
      BY <1>1, <2>1
    <2> QED BY <2>2 DEF VerdictSeen
  <1> QED BY <1>3, <1>7, <1>8, <1>9 DEF Abstract!Submit, LogSeen, AttemptSeen, VerdictSeen

LEMMA CommitSeen ==
    ASSUME CoordinatorInv, Commit
    PROVE  Abstract!Commit
  <1>1. /\ call # None /\ call.stage = "declared" /\ attempt' = attempt /\ told' = told
        /\ log' = Append(log, attempt.record)
    BY DEF Commit, At
  <1>2. call.stage \in LateStages /\ call.stage \in GuardedStages
    BY <1>1 DEF LateStages, GuardedStages
  <1>3. /\ call.request \in Requests /\ Proposed.request = call.request /\ Proposed \in Record
        /\ \A i \in DOMAIN memory.records : memory.records[i].request.id # call.request.id
    BY <1>1, <1>2, LateFacts
  <1>4. attempt # None /\ attempt.record = Proposed /\ store = "live"
    BY <1>1, <1>2 DEF CoordinatorInv, GuardInv
  <1>5. memory.records = log
    <2>1. ~At("committed") /\ ~At("final") /\ ~fenced
      BY <1>1 DEF At, CoordinatorInv, CallInv
    <2> QED BY <1>4, <2>1, MemoryFacts
  <1>6. AttemptSeen = call.request /\ AttemptSeen' = AttemptSeen /\ VerdictSeen' = VerdictSeen
    BY <1>1, <1>3, <1>4 DEF AttemptSeen, VerdictSeen
  <1>7. ~Abstract!InLog(call.request)
    BY <1>3, <1>5 DEF Abstract!InLog
  <1>8. LogSeen' = Append(LogSeen, call.request)
    <2> DEFINE n == Len(log) + 1
    <2>1. /\ DOMAIN log' = 1..n /\ DOMAIN log = 1..Len(log) /\ Len(log) \in Nat
          /\ \A i \in DOMAIN log : log'[i] = log[i]
          /\ log'[n] = Proposed
      BY <1>1, <1>3, <1>4, LogFacts, AppendFacts
    <2>2. LogSeen' = [i \in 1..n |-> IF i = n THEN call.request ELSE log[i].request]
      <3>1. ASSUME NEW i \in 1..n
            PROVE  log'[i].request = IF i = n THEN call.request ELSE log[i].request
        BY <1>3, <2>1
      <3> QED BY <2>1, <3>1 DEF LogSeen
    <2>3. LogSeen = [i \in 1..Len(log) |-> log[i].request]
      BY <2>1 DEF LogSeen
    <2>4. LogSeen \in Seq(Request) /\ Len(LogSeen) = Len(log)
      <3>1. \A i \in 1..Len(log) : log[i].request \in Request
        BY <2>1, LogFacts, RecordFacts
      <3>2. \A i \in 1..Len(log) : LogSeen[i] \in Request
        BY <2>3, <3>1
      <3> HIDE DEF LogSeen
      <3> QED BY <2>1, <2>3, <3>1
    <2> HIDE DEF LogSeen
    <2> QED BY ONLY <2>1, <2>2, <2>3, <2>4
  <1> QED BY <1>3, <1>4, <1>6, <1>7, <1>8, CoordinatorAssumption
          DEF Abstract!Commit, LogSeen, AttemptSeen, VerdictSeen

LEMMA ConcludeSeen ==
    ASSUME CoordinatorInv, Finalize \/ FinishOpen
    PROVE  Abstract!Conclude \/ Unseen
  <1>1. attempt' = None /\ log' = log /\ told' = told
    BY DEF Finalize, FinishOpen, history
  <1>2. CASE attempt = None
    BY <1>1, <1>2, SeenStays
  <1>3. CASE attempt # None
    <2>1. AttemptSeen # None
      <3>1. attempt.record.request = AttemptSeen
        BY <1>3 DEF AttemptSeen
      <3>2. attempt.record.request \in Request
        BY <1>3, RecordFacts DEF CoordinatorInv, TypeOK, AttemptType
      <3> QED BY <3>1, <3>2, CoordinatorAssumption
    <2>2. AttemptSeen' = None /\ LogSeen' = LogSeen /\ VerdictSeen' = VerdictSeen
      BY <1>1 DEF AttemptSeen, LogSeen, VerdictSeen
    <2> QED BY <2>1, <2>2 DEF Abstract!Conclude, LogSeen, AttemptSeen, VerdictSeen
  <1> QED BY <1>2, <1>3

LEMMA AnswersSeen ==
    ASSUME CoordinatorInv, Publish \/ DiscloseOriginal \/ \E q \in Requests : ResolveAbsent(q)
    PROVE  \E q \in Requests : Abstract!Answer(q)
  <1>1. CASE Publish
    <2>1. /\ call # None /\ call.stage = "final" /\ UNCHANGED << log, attempt >>
          /\ told' = [told EXCEPT ![call.request] = log[Len(log)].effect]
      BY <1>1 DEF Publish, At, database
    <2>2. call.stage \in LateStages /\ call.stage \in GuardedStages
      BY <2>1 DEF LateStages, GuardedStages
    <2>3. /\ Proposed \in Record /\ Proposed.request = call.request /\ Proposed.effect \in Effects
          /\ call.request \in Requests /\ Sound(memory.records)
      BY <2>1, <2>2, LateFacts
    <2>4. store = "live" /\ log = Append(memory.records, Proposed)
      BY <2>1, <2>2 DEF CoordinatorInv, GuardInv
    <2>5. memory.records \in Seq(Record)
      BY <2>3 DEF Sound
    <2>6. log[Len(log)] = Proposed /\ Len(log) \in DOMAIN log
      BY <2>3, <2>4, <2>5, AppendFacts
    <2>7. attempt = None
      BY <2>1, <2>4 DEF CoordinatorInv, AttemptInv
    <2>8. InLog(call.request)
      BY <2>3, <2>6 DEF InLog
    <2> QED BY <2>1, <2>3, <2>6, <2>7, <2>8, AnswerSeen
  <1>2. CASE DiscloseOriginal
    <2>1. /\ call # None /\ call.stage = "bound" /\ call.kind = "recover" /\ store = "live"
          /\ UNCHANGED << log, attempt >>
          /\ told' = [told EXCEPT ![call.request] = RecordOf(memory, call.about).effect]
      BY <1>2 DEF DiscloseOriginal, At, database
    <2>2. memory.records = log
      BY <2>1, EarlyFacts DEF GuardedStages
    <2>3. /\ call.request \in Requests
          /\ \E r \in RecordsOf(memory.records, call.about) : r.request = call.request
      BY <2>1 DEF CoordinatorInv, CallInv
    <2>4. PICK i \in DOMAIN log : RecordOf(memory, call.about) = log[i] /\ log[i].request = call.request
      BY <2>2, <2>3, RecordOfIs
    <2>5. log[i].effect \in Effects
      BY LogFacts, RecordFacts
    <2>6. attempt = None
      BY <2>1 DEF CoordinatorInv, AttemptInv
    <2>7. InLog(call.request)
      BY <2>4 DEF InLog
    <2> QED BY <2>1, <2>3, <2>4, <2>5, <2>6, <2>7, AnswerSeen
  <1>3. ASSUME NEW q \in Requests, ResolveAbsent(q)
        PROVE  Abstract!Answer(q)
    <2>1. /\ Serving /\ ~Knows(memory, q.id) /\ told' = [told EXCEPT ![q] = "absent"]
          /\ UNCHANGED << log, attempt >>
      BY <1>3 DEF ResolveAbsent, database
    <2>2. attempt = None /\ memory = PrefixOf(log)
      BY <2>1, ServingFacts
    <2>3. ~InLog(q)
      BY <2>1, <2>2, KnowsIs DEF InLog
    <2>4. "absent" \notin Effects
      BY CoordinatorAssumption
    <2> QED BY <2>1, <2>2, <2>3, <2>4, AnswerSeen
  <1> QED BY <1>1, <1>2, <1>3

\* Callers see a log that only grows, one attempt at a time, and answers that are
\* final, whatever happens to the process and the files (ports.rs, original.rs).
THEOREM LedgerKept == Spec => ImplementsLedger
  <1>1. Init => Abstract!Init
    <2> SUFFICES ASSUME Init PROVE Abstract!Init
      OBVIOUS
    <2>1. log = <<>> /\ attempt = None /\ told = [q \in Requests |-> "none"]
      BY DEF Init
    <2>2. [i \in DOMAIN log |-> log[i].request] = <<>>
      BY <2>1
    <2>3. "none" \notin Effects
      BY CoordinatorAssumption
    <2>4. [q \in Requests |-> IF told[q] \in Effects THEN "accepted" ELSE told[q]]
             = [q \in Requests |-> "none"]
      BY <2>1, <2>3
    <2> QED BY <2>1, <2>2, <2>4 DEF Abstract!Init
  <1>2. ASSUME CoordinatorInv, [Next]_vars
        PROVE  [Abstract!Next]_<< LogSeen, AttemptSeen, VerdictSeen >>
    <2>1. ASSUME \/ Gather \/ Declare \/ FailMutation \/ DiscloseRead
                 \/ Damage \/ Close \/ Crash \/ BeginOpen \/ Interpret \/ WorldMoves
                 \/ UNCHANGED vars
          PROVE  Unseen
      <3>1. CASE Declare
        <4>1. call # None /\ call.stage = "locked" /\ log' = log /\ told' = told
              /\ attempt' = [attempt EXCEPT !.declared = TRUE]
          BY <3>1 DEF Declare, At, history
        <4>2. attempt # None
          <5>1. GuardInv /\ call.stage \in GuardedStages /\ call.stage # "final"
            BY <1>2, <4>1 DEF CoordinatorInv, GuardedStages
          <5> QED BY <4>1, <5>1 DEF GuardInv
        <4>3. attempt \in AttemptType
          BY <1>2, <4>2 DEF CoordinatorInv, TypeOK
        <4>4. attempt' \in AttemptType /\ attempt'.record = attempt.record
          BY <4>1, <4>3 DEF AttemptType
        <4>5. attempt' # None
          BY <4>4, CoordinatorAssumption
        <4> QED BY <4>1, <4>2, <4>4, <4>5 DEF Unseen, LogSeen, AttemptSeen, VerdictSeen
      <3>2. CASE \/ Gather \/ FailMutation \/ DiscloseRead
                 \/ Damage \/ Close \/ Crash \/ BeginOpen \/ Interpret \/ WorldMoves
                 \/ UNCHANGED vars
        <4>1. UNCHANGED << log, attempt, told >>
          BY <3>2 DEF Gather, BeginSubmit, BeginRecover, BeginRead, ResolveContent,
                      ContentsBound, ReadGround, Judge, Plan, Refuse, FailMutation, DiscloseRead,
                      Damage, Close, Crash, BeginOpen, Interpret, WorldMoves, vars, database, history
        <4> QED BY <4>1, SeenStays
      <3> QED BY <2>1, <3>1, <3>2
    <2>2. ASSUME Lock \/ Commit \/ Finalize \/ FinishOpen \/ Publish \/ DiscloseOriginal
                 \/ \E q \in Requests : ResolveAbsent(q)
          PROVE  Abstract!Next \/ Unseen
      <3>1. CASE Lock
        BY <1>2, <3>1, LockSeen DEF Abstract!Next
      <3>2. CASE Commit
        BY <1>2, <3>2, CommitSeen DEF Abstract!Next
      <3>3. CASE Finalize \/ FinishOpen
        BY <1>2, <3>3, ConcludeSeen DEF Abstract!Next
      <3>4. CASE Publish \/ DiscloseOriginal \/ \E q \in Requests : ResolveAbsent(q)
        BY <1>2, <3>4, AnswersSeen DEF Abstract!Next
      <3> QED BY <2>2, <3>1, <3>2, <3>3, <3>4
    <2> QED BY <1>2, <2>1, <2>2 DEF Next, Accept, Disclose, Environment, Unseen
  <1>3. [Abstract!Next]_<< LogSeen, AttemptSeen, VerdictSeen >> => [Abstract!Next]_(Abstract!vars)
    BY DEF Abstract!vars, LogSeen, AttemptSeen, VerdictSeen
  <1> QED BY <1>1, <1>2, <1>3, InvariantHolds, PTL DEF Spec, ImplementsLedger, Abstract!Spec
=============================================================================
