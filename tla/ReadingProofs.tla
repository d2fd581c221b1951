---------------------------- MODULE ReadingProofs ----------------------------
(***************************************************************************)
(* Theorems about Reading, for any store, host, probes and budget.         *)
(*                                                                         *)
(* Three invariants of the call in progress, one for each property.  What  *)
(* was copied is a prefix of the log, and once it answered to the witness  *)
(* it is the log and stays it, because the lease keeps commits out         *)
(* (SourceInv, from StoreInv).  What a callback permitted after the reply  *)
(* was packed was permitted then (PermitInv).  At each stage the work that *)
(* is reserved and not done yet covers the comparisons still to come       *)
(* (WorkInv).  A reply made of these is true, permitted and paid for.      *)
(***************************************************************************)
EXTENDS Reading, StoreProofs, FiniteSetTheorems, SequenceTheorems, WellFoundedInduction

---------------------------------------------------------------------------
(* The records selected from a part of a history *)

\* How many of some places come no later than k.
Rank(places, k) == Cardinality({j \in places : j <= k})

LEMMA RankTyped ==
    ASSUME NEW P \in SUBSET Nat, IsFiniteSet(P), NEW k \in P
    PROVE  /\ Rank(P, k) \in 1..Cardinality(P)
           /\ Cardinality(P) \in Nat
  <1> DEFINE B == {j \in P : j <= k}
  <1>1. B \in SUBSET P /\ k \in B
    OBVIOUS
  <1>2. IsFiniteSet(B) /\ Cardinality(B) <= Cardinality(P)
    BY <1>1, FS_Subset
  <1>3. Cardinality(B) \in Nat /\ Cardinality(P) \in Nat /\ Cardinality(B) # 0
    BY <1>1, <1>2, FS_CardinalityType, FS_EmptySet
  <1> QED BY <1>2, <1>3 DEF Rank

LEMMA RankGrows ==
    ASSUME NEW P \in SUBSET Nat, IsFiniteSet(P), NEW k \in P, NEW l \in P, k < l
    PROVE  Rank(P, k) # Rank(P, l)
  <1> DEFINE B == {j \in P : j <= k}
             C == {j \in P : j <= l}
  <1>0. \A j \in P : j <= k => j <= l
    OBVIOUS
  <1>1. C \in SUBSET P /\ B \in SUBSET C /\ l \in C /\ l \notin B
    <2>1. B \in SUBSET C
      BY <1>0
    <2>2. l \notin B /\ l \in C
      OBVIOUS
    <2> QED BY <2>1, <2>2
  <1>2. IsFiniteSet(C)
    BY <1>1, FS_Subset
  <1>3. Cardinality(B) = Cardinality(C) => B = C
    BY <1>1, <1>2, FS_Subset
  <1> QED BY <1>1, <1>3 DEF Rank

\* Each number up to their count is the rank of one of the places.
LEMMA NthIsThere ==
    ASSUME NEW P \in SUBSET Nat, IsFiniteSet(P)
    PROVE  /\ Cardinality(P) \in Nat
           /\ \A i \in 1..Cardinality(P) : Nth(P, i) \in P /\ Rank(P, Nth(P, i)) = i
           /\ \A k \in P : Rank(P, k) \in 1..Cardinality(P) /\ Nth(P, Rank(P, k)) = k
  <1> DEFINE n == Cardinality(P)
             f == [k \in P |-> Rank(P, k)]
  <1>1. n \in Nat
    BY FS_CardinalityType
  <1>2. \A k \in P : Rank(P, k) \in 1..n
    BY RankTyped
  <1>3. \A k, l \in P : Rank(P, k) = Rank(P, l) => k = l
    <2> SUFFICES ASSUME NEW k \in P, NEW l \in P, Rank(P, k) = Rank(P, l), k # l
                 PROVE  FALSE
      OBVIOUS
    <2>1. k < l \/ l < k
      OBVIOUS
    <2> QED BY <2>1, RankGrows
  <1>4. f \in Injection(P, 1..n)
    BY <1>2, <1>3 DEF Injection, IsInjective
  <1>5. IsFiniteSet(1..n) /\ Cardinality(1..n) = n
    BY <1>1, FS_Interval
  <1>6. f \in Surjection(P, 1..n)
    BY <1>4, <1>5, FS_Injection
  <1>7. \A i \in 1..n : \E k \in P : Rank(P, k) = i
    BY <1>6 DEF Surjection
  <1>8. \A i \in 1..n : Nth(P, i) \in P /\ Rank(P, Nth(P, i)) = i
    BY <1>7 DEF Nth, Rank
  <1>9. \A k \in P : Nth(P, Rank(P, k)) = k
    BY <1>2, <1>3, <1>8
  <1> QED BY <1>1, <1>2, <1>8, <1>9

LEMMA Shifted ==
    ASSUME NEW Q \in SUBSET Nat, IsFiniteSet(Q), NEW a \in Nat
    PROVE  /\ IsFiniteSet({a + k : k \in Q})
           /\ Cardinality({a + k : k \in Q}) = Cardinality(Q)
  <1> DEFINE T == {a + k : k \in Q}
             f == [k \in Q |-> a + k]
  <1>1. f \in Bijection(Q, T)
    <2>1. f \in [Q -> T] /\ \A k, l \in Q : f[k] = f[l] => k = l
      OBVIOUS
    <2>2. \A t \in T : \E k \in Q : f[k] = t
      OBVIOUS
    <2> QED BY <2>1, <2>2 DEF Bijection, Injection, Surjection, IsInjective
  <1> QED BY <1>1, FS_Bijection DEF ExistsBijection

\* Some places, and others that count on from a.
Joined(P, a, Q) == P \cup {a + k : k \in Q}

LEMMA RankJoins ==
    ASSUME NEW P \in SUBSET Nat, IsFiniteSet(P), NEW a \in Nat, \A k \in P : k <= a,
           NEW Q \in SUBSET (Nat \ {0}), IsFiniteSet(Q)
    PROVE  /\ Joined(P, a, Q) \in SUBSET Nat /\ IsFiniteSet(Joined(P, a, Q))
           /\ Cardinality(Joined(P, a, Q)) = Cardinality(P) + Cardinality(Q)
           /\ \A k \in P : Rank(Joined(P, a, Q), k) = Rank(P, k)
           /\ \A k \in Q : Rank(Joined(P, a, Q), a + k) = Cardinality(P) + Rank(Q, k)
  <1> PICK R : R = P \cup {a + k : k \in Q}
    OBVIOUS
  <1>1. ASSUME NEW X \in SUBSET Q
        PROVE  /\ IsFiniteSet(P \cup {a + k : k \in X})
               /\ Cardinality(P \cup {a + k : k \in X}) = Cardinality(P) + Cardinality(X)
    <2>1. IsFiniteSet(X) /\ X \in SUBSET Nat
      BY FS_Subset
    <2> PICK Y : Y = {a + k : k \in X}
      OBVIOUS
    <2>2. IsFiniteSet(Y) /\ Cardinality(Y) = Cardinality(X)
      BY <2>1, Shifted
    <2>3. P \cap Y = {}
      <3>1. \A k \in X : a + k > a
        OBVIOUS
      <3> QED BY <3>1
    <2>4. Cardinality(P \cap Y) = 0
      BY <2>3, FS_EmptySet
    <2>5. Cardinality(P) \in Nat /\ Cardinality(X) \in Nat
      BY <2>1, FS_CardinalityType
    <2>6. /\ IsFiniteSet(P \cup Y)
          /\ Cardinality(P \cup Y) = Cardinality(P) + Cardinality(Y) - Cardinality(P \cap Y)
      BY <2>2, FS_Union
    <2> QED BY <2>2, <2>4, <2>5, <2>6
  <1>2. R \in SUBSET Nat /\ IsFiniteSet(R) /\ Cardinality(R) = Cardinality(P) + Cardinality(Q)
    <2>1. Q \in SUBSET Q /\ \A k \in Q : a + k \in Nat
      OBVIOUS
    <2> QED BY <1>1, <2>1
  <1>3. ASSUME NEW k \in P
        PROVE  Rank(R, k) = Rank(P, k)
    <2>1. \A j \in Q : ~(a + j <= k)
      OBVIOUS
    <2>2. {j \in R : j <= k} = {j \in P : j <= k}
      BY <2>1
    <2> QED BY <2>2 DEF Rank
  <1>4. ASSUME NEW k \in Q
        PROVE  Rank(R, a + k) = Cardinality(P) + Rank(Q, k)
    <2> DEFINE X == {j \in Q : j <= k}
    <2>1. {j \in R : j <= a + k} = P \cup {a + j : j \in X}
      <3>1. \A j \in P : j <= a + k
        OBVIOUS
      <3>2. \A j \in Q : a + j <= a + k <=> j <= k
        OBVIOUS
      <3> QED BY <3>1, <3>2
    <2>2. Cardinality(P \cup {a + j : j \in X}) = Cardinality(P) + Cardinality(X)
      BY <1>1
    <2> QED BY <2>1, <2>2 DEF Rank
  <1>5. R = Joined(P, a, Q)
    BY DEF Joined
  <1> QED BY <1>2, <1>3, <1>4, <1>5

LEMMA PicksTyped ==
    ASSUME NEW records \in Seq(Requests), NEW selection
    PROVE  /\ Picks(records, selection) \in SUBSET (Nat \ {0})
           /\ IsFiniteSet(Picks(records, selection))
           /\ \A k \in Picks(records, selection) : k <= Len(records)
  <1> DEFINE P == Picks(records, selection)
  <1>1. P \in SUBSET (1..Len(records)) /\ Len(records) \in Nat
    BY DEF Picks
  <1>2. IsFiniteSet(1..Len(records))
    BY <1>1, FS_Interval
  <1> QED BY <1>1, <1>2, FS_Subset

LEMMA MatchingTyped ==
    ASSUME NEW records \in Seq(Requests), NEW selection
    PROVE  /\ Matching(records, selection) \in Seq(Requests)
           /\ Len(Matching(records, selection)) = Cardinality(Picks(records, selection))
           /\ \A i \in 1..Cardinality(Picks(records, selection)) :
                Matching(records, selection)[i] = records[Nth(Picks(records, selection), i)]
  <1> DEFINE P == Picks(records, selection)
  <1>1. P \in SUBSET Nat /\ IsFiniteSet(P)
    BY PicksTyped
  <1>2. Cardinality(P) \in Nat /\ \A i \in 1..Cardinality(P) : Nth(P, i) \in P
    BY <1>1, NthIsThere
  <1>3. \A k \in P : records[k] \in Requests
    BY DEF Picks
  <1>4. Matching(records, selection) = [i \in 1..Cardinality(P) |-> records[Nth(P, i)]]
    BY DEF Matching
  <1> HIDE DEF P
  <1>5. \A i \in 1..Cardinality(P) : records[Nth(P, i)] \in Requests
    BY <1>2, <1>3
  <1> QED BY <1>2, <1>4, <1>5 DEF P

\* What is selected from a part and from the part after it.
LEMMA MatchingJoins ==
    ASSUME NEW records \in Seq(Requests), NEW selection,
           NEW b \in 0..Len(records), NEW a \in 0..b
    PROVE  Matching(Part(records, 0, a), selection) \o Matching(Part(records, a, b), selection)
             = Matching(Part(records, 0, b), selection)
  <1>0. a \in Nat /\ b \in Nat /\ Len(records) \in Nat /\ a <= b /\ b <= Len(records)
    OBVIOUS
  <1> PICK s : s = Part(records, 0, a)
    OBVIOUS
  <1> PICK t : t = Part(records, a, b)
    OBVIOUS
  <1> PICK u : u = Part(records, 0, b)
    OBVIOUS
  <1>1. /\ s \in Seq(Requests) /\ Len(s) = a /\ \A k \in 1..a : s[k] = records[k]
        /\ t \in Seq(Requests) /\ Len(t) = b - a /\ \A k \in 1..b - a : t[k] = records[a + k]
        /\ u \in Seq(Requests) /\ Len(u) = b /\ \A k \in 1..b : u[k] = records[k]
    <2>1. s \in Seq(Requests) /\ Len(s) = a /\ \A k \in 1..a : s[k] = records[k]
      BY <1>0 DEF Part
    <2>2. t \in Seq(Requests) /\ Len(t) = b - a /\ \A k \in 1..b - a : t[k] = records[a + k]
      BY <1>0 DEF Part
    <2>3. u \in Seq(Requests) /\ Len(u) = b /\ \A k \in 1..b : u[k] = records[k]
      BY <1>0 DEF Part
    <2> QED BY <2>1, <2>2, <2>3
  <1> DEFINE P == Picks(s, selection)
             Q == Picks(t, selection)
             R == Picks(u, selection)
  <1>2. R = P \cup {a + k : k \in Q}
    <2>1. P = {k \in 1..a : records[k] \in selection}
      BY <1>0, <1>1 DEF Picks
    <2>2. Q = {k \in 1..b - a : records[a + k] \in selection}
      BY <1>0, <1>1 DEF Picks
    <2>3. R = {k \in 1..b : records[k] \in selection}
      BY <1>0, <1>1 DEF Picks
    <2> HIDE DEF P, Q, R
    <2>4. ASSUME NEW k \in R, k > a
          PROVE  k \in {a + j : j \in Q}
      <3>1. k - a \in 1..b - a /\ a + (k - a) = k
        BY <1>0, <2>3, <2>4
      <3>2. k - a \in Q
        BY <2>2, <2>3, <2>4, <3>1
      <3> QED BY <3>1, <3>2
    <2>5. \A k \in R : k \in P \/ k > a
      BY <1>0, <2>1, <2>3
    <2>6. P \subseteq R
      BY <1>0, <2>1, <2>3
    <2>7. \A j \in Q : a + j \in R
      BY <1>0, <2>2, <2>3
    <2> QED BY <2>4, <2>5, <2>6, <2>7
  <1>3. /\ P \in SUBSET Nat /\ IsFiniteSet(P) /\ \A k \in P : k <= a
        /\ Q \in SUBSET (Nat \ {0}) /\ Q \in SUBSET Nat /\ IsFiniteSet(Q)
    BY <1>1, PicksTyped
  <1> HIDE DEF P, Q, R
  <1>4. /\ Cardinality(P) \in Nat /\ Cardinality(Q) \in Nat
        /\ \A i \in 1..Cardinality(P) : Nth(P, i) \in P /\ Rank(P, Nth(P, i)) = i
        /\ \A i \in 1..Cardinality(Q) : Nth(Q, i) \in Q /\ Rank(Q, Nth(Q, i)) = i
    BY <1>3, NthIsThere
  <1>5. /\ R \in SUBSET Nat /\ IsFiniteSet(R)
        /\ Cardinality(R) = Cardinality(P) + Cardinality(Q)
        /\ \A k \in P : Rank(R, k) = Rank(P, k)
        /\ \A k \in Q : Rank(R, a + k) = Cardinality(P) + Rank(Q, k)
    <2>1. R = Joined(P, a, Q)
      BY <1>2 DEF Joined
    <2> QED BY <1>0, <1>3, <2>1, RankJoins
  <1>6. \A k \in R : Nth(R, Rank(R, k)) = k
    BY <1>5, NthIsThere
  <1> PICK S : S = Matching(s, selection)
    OBVIOUS
  <1> PICK T : T = Matching(t, selection)
    OBVIOUS
  <1> PICK U : U = Matching(u, selection)
    OBVIOUS
  <1>7. /\ S \in Seq(Requests) /\ Len(S) = Cardinality(P)
        /\ \A i \in 1..Cardinality(P) : S[i] = s[Nth(P, i)]
        /\ T \in Seq(Requests) /\ Len(T) = Cardinality(Q)
        /\ \A i \in 1..Cardinality(Q) : T[i] = t[Nth(Q, i)]
        /\ U \in Seq(Requests) /\ Len(U) = Cardinality(R)
        /\ \A i \in 1..Cardinality(R) : U[i] = u[Nth(R, i)]
    <2>1. /\ s \in Seq(Requests) /\ t \in Seq(Requests) /\ u \in Seq(Requests)
      BY <1>1
    <2>2. S \in Seq(Requests) /\ Len(S) = Cardinality(P) /\ \A i \in 1..Cardinality(P) : S[i] = s[Nth(P, i)]
      BY ONLY <2>1, MatchingTyped, S = Matching(s, selection) DEF P
    <2>3. T \in Seq(Requests) /\ Len(T) = Cardinality(Q) /\ \A i \in 1..Cardinality(Q) : T[i] = t[Nth(Q, i)]
      BY ONLY <2>1, MatchingTyped, T = Matching(t, selection) DEF Q
    <2>4. U \in Seq(Requests) /\ Len(U) = Cardinality(R) /\ \A i \in 1..Cardinality(R) : U[i] = u[Nth(R, i)]
      BY ONLY <2>1, MatchingTyped, U = Matching(u, selection) DEF R
    <2> QED BY <2>2, <2>3, <2>4
  <1>8. ASSUME NEW i \in 1..Cardinality(P)
        PROVE  U[i] = S[i]
    <2> PICK k : k = Nth(P, i)
      OBVIOUS
    <2>1. k \in P /\ Rank(P, k) = i /\ k \in R
      BY <1>2, <1>4
    <2>2. Nth(R, i) = k
      BY <1>5, <1>6, <2>1
    <2>3. k \in 1..a
      BY <1>1, <2>1 DEF Picks, P
    <2>4. u[k] = s[k]
      BY <1>0, <1>1, <2>3
    <2>5. i \in 1..Cardinality(R)
      BY <1>4, <1>5
    <2> QED BY <1>7, <2>2, <2>4, <2>5
  <1>9. ASSUME NEW i \in 1..Cardinality(Q)
        PROVE  U[Cardinality(P) + i] = T[i]
    <2> PICK k : k = Nth(Q, i)
      OBVIOUS
    <2>1. k \in Q /\ Rank(Q, k) = i /\ a + k \in R
      BY <1>2, <1>4
    <2>2. Nth(R, Cardinality(P) + i) = a + k
      BY <1>5, <1>6, <2>1
    <2>3. k \in 1..b - a
      BY <1>1, <2>1 DEF Picks, Q
    <2>4. u[a + k] = t[k]
      BY <1>0, <1>1, <2>3
    <2>5. Cardinality(P) + i \in 1..Cardinality(R)
      BY <1>4, <1>5
    <2> QED BY <1>7, <2>2, <2>4, <2>5
  <1> PICK m, n : m = Cardinality(P) /\ n = Cardinality(Q)
    OBVIOUS
  <1>10. /\ m \in Nat /\ n \in Nat /\ Len(S) = m /\ Len(T) = n /\ Len(U) = m + n
         /\ \A i \in 1..m : U[i] = S[i]
         /\ \A i \in 1..n : U[m + i] = T[i]
    BY <1>4, <1>5, <1>7, <1>8, <1>9
  <1>11. S \o T = U
    <2>1. S \o T \in Seq(Requests) /\ Len(S \o T) = m + n
      <3>1. S \o T \in Seq(Requests)
        BY <1>7, ConcatProperties
      <3>2. Len(S \o T) = Len(S) + Len(T)
        BY <1>7, ConcatProperties
      <3> QED BY <1>10, <3>1, <3>2
    <2>2. ASSUME NEW i \in 1..m + n
          PROVE  (S \o T)[i] = U[i]
      <3>1. CASE i <= m
        BY <1>7, <1>10, <3>1
      <3>2. CASE i > m
        <4>1. i - m \in 1..n /\ m + (i - m) = i
          BY <1>10, <3>2
        <4>2. (S \o T)[i] = T[i - m]
          BY <1>7, <1>10, <3>2
        <4> QED BY <1>10, <4>1, <4>2
      <3> QED BY <1>10, <3>1, <3>2
    <2>3. Len(S \o T) = Len(U)
      BY <1>10, <2>1
    <2>4. \A i \in 1..Len(S \o T) : (S \o T)[i] = U[i]
      BY <2>1, <2>2
    <2> QED BY <1>7, <2>1, <2>3, <2>4, SeqEqual
  <1> QED BY <1>11

---------------------------------------------------------------------------
(* A page *)

\* The least place where a scan stops.
LEMMA Least ==
    ASSUME NEW s \in Nat, NEW t \in Nat, NEW T, T \subseteq s..t, T # {}
    PROVE  \E n \in T : \A k \in s..n - 1 : k \notin T
  <1>1. T \subseteq Nat
    OBVIOUS
  <1>2. PICK n \in T : \A k \in T : ~(<<k, n>> \in OpToRel(<, Nat))
    BY <1>1, NatLessThanWellFounded, WFMin
  <1>3. \A k \in T : ~(k < n)
    BY <1>1, <1>2 DEF OpToRel
  <1> QED BY <1>1, <1>3

\* The scan stops at or after its start, and after it if it promises more.
LEMMA PageIsTrue ==
    ASSUME NEW records \in Seq(Requests), NEW q,
           q.limits.scanned \in Nat \ {0}, q.limits.returned \in Nat \ {0},
           PageReply(records, q).kind = "page"
    PROVE  LET reply == PageReply(records, q) IN
           /\ reply.head = Len(records) /\ reply.from <= reply.to /\ reply.to <= Len(records)
           /\ reply.records = Matching(Part(records, reply.from, reply.to), reply.selection)
           /\ reply.more => reply.from < reply.to
           /\ reply.from = StartOf(q) /\ reply.to \in reply.from .. q.through.at
           /\ reply.selection = q.selection
           /\ reply.more \in BOOLEAN /\ (reply.more \/ reply.to = q.through.at)
           /\ WellFormed(records, q)
  <1> DEFINE s == StartOf(q)
             t == q.through.at
             T == {k \in s..t : ~GoesOn(records, q, k)}
             n == LastScanned(records, q)
  <1>1. WellFormed(records, q) /\ ~Overflows(records, q) /\ PageReply(records, q) = PageOf(records, q)
    BY DEF PageReply, Refused
  <1>2. /\ s \in Nat /\ t \in Nat /\ s <= t /\ t <= Len(records) /\ Len(records) \in Nat
    <2>1. q.after.at \in 0..Len(records) /\ t \in 0..Len(records) /\ q.after.at <= t
      BY <1>1 DEF WellFormed, ValidPosition
    <2>2. q.cursor # None => s \in q.after.at .. t
      BY <1>1 DEF WellFormed, CursorFits, StartOf
    <2>3. q.cursor = None => s = q.after.at
      BY DEF StartOf
    <2> QED BY <2>1, <2>2, <2>3
  <1> HIDE DEF s, t, n
  <1>3. ~GoesOn(records, q, t) /\ t \in T
    <2>1. ~Wants(records, q, t)
      BY <1>2 DEF Wants, t
    <2>2. ~GoesOn(records, q, t)
      BY <2>1 DEF GoesOn
    <2> QED BY <1>2, <2>2
  <1>4. \E k \in s..t : ~GoesOn(records, q, k) /\ \A j \in s..k - 1 : GoesOn(records, q, j)
    <2>1. PICK k \in T : \A j \in s..k - 1 : j \notin T
      BY <1>2, <1>3, Least
    <2>2. \A j \in s..k - 1 : j \in s..t
      BY <1>2, <2>1
    <2> QED BY <2>1, <2>2
  <1>5. n \in s..t /\ ~GoesOn(records, q, n)
    BY <1>4 DEF LastScanned, n, s, t
  <1>6. n \in Nat /\ s <= n /\ n <= t
    BY <1>2, <1>5
  <1>7. n # t => s < n
    <2> SUFFICES ASSUME n = s, n # t
                 PROVE  FALSE
      BY <1>2, <1>6
    <2>1. CountTo(records, q, n) = 0
      <3>1. {k \in s + 1 .. n : records[k] \in q.selection} = {}
        BY <1>2
      <3> QED BY <3>1, FS_EmptySet DEF CountTo, s
    <2>2. Wants(records, q, n)
      BY <1>2, <1>6, <2>1 DEF Wants, s, t
    <2> QED BY <1>1, <2>2 DEF Overflows, n, s
  <1>8. PageReply(records, q) =
            [kind |-> "page", from |-> s, to |-> n, selection |-> q.selection,
             records |-> Matching(Part(records, s, n), q.selection),
             head |-> Len(records), more |-> n # t]
    BY <1>1 DEF PageOf, n, s, t
  <1> DEFINE reply == PageReply(records, q)
  <1>9. /\ reply.from = s /\ reply.to = n /\ reply.head = Len(records)
        /\ reply.selection = q.selection
        /\ reply.records = Matching(Part(records, s, n), q.selection)
    BY <1>8
  <1>10. reply.more = (n # t)
    BY ONLY <1>8
  <1>11. reply.more => s < n
    <2>1. CASE n = t
      <3>1. (n # t) = FALSE
        BY <2>1
      <3>2. reply.more = FALSE
        BY ONLY <1>10, <3>1
      <3> QED BY ONLY <3>2
    <2>2. CASE n # t
      BY <1>7, <2>2
    <2> QED BY <2>1, <2>2
  <1> HIDE DEF reply
  <1>12. /\ reply.head = Len(records) /\ reply.from <= reply.to /\ reply.to <= Len(records)
         /\ reply.records = Matching(Part(records, reply.from, reply.to), reply.selection)
         /\ reply.more => reply.from < reply.to
         /\ reply.to \in reply.from .. t
    BY <1>2, <1>6, <1>9, <1>11
  <1>13. reply.more \in BOOLEAN /\ (reply.more \/ reply.to = t)
    <2>1. CASE n = t
      BY <1>9, <1>10, <2>1
    <2>2. CASE n # t
      BY <1>10, <2>2
    <2> QED BY <2>1, <2>2
  <1> QED BY <1>1, <1>9, <1>12, <1>13 DEF reply, s, t

---------------------------------------------------------------------------
(* The invariant *)

Late == {"read", "packed", "rechecked", "latest"}

Packed == {"packed", "rechecked", "latest"}

CallTyped ==
    /\ world \in Worlds
    /\ call # None => call \in Calls

\* While the lease is held only the journal changes; what was verified is the
\* log, and stays it.
SourceInv ==
    call # None =>
        /\ call.leased => At("down") /\ witness # None
        /\ call.stage \in {"leased", "captured"} => call.leased
        /\ call.stage = "captured" => Genuine(call.image, Log)
        /\ call.stage \in Late /\ call.outcome = "good" => call.leased /\ call.image = Log
        /\ call.stage \in Packed /\ call.outcome = "good" /\ call.about # None =>
              Holds(Log, call.about)

\* What the callbacks found was there since the reply was packed.
PermitInv ==
    call # None =>
        /\ call.stage \in Packed => world.permits \subseteq call.held
        /\ call.stage \in {"rechecked", "latest"} /\ call.granted =>
              {Disclosure(call), "custody"} \subseteq call.held
        /\ call.stage = "latest" /\ call.latest # "denied" => "owner" \in call.held

\* What is reserved and not moved yet covers the comparisons to come.
WorkInv ==
    call # None =>
        /\ call.source <= SourceCeiling /\ call.io <= IoCeiling /\ call.moved <= call.io
        /\ call.stage \notin Late \cup {"captured"} => call.size = 0
        /\ call.stage = "captured" => call.moved + 4 * call.size <= call.io
        /\ call.leased => call.moved + 2 * call.size <= call.io
        /\ call.stage \notin Packed => call.frames = 0 /\ call.callbacks <= 4
        /\ call.stage = "asked" => call.callbacks = 0
        /\ call.stage = "looked" => call.callbacks <= 1
        /\ call.stage = "authorized" => call.callbacks <= 2
        /\ call.stage \in Packed => call.frames <= 1
        /\ call.stage = "packed" => call.callbacks <= 5
        /\ call.stage = "rechecked" => call.callbacks <= 9
        /\ call.stage = "latest" => call.callbacks <= 10

\* Of an answer: it is true, it was permitted, it was paid for.
AnswerInv ==
    /\ AnswersAreTheHistory /\ NothingWithoutPermission
    /\ answer # None =>
         /\ answer.call.callbacks <= 16
         /\ answer.call.frames + (IF answer.reply.kind = "refused" THEN 1 ELSE 0) <= 2

ReadInv == StoreInv /\ CallTyped /\ SourceInv /\ PermitInv /\ WorkInv /\ AnswerInv

---------------------------------------------------------------------------
(* The store under a reader *)

LEMMA StoreInvKept ==
    ASSUME StoreInv, [Next]_vars
    PROVE  StoreInv'
  BY StepType, FilesStep, CreationStep, TruthStep, PlaceStep, CleanStep, VerdictStep, StutterInv
     DEF StoreInv, Bracketed

\* A content that answers to the witness is all that was committed.
LEMMA ResolvedIsLog ==
    ASSUME StoreInv, witness # None, NEW s, Genuine(s, Log), Readable(s), Resolved(s) # {}
    PROVE  s = Log
  <1>1. Log \in Seq(Requests) /\ s \in Seq(Requests) /\ witness \in Witnesses
    BY LogTyped DEF StoreInv, TypeOK, Genuine, Readable
  <1>2. Len(s) <= Len(Log) /\ Len(s) \in Nat /\ Len(Log) \in Nat
    BY <1>1, NoneAssumption DEF Genuine
  <1>3. CASE committed = None
    <2>1. Log = <<>>
      BY <1>3 DEF Log
    <2>2. Len(s) = 0
      BY <1>2, <2>1
    <2> QED BY <1>1, <2>1, <2>2
  <1>4. CASE committed # None
    <2>1. Truth = CutOf(Log)
      BY <1>4 DEF Log, Truth
    <2>2. HeadIs(s, Truth)
      <3>1. CASE witness.pending = None
        <4>1. HeadIs(s, witness.cut)
          BY <3>1 DEF Resolved
        <4>2. Truth = witness.cut
          BY <3>1 DEF StoreInv, PendingInv, PendingIs
        <4> QED BY <4>1, <4>2
      <3>2. CASE witness.pending # None /\ witness.pending.stage = "Prepared"
        <4>1. HeadIs(s, witness.cut)
          BY <3>2 DEF Resolved
        <4>2. Truth = witness.cut
          BY <3>2 DEF StoreInv, PendingInv, PendingIs
        <4> QED BY <4>1, <4>2
      <3>3. CASE witness.pending # None /\ witness.pending.stage # "Prepared"
        <4>1. HeadIs(s, witness.pending.after)
          BY <3>3 DEF Resolved
        <4>2. /\ witness.cut.revision \in Nat
              /\ witness.pending.after.revision = witness.cut.revision + 1
          <5>1. CutOf(<<>>).revision = 1
            BY DEF CutOf
          <5>2. witness.cut.revision \in Nat
            BY <1>1 DEF Witnesses, Cuts
          <5> QED BY <1>1, <3>3, <5>1, <5>2 DEF StoreInv, PendingInv, EmptyCut, Advanced
        <4>3. witness.pending.after.revision = Len(s) + 1 /\ Truth.revision = Len(Log) + 1
          BY <1>1, <2>1, <4>1, CutTyped DEF HeadIs
        <4>4. Truth # witness.cut
          BY <1>2, <4>2, <4>3
        <4>5. Truth = witness.pending.after
          BY <4>4 DEF StoreInv, WitnessBracketsTruth
        <4> QED BY <4>1, <4>5
      <3> QED BY <3>1, <3>2, <3>3
    <2> QED BY <1>1, <2>1, <2>2, SameCut
  <1> QED BY <1>3, <1>4

\* The sizes of the files that are copied.
LEMMA SizesTyped ==
    ASSUME StoreInv
    PROVE  /\ CopySize \in Nat /\ CaptureMoves \in Nat /\ CaptureMoves <= 8 * CopySize
           /\ Inspected \in Contents /\ Genuine(Inspected, Log)
           /\ ObjectOf(wal) \in Nat \cup {None}
  <1>1. /\ main \in Contents /\ wal \in Journals \cup {None}
        /\ Genuine(main, Log) /\ (wal # None => Genuine(wal.content, Log))
    BY DEF StoreInv, TypeOK, FilesAreGenuine
  <1>2. wal # None => wal.content \in Contents /\ wal.object \in Nat
    BY <1>1 DEF Journals
  <1>3. \A s \in Contents : SizeOf(s) \in Nat
    BY DEF SizeOf, Contents, Readable
  <1>4. MainSize \in Nat /\ JournalSize \in Nat
    BY <1>1, <1>2, <1>3 DEF MainSize, JournalSize
  <1>5. CopySize \in Nat /\ MainSize <= CopySize
    BY <1>4 DEF CopySize
  <1>6. CaptureMoves \in Nat /\ CaptureMoves <= 8 * CopySize
    BY <1>4, <1>5 DEF CaptureMoves
  <1>7. Inspected \in Contents /\ Genuine(Inspected, Log)
    BY <1>1, <1>2 DEF Inspected, Visible
  <1>8. ObjectOf(wal) \in Nat \cup {None}
    BY <1>2 DEF ObjectOf
  <1> QED BY <1>5, <1>6, <1>7, <1>8

---------------------------------------------------------------------------
(* A call goes on *)

\* What is known of a call.
LEMMA CallFacts ==
    ASSUME ReadInv, call # None
    PROVE  /\ StoreInv /\ SourceInv /\ PermitInv /\ WorkInv /\ call \in Calls /\ world \in Worlds
           /\ world.version \in Nat /\ world.permits \subseteq Permits
           /\ call.stage \in CallStages /\ call.about \in Requests \cup {None}
           /\ call.leased \in BOOLEAN /\ call.image \in Contents /\ call.size \in Nat
           /\ call.source \in Nat /\ call.io \in Nat /\ call.moved \in Nat
           /\ call.callbacks \in Nat /\ call.frames \in Nat /\ call.held \subseteq Permits
           /\ call.outcome \in {"good", "Unavailable", "Limit", "Denied"}
           /\ call.granted \in BOOLEAN /\ call.latest \in {"same", "changed", "denied"}
  <1>1. call \in Calls /\ world \in Worlds
    BY DEF ReadInv, CallTyped
  <1> QED BY <1>1, ReadingAssumption DEF ReadInv, Calls

\* Nothing was said yet, and the files are as they were.
LEMMA StepKeeps ==
    ASSUME ReadInv, NEW c, Step(c), CallTyped', SourceInv', PermitInv', WorkInv'
    PROVE  ReadInv'
  <1>1. UNCHANGED vars /\ answer' = None
    BY DEF Step
  <1>2. StoreInv'
    BY <1>1, StutterInv DEF ReadInv
  <1>3. AnswerInv'
    BY <1>1 DEF AnswerInv, AnswersAreTheHistory, NothingWithoutPermission
  <1> QED BY <1>2, <1>3 DEF ReadInv

\* The files and the host while the call goes on.
LEMMA StepLeaves ==
    ASSUME NEW c, Step(c)
    PROVE  /\ call' = c /\ UNCHANGED << witness, wal, pc, committed, world >>
           /\ Log' = Log /\ At("down")' = At("down")
  BY DEF Step, vars, persistent, process, history, host, Log, At

LEMMA AskKeeps ==
    ASSUME ReadInv, NEW about \in Requests \cup {None}, Ask(about)
    PROVE  ReadInv'
  <1> DEFINE c == [stage |-> "asked", about |-> about, version |-> 0, leased |-> FALSE,
                   image |-> None, journal |-> None, size |-> 0,
                   outcome |-> "good", granted |-> FALSE, latest |-> "same",
                   source |-> 0, io |-> 0, moved |-> 0, callbacks |-> 0, frames |-> 0,
                   held |-> {}]
  <1>1. Step(c)
    BY DEF Ask
  <1>2. c \in Calls
    BY DEF Calls, CallStages, Contents
  <1>3. call' = c /\ world' = world
    BY <1>1, StepLeaves
  <1>4. CallTyped'
    BY <1>2, <1>3 DEF CallTyped, ReadInv
  <1>5. SourceInv' /\ PermitInv'
    BY <1>3 DEF SourceInv, PermitInv, Late, Packed
  <1>6. WorkInv'
    BY <1>3, ReadingAssumption DEF WorkInv, Late, Packed
  <1> QED BY <1>1, <1>4, <1>5, <1>6, StepKeeps

\* The callbacks before anything is touched.
LEMMA LooksKeep ==
    ASSUME ReadInv, Look \/ Authorize \/ AuthorizeCustody
    PROVE  ReadInv'
  <1>1. PICK c : /\ Step(c) /\ call # None
                 /\ \/ /\ call.stage = "asked"
                       /\ c = [call EXCEPT !.stage = "looked", !.version = world.version,
                                           !.callbacks = @ + 1]
                    \/ /\ call.stage = "looked"
                       /\ c = [call EXCEPT !.stage = "authorized", !.callbacks = @ + 1]
                    \/ /\ call.stage = "authorized"
                       /\ c = [call EXCEPT !.stage = "admitted", !.callbacks = @ + 2]
    BY DEF Look, Authorize, AuthorizeCustody, CallAt
  <1>2. /\ call \in Calls /\ world \in Worlds /\ world.version \in Nat
        /\ SourceInv /\ PermitInv /\ WorkInv /\ call.callbacks \in Nat
    BY <1>1, CallFacts
  <1>3. call' = c /\ world' = world /\ Log' = Log /\ At("down")' = At("down") /\ witness' = witness
    BY <1>1, StepLeaves
  <1>4. c \in Calls
    <2>1. call.callbacks + 1 \in Nat /\ call.callbacks + 2 \in Nat
      BY <1>2
    <2>2. CASE c = [call EXCEPT !.stage = "looked", !.version = world.version, !.callbacks = @ + 1]
      BY <1>2, <2>1, <2>2 DEF Calls, CallStages
    <2>3. CASE c = [call EXCEPT !.stage = "authorized", !.callbacks = @ + 1]
      BY <1>2, <2>1, <2>3 DEF Calls, CallStages
    <2>4. CASE c = [call EXCEPT !.stage = "admitted", !.callbacks = @ + 2]
      BY <1>2, <2>1, <2>4 DEF Calls, CallStages
    <2> QED BY <1>1, <2>2, <2>3, <2>4
  <1>5. /\ c.stage \in {"looked", "authorized", "admitted"}
        /\ c.leased = call.leased /\ c.size = call.size /\ c.source = call.source
        /\ c.io = call.io /\ c.moved = call.moved /\ c.frames = call.frames
        /\ c.callbacks = call.callbacks + (IF call.stage = "authorized" THEN 2 ELSE 1)
        /\ call.stage = "asked" => c.stage = "looked"
        /\ call.stage = "looked" => c.stage = "authorized"
        /\ call.stage = "authorized" => c.stage = "admitted"
        /\ call.stage \in {"asked", "looked", "authorized"}
    BY <1>1, <1>2 DEF Calls
  <1>6. CallTyped'
    BY <1>2, <1>3, <1>4 DEF CallTyped
  <1>7. SourceInv' /\ PermitInv'
    BY <1>1, <1>2, <1>3, <1>5 DEF SourceInv, PermitInv, Late, Packed
  <1>8. WorkInv'
    BY <1>1, <1>2, <1>3, <1>5 DEF WorkInv, Late, Packed
  <1> QED BY <1>1, <1>6, <1>7, <1>8, StepKeeps

LEMMA LeaseKeeps ==
    ASSUME ReadInv, Lease
    PROVE  ReadInv'
  <1> DEFINE e == [call EXCEPT !.stage = "leased", !.leased = TRUE,
                               !.source = @ + WitnessSize, !.io = @ + WitnessSize,
                               !.moved = @ + WitnessSize]
  <1>1. /\ Step(e) /\ call # None /\ call.stage = "admitted" /\ At("down") /\ witness # None
        /\ Affordable(call, WitnessSize, WitnessSize)
    BY DEF Lease, CallAt
  <1> PICK c : c = e
    OBVIOUS
  <1>2. /\ call \in Calls /\ world \in Worlds /\ SourceInv /\ PermitInv /\ WorkInv
        /\ call.source \in Nat /\ call.io \in Nat /\ call.moved \in Nat /\ call.size \in Nat
    BY <1>1, CallFacts
  <1>3. call' = c /\ world' = world /\ Log' = Log /\ At("down")' = At("down") /\ witness' = witness
    BY <1>1, StepLeaves
  <1>4. c \in Calls
    <2>1. call.source + WitnessSize \in Nat /\ call.io + WitnessSize \in Nat
          /\ call.moved + WitnessSize \in Nat
      BY <1>2 DEF WitnessSize
    <2> QED BY <1>2, <2>1 DEF Calls, CallStages
  <1>5. /\ c.stage = "leased" /\ c.leased = TRUE /\ c.size = call.size
        /\ c.source = call.source + 1 /\ c.io = call.io + 1 /\ c.moved = call.moved + 1
        /\ c.frames = call.frames /\ c.callbacks = call.callbacks
    BY <1>1, <1>2 DEF Calls, WitnessSize
  <1>6. CallTyped'
    BY <1>2, <1>3, <1>4 DEF CallTyped
  <1>7. SourceInv' /\ PermitInv'
    BY <1>1, <1>2, <1>3, <1>5 DEF SourceInv, PermitInv, Late, Packed
  <1>8. WorkInv'
    BY <1>1, <1>2, <1>3, <1>5 DEF WorkInv, Late, Packed, Affordable, WitnessSize
  <1> QED BY <1>1, <1>6, <1>7, <1>8, StepKeeps

LEMMA CaptureKeeps ==
    ASSUME ReadInv, Capture
    PROVE  ReadInv'
  <1> DEFINE e == [call EXCEPT !.stage = "captured", !.image = Inspected,
                               !.journal = ObjectOf(wal), !.size = CopySize,
                               !.source = @ + WitnessSize + CopySize,
                               !.io = @ + WitnessSize + CaptureReserve(CopySize),
                               !.moved = @ + WitnessSize + CaptureMoves]
  <1>1. /\ Step(e) /\ call # None /\ call.stage = "leased"
        /\ Affordable(call, WitnessSize + CopySize, WitnessSize + CaptureReserve(CopySize))
    BY DEF Capture, CallAt
  <1> PICK c : c = e
    OBVIOUS
  <1>2. /\ call \in Calls /\ world \in Worlds /\ SourceInv /\ PermitInv /\ WorkInv /\ StoreInv
        /\ call.source \in Nat /\ call.io \in Nat /\ call.moved \in Nat /\ call.size \in Nat
    BY <1>1, CallFacts
  <1>3. call' = c /\ world' = world /\ Log' = Log /\ At("down")' = At("down") /\ witness' = witness
    BY <1>1, StepLeaves
  <1> PICK size : size = CopySize
    OBVIOUS
  <1> PICK moves1 : moves1 = CaptureMoves
    OBVIOUS
  <1>4. /\ size \in Nat /\ moves1 \in Nat /\ moves1 <= 8 * size
        /\ Inspected \in Contents /\ Genuine(Inspected, Log) /\ ObjectOf(wal) \in Nat \cup {None}
    BY <1>2, SizesTyped
  <1>5. /\ c.stage = "captured" /\ c.leased = call.leased /\ c.size = size
        /\ c.image = Inspected
        /\ c.source = call.source + 1 + size /\ c.io = call.io + 1 + (16 * size + 1)
        /\ c.moved = call.moved + 1 + moves1
        /\ c.frames = call.frames /\ c.callbacks = call.callbacks
    BY <1>1, <1>2 DEF Calls, WitnessSize, CaptureReserve
  <1>6. c \in Calls
    <2>1. c.source \in Nat /\ c.io \in Nat /\ c.moved \in Nat
      BY <1>2, <1>4, <1>5
    <2> QED BY <1>2, <1>4, <2>1 DEF Calls, CallStages
  <1>7. CallTyped'
    BY <1>2, <1>3, <1>6 DEF CallTyped
  <1>8. SourceInv' /\ PermitInv'
    BY <1>1, <1>2, <1>3, <1>4, <1>5 DEF SourceInv, PermitInv, Late, Packed
  <1>9. WorkInv'
    <2>1. /\ call.source + (1 + size) <= SourceCeiling
          /\ call.io + (1 + (16 * size + 1)) <= IoCeiling
      BY <1>1 DEF Affordable, WitnessSize, CaptureReserve
    <2>2. call.moved <= call.io /\ call.frames = 0 /\ call.callbacks <= 4
      BY <1>1, <1>2 DEF WorkInv, Packed
    <2>3. /\ c.source <= SourceCeiling /\ c.io <= IoCeiling /\ c.moved <= c.io
          /\ c.moved + 4 * c.size <= c.io /\ c.moved + 2 * c.size <= c.io
      BY <1>2, <1>4, <1>5, <2>1, <2>2, ReadingAssumption
    <2> QED BY <1>3, <1>5, <2>2, <2>3 DEF WorkInv, Late, Packed
  <1> QED BY <1>1, <1>7, <1>8, <1>9, StepKeeps

LEMMA VerifyKeeps ==
    ASSUME ReadInv, Verify
    PROVE  ReadInv'
  <1> DEFINE e == [call EXCEPT !.stage = "read", !.source = @ + WitnessSize,
                               !.io = @ + WitnessSize + call.size,
                               !.moved = @ + WitnessSize + 3 * call.size]
  <1>1. /\ Step(e) /\ call # None /\ call.stage = "captured"
        /\ Readable(call.image) /\ Resolved(call.image) # {}
        /\ Affordable(call, WitnessSize, WitnessSize + call.size)
    BY DEF Verify, CallAt, Current
  <1> PICK c : c = e
    OBVIOUS
  <1>2. /\ call \in Calls /\ world \in Worlds /\ SourceInv /\ PermitInv /\ WorkInv /\ StoreInv
        /\ call.source \in Nat /\ call.io \in Nat /\ call.moved \in Nat /\ call.size \in Nat
    BY <1>1, CallFacts
  <1>3. call' = c /\ world' = world /\ Log' = Log /\ At("down")' = At("down") /\ witness' = witness
    BY <1>1, StepLeaves
  <1>4. call.image = Log
    <2>1. witness # None /\ Genuine(call.image, Log)
      BY <1>1, <1>2 DEF SourceInv
    <2> QED BY <1>1, <1>2, <2>1, ResolvedIsLog
  <1>5. /\ c.stage = "read" /\ c.leased = call.leased /\ c.size = call.size
        /\ c.image = call.image /\ c.about = call.about
        /\ c.source = call.source + 1 /\ c.io = call.io + 1 + call.size
        /\ c.moved = call.moved + 1 + 3 * call.size
        /\ c.frames = call.frames /\ c.callbacks = call.callbacks
    BY <1>1, <1>2 DEF Calls, WitnessSize
  <1>6. c \in Calls
    <2>1. c.source \in Nat /\ c.io \in Nat /\ c.moved \in Nat
      BY <1>2, <1>5
    <2> QED BY <1>2, <2>1 DEF Calls, CallStages
  <1>7. CallTyped'
    BY <1>2, <1>3, <1>6 DEF CallTyped
  <1>8. SourceInv' /\ PermitInv'
    BY <1>1, <1>2, <1>3, <1>4, <1>5 DEF SourceInv, PermitInv, Late, Packed
  <1>9. WorkInv'
    <2>1. /\ call.source + 1 <= SourceCeiling /\ call.io + (1 + call.size) <= IoCeiling
      BY <1>1 DEF Affordable, WitnessSize
    <2>2. call.moved + 4 * call.size <= call.io /\ call.frames = 0 /\ call.callbacks <= 4
      BY <1>1, <1>2 DEF WorkInv, Packed
    <2>3. /\ c.source <= SourceCeiling /\ c.io <= IoCeiling /\ c.moved <= c.io
          /\ c.moved + 2 * c.size <= c.io
      BY <1>2, <1>5, <2>1, <2>2, ReadingAssumption
    <2> QED BY <1>3, <1>5, <2>2, <2>3 DEF WorkInv, Late, Packed
  <1> QED BY <1>1, <1>7, <1>8, <1>9, StepKeeps

LEMMA FailKeeps ==
    ASSUME ReadInv, NEW reason \in {"Unavailable", "Limit"}, Fail(reason)
    PROVE  ReadInv'
  <1> DEFINE e == [call EXCEPT !.stage = "read", !.outcome = reason, !.leased = FALSE]
  <1>1. Step(e) /\ call # None /\ call.stage \in {"admitted", "leased", "captured"}
    BY DEF Fail, CallAt
  <1> PICK c : c = e
    OBVIOUS
  <1>2. /\ call \in Calls /\ world \in Worlds /\ SourceInv /\ PermitInv /\ WorkInv
        /\ call.source \in Nat /\ call.io \in Nat /\ call.moved \in Nat /\ call.size \in Nat
    BY <1>1, CallFacts
  <1>3. call' = c /\ world' = world /\ Log' = Log
    BY <1>1, StepLeaves
  <1>4. c \in Calls
    BY <1>2 DEF Calls, CallStages
  <1>5. /\ c.stage = "read" /\ c.leased = FALSE /\ c.outcome # "good"
        /\ c.source = call.source /\ c.io = call.io /\ c.moved = call.moved
        /\ c.frames = call.frames /\ c.callbacks = call.callbacks
    BY <1>2 DEF Calls
  <1>6. CallTyped'
    BY <1>2, <1>3, <1>4 DEF CallTyped
  <1>7. SourceInv' /\ PermitInv' /\ WorkInv'
    BY <1>1, <1>2, <1>3, <1>5 DEF SourceInv, PermitInv, WorkInv, Late, Packed
  <1> QED BY <1>1, <1>6, <1>7, StepKeeps

\* Steps that write several fields of a call.
LEMMA PackedIsCall ==
    ASSUME NEW d \in Calls, NEW o \in {"good", "Unavailable", "Limit", "Denied"},
           NEW m \in Nat, NEW k \in Nat, NEW h \in SUBSET Permits,
           NEW c, c = [d EXCEPT !.stage = "packed", !.outcome = o, !.callbacks = m,
                                !.frames = k, !.held = h]
    PROVE  c \in Calls
  BY DEF Calls, CallStages

LEMMA LatestIsCall ==
    ASSUME NEW d \in Calls, NEW m \in Nat, NEW l \in {"same", "changed", "denied"},
           NEW c, c = [d EXCEPT !.stage = "latest", !.callbacks = m, !.latest = l]
    PROVE  c \in Calls
  BY DEF Calls, CallStages

LEMMA PackKeeps ==
    ASSUME ReadInv, Pack
    PROVE  ReadInv'
  <1>0. call # None /\ call.stage = "read"
    BY DEF Pack, CallAt
  <1> PICK o \in Outcomes :
           Step([call EXCEPT !.stage = "packed", !.outcome = o,
                             !.callbacks = @ + (IF Retained THEN 1 ELSE 0),
                             !.frames = @ + (IF o = "good" THEN 0 ELSE 1),
                             !.held = world.permits])
    BY DEF Pack
  <1> PICK c : c = [call EXCEPT !.stage = "packed", !.outcome = o,
                                !.callbacks = @ + (IF Retained THEN 1 ELSE 0),
                                !.frames = @ + (IF o = "good" THEN 0 ELSE 1),
                                !.held = world.permits]
    OBVIOUS
  <1>1. Step(c)
    OBVIOUS
  <1>2. /\ call \in Calls /\ world \in Worlds /\ SourceInv /\ PermitInv /\ WorkInv
        /\ call.source \in Nat /\ call.io \in Nat /\ call.moved \in Nat /\ call.size \in Nat
        /\ call.callbacks \in Nat /\ call.frames \in Nat /\ world.permits \subseteq Permits
        /\ call.outcome \in {"good", "Unavailable", "Limit", "Denied"}
    BY <1>0, CallFacts
  <1>3. call' = c /\ world' = world /\ Log' = Log /\ At("down")' = At("down") /\ witness' = witness
    BY <1>1, StepLeaves
  <1>4. /\ o \in {"good", "Unavailable", "Limit", "Denied"}
        /\ o = "good" => call.outcome = "good" /\ (call.about # None => Holds(call.image, call.about))
    BY <1>2 DEF Outcomes, Retained
  <1>5. /\ c.stage = "packed" /\ c.leased = call.leased /\ c.size = call.size
        /\ c.image = call.image /\ c.about = call.about /\ c.outcome = o /\ c.held = world.permits
        /\ c.source = call.source /\ c.io = call.io /\ c.moved = call.moved
        /\ c.frames = call.frames + (IF o = "good" THEN 0 ELSE 1)
        /\ c.callbacks = call.callbacks + (IF Retained THEN 1 ELSE 0)
    BY <1>2 DEF Calls
  <1>6. c \in Calls
    <2>1. PICK m, k : /\ m = call.callbacks + (IF Retained THEN 1 ELSE 0)
                      /\ k = call.frames + (IF o = "good" THEN 0 ELSE 1)
      OBVIOUS
    <2>2. m \in Nat /\ k \in Nat
      BY <1>2, <2>1
    <2>3. c = [call EXCEPT !.stage = "packed", !.outcome = o, !.callbacks = m, !.frames = k,
                           !.held = world.permits]
      BY <1>2, <2>1 DEF Calls
    <2>4. world.permits \in SUBSET Permits
      BY <1>0, CallFacts
    <2>5. call \in Calls /\ o \in {"good", "Unavailable", "Limit", "Denied"}
      BY <1>2, <1>4
    <2> QED BY ONLY <2>2, <2>3, <2>4, <2>5, PackedIsCall
  <1>7. CallTyped'
    BY <1>2, <1>3, <1>6 DEF CallTyped
  <1>8. SourceInv' /\ PermitInv'
    BY <1>0, <1>2, <1>3, <1>4, <1>5 DEF SourceInv, PermitInv, Late, Packed
  <1>9. WorkInv'
    <2>1. call.frames = 0 /\ call.callbacks <= 4
      BY <1>0, <1>2 DEF WorkInv, Packed
    <2>2. c.frames <= 1 /\ c.callbacks <= 5
      BY <1>2, <1>5, <2>1
    <2> QED BY <1>0, <1>2, <1>3, <1>5, <2>2 DEF WorkInv, Late, Packed
  <1> QED BY <1>1, <1>7, <1>8, <1>9, StepKeeps

LEMMA RecheckKeeps ==
    ASSUME ReadInv, Recheck
    PROVE  ReadInv'
  <1> DEFINE e == [call EXCEPT !.stage = "rechecked",
                               !.granted = Allowed({Disclosure(call), "custody"}),
                               !.callbacks = @ + (IF Retained THEN 4 ELSE 3)]
  <1>1. Step(e) /\ call # None /\ call.stage = "packed"
    BY DEF Recheck, CallAt
  <1> PICK c : c = e
    OBVIOUS
  <1>2. /\ call \in Calls /\ world \in Worlds /\ SourceInv /\ PermitInv /\ WorkInv
        /\ call.source \in Nat /\ call.io \in Nat /\ call.moved \in Nat /\ call.size \in Nat
        /\ call.callbacks \in Nat /\ call.frames \in Nat
    BY <1>1, CallFacts
  <1>3. call' = c /\ world' = world /\ Log' = Log /\ At("down")' = At("down") /\ witness' = witness
    BY <1>1, StepLeaves
  <1>4. Allowed({Disclosure(call), "custody"}) \in BOOLEAN
    BY DEF Allowed
  <1>5. /\ c.stage = "rechecked" /\ c.leased = call.leased /\ c.size = call.size
        /\ c.image = call.image /\ c.about = call.about /\ c.outcome = call.outcome
        /\ c.held = call.held
        /\ c.source = call.source /\ c.io = call.io /\ c.moved = call.moved
        /\ c.frames = call.frames /\ c.callbacks = call.callbacks + (IF Retained THEN 4 ELSE 3)
    BY <1>2 DEF Calls
  <1>6. c.granted = Allowed({Disclosure(call), "custody"})
    BY <1>2 DEF Calls
  <1>7. c \in Calls
    <2>1. c.callbacks \in Nat
      BY <1>2, <1>5
    <2> QED BY <1>2, <1>4, <2>1 DEF Calls, CallStages
  <1>8. CallTyped'
    BY <1>2, <1>3, <1>7 DEF CallTyped
  <1>9. SourceInv'
    BY <1>1, <1>2, <1>3, <1>5 DEF SourceInv, Late, Packed
  <1>10. PermitInv'
    <2>1. world.permits \subseteq call.held /\ Disclosure(c) = Disclosure(call)
      BY <1>1, <1>2, <1>5 DEF PermitInv, Packed, Disclosure
    <2>2. c.granted => {Disclosure(c), "custody"} \subseteq c.held
      <3> SUFFICES ASSUME c.granted
                   PROVE  {Disclosure(c), "custody"} \subseteq c.held
        OBVIOUS
      <3>1. Allowed({Disclosure(call), "custody"})
        BY <1>6
      <3> QED BY <1>5, <2>1, <3>1 DEF Allowed
    <2>3. Disclosure(call)' = Disclosure(c)
      BY <1>3 DEF Disclosure
    <2> QED BY <1>3, <1>5, <2>1, <2>2, <2>3 DEF PermitInv
  <1>11. WorkInv'
    <2>1. call.frames <= 1 /\ call.callbacks <= 5
      BY <1>1, <1>2 DEF WorkInv, Packed
    <2>2. c.frames <= 1 /\ c.callbacks <= 9
      BY <1>2, <1>5, <2>1
    <2> QED BY <1>1, <1>2, <1>3, <1>5, <2>2 DEF WorkInv, Late, Packed
  <1> QED BY <1>1, <1>8, <1>9, <1>10, <1>11, StepKeeps

LEMMA LookAgainKeeps ==
    ASSUME ReadInv, LookAgain
    PROVE  ReadInv'
  <1> DEFINE seen == IF ~Allowed({"owner"}) THEN "denied"
                     ELSE IF world.version # call.version THEN "changed" ELSE "same"
             e == [call EXCEPT !.stage = "latest", !.callbacks = @ + 1, !.latest = seen]
  <1>1. Step(e) /\ call # None /\ call.stage = "rechecked"
    BY DEF LookAgain, CallAt
  <1> PICK c : c = e
    OBVIOUS
  <1>2. /\ call \in Calls /\ world \in Worlds /\ SourceInv /\ PermitInv /\ WorkInv
        /\ call.source \in Nat /\ call.io \in Nat /\ call.moved \in Nat /\ call.size \in Nat
        /\ call.callbacks \in Nat /\ call.frames \in Nat
    BY <1>1, CallFacts
  <1>3. call' = c /\ world' = world /\ Log' = Log /\ At("down")' = At("down") /\ witness' = witness
    BY <1>1, StepLeaves
  <1>4. /\ seen \in {"same", "changed", "denied"}
        /\ seen # "denied" => "owner" \in world.permits
    BY DEF Allowed
  <1>5. /\ c.stage = "latest" /\ c.leased = call.leased /\ c.size = call.size
        /\ c.image = call.image /\ c.about = call.about /\ c.outcome = call.outcome
        /\ c.held = call.held /\ c.latest = seen /\ c.granted = call.granted
        /\ c.source = call.source /\ c.io = call.io /\ c.moved = call.moved
        /\ c.frames = call.frames /\ c.callbacks = call.callbacks + 1
    BY <1>2 DEF Calls
  <1>6. c \in Calls
    <2>1. PICK m, l : m = call.callbacks + 1 /\ l = seen
      OBVIOUS
    <2>2. m \in Nat /\ l \in {"same", "changed", "denied"}
      BY <1>2, <1>4, <2>1
    <2>3. c = [call EXCEPT !.stage = "latest", !.callbacks = m, !.latest = l]
      BY <1>2, <2>1 DEF Calls
    <2> HIDE DEF seen, e
    <2> QED BY <1>2, <2>2, <2>3, LatestIsCall
  <1>7. CallTyped'
    BY <1>2, <1>3, <1>6 DEF CallTyped
  <1>8. SourceInv'
    BY <1>1, <1>2, <1>3, <1>5 DEF SourceInv, Late, Packed
  <1>9. PermitInv'
    <2> HIDE DEF seen
    <2>1. Disclosure(call)' = Disclosure(c) /\ Disclosure(c) = Disclosure(call)
      BY <1>3, <1>5 DEF Disclosure
    <2>2. world.permits \subseteq call.held
      BY <1>1, <1>2 DEF PermitInv, Packed
    <2>3. call.granted => {Disclosure(call), "custody"} \subseteq call.held
      BY <1>1, <1>2 DEF PermitInv
    <2> QED BY <1>3, <1>4, <1>5, <2>1, <2>2, <2>3 DEF PermitInv
  <1>10. WorkInv'
    <2>1. call.frames <= 1 /\ call.callbacks <= 9
      BY <1>1, <1>2 DEF WorkInv, Packed
    <2>2. c.frames <= 1 /\ c.callbacks <= 10
      BY <1>2, <1>5, <2>1
    <2> QED BY <1>1, <1>2, <1>3, <1>5, <2>2 DEF WorkInv, Late, Packed
  <1> QED BY <1>1, <1>7, <1>8, <1>9, <1>10, StepKeeps

---------------------------------------------------------------------------
(* A call ends *)

\* An answer that is true and permitted ends the call.
LEMMA ReplyKeeps ==
    ASSUME ReadInv, call # None, NEW reply, NEW early \in BOOLEAN, Reply(reply, early),
           UNCHANGED << vars, host >>, Truthful(reply),
           ~early /\ reply # Refused("Denied") => Needs(call) \subseteq call.held
    PROVE  ReadInv'
  <1>1. /\ answer' = [reply |-> reply, early |-> early, call |-> call]
        /\ call' = None /\ world' = world /\ UNCHANGED vars
    BY DEF Reply, host
  <1> PICK c : c = call
    OBVIOUS
  <1>2. /\ WorkInv /\ call \in Calls /\ world \in Worlds /\ call.frames \in Nat
        /\ call.callbacks \in Nat /\ call.stage \in CallStages
    BY CallFacts
  <1>3. StoreInv'
    BY <1>1, StutterInv DEF ReadInv
  <1>4. CallTyped' /\ SourceInv' /\ PermitInv' /\ WorkInv'
    BY <1>1, <1>2 DEF CallTyped, SourceInv, PermitInv, WorkInv
  <1>5. answer'.reply = reply /\ answer'.call = c /\ answer'.early = early
    BY <1>1
  <1>6. AnswersAreTheHistory'
    <2>1. Log' = Log
      BY <1>1 DEF vars, history, Log
    <2>2. Truthful(reply)'
      BY <2>1 DEF Truthful, ValidPosition
    <2> QED BY <1>5, <2>2 DEF AnswersAreTheHistory, Truthful
  <1>7. NothingWithoutPermission'
    <2>1. Needs(c) = Needs(call)
      OBVIOUS
    <2>2. ~early /\ reply # Refused("Denied") => Needs(c) \subseteq c.held
      BY <2>1
    <2>3. Needs(answer.call)' = Needs(c)
      BY <1>5 DEF Needs, Disclosure
    <2> QED BY <1>5, <2>2, <2>3 DEF NothingWithoutPermission, Refused
  <1>8. c.callbacks <= 16 /\ c.frames <= 1
    BY <1>2 DEF WorkInv, CallStages, Packed
  <1>9. (answer # None =>
          /\ answer.call.callbacks <= 16
          /\ answer.call.frames + (IF answer.reply.kind = "refused" THEN 1 ELSE 0) <= 2)'
    BY <1>2, <1>5, <1>8
  <1> QED BY <1>3, <1>4, <1>6, <1>7, <1>9 DEF ReadInv, AnswerInv

LEMMA RefusedIsTrue ==
    ASSUME NEW reason
    PROVE  Truthful(Refused(reason))
  BY DEF Truthful, Refused

LEMMA TurnedKeeps ==
    ASSUME ReadInv, NEW reason, Turned(reason) \/ Deny
    PROVE  ReadInv'
  <1>1. /\ call # None /\ UNCHANGED << vars, host >>
        /\ Reply(Refused(reason), TRUE) \/ Reply(Refused("Denied"), TRUE)
    BY DEF Turned, Deny, CallAt
  <1> QED BY <1>1, RefusedIsTrue, ReplyKeeps

\* What the last step may rely on.
LEMMA LatestFacts ==
    ASSUME ReadInv, CallAt("latest")
    PROVE  /\ call # None
           /\ call.granted /\ call.latest # "denied" => Needs(call) \subseteq call.held
           /\ call.outcome = "good" => call.image = Log
           /\ call.outcome = "good" /\ call.about # None => Holds(Log, call.about)
           /\ Log \in Seq(Requests)
  <1>1. call # None /\ call.stage = "latest"
    BY DEF CallAt
  <1>2. SourceInv /\ PermitInv /\ StoreInv
    BY DEF ReadInv
  <1>3. Log \in Seq(Requests)
    BY <1>2, LogTyped DEF StoreInv
  <1>4. call.granted /\ call.latest # "denied" => Needs(call) \subseteq call.held
    BY <1>1, <1>2 DEF PermitInv, Needs
  <1> QED BY <1>1, <1>2, <1>3, <1>4 DEF SourceInv, Late, Packed

LEMMA FinishRefusedKeeps ==
    ASSUME ReadInv, FinishRefused
    PROVE  ReadInv'
  <1>1. CallAt("latest") /\ UNCHANGED << vars, host >>
    BY DEF FinishRefused
  <1> PICK reason \in Refusals : Reply(Refused(reason), FALSE)
    BY DEF FinishRefused
  <1>2. Refused(reason) # Refused("Denied") => call.granted /\ call.latest # "denied"
    BY DEF Refusals
  <1>3. call # None /\ (Refused(reason) # Refused("Denied") => Needs(call) \subseteq call.held)
    BY <1>1, <1>2, LatestFacts
  <1> QED BY <1>1, <1>3, RefusedIsTrue, ReplyKeeps

LEMMA PageReplyIsTrue ==
    ASSUME Log \in Seq(Requests), NEW q,
           q.limits.scanned \in Nat \ {0}, q.limits.returned \in Nat \ {0}
    PROVE  Truthful(PageReply(Log, q))
  <1> PICK log \in Seq(Requests) : log = Log
    OBVIOUS
  <1>1. CASE PageReply(log, q).kind = "page"
    BY <1>1, PageIsTrue DEF Truthful
  <1>2. CASE PageReply(log, q).kind # "page"
    <2>1. PageReply(log, q).kind = "refused"
      BY <1>2 DEF PageReply, PageOf, Refused
    <2> QED BY <2>1 DEF Truthful
  <1> QED BY <1>1, <1>2

LEMMA AnchorsAreTrue ==
    ASSUME Log \in Seq(Requests), NEW reply \in AnchorReplies(Log)
    PROVE  Truthful(reply)
  <1>0. Len(Log) \in Nat
    OBVIOUS
  <1>1. CASE reply = Refused("Invalid")
    BY <1>1, RefusedIsTrue
  <1>2. ASSUME NEW n \in 0..Len(Log),
               reply = [kind |-> "position", current |-> FALSE, position |-> PositionAt(Log, n)]
        PROVE  Truthful(reply)
    <2>1. ValidPosition(Log, PositionAt(Log, n))
      BY DEF ValidPosition, PositionAt
    <2> QED BY <1>2, <2>1 DEF Truthful
  <1>3. ASSUME reply = [kind |-> "position", current |-> TRUE,
                        position |-> PositionAt(Log, Len(Log))]
        PROVE  Truthful(reply)
    <2>1. ValidPosition(Log, PositionAt(Log, Len(Log))) /\ PositionAt(Log, Len(Log)).at = Len(Log)
      BY <1>0 DEF ValidPosition, PositionAt
    <2> QED BY <1>3, <2>1 DEF Truthful
  <1> QED BY <1>1, <1>2, <1>3 DEF AnchorReplies

LEMMA FinishReplyKeeps ==
    ASSUME ReadInv, FinishReply
    PROVE  ReadInv'
  <1>1. /\ CallAt("latest") /\ UNCHANGED << vars, host >>
        /\ call.granted /\ call.latest = "same" /\ call.outcome = "good"
    BY DEF FinishReply, Releasable
  <1> PICK reply \in Replies : Reply(reply, FALSE)
    BY DEF FinishReply
  <1>2. /\ call # None /\ Needs(call) \subseteq call.held /\ call.image = Log
        /\ call.about # None => Holds(Log, call.about)
        /\ Log \in Seq(Requests)
    BY <1>1, LatestFacts
  <1>3. Truthful(reply)
    <2>1. CASE call.about # None
      <3>1. reply = [kind |-> "content", of |-> call.about]
        BY <2>1 DEF Replies
      <3> QED BY <1>2, <2>1, <3>1 DEF Truthful
    <2>2. CASE call.about = None
      <3>1. reply \in AnchorReplies(Log) \/ \E q \in Probes : reply = PageReply(Log, q)
        BY <1>2, <2>2 DEF Replies
      <3>2. CASE reply \in AnchorReplies(Log)
        BY <1>2, <3>2, AnchorsAreTrue
      <3>3. ASSUME NEW q \in Probes, reply = PageReply(Log, q)
            PROVE  Truthful(reply)
        BY <1>2, <3>3, PageReplyIsTrue, ReadingAssumption
      <3> QED BY <3>1, <3>2, <3>3
    <2> QED BY <2>1, <2>2
  <1> QED BY <1>1, <1>2, <1>3, ReplyKeeps

LEMMA FinishPageKeeps ==
    ASSUME ReadInv, FinishPage
    PROVE  ReadInv'
  <1>1. /\ CallAt("latest") /\ UNCHANGED << vars, host >>
        /\ call.granted /\ call.latest = "same" /\ call.outcome = "good"
    BY DEF FinishPage, Releasable
  <1> PICK limits \in PageLimits : Reply(PageReply(call.image, NextPage(limits)), FALSE)
    BY DEF FinishPage
  <1>2. /\ call # None /\ Needs(call) \subseteq call.held /\ call.image = Log
        /\ Log \in Seq(Requests)
    BY <1>1, LatestFacts
  <1> PICK q : q = NextPage(limits)
    OBVIOUS
  <1>3. q.limits.scanned \in Nat \ {0} /\ q.limits.returned \in Nat \ {0}
    BY ReadingAssumption DEF NextPage
  <1> PICK reply : reply = PageReply(Log, q)
    OBVIOUS
  <1>4. Truthful(reply) /\ Reply(reply, FALSE)
    BY <1>2, <1>3, PageReplyIsTrue
  <1> QED BY <1>1, <1>2, <1>4, ReplyKeeps

LEMMA BeginKeeps ==
    ASSUME ReadInv, NEW selection, Begin(selection)
    PROVE  ReadInv'
  <1>1. UNCHANGED << vars, host, call >> /\ answer' = None
    BY DEF Begin
  <1>2. UNCHANGED << witness, pc, committed, world, call >> /\ Log' = Log
    BY <1>1 DEF vars, persistent, process, history, host, Log
  <1>3. StoreInv'
    BY <1>1, StutterInv DEF ReadInv
  <1>4. CallTyped' /\ SourceInv' /\ PermitInv' /\ WorkInv'
    BY <1>2 DEF ReadInv, CallTyped, SourceInv, PermitInv, WorkInv, Disclosure, At
  <1>5. AnswerInv'
    BY <1>1 DEF AnswerInv, AnswersAreTheHistory, NothingWithoutPermission
  <1> QED BY <1>3, <1>4, <1>5 DEF ReadInv

---------------------------------------------------------------------------
(* The host, the files and the reader's process *)

LEMMA KillKeeps ==
    ASSUME ReadInv, Kill
    PROVE  ReadInv'
  <1>1. Step(None) /\ call' = None /\ world' = world
    BY StepLeaves DEF Kill
  <1>2. CallTyped' /\ SourceInv' /\ PermitInv' /\ WorkInv'
    BY <1>1 DEF ReadInv, CallTyped, SourceInv, PermitInv, WorkInv
  <1> QED BY <1>1, <1>2, StepKeeps

\* What the host permits from now on is remembered with the call.
LEMMA WorldMovesKeeps ==
    ASSUME ReadInv, WorldMoves
    PROVE  ReadInv'
  <1>1. /\ UNCHANGED vars /\ answer' = None /\ world' \in Worlds
        /\ call' = IF call = None THEN None
                   ELSE [call EXCEPT !.held =
                            IF call.stage \in {"packed", "rechecked", "latest"}
                              THEN @ \cup world'.permits ELSE @]
    BY DEF WorldMoves
  <1>2. UNCHANGED << witness, pc, committed >> /\ Log' = Log /\ At("down")' = At("down")
    BY <1>1 DEF vars, persistent, process, history, Log, At
  <1>3. StoreInv'
    BY <1>1, StutterInv DEF ReadInv
  <1>4. AnswerInv'
    BY <1>1 DEF AnswerInv, AnswersAreTheHistory, NothingWithoutPermission
  <1>5. CASE call = None
    <2>1. call' = None
      BY <1>1, <1>5
    <2> QED BY <1>1, <1>3, <1>4, <2>1 DEF ReadInv, CallTyped, SourceInv, PermitInv, WorkInv
  <1>6. CASE call # None
    <2> PICK w \in Worlds : w = world'
      BY <1>1
    <2> PICK held : held = IF call.stage \in Packed THEN call.held \cup w.permits ELSE call.held
      OBVIOUS
    <2> PICK c : c = [call EXCEPT !.held = held]
      OBVIOUS
    <2>1. /\ call \in Calls /\ SourceInv /\ PermitInv /\ WorkInv /\ w.permits \subseteq Permits
          /\ call.held \subseteq Permits
      BY <1>6, CallFacts, ReadingAssumption
    <2>2. call' = c /\ world' = w
      BY <1>1, <1>6, <2>1 DEF Packed, Calls
    <2>3. /\ c.stage = call.stage /\ c.leased = call.leased /\ c.size = call.size
          /\ c.image = call.image /\ c.about = call.about /\ c.outcome = call.outcome
          /\ c.latest = call.latest /\ c.granted = call.granted
          /\ c.source = call.source /\ c.io = call.io /\ c.moved = call.moved
          /\ c.frames = call.frames /\ c.callbacks = call.callbacks /\ c.held = held
      BY <2>1 DEF Calls
    <2>4. call.held \subseteq held /\ (call.stage \in Packed => w.permits \subseteq held)
      OBVIOUS
    <2>5. c \in Calls
      BY <2>1 DEF Calls
    <2>6. CallTyped'
      BY <2>2, <2>5 DEF CallTyped
    <2>7. SourceInv' /\ WorkInv'
      BY <1>2, <1>6, <2>1, <2>2, <2>3 DEF SourceInv, WorkInv
    <2>8. PermitInv'
      <3>1. Disclosure(call)' = Disclosure(call)
        BY <2>2, <2>3 DEF Disclosure
      <3> QED BY <1>6, <2>1, <2>2, <2>3, <2>4, <3>1 DEF PermitInv, Packed
    <2> QED BY <1>3, <1>4, <2>6, <2>7, <2>8 DEF ReadInv
  <1> QED BY <1>5, <1>6

\* The lease keeps the witness and what was committed as they are; without it
\* the call has nothing to compare and no reply of its own.
LEMMA StoreStepKeeps ==
    ASSUME ReadInv, StoreStep
    PROVE  ReadInv'
  <1>1. /\ IF Leased THEN LoseJournal \/ ReplaceJournal ELSE Next
        /\ answer' = None /\ UNCHANGED << world, call >>
    BY DEF StoreStep, host
  <1>2. StoreInv'
    <2>1. [Next]_vars
      BY <1>1 DEF Next, Environment
    <2> QED BY <2>1, StoreInvKept DEF ReadInv
  <1>3. CallTyped' /\ PermitInv' /\ WorkInv'
    BY <1>1 DEF ReadInv, CallTyped, PermitInv, WorkInv, Disclosure
  <1>4. AnswerInv'
    BY <1>1 DEF AnswerInv, AnswersAreTheHistory, NothingWithoutPermission
  <1>5. SourceInv'
    <2>1. CASE Leased
      <3>1. UNCHANGED << pc, witness, committed >> /\ Log' = Log
        BY <1>1, <2>1 DEF LoseJournal, ReplaceJournal, process, history, Log
      <3> QED BY <1>1, <3>1 DEF ReadInv, SourceInv, At
    <2>2. CASE ~Leased
      <3>1. call # None =>
              /\ call.leased \in BOOLEAN /\ ~call.leased
              /\ call.stage \notin {"leased", "captured"}
              /\ ~(call.stage \in Late /\ call.outcome = "good")
        BY <2>2, CallFacts DEF Leased, SourceInv
      <3> QED BY <1>1, <3>1 DEF SourceInv, Late, Packed
    <2> QED BY <2>1, <2>2
  <1> QED BY <1>2, <1>3, <1>4, <1>5 DEF ReadInv

LEMMA UnchangedKeeps ==
    ASSUME ReadInv, UNCHANGED readVars
    PROVE  ReadInv'
  <1>1. UNCHANGED << vars, world, call, answer >>
    BY DEF readVars, host, reading
  <1>2. UNCHANGED << witness, pc, committed >> /\ Log' = Log
    BY <1>1 DEF vars, persistent, process, history, Log
  <1>3. StoreInv'
    BY <1>1, StutterInv DEF ReadInv
  <1>4. CallTyped' /\ SourceInv' /\ PermitInv' /\ WorkInv'
    BY <1>1, <1>2 DEF ReadInv, CallTyped, SourceInv, PermitInv, WorkInv, Disclosure, At
  <1>5. AnswerInv'
    BY <1>1, <1>2 DEF ReadInv, AnswerInv, AnswersAreTheHistory, NothingWithoutPermission,
                      Truthful, ValidPosition, Needs, Disclosure
  <1> QED BY <1>3, <1>4, <1>5 DEF ReadInv

---------------------------------------------------------------------------
(* Every step, and the properties *)

LEMMA InitReads == ReadInit => ReadInv
  <1> SUFFICES ASSUME ReadInit
               PROVE  ReadInv
    OBVIOUS
  <1>1. call = None /\ answer = None /\ world \in Worlds /\ StoreInv
    BY InitInv DEF ReadInit
  <1> QED BY <1>1 DEF ReadInv, CallTyped, SourceInv, PermitInv, WorkInv, AnswerInv,
                      AnswersAreTheHistory, NothingWithoutPermission

LEMMA CallKeeps == ReadInv /\ CallStep => ReadInv'
  <1> SUFFICES ASSUME ReadInv, CallStep
               PROVE  ReadInv'
    OBVIOUS
  <1>1. CASE \E about \in Requests \cup {None} : Ask(about)
    BY <1>1, AskKeeps
  <1>2. CASE Look \/ Authorize \/ AuthorizeCustody
    BY <1>2, LooksKeep
  <1>3. CASE Deny \/ \E reason \in {"Limit", "Denied"} : Turned(reason)
    BY <1>3, TurnedKeeps
  <1>4. CASE Lease \/ Capture \/ Verify
    BY <1>4, LeaseKeeps, CaptureKeeps, VerifyKeeps
  <1>5. CASE \E reason \in {"Unavailable", "Limit"} : Fail(reason)
    BY <1>5, FailKeeps
  <1>6. CASE Pack \/ Recheck \/ LookAgain
    BY <1>6, PackKeeps, RecheckKeeps, LookAgainKeeps
  <1>7. CASE FinishRefused \/ FinishReply \/ FinishPage
    BY <1>7, FinishRefusedKeeps, FinishReplyKeeps, FinishPageKeeps
  <1>8. CASE \E selection \in (SUBSET Requests) \ {{}} : Begin(selection)
    BY <1>8, BeginKeeps
  <1> QED BY <1>1, <1>2, <1>3, <1>4, <1>5, <1>6, <1>7, <1>8 DEF CallStep

\* The invariant holds in every state a reader and the store come to.
THEOREM ReadInvHolds == ReadSpec => []ReadInv
  <1>1. ReadInv /\ [ReadNext]_readVars => ReadInv'
    <2> SUFFICES ASSUME ReadInv, [ReadNext]_readVars
                 PROVE  ReadInv'
      OBVIOUS
    <2>1. CASE CallStep
      BY <2>1, CallKeeps
    <2>2. CASE WorldMoves \/ Kill \/ StoreStep
      BY <2>2, WorldMovesKeeps, KillKeeps, StoreStepKeeps
    <2>3. CASE UNCHANGED readVars
      BY <2>3, UnchangedKeeps
    <2> QED BY <2>1, <2>2, <2>3 DEF ReadNext
  <1> QED
    BY InitReads, <1>1, PTL DEF ReadSpec

\* What is said of an original is so at that moment, whatever happened to the
\* journal before the copy was taken (cold_read.rs prepare, current_cut;
\* preflight.rs proof_journals).
THEOREM AnswersAreTrue == ReadSpec => []AnswersAreTheHistory
  <1>1. ReadInv => AnswersAreTheHistory
    BY DEF ReadInv, AnswerInv
  <1> QED
    BY <1>1, ReadInvHolds, PTL

\* Nothing that depends on the source is said without the permissions for it,
\* however the host's answers move meanwhile (cold_read.rs execute).
THEOREM PermissionComesFirst == ReadSpec => []NothingWithoutPermission
  <1>1. ReadInv => NothingWithoutPermission
    BY DEF ReadInv, AnswerInv
  <1> QED
    BY <1>1, ReadInvHolds, PTL

\* Work is reserved before it is done and never beyond the budget, however
\* large the files and the budget are (preflight.rs capture, read_budget.rs
\* debit).
THEOREM WorkComesReserved == ReadSpec => []WorkIsReserved
  <1>1. ReadInv => WorkIsReserved
    BY DEF ReadInv, AnswerInv, WorkInv, WorkIsReserved
  <1> QED
    BY <1>1, ReadInvHolds, PTL

---------------------------------------------------------------------------
(* A client's walk over pages *)

Walks ==
    [through : Positions, selection : SUBSET Requests, last : Positions,
     got : Seq(Requests), ended : BOOLEAN]

\* What a walk has got covers its range as far as it came, in the log as it is.
Covers(w, log) ==
    /\ ValidPosition(log, w.through) /\ ValidPosition(log, w.last)
    /\ w.last.at <= w.through.at
    /\ w.got = Matching(Part(log, 0, w.last.at), w.selection)
    /\ w.ended => w.last = w.through

WalkInv == walk # None => walk \in Walks /\ Covers(walk, Log)

\* A position stays valid, and the part before it what it is, as the log grows.
LEMMA PositionsStay ==
    ASSUME NEW log \in Seq(Requests), NEW r \in Requests, NEW p, ValidPosition(log, p)
    PROVE  /\ ValidPosition(Append(log, r), p)
           /\ Part(Append(log, r), 0, p.at) = Part(log, 0, p.at)
  <1> PICK grown : grown = Append(log, r)
    OBVIOUS
  <1>1. /\ grown \in Seq(Requests) /\ Len(grown) = Len(log) + 1 /\ Len(log) \in Nat
        /\ \A k \in 1..Len(log) : grown[k] = log[k]
    OBVIOUS
  <1> PICK n : n = p.at
    OBVIOUS
  <1>2. n \in 0..Len(log) /\ p = PositionAt(log, n)
    BY DEF ValidPosition
  <1>3. PositionAt(grown, n) = PositionAt(log, n)
    BY <1>1, <1>2 DEF PositionAt
  <1>4. n \in 0..Len(grown)
    BY <1>1, <1>2
  <1>5. SubSeq(grown, 1, n) = SubSeq(log, 1, n)
    <2>1. /\ SubSeq(grown, 1, n) \in Seq(Requests) /\ Len(SubSeq(grown, 1, n)) = n
          /\ \A k \in 1..n : SubSeq(grown, 1, n)[k] = grown[k]
      BY <1>1, <1>4, PrefixTyped
    <2>2. /\ SubSeq(log, 1, n) \in Seq(Requests) /\ Len(SubSeq(log, 1, n)) = n
          /\ \A k \in 1..n : SubSeq(log, 1, n)[k] = log[k]
      BY <1>2, PrefixTyped
    <2>3. \A k \in 1..n : k \in 1..Len(log)
      BY <1>1, <1>2
    <2>4. \A k \in 1..Len(SubSeq(grown, 1, n)) : SubSeq(grown, 1, n)[k] = SubSeq(log, 1, n)[k]
      BY <1>1, <2>1, <2>2, <2>3
    <2> PICK x, y : x = SubSeq(grown, 1, n) /\ y = SubSeq(log, 1, n)
      OBVIOUS
    <2>5. /\ x \in Seq(Requests) /\ y \in Seq(Requests) /\ Len(x) = Len(y)
          /\ \A k \in 1..Len(x) : x[k] = y[k]
      BY <2>1, <2>2, <2>4
    <2>6. x = y
      BY ONLY <2>5, SeqEqual
    <2> QED BY <2>6
  <1> QED BY <1>2, <1>3, <1>4, <1>5 DEF ValidPosition, Part

LEMMA CoverageStays ==
    ASSUME NEW log \in Seq(Requests), NEW r \in Requests, NEW w \in Walks, Covers(w, log)
    PROVE  Covers(w, Append(log, r))
  <1> PICK grown : grown = Append(log, r)
    OBVIOUS
  <1>1. /\ ValidPosition(grown, w.through) /\ ValidPosition(grown, w.last)
        /\ Part(grown, 0, w.last.at) = Part(log, 0, w.last.at)
    BY PositionsStay DEF Covers
  <1> QED BY <1>1 DEF Covers

\* A valid position is one.
LEMMA PositionTyped ==
    ASSUME NEW log \in Seq(Requests), NEW p, ValidPosition(log, p)
    PROVE  p \in Positions
  <1> PICK n : n = p.at
    OBVIOUS
  <1>1. n \in 0..Len(log) /\ p = PositionAt(log, n) /\ Len(log) \in Nat
    BY DEF ValidPosition
  <1>2. n # 0 => log[n] \in Requests
    BY <1>1
  <1> QED BY <1>1, <1>2 DEF PositionAt, Positions

\* The log grows by one operation at a time.
LEMMA LogGrows ==
    ASSUME StoreInv, [Next]_vars
    PROVE  Log' = Log \/ \E r \in Requests : Log' = Append(Log, r)
  <1>1. CASE Commit
    <2>1. committed # None /\ witness.pending.request \in Requests
      BY <1>1 DEF StoreInv, PlaceInv, Mutations, Commit, At
    <2>2. committed' = Append(committed, witness.pending.request) /\ Log = committed
      BY <1>1, <2>1 DEF Commit, Log
    <2>3. Append(committed, witness.pending.request) # None
      <3>1. committed \in Seq(Requests)
        BY <2>1 DEF StoreInv, TypeOK
      <3>2. Append(committed, witness.pending.request) \in Seq(Requests)
        BY <2>1, <3>1
      <3> QED BY <3>2, NoneAssumption
    <2> QED BY <2>1, <2>2, <2>3 DEF Log
  <1>2. CASE CommitSchema
    <2>1. committed = None /\ committed' = <<>>
      BY <1>2 DEF CommitSchema, StoreInv, CreationInv, At
    <2> QED BY <2>1 DEF Log
  <1>3. CASE UNCHANGED committed
    BY <1>3 DEF Log
  <1>4. Commit \/ CommitSchema \/ UNCHANGED committed
    BY DEF Next, Provisioning, Opening, Serving, Mutating, Closing, Environment, vars, history,
           Allocate, PublishFirst, ResumeAllocation, BeginProvision, FinishProvision, Inspect,
           CompleteClose, PublishOpening, OpenWriter, PublishLive, GiveUpOpening, Prepare, Retry,
           ResolveAbsent, BeginCheckpoint, EndCheckpoint, Detect, DeclareCommit, Finalize, Report,
           BeginClose, CopyPages, FinishCopy, CloseConnection, PublishClean, GiveUpClose,
           FailMutation, Drop, Crash, LoseJournal, ReplaceJournal
  <1> QED BY <1>1, <1>2, <1>3, <1>4

\* Most steps of a call leave the walk and the log alone.
LEMMA WalkRests ==
    ASSUME WalkInv, walk' = walk, Log' = Log
    PROVE  WalkInv'
  BY DEF WalkInv

LEMMA WalkBegins ==
    ASSUME ReadInv, NEW selection \in (SUBSET Requests) \ {{}}, Begin(selection)
    PROVE  WalkInv'
  <1> DEFINE w == [through |-> answer.reply.position, selection |-> selection,
                   last |-> PositionAt(<<>>, 0), got |-> <<>>, ended |-> FALSE]
  <1>1. /\ walk' = w /\ Log' = Log
        /\ answer # None /\ answer.reply.kind = "position"
    BY DEF Begin, vars, history, Log
  <1> PICK log : log = Log
    OBVIOUS
  <1>2. log \in Seq(Requests) /\ Len(log) \in Nat
    BY LogTyped DEF ReadInv, StoreInv
  <1>3. ValidPosition(log, w.through)
    BY <1>1 DEF ReadInv, AnswerInv, AnswersAreTheHistory, Truthful
  <1>4. w.through \in Positions /\ w.through.at \in Nat
    BY <1>2, <1>3, PositionTyped DEF Positions
  <1>5. w.last = [at |-> 0, operation |-> None]
    BY DEF PositionAt
  <1>6. w.last \in Positions /\ ValidPosition(log, w.last)
    BY <1>2, <1>5 DEF Positions, ValidPosition, PositionAt
  <1>7. Matching(Part(log, 0, 0), selection) = <<>>
    <2>1. Part(log, 0, 0) \in Seq(Requests) /\ Len(Part(log, 0, 0)) = 0
      BY <1>2, PrefixTyped DEF Part
    <2>2. Picks(Part(log, 0, 0), selection) = {}
      BY <2>1 DEF Picks
    <2>3. Len(Matching(Part(log, 0, 0), selection)) = 0
      BY <2>1, <2>2, MatchingTyped, FS_EmptySet
    <2> QED BY <2>1, <2>3, MatchingTyped, EmptySeq
  <1>8. Covers(w, log)
    BY <1>3, <1>4, <1>5, <1>6, <1>7 DEF Covers
  <1>9. w \in Walks
    BY <1>4, <1>6 DEF Walks
  <1> QED BY <1>1, <1>8, <1>9 DEF WalkInv

\* The next page continues where the walk has come to.
LEMMA NextPageStart ==
    ASSUME walk \in Walks, NEW limits
    PROVE  /\ StartOf(NextPage(limits)) = walk.last.at
           /\ NextPage(limits).through = walk.through
           /\ NextPage(limits).selection = walk.selection
  <1> DEFINE after == PositionAt(<<>>, 0)
             cursor == [after |-> after, through |-> walk.through,
                        selection |-> walk.selection, last |-> walk.last]
             q == NextPage(limits)
  <1>1. after = [at |-> 0, operation |-> None] /\ after \in Positions
    BY DEF PositionAt, Positions
  <1>2. cursor \in Cursors /\ cursor # None
    BY <1>1, ReadingAssumption DEF Cursors, Walks
  <1>3. /\ q.after = after /\ q.through = walk.through /\ q.selection = walk.selection
        /\ q.cursor = IF walk.last = after THEN None ELSE cursor
    BY DEF NextPage
  <1>4. CASE walk.last = after
    BY <1>1, <1>3, <1>4 DEF StartOf
  <1>5. CASE walk.last # after
    BY <1>2, <1>3, <1>5 DEF StartOf
  <1> QED BY <1>3, <1>4, <1>5

LEMMA WalkGoesOn ==
    ASSUME ReadInv, WalkInv, FinishPage
    PROVE  WalkInv'
  <1>1. /\ CallAt("latest") /\ UNCHANGED vars /\ walk # None
        /\ call.granted /\ call.latest = "same" /\ call.outcome = "good"
    BY DEF FinishPage, Releasable
  <1>2. call.image = Log /\ Log \in Seq(Requests) /\ Log' = Log
    BY <1>1, LatestFacts DEF vars, history, Log
  <1>3. walk \in Walks /\ Covers(walk, Log)
    BY <1>1 DEF WalkInv
  <1> PICK limits \in PageLimits :
           walk' = IF PageReply(call.image, NextPage(limits)).kind = "refused" THEN walk
                   ELSE [walk EXCEPT !.got = @ \o PageReply(call.image, NextPage(limits)).records,
                                     !.last = PositionAt(call.image,
                                                  PageReply(call.image, NextPage(limits)).to),
                                     !.ended = ~PageReply(call.image, NextPage(limits)).more]
    BY DEF FinishPage
  <1> PICK q : q = NextPage(limits)
    OBVIOUS
  <1> PICK log : log = Log
    OBVIOUS
  <1> PICK reply : reply = PageReply(log, q)
    OBVIOUS
  <1>4. /\ StartOf(q) = walk.last.at /\ q.through = walk.through /\ q.selection = walk.selection
        /\ q.limits.scanned \in Nat \ {0} /\ q.limits.returned \in Nat \ {0}
    <2>1. q.limits = limits
      BY DEF NextPage
    <2> QED BY <1>3, <2>1, NextPageStart, ReadingAssumption
  <1>5. CASE reply.kind = "refused"
    <2>1. walk' = walk
      BY <1>2, <1>5
    <2> QED BY <1>2, <2>1, WalkRests
  <1>6. CASE reply.kind # "refused"
    <2>1. reply.kind = "page"
      BY <1>6 DEF PageReply, PageOf, Refused
    <2>2. /\ reply.to <= Len(log) /\ reply.from = walk.last.at /\ reply.selection = walk.selection
          /\ reply.records = Matching(Part(log, reply.from, reply.to), reply.selection)
          /\ reply.to \in reply.from .. walk.through.at
          /\ reply.more \in BOOLEAN /\ (reply.more \/ reply.to = walk.through.at)
      BY <1>2, <1>4, <2>1, PageIsTrue
    <2> PICK w : w = [walk EXCEPT !.got = @ \o reply.records, !.last = PositionAt(log, reply.to),
                                  !.ended = ~reply.more]
      OBVIOUS
    <2>3. walk' = w
      BY <1>2, <1>6
    <2>4. /\ w.through = walk.through /\ w.selection = walk.selection
          /\ w.got = walk.got \o reply.records /\ w.last = PositionAt(log, reply.to)
          /\ w.ended = (~reply.more)
      BY <1>3 DEF Walks
    <2> PICK n : n = reply.to
      OBVIOUS
    <2> PICK a : a = walk.last.at
      OBVIOUS
    <2>5. /\ a \in Nat /\ walk.through.at \in 0..Len(log) /\ Len(log) \in Nat
          /\ walk.got = Matching(Part(log, 0, a), walk.selection)
          /\ ValidPosition(log, walk.through)
      BY <1>2, <1>3 DEF Covers, Walks, Positions, ValidPosition
    <2>6. n \in 0..Len(log) /\ a \in 0..n /\ n <= walk.through.at
      BY <2>2, <2>5
    <2>7. ValidPosition(log, w.last) /\ w.last.at = n
      BY <2>4, <2>6 DEF ValidPosition, PositionAt
    <2>8. w.got = Matching(Part(log, 0, n), walk.selection)
      <3> PICK selection : selection = walk.selection
        OBVIOUS
      <3>1. w.got = Matching(Part(log, 0, a), selection) \o Matching(Part(log, a, n), selection)
        BY <2>2, <2>4, <2>5
      <3>2. log \in Seq(Requests)
        BY <1>2
      <3>3. Matching(Part(log, 0, a), selection) \o Matching(Part(log, a, n), selection)
              = Matching(Part(log, 0, n), selection)
        BY ONLY <2>6, <3>2, MatchingJoins
      <3> QED BY <3>1, <3>3
    <2>9. w.ended => w.last = w.through
      <3>1. w.ended => n = walk.through.at
        BY <2>2, <2>4
      <3>2. walk.through = PositionAt(log, walk.through.at)
        BY <2>5 DEF ValidPosition
      <3> QED BY <2>4, <3>1, <3>2
    <2>10. Covers(w, log)
      BY <2>4, <2>5, <2>6, <2>7, <2>8, <2>9 DEF Covers
    <2>11. w \in Walks
      <3>1. w.last \in Positions
        BY <1>2, <2>7, PositionTyped
      <3>2. w.got \in Seq(Requests)
        <4>1. Part(log, 0, n) \in Seq(Requests)
          BY <1>2, <2>6, PrefixTyped DEF Part
        <4> PICK part : part = Part(log, 0, n)
          OBVIOUS
        <4> PICK selection : selection = walk.selection
          OBVIOUS
        <4>2. Matching(part, selection) \in Seq(Requests)
          BY <4>1, MatchingTyped
        <4> QED BY <2>8, <4>2
      <3>3. (~reply.more) \in BOOLEAN
        OBVIOUS
      <3>4. w = [walk EXCEPT !.got = w.got, !.last = w.last, !.ended = w.ended] /\ w.ended \in BOOLEAN
        BY <1>3, <2>4, <3>3 DEF Walks
      <3> QED BY <1>3, <3>1, <3>2, <3>4 DEF Walks
    <2> QED BY <1>2, <2>3, <2>10, <2>11 DEF WalkInv
  <1> QED BY <1>5, <1>6

LEMMA WalkOverStore ==
    ASSUME ReadInv, WalkInv, StoreStep
    PROVE  WalkInv'
  <1>1. [Next]_vars /\ walk' = walk
    BY DEF StoreStep, Next, Environment
  <1>2. StoreInv /\ Log \in Seq(Requests)
    BY LogTyped DEF ReadInv, StoreInv
  <1>3. CASE Log' = Log
    BY <1>1, <1>3, WalkRests
  <1>4. ASSUME NEW r \in Requests, Log' = Append(Log, r)
        PROVE  WalkInv'
    <2> PICK w : w = walk
      OBVIOUS
    <2>1. w # None => w \in Walks /\ Covers(w, Append(Log, r))
      BY <1>2, CoverageStays DEF WalkInv
    <2> QED BY <1>1, <1>4, <2>1 DEF WalkInv
  <1> QED BY <1>1, <1>2, <1>3, <1>4, LogGrows

LEMMA WalkKeeps == ReadInv /\ WalkInv /\ [ReadNext]_readVars => WalkInv'
  <1> SUFFICES ASSUME ReadInv, WalkInv, [ReadNext]_readVars
               PROVE  WalkInv'
    OBVIOUS
  <1>1. CASE \E selection \in (SUBSET Requests) \ {{}} : Begin(selection)
    BY <1>1, WalkBegins
  <1>2. CASE FinishPage
    BY <1>2, WalkGoesOn
  <1>3. CASE StoreStep
    BY <1>3, WalkOverStore
  <1>4. ASSUME UNCHANGED vars, walk' = walk
        PROVE  WalkInv'
    <2>1. Log' = Log
      BY <1>4 DEF vars, history, Log
    <2> QED BY <1>4, <2>1, WalkRests
  <1>5. CASE UNCHANGED readVars
    BY <1>4, <1>5 DEF readVars, reading
  <1>6. CASE WorldMoves \/ Kill
    BY <1>4, <1>6 DEF WorldMoves, Kill, Step
  <1>7. CASE \/ \E about \in Requests \cup {None} : Ask(about)
             \/ Look \/ Authorize \/ AuthorizeCustody \/ Deny
             \/ \E reason \in {"Limit", "Denied"} : Turned(reason)
             \/ Lease \/ Capture \/ Verify
             \/ \E reason \in {"Unavailable", "Limit"} : Fail(reason)
             \/ Pack \/ Recheck \/ LookAgain
             \/ FinishRefused \/ FinishReply
    BY <1>4, <1>7
    DEF Ask, Look, Authorize, AuthorizeCustody, Deny, Turned, Lease, Capture, Verify, Fail, Pack,
        Recheck, LookAgain, FinishRefused, FinishReply, Step
  <1> QED BY <1>1, <1>2, <1>3, <1>5, <1>6, <1>7 DEF ReadNext, CallStep

\* The pages of a walk are, put together, the selected records of the part it
\* came through, whatever was appended, refused or killed between two pages
\* (application/read.rs scan, read.rs page).
THEOREM CoverageHolds == ReadSpec => []CoverageIsExact
  <1>1. ReadInit => WalkInv
    BY DEF ReadInit, WalkInv
  <1>2. WalkInv => CoverageIsExact
    BY DEF WalkInv, Covers, CoverageIsExact
  <1> QED
    BY <1>1, <1>2, ReadInvHolds, WalkKeeps, PTL DEF ReadSpec

---------------------------------------------------------------------------
(* The store under its readers *)

\* A step of a reader, of the host or of the store is a step of the store or
\* none of its business.
LEMMA ReadersOnlyLook == [ReadNext]_readVars => [Next]_vars
  <1> SUFFICES ASSUME [ReadNext]_readVars
               PROVE  [Next]_vars
    OBVIOUS
  <1>1. CASE StoreStep
    BY <1>1 DEF StoreStep, Next, Environment
  <1>2. CASE WorldMoves \/ Kill \/ UNCHANGED readVars
    BY <1>2 DEF WorldMoves, Kill, Step, readVars
  <1>3. CASE \/ \E about \in Requests \cup {None} : Ask(about)
             \/ Look \/ Authorize \/ AuthorizeCustody \/ Deny
             \/ \E reason \in {"Limit", "Denied"} : Turned(reason)
             \/ Lease \/ Capture \/ Verify
             \/ \E reason \in {"Unavailable", "Limit"} : Fail(reason)
             \/ Pack \/ Recheck \/ LookAgain
             \/ FinishRefused \/ FinishReply
    BY <1>3
    DEF Ask, Look, Authorize, AuthorizeCustody, Deny, Turned, Lease, Capture, Verify, Fail, Pack,
        Recheck, LookAgain, FinishRefused, FinishReply, Step
  <1>4. CASE FinishPage \/ \E selection \in (SUBSET Requests) \ {{}} : Begin(selection)
    BY <1>4 DEF FinishPage, Begin
  <1> QED BY <1>1, <1>2, <1>3, <1>4 DEF ReadNext, CallStep

\* A store that is read goes on as if nobody read it: its runs with readers are
\* runs of the store, so all that holds of those holds of it; it keeps the
\* promises of Ledger and a commit in doubt is never taken back
\* (cold_read.rs works on a private copy under a lease).
THEOREM ReadersLeaveTheStore == ReadSpec => Spec /\ ImplementsLedger /\ NoAutomaticAbort
  <1>1. ReadInit => Init
    BY DEF ReadInit
  <1>2. ReadSpec => Spec
    BY <1>1, ReadersOnlyLook, PTL DEF ReadSpec, Spec
  <1> QED BY <1>2, StoreKeepsPromise, DoubtIsForever, PTL
=============================================================================
