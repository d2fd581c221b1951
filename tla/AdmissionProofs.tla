--------------------------- MODULE AdmissionProofs ---------------------------
(***************************************************************************)
(* Theorems about Admission, for copies of any shape and any bounds.       *)
(*                                                                         *)
(* What the replay takes is what a prefix of the journal commits: each     *)
(* frame taken belongs and each after the last commit commits nothing.     *)
(*                                                                         *)
(* What the walk admits has one owner for each page: every claim that is   *)
(* demanded, by the roots or by a page that was granted, was itself        *)
(* granted or is waiting somewhere, on the stack, among the trees to come, *)
(* in the chain being followed or in the slots of a page not read yet.  At *)
(* the end nothing waits.                                                  *)
(*                                                                         *)
(* The verdict is the reference's: the claims that the roots lead to are   *)
(* the least set that has the roots and what its members claim; what is    *)
(* granted and what waits lies in it, at the end is all of it, and in a    *)
(* coherent image every claim that waits could be granted.                 *)
(*                                                                         *)
(* And the walk ends: each step leaves less work, the later parts of it    *)
(* counting only when the earlier ones stay, and there is less work only   *)
(* so often.                                                               *)
(***************************************************************************)
EXTENDS Admission, FiniteSetTheorems, WellFoundedInduction, TLAPS

Early == {"replaying", "placing", "replayed"}

Walks == {"walking", "freeing"}

\* Before the walk nothing is granted and nothing waits.
Untouched ==
    phase \in Early =>
        /\ \A p \in 1..MaxPage : owner[p] = None
        /\ stack = <<>> /\ trees = <<>> /\ here = None /\ chain = None
        /\ tree = None /\ count = 0

---------------------------------------------------------------------------
(* The replay *)

\* Frames up to n were taken.
Taken(n) ==
    \A i \in 1..n : Belongs(input.frames[i]) /\ input.frames[i].page \in 1..MaxPage

\* The image after the commit at n.
SizeAfter(n) ==
    /\ n = 0 => size = Len(input.main)
    /\ n > 0 => size = input.frames[n].size /\ size # 0

\* A page comes from the last of the first n frames that are of it.
PlacedUpTo(n) ==
    \A p \in 1..MaxPage :
        /\ source[p] \in 0..n
        /\ source[p] # 0 => input.frames[source[p]].page = p
        /\ \A i \in source[p] + 1 .. n : input.frames[i].page # p

LastCommit == \A m \in commit + 1 .. Len(input.frames) : ~CommittedPrefix(m)

ReplayInv ==
    /\ phase = "replaying" =>
          /\ commit <= frame /\ Taken(frame) /\ SizeAfter(commit)
          /\ \A i \in commit + 1 .. frame : input.frames[i].size = 0
          /\ \A p \in 1..MaxPage : source[p] = 0
    /\ phase \in {"placing", "replayed"} =>
          /\ frame <= commit /\ Taken(commit) /\ SizeAfter(commit)
          /\ LastCommit /\ PlacedUpTo(frame)
    /\ phase = "replayed" => frame = commit

---------------------------------------------------------------------------
(* The walk *)

Granted(c) == c # None /\ c.to \in 1..size /\ owner[c.to] = c

OfTree(c) == c.role \in {"root", "node"}

OfChain(c) == c.role \in {"first", "later"} /\ c.slot \in {"spill", "next"}

Trunk(c) == c.role = "free" /\ c.slot = "trunk"

\* The slots of the page here that were not read.
Remaining ==
    IF here = None THEN {}
    ELSE {c \in Made(here) : c.at > cell \/ (phase = "freeing" /\ c.slot = "trunk")}

Elements(s) == {s[i] : i \in DOMAIN s}

Stacked == Elements(stack)

Chained == IF chain = None THEN {} ELSE {chain}

FreeRoot == IF FreeHead = None THEN {} ELSE {FreeHead}

Waiting ==
    Stacked \cup Found \cup Chained \cup Remaining
        \cup (IF phase = "walking" THEN FreeRoot ELSE {})

\* Whatever a claim of these leads to is among them.
Closed(claims) == \A c \in claims : c.to \in 1..size => Made(c) \subseteq claims

\* What the roots lead to, in any number of steps.
Reachable ==
    {c \in Claims : \A S \in SUBSET Claims : Roots \subseteq S /\ Closed(S) => c \in S}

\* Claims of different pages.
OneToOne(claims) ==
    /\ \A c \in claims : c.to \in 1..size
    /\ \A c, d \in claims : c.to = d.to => c = d

\* What the process of the walk is at.
PlaceInv ==
    /\ phase \in Walks => Whole
    /\ phase \in Walks /\ here # None => Granted(here)
    /\ phase = "walking" =>
          /\ here # None => OfTree(here)
          /\ chain # None => here # None /\ OfChain(chain)
          /\ \A c \in Stacked \cup Found : OfTree(c)
    /\ phase = "freeing" =>
          /\ stack = <<>> /\ trees = <<>>
          /\ here # None => chain = None /\ Trunk(here)
          /\ chain # None => Trunk(chain)

\* A page is owned by a claim of it.
OwnersFit == \A p \in 1..size : owner[p] # None => owner[p].to = p

ClaimsInv ==
    phase \in Walks =>
        /\ OwnersFit
        /\ Owners \subseteq Demands /\ Waiting \subseteq Demands
        /\ Owners \subseteq Reachable /\ Waiting \subseteq Reachable
        /\ \A c \in Demands : Granted(c) \/ c \in Waiting

AdmissionInv ==
    /\ TypeOK /\ size > 0
    /\ Untouched /\ ReplayInv /\ PlaceInv /\ ClaimsInv /\ OwnedOnce

\* A page that was granted is what the claim takes it for.
Sound(c) ==
    /\ OfTree(c) => NodeOf(Content(c.to), c.tree)
    /\ c.role \in {"first", "later"} => LinkFits(c)

\* The pages of the free list that were taken.
FreeOwners == {c \in Owners : c.role = "free"}

\* Pages are granted for what they are, and the free ones are counted.
SoundInv ==
    phase \in Walks => (\A c \in Owners : Sound(c)) /\ count = Cardinality(FreeOwners)

\* The trees that the pages granted name.
NamedDemands == {c \in Demands : c.role = "root"} \ {SchemaClaim}

\* While the schema is walked the trees it names are being found; then they fit.
SchemaInv ==
    /\ phase = "walking" =>
          /\ \A c \in Stacked : c.tree = tree
          /\ here # None => here.tree = tree
          /\ \A c \in Found : c.role = "root" /\ c.at > 0
          /\ tree = None => NamedDemands \subseteq Found \cup Remaining
    /\ phase = "freeing" \/ (phase = "walking" /\ tree # None) => SchemaFits(NamedDemands)

\* A sequence without repetition.
Distinct(s) == \A i, j \in DOMAIN s : s[i] = s[j] => i = j

\* What waits was not granted, and waits in one place.
OnceInv ==
    phase \in Walks =>
        /\ Waiting \cap Owners = {}
        /\ phase = "walking" =>
              /\ Distinct(stack) /\ Distinct(trees) /\ Stacked \cap Found = {}
              /\ Remaining \cap (Stacked \cup Found \cup Chained) = {}

\* The verdict is the one on what the roots lead to.
VerdictInv ==
    /\ phase = "admitted" => Whole /\ Coherent(Reachable)
    /\ phase \in {"Corrupt", "Unsupported"} => ~(Whole /\ Coherent(Reachable))

ExactInv == SoundInv /\ SchemaInv /\ OnceInv /\ VerdictInv

---------------------------------------------------------------------------
(* Types *)

LEMMA PageParts ==
    ASSUME NEW g \in Pages
    PROVE  /\ g.leaf \in BOOLEAN /\ g.right \in Nat /\ g.next \in Nat
           /\ g.free \in Nat /\ g.freed \in Nat /\ g.vacuum \in BOOLEAN
           /\ g.cells \in Seq(Cells) /\ Len(g.cells) \in Nat
           /\ \A i \in DOMAIN g.cells :
                 /\ i \in Nat /\ i > 0 /\ i <= Len(g.cells)
                 /\ g.cells[i].left \in Nat /\ g.cells[i].spill \in Nat
                 /\ g.cells[i].pages \in Nat /\ g.cells[i].root \in Nat
                 /\ g.cells[i].name \in Names \cup {None}
           /\ g.listed \in Seq(Nat) /\ Len(g.listed) \in Nat
           /\ \A i \in DOMAIN g.listed :
                 i \in Nat /\ i > 0 /\ i <= Len(g.listed) /\ g.listed[i] \in Nat
  <1>1. /\ g.leaf \in BOOLEAN /\ g.right \in Nat /\ g.next \in Nat
        /\ g.free \in Nat /\ g.freed \in Nat /\ g.vacuum \in BOOLEAN
        /\ g.cells \in Seq(Cells) /\ g.listed \in Seq(Nat)
    BY DEF Pages
  <1>2. \A i \in DOMAIN g.cells : i \in 1..Len(g.cells) /\ g.cells[i] \in Cells
    BY <1>1
  <1>3. \A i \in DOMAIN g.listed : i \in 1..Len(g.listed) /\ g.listed[i] \in Nat
    BY <1>1
  <1>4. Len(g.cells) \in Nat /\ Len(g.listed) \in Nat
    BY <1>1
  <1>5. \A i \in DOMAIN g.cells : i \in Nat /\ i > 0 /\ i <= Len(g.cells)
    BY <1>2, <1>4
  <1>6. \A i \in DOMAIN g.listed : i \in Nat /\ i > 0 /\ i <= Len(g.listed)
    BY <1>3, <1>4
  <1>7. \A x \in Cells : /\ x.left \in Nat /\ x.spill \in Nat /\ x.pages \in Nat /\ x.root \in Nat
                         /\ x.name \in Names \cup {None}
    BY DEF Cells
  <1> QED BY <1>1, <1>2, <1>3, <1>4, <1>5, <1>6, <1>7

\* A copy is made of pages, its journal of frames.
LEMMA InputParts ==
    ASSUME TypeOK
    PROVE  /\ input.main \in Seq(Pages) /\ input.frames \in Seq(Frames)
           /\ Len(input.main) \in 1..MaxPage /\ Len(input.frames) \in Nat
           /\ \A i \in 1..Len(input.frames) :
                 /\ input.frames[i] \in Frames
                 /\ input.frames[i].size \in Nat /\ input.frames[i].content \in Pages
  <1>1. input \in Copies
    BY AdmissionAssumption DEF TypeOK
  <1>2. Len(input.main) \in 1..MaxPage
    BY AdmissionAssumption DEF TypeOK
  <1>3. \A i \in 1..Len(input.frames) : input.frames[i] \in Frames
    BY <1>1 DEF Copies
  <1> QED BY <1>1, <1>2, <1>3 DEF Copies, Frames

\* Once the image is whole, its pages are pages.
LEMMA ContentType ==
    ASSUME TypeOK, Whole, NEW p \in 1..size
    PROVE  Content(p) \in Pages
  <1>1. p \in 1..MaxPage /\ source[p] \in 0..commit /\ commit \in 0..Len(input.frames)
    BY AdmissionAssumption DEF TypeOK
  <1>2. CASE source[p] = 0
    <2>1. p \in 1..Len(input.main)
      BY <1>1, <1>2, InputParts DEF Whole
    <2> QED BY <1>2, <2>1, InputParts DEF Content
  <1>3. CASE source[p] # 0
    <2>1. source[p] \in 1..Len(input.frames)
      BY <1>1, <1>3, InputParts
    <2> QED BY <1>3, <2>1, InputParts DEF Content
  <1> QED BY <1>2, <1>3

LEMMA ClaimType ==
    ASSUME NEW by \in Nat,
           NEW slot \in {"root", "right", "left", "spill", "next", "trunk", "listed", "map"},
           NEW at \in Nat, NEW to \in Nat, NEW role \in Roles, NEW level \in Nat,
           NEW name \in Names \cup {None}
    PROVE  /\ Claim(by, slot, at, to, role, level, name) \in Claims
           /\ Claim(by, slot, at, to, role, level, name) # None
  <1>1. Claim(by, slot, at, to, role, level, name) \in Claims
    BY DEF Claim, Claims
  <1> QED BY <1>1, AbsentAssumption

\* The fields of a claim.
LEMMA ClaimFields ==
    ASSUME NEW c \in Claims
    PROVE  /\ c.by \in Nat /\ c.at \in Nat /\ c.to \in Nat /\ c.level \in Nat
           /\ c.role \in Roles /\ c.tree \in Names \cup {None} /\ c # None
  BY AbsentAssumption DEF Claims

\* What a page in the image claims.
LEMMA MadeTypes ==
    ASSUME TypeOK, Whole, NEW c \in Claims, c.to \in 1..size
    PROVE  /\ RightClaim(c) \in Claims
           /\ \A i \in DOMAIN Content(c.to).cells :
                 LeftClaim(c, i) \in Claims /\ SpillClaim(c, i) \in Claims /\ RootClaim(c, i) \in Claims
           /\ c.level > 1 => NextClaim(c) \in Claims
           /\ \A i \in DOMAIN Content(c.to).listed : ListedClaim(c, i) \in Claims
           /\ TrunkClaim(c.to, Content(c.to).next) \in Claims
  <1>1. Content(c.to) \in Pages
    BY ContentType
  <1>2. /\ c.level + 1 \in Nat /\ 0 \in Nat /\ 1 \in Nat
        /\ c.level > 1 => c.level - 1 \in Nat
        /\ {"root", "node", "first", "later", "free"} \subseteq Roles
    BY ClaimFields DEF Roles
  <1>3. RightClaim(c) \in Claims
    BY <1>1, <1>2, PageParts, ClaimFields, ClaimType DEF RightClaim
  <1>4. ASSUME NEW i \in DOMAIN Content(c.to).cells
        PROVE  LeftClaim(c, i) \in Claims /\ SpillClaim(c, i) \in Claims /\ RootClaim(c, i) \in Claims
    BY <1>1, <1>2, PageParts, ClaimFields, ClaimType DEF LeftClaim, SpillClaim, RootClaim
  <1>5. c.level > 1 => NextClaim(c) \in Claims
    BY <1>1, <1>2, PageParts, ClaimFields, ClaimType DEF NextClaim
  <1>6. ASSUME NEW i \in DOMAIN Content(c.to).listed
        PROVE  ListedClaim(c, i) \in Claims
    BY <1>1, <1>2, PageParts, ClaimFields, ClaimType DEF ListedClaim
  <1>7. TrunkClaim(c.to, Content(c.to).next) \in Claims
    BY <1>1, <1>2, PageParts, ClaimFields, ClaimType DEF TrunkClaim
  <1> QED BY <1>3, <1>4, <1>5, <1>6, <1>7

LEMMA RootTypes ==
    ASSUME TypeOK, Whole, size > 0
    PROVE  /\ FreeHead \in Claims \cup {None}
           /\ SchemaClaim \in Claims
           /\ \A p \in MapPages : MapClaim(p) \in Claims /\ p \in 1..MaxPage /\ p \in 2..size
  <1>1. 1 \in 1..size /\ {"root", "free", "map"} \subseteq Roles /\ 0 \in Nat /\ 1 \in Nat
    BY AdmissionAssumption DEF TypeOK, Roles
  <1>2. Content(1) \in Pages
    BY <1>1, ContentType
  <1>3. FreeHead \in Claims \cup {None}
    BY <1>1, <1>2, PageParts, ClaimType DEF FreeHead, TrunkClaim
  <1>4. SchemaClaim \in Claims
    BY <1>1, ClaimType DEF SchemaClaim
  <1>5. \A p \in MapPages : p \in Nat /\ p \in 1..MaxPage /\ p \in 2..size
    BY AdmissionAssumption DEF MapPages, TypeOK
  <1>6. \A p \in MapPages : MapClaim(p) \in Claims
    BY <1>1, <1>5, ClaimType DEF MapClaim
  <1> QED BY <1>3, <1>4, <1>5, <1>6

---------------------------------------------------------------------------
(* Refusals, and what an unchanged image keeps *)

LEMMA RefusedKeeps ==
    ASSUME AdmissionInv, NEW reason \in {"Corrupt", "Limit", "Unsupported"}, Refuse(reason)
    PROVE  AdmissionInv'
  <1>1. phase' \notin Early \cup Walks \cup {"admitted"} /\ phase' \in Phases
    BY DEF Refuse, Early, Walks, Phases, Verdicts
  <1>2. UNCHANGED << frame, commit, input, source, size, owner, stack, trees, tree, here, cell,
                     chain, rows, count >>
    BY DEF Refuse, replay, image, walk
  <1>3. TypeOK' /\ (size > 0)'
    BY <1>1, <1>2 DEF AdmissionInv, TypeOK
  <1>4. Untouched' /\ ReplayInv' /\ PlaceInv' /\ ClaimsInv' /\ OwnedOnce'
    BY <1>1 DEF Untouched, ReplayInv, PlaceInv, ClaimsInv, OwnedOnce, Early, Walks
  <1> QED BY <1>3, <1>4 DEF AdmissionInv

\* The pages of an image make the same claims as long as the image stands.
LEMMA ImageKept ==
    ASSUME UNCHANGED image
    PROVE  /\ \A p : Content(p)' = Content(p)
           /\ \A c : Made(c)' = Made(c)
           /\ Roots' = Roots /\ FreeHead' = FreeHead /\ FreeRoot' = FreeRoot
           /\ MapPages' = MapPages /\ Whole' = Whole
  <1>1. input' = input /\ source' = source /\ size' = size
    BY DEF image
  <1>2. \A p : Content(p)' = Content(p)
    BY <1>1 DEF Content
  <1>3. \A c : /\ RightClaim(c)' = RightClaim(c) /\ NextClaim(c)' = NextClaim(c)
               /\ Spills(c)' = Spills(c)
               /\ \A i : /\ LeftClaim(c, i)' = LeftClaim(c, i)
                         /\ SpillClaim(c, i)' = SpillClaim(c, i)
                         /\ RootClaim(c, i)' = RootClaim(c, i)
                         /\ ListedClaim(c, i)' = ListedClaim(c, i)
    BY <1>2 DEF RightClaim, NextClaim, Spills, Carries, LeftClaim, SpillClaim, RootClaim,
                ListedClaim
  <1>4. \A c : NodeClaims(c)' = NodeClaims(c)
    BY <1>2, <1>3 DEF NodeClaims, Carries
  <1>5. \A c : TrunkClaims(c)' = TrunkClaims(c)
    BY <1>2, <1>3 DEF TrunkClaims
  <1>6. \A c : Made(c)' = Made(c)
    BY <1>3, <1>4, <1>5 DEF Made
  <1>7. FreeHead' = FreeHead
    BY <1>2 DEF FreeHead
  <1>8. MapPages' = MapPages /\ Whole' = Whole
    BY <1>1, <1>2 DEF MapPages, Whole
  <1>9. Roots' = Roots /\ FreeRoot' = FreeRoot
    BY <1>7, <1>8 DEF Roots, FreeRoot
  <1> QED BY <1>2, <1>6, <1>7, <1>8, <1>9

---------------------------------------------------------------------------
(* What the roots lead to *)

\* Induction over the numbers up to m, for a set.
LEMMA Upwards ==
    ASSUME NEW m \in Nat, NEW G, 0 \in G, \A n \in 1..m : n - 1 \in G => n \in G
    PROVE  \A n \in 0..m : n \in G
  <1> DEFINE B == (0..m) \ G
  <1> SUFFICES ASSUME B # {}
               PROVE  FALSE
    OBVIOUS
  <1>1. B \subseteq Nat
    OBVIOUS
  <1> HIDE DEF B
  <1>2. PICK n \in B : \A k \in B : ~(<<k, n>> \in OpToRel(<, Nat))
    BY <1>1, NatLessThanWellFounded, WFMin
  <1>3. n \in 0..m /\ n \notin G
    BY DEF B
  <1>4. n \in 1..m /\ n - 1 \in 0..m /\ n - 1 < n /\ n - 1 \in Nat /\ n \in Nat
    BY <1>3
  <1>5. n - 1 \notin B
    BY <1>1, <1>2, <1>4 DEF OpToRel
  <1>6. n - 1 \in G
    BY <1>4, <1>5 DEF B
  <1> QED BY <1>3, <1>4, <1>6

\* The recursion of Reach.
LEMMA ReachSteps ==
    ASSUME size \in Nat
    PROVE  Reach[0] = Roots /\ \A n \in 1..size : Reach[n] = Wider(Reach[n - 1])
  <1> DEFINE Steps(m, f) == f = [n \in 0..m |-> IF n = 0 THEN Roots ELSE Wider(f[n - 1])]
             G == {m \in Nat : \E f : Steps(m, f)}
  <1>1. 0 \in G
    <2> PICK f : f = [n \in 0..0 |-> Roots]
      OBVIOUS
    <2>1. Steps(0, f)
      BY 0..0 = {0}
    <2> QED BY <2>1
  <1>2. ASSUME NEW m \in 1..size, m - 1 \in G
        PROVE  m \in G
    <2>1. m \in Nat /\ m - 1 \in Nat
      OBVIOUS
    <2> PICK f : Steps(m - 1, f)
      BY <1>2
    <2> PICK g : g = [n \in 0..m |-> IF n = m THEN Wider(f[m - 1]) ELSE f[n]]
      OBVIOUS
    <2>2. ASSUME NEW n \in 0..m
          PROVE  g[n] = IF n = 0 THEN Roots ELSE Wider(g[n - 1])
      <3>1. CASE n = 0
        BY <2>1, <3>1
      <3>2. CASE n = m
        <4>1. g[m] = Wider(f[m - 1]) /\ g[m - 1] = f[m - 1] /\ m # 0
          BY <2>1
        <4> QED BY <3>2, <4>1
      <3>3. CASE n # 0 /\ n # m
        <4>1. n \in 0..m - 1 /\ n - 1 \in 0..m /\ n - 1 # m
          BY <2>1, <3>3
        <4>2. g[n] = f[n] /\ g[n - 1] = f[n - 1]
          BY <3>3, <4>1
        <4>3. f[n] = Wider(f[n - 1])
          BY <3>3, <4>1
        <4> QED BY <3>3, <4>2, <4>3
      <3> QED BY <3>1, <3>2, <3>3
    <2>3. Steps(m, g)
      BY <2>2
    <2> QED BY <2>1, <2>3
  <1>3. \E f : Steps(size, f)
    <2> HIDE DEF G
    <2>1. size \in G
      BY <1>1, <1>2, Upwards
    <2> QED BY <2>1 DEF G
  <1>4. Reach = [n \in 0..size |-> IF n = 0 THEN Roots ELSE Wider(Reach[n - 1])]
    BY <1>3, Zenon DEF Reach
  <1> HIDE DEF Steps, G
  <1> QED BY <1>4

\* Nothing that was reached is lost.
LEMMA ReachGrows ==
    ASSUME size \in Nat
    PROVE  /\ \A n \in 0..size : Reach[n] \subseteq Reached
           /\ Roots \subseteq Reached
  <1>1. \A n \in 1..size : Reach[n - 1] \subseteq Reach[n]
    BY ReachSteps DEF Wider
  <1> DEFINE G == {k \in Nat : k <= size => Reach[size - k] \subseteq Reached}
  <1>2. 0 \in G
    BY DEF Reached
  <1>3. ASSUME NEW k \in 1..size, k - 1 \in G
        PROVE  k \in G
    <2>1. size - k + 1 \in 1..size /\ (size - k + 1) - 1 = size - k /\ size - (k - 1) = size - k + 1
          /\ k \in Nat /\ k - 1 <= size
      OBVIOUS
    <2>2. Reach[size - k + 1] \subseteq Reached
      BY <1>3, <2>1
    <2>3. Reach[size - k] \subseteq Reach[size - k + 1]
      BY <1>1, <2>1
    <2> QED BY <2>1, <2>2, <2>3
  <1>4. \A k \in 0..size : k \in G
    <2> HIDE DEF G
    <2> QED BY <1>2, <1>3, Upwards
  <1>5. ASSUME NEW n \in 0..size
        PROVE  Reach[n] \subseteq Reached
    <2>1. size - n \in 0..size /\ size - (size - n) = n /\ size - n <= size
      OBVIOUS
    <2> QED BY <1>4, <2>1
  <1> QED BY <1>5, ReachSteps

\* Whatever has the roots and what it claims has all that is reached.
LEMMA ReachSound ==
    ASSUME size \in Nat, NEW S, Roots \subseteq S, Closed(S)
    PROVE  Reached \subseteq S
  <1> DEFINE G == {n \in Nat : n <= size => Reach[n] \subseteq S}
  <1>1. 0 \in G
    BY ReachSteps
  <1>2. ASSUME NEW n \in 1..size, n - 1 \in G
        PROVE  n \in G
    <2>1. Reach[n - 1] \subseteq S /\ n \in Nat
      BY <1>2
    <2>2. Reach[n] = Wider(Reach[n - 1])
      BY ReachSteps
    <2>3. Wider(Reach[n - 1]) \subseteq S
      BY <2>1 DEF Wider, Closed
    <2> QED BY <2>1, <2>2, <2>3
  <1>3. size \in G
    <2> HIDE DEF G
    <2> QED BY <1>1, <1>2, Upwards
  <1> QED BY <1>3 DEF Reached

\* Claims of different pages of the image are as many as the pages at most.
LEMMA NoMoreThanPages ==
    ASSUME size \in Nat, NEW S, OneToOne(S)
    PROVE  IsFiniteSet(S) /\ Cardinality(S) \in Nat /\ Cardinality(S) <= size
  <1> PICK f : f = [c \in S |-> c.to]
    OBVIOUS
  <1>1. f \in Injection(S, 1..size)
    BY DEF OneToOne, Injection, IsInjective
  <1>2. IsFiniteSet(1..size) /\ Cardinality(1..size) = size
    BY FS_Interval
  <1> QED BY <1>1, <1>2, FS_Injection, FS_CardinalityType

\* As many steps as there are pages are enough, if the claims name different ones.
LEMMA ReachedClosed ==
    ASSUME size \in Nat, OneToOne(Reached), Roots # {}
    PROVE  Closed(Reached)
  <1> SUFFICES ASSUME Wider(Reached) # Reached
               PROVE  FALSE
    BY DEF Wider, Closed
  <1>1. ASSUME NEW n \in 1..size
        PROVE  Reach[n] # Reach[n - 1]
    <2> SUFFICES ASSUME Reach[n] = Reach[n - 1]
                 PROVE  FALSE
      OBVIOUS
    <2> DEFINE G == {k \in Nat : n + k <= size => Reach[n + k] = Reach[n]}
    <2>1. 0 \in G
      OBVIOUS
    <2>2. ASSUME NEW k \in 1..size - n, k - 1 \in G
          PROVE  k \in G
      <3>1. n + k \in 1..size /\ (n + k) - 1 = n + (k - 1) /\ k \in Nat
        OBVIOUS
      <3>2. Reach[n + (k - 1)] = Reach[n]
        BY <2>2
      <3>3. Reach[n + k] = Wider(Reach[n])
        BY <3>1, <3>2, ReachSteps
      <3>4. Wider(Reach[n]) = Reach[n]
        BY ReachSteps
      <3> QED BY <3>1, <3>3, <3>4
    <2>3. size - n \in G
      <3> HIDE DEF G
      <3>1. size - n \in Nat
        OBVIOUS
      <3> QED BY <2>1, <2>2, <3>1, Upwards
    <2>4. Reached = Reach[n]
      BY <2>3 DEF Reached
    <2> QED BY <2>4, ReachSteps
  <1> DEFINE G == {n \in Nat : n <= size => Cardinality(Reach[n]) >= n + 1}
  <1>2. \A n \in 0..size : IsFiniteSet(Reach[n]) /\ Cardinality(Reach[n]) \in Nat
    <2>1. IsFiniteSet(Reached)
      BY NoMoreThanPages
    <2> QED BY <2>1, ReachGrows, FS_Subset, FS_CardinalityType
  <1>3. 0 \in G
    <2>1. 0 \in 0..size
      OBVIOUS
    <2>2. Cardinality(Reach[0]) # 0
      BY <1>2, <2>1, ReachSteps, FS_EmptySet
    <2> QED BY <1>2, <2>1, <2>2
  <1>4. ASSUME NEW n \in 1..size, n - 1 \in G
        PROVE  n \in G
    <2>1. n \in 0..size /\ n - 1 \in 0..size /\ n \in Nat
      OBVIOUS
    <2>2. Reach[n - 1] \subseteq Reach[n]
      BY ReachSteps DEF Wider
    <2>3. Cardinality(Reach[n - 1]) <= Cardinality(Reach[n])
          /\ Cardinality(Reach[n - 1]) # Cardinality(Reach[n])
      BY <1>1, <1>2, <2>1, <2>2, FS_Subset
    <2> QED BY <1>2, <1>4, <2>1, <2>3
  <1>5. size \in G
    <2> HIDE DEF G
    <2> QED BY <1>3, <1>4, Upwards
  <1>6. Cardinality(Reached) >= size + 1
    BY <1>5 DEF Reached
  <1> QED BY <1>6, NoMoreThanPages

\* What the roots lead to is the least set that has them and is closed.
LEMMA LeadsTo ==
    ASSUME TypeOK, Whole, size > 0
    PROVE  /\ Roots \subseteq Reachable /\ Closed(Reachable)
           /\ Roots \subseteq Claims /\ Closed(Claims)
           /\ \A S \in SUBSET Claims : Roots \subseteq S /\ Closed(S) => Reachable \subseteq S
  <1>1. Roots \subseteq Claims
    BY RootTypes DEF Roots
  <1>2. Closed(Claims)
    <2> SUFFICES ASSUME NEW c \in Claims, c.to \in 1..size
                 PROVE  Made(c) \subseteq Claims
      BY DEF Closed
    <2>1. NodeClaims(c) \subseteq Claims /\ TrunkClaims(c) \subseteq Claims
      BY MadeTypes DEF NodeClaims, TrunkClaims, Spills
    <2> QED BY <2>1, MadeTypes DEF Made
  <1>3. Roots \subseteq Reachable
    BY <1>1 DEF Reachable
  <1>4. Closed(Reachable)
    <2> SUFFICES ASSUME NEW c \in Reachable, c.to \in 1..size, NEW d \in Made(c)
                 PROVE  d \in Reachable
      BY DEF Closed
    <2>1. c \in Claims /\ \A S \in SUBSET Claims : Roots \subseteq S /\ Closed(S) => c \in S
      BY DEF Reachable
    <2>2. d \in Claims
      BY <1>2, <2>1 DEF Closed
    <2>3. ASSUME NEW S \in SUBSET Claims, Roots \subseteq S, Closed(S)
          PROVE  d \in S
      BY <2>1, <2>3 DEF Closed
    <2> QED BY <2>2, <2>3 DEF Reachable
  <1>5. \A S \in SUBSET Claims : Roots \subseteq S /\ Closed(S) => Reachable \subseteq S
    BY DEF Reachable
  <1> QED BY <1>1, <1>2, <1>3, <1>4, <1>5

\* The reference is about what the roots lead to.
LEMMA ReferenceIsReachable ==
    ASSUME TypeOK, Whole, size > 0
    PROVE  WellFormed <=> Coherent(Reachable)
  <1>1. size \in Nat /\ Roots # {}
    BY DEF TypeOK, Roots
  <1>2. Reached \subseteq Reachable
    BY <1>1, LeadsTo, ReachSound
  <1>3. \A R : Coherent(R) => OneToOne(R)
    BY DEF Coherent, OneToOne
  <1>4. ASSUME OneToOne(Reached)
        PROVE  Reached = Reachable
    <2>1. Closed(Reached) /\ Roots \subseteq Reached
      BY <1>1, <1>4, ReachedClosed, ReachGrows
    <2>2. Reached \subseteq Claims
      BY <1>2 DEF Reachable
    <2> QED BY <1>2, <2>1, <2>2, LeadsTo
  <1>5. OneToOne(Reachable) => OneToOne(Reached)
    BY <1>2 DEF OneToOne
  <1> QED BY <1>3, <1>4, <1>5 DEF WellFormed

\* What the roots lead to stays the same as long as the image stands.
LEMMA ReachableKept ==
    ASSUME UNCHANGED image
    PROVE  Reachable' = Reachable
  <1>1. size' = size /\ Roots' = Roots /\ \A c : Made(c)' = Made(c)
    BY ImageKept DEF image
  <1>2. \A S : Closed(S)' = Closed(S)
    BY <1>1 DEF Closed
  <1> QED BY <1>1, <1>2 DEF Reachable

---------------------------------------------------------------------------
(* The replay keeps the invariant *)

LEMMA InitHolds ==
    ASSUME Init
    PROVE  AdmissionInv
  <1>1. input \in Copies /\ Len(input.main) \in 1..MaxPage
    BY AdmissionAssumption DEF Init
  <1>2. Len(input.frames) \in Nat
    BY <1>1 DEF Copies
  <1>3. TypeOK /\ size > 0
    BY <1>1, <1>2, AdmissionAssumption DEF Init, TypeOK, Phases, Verdicts
  <1>4. Untouched
    BY DEF Init, Untouched
  <1>5. ReplayInv
    BY <1>2 DEF Init, ReplayInv, Taken, SizeAfter
  <1>6. PlaceInv /\ ClaimsInv /\ OwnedOnce
    BY DEF Init, PlaceInv, ClaimsInv, OwnedOnce, Walks
  <1> QED BY <1>3, <1>4, <1>5, <1>6 DEF AdmissionInv

LEMMA TakeFrameKeeps ==
    ASSUME AdmissionInv, TakeFrame
    PROVE  AdmissionInv'
  <1> DEFINE f == input.frames[frame + 1]
  <1>1. /\ phase = "replaying" /\ phase' = phase /\ frame' = frame + 1
        /\ frame < Len(input.frames) /\ Belongs(f) /\ Numbered(f)
        /\ UNCHANGED << input, source, owner, stack, trees, tree, here, cell, chain, rows, count >>
    BY DEF TakeFrame, Usable, walk
  <1>2. /\ f.size = 0 => commit' = commit /\ size' = size
        /\ f.size # 0 => commit' = frame + 1 /\ size' = f.size
    BY DEF TakeFrame
  <1>3. /\ frame \in Nat /\ commit \in Nat /\ commit <= frame /\ Len(input.frames) \in Nat
        /\ frame + 1 \in 1..Len(input.frames) /\ f.size \in Nat /\ size \in 1..MaxPage
        /\ MaxPage \in Nat
    <2>1. /\ frame \in 0..Len(input.frames) /\ commit \in 0..Len(input.frames)
          /\ size \in 0..MaxPage /\ size > 0 /\ TypeOK
      BY DEF AdmissionInv, TypeOK
    <2>2. commit <= frame
      BY <1>1 DEF AdmissionInv, ReplayInv
    <2>3. Len(input.frames) \in Nat
      BY <2>1, InputParts
    <2>4. frame + 1 \in 1..Len(input.frames)
      BY <1>1, <2>1, <2>3
    <2>5. f.size \in Nat
      BY <2>1, <2>4, InputParts
    <2>6. MaxPage \in Nat /\ size \in 1..MaxPage
      BY <2>1, AdmissionAssumption
    <2> QED BY <2>1, <2>2, <2>3, <2>4, <2>5, <2>6
  <1>4. commit' \in 0..frame + 1 /\ size' \in 1..MaxPage
    BY <1>1, <1>2, <1>3 DEF Numbered
  <1>5. source \in [1..MaxPage -> 0..commit']
    <2>1. \A p \in 1..MaxPage : source[p] = 0
      BY <1>1 DEF AdmissionInv, ReplayInv
    <2> QED BY <1>3, <1>4, <2>1 DEF AdmissionInv, TypeOK
  <1>6. TypeOK' /\ (size > 0)'
    <2>1. input' = input /\ input' \in Inputs /\ phase' \in Phases
      BY <1>1 DEF AdmissionInv, TypeOK
    <2>2. frame' \in 0..Len(input'.frames) /\ commit' \in 0..Len(input'.frames)
      BY <1>1, <1>3, <1>4
    <2>3. /\ owner' \in [1..MaxPage -> Claims \cup {None}]
          /\ stack' \in Seq(Claims) /\ trees' \in Seq(Claims) /\ tree' \in Names \cup {None}
          /\ here' \in Claims \cup {None} /\ cell' \in Nat /\ chain' \in Claims \cup {None}
          /\ rows' \in 0..MaxRows + 1 /\ count' \in Nat
      BY <1>1 DEF AdmissionInv, TypeOK
    <2>4. source' \in [1..MaxPage -> 0..commit'] /\ size' \in 0..MaxPage /\ size' > 0
      BY <1>1, <1>3, <1>4, <1>5
    <2> QED BY <2>1, <2>2, <2>3, <2>4 DEF TypeOK
  <1>7. Untouched'
    BY <1>1 DEF AdmissionInv, Untouched, Early
  <1>8. ReplayInv'
    <2>1. Taken(frame) /\ SizeAfter(commit) /\ \A i \in commit + 1 .. frame : input.frames[i].size = 0
      BY <1>1 DEF AdmissionInv, ReplayInv
    <2>2. Taken(frame)'
      <3>1. f.page \in 1..MaxPage
        BY <1>1 DEF Numbered
      <3> QED BY <1>1, <1>3, <2>1, <3>1 DEF Taken, Belongs
    <2>3. SizeAfter(commit)' /\ \A i \in commit' + 1 .. frame + 1 : input.frames[i].size = 0
      BY <1>1, <1>2, <1>3, <2>1, SMTT(20) DEF SizeAfter
    <2>4. (\A p \in 1..MaxPage : source[p] = 0)'
      BY <1>1 DEF AdmissionInv, ReplayInv
    <2>5. (\A i \in commit + 1 .. frame : input.frames[i].size = 0)'
      BY <1>1, <2>3
    <2>6. commit' <= frame'
      BY <1>1, <1>3, <1>4
    <2> QED BY <1>1, <2>2, <2>3, <2>4, <2>5, <2>6 DEF ReplayInv
  <1>9. PlaceInv' /\ ClaimsInv' /\ OwnedOnce'
    BY <1>1 DEF PlaceInv, ClaimsInv, OwnedOnce, Walks
  <1> QED BY <1>6, <1>7, <1>8, <1>9 DEF AdmissionInv

LEMMA EndJournalKeeps ==
    ASSUME AdmissionInv, EndJournal
    PROVE  AdmissionInv'
  <1>1. /\ phase = "replaying" /\ phase' = "placing" /\ frame' = 0 /\ EndOfJournal
        /\ UNCHANGED << commit, input, source, size, owner, stack, trees, tree, here, cell, chain,
                        rows, count >>
    BY DEF EndJournal, walk, image
  <1>2. /\ frame \in Nat /\ commit \in Nat /\ commit <= frame /\ Len(input.frames) \in Nat
        /\ frame <= Len(input.frames)
    BY <1>1, InputParts DEF AdmissionInv, TypeOK, ReplayInv
  <1>3. TypeOK' /\ (size > 0)'
    BY <1>1, <1>2 DEF AdmissionInv, TypeOK, Phases
  <1>4. LastCommit
    <2> SUFFICES ASSUME NEW m \in commit + 1 .. Len(input.frames)
                 PROVE  ~CommittedPrefix(m)
      BY DEF LastCommit
    <2>1. m \in Nat /\ m > 0 /\ m > commit
      BY <1>2
    <2>2. CASE m <= frame
      <3>1. input.frames[m].size = 0
        BY <1>1, <1>2, <2>1, <2>2 DEF AdmissionInv, ReplayInv
      <3> QED BY <2>1, <3>1 DEF CommittedPrefix
    <2>3. CASE m > frame
      <3>1. frame < Len(input.frames) /\ frame + 1 \in 1..m
        BY <1>2, <2>1, <2>3
      <3>2. ~Belongs(input.frames[frame + 1])
        BY <1>1, <3>1 DEF EndOfJournal, Belongs
      <3> QED BY <3>1, <3>2 DEF CommittedPrefix, Belongs
    <2> QED BY <1>2, <2>1, <2>2, <2>3
  <1>5. ReplayInv'
    <2>1. (Taken(commit) /\ SizeAfter(commit) /\ LastCommit)'
      BY <1>1, <1>2, <1>4 DEF AdmissionInv, ReplayInv, Taken, SizeAfter, LastCommit, CommittedPrefix
    <2>2. PlacedUpTo(0)'
      BY <1>1 DEF AdmissionInv, ReplayInv, PlacedUpTo
    <2> QED BY <1>1, <1>2, <2>1, <2>2 DEF ReplayInv
  <1>6. Untouched'
    BY <1>1 DEF AdmissionInv, Untouched, Early
  <1>7. PlaceInv' /\ ClaimsInv' /\ OwnedOnce'
    BY <1>1 DEF PlaceInv, ClaimsInv, OwnedOnce, Walks
  <1> QED BY <1>3, <1>5, <1>6, <1>7 DEF AdmissionInv

LEMMA PlaceFrameKeeps ==
    ASSUME AdmissionInv, PlaceFrame
    PROVE  AdmissionInv'
  <1> DEFINE q == input.frames[frame + 1].page
  <1>1. /\ phase = "placing" /\ phase' = phase /\ frame < commit /\ frame' = frame + 1
        /\ source' = [source EXCEPT ![q] = frame + 1]
        /\ UNCHANGED << commit, input, size, owner, stack, trees, tree, here, cell, chain, rows, count >>
    BY DEF PlaceFrame, walk
  <1>2. /\ frame \in Nat /\ commit \in 0..Len(input.frames) /\ Len(input.frames) \in Nat
        /\ source \in [1..MaxPage -> 0..commit] /\ frame + 1 \in 1..commit
    BY <1>1, InputParts DEF AdmissionInv, TypeOK
  <1>3. q \in 1..MaxPage
    BY <1>1, <1>2 DEF AdmissionInv, ReplayInv, Taken
  <1>4. TypeOK' /\ (size > 0)'
    BY <1>1, <1>2, <1>3 DEF AdmissionInv, TypeOK
  <1>5. PlacedUpTo(frame)'
    <2>1. PlacedUpTo(frame)
      BY <1>1 DEF AdmissionInv, ReplayInv
    <2> SUFFICES ASSUME NEW p \in 1..MaxPage
                 PROVE  /\ source'[p] \in 0..frame + 1
                        /\ source'[p] # 0 => input.frames[source'[p]].page = p
                        /\ \A i \in source'[p] + 1 .. frame + 1 : input.frames[i].page # p
      BY <1>1 DEF PlacedUpTo
    <2>2. CASE p = q
      BY <1>1, <1>2, <1>3, <2>2
    <2>3. CASE p # q
      <3>1. source'[p] = source[p]
        BY <1>1, <1>2, <1>3, <2>3
      <3>2. \A i \in source[p] + 1 .. frame + 1 : i = frame + 1 \/ i \in source[p] + 1 .. frame
        BY <1>2, <2>1 DEF PlacedUpTo
      <3> QED BY <1>2, <2>1, <2>3, <3>1, <3>2 DEF PlacedUpTo
    <2> QED BY <2>2, <2>3
  <1>6. ReplayInv'
    <2>1. (Taken(commit) /\ SizeAfter(commit) /\ LastCommit)'
      BY <1>1 DEF AdmissionInv, ReplayInv, Taken, SizeAfter, LastCommit, CommittedPrefix
    <2> QED BY <1>1, <1>2, <1>5, <2>1 DEF ReplayInv
  <1>7. Untouched'
    BY <1>1 DEF AdmissionInv, Untouched, Early
  <1>8. PlaceInv' /\ ClaimsInv' /\ OwnedOnce'
    BY <1>1 DEF PlaceInv, ClaimsInv, OwnedOnce, Walks
  <1> QED BY <1>4, <1>6, <1>7, <1>8 DEF AdmissionInv

LEMMA FinishReplayKeeps ==
    ASSUME AdmissionInv, FinishReplay
    PROVE  AdmissionInv'
  <1>1. /\ phase = "placing" /\ phase' = "replayed" /\ frame = commit
        /\ UNCHANGED << frame, commit, input, source, size, owner, stack, trees, tree, here, cell,
                        chain, rows, count >>
    BY DEF FinishReplay, walk, image, replay
  <1>2. TypeOK' /\ (size > 0)'
    BY <1>1 DEF AdmissionInv, TypeOK, Phases
  <1>3. ReplayInv'
    BY <1>1 DEF AdmissionInv, ReplayInv, Taken, SizeAfter, LastCommit, CommittedPrefix, PlacedUpTo
  <1>4. Untouched'
    BY <1>1 DEF AdmissionInv, Untouched, Early
  <1>5. PlaceInv' /\ ClaimsInv' /\ OwnedOnce'
    BY <1>1 DEF PlaceInv, ClaimsInv, OwnedOnce, Walks
  <1> QED BY <1>2, <1>3, <1>4, <1>5 DEF AdmissionInv

---------------------------------------------------------------------------
(* Sequences of claims *)

LEMMA Appended ==
    ASSUME NEW S, NEW s \in Seq(S), NEW x \in S
    PROVE  Append(s, x) \in Seq(S) /\ Elements(Append(s, x)) = Elements(s) \cup {x}
  <1>1. Append(s, x) \in Seq(S) /\ Len(s) \in Nat /\ Len(Append(s, x)) = Len(s) + 1
    OBVIOUS
  <1>2. \A i \in 1..Len(s) : Append(s, x)[i] = s[i]
    OBVIOUS
  <1>3. Append(s, x)[Len(s) + 1] = x
    OBVIOUS
  <1>4. DOMAIN s = 1..Len(s) /\ DOMAIN Append(s, x) = 1..Len(s) + 1
    BY <1>1
  <1>5. \A y \in Elements(Append(s, x)) : y \in Elements(s) \cup {x}
    BY <1>1, <1>2, <1>3, <1>4 DEF Elements
  <1>6. \A y \in Elements(s) \cup {x} : y \in Elements(Append(s, x))
    BY <1>1, <1>2, <1>3, <1>4 DEF Elements
  <1> QED BY <1>1, <1>5, <1>6

LEMMA StackPopped ==
    ASSUME NEW S, stack \in Seq(S), stack # <<>>
    PROVE  /\ Popped \in Seq(S) /\ Top \in S
           /\ Stacked = Elements(Popped) \cup {Top}
  <1>1. Len(stack) \in Nat /\ Len(stack) > 0 /\ DOMAIN stack = 1..Len(stack)
    OBVIOUS
  <1>2. Popped \in Seq(S) /\ Len(Popped) = Len(stack) - 1
    BY <1>1 DEF Popped
  <1>3. \A i \in 1..Len(stack) - 1 : Popped[i] = stack[i]
    BY <1>1 DEF Popped
  <1>4. DOMAIN Popped = 1..Len(stack) - 1
    BY <1>2
  <1>5. \A y \in Stacked : y \in Elements(Popped) \cup {Top}
    BY <1>1, <1>3, <1>4 DEF Stacked, Elements, Top
  <1>6. \A y \in Elements(Popped) \cup {Top} : y \in Stacked
    BY <1>1, <1>3, <1>4 DEF Stacked, Elements, Top
  <1> QED BY <1>1, <1>2, <1>5, <1>6 DEF Top

LEMMA TreesTaken ==
    ASSUME NEW S, trees \in Seq(S), trees # <<>>
    PROVE  /\ Tail(trees) \in Seq(S) /\ Head(trees) \in S
           /\ Elements(trees) = Elements(Tail(trees)) \cup {Head(trees)}
  <1>1. Len(trees) \in Nat /\ Len(trees) > 0 /\ DOMAIN trees = 1..Len(trees)
    OBVIOUS
  <1>2. Tail(trees) \in Seq(S) /\ Len(Tail(trees)) = Len(trees) - 1 /\ Head(trees) = trees[1]
    BY <1>1
  <1>3. \A i \in 1..Len(trees) - 1 : Tail(trees)[i] = trees[i + 1]
    BY <1>1
  <1>4. DOMAIN Tail(trees) = 1..Len(trees) - 1
    BY <1>2
  <1>5. ASSUME NEW i \in 1..Len(trees)
        PROVE  trees[i] \in Elements(Tail(trees)) \cup {Head(trees)}
    <2>1. CASE i = 1
      BY <1>2, <2>1
    <2>2. CASE i > 1
      <3>1. i - 1 \in 1..Len(trees) - 1 /\ Tail(trees)[i - 1] = trees[i]
        BY <1>1, <1>3, <2>2
      <3> QED BY <1>4, <3>1 DEF Elements
    <2> QED BY <1>1, <2>1, <2>2
  <1>6. ASSUME NEW i \in 1..Len(trees) - 1
        PROVE  Tail(trees)[i] \in Elements(trees)
    BY <1>1, <1>3 DEF Elements
  <1>7. \A y \in Elements(trees) : y \in Elements(Tail(trees)) \cup {Head(trees)}
    BY <1>1, <1>5 DEF Elements
  <1>8. \A y \in Elements(Tail(trees)) \cup {Head(trees)} : y \in Elements(trees)
    BY <1>1, <1>2, <1>4, <1>6 DEF Elements
  <1> QED BY <1>1, <1>2, <1>7, <1>8

---------------------------------------------------------------------------
(* Granting *)

\* Only nodes, pages of a chain that goes on, and trunks make claims.
LEMMA MadeByRole ==
    ASSUME NEW c
    PROVE  /\ OfTree(c) => Made(c) = NodeClaims(c)
           /\ OfChain(c) => Made(c) = IF c.level > 1 THEN {NextClaim(c)} ELSE {}
           /\ Trunk(c) => Made(c) = TrunkClaims(c)
           /\ c.role \in {"free", "map"} /\ c.slot # "trunk" => Made(c) = {}
  <1>1. OfTree(c) => Made(c) = NodeClaims(c)
    BY DEF OfTree, Made
  <1>2. OfChain(c) => Made(c) = IF c.level > 1 THEN {NextClaim(c)} ELSE {}
    <2> SUFFICES ASSUME OfChain(c)
                 PROVE  Made(c) = IF c.level > 1 THEN {NextClaim(c)} ELSE {}
      OBVIOUS
    <2>1. /\ c.role \notin {"root", "node"} /\ c.role \in {"first", "later"}
          /\ c.slot # "trunk"
      BY DEF OfChain
    <2> QED BY <2>1 DEF Made
  <1>3. Trunk(c) => Made(c) = TrunkClaims(c)
    BY DEF Trunk, Made
  <1>4. c.role \in {"free", "map"} /\ c.slot # "trunk" => Made(c) = {}
    BY DEF Made
  <1> QED BY <1>1, <1>2, <1>3, <1>4

LEMMA SameOwners ==
    ASSUME UNCHANGED << image, owner >>
    PROVE  /\ Owners' = Owners /\ Demands' = Demands
           /\ OwnersFit => OwnersFit'
           /\ \A c : Granted(c)' = Granted(c)
  <1>1. size' = size /\ owner' = owner
    BY DEF image
  <1>2. Owners' = Owners
    BY <1>1 DEF Owners
  <1>3. Demands' = Demands
    BY <1>2, ImageKept DEF Demands
  <1> QED BY <1>1, <1>2, <1>3 DEF OwnersFit, Granted

\* A page that is granted adds its claims, and what was granted stays so.
LEMMA GrantAdds ==
    ASSUME AdmissionInv, phase \in Walks, NEW c \in Claims, Grantable(c.to), Grant(c),
           UNCHANGED image
    PROVE  /\ Owners' = Owners \cup {c} /\ Demands' = Demands \cup Made(c)
           /\ OwnersFit' /\ Granted(c)'
           /\ \A d : Granted(d) => Granted(d)'
           /\ owner' \in [1..MaxPage -> Claims \cup {None}]
  <1>1. /\ size' = size /\ size \in Nat /\ MaxPage \in Nat /\ size <= MaxPage
        /\ owner \in [1..MaxPage -> Claims \cup {None}]
        /\ owner' = [owner EXCEPT ![c.to] = c]
    BY AdmissionAssumption DEF AdmissionInv, TypeOK, Grant, image
  <1>2. c.to \in 1..size /\ c.to \in 1..MaxPage /\ owner[c.to] = None /\ c # None
    BY <1>1, AbsentAssumption DEF Grantable
  <1>3. /\ owner'[c.to] = c
        /\ \A p \in 1..size : p # c.to => owner'[p] = owner[p]
    BY <1>1, <1>2
  <1>4. Owners' = Owners \cup {c}
    <2>1. \A x \in Owners' : x \in Owners \cup {c}
      BY <1>1, <1>3 DEF Owners
    <2>2. \A x \in Owners : x \in Owners'
      BY <1>1, <1>2, <1>3 DEF Owners
    <2>3. c \in Owners'
      BY <1>1, <1>2, <1>3 DEF Owners
    <2> QED BY <2>1, <2>2, <2>3
  <1>5. Demands' = Demands \cup Made(c)
    <2>1. Demands' = Roots \cup UNION {Made(d) : d \in Owners'}
      BY ImageKept DEF Demands
    <2>2. UNION {Made(d) : d \in Owners \cup {c}} = (UNION {Made(d) : d \in Owners}) \cup Made(c)
      OBVIOUS
    <2> QED BY <1>4, <2>1, <2>2 DEF Demands
  <1>6. OwnersFit'
    BY <1>1, <1>2, <1>3 DEF AdmissionInv, ClaimsInv, OwnersFit
  <1>7. Granted(c)'
    BY <1>1, <1>2, <1>3 DEF Granted
  <1>8. ASSUME NEW d, Granted(d)
        PROVE  Granted(d)'
    <2>1. d # None /\ d.to \in 1..size /\ owner[d.to] = d
      BY <1>8 DEF Granted
    <2>2. CASE d.to = c.to
      BY <1>2, <2>1, <2>2
    <2>3. CASE d.to # c.to
      BY <1>1, <1>3, <2>1, <2>3 DEF Granted
    <2> QED BY <2>2, <2>3
  <1> QED BY <1>1, <1>4, <1>5, <1>6, <1>7, <1>8

\* A step that grants a page: the claim was waiting, what the page claims now waits.
LEMMA GrantKept ==
    ASSUME AdmissionInv, phase \in Walks, UNCHANGED image,
           NEW c \in Claims, Grantable(c.to), Grant(c),
           c \in Waiting, Waiting' \subseteq Waiting \cup Made(c),
           Waiting \cup Made(c) \subseteq Waiting' \cup {c}
    PROVE  ClaimsInv'
  <1>1. /\ Owners' = Owners \cup {c} /\ Demands' = Demands \cup Made(c)
        /\ OwnersFit' /\ Granted(c)'
        /\ \A d : Granted(d) => Granted(d)'
    BY GrantAdds
  <1>2. /\ Owners \subseteq Demands /\ Waiting \subseteq Demands
        /\ \A d \in Demands : Granted(d) \/ d \in Waiting
    BY DEF AdmissionInv, ClaimsInv
  <1>3. (Owners \subseteq Demands)' /\ (Waiting \subseteq Demands)'
    BY <1>1, <1>2
  <1>6. (Owners \subseteq Reachable)' /\ (Waiting \subseteq Reachable)'
    <2>1. Owners \subseteq Reachable /\ Waiting \subseteq Reachable
      BY DEF AdmissionInv, ClaimsInv
    <2>2. Closed(Reachable)
      BY LeadsTo DEF AdmissionInv, PlaceInv
    <2>3. Made(c) \subseteq Reachable
      BY <2>1, <2>2 DEF Closed, Grantable
    <2>4. Reachable' = Reachable
      BY ReachableKept
    <2> QED BY <1>1, <2>1, <2>3, <2>4
  <1>4. ASSUME NEW d \in Demands'
        PROVE  Granted(d)' \/ d \in Waiting'
    <2>1. CASE d \in Demands
      <3>1. Granted(d) \/ d \in Waiting
        BY <1>2, <2>1
      <3> QED BY <1>1, <3>1
    <2>2. CASE d \in Made(c)
      BY <1>1, <2>2
    <2> QED BY <1>1, <1>4, <2>1, <2>2
  <1>5. (\A d \in Demands : Granted(d) \/ d \in Waiting)'
    BY <1>4
  <1> QED BY <1>1, <1>3, <1>5, <1>6 DEF ClaimsInv

\* A step that grants nothing and leaves waiting what was.
LEMMA QuietKept ==
    ASSUME ClaimsInv, phase \in Walks, UNCHANGED << image, owner >>, Waiting' = Waiting
    PROVE  ClaimsInv'
  <1>1. OwnersFit
    BY DEF ClaimsInv
  <1>2. Owners' = Owners /\ Demands' = Demands /\ OwnersFit'
    BY <1>1, SameOwners
  <1>3. /\ Owners \subseteq Demands /\ Waiting \subseteq Demands
        /\ \A c \in Demands : Granted(c) \/ c \in Waiting
    BY DEF ClaimsInv
  <1>4. (Owners \subseteq Demands)' /\ (Waiting \subseteq Demands)'
    BY <1>2, <1>3
  <1>5. (\A c \in Demands : Granted(c) \/ c \in Waiting)'
    BY <1>2, <1>3, SameOwners
  <1>6. (Owners \subseteq Reachable)' /\ (Waiting \subseteq Reachable)'
    BY <1>2, ReachableKept DEF ClaimsInv
  <1> QED BY <1>2, <1>4, <1>5, <1>6 DEF ClaimsInv

\* The types of a walk whose parts have theirs.
LEMMA WalkTyped ==
    ASSUME TypeOK, UNCHANGED << replay, image >>, phase' \in Phases,
           owner' \in [1..MaxPage -> Claims \cup {None}],
           stack' \in Seq(Claims), trees' \in Seq(Claims), tree' \in Names \cup {None},
           here' \in Claims \cup {None}, cell' \in Nat, chain' \in Claims \cup {None},
           rows' \in 0..MaxRows + 1, count' \in Nat
    PROVE  TypeOK'
  <1>1. UNCHANGED << frame, commit, input, source, size >>
    BY DEF replay, image
  <1> QED BY <1>1 DEF TypeOK

\* In a walk nothing is said about the replay, and nothing is admitted yet.
LEMMA WalkOnly ==
    ASSUME phase' \in Walks
    PROVE  Untouched' /\ ReplayInv' /\ OwnedOnce'
  BY DEF Walks, Untouched, ReplayInv, OwnedOnce, Early

\* At its start the roots wait, and only the pages of the pointer map are granted.
LEMMA BeginWalkFacts ==
    ASSUME AdmissionInv, BeginWalk
    PROVE  /\ phase = "replayed" /\ phase' = "walking" /\ TypeOK /\ Whole /\ size > 0
           /\ UNCHANGED << replay, image, trees, tree, here, cell, chain, rows, count >>
           /\ trees = <<>> /\ here = None /\ chain = None /\ tree = None /\ count = 0
           /\ stack' = <<SchemaClaim>> /\ SchemaClaim \in Claims
           /\ owner' = [p \in 1..MaxPage |-> IF p \in MapPages THEN MapClaim(p) ELSE None]
           /\ \A p \in MapPages : MapClaim(p) \in Claims /\ p \in 1..MaxPage /\ p \in 2..size
           /\ Stacked' = {SchemaClaim} /\ Found' = {} /\ Chained' = {} /\ Remaining' = {}
           /\ Waiting' = {SchemaClaim} \cup FreeRoot
           /\ Owners' = {MapClaim(p) : p \in MapPages} /\ Demands' = Roots
           /\ Roots = {SchemaClaim} \cup FreeRoot \cup {MapClaim(p) : p \in MapPages}
  <1>1. /\ phase = "replayed" /\ phase' = "walking" /\ Whole
        /\ owner' = [p \in 1..MaxPage |-> IF p \in MapPages THEN MapClaim(p) ELSE None]
        /\ stack' = <<SchemaClaim>>
        /\ UNCHANGED << replay, image, trees, tree, here, cell, chain, rows, count >>
    BY DEF BeginWalk
  <1>2. /\ TypeOK /\ size > 0 /\ trees = <<>> /\ here = None /\ chain = None
        /\ tree = None /\ count = 0
    BY <1>1 DEF AdmissionInv, Untouched, Early
  <1>3. /\ SchemaClaim \in Claims /\ FreeHead \in Claims \cup {None}
        /\ \A p \in MapPages : MapClaim(p) \in Claims /\ p \in 1..MaxPage /\ p \in 2..size
    BY <1>1, <1>2, RootTypes
  <1>4. size' = size /\ FreeRoot' = FreeRoot
    BY <1>1, ImageKept DEF image
  <1>5. Stacked' = {SchemaClaim}
    BY <1>1 DEF Stacked, Elements
  <1>6. Found' = {}
    BY <1>1, <1>2 DEF Found
  <1>7. Chained' = {} /\ Remaining' = {}
    BY <1>1, <1>2 DEF Chained, Remaining
  <1>8. Waiting' = {SchemaClaim} \cup FreeRoot
    BY <1>1, <1>4, <1>5, <1>6, <1>7 DEF Waiting
  <1>9. Owners' = {MapClaim(p) : p \in MapPages}
    <2>1. \A x \in Owners' : x \in {MapClaim(p) : p \in MapPages}
      <3>1. \A p \in 1..size : p \in 1..MaxPage
        BY <1>2, AdmissionAssumption DEF TypeOK
      <3>2. \A p \in 1..size : owner'[p] # None => p \in MapPages /\ owner'[p] = MapClaim(p)
        BY <1>1, <3>1
      <3> QED BY <1>4, <3>2 DEF Owners
    <2>2. ASSUME NEW p \in MapPages
          PROVE  MapClaim(p) \in Owners'
      <3>1. p \in 1..size /\ owner'[p] = MapClaim(p) /\ MapClaim(p) # None
        BY <1>1, <1>2, <1>3, ClaimFields DEF TypeOK
      <3> QED BY <1>4, <3>1 DEF Owners
    <2> QED BY <2>1, <2>2
  <1>10. Demands' = Roots
    <2>1. \A p : Made(MapClaim(p)) = {}
      BY MadeByRole DEF MapClaim, Claim
    <2>2. UNION {Made(c) : c \in {MapClaim(p) : p \in MapPages}} = {}
      BY <2>1
    <2>3. Demands' = Roots \cup UNION {Made(c) : c \in Owners'}
      BY <1>1, ImageKept DEF Demands
    <2> QED BY <1>9, <2>2, <2>3
  <1>11. Roots = {SchemaClaim} \cup FreeRoot \cup {MapClaim(p) : p \in MapPages}
    BY DEF Roots, FreeRoot
  <1> QED BY <1>1, <1>2, <1>3, <1>5, <1>6, <1>7, <1>8, <1>9, <1>10, <1>11

LEMMA BeginWalkKeeps ==
    ASSUME AdmissionInv, BeginWalk
    PROVE  AdmissionInv'
  <1>1. /\ phase = "replayed" /\ phase' = "walking" /\ Whole
        /\ owner' = [p \in 1..MaxPage |-> IF p \in MapPages THEN MapClaim(p) ELSE None]
        /\ stack' = <<SchemaClaim>>
        /\ UNCHANGED << replay, image, trees, tree, here, cell, chain, rows, count >>
    BY DEF BeginWalk
  <1>2. TypeOK /\ size > 0 /\ trees = <<>> /\ here = None /\ chain = None
    BY BeginWalkFacts
  <1>3. /\ SchemaClaim \in Claims
        /\ \A p \in MapPages : MapClaim(p) \in Claims /\ p \in 1..MaxPage /\ p \in 2..size
    BY BeginWalkFacts
  <1>4. owner' \in [1..MaxPage -> Claims \cup {None}] /\ stack' \in Seq(Claims)
    BY <1>1, <1>3
  <1>5. TypeOK'
    BY <1>1, <1>2, <1>4, WalkTyped DEF TypeOK, Phases
  <1>6. size' = size /\ Whole' /\ Roots' = Roots /\ MapPages' = MapPages
    BY <1>1, ImageKept DEF image
  <1>7. Stacked' = {SchemaClaim} /\ Found' = {}
    BY BeginWalkFacts
  <1>8. PlaceInv'
    BY <1>1, <1>2, <1>6, <1>7 DEF PlaceInv, OfTree, SchemaClaim, Claim
  <1>9. /\ Waiting' = {SchemaClaim} \cup FreeRoot
         /\ Owners' = {MapClaim(p) : p \in MapPages} /\ Demands' = Roots
         /\ Roots = {SchemaClaim} \cup FreeRoot \cup {MapClaim(p) : p \in MapPages}
    BY BeginWalkFacts
  <1>10. ASSUME NEW p \in MapPages
         PROVE  Granted(MapClaim(p))'
    <2>1. /\ MapClaim(p).to = p /\ p \in 1..size /\ owner'[p] = MapClaim(p)
          /\ MapClaim(p) # None
      BY <1>1, <1>2, <1>3, ClaimFields DEF TypeOK, MapClaim, Claim
    <2> QED BY <1>6, <2>1 DEF Granted
  <1>11. OwnersFit'
    <2>1. ASSUME NEW p \in 1..size, owner'[p] # None
          PROVE  owner'[p].to = p
      <3>1. p \in 1..MaxPage
        BY <1>2, AdmissionAssumption DEF TypeOK
      <3>2. p \in MapPages /\ owner'[p] = MapClaim(p)
        BY <1>1, <2>1, <3>1
      <3> QED BY <3>2 DEF MapClaim, Claim
    <2> QED BY <1>6, <2>1 DEF OwnersFit
  <1>12. ClaimsInv'
    <2>1. \A c \in Roots : Granted(c)' \/ c \in Waiting'
      BY <1>9, <1>10
    <2>2. (Owners \subseteq Demands)' /\ (Waiting \subseteq Demands)'
      BY <1>9
    <2>3. (\A c \in Demands : Granted(c) \/ c \in Waiting)'
      BY <1>9, <2>1
    <2>4. (Owners \subseteq Reachable)' /\ (Waiting \subseteq Reachable)'
      <3>1. Roots \subseteq Reachable /\ Reachable' = Reachable
        BY <1>1, <1>2, LeadsTo, ReachableKept
      <3> QED BY <1>9, <2>2, <3>1
    <2> QED BY <1>11, <2>2, <2>3, <2>4 DEF ClaimsInv
  <1> QED BY <1>1, <1>2, <1>5, <1>6, <1>8, <1>12, WalkOnly DEF AdmissionInv, Walks

---------------------------------------------------------------------------
(* The slots of a node *)

\* What a node claims first, and what its cell n claims.
Right(c) == IF Content(c.to).leaf THEN {} ELSE {RightClaim(c)}

Left(c, n) == IF Content(c.to).leaf THEN {} ELSE {LeftClaim(c, n)}

Spill(c, n) == IF n \in Spills(c) THEN {SpillClaim(c, n)} ELSE {}

Root(c, n) == IF c.tree = None /\ Carries(Content(c.to)) THEN {RootClaim(c, n)} ELSE {}

AtSlot(c, n) == Left(c, n) \cup Spill(c, n) \cup Root(c, n)

LEMMA SlotAt ==
    ASSUME NEW c, NEW n
    PROVE  /\ LeftClaim(c, n).at = n /\ SpillClaim(c, n).at = n /\ RootClaim(c, n).at = n
           /\ RightClaim(c).at = 0 /\ ListedClaim(c, n).at = n
           /\ OfTree(LeftClaim(c, n)) /\ OfTree(RootClaim(c, n)) /\ OfTree(RightClaim(c))
           /\ OfChain(SpillClaim(c, n)) /\ OfChain(NextClaim(c))
  BY DEF LeftClaim, SpillClaim, RootClaim, RightClaim, ListedClaim, NextClaim, Claim, OfTree,
         OfChain

\* Cells claim at their own numbers, which start at one; the rightmost child comes first.
LEMMA NodeSlots ==
    ASSUME TypeOK, Whole, NEW c \in Claims, c.to \in 1..size, OfTree(c)
    PROVE  /\ \A d \in Made(c) :
                 \/ d.at = 0 /\ ~Content(c.to).leaf /\ d = RightClaim(c)
                 \/ d.at \in DOMAIN Content(c.to).cells
           /\ ~Content(c.to).leaf => RightClaim(c) \in Made(c)
           /\ \A n \in DOMAIN Content(c.to).cells : {d \in Made(c) : d.at = n} = AtSlot(c, n)
           /\ DOMAIN Content(c.to).cells = 1..Len(Content(c.to).cells)
           /\ Len(Content(c.to).cells) \in Nat
  <1> DEFINE D == DOMAIN Content(c.to).cells
             L == IF Content(c.to).leaf THEN {} ELSE {LeftClaim(c, i) : i \in D}
             R == IF Content(c.to).leaf THEN {} ELSE {RightClaim(c)}
             S == {SpillClaim(c, i) : i \in Spills(c)}
             T == IF c.tree = None /\ Carries(Content(c.to)) THEN {RootClaim(c, i) : i \in D} ELSE {}
  <1>1. D = 1..Len(Content(c.to).cells) /\ Len(Content(c.to).cells) \in Nat
    <2>1. Content(c.to).cells \in Seq(Cells)
      BY ContentType, PageParts
    <2> QED BY <2>1
  <1>2. Made(c) = R \cup L \cup S \cup T
    <2>1. Made(c) = NodeClaims(c)
      BY MadeByRole
    <2> QED BY <2>1 DEF NodeClaims
  <1>3. Spills(c) \subseteq D
    BY DEF Spills
  <1>4. \A d \in R : d.at = 0 /\ ~Content(c.to).leaf /\ d = RightClaim(c)
    BY SlotAt
  <1>5. /\ \A d \in L : d.at \in D /\ ~Content(c.to).leaf /\ d = LeftClaim(c, d.at)
        /\ \A d \in S : d.at \in Spills(c) /\ d = SpillClaim(c, d.at)
        /\ \A d \in T : d.at \in D /\ c.tree = None /\ Carries(Content(c.to)) /\ d = RootClaim(c, d.at)
    BY SlotAt
  <1>6. ASSUME NEW n \in D
        PROVE  {d \in Made(c) : d.at = n} = AtSlot(c, n)
    <2>1. ASSUME NEW d \in Made(c), d.at = n
          PROVE  d \in AtSlot(c, n)
      <3>1. d \notin R
        BY <1>1, <1>4, <2>1
      <3>2. CASE d \in L
        BY <1>5, <2>1, <3>2 DEF AtSlot, Left, Spill, Root
      <3>3. CASE d \in S
        BY <1>5, <2>1, <3>3 DEF AtSlot, Left, Spill, Root
      <3>4. CASE d \in T
        BY <1>5, <2>1, <3>4 DEF AtSlot, Left, Spill, Root
      <3> HIDE DEF L, R, S, T
      <3> QED BY <1>2, <2>1, <3>1, <3>2, <3>3, <3>4
    <2>2. ASSUME NEW d \in AtSlot(c, n)
          PROVE  d \in Made(c) /\ d.at = n
      <3>1. d.at = n
        BY <2>2, SlotAt DEF AtSlot, Left, Spill, Root
      <3>2. d \in L \cup S \cup T
        BY <2>2 DEF AtSlot, Left, Spill, Root
      <3> HIDE DEF L, R, S, T
      <3> QED BY <1>2, <3>1, <3>2
    <2> QED BY <2>1, <2>2
  <1>7. \A d \in Made(c) : (d.at = 0 /\ ~Content(c.to).leaf /\ d = RightClaim(c)) \/ d.at \in D
    <2> HIDE DEF L, R, S, T, D
    <2> QED BY <1>2, <1>3, <1>4, <1>5
  <1>8. ~Content(c.to).leaf => RightClaim(c) \in Made(c)
    BY <1>2
  <1> HIDE DEF L, R, S, T
  <1> QED BY <1>1, <1>6, <1>7, <1>8

LEMMA TrunkSlots ==
    ASSUME TypeOK, Whole, NEW c \in Claims, c.to \in 1..size, Trunk(c)
    PROVE  /\ \A d \in Made(c) :
                 \/ d.slot = "trunk" /\ Content(c.to).next # 0 /\ d = TrunkClaim(c.to, Content(c.to).next)
                 \/ /\ d.slot = "listed" /\ d.at \in DOMAIN Content(c.to).listed
                    /\ d = ListedClaim(c, d.at)
           /\ Content(c.to).next # 0 => TrunkClaim(c.to, Content(c.to).next) \in Made(c)
           /\ \A n \in DOMAIN Content(c.to).listed : ListedClaim(c, n) \in Made(c)
           /\ DOMAIN Content(c.to).listed = 1..Len(Content(c.to).listed)
           /\ Len(Content(c.to).listed) \in Nat
           /\ \A p, q : TrunkClaim(p, q).slot = "trunk" /\ TrunkClaim(p, q).at = 0
  <1> DEFINE D == DOMAIN Content(c.to).listed
             next == TrunkClaim(c.to, Content(c.to).next)
             L == {ListedClaim(c, i) : i \in D}
             N == IF Content(c.to).next = 0 THEN {} ELSE {next}
  <1>1. D = 1..Len(Content(c.to).listed) /\ Len(Content(c.to).listed) \in Nat
    <2>1. Content(c.to).listed \in Seq(Nat)
      BY ContentType, PageParts
    <2> QED BY <2>1
  <1>2. Made(c) = L \cup N
    <2>1. Made(c) = TrunkClaims(c)
      BY MadeByRole
    <2> QED BY <2>1 DEF TrunkClaims
  <1>3. \A d \in L : d.slot = "listed" /\ d.at \in D /\ d = ListedClaim(c, d.at)
    BY DEF ListedClaim, Claim
  <1>4. \A p, q : TrunkClaim(p, q).slot = "trunk" /\ TrunkClaim(p, q).at = 0
    BY DEF TrunkClaim, Claim
  <1> QED BY <1>1, <1>2, <1>3, <1>4

---------------------------------------------------------------------------
(* The walk of the trees keeps the invariant *)

\* What is known in a walk.
LEMMA WalkFacts ==
    ASSUME AdmissionInv, phase \in Walks
    PROVE  /\ TypeOK /\ size > 0 /\ Whole /\ PlaceInv /\ ClaimsInv
           /\ stack \in Seq(Claims) /\ trees \in Seq(Claims) /\ tree \in Names \cup {None}
           /\ here \in Claims \cup {None} /\ chain \in Claims \cup {None}
           /\ cell \in Nat /\ count \in Nat /\ rows \in 0..MaxRows + 1
           /\ owner \in [1..MaxPage -> Claims \cup {None}]
           /\ phase \in Phases
           /\ here # None => here \in Claims /\ here.to \in 1..size /\ Granted(here)
  BY DEF AdmissionInv, TypeOK, PlaceInv, Granted

\* A step of the walk keeps the invariant when it keeps the parts about the walk.
LEMMA WalkStep ==
    ASSUME AdmissionInv, phase' \in Walks, UNCHANGED image, TypeOK', PlaceInv', ClaimsInv'
    PROVE  AdmissionInv'
  <1>1. (size > 0)'
    BY DEF AdmissionInv, image
  <1> QED BY <1>1, WalkOnly DEF AdmissionInv

\* A node moves from the stack to here, with all its slots to be read.
LEMMA EnterFacts ==
    ASSUME AdmissionInv, Enter, NEW c \in Claims, c = Top
    PROVE  /\ phase = "walking" /\ phase' = phase /\ phase \in Walks
           /\ here = None /\ chain = None /\ OfTree(c) /\ Grantable(c.to) /\ Grant(c)
           /\ here' = c /\ cell' = 0
           /\ UNCHANGED << replay, image, trees, tree, chain, rows, count >>
           /\ stack \in Seq(Claims) /\ stack # <<>> /\ Popped \in Seq(Claims)
           /\ Stacked = Elements(Popped) \cup {c}
           /\ stack' = IF Content(c.to).leaf THEN Popped ELSE Append(Popped, RightClaim(c))
           /\ RightClaim(c) \in Claims
           /\ stack' \in Seq(Claims) /\ Stacked' = Elements(Popped) \cup Right(c)
           /\ Found' = Found /\ FreeRoot' = FreeRoot /\ Chained' = {}
           /\ Remaining = {} /\ Remaining' = {d \in Made(c) : d.at > 0}
           /\ Made(c) = Right(c) \cup {d \in Made(c) : d.at > 0}
           /\ Waiting = Elements(Popped) \cup {c} \cup Found \cup FreeRoot
           /\ Waiting' = Elements(Popped) \cup Made(c) \cup Found \cup FreeRoot
  <1>1. /\ phase = "walking" /\ phase' = phase /\ phase \in Walks
        /\ here = None /\ stack # <<>> /\ Grantable(c.to) /\ Grant(c)
        /\ here' = c /\ cell' = 0
        /\ stack' = IF Content(c.to).leaf THEN Popped ELSE Append(Popped, RightClaim(c))
        /\ UNCHANGED << replay, image, trees, tree, chain, rows, count >>
    BY DEF Enter, Walks
  <1>2. TypeOK /\ Whole /\ PlaceInv /\ stack \in Seq(Claims)
    BY <1>1, WalkFacts
  <1>3. chain = None
    BY <1>1, <1>2 DEF PlaceInv
  <1>4. Popped \in Seq(Claims) /\ Stacked = Elements(Popped) \cup {c}
    BY <1>1, <1>2, StackPopped
  <1>5. OfTree(c) /\ c.to \in 1..size /\ c # None
    BY <1>1, <1>2, <1>4, ClaimFields DEF PlaceInv, Grantable
  <1>6. RightClaim(c) \in Claims
    BY <1>2, <1>5, MadeTypes
  <1>7. stack' \in Seq(Claims) /\ Stacked' = Elements(Popped) \cup Right(c)
    <2>1. CASE Content(c.to).leaf
      BY <1>1, <1>4, <2>1 DEF Stacked, Elements, Right
    <2>2. CASE ~Content(c.to).leaf
      <3>1. stack' = Append(Popped, RightClaim(c))
        BY <1>1, <2>2
      <3>2. stack' \in Seq(Claims) /\ Elements(stack') = Elements(Popped) \cup {RightClaim(c)}
        BY <1>4, <1>6, <3>1, Appended
      <3>3. Stacked' = Elements(stack')
        BY DEF Stacked, Elements
      <3> QED BY <2>2, <3>2, <3>3 DEF Right
    <2> QED BY <2>1, <2>2
  <1>8. Found' = Found /\ FreeRoot' = FreeRoot
    BY <1>1, ImageKept DEF Found
  <1>9. Remaining = {} /\ Remaining' = {d \in Made(c) : d.at > 0}
    BY <1>1, <1>5, ImageKept DEF Remaining
  <1>10. Made(c) = Right(c) \cup {d \in Made(c) : d.at > 0}
    <2>1. \A d \in Made(c) : d \in Right(c) \/ d.at > 0
      BY <1>2, <1>5, NodeSlots DEF Right
    <2>2. \A d \in Right(c) : d \in Made(c)
      BY <1>2, <1>5, NodeSlots DEF Right
    <2> QED BY <2>1, <2>2
  <1>11. Chained = {} /\ Chained' = {}
    BY <1>1, <1>3 DEF Chained
  <1>12. Waiting = Elements(Popped) \cup {c} \cup Found \cup FreeRoot
    <2>1. Waiting = Stacked \cup Found \cup FreeRoot
      BY <1>1, <1>9, <1>11 DEF Waiting
    <2> QED BY <1>4, <2>1
  <1>13. Waiting' = Elements(Popped) \cup Made(c) \cup Found \cup FreeRoot
    <2>1. Waiting' = Stacked' \cup Found \cup {d \in Made(c) : d.at > 0} \cup FreeRoot
      BY <1>1, <1>8, <1>9, <1>11 DEF Waiting
    <2> QED BY <1>7, <1>10, <2>1
  <1> QED
    BY <1>1, <1>2, <1>3, <1>4, <1>5, <1>6, <1>7, <1>8, <1>9, <1>10, <1>11, <1>12, <1>13

LEMMA EnterKeeps ==
    ASSUME AdmissionInv, Enter
    PROVE  AdmissionInv'
  <1>1. phase \in Walks /\ stack # <<>>
    BY DEF Enter, Walks
  <1>2. /\ TypeOK /\ Whole /\ PlaceInv /\ phase \in Phases
        /\ trees \in Seq(Claims) /\ tree \in Names \cup {None}
        /\ rows \in 0..MaxRows + 1 /\ count \in Nat /\ stack \in Seq(Claims)
    BY <1>1, WalkFacts
  <1> PICK c \in Claims : c = Top
    BY <1>1, <1>2, StackPopped
  <1>3. /\ phase = "walking" /\ phase' = phase
        /\ here = None /\ chain = None /\ OfTree(c) /\ Grantable(c.to) /\ Grant(c)
        /\ here' = c /\ cell' = 0
        /\ UNCHANGED << replay, image, trees, tree, chain, rows, count >>
        /\ Stacked = Elements(Popped) \cup {c}
        /\ stack' \in Seq(Claims) /\ Stacked' = Elements(Popped) \cup Right(c)
        /\ Found' = Found
    BY EnterFacts
  <1>4. /\ Granted(c)' /\ owner' \in [1..MaxPage -> Claims \cup {None}]
    BY <1>1, <1>3, GrantAdds
  <1>5. TypeOK'
    BY <1>2, <1>3, <1>4, WalkTyped
  <1>6. Whole' = Whole
    BY <1>3, ImageKept
  <1>7. PlaceInv'
    <2>1. Granted(here)' /\ OfTree(here)'
      BY <1>3, <1>4 DEF Granted, OfTree
    <2>2. (\A d \in Stacked \cup Found : OfTree(d))'
      <3>1. \A d \in Stacked \cup Found : OfTree(d)
        BY <1>2, <1>3 DEF PlaceInv
      <3>2. \A d : OfTree(d)' = OfTree(d)
        BY DEF OfTree
      <3>3. \A d \in Right(c) : OfTree(d)
        BY SlotAt DEF Right
      <3> QED BY <1>3, <3>1, <3>2, <3>3
    <2> QED BY <1>2, <1>3, <1>6, <2>1, <2>2 DEF PlaceInv
  <1>8. ClaimsInv'
    <2>1. /\ c \in Waiting /\ Waiting' \subseteq Waiting \cup Made(c)
          /\ Waiting \cup Made(c) \subseteq Waiting' \cup {c}
      <3>1. /\ Waiting = Elements(Popped) \cup {c} \cup Found \cup FreeRoot
            /\ Waiting' = Elements(Popped) \cup Made(c) \cup Found \cup FreeRoot
        BY EnterFacts
      <3> QED BY <3>1
    <2> QED BY <1>1, <1>3, <2>1, GrantKept
  <1> QED BY <1>1, <1>3, <1>5, <1>7, <1>8, WalkStep

\* What the next cell of a node claims moves to where it waits.
LEMMA ReadCellFacts ==
    ASSUME AdmissionInv, ReadCell, NEW h \in Claims, h = here, NEW n \in Nat, n = cell + 1
    PROVE  /\ phase = "walking" /\ phase' = phase /\ phase \in Walks
           /\ OfTree(h) /\ h.to \in 1..size /\ n \in DOMAIN Content(h.to).cells
           /\ chain = None /\ cell' = n /\ ~TooManyRows
           /\ UNCHANGED << replay, image, owner, tree, here, count >>
           /\ LeftClaim(h, n) \in Claims /\ SpillClaim(h, n) \in Claims /\ RootClaim(h, n) \in Claims
           /\ stack \in Seq(Claims) /\ trees \in Seq(Claims)
           /\ stack' = IF Content(h.to).leaf THEN stack ELSE Append(stack, LeftClaim(h, n))
           /\ trees' = IF h.tree = None /\ Carries(Content(h.to))
                         THEN Append(trees, RootClaim(h, n)) ELSE trees
           /\ chain' = IF n \in Spills(h) THEN SpillClaim(h, n) ELSE None
           /\ stack' \in Seq(Claims) /\ Stacked' = Stacked \cup Left(h, n)
           /\ trees' \in Seq(Claims) /\ Found' = Found \cup Root(h, n)
           /\ chain' \in Claims \cup {None} /\ Chained = {} /\ Chained' = Spill(h, n)
           /\ FreeRoot' = FreeRoot
           /\ Remaining = Remaining' \cup AtSlot(h, n) /\ Remaining' = {d \in Made(h) : d.at > n}
           /\ Waiting' = Waiting
  <1>1. /\ phase = "walking" /\ phase' = phase /\ phase \in Walks
        /\ here # None /\ chain = None /\ ~TooManyRows
        /\ cell < Len(Content(h.to).cells) /\ cell' = n
        /\ stack' = IF Content(h.to).leaf THEN stack ELSE Append(stack, LeftClaim(h, n))
        /\ chain' = IF n \in Spills(h) THEN SpillClaim(h, n) ELSE None
        /\ UNCHANGED << replay, image, owner, tree, here, count >>
    BY DEF ReadCell, AtCell, Reading, Walks
  <1>2. /\ TypeOK /\ Whole /\ PlaceInv /\ stack \in Seq(Claims) /\ trees \in Seq(Claims)
        /\ h.to \in 1..size /\ cell \in Nat
    BY <1>1, WalkFacts
  <1>3. OfTree(h)
    BY <1>1, <1>2 DEF PlaceInv
  <1>4. n \in DOMAIN Content(h.to).cells
    BY <1>1, <1>2, <1>3, NodeSlots
  <1>5. LeftClaim(h, n) \in Claims /\ SpillClaim(h, n) \in Claims /\ RootClaim(h, n) \in Claims
    BY <1>2, <1>4, MadeTypes
  <1>6. stack' \in Seq(Claims) /\ Stacked' = Stacked \cup Left(h, n)
    <2>1. CASE Content(h.to).leaf
      BY <1>1, <1>2, <2>1 DEF Stacked, Elements, Left
    <2>2. CASE ~Content(h.to).leaf
      <3>1. stack' = Append(stack, LeftClaim(h, n))
        BY <1>1, <2>2
      <3>2. stack' \in Seq(Claims) /\ Elements(stack') = Elements(stack) \cup {LeftClaim(h, n)}
        BY <1>2, <1>5, <3>1, Appended
      <3>3. Stacked' = Elements(stack') /\ Stacked = Elements(stack)
        BY DEF Stacked, Elements
      <3> QED BY <2>2, <3>2, <3>3 DEF Left
    <2> QED BY <2>1, <2>2
  <1>7. trees' = IF h.tree = None /\ Carries(Content(h.to)) THEN Append(trees, RootClaim(h, n)) ELSE trees
    <2>1. CASE Carries(Content(h.to))
      BY <2>1 DEF ReadCell
    <2>2. CASE ~Carries(Content(h.to))
      BY <2>2 DEF ReadCell
    <2> QED BY <2>1, <2>2
  <1>8. trees' \in Seq(Claims) /\ Found' = Found \cup Root(h, n)
    <2>1. CASE h.tree = None /\ Carries(Content(h.to))
      <3>1. trees' = Append(trees, RootClaim(h, n))
        BY <1>7, <2>1
      <3>2. trees' \in Seq(Claims) /\ Elements(trees') = Elements(trees) \cup {RootClaim(h, n)}
        BY <1>2, <1>5, <3>1, Appended
      <3>3. Found' = Elements(trees') /\ Found = Elements(trees)
        BY DEF Found, Elements
      <3> QED BY <2>1, <3>2, <3>3 DEF Root
    <2>2. CASE ~(h.tree = None /\ Carries(Content(h.to)))
      <3>1. trees' = trees
        BY <1>7, <2>2
      <3> QED BY <1>2, <2>2, <3>1 DEF Found, Root
    <2> QED BY <2>1, <2>2
  <1>9. Chained = {} /\ Chained' = Spill(h, n) /\ chain' \in Claims \cup {None}
    <2>1. SpillClaim(h, n) # None
      BY <1>5, ClaimFields
    <2> QED BY <1>1, <1>5, <2>1 DEF Chained, Spill
  <1>10. FreeRoot' = FreeRoot /\ Made(h)' = Made(h)
    BY <1>1, ImageKept
  <1>11. Remaining = {d \in Made(h) : d.at > cell} /\ Remaining' = {d \in Made(h) : d.at > n}
    BY <1>1, <1>10 DEF Remaining
  <1>12. Remaining = Remaining' \cup AtSlot(h, n)
    <2>1. \A d \in Made(h) : d.at \in Nat
      <3>1. \A d \in Made(h) : d.at = 0 \/ d.at \in DOMAIN Content(h.to).cells
        BY <1>2, <1>3, NodeSlots
      <3>2. DOMAIN Content(h.to).cells \subseteq Nat
        BY <1>2, <1>3, NodeSlots
      <3> QED BY <3>1, <3>2
    <2>2. AtSlot(h, n) = {d \in Made(h) : d.at = n}
      BY <1>2, <1>3, <1>4, NodeSlots
    <2>3. \A d \in Made(h) : d.at > cell <=> d.at > n \/ d.at = n
      BY <1>2, <2>1
    <2> QED BY <1>11, <2>2, <2>3
  <1>13. Waiting' = Waiting
    <2>1. Waiting = Stacked \cup Found \cup Remaining \cup FreeRoot
      BY <1>1, <1>9 DEF Waiting
    <2>2. Waiting' = Stacked' \cup Found' \cup Chained' \cup Remaining' \cup FreeRoot
      BY <1>1, <1>10 DEF Waiting
    <2> QED BY <1>6, <1>8, <1>9, <1>12, <2>1, <2>2 DEF AtSlot
  <1> QED
    BY <1>1, <1>2, <1>3, <1>4, <1>5, <1>6, <1>7, <1>8, <1>9, <1>10, <1>11, <1>12, <1>13

LEMMA ReadCellKeeps ==
    ASSUME AdmissionInv, ReadCell
    PROVE  AdmissionInv'
  <1>1. phase \in Walks /\ here # None
    BY DEF ReadCell, AtCell, Reading, Walks
  <1>2. /\ TypeOK /\ Whole /\ PlaceInv /\ ClaimsInv /\ phase \in Phases
        /\ tree \in Names \cup {None} /\ here \in Claims /\ Granted(here)
        /\ cell \in Nat /\ count \in Nat /\ rows \in 0..MaxRows + 1
        /\ owner \in [1..MaxPage -> Claims \cup {None}]
    BY <1>1, WalkFacts
  <1> PICK h \in Claims : h = here
    BY <1>2
  <1> PICK n \in Nat : n = cell + 1
    BY <1>2
  <1>3. /\ phase = "walking" /\ phase' = phase /\ OfTree(h)
        /\ cell' = n /\ ~TooManyRows
        /\ UNCHANGED << replay, image, owner, tree, here, count >>
        /\ chain' = IF n \in Spills(h) THEN SpillClaim(h, n) ELSE None
        /\ stack' \in Seq(Claims) /\ Stacked' = Stacked \cup Left(h, n)
        /\ trees' \in Seq(Claims) /\ Found' = Found \cup Root(h, n)
        /\ chain' \in Claims \cup {None} /\ Waiting' = Waiting
    BY ReadCellFacts
  <1>4. rows' \in 0..MaxRows + 1
    <2>1. rows <= MaxRows
      BY <1>2, <1>3, AdmissionAssumption DEF TooManyRows
    <2>2. rows' = rows \/ rows' = rows + 1
      BY DEF ReadCell
    <2> QED BY <1>2, <2>1, <2>2, AdmissionAssumption
  <1>5. TypeOK'
    BY <1>2, <1>3, <1>4, WalkTyped
  <1>6. Whole' = Whole
    BY <1>3, ImageKept
  <1>7. PlaceInv'
    <2>1. Granted(here)'
      BY <1>2, <1>3 DEF Granted, image
    <2>2. (\A c \in Stacked \cup Found : OfTree(c))'
      <3>1. \A c \in Stacked \cup Found : OfTree(c)
        BY <1>2, <1>3 DEF PlaceInv
      <3>2. \A c : OfTree(c)' = OfTree(c)
        BY DEF OfTree
      <3>3. \A c \in Left(h, n) \cup Root(h, n) : OfTree(c)
        BY SlotAt DEF Left, Root
      <3> QED BY <1>3, <3>1, <3>2, <3>3
    <2>3. OfTree(here)' /\ (chain # None => OfChain(chain))'
      BY <1>3, SlotAt DEF OfTree, OfChain
    <2> QED BY <1>1, <1>2, <1>3, <1>6, <2>1, <2>2, <2>3 DEF PlaceInv
  <1>8. ClaimsInv'
    BY <1>1, <1>2, <1>3, QuietKept
  <1> QED BY <1>1, <1>3, <1>5, <1>7, <1>8, WalkStep

\* A page of a chain is granted, and the next claim of the chain waits.
LEMMA FollowFacts ==
    ASSUME AdmissionInv, Follow, NEW c \in Claims, c = chain
    PROVE  /\ phase = "walking" /\ phase' = phase /\ phase \in Walks
           /\ OfChain(c) /\ Grantable(c.to) /\ Grant(c) /\ LinkFits(c)
           /\ here \in Claims /\ here # None /\ OfTree(here) /\ Granted(here)
           /\ UNCHANGED << replay, image, stack, trees, tree, here, cell, rows, count >>
           /\ chain' = IF c.level > 1 THEN NextClaim(c) ELSE None
           /\ chain' \in Claims \cup {None} /\ Chained = {c} /\ Chained' = Made(c)
           /\ Stacked' = Stacked /\ Found' = Found /\ Remaining' = Remaining /\ FreeRoot' = FreeRoot
           /\ Waiting = Stacked \cup Found \cup {c} \cup Remaining \cup FreeRoot
           /\ Waiting' = Stacked \cup Found \cup Made(c) \cup Remaining \cup FreeRoot
  <1>1. /\ phase = "walking" /\ phase' = phase /\ phase \in Walks
        /\ chain # None /\ Grantable(c.to) /\ Grant(c) /\ LinkFits(c)
        /\ chain' = IF c.level > 1 THEN NextClaim(c) ELSE None
        /\ UNCHANGED << replay, image, stack, trees, tree, here, cell, rows, count >>
    BY DEF Follow, Walks
  <1>2. TypeOK /\ Whole /\ PlaceInv
    BY <1>1, WalkFacts
  <1>3. /\ here # None /\ OfTree(here) /\ Granted(here) /\ here \in Claims
        /\ OfChain(c) /\ c.to \in 1..size
    BY <1>1, <1>2, WalkFacts DEF PlaceInv, Grantable
  <1> PICK h \in Claims : h = here
    BY <1>3
  <1>4. Made(c) = Chained' /\ chain' \in Claims \cup {None}
    <2>1. Made(c) = IF c.level > 1 THEN {NextClaim(c)} ELSE {}
      BY <1>3, MadeByRole
    <2>2. c.level > 1 => NextClaim(c) \in Claims /\ NextClaim(c) # None
      BY <1>2, <1>3, MadeTypes, ClaimFields
    <2> QED BY <1>1, <2>1, <2>2 DEF Chained
  <1>5. FreeRoot' = FreeRoot /\ Made(h)' = Made(h)
    BY <1>1, ImageKept
  <1>6. Stacked' = Stacked /\ Found' = Found /\ Remaining' = Remaining
    BY <1>1, <1>5 DEF Stacked, Elements, Found, Remaining
  <1>7. Chained = {c} /\ Waiting = Stacked \cup Found \cup {c} \cup Remaining \cup FreeRoot
    BY <1>1 DEF Waiting, Chained
  <1>8. Waiting' = Stacked \cup Found \cup Made(c) \cup Remaining \cup FreeRoot
    BY <1>1, <1>4, <1>5, <1>6 DEF Waiting
  <1> QED BY <1>1, <1>3, <1>4, <1>5, <1>6, <1>7, <1>8

LEMMA FollowKeeps ==
    ASSUME AdmissionInv, Follow
    PROVE  AdmissionInv'
  <1>1. phase \in Walks /\ chain # None
    BY DEF Follow, Walks
  <1>2. /\ TypeOK /\ Whole /\ PlaceInv /\ ClaimsInv /\ phase \in Phases
        /\ stack \in Seq(Claims) /\ trees \in Seq(Claims) /\ tree \in Names \cup {None}
        /\ here \in Claims \cup {None} /\ chain \in Claims
        /\ cell \in Nat /\ count \in Nat /\ rows \in 0..MaxRows + 1
    BY <1>1, WalkFacts
  <1> PICK c \in Claims : c = chain
    BY <1>2
  <1>3. /\ phase = "walking" /\ phase' = phase
        /\ OfChain(c) /\ Grantable(c.to) /\ Grant(c)
        /\ here # None /\ OfTree(here) /\ Granted(here)
        /\ UNCHANGED << replay, image, stack, trees, tree, here, cell, rows, count >>
        /\ chain' = IF c.level > 1 THEN NextClaim(c) ELSE None
        /\ chain' \in Claims \cup {None} /\ Stacked' = Stacked /\ Found' = Found
        /\ Waiting = Stacked \cup Found \cup {c} \cup Remaining \cup FreeRoot
        /\ Waiting' = Stacked \cup Found \cup Made(c) \cup Remaining \cup FreeRoot
    BY FollowFacts
  <1> PICK h : h = here
    OBVIOUS
  <1>4. /\ \A d : Granted(d) => Granted(d)'
        /\ owner' \in [1..MaxPage -> Claims \cup {None}]
    BY <1>1, <1>3, GrantAdds
  <1>5. TypeOK'
    BY <1>2, <1>3, <1>4, WalkTyped
  <1>6. Whole' = Whole
    BY <1>3, ImageKept
  <1>7. PlaceInv'
    <2>1. Granted(h)' /\ here' = h
      BY <1>3, <1>4
    <2>2. Granted(here)'
      BY <2>1 DEF Granted
    <2>3. (\A d \in Stacked \cup Found : OfTree(d))'
      BY <1>2, <1>3 DEF PlaceInv, OfTree
    <2>4. OfTree(here)' /\ (chain # None => OfChain(chain))'
      BY <1>3, SlotAt DEF OfTree, OfChain
    <2> QED BY <1>2, <1>3, <1>6, <2>1, <2>2, <2>3, <2>4 DEF PlaceInv
  <1>8. ClaimsInv'
    <2>1. /\ c \in Waiting /\ Waiting' \subseteq Waiting \cup Made(c)
          /\ Waiting \cup Made(c) \subseteq Waiting' \cup {c}
      BY <1>3
    <2> QED BY <1>1, <1>3, <2>1, GrantKept
  <1> QED BY <1>1, <1>3, <1>5, <1>7, <1>8, WalkStep

\* A node whose cells were all read leaves nothing behind.
LEMMA LeaveFacts ==
    ASSUME AdmissionInv, Leave
    PROVE  /\ phase = "walking" /\ phase' = phase /\ phase \in Walks
           /\ here # None /\ chain = None /\ here' = None
           /\ UNCHANGED << replay, image, owner, stack, trees, tree, cell, chain, rows, count >>
           /\ Stacked' = Stacked /\ Found' = Found /\ Remaining = {} /\ Remaining' = {}
           /\ Waiting' = Waiting
  <1>1. /\ phase = "walking" /\ phase' = phase /\ phase \in Walks
        /\ here # None /\ chain = None /\ cell = Len(Content(here.to).cells) /\ here' = None
        /\ UNCHANGED << replay, image, owner, stack, trees, tree, cell, chain, rows, count >>
    BY DEF Leave, Reading, Walks
  <1>2. TypeOK /\ Whole /\ here \in Claims /\ here.to \in 1..size /\ OfTree(here)
    BY <1>1, WalkFacts DEF PlaceInv
  <1>3. Remaining = {} /\ Remaining' = {}
    <2>1. /\ \A d \in Made(here) : d.at = 0 \/ d.at \in DOMAIN Content(here.to).cells
          /\ DOMAIN Content(here.to).cells = 1..Len(Content(here.to).cells)
          /\ Len(Content(here.to).cells) \in Nat
      BY <1>2, NodeSlots
    <2>2. \A d \in Made(here) : ~(d.at > cell)
      BY <1>1, <2>1
    <2> QED BY <1>1, <2>2 DEF Remaining
  <1>4. Stacked' = Stacked /\ Found' = Found /\ Chained' = Chained
    BY <1>1 DEF Stacked, Elements, Found, Chained
  <1>5. FreeRoot' = FreeRoot
    BY <1>1, ImageKept
  <1>6. Waiting' = Waiting
    BY <1>1, <1>3, <1>4, <1>5 DEF Waiting
  <1> QED BY <1>1, <1>3, <1>4, <1>6

LEMMA LeaveKeeps ==
    ASSUME AdmissionInv, Leave
    PROVE  AdmissionInv'
  <1>1. /\ phase = "walking" /\ phase' = phase /\ phase \in Walks
        /\ here # None /\ chain = None /\ here' = None
        /\ UNCHANGED << replay, image, owner, stack, trees, tree, cell, chain, rows, count >>
        /\ Stacked' = Stacked /\ Found' = Found /\ Waiting' = Waiting
    BY LeaveFacts
  <1>2. /\ TypeOK /\ Whole /\ PlaceInv /\ ClaimsInv /\ phase' \in Phases
        /\ stack \in Seq(Claims) /\ trees \in Seq(Claims) /\ tree \in Names \cup {None}
        /\ here \in Claims /\ here.to \in 1..size
        /\ cell \in Nat /\ count \in Nat /\ rows \in 0..MaxRows + 1
        /\ owner \in [1..MaxPage -> Claims \cup {None}] /\ chain \in Claims \cup {None}
    BY <1>1, WalkFacts
  <1>3. TypeOK'
    BY <1>1, <1>2, WalkTyped
  <1>4. Whole' = Whole
    BY <1>1, ImageKept
  <1>5. PlaceInv'
    BY <1>1, <1>2, <1>4 DEF PlaceInv, OfTree
  <1>6. ClaimsInv'
    BY <1>1, <1>2, QuietKept
  <1> QED BY <1>1, <1>3, <1>5, <1>6, WalkStep

\* The next tree moves to the stack.
LEMMA NextTreeFacts ==
    ASSUME AdmissionInv, NextTree
    PROVE  /\ phase = "walking" /\ phase' = phase /\ phase \in Walks
           /\ here = None /\ trees # <<>> /\ trees \in Seq(Claims) /\ tree' = Head(trees).tree
           /\ stack' = <<Head(trees)>> /\ trees' = Tail(trees) /\ rows' = 0
           /\ UNCHANGED << replay, image, owner, here, cell, chain, count >>
           /\ Tail(trees) \in Seq(Claims) /\ Head(trees) \in Claims
           /\ Stacked' = {Head(trees)}
           /\ Found = Elements(Tail(trees)) \cup {Head(trees)} /\ Found' = Elements(Tail(trees))
           /\ Remaining = {} /\ Remaining' = {} /\ Waiting' = Waiting
  <1>1. /\ phase = "walking" /\ phase' = phase /\ phase \in Walks
        /\ here = None /\ stack = <<>> /\ trees # <<>> /\ tree' = Head(trees).tree
        /\ stack' = <<Head(trees)>> /\ trees' = Tail(trees) /\ rows' = 0
        /\ UNCHANGED << replay, image, owner, here, cell, chain, count >>
    BY DEF NextTree, TreeDone, Walks
  <1>2. TypeOK /\ trees \in Seq(Claims)
    BY <1>1, WalkFacts
  <1>3. /\ Tail(trees) \in Seq(Claims) /\ Head(trees) \in Claims
        /\ Elements(trees) = Elements(Tail(trees)) \cup {Head(trees)}
    BY <1>1, <1>2, TreesTaken
  <1>4. Stacked = {} /\ Stacked' = {Head(trees)}
    BY <1>1, <1>3 DEF Stacked, Elements
  <1>5. Found = Elements(Tail(trees)) \cup {Head(trees)} /\ Found' = Elements(Tail(trees))
    BY <1>1, <1>3 DEF Found, Elements
  <1>6. Chained' = Chained /\ Remaining = {} /\ Remaining' = {}
    BY <1>1 DEF Chained, Remaining
  <1>7. FreeRoot' = FreeRoot
    BY <1>1, ImageKept
  <1>8. Waiting' = Waiting
    BY <1>1, <1>4, <1>5, <1>6, <1>7 DEF Waiting
  <1> QED BY <1>1, <1>2, <1>3, <1>4, <1>5, <1>6, <1>8

LEMMA NextTreeKeeps ==
    ASSUME AdmissionInv, NextTree
    PROVE  AdmissionInv'
  <1>1. /\ phase = "walking" /\ phase' = phase /\ phase \in Walks
        /\ here = None /\ tree' = Head(trees).tree
        /\ stack' = <<Head(trees)>> /\ trees' = Tail(trees) /\ rows' = 0
        /\ UNCHANGED << replay, image, owner, here, cell, chain, count >>
        /\ Tail(trees) \in Seq(Claims) /\ Head(trees) \in Claims
        /\ Stacked' = {Head(trees)}
        /\ Found = Elements(Tail(trees)) \cup {Head(trees)} /\ Found' = Elements(Tail(trees))
        /\ Waiting' = Waiting
    BY NextTreeFacts
  <1>2. /\ TypeOK /\ Whole /\ PlaceInv /\ ClaimsInv /\ phase' \in Phases
        /\ cell \in Nat /\ count \in Nat
        /\ owner \in [1..MaxPage -> Claims \cup {None}] /\ chain \in Claims \cup {None}
    BY <1>1, WalkFacts
  <1>3. stack' \in Seq(Claims) /\ tree' \in Names \cup {None} /\ rows' \in 0..MaxRows + 1
    BY <1>1, ClaimFields, AdmissionAssumption
  <1>4. TypeOK'
    BY <1>1, <1>2, <1>3, WalkTyped
  <1>5. Whole' = Whole
    BY <1>1, ImageKept
  <1>6. PlaceInv'
    <2>1. (\A d \in Stacked \cup Found : OfTree(d))'
      <3>1. \A d \in Found : OfTree(d)
        BY <1>1, <1>2 DEF PlaceInv
      <3>2. \A d : OfTree(d)' = OfTree(d)
        BY DEF OfTree
      <3> QED BY <1>1, <3>1, <3>2
    <2> QED BY <1>1, <1>2, <1>5, <2>1 DEF PlaceInv
  <1>7. ClaimsInv'
    BY <1>1, <1>2, QuietKept
  <1> QED BY <1>1, <1>4, <1>6, <1>7, WalkStep

---------------------------------------------------------------------------
(* The walk of the free list keeps the invariant *)

\* The head of the free list waited from the beginning.
LEMMA BeginFreeFacts ==
    ASSUME AdmissionInv, BeginFreeList
    PROVE  /\ phase = "walking" /\ phase' = "freeing" /\ phase \in Walks /\ phase' \in Walks
           /\ here = None /\ stack = <<>> /\ trees = <<>> /\ chain' = FreeHead
           /\ UNCHANGED << replay, image, owner, stack, trees, tree, here, cell, rows, count >>
           /\ FreeHead \in Claims \cup {None} /\ (FreeHead # None => Trunk(FreeHead))
           /\ Waiting' = Waiting
  <1>1. /\ phase = "walking" /\ phase' = "freeing" /\ phase \in Walks /\ phase' \in Walks
        /\ here = None /\ stack = <<>> /\ trees = <<>> /\ chain' = FreeHead
        /\ UNCHANGED << replay, image, owner, stack, trees, tree, here, cell, rows, count >>
    BY DEF BeginFreeList, TreeDone, Walks
  <1>2. TypeOK /\ size > 0 /\ Whole /\ PlaceInv
    BY <1>1, WalkFacts
  <1>3. chain = None /\ FreeHead \in Claims \cup {None} /\ (FreeHead # None => Trunk(FreeHead))
    <2>1. FreeHead \in Claims \cup {None}
      BY <1>2, RootTypes
    <2>2. FreeHead # None => Trunk(FreeHead)
      BY DEF FreeHead, TrunkClaim, Claim, Trunk
    <2> QED BY <1>1, <1>2, <2>1, <2>2 DEF PlaceInv
  <1>4. FreeRoot' = FreeRoot
    BY <1>1, ImageKept
  <1>5. Waiting' = Waiting
    <2>1. Stacked = {} /\ Stacked' = {} /\ Found = {} /\ Found' = {}
      BY <1>1 DEF Stacked, Elements, Found
    <2>2. Chained = {} /\ Chained' = FreeRoot /\ Remaining = {} /\ Remaining' = {}
      BY <1>1, <1>3 DEF Chained, FreeRoot, Remaining
    <2> QED BY <1>1, <1>4, <2>1, <2>2 DEF Waiting
  <1> QED BY <1>1, <1>3, <1>5

LEMMA BeginFreeListKeeps ==
    ASSUME AdmissionInv, BeginFreeList
    PROVE  AdmissionInv'
  <1>1. /\ phase = "walking" /\ phase' = "freeing" /\ phase \in Walks /\ phase' \in Walks
        /\ here = None /\ stack = <<>> /\ trees = <<>> /\ chain' = FreeHead
        /\ UNCHANGED << replay, image, owner, stack, trees, tree, here, cell, rows, count >>
        /\ FreeHead \in Claims \cup {None} /\ (FreeHead # None => Trunk(FreeHead))
        /\ Waiting' = Waiting
    BY BeginFreeFacts
  <1>2. /\ TypeOK /\ size > 0 /\ Whole /\ PlaceInv /\ ClaimsInv
        /\ stack \in Seq(Claims) /\ trees \in Seq(Claims) /\ tree \in Names \cup {None}
        /\ cell \in Nat /\ count \in Nat /\ rows \in 0..MaxRows + 1
        /\ owner \in [1..MaxPage -> Claims \cup {None}]
    BY <1>1, WalkFacts
  <1>3. TypeOK'
    BY <1>1, <1>2, WalkTyped DEF Phases
  <1>4. Whole' = Whole
    BY <1>1, ImageKept
  <1>5. PlaceInv'
    BY <1>1, <1>2, <1>4 DEF PlaceInv, Trunk
  <1>6. ClaimsInv'
    BY <1>1, <1>2, QuietKept
  <1> QED BY <1>1, <1>3, <1>5, <1>6, WalkStep

\* What is known while the free list is walked.
LEMMA FreeFacts ==
    ASSUME AdmissionInv, phase = "freeing"
    PROVE  /\ TypeOK /\ Whole /\ PlaceInv /\ ClaimsInv /\ phase \in Phases /\ phase \in Walks
           /\ stack = <<>> /\ trees = <<>> /\ stack \in Seq(Claims) /\ trees \in Seq(Claims)
           /\ tree \in Names \cup {None} /\ cell \in Nat /\ count \in Nat /\ rows \in 0..MaxRows + 1
           /\ owner \in [1..MaxPage -> Claims \cup {None}]
           /\ here # None => /\ here \in Claims /\ here.to \in 1..size /\ Granted(here)
                             /\ Trunk(here) /\ chain = None
           /\ chain # None => chain \in Claims /\ Trunk(chain)
           /\ Stacked = {} /\ Found = {} /\ Waiting = Chained \cup Remaining
  <1>1. phase \in Walks
    BY DEF Walks
  <1>2. stack = <<>> /\ trees = <<>>
    BY <1>1, WalkFacts DEF PlaceInv
  <1>3. Stacked = {} /\ Found = {}
    BY <1>2 DEF Stacked, Elements, Found
  <1>4. Waiting = Chained \cup Remaining
    BY <1>3 DEF Waiting
  <1> QED BY <1>1, <1>2, <1>3, <1>4, WalkFacts DEF PlaceInv

\* While the lists of the trees stay empty, only the free list waits.
LEMMA FreeWaiting ==
    ASSUME phase' = "freeing", stack' = <<>>, trees' = <<>>
    PROVE  Waiting' = Chained' \cup Remaining'
  <1>1. Stacked' = {} /\ Found' = {}
    BY DEF Stacked, Elements, Found
  <1> QED BY <1>1 DEF Waiting

\* A trunk is granted, and what it lists and the next trunk wait.
LEMMA TakeTrunkFacts ==
    ASSUME AdmissionInv, TakeTrunk, NEW c \in Claims, c = chain
    PROVE  /\ phase = "freeing" /\ phase' = phase /\ phase \in Walks
           /\ here = None /\ Trunk(c) /\ Grantable(c.to) /\ Grant(c)
           /\ here' = c /\ cell' = 0 /\ chain' = None /\ count' = count + 1
           /\ UNCHANGED << replay, image, stack, trees, tree, rows >>
           /\ Waiting = {c} /\ Waiting' = Made(c)
  <1>1. /\ phase = "freeing" /\ phase' = phase /\ phase \in Walks
        /\ here = None /\ c # None /\ Grantable(c.to) /\ Grant(c)
        /\ here' = c /\ cell' = 0 /\ chain' = None /\ count' = count + 1
        /\ UNCHANGED << replay, image, stack, trees, tree, rows >>
    BY DEF TakeTrunk, Walks
  <1>2. /\ TypeOK /\ Whole /\ stack = <<>> /\ trees = <<>> /\ Trunk(c)
        /\ Waiting = Chained \cup Remaining
    BY <1>1, FreeFacts
  <1>3. Made(c)' = Made(c) /\ c.to \in 1..size
    BY <1>1, ImageKept DEF Grantable
  <1>4. Waiting = {c} /\ Chained' = {}
    BY <1>1, <1>2 DEF Remaining, Chained
  <1>5. Remaining' = Made(c)
    <2>1. \A d \in Made(c) : d.at > 0 \/ d.slot = "trunk"
      <3>1. /\ \A d \in Made(c) : d.slot = "trunk" \/ d.at \in DOMAIN Content(c.to).listed
            /\ DOMAIN Content(c.to).listed = 1..Len(Content(c.to).listed)
            /\ Len(Content(c.to).listed) \in Nat
        BY <1>2, <1>3, TrunkSlots
      <3> QED BY <3>1
    <2>2. Remaining' = {d \in Made(c) : d.at > 0 \/ d.slot = "trunk"}
      BY <1>1, <1>3, ClaimFields DEF Remaining
    <2> QED BY <2>1, <2>2
  <1>6. Waiting' = Made(c)
    BY <1>1, <1>2, <1>4, <1>5, FreeWaiting
  <1> QED BY <1>1, <1>2, <1>4, <1>6

LEMMA TakeTrunkKeeps ==
    ASSUME AdmissionInv, TakeTrunk
    PROVE  AdmissionInv'
  <1>1. phase = "freeing" /\ phase \in Walks /\ chain # None
    BY DEF TakeTrunk, Walks
  <1>2. /\ TypeOK /\ Whole /\ PlaceInv /\ phase \in Phases
        /\ stack = <<>> /\ trees = <<>> /\ stack \in Seq(Claims) /\ trees \in Seq(Claims)
        /\ tree \in Names \cup {None} /\ count \in Nat /\ rows \in 0..MaxRows + 1
        /\ chain \in Claims
    BY <1>1, FreeFacts
  <1> PICK c \in Claims : c = chain
    BY <1>2
  <1>3. /\ phase' = phase /\ Trunk(c) /\ Grantable(c.to) /\ Grant(c)
        /\ here' = c /\ cell' = 0 /\ chain' = None /\ count' = count + 1
        /\ UNCHANGED << replay, image, stack, trees, tree, rows >>
        /\ Waiting = {c} /\ Waiting' = Made(c)
    BY TakeTrunkFacts
  <1>4. Granted(c)' /\ owner' \in [1..MaxPage -> Claims \cup {None}]
    BY <1>1, <1>3, GrantAdds
  <1>5. TypeOK'
    BY <1>2, <1>3, <1>4, WalkTyped
  <1>6. Whole' = Whole
    BY <1>3, ImageKept
  <1>7. PlaceInv'
    <2>1. Granted(here)'
      BY <1>3, <1>4 DEF Granted
    <2> QED BY <1>1, <1>2, <1>3, <1>6, <2>1 DEF PlaceInv, Trunk
  <1>8. ClaimsInv'
    BY <1>1, <1>3, GrantKept
  <1> QED BY <1>1, <1>3, <1>5, <1>7, <1>8, WalkStep

\* A listed page is granted, and claims nothing.
LEMMA TakeListedFacts ==
    ASSUME AdmissionInv, TakeListed, NEW h \in Claims, h = here, NEW n \in Nat, n = cell + 1,
           NEW c, c = ListedClaim(h, n)
    PROVE  /\ phase = "freeing" /\ phase' = phase /\ phase \in Walks /\ chain = None
           /\ Trunk(h) /\ Granted(h) /\ c \in Claims /\ c.role = "free" /\ Made(c) = {}
           /\ Grantable(c.to) /\ Grant(c)
           /\ cell' = n /\ count' = count + 1
           /\ UNCHANGED << replay, image, stack, trees, tree, here, chain, rows >>
           /\ Waiting' \subseteq Waiting /\ Waiting \subseteq Waiting' \cup {c}
           /\ c \in Waiting /\ c \notin Waiting'
  <1>1. /\ phase = "freeing" /\ phase' = phase /\ phase \in Walks
        /\ here # None /\ cell < Len(Content(h.to).listed)
        /\ Grantable(c.to) /\ Grant(c) /\ cell' = n /\ count' = count + 1
        /\ UNCHANGED << replay, image, stack, trees, tree, here, chain, rows >>
    BY DEF TakeListed, Listing, Walks
  <1>2. /\ TypeOK /\ Whole /\ stack = <<>> /\ trees = <<>> /\ cell \in Nat
        /\ h.to \in 1..size /\ Granted(h) /\ Trunk(h) /\ chain = None
        /\ Waiting = Chained \cup Remaining
    BY <1>1, FreeFacts
  <1>3. n \in DOMAIN Content(h.to).listed
    BY <1>1, <1>2, TrunkSlots
  <1>4. c \in Claims /\ c.at = n /\ c \in Made(h)
    BY <1>2, <1>3, MadeTypes, TrunkSlots, SlotAt
  <1>5. c.role = "free" /\ c.slot # "trunk" /\ Made(c) = {}
    <2>1. c.role = "free" /\ c.slot # "trunk"
      BY DEF ListedClaim, Claim
    <2> QED BY <2>1, MadeByRole
  <1>6. Made(h)' = Made(h)
    BY <1>1, ImageKept
  <1>7. /\ Remaining = {d \in Made(h) : d.at > cell \/ d.slot = "trunk"}
        /\ Remaining' = {d \in Made(h) : d.at > n \/ d.slot = "trunk"}
    BY <1>1, <1>6 DEF Remaining
  <1>8. \A d \in Made(h) : d.slot = "trunk" \/ (d.at \in Nat /\ d = ListedClaim(h, d.at))
    <2>1. /\ \A d \in Made(h) :
                 d.slot = "trunk" \/ (d.at \in DOMAIN Content(h.to).listed /\ d = ListedClaim(h, d.at))
          /\ DOMAIN Content(h.to).listed = 1..Len(Content(h.to).listed)
          /\ Len(Content(h.to).listed) \in Nat
      BY <1>2, TrunkSlots
    <2> QED BY <2>1
  <1>9. Waiting' = Remaining' /\ Waiting = Remaining
    BY <1>1, <1>2, FreeWaiting DEF Chained
  <1>10. c \in Remaining /\ c \notin Remaining'
    BY <1>2, <1>4, <1>5, <1>7
  <1>11. Remaining' \subseteq Remaining
    <2>1. \A d \in Remaining' : d \in Made(h) /\ (d.at > cell \/ d.slot = "trunk")
      BY <1>2, <1>7, <1>8
    <2> QED BY <1>7, <2>1
  <1>12. Remaining \subseteq Remaining' \cup {c}
    <2> SUFFICES ASSUME NEW d \in Remaining, d \notin Remaining'
                 PROVE  d = c
      OBVIOUS
    <2>1. d \in Made(h) /\ d.slot # "trunk" /\ d.at > cell /\ ~(d.at > n)
      BY <1>7
    <2>2. d.at = n
      BY <1>2, <1>8, <2>1
    <2> QED BY <1>8, <2>1, <2>2
  <1> QED BY <1>1, <1>2, <1>4, <1>5, <1>9, <1>10, <1>11, <1>12

LEMMA TakeListedKeeps ==
    ASSUME AdmissionInv, TakeListed
    PROVE  AdmissionInv'
  <1>1. phase = "freeing" /\ phase \in Walks /\ here # None
    BY DEF TakeListed, Listing, Walks
  <1>2. /\ TypeOK /\ Whole /\ PlaceInv /\ phase \in Phases
        /\ stack = <<>> /\ trees = <<>> /\ stack \in Seq(Claims) /\ trees \in Seq(Claims)
        /\ tree \in Names \cup {None} /\ cell \in Nat /\ count \in Nat /\ rows \in 0..MaxRows + 1
        /\ here \in Claims
    BY <1>1, FreeFacts
  <1> PICK h \in Claims : h = here
    BY <1>2
  <1> PICK n \in Nat : n = cell + 1
    BY <1>2
  <1> PICK c : c = ListedClaim(h, n)
    OBVIOUS
  <1>3. /\ phase' = phase /\ chain = None /\ Trunk(h) /\ Granted(h)
        /\ c \in Claims /\ Made(c) = {} /\ Grantable(c.to) /\ Grant(c)
        /\ cell' = n /\ count' = count + 1
        /\ UNCHANGED << replay, image, stack, trees, tree, here, chain, rows >>
        /\ Waiting' \subseteq Waiting /\ Waiting \subseteq Waiting' \cup {c} /\ c \in Waiting
    BY TakeListedFacts
  <1>4. /\ (\A d : Granted(d) => Granted(d)')
        /\ owner' \in [1..MaxPage -> Claims \cup {None}]
    BY <1>1, <1>3, GrantAdds
  <1>5. TypeOK'
    BY <1>2, <1>3, <1>4, WalkTyped
  <1>6. Whole' = Whole
    BY <1>3, ImageKept
  <1>7. PlaceInv'
    <2>1. here' = h /\ Granted(here)'
      BY <1>3, <1>4 DEF Granted
    <2> QED BY <1>1, <1>2, <1>3, <1>6, <2>1 DEF PlaceInv, Trunk
  <1>8. ClaimsInv'
    <2>1. /\ Waiting' \subseteq Waiting \cup Made(c)
          /\ Waiting \cup Made(c) \subseteq Waiting' \cup {c}
      BY <1>3
    <2> QED BY <1>1, <1>3, <2>1, GrantKept
  <1> QED BY <1>1, <1>3, <1>5, <1>7, <1>8, WalkStep

\* The trunk that comes next waited in the trunk that is left.
LEMMA LeaveTrunkFacts ==
    ASSUME AdmissionInv, LeaveTrunk
    PROVE  /\ phase = "freeing" /\ phase' = phase /\ phase \in Walks /\ here' = None
           /\ chain' \in Claims \cup {None} /\ (chain' # None => Trunk(chain'))
           /\ UNCHANGED << replay, image, owner, stack, trees, tree, cell, rows, count >>
           /\ Waiting' = Waiting
  <1>1. /\ phase = "freeing" /\ phase' = phase /\ phase \in Walks
        /\ here # None /\ cell = Len(Content(here.to).listed) /\ here' = None
        /\ chain' = IF Content(here.to).next = 0 THEN None
                    ELSE TrunkClaim(here.to, Content(here.to).next)
        /\ UNCHANGED << replay, image, owner, stack, trees, tree, cell, rows, count >>
    BY DEF LeaveTrunk, Listing, Walks
  <1>2. /\ TypeOK /\ Whole /\ stack = <<>> /\ trees = <<>> /\ cell \in Nat
        /\ here \in Claims /\ here.to \in 1..size /\ Trunk(here) /\ chain = None
        /\ Waiting = Chained \cup Remaining
    BY <1>1, FreeFacts
  <1> PICK h \in Claims : h = here
    BY <1>2
  <1> DEFINE next == TrunkClaim(h.to, Content(h.to).next)
  <1>3. next \in Claims /\ next # None /\ Trunk(next)
    <2>1. next \in Claims
      BY <1>2, MadeTypes
    <2> QED BY <2>1, ClaimFields DEF TrunkClaim, Claim, Trunk
  <1>4. Waiting' = Waiting
    <2>1. Chained = {} /\ Remaining' = {}
      BY <1>1, <1>2 DEF Chained, Remaining
    <2>2. Chained' = IF Content(h.to).next = 0 THEN {} ELSE {next}
      BY <1>1, <1>3 DEF Chained
    <2>3. Remaining = IF Content(h.to).next = 0 THEN {} ELSE {next}
      <3>1. Remaining = {d \in Made(h) : d.at > cell \/ d.slot = "trunk"}
        BY <1>1 DEF Remaining
      <3>2. \A d \in Made(h) : \/ d.slot = "trunk" /\ Content(h.to).next # 0 /\ d = next
                               \/ d.slot = "listed" /\ d.at \in DOMAIN Content(h.to).listed
        BY <1>2, TrunkSlots
      <3>3. \A i \in DOMAIN Content(h.to).listed : ~(i > cell)
        BY <1>1, <1>2, TrunkSlots
      <3>4. Content(h.to).next # 0 => next \in Made(h) /\ next.slot = "trunk"
        BY <1>2, TrunkSlots
      <3> HIDE DEF next
      <3>5. \A d \in Remaining : Content(h.to).next # 0 /\ d = next
        BY <3>1, <3>2, <3>3
      <3>6. Content(h.to).next # 0 => next \in Remaining
        BY <3>1, <3>4
      <3> QED BY <3>5, <3>6
    <2> HIDE DEF next
    <2>4. Waiting' = Chained' \cup Remaining'
      BY <1>1, <1>2, FreeWaiting
    <2> QED BY <1>2, <2>1, <2>2, <2>3, <2>4
  <1>5. chain' \in Claims \cup {None} /\ (chain' # None => Trunk(chain'))
    BY <1>1, <1>3
  <1> QED BY <1>1, <1>4, <1>5

LEMMA LeaveTrunkKeeps ==
    ASSUME AdmissionInv, LeaveTrunk
    PROVE  AdmissionInv'
  <1>1. /\ phase = "freeing" /\ phase' = phase /\ phase \in Walks /\ here' = None
        /\ chain' \in Claims \cup {None} /\ (chain' # None => Trunk(chain'))
        /\ UNCHANGED << replay, image, owner, stack, trees, tree, cell, rows, count >>
        /\ Waiting' = Waiting
    BY LeaveTrunkFacts
  <1>2. /\ TypeOK /\ Whole /\ PlaceInv /\ ClaimsInv /\ phase \in Phases
        /\ stack = <<>> /\ trees = <<>> /\ stack \in Seq(Claims) /\ trees \in Seq(Claims)
        /\ tree \in Names \cup {None} /\ cell \in Nat /\ count \in Nat /\ rows \in 0..MaxRows + 1
        /\ owner \in [1..MaxPage -> Claims \cup {None}]
    BY <1>1, FreeFacts
  <1>3. TypeOK'
    BY <1>1, <1>2, WalkTyped
  <1>4. Whole' = Whole
    BY <1>1, ImageKept
  <1>5. PlaceInv'
    BY <1>1, <1>2, <1>4 DEF PlaceInv, Trunk
  <1>6. ClaimsInv'
    BY <1>1, <1>2, QuietKept
  <1> QED BY <1>1, <1>3, <1>5, <1>6, WalkStep

\* Nothing waits any more, so every claim that is demanded was granted.
LEMMA AdmitKeeps ==
    ASSUME AdmissionInv, Admit
    PROVE  AdmissionInv'
  <1>1. /\ phase = "freeing" /\ phase' = "admitted" /\ here = None /\ chain = None /\ AllOwned
        /\ UNCHANGED << replay, image, owner, walk >>
    BY DEF Admit, ListDone
  <1>2. /\ phase \in Walks /\ phase' \notin Early \cup Walks /\ phase' \in Phases
        /\ phase' # "replaying" /\ phase' # "placing" /\ phase' # "replayed"
        /\ phase' # "walking" /\ phase' # "freeing"
    BY <1>1 DEF Walks, Early, Phases, Verdicts
  <1>3. UNCHANGED << frame, commit, input, source, size, owner, stack, trees, tree, here, cell,
                     chain, rows, count >>
    BY <1>1 DEF replay, image, walk
  <1>4. TypeOK' /\ (size > 0)'
    BY <1>2, <1>3 DEF AdmissionInv, TypeOK
  <1>5. Waiting = {}
    BY <1>1, FreeFacts DEF Chained, Remaining
  <1>6. ClaimsInv
    BY DEF AdmissionInv
  <1>7. \A p \in 1..size : owner[p] \in Demands /\ owner[p].to = p
    <2>1. OwnersFit /\ Owners \subseteq Demands
      BY <1>2, <1>6 DEF ClaimsInv
    <2>2. \A p \in 1..size : owner[p] # None
      BY <1>1 DEF AllOwned
    <2>3. \A p \in 1..size : owner[p] \in Owners
      BY <2>2 DEF Owners
    <2> QED BY <2>1, <2>2, <2>3 DEF OwnersFit
  <1>8. \A c \in Demands : c.to \in 1..size /\ owner[c.to] = c
    BY <1>2, <1>5, <1>6 DEF ClaimsInv, Granted
  <1>9. Demands' = Demands
    BY <1>1, SameOwners
  <1>10. OwnedOnce'
    BY <1>3, <1>7, <1>8, <1>9 DEF OwnedOnce
  <1>11. Untouched' /\ ReplayInv' /\ PlaceInv' /\ ClaimsInv'
    BY <1>2 DEF Untouched, ReplayInv, PlaceInv, ClaimsInv
  <1> QED BY <1>4, <1>10, <1>11 DEF AdmissionInv

---------------------------------------------------------------------------
(* Sequences without repetition *)

\* Something new is appended.
LEMMA AppendDistinct ==
    ASSUME NEW S, NEW s \in Seq(S), NEW x \in S, Distinct(s), x \notin Elements(s)
    PROVE  Distinct(Append(s, x))
  <1>1. Len(s) \in Nat /\ DOMAIN s = 1..Len(s) /\ DOMAIN Append(s, x) = 1..Len(s) + 1
    OBVIOUS
  <1>2. /\ \A i \in 1..Len(s) : Append(s, x)[i] = s[i] /\ s[i] # x
        /\ Append(s, x)[Len(s) + 1] = x
    BY DEF Elements
  <1>3. \A i \in 1..Len(s) + 1 : i \in 1..Len(s) \/ i = Len(s) + 1
    BY <1>1
  <1> QED BY <1>1, <1>2, <1>3 DEF Distinct

\* The last is taken.
LEMMA PoppedDistinct ==
    ASSUME NEW S, stack \in Seq(S), stack # <<>>, Distinct(stack)
    PROVE  Distinct(Popped) /\ Top \notin Elements(Popped)
  <1>1. Len(stack) \in Nat /\ Len(stack) > 0 /\ DOMAIN stack = 1..Len(stack)
    OBVIOUS
  <1>2. Popped \in Seq(S) /\ Len(Popped) = Len(stack) - 1
    BY <1>1 DEF Popped
  <1>3. \A i \in 1..Len(stack) - 1 : Popped[i] = stack[i]
    BY <1>1 DEF Popped
  <1>4. DOMAIN Popped = 1..Len(stack) - 1
    BY <1>2
  <1> QED BY <1>1, <1>3, <1>4 DEF Distinct, Top, Elements

\* The first is taken.
LEMMA TailDistinct ==
    ASSUME NEW S, trees \in Seq(S), trees # <<>>, Distinct(trees)
    PROVE  Distinct(Tail(trees)) /\ Head(trees) \notin Elements(Tail(trees))
  <1>1. Len(trees) \in Nat /\ Len(trees) > 0 /\ DOMAIN trees = 1..Len(trees)
    OBVIOUS
  <1>2. Tail(trees) \in Seq(S) /\ Len(Tail(trees)) = Len(trees) - 1 /\ Head(trees) = trees[1]
    BY <1>1
  <1>3. \A i \in 1..Len(trees) - 1 : Tail(trees)[i] = trees[i + 1] /\ i + 1 \in 1..Len(trees)
    BY <1>1
  <1>4. DOMAIN Tail(trees) = 1..Len(trees) - 1
    BY <1>2
  <1>5. Head(trees) \notin Elements(Tail(trees))
    <2> SUFFICES ASSUME NEW i \in 1..Len(trees) - 1, Tail(trees)[i] = Head(trees)
                 PROVE  FALSE
      BY <1>4 DEF Elements
    <2>1. trees[i + 1] = trees[1] /\ i + 1 # 1 /\ 1 \in 1..Len(trees)
      BY <1>1, <1>2, <1>3
    <2> QED BY <1>1, <1>3, <2>1 DEF Distinct
  <1>6. Distinct(Tail(trees))
    <2> SUFFICES ASSUME NEW i \in 1..Len(trees) - 1, NEW j \in 1..Len(trees) - 1,
                        Tail(trees)[i] = Tail(trees)[j]
                 PROVE  i = j
      BY <1>4 DEF Distinct
    <2>1. i + 1 = j + 1
      BY <1>1, <1>3 DEF Distinct
    <2> QED BY <2>1
  <1> QED BY <1>5, <1>6

---------------------------------------------------------------------------
(* What a page claims is new when the page is granted *)

\* Who makes a claim, and of which tree.
LEMMA MadeFields ==
    ASSUME NEW c
    PROVE  /\ \A d \in Made(c) : d.by = c.to
           /\ \A d \in Made(c) : d.role = "node" => d.tree = c.tree
           /\ \A d \in Made(c) : d.role = "root" => OfTree(c) /\ c.tree = None
           /\ \A d \in Made(c) : OfTree(d) => OfTree(c)
  <1> DEFINE D == DOMAIN Content(c.to).cells
             E == DOMAIN Content(c.to).listed
  <1>1. /\ RightClaim(c).by = c.to /\ RightClaim(c).role = "node" /\ RightClaim(c).tree = c.tree
        /\ NextClaim(c).by = c.to /\ NextClaim(c).role = "later"
        /\ TrunkClaim(c.to, Content(c.to).next).by = c.to
        /\ TrunkClaim(c.to, Content(c.to).next).role = "free"
    BY DEF RightClaim, NextClaim, TrunkClaim, Claim
  <1>2. /\ \A i \in D : LeftClaim(c, i).by = c.to /\ LeftClaim(c, i).role = "node" /\ LeftClaim(c, i).tree = c.tree
        /\ \A i \in D : RootClaim(c, i).by = c.to /\ RootClaim(c, i).role = "root"
        /\ \A i \in Spills(c) : SpillClaim(c, i).by = c.to /\ SpillClaim(c, i).role = "first"
        /\ \A i \in E : ListedClaim(c, i).by = c.to /\ ListedClaim(c, i).role = "free"
    BY DEF LeftClaim, RootClaim, SpillClaim, ListedClaim, Claim
  <1>3. \A d \in NodeClaims(c) :
           /\ d.by = c.to /\ (d.role = "node" => d.tree = c.tree)
           /\ (d.role = "root" => c.tree = None)
    BY <1>1, <1>2 DEF NodeClaims
  <1>4. \A d \in TrunkClaims(c) : d.by = c.to /\ d.role = "free"
    BY <1>1, <1>2 DEF TrunkClaims
  <1>5. CASE OfTree(c)
    <2>1. Made(c) = NodeClaims(c)
      BY <1>5, MadeByRole
    <2> QED BY <1>3, <1>5, <2>1
  <1>6. CASE ~OfTree(c)
    <2>1. Made(c) \subseteq {NextClaim(c)} \cup TrunkClaims(c)
      BY <1>6 DEF Made, OfTree
    <2>2. \A d \in Made(c) : d.by = c.to /\ d.role \in {"later", "free"}
      BY <1>1, <1>4, <2>1
    <2> QED BY <2>2 DEF OfTree
  <1> QED BY <1>5, <1>6

\* Roots are made by no page.
LEMMA RootFields ==
    /\ \A c \in Roots : c.by = 0 /\ c.role \in {"root", "free", "map"} /\ (c.role = "root" => c = SchemaClaim)
    /\ SchemaClaim.by = 0 /\ SchemaClaim.at = 0 /\ SchemaClaim.role = "root" /\ SchemaClaim.tree = None
    /\ OfTree(SchemaClaim)
  <1>1. SchemaClaim.by = 0 /\ SchemaClaim.at = 0 /\ SchemaClaim.role = "root" /\ SchemaClaim.tree = None
    BY DEF SchemaClaim, Claim
  <1>2. FreeHead # None => FreeHead.by = 0 /\ FreeHead.role = "free"
    BY DEF FreeHead, TrunkClaim, Claim
  <1>3. \A p \in MapPages : MapClaim(p).by = 0 /\ MapClaim(p).role = "map"
    BY DEF MapClaim, Claim
  <1> QED BY <1>1, <1>2, <1>3 DEF Roots, OfTree

\* Nothing that a page claims was claimed before the page was granted.
LEMMA MadeIsNew ==
    ASSUME AdmissionInv, phase \in Walks, NEW c \in Claims, Grantable(c.to)
    PROVE  (\A d \in Made(c) : d \notin Demands) /\ c \notin Owners
  <1>1. /\ OwnersFit /\ size \in Nat /\ c.to \in 1..size /\ owner[c.to] = None
        /\ c # None
    BY AbsentAssumption DEF AdmissionInv, ClaimsInv, TypeOK, Grantable
  <1>2. \A o \in Owners : o.to # c.to
    BY <1>1 DEF Owners, OwnersFit
  <1>3. ASSUME NEW d \in Made(c), d \in Demands
        PROVE  FALSE
    <2>1. d.by = c.to /\ c.to # 0
      BY <1>1, MadeFields
    <2>2. d \notin Roots
      BY <2>1, RootFields
    <2>3. PICK o \in Owners : d \in Made(o)
      BY <1>3, <2>2 DEF Demands
    <2>4. d.by = o.to
      BY <2>3, MadeFields
    <2> QED BY <1>2, <2>1, <2>4
  <1> QED BY <1>2, <1>3

\* As many pages are granted as there are pages, at most.
LEMMA OwnersFinite ==
    ASSUME AdmissionInv, phase \in Walks
    PROVE  /\ OneToOne(Owners) /\ IsFiniteSet(Owners) /\ IsFiniteSet(FreeOwners)
           /\ Cardinality(FreeOwners) \in Nat
  <1>1. OwnersFit /\ size \in Nat
    BY DEF AdmissionInv, ClaimsInv, TypeOK
  <1>2. \A o \in Owners : o.to \in 1..size /\ owner[o.to] = o
    BY <1>1 DEF Owners, OwnersFit
  <1>3. OneToOne(Owners)
    BY <1>2 DEF OneToOne
  <1>4. IsFiniteSet(Owners)
    BY <1>1, <1>3, NoMoreThanPages
  <1>5. FreeOwners \in SUBSET Owners
    BY DEF FreeOwners
  <1> QED BY <1>3, <1>4, <1>5, FS_Subset, FS_CardinalityType

---------------------------------------------------------------------------
(* What every step does to the parts of the exact invariant *)

\* A page is what it was as long as the image stands.
LEMMA SoundStays ==
    ASSUME UNCHANGED image, NEW c
    PROVE  Sound(c)' = Sound(c)
  <1>1. Content(c.to)' = Content(c.to)
    BY ImageKept
  <1> QED BY <1>1 DEF Sound, OfTree, NodeOf, LinkFits

\* A step that grants nothing.
LEMMA SoundQuiet ==
    ASSUME SoundInv, phase \in Walks, UNCHANGED << image, owner, count >>
    PROVE  SoundInv'
  <1>1. Owners' = Owners
    BY SameOwners
  <1>2. (\A c \in Owners : Sound(c))'
    BY <1>1, SoundStays DEF SoundInv
  <1>3. FreeOwners' = FreeOwners
    BY <1>1 DEF FreeOwners
  <1> QED BY <1>2, <1>3 DEF SoundInv

\* A step that grants a page for what it is.
LEMMA SoundGrant ==
    ASSUME AdmissionInv, SoundInv, phase \in Walks, UNCHANGED image,
           NEW c \in Claims, Grantable(c.to), Grant(c), Sound(c),
           count' = IF c.role = "free" THEN count + 1 ELSE count
    PROVE  SoundInv'
  <1>1. Owners' = Owners \cup {c} /\ c \notin Owners
    BY GrantAdds, MadeIsNew
  <1>2. (\A d \in Owners : Sound(d))'
    BY <1>1, SoundStays DEF SoundInv
  <1>3. count = Cardinality(FreeOwners) /\ IsFiniteSet(FreeOwners)
    BY OwnersFinite DEF SoundInv
  <1>4. (count = Cardinality(FreeOwners))'
    <2>1. CASE c.role = "free"
      <3>1. FreeOwners' = FreeOwners \cup {c} /\ c \notin FreeOwners
        BY <1>1, <2>1 DEF FreeOwners
      <3>2. Cardinality(FreeOwners \cup {c}) = Cardinality(FreeOwners) + 1
        BY <1>3, <3>1, FS_AddElement
      <3> QED BY <1>3, <2>1, <3>1, <3>2
    <2>2. CASE c.role # "free"
      <3>1. FreeOwners' = FreeOwners
        BY <1>1, <2>2 DEF FreeOwners
      <3> QED BY <1>3, <2>2, <3>1
    <2> QED BY <2>1, <2>2
  <1> QED BY <1>2, <1>4 DEF SoundInv

\* A step that grants nothing names no tree.
LEMMA NamedQuiet ==
    ASSUME UNCHANGED << image, owner >>
    PROVE  NamedDemands' = NamedDemands
  BY SameOwners DEF NamedDemands, SchemaClaim, Claim

\* A step that grants a page names the trees of its rows.
LEMMA NamedGrant ==
    ASSUME AdmissionInv, phase \in Walks, UNCHANGED image,
           NEW c \in Claims, Grantable(c.to), Grant(c)
    PROVE  NamedDemands' = NamedDemands \cup {d \in Made(c) : d.role = "root"}
  <1>1. Demands' = Demands \cup Made(c)
    BY GrantAdds
  <1>2. SchemaClaim' = SchemaClaim
    BY DEF SchemaClaim, Claim
  <1>3. SchemaClaim \in Demands
    BY DEF Demands, Roots
  <1>4. SchemaClaim \notin Made(c)
    BY <1>3, MadeIsNew
  <1> QED BY <1>1, <1>2, <1>4 DEF NamedDemands

\* A step that grants what waits.
LEMMA OnceGrant ==
    ASSUME AdmissionInv, OnceInv, phase \in Walks, UNCHANGED image,
           NEW c \in Claims, Grantable(c.to), Grant(c),
           Waiting' \subseteq Waiting \cup Made(c), c \notin Waiting'
    PROVE  (Waiting \cap Owners = {})'
  <1>1. Owners' = Owners \cup {c} /\ \A d \in Made(c) : d \notin Demands
    BY GrantAdds, MadeIsNew
  <1>2. Waiting \cap Owners = {} /\ Owners \subseteq Demands
    BY DEF OnceInv, AdmissionInv, ClaimsInv
  <1> QED BY <1>1, <1>2

\* While the walk goes on there is no verdict.
LEMMA NoVerdict ==
    ASSUME phase' \in Walks
    PROVE  VerdictInv'
  BY DEF VerdictInv, Walks

---------------------------------------------------------------------------
(* Every step of the walk keeps the exact invariant *)

\* A step of the walk gives no verdict.
LEMMA ExactStep ==
    ASSUME phase' \in Walks, SoundInv', SchemaInv', OnceInv'
    PROVE  ExactInv'
  BY NoVerdict DEF ExactInv

\* The walk begins with the root of the schema; only pointer map pages are granted.
LEMMA BeginWalkExact ==
    ASSUME AdmissionInv, BeginWalk
    PROVE  ExactInv'
  <1>1. /\ phase' = "walking" /\ phase' \in Walks
        /\ UNCHANGED << replay, image, trees, tree, here, cell, chain, rows, count >>
        /\ trees = <<>> /\ here = None /\ chain = None /\ tree = None /\ count = 0
        /\ stack' = <<SchemaClaim>>
        /\ Stacked' = {SchemaClaim} /\ Found' = {} /\ Chained' = {} /\ Remaining' = {}
        /\ Waiting' = {SchemaClaim} \cup FreeRoot
        /\ Owners' = {MapClaim(p) : p \in MapPages} /\ Demands' = Roots
    BY BeginWalkFacts DEF Walks
  <1>2. \A c \in Owners' : c.role = "map"
    BY <1>1 DEF MapClaim, Claim
  <1>3. SoundInv'
    <2>1. (\A c \in Owners : Sound(c))'
      BY <1>2 DEF Sound, OfTree
    <2>2. FreeOwners' = {}
      BY <1>2 DEF FreeOwners
    <2>3. Cardinality({}) = 0
      BY FS_EmptySet
    <2>4. (count = Cardinality(FreeOwners))'
      BY <1>1, <2>2, <2>3
    <2> QED BY <2>1, <2>4 DEF SoundInv
  <1>4. SchemaInv'
    <2>1. NamedDemands' = {}
      BY <1>1, RootFields DEF NamedDemands, SchemaClaim, Claim
    <2>2. (\A c \in Stacked : c.tree = tree)'
      BY <1>1, RootFields
    <2> QED BY <1>1, <2>1, <2>2 DEF SchemaInv
  <1>5. OnceInv'
    <2>1. \A c \in FreeRoot : c.role = "free"
      BY DEF FreeRoot, FreeHead, TrunkClaim, Claim
    <2>2. (Waiting \cap Owners = {})'
      BY <1>1, <1>2, <2>1, RootFields
    <2>3. Distinct(stack') /\ Distinct(trees')
      BY <1>1 DEF Distinct
    <2> QED BY <1>1, <2>2, <2>3 DEF OnceInv, Distinct
  <1> QED BY <1>1, <1>3, <1>4, <1>5, ExactStep

\* The parts of the exact invariant while the trees are walked.
LEMMA ExactFacts ==
    ASSUME ExactInv, phase = "walking"
    PROVE  /\ SoundInv /\ SchemaInv /\ OnceInv /\ phase \in Walks
           /\ \A c \in Stacked : c.tree = tree
           /\ here # None => here.tree = tree
           /\ \A c \in Found : c.role = "root" /\ c.at > 0
           /\ tree = None => NamedDemands \subseteq Found \cup Remaining
           /\ tree # None => SchemaFits(NamedDemands)
           /\ Waiting \cap Owners = {}
           /\ Distinct(stack) /\ Distinct(trees) /\ Stacked \cap Found = {}
           /\ Remaining \cap (Stacked \cup Found \cup Chained) = {}
  BY DEF ExactInv, SchemaInv, OnceInv, Walks

\* What the schema says depends on nothing else.
LEMMA SchemaFitsKept ==
    ASSUME NEW R
    PROVE  SchemaFits(R)' = SchemaFits(R)
  BY DEF SchemaFits, RootsFit, NamesFit, Missing

\* The head of the free list is of no tree.
LEMMA FreeRootRole ==
    \A c \in FreeRoot : c.role = "free" /\ ~OfTree(c)
  BY DEF FreeRoot, FreeHead, TrunkClaim, Claim, OfTree

\* What the schema names fits as long as it names the same.
LEMMA SchemaStays ==
    ASSUME SchemaFits(NamedDemands), NamedDemands' = NamedDemands
    PROVE  SchemaFits(NamedDemands)'
  <1> PICK R : R = NamedDemands
    OBVIOUS
  <1>1. SchemaFits(R)' /\ NamedDemands' = R
    BY SchemaFitsKept
  <1> QED BY <1>1 DEF SchemaFits, RootsFit, NamesFit, Missing

\* A node is granted: what it names is new, and waits in one place.
LEMMA EnterExact ==
    ASSUME AdmissionInv, ExactInv, Enter
    PROVE  ExactInv'
  <1>1. /\ phase = "walking" /\ phase \in Walks /\ stack # <<>>
        /\ NodeOf(Content(Top.to), Top.tree)
    BY DEF Enter, Walks
  <1>2. TypeOK /\ Whole /\ stack \in Seq(Claims) /\ Top \in Claims
    BY <1>1, WalkFacts, StackPopped
  <1> PICK c \in Claims : c = Top
    BY <1>2
  <1>3. /\ phase' = phase /\ here = None /\ chain = None
        /\ OfTree(c) /\ Grantable(c.to) /\ Grant(c) /\ here' = c
        /\ UNCHANGED << replay, image, trees, tree, chain, rows, count >>
        /\ Popped \in Seq(Claims) /\ RightClaim(c) \in Claims
        /\ Stacked = Elements(Popped) \cup {c}
        /\ stack' = IF Content(c.to).leaf THEN Popped ELSE Append(Popped, RightClaim(c))
        /\ Stacked' = Elements(Popped) \cup Right(c)
        /\ Found' = Found /\ Chained' = {}
        /\ Remaining = {} /\ Remaining' = {d \in Made(c) : d.at > 0}
        /\ Made(c) = Right(c) \cup {d \in Made(c) : d.at > 0}
        /\ Waiting = Elements(Popped) \cup {c} \cup Found \cup FreeRoot
        /\ Waiting' = Elements(Popped) \cup Made(c) \cup Found \cup FreeRoot
    BY EnterFacts
  <1>4. /\ SoundInv /\ SchemaInv /\ OnceInv
        /\ \A d \in Stacked : d.tree = tree
        /\ \A d \in Found : d.role = "root" /\ d.at > 0
        /\ tree = None => NamedDemands \subseteq Found \cup Remaining
        /\ tree # None => SchemaFits(NamedDemands)
        /\ Distinct(stack) /\ Distinct(trees) /\ Stacked \cap Found = {}
    BY <1>1, ExactFacts
  <1>5. /\ \A d \in Made(c) : d \notin Demands
        /\ Waiting \subseteq Demands
    BY <1>1, <1>3, MadeIsNew DEF AdmissionInv, ClaimsInv
  <1>6. /\ \A d \in Right(c) : d.role = "node" /\ d.at = 0 /\ d.tree = c.tree
        /\ c.tree = tree
    BY <1>3, <1>4 DEF Right, RightClaim, Claim
  <1>7. SoundInv'
    <2>1. Sound(c)
      BY <1>1, <1>3 DEF Sound, OfTree
    <2>2. c.role # "free"
      BY <1>3 DEF OfTree
    <2> QED BY <1>1, <1>3, <1>4, <2>1, <2>2, SoundGrant
  <1>8. SchemaInv'
    <2>1. NamedDemands' = NamedDemands \cup {d \in Made(c) : d.role = "root"}
      BY <1>1, <1>3, NamedGrant
    <2>2. ASSUME tree = None
          PROVE  (NamedDemands \subseteq Found \cup Remaining)'
      <3>1. \A d \in Made(c) : d.role = "root" => d \in Remaining'
        BY <1>3, <1>6
      <3> QED BY <1>3, <1>4, <2>1, <2>2, <3>1
    <2>3. ASSUME tree # None
          PROVE  SchemaFits(NamedDemands)'
      <3>1. NamedDemands' = NamedDemands
        BY <1>6, <2>1, <2>3, MadeFields
      <3> QED BY <1>4, <2>3, <3>1, SchemaStays
    <2>4. (\A d \in Stacked : d.tree = tree)' /\ (here.tree = tree)'
      BY <1>3, <1>4, <1>6
    <2>5. (\A d \in Found : d.role = "root" /\ d.at > 0)'
      BY <1>3, <1>4
    <2> QED BY <1>1, <1>3, <2>2, <2>3, <2>4, <2>5 DEF SchemaInv
  <1>9. OnceInv'
    <2>1. Distinct(Popped) /\ c \notin Elements(Popped)
      BY <1>1, <1>2, <1>4, PoppedDistinct
    <2>2. Distinct(stack')
      <3>1. RightClaim(c) \in Right(c) => RightClaim(c) \notin Elements(Popped)
        BY <1>3, <1>5
      <3> QED BY <1>3, <2>1, <3>1, AppendDistinct DEF Right
    <2>3. c \notin Waiting'
      <3>1. c \notin Made(c) /\ c \notin Found
        BY <1>3, <1>4, <1>5
      <3>2. c \notin FreeRoot
        BY <1>3, FreeRootRole
      <3> QED BY <1>3, <2>1, <3>1, <3>2
    <2>4. (Waiting \cap Owners = {})'
      <3>1. Waiting' \subseteq Waiting \cup Made(c)
        BY <1>3
      <3> QED BY <1>1, <1>3, <1>4, <2>3, <3>1, OnceGrant
    <2>5. (Stacked \cap Found = {})'
      BY <1>3, <1>4, <1>6
    <2>6. (Remaining \cap (Stacked \cup Found \cup Chained) = {})'
      <3>1. \A d \in Remaining' : d \notin Elements(Popped) /\ d \notin Found
        BY <1>3, <1>5
      <3>2. \A d \in Remaining' : d \notin Right(c)
        BY <1>3, <1>6
      <3> QED BY <1>3, <3>1, <3>2
    <2>7. Distinct(stack)' /\ Distinct(trees)'
      BY <1>3, <1>4, <2>2 DEF Distinct
    <2> QED BY <2>4, <2>5, <2>6, <2>7 DEF OnceInv
  <1> QED BY <1>1, <1>3, <1>7, <1>8, <1>9, ExactStep

\* A cell is read: what it claims moves from the slots to where it waits.
LEMMA ReadCellExact ==
    ASSUME AdmissionInv, ExactInv, ReadCell
    PROVE  ExactInv'
  <1>1. phase = "walking" /\ phase \in Walks /\ here # None
    BY DEF ReadCell, AtCell, Reading, Walks
  <1>2. TypeOK /\ Whole /\ here \in Claims /\ cell \in Nat
    BY <1>1, WalkFacts
  <1> PICK h \in Claims : h = here
    BY <1>2
  <1> PICK n \in Nat : n = cell + 1
    BY <1>2
  <1>3. /\ phase' = phase /\ OfTree(h) /\ h.to \in 1..size /\ n \in DOMAIN Content(h.to).cells
        /\ UNCHANGED << replay, image, owner, tree, here, count >>
        /\ LeftClaim(h, n) \in Claims /\ RootClaim(h, n) \in Claims
        /\ stack \in Seq(Claims) /\ trees \in Seq(Claims)
        /\ stack' = IF Content(h.to).leaf THEN stack ELSE Append(stack, LeftClaim(h, n))
        /\ trees' = IF h.tree = None /\ Carries(Content(h.to))
                      THEN Append(trees, RootClaim(h, n)) ELSE trees
        /\ Stacked' = Stacked \cup Left(h, n) /\ Found' = Found \cup Root(h, n)
        /\ Chained = {} /\ Chained' = Spill(h, n)
        /\ Remaining = Remaining' \cup AtSlot(h, n) /\ Remaining' = {d \in Made(h) : d.at > n}
        /\ Waiting' = Waiting
    BY ReadCellFacts
  <1>4. /\ SoundInv /\ SchemaInv /\ OnceInv
        /\ \A d \in Stacked : d.tree = tree
        /\ h.tree = tree
        /\ \A d \in Found : d.role = "root" /\ d.at > 0
        /\ tree = None => NamedDemands \subseteq Found \cup Remaining
        /\ tree # None => SchemaFits(NamedDemands)
        /\ Waiting \cap Owners = {}
        /\ Distinct(stack) /\ Distinct(trees) /\ Stacked \cap Found = {}
        /\ Remaining \cap (Stacked \cup Found) = {}
    BY <1>1, ExactFacts
  <1>5. /\ \A d \in Left(h, n) : d.role = "node" /\ d.at = n /\ d.tree = h.tree
        /\ \A d \in Root(h, n) : d.role = "root" /\ d.at = n
        /\ \A d \in Spill(h, n) : d.role = "first" /\ d.at = n
    BY DEF Left, LeftClaim, Root, RootClaim, Spill, SpillClaim, Claim
  <1>6. n > 0 /\ ~(n > n)
    BY <1>2
  <1>7. SoundInv'
    BY <1>1, <1>3, <1>4, SoundQuiet
  <1>8. NamedDemands' = NamedDemands
    BY <1>3, NamedQuiet
  <1>9. SchemaInv'
    <2>1. ASSUME tree = None
          PROVE  (NamedDemands \subseteq Found \cup Remaining)'
      <3>1. \A d \in NamedDemands : d.role = "root"
        BY DEF NamedDemands
      <3>2. \A d \in AtSlot(h, n) : d.role = "root" => d \in Root(h, n)
        BY <1>5 DEF AtSlot
      <3> QED BY <1>3, <1>4, <1>8, <2>1, <3>1, <3>2
    <2>2. ASSUME tree # None
          PROVE  SchemaFits(NamedDemands)'
      BY <1>4, <1>8, <2>2, SchemaStays
    <2>3. (\A d \in Stacked : d.tree = tree)' /\ (here.tree = tree)'
      BY <1>3, <1>4, <1>5
    <2>4. (\A d \in Found : d.role = "root" /\ d.at > 0)'
      BY <1>3, <1>4, <1>5, <1>6
    <2> QED BY <1>1, <1>3, <2>1, <2>2, <2>3, <2>4 DEF SchemaInv
  <1>10. OnceInv'
    <2>1. AtSlot(h, n) \cap (Stacked \cup Found) = {}
      BY <1>3, <1>4
    <2>2. Distinct(stack')
      <3>1. LeftClaim(h, n) \in Left(h, n) => LeftClaim(h, n) \notin Elements(stack)
        BY <2>1 DEF AtSlot, Stacked
      <3> QED BY <1>3, <1>4, <3>1, AppendDistinct DEF Left
    <2>3. Distinct(trees')
      <3>1. RootClaim(h, n) \in Root(h, n) => RootClaim(h, n) \notin Elements(trees)
        BY <2>1 DEF AtSlot, Found, Elements
      <3> QED BY <1>3, <1>4, <3>1, AppendDistinct DEF Root
    <2>4. (Stacked \cap Found = {})'
      <3>1. Root(h, n) \cap Stacked = {} /\ Left(h, n) \cap Found = {} /\ Left(h, n) \cap Root(h, n) = {}
        BY <1>5, <2>1 DEF AtSlot
      <3> QED BY <1>3, <1>4, <3>1
    <2>5. (Remaining \cap (Stacked \cup Found \cup Chained) = {})'
      <3>1. \A d \in Remaining' : d \notin Left(h, n) /\ d \notin Root(h, n) /\ d \notin Spill(h, n)
        BY <1>3, <1>5, <1>6
      <3> QED BY <1>3, <1>4, <3>1
    <2>6. (Waiting \cap Owners = {})'
      BY <1>3, <1>4, SameOwners
    <2>7. Distinct(stack)' /\ Distinct(trees)'
      BY <2>2, <2>3 DEF Distinct
    <2> QED BY <2>4, <2>5, <2>6, <2>7 DEF OnceInv
  <1> QED BY <1>1, <1>3, <1>7, <1>9, <1>10, ExactStep

\* An overflow page is granted: the next of its chain is new.
LEMMA FollowExact ==
    ASSUME AdmissionInv, ExactInv, Follow
    PROVE  ExactInv'
  <1>1. phase = "walking" /\ phase \in Walks /\ chain # None
    BY DEF Follow, Walks
  <1>2. chain \in Claims /\ PlaceInv
    BY <1>1, WalkFacts
  <1> PICK c \in Claims : c = chain
    BY <1>2
  <1>3. /\ phase' = phase
        /\ OfChain(c) /\ Grantable(c.to) /\ Grant(c) /\ LinkFits(c)
        /\ here # None /\ UNCHANGED << replay, image, stack, trees, tree, here, cell, rows, count >>
        /\ Chained = {c} /\ Chained' = Made(c)
        /\ Stacked' = Stacked /\ Found' = Found /\ Remaining' = Remaining
        /\ Waiting = Stacked \cup Found \cup {c} \cup Remaining \cup FreeRoot
        /\ Waiting' = Stacked \cup Found \cup Made(c) \cup Remaining \cup FreeRoot
    BY FollowFacts
  <1>4. /\ SoundInv /\ SchemaInv /\ OnceInv
        /\ \A d \in Stacked : d.tree = tree
        /\ here # None => here.tree = tree
        /\ \A d \in Found : d.role = "root" /\ d.at > 0
        /\ tree = None => NamedDemands \subseteq Found \cup Remaining
        /\ tree # None => SchemaFits(NamedDemands)
        /\ Distinct(stack) /\ Distinct(trees) /\ Stacked \cap Found = {}
        /\ Remaining \cap (Stacked \cup Found \cup Chained) = {}
    BY <1>1, ExactFacts
  <1>5. /\ \A d \in Made(c) : d \notin Demands
        /\ Waiting \subseteq Demands
    BY <1>1, <1>3, MadeIsNew DEF AdmissionInv, ClaimsInv
  <1>6. ~OfTree(c) /\ c.role # "free" /\ \A d \in Stacked \cup Found : OfTree(d)
    BY <1>1, <1>2, <1>3 DEF OfTree, OfChain, PlaceInv
  <1>7. SoundInv'
    <2>1. Sound(c)
      BY <1>3, <1>6 DEF Sound
    <2> QED BY <1>1, <1>3, <1>4, <1>6, <2>1, SoundGrant
  <1>8. NamedDemands' = NamedDemands
    <2>1. NamedDemands' = NamedDemands \cup {d \in Made(c) : d.role = "root"}
      BY <1>1, <1>3, NamedGrant
    <2> QED BY <1>6, <2>1, MadeFields
  <1>9. SchemaInv'
    <2>1. ASSUME tree # None
          PROVE  SchemaFits(NamedDemands)'
      BY <1>4, <1>8, <2>1, SchemaStays
    <2>2. (\A d \in Stacked : d.tree = tree)' /\ (here.tree = tree)'
      BY <1>3, <1>4
    <2>3. (\A d \in Found : d.role = "root" /\ d.at > 0)'
      BY <1>3, <1>4
    <2>4. tree = None => (NamedDemands \subseteq Found \cup Remaining)'
      BY <1>3, <1>4, <1>8
    <2> QED BY <1>1, <1>3, <2>1, <2>2, <2>3, <2>4 DEF SchemaInv
  <1>10. OnceInv'
    <2>1. c \notin Waiting'
      <3>1. c \notin Stacked /\ c \notin Found /\ c \notin Remaining
        BY <1>3, <1>4, <1>6
      <3>2. c \notin Made(c)
        BY <1>3, <1>5
      <3>3. c \notin FreeRoot
        BY <1>6, FreeRootRole
      <3> QED BY <1>3, <3>1, <3>2, <3>3
    <2>2. (Waiting \cap Owners = {})'
      <3>1. Waiting' \subseteq Waiting \cup Made(c)
        BY <1>3
      <3> QED BY <1>1, <1>3, <1>4, <2>1, <3>1, OnceGrant
    <2>3. (Remaining \cap (Stacked \cup Found \cup Chained) = {})'
      <3>1. \A d \in Remaining : d \notin Made(c)
        BY <1>3, <1>5
      <3> QED BY <1>3, <1>4, <3>1
    <2>4. Distinct(stack)' /\ Distinct(trees)' /\ (Stacked \cap Found = {})'
      BY <1>3, <1>4 DEF Distinct
    <2> QED BY <2>2, <2>3, <2>4 DEF OnceInv
  <1> QED BY <1>1, <1>3, <1>7, <1>9, <1>10, ExactStep

\* A node is left: none of its slots is left to read.
LEMMA LeaveExact ==
    ASSUME AdmissionInv, ExactInv, Leave
    PROVE  ExactInv'
  <1>1. /\ phase = "walking" /\ phase' = phase /\ phase \in Walks
        /\ here' = None
        /\ UNCHANGED << replay, image, owner, stack, trees, tree, cell, chain, rows, count >>
        /\ Stacked' = Stacked /\ Found' = Found /\ Remaining = {} /\ Remaining' = {}
        /\ Waiting' = Waiting
    BY LeaveFacts
  <1>2. /\ SoundInv /\ SchemaInv /\ OnceInv
        /\ \A d \in Stacked : d.tree = tree
        /\ \A d \in Found : d.role = "root" /\ d.at > 0
        /\ tree = None => NamedDemands \subseteq Found \cup Remaining
        /\ tree # None => SchemaFits(NamedDemands)
        /\ Waiting \cap Owners = {}
        /\ Distinct(stack) /\ Distinct(trees) /\ Stacked \cap Found = {}
    BY <1>1, ExactFacts
  <1>3. SoundInv' /\ NamedDemands' = NamedDemands
    BY <1>1, <1>2, SoundQuiet, NamedQuiet
  <1>4. SchemaInv'
    <2>1. ASSUME tree # None
          PROVE  SchemaFits(NamedDemands)'
      BY <1>2, <1>3, <2>1, SchemaStays
    <2>2. (\A d \in Stacked : d.tree = tree)' /\ (\A d \in Found : d.role = "root" /\ d.at > 0)'
      BY <1>1, <1>2
    <2>3. tree = None => (NamedDemands \subseteq Found \cup Remaining)'
      BY <1>1, <1>2, <1>3
    <2> QED BY <1>1, <2>1, <2>2, <2>3 DEF SchemaInv
  <1>5. OnceInv'
    <2>1. (Waiting \cap Owners = {})'
      BY <1>1, <1>2, SameOwners
    <2>2. Distinct(stack)' /\ Distinct(trees)' /\ (Stacked \cap Found = {})'
      BY <1>1, <1>2 DEF Distinct
    <2>3. (Remaining \cap (Stacked \cup Found \cup Chained) = {})'
      BY <1>1
    <2> QED BY <2>1, <2>2, <2>3 DEF OnceInv
  <1> QED BY <1>1, <1>3, <1>4, <1>5, ExactStep

\* What the schema's tree names, when that tree was read, is what was found.
LEMMA SchemaRead ==
    ASSUME AdmissionInv, ExactInv, TreeDone
    PROVE  /\ Found \subseteq NamedDemands
           /\ tree = None => NamedDemands = Found
           /\ TreeFits => SchemaFits(NamedDemands)
  <1>1. phase = "walking" /\ phase \in Walks /\ here = None /\ Remaining = {}
    BY DEF TreeDone, Walks, Remaining
  <1>2. /\ \A c \in Found : c.role = "root" /\ c.at > 0
        /\ tree = None => NamedDemands \subseteq Found \cup Remaining
        /\ tree # None => SchemaFits(NamedDemands)
    BY <1>1, ExactFacts
  <1>3. Found \subseteq Demands
    BY <1>1 DEF AdmissionInv, ClaimsInv, Waiting
  <1>4. SchemaClaim \notin Found
    BY <1>2, RootFields
  <1>5. Found \subseteq NamedDemands
    BY <1>2, <1>3, <1>4 DEF NamedDemands
  <1>6. tree = None => NamedDemands = Found
    BY <1>1, <1>2, <1>5
  <1>7. TreeFits => SchemaFits(NamedDemands)
    BY <1>2, <1>6 DEF TreeFits
  <1> QED BY <1>5, <1>6, <1>7

\* The next tree is begun: the schema fits, so it has a name.
LEMMA NextTreeExact ==
    ASSUME AdmissionInv, ExactInv, NextTree
    PROVE  ExactInv'
  <1>1. TreeDone /\ TreeFits /\ Stacked = {}
    BY DEF NextTree, TreeDone, Stacked, Elements
  <1>2. /\ phase = "walking" /\ phase' = phase /\ phase \in Walks
        /\ here = None /\ trees # <<>> /\ trees \in Seq(Claims) /\ tree' = Head(trees).tree
        /\ stack' = <<Head(trees)>> /\ trees' = Tail(trees)
        /\ UNCHANGED << replay, image, owner, here, cell, chain, count >>
        /\ Stacked' = {Head(trees)}
        /\ Found = Elements(Tail(trees)) \cup {Head(trees)} /\ Found' = Elements(Tail(trees))
        /\ Remaining' = {} /\ Waiting' = Waiting
    BY NextTreeFacts
  <1>3. /\ SoundInv /\ \A d \in Found : d.role = "root" /\ d.at > 0
        /\ Waiting \cap Owners = {} /\ Distinct(trees)
    BY <1>2, ExactFacts
  <1>4. Found \subseteq NamedDemands /\ SchemaFits(NamedDemands)
    BY <1>1, SchemaRead
  <1>5. SoundInv' /\ NamedDemands' = NamedDemands
    BY <1>2, <1>3, SoundQuiet, NamedQuiet
  <1>6. tree' # None
    BY <1>2, <1>4 DEF SchemaFits, NamesFit
  <1>7. SchemaInv'
    <2>1. SchemaFits(NamedDemands)'
      BY <1>4, <1>5, SchemaStays
    <2>2. (\A d \in Stacked : d.tree = tree)' /\ (\A d \in Found : d.role = "root" /\ d.at > 0)'
      BY <1>2, <1>3
    <2> QED BY <1>2, <1>6, <2>1, <2>2 DEF SchemaInv
  <1>8. OnceInv'
    <2>1. (Waiting \cap Owners = {})'
      BY <1>2, <1>3, SameOwners
    <2>2. Distinct(Tail(trees)) /\ Head(trees) \notin Elements(Tail(trees))
      BY <1>2, <1>3, TailDistinct
    <2>3. Distinct(stack') /\ Distinct(trees')
      <3>1. Distinct(<<Head(trees)>>)
        BY DEF Distinct
      <3> QED BY <1>2, <2>2, <3>1
    <2>4. Distinct(stack)' /\ Distinct(trees)'
      BY <2>3 DEF Distinct
    <2>5. (Stacked \cap Found = {})' /\ (Remaining \cap (Stacked \cup Found \cup Chained) = {})'
      BY <1>2, <2>2
    <2> QED BY <2>1, <2>4, <2>5 DEF OnceInv
  <1> QED BY <1>2, <1>5, <1>7, <1>8, ExactStep

\* The last tree was read: what the schema says fits.
LEMMA BeginFreeListExact ==
    ASSUME AdmissionInv, ExactInv, BeginFreeList
    PROVE  ExactInv'
  <1>1. TreeDone /\ TreeFits
    BY DEF BeginFreeList
  <1>2. /\ phase = "walking" /\ phase' = "freeing" /\ phase \in Walks /\ phase' \in Walks
        /\ UNCHANGED << replay, image, owner, stack, trees, tree, here, cell, rows, count >>
        /\ Waiting' = Waiting
    BY BeginFreeFacts
  <1>3. SoundInv /\ Waiting \cap Owners = {} /\ SchemaFits(NamedDemands)
    BY <1>1, <1>2, ExactFacts, SchemaRead
  <1>4. SoundInv' /\ NamedDemands' = NamedDemands
    BY <1>2, <1>3, SoundQuiet, NamedQuiet
  <1>5. SchemaInv'
    <2>1. SchemaFits(NamedDemands)'
      BY <1>3, <1>4, SchemaStays
    <2> QED BY <1>2, <2>1 DEF SchemaInv
  <1>6. OnceInv'
    <2>1. (Waiting \cap Owners = {})'
      BY <1>2, <1>3, SameOwners
    <2> QED BY <1>2, <2>1 DEF OnceInv
  <1> QED BY <1>2, <1>4, <1>5, <1>6, ExactStep

\* A step of the free list that names no tree keeps what the schema says.
LEMMA FreeSchema ==
    ASSUME ExactInv, phase = "freeing", phase' = phase, NamedDemands' = NamedDemands
    PROVE  SchemaInv'
  <1>1. SchemaFits(NamedDemands)
    BY DEF ExactInv, SchemaInv
  <1> QED BY <1>1, SchemaStays DEF SchemaInv

\* A page of the free list is granted.
LEMMA FreeGrant ==
    ASSUME AdmissionInv, ExactInv, phase = "freeing", phase' = phase, UNCHANGED image,
           NEW c \in Claims, c.role = "free", Grantable(c.to), Grant(c), count' = count + 1,
           Waiting' \subseteq Waiting \cup Made(c), c \notin Waiting'
    PROVE  ExactInv'
  <1>1. phase \in Walks /\ phase' \in Walks /\ SoundInv /\ OnceInv
    BY DEF Walks, ExactInv
  <1>2. SoundInv'
    <2>1. Sound(c)
      BY DEF Sound, OfTree
    <2> QED BY <1>1, <2>1, SoundGrant
  <1>3. NamedDemands' = NamedDemands
    <2>1. NamedDemands' = NamedDemands \cup {d \in Made(c) : d.role = "root"}
      BY <1>1, NamedGrant
    <2>2. ~OfTree(c)
      BY DEF OfTree
    <2> QED BY <2>1, <2>2, MadeFields
  <1>4. SchemaInv'
    BY <1>3, FreeSchema
  <1>5. OnceInv'
    <2>1. (Waiting \cap Owners = {})'
      BY <1>1, OnceGrant
    <2> QED BY <2>1 DEF OnceInv
  <1> QED BY <1>1, <1>2, <1>4, <1>5, ExactStep

\* A trunk of the free list is granted.
LEMMA TakeTrunkExact ==
    ASSUME AdmissionInv, ExactInv, TakeTrunk
    PROVE  ExactInv'
  <1>1. phase = "freeing" /\ phase \in Walks /\ chain # None
    BY DEF TakeTrunk, Walks
  <1>2. chain \in Claims
    BY <1>1, WalkFacts
  <1> PICK c \in Claims : c = chain
    BY <1>2
  <1>3. /\ phase' = phase /\ Trunk(c) /\ Grantable(c.to) /\ Grant(c) /\ count' = count + 1
        /\ UNCHANGED image /\ Waiting = {c} /\ Waiting' = Made(c)
    BY TakeTrunkFacts
  <1>4. c \notin Made(c)
    <2>1. c \in Demands
      BY <1>1, <1>3 DEF AdmissionInv, ClaimsInv
    <2> QED BY <1>1, <1>3, <2>1, MadeIsNew
  <1> QED BY <1>1, <1>3, <1>4, FreeGrant DEF Trunk

\* A page that a trunk lists is granted.
LEMMA TakeListedExact ==
    ASSUME AdmissionInv, ExactInv, TakeListed
    PROVE  ExactInv'
  <1>1. phase = "freeing" /\ phase \in Walks /\ here # None
    BY DEF TakeListed, Listing, Walks
  <1>2. here \in Claims /\ cell \in Nat
    BY <1>1, WalkFacts
  <1> PICK h \in Claims : h = here
    BY <1>2
  <1> PICK n \in Nat : n = cell + 1
    BY <1>2
  <1> PICK c : c = ListedClaim(h, n)
    OBVIOUS
  <1>3. /\ phase' = phase /\ c \in Claims /\ c.role = "free"
        /\ Grantable(c.to) /\ Grant(c) /\ count' = count + 1
        /\ UNCHANGED << replay, image, stack, trees, tree, here, chain, rows >>
        /\ Waiting' \subseteq Waiting /\ c \notin Waiting'
    BY TakeListedFacts
  <1>4. UNCHANGED image /\ Waiting' \subseteq Waiting \cup Made(c)
    BY <1>3
  <1> QED BY <1>1, <1>3, <1>4, FreeGrant

\* A trunk is left for the next one.
LEMMA LeaveTrunkExact ==
    ASSUME AdmissionInv, ExactInv, LeaveTrunk
    PROVE  ExactInv'
  <1>1. /\ phase = "freeing" /\ phase' = phase /\ phase \in Walks
        /\ UNCHANGED << replay, image, owner, stack, trees, tree, cell, rows, count >>
        /\ Waiting' = Waiting
    BY LeaveTrunkFacts
  <1>2. SoundInv /\ OnceInv
    BY DEF ExactInv
  <1>3. SoundInv' /\ NamedDemands' = NamedDemands
    BY <1>1, <1>2, SoundQuiet, NamedQuiet
  <1>4. SchemaInv'
    BY <1>1, <1>3, FreeSchema
  <1>5. OnceInv'
    <2>1. (Waiting \cap Owners = {})'
      BY <1>1, <1>2, SameOwners DEF OnceInv
    <2> QED BY <1>1, <2>1 DEF OnceInv
  <1> QED BY <1>1, <1>3, <1>4, <1>5, ExactStep

---------------------------------------------------------------------------
(* The verdicts *)

\* What coherence says, part by part.
LEMMA CoherentParts ==
    ASSUME NEW R
    PROVE  Coherent(R) <=>
             /\ OneToOne(R)
             /\ \A p \in 1..size : \E c \in R : c.to = p
             /\ \A c \in R : Sound(c)
             /\ SchemaFits({c \in R : c.role = "root"} \ {SchemaClaim})
             /\ Cardinality({c \in R : c.role = "free"}) = Content(1).freed
             /\ MapFits([p \in 1..size |-> CHOOSE c \in R : c.to = p])
  <1>1. /\ {c \in R : c.role \in {"root"}} = {c \in R : c.role = "root"}
        /\ {c \in R : c.role \in {"free"}} = {c \in R : c.role = "free"}
    OBVIOUS
  <1>2. (\A c \in R : Sound(c)) <=>
          /\ \A c \in {d \in R : d.role \in {"root", "node"}} : NodeOf(Content(c.to), c.tree)
          /\ \A c \in {d \in R : d.role \in {"first", "later"}} : LinkFits(c)
    BY DEF Sound, OfTree
  <1> QED BY <1>1, <1>2 DEF Coherent, OneToOne

\* Coherence is about the image alone.
LEMMA CoherentKept ==
    ASSUME UNCHANGED image, NEW R
    PROVE  Coherent(R)' = Coherent(R)
  <1>1. size' = size /\ (\A p : Content(p)' = Content(p)) /\ MapPages' = MapPages
    BY ImageKept DEF image
  <1>2. \A c : /\ NodeOf(Content(c.to), c.tree)' = NodeOf(Content(c.to), c.tree)
               /\ LinkFits(c)' = LinkFits(c)
    BY <1>1 DEF NodeOf, LinkFits
  <1>3. \A f : MapFits(f)' = MapFits(f)
    BY <1>1 DEF MapFits, MapOf, ParentOf
  <1> PICK f : f = [p \in 1..size |-> CHOOSE c \in R : c.to = p]
    OBVIOUS
  <1>4. f = [p \in 1..size |-> CHOOSE c \in R : c.to = p]'
    BY <1>1
  <1>5. MapFits([p \in 1..size |-> CHOOSE c \in R : c.to = p])' = MapFits(f)
    BY <1>1, <1>4 DEF MapFits, MapOf, ParentOf
  <1>6. \A S : SchemaFits(S)' = SchemaFits(S)
    BY SchemaFitsKept
  <1>7. SchemaClaim' = SchemaClaim
    BY DEF SchemaClaim, Claim
  <1> QED BY <1>1, <1>2, <1>5, <1>6, <1>7 DEF Coherent

\* So the reference says the same as long as the image stands.
LEMMA VerdictKept ==
    ASSUME UNCHANGED image
    PROVE  (Whole /\ Coherent(Reachable))' = (Whole /\ Coherent(Reachable))
  <1> PICK R : R = Reachable
    OBVIOUS
  <1>1. Reachable' = R /\ Whole' = Whole
    BY ReachableKept, ImageKept
  <1>2. Coherent(R)' = Coherent(R)
    BY CoherentKept
  <1> QED BY <1>1, <1>2 DEF Coherent

\* Nothing is decided before the walk.
LEMMA EarlyExact ==
    ASSUME phase' \in Early
    PROVE  ExactInv'
  BY DEF Early, Walks, ExactInv, SoundInv, SchemaInv, OnceInv, VerdictInv

\* A limit says nothing of the image.
LEMMA LimitExact ==
    ASSUME phase' = "Limit"
    PROVE  ExactInv'
  BY DEF Walks, ExactInv, SoundInv, SchemaInv, OnceInv, VerdictInv

\* A refusal of an image that is not coherent.
LEMMA RefusedExact ==
    ASSUME NEW reason \in {"Corrupt", "Unsupported"}, Refuse(reason),
           ~(Whole /\ Coherent(Reachable))
    PROVE  ExactInv'
  <1>1. UNCHANGED image /\ phase' = reason
    BY DEF Refuse
  <1>2. SoundInv' /\ SchemaInv' /\ OnceInv'
    BY <1>1 DEF Walks, SoundInv, SchemaInv, OnceInv
  <1>3. VerdictInv'
    BY <1>1, VerdictKept DEF VerdictInv
  <1> QED BY <1>2, <1>3 DEF ExactInv

\* In a coherent image what waits can be granted.
LEMMA WaitingFits ==
    ASSUME AdmissionInv, ExactInv, phase \in Walks, Coherent(Reachable), NEW c \in Waiting
    PROVE  Grantable(c.to) /\ Sound(c)
  <1>1. /\ OwnersFit /\ Owners \subseteq Reachable /\ c \in Reachable
        /\ Waiting \cap Owners = {}
    BY DEF AdmissionInv, ClaimsInv, ExactInv, OnceInv
  <1>2. OneToOne(Reachable) /\ Sound(c)
    BY <1>1, CoherentParts
  <1>3. ASSUME owner[c.to] # None
        PROVE  FALSE
    <2>1. c.to \in 1..size
      BY <1>1, <1>2 DEF OneToOne
    <2>2. owner[c.to] \in Owners /\ owner[c.to].to = c.to
      BY <1>1, <1>3, <2>1 DEF Owners, OwnersFit
    <2>3. owner[c.to] = c
      BY <1>1, <1>2, <2>2 DEF OneToOne
    <2> QED BY <1>1, <2>2, <2>3
  <1> QED BY <1>1, <1>2, <1>3 DEF Grantable, OneToOne

\* A part of the image is missing.
LEMMA RefuseImageExact ==
    ASSUME AdmissionInv, ExactInv, RefuseImage
    PROVE  ExactInv'
  BY RefusedExact DEF RefuseImage

\* A node that cannot be granted: the image is not coherent.
LEMMA RefuseNodeExact ==
    ASSUME AdmissionInv, ExactInv, RefuseNode
    PROVE  ExactInv'
  <1>1. phase = "walking" /\ phase \in Walks /\ stack # <<>>
    BY DEF RefuseNode, Walks
  <1>2. PlaceInv /\ stack \in Seq(Claims)
    BY <1>1, WalkFacts
  <1>3. Top \in Stacked
    <2>1. Len(stack) \in DOMAIN stack
      BY <1>1, <1>2
    <2> QED BY <2>1 DEF Top, Stacked, Elements
  <1>4. Top \in Waiting /\ OfTree(Top)
    BY <1>1, <1>2, <1>3 DEF PlaceInv, Waiting
  <1>5. CASE Top.level > MaxDepth
    BY <1>5, LimitExact DEF RefuseNode, Refuse
  <1>6. CASE ~(Top.level > MaxDepth)
    <2>1. ~(Grantable(Top.to) /\ NodeOf(Content(Top.to), Top.tree)) /\ Refuse("Corrupt")
      BY <1>6 DEF RefuseNode
    <2> PICK c : c = Top
      OBVIOUS
    <2>2. ~Coherent(Reachable)
      <3> SUFFICES ASSUME Coherent(Reachable)
                   PROVE  FALSE
        OBVIOUS
      <3>1. c \in Waiting /\ OfTree(c)
        BY <1>4
      <3>2. Grantable(c.to) /\ Sound(c)
        BY <1>1, <3>1, WaitingFits
      <3> QED BY <2>1, <3>1, <3>2 DEF Sound
    <2> QED BY <2>1, <2>2, RefusedExact
  <1> QED BY <1>5, <1>6

\* An overflow page that cannot be granted: the image is not coherent.
LEMMA RefuseLinkExact ==
    ASSUME AdmissionInv, ExactInv, RefuseLink
    PROVE  ExactInv'
  <1>1. /\ phase = "walking" /\ phase \in Walks /\ chain # None
        /\ ~(Grantable(chain.to) /\ LinkFits(chain)) /\ Refuse("Corrupt")
    BY DEF RefuseLink, Walks
  <1>2. chain \in Waiting /\ OfChain(chain)
    BY <1>1, WalkFacts DEF PlaceInv, Waiting, Chained
  <1> PICK c : c = chain
    OBVIOUS
  <1>3. ~Coherent(Reachable)
    <2> SUFFICES ASSUME Coherent(Reachable)
                 PROVE  FALSE
      OBVIOUS
    <2>1. c \in Waiting /\ c.role \in {"first", "later"}
      BY <1>2 DEF OfChain
    <2>2. Grantable(c.to) /\ Sound(c)
      BY <1>1, <2>1, WaitingFits
    <2> QED BY <1>1, <2>1, <2>2 DEF Sound
  <1> QED BY <1>1, <1>3, RefusedExact

\* When the tree of the schema was read, no tree is named anywhere but in what
\* was found, unless a tree without a name was.
LEMMA NamedIsFound ==
    ASSUME AdmissionInv, ExactInv, TreeDone, tree = None, NamesFit(Found)
    PROVE  {c \in Reachable : c.role = "root"} \ {SchemaClaim} \subseteq Found
  <1>1. /\ phase = "walking" /\ phase \in Walks /\ here = None /\ Stacked = {} /\ Remaining = {}
    BY DEF TreeDone, Walks, Remaining, Stacked, Elements
  <1>2. /\ TypeOK /\ size > 0 /\ Whole /\ chain = None
    BY <1>1, WalkFacts DEF PlaceInv
  <1>3. Waiting = Found \cup FreeRoot
    BY <1>1, <1>2 DEF Waiting, Chained
  <1>4. /\ \A c \in Demands : Granted(c) \/ c \in Waiting
        /\ NamedDemands = Found /\ \A c \in Found : c.role = "root" /\ c.at > 0 /\ c.tree # None
    BY <1>1, SchemaRead, ExactFacts DEF AdmissionInv, ClaimsInv, NamesFit
  <1>5. /\ \A c \in Roots : c.by = 0 /\ c.role \in {"root", "free", "map"} /\ (c.role = "root" => c = SchemaClaim)
        /\ SchemaClaim.by = 0 /\ SchemaClaim.at = 0 /\ SchemaClaim.role = "root"
        /\ \A c \in FreeRoot : c.role = "free" /\ ~OfTree(c)
    BY RootFields, FreeRootRole
  <1>6. \A c \in Demands : OfTree(c) /\ c \notin Found => Granted(c)
    BY <1>3, <1>4, <1>5
  <1> DEFINE T == {c \in Claims : /\ OfTree(c) /\ c.tree = None => Granted(c)
                                  /\ c.role = "root" /\ c # SchemaClaim => c \in Found}
  <1>7. Roots \subseteq T
    <2>1. Roots \subseteq Claims /\ Roots \subseteq Demands
      BY <1>2, LeadsTo DEF Demands
    <2>2. \A c \in Roots : OfTree(c) => c = SchemaClaim
      BY <1>5 DEF OfTree
    <2>3. SchemaClaim \notin Found
      BY <1>4, <1>5
    <2>4. \A c \in Roots : OfTree(c) => Granted(c)
      BY <1>6, <2>1, <2>2, <2>3
    <2> QED BY <1>5, <2>1, <2>4
  <1>8. Closed(T)
    <2> SUFFICES ASSUME NEW c \in T, c.to \in 1..size, NEW d \in Made(c)
                 PROVE  d \in T
      BY DEF Closed
    <2>1. d \in Claims
      BY <1>2, LeadsTo DEF Closed
    <2>2. /\ d.by = c.to /\ (d.role = "node" => d.tree = c.tree)
          /\ (d.role = "root" => OfTree(c) /\ c.tree = None) /\ (OfTree(d) => OfTree(c))
      BY MadeFields
    <2>3. d # SchemaClaim
      BY <1>5, <2>2
    <2>4. ASSUME OfTree(c), c.tree = None
          PROVE  d \in Demands
      <3>1. Granted(c)
        BY <2>4
      <3>2. c \in Owners
        BY <3>1 DEF Granted, Owners
      <3> QED BY <3>2 DEF Demands
    <2>5. ASSUME d.role = "root"
          PROVE  d \in Found
      BY <1>4, <2>2, <2>3, <2>4, <2>5 DEF NamedDemands
    <2>6. ASSUME OfTree(d), d.tree = None
          PROVE  Granted(d)
      <3>1. d.role # "root"
        BY <1>4, <2>5, <2>6
      <3>2. d.role = "node"
        BY <2>6, <3>1 DEF OfTree
      <3>3. d \in Demands
        BY <2>2, <2>4, <2>6, <3>2
      <3>4. d \notin Found
        BY <1>4, <2>6
      <3> QED BY <1>6, <2>6, <3>3, <3>4
    <2> QED BY <2>1, <2>5, <2>6
  <1>9. Reachable \subseteq T
    <2>1. T \in SUBSET Claims
      OBVIOUS
    <2> HIDE DEF T
    <2> QED BY <1>2, <1>7, <1>8, <2>1, LeadsTo
  <1> QED BY <1>9

\* A schema that does not fit: no page of the image would complete it.
LEMMA RefuseTreeExact ==
    ASSUME AdmissionInv, ExactInv, RefuseTree
    PROVE  ExactInv'
  <1>1. TreeDone /\ ~TreeFits /\ phase = "walking" /\ phase \in Walks
    BY DEF RefuseTree, TreeDone, Walks
  <1>2. CASE tree # None
    BY <1>2, LimitExact DEF RefuseTree, Refuse
  <1>3. CASE tree = None
    <2>1. Refuse("Corrupt") \/ Refuse("Unsupported")
      BY <1>3 DEF RefuseTree
    <2>2. ~SchemaFits(Found)
      BY <1>1, <1>3 DEF TreeFits
    <2> DEFINE N == {c \in Reachable : c.role = "root"} \ {SchemaClaim}
    <2>3. ~Coherent(Reachable)
      <3> SUFFICES ASSUME Coherent(Reachable)
                   PROVE  FALSE
        OBVIOUS
      <3>1. SchemaFits(N)
        BY CoherentParts
      <3>2. Found \subseteq N
        <4>1. Found \subseteq NamedDemands /\ Found \subseteq Reachable
          BY <1>1, SchemaRead DEF AdmissionInv, ClaimsInv, Waiting
        <4> QED BY <4>1 DEF NamedDemands
      <3> HIDE DEF N
      <3>3. RootsFit(Found) /\ NamesFit(Found)
        BY <3>1, <3>2 DEF SchemaFits, RootsFit, NamesFit
      <3>4. N \subseteq Found
        BY <1>1, <1>3, <3>3, NamedIsFound DEF N
      <3>5. N = Found
        BY <3>2, <3>4
      <3> QED BY <2>2, <3>1, <3>5
    <2> QED BY <2>1, <2>3, RefusedExact
  <1> QED BY <1>2, <1>3

\* When the free list was read, the pages granted are what the roots lead to.
LEMMA AllReached ==
    ASSUME AdmissionInv, ListDone
    PROVE  Owners = Demands /\ Owners = Reachable
  <1>1. phase = "freeing" /\ phase \in Walks /\ here = None /\ chain = None
    BY DEF ListDone, Walks
  <1>2. TypeOK /\ size > 0 /\ Whole /\ Waiting = {}
    BY <1>1, FreeFacts DEF AdmissionInv, Chained, Remaining
  <1>3. /\ Owners \subseteq Demands /\ Owners \subseteq Reachable
        /\ \A c \in Demands : Granted(c)
    BY <1>1, <1>2 DEF AdmissionInv, ClaimsInv
  <1>4. Owners = Demands
    BY <1>3 DEF Granted, Owners
  <1>5. Roots \subseteq Owners /\ Closed(Owners)
    <2>1. Roots \subseteq Demands /\ \A c \in Owners : Made(c) \subseteq Demands
      BY DEF Demands
    <2> QED BY <1>4, <2>1 DEF Closed
  <1>6. Owners \in SUBSET Claims
    BY <1>3 DEF Reachable
  <1>7. Reachable \subseteq Owners
    BY <1>2, <1>5, <1>6, LeadsTo
  <1> QED BY <1>3, <1>4, <1>7

\* The pointer maps are compared with the owners of the pages alone.
LEMMA SameEntries ==
    ASSUME size \in Nat, NEW f, NEW g, \A p \in 1..size : f[p] = g[p]
    PROVE  MapFits(f) <=> MapFits(g)
  <1>1. \A p \in 2..size \ MapPages : f[p] = g[p]
    OBVIOUS
  <1> QED BY <1>1 DEF MapFits

\* So what is left to look at decides whether they are coherent.
LEMMA LastLook ==
    ASSUME AdmissionInv, ExactInv, ListDone
    PROVE  Coherent(Reachable) <=> AllOwned /\ MapFits(owner)
  <1>1. phase = "freeing" /\ phase \in Walks
    BY DEF ListDone, Walks
  <1>2. /\ OwnersFit /\ size \in Nat
        /\ (\A c \in Owners : Sound(c)) /\ count = Cardinality(FreeOwners)
        /\ SchemaFits(NamedDemands) /\ OneToOne(Owners)
    BY <1>1, OwnersFinite DEF AdmissionInv, TypeOK, ClaimsInv, ExactInv, SoundInv, SchemaInv
  <1>3. Owners = Demands /\ Owners = Reachable
    BY AllReached
  <1>4. FreeOwners = {c \in Owners : c.role = "free"}
    BY DEF FreeOwners
  <1>5. NamedDemands = {c \in Owners : c.role = "root"} \ {SchemaClaim}
    BY <1>3 DEF NamedDemands
  <1>6. (\A p \in 1..size : \E c \in Owners : c.to = p) <=> \A p \in 1..size : owner[p] # None
    <2>1. \A c \in Owners : owner[c.to] = c /\ c.to \in 1..size /\ owner[c.to] # None
      BY <1>2 DEF Owners, OwnersFit
    <2>2. \A p \in 1..size : owner[p] # None => owner[p] \in Owners /\ owner[p].to = p
      BY <1>2 DEF Owners, OwnersFit
    <2> QED BY <2>1, <2>2
  <1>7. ASSUME \A p \in 1..size : owner[p] # None
        PROVE  MapFits([p \in 1..size |-> CHOOSE c \in Owners : c.to = p]) <=> MapFits(owner)
    <2>1. \A p \in 1..size : owner[p] \in Owners /\ owner[p].to = p
      BY <1>2, <1>7 DEF Owners, OwnersFit
    <2> DEFINE f == [p \in 1..size |-> CHOOSE c \in Owners : c.to = p]
    <2>2. ASSUME NEW p \in 1..size
          PROVE  f[p] = owner[p]
      <3>1. f[p] = CHOOSE c \in Owners : c.to = p
        OBVIOUS
      <3>2. f[p] \in Owners /\ f[p].to = p
        BY <2>1, <3>1
      <3> QED BY <1>2, <2>1, <3>2 DEF OneToOne
    <2> HIDE DEF f
    <2>3. MapFits(f) <=> MapFits(owner)
      BY <1>2, <2>2, SameEntries
    <2> QED BY <2>3 DEF f
  <1>8. Coherent(Owners) <=> AllOwned /\ MapFits(owner)
    BY <1>2, <1>4, <1>5, <1>6, <1>7, CoherentParts DEF AllOwned
  <1> QED BY <1>3, <1>8

\* The image is admitted: all that the roots lead to is granted and fits.
LEMMA AdmitExact ==
    ASSUME AdmissionInv, ExactInv, Admit
    PROVE  ExactInv'
  <1>1. ListDone /\ AllOwned /\ MapFits(owner) /\ phase' = "admitted" /\ UNCHANGED image
    BY DEF Admit
  <1>2. Whole /\ Coherent(Reachable)
    <2>1. phase \in Walks
      BY <1>1 DEF ListDone, Walks
    <2> QED BY <1>1, <2>1, LastLook, WalkFacts
  <1>3. SoundInv' /\ SchemaInv' /\ OnceInv'
    BY <1>1 DEF Walks, SoundInv, SchemaInv, OnceInv
  <1>4. VerdictInv'
    BY <1>1, <1>2, VerdictKept DEF VerdictInv
  <1> QED BY <1>3, <1>4 DEF ExactInv

\* In a coherent image the header counts the free pages.
LEMMA FreeFits ==
    ASSUME AdmissionInv, ExactInv, phase \in Walks, Coherent(Reachable)
    PROVE  count <= Content(1).freed /\ Content(1).freed <= size
  <1> DEFINE F == {c \in Reachable : c.role = "free"}
  <1>1. size \in Nat /\ OneToOne(Reachable) /\ Cardinality(F) = Content(1).freed
    <2>1. size \in Nat
      BY DEF AdmissionInv, TypeOK
    <2>2. OneToOne(Reachable) /\ Cardinality(F) = Content(1).freed
      BY CoherentParts
    <2> QED BY <2>1, <2>2
  <1>2. IsFiniteSet(Reachable) /\ Cardinality(Reachable) \in Nat /\ Cardinality(Reachable) <= size
    BY <1>1, NoMoreThanPages
  <1>3. F \in SUBSET Reachable
    OBVIOUS
  <1>4. FreeOwners \in SUBSET F
    BY DEF FreeOwners, AdmissionInv, ClaimsInv
  <1> HIDE DEF F
  <1>5. IsFiniteSet(F) /\ Cardinality(F) <= Cardinality(Reachable) /\ Cardinality(F) \in Nat
    BY <1>2, <1>3, FS_Subset, FS_CardinalityType
  <1>6. Cardinality(FreeOwners) <= Cardinality(F)
    BY <1>4, <1>5, FS_Subset
  <1>7. count = Cardinality(FreeOwners)
    BY DEF ExactInv, SoundInv
  <1> QED BY <1>1, <1>2, <1>5, <1>6, <1>7

\* The free list or the pointer maps do not fit: the image is not coherent.
LEMMA RefusePagesExact ==
    ASSUME AdmissionInv, ExactInv, RefusePages
    PROVE  ExactInv'
  <1>1. Refuse("Corrupt")
    BY DEF RefusePages
  <1>2. phase \in Walks
    BY DEF RefusePages, TreeDone, Listing, ListDone, Walks
  <1>3. ~Coherent(Reachable)
    <2> SUFFICES ASSUME Coherent(Reachable)
                 PROVE  FALSE
      OBVIOUS
    <2>1. /\ Content(1).freed \in Nat /\ size \in Nat /\ count \in Nat
          /\ count <= Content(1).freed /\ Content(1).freed <= size
      <3>1. TypeOK /\ Whole /\ size > 0
        BY <1>2, WalkFacts
      <3>2. 1 \in 1..size /\ size \in Nat /\ count \in Nat
        BY <3>1 DEF TypeOK
      <3>3. Content(1) \in Pages
        BY <3>1, <3>2, ContentType
      <3> QED BY <1>2, <3>2, <3>3, PageParts, FreeFits
    <2>2. CASE Content(1).freed > size
      BY <2>1, <2>2
    <2>3. CASE phase = "freeing" /\ chain # None /\ ~Grantable(chain.to)
      <3> PICK c : c = chain
        OBVIOUS
      <3>1. c \in Waiting
        BY <2>3 DEF Waiting, Chained
      <3> QED BY <1>2, <2>3, <3>1, WaitingFits
    <2>4. CASE /\ Listing /\ cell < Len(Content(here.to).listed)
               /\ ~Grantable(Content(here.to).listed[cell + 1])
      <3>1. /\ phase = "freeing" /\ here # None
        BY <2>4 DEF Listing
      <3>2. /\ TypeOK /\ Whole /\ here \in Claims /\ here.to \in 1..size /\ Trunk(here) /\ cell \in Nat
        BY <3>1, FreeFacts
      <3> PICK h \in Claims : h = here
        BY <3>2
      <3> PICK n \in Nat : n = cell + 1
        BY <3>2
      <3> PICK c : c = ListedClaim(h, n)
        OBVIOUS
      <3>3. n \in DOMAIN Content(h.to).listed
        BY <2>4, <3>2, TrunkSlots
      <3>4. c \in Made(h) /\ c.at = n
        BY <3>2, <3>3, TrunkSlots, SlotAt
      <3>5. c \in Remaining
        BY <3>1, <3>2, <3>4 DEF Remaining
      <3>6. Grantable(c.to)
        BY <1>2, <3>5, WaitingFits DEF Waiting
      <3>7. c.to = Content(h.to).listed[n]
        BY DEF ListedClaim, Claim
      <3> QED BY <2>4, <3>6, <3>7
    <2>5. CASE count > Content(1).freed
      BY <2>1, <2>5
    <2>6. CASE ListDone /\ ~(AllOwned /\ MapFits(owner))
      BY <2>6, LastLook
    <2> QED BY <2>2, <2>3, <2>4, <2>5, <2>6 DEF RefusePages
  <1> QED BY <1>1, <1>3, RefusedExact

\* Stuttering.
LEMMA UnchangedExact ==
    ASSUME ExactInv, UNCHANGED vars
    PROVE  ExactInv'
  <1>1. /\ UNCHANGED << phase, stack, trees, tree, here, cell, chain, rows, count >>
        /\ UNCHANGED image /\ UNCHANGED << image, owner >>
    BY DEF vars, image, walk
  <1>2. Stacked' = Stacked /\ Found' = Found /\ Chained' = Chained
    BY <1>1 DEF Stacked, Elements, Found, Chained
  <1>3. FreeRoot' = FreeRoot /\ \A c : Made(c)' = Made(c)
    BY <1>1, ImageKept
  <1>4. Remaining' = Remaining
    BY <1>1, <1>3 DEF Remaining
  <1>5. Waiting' = Waiting
    BY <1>1, <1>2, <1>3, <1>4 DEF Waiting
  <1>6. Owners' = Owners /\ NamedDemands' = NamedDemands
    BY <1>1, SameOwners, NamedQuiet
  <1>7. SoundInv'
    <2>1. CASE phase \in Walks
      BY <1>1, <2>1, SoundQuiet DEF ExactInv
    <2>2. CASE phase \notin Walks
      BY <1>1, <2>2 DEF SoundInv, Walks
    <2> QED BY <2>1, <2>2
  <1>8. SchemaInv'
    <2> PICK R : R = NamedDemands
      OBVIOUS
    <2>1. SchemaFits(R)' = SchemaFits(NamedDemands) /\ NamedDemands' = R
      BY <1>6, SchemaFitsKept
    <2>2. SchemaFits(NamedDemands)' <=> SchemaFits(NamedDemands)
      BY <2>1 DEF SchemaFits, RootsFit, NamesFit, Missing
    <2> QED BY <1>1, <1>2, <1>4, <1>6, <2>2 DEF ExactInv, SchemaInv
  <1>9. OnceInv'
    BY <1>1, <1>2, <1>4, <1>5, <1>6 DEF ExactInv, OnceInv, Walks, Distinct
  <1>10. VerdictInv'
    <2>1. Whole' = Whole
      BY <1>1, ImageKept
    <2> PICK R : R = Reachable
      OBVIOUS
    <2>2. Reachable' = R /\ Coherent(R)' = Coherent(R)
      BY <1>1, ReachableKept, CoherentKept
    <2>3. Coherent(Reachable)' <=> Coherent(Reachable)
      BY <2>2 DEF Coherent
    <2> QED BY <1>1, <2>1, <2>3 DEF ExactInv, VerdictInv
  <1> QED BY <1>7, <1>8, <1>9, <1>10 DEF ExactInv

\* The replay gives no verdict.
LEMMA ReplayExact ==
    ASSUME TakeFrame \/ EndJournal \/ PlaceFrame \/ FinishReplay
    PROVE  ExactInv'
  <1>1. phase' \in Early
    BY DEF TakeFrame, EndJournal, PlaceFrame, FinishReplay, Early
  <1> QED BY <1>1, EarlyExact

\* What the limits refuse.
LEMMA LimitsExact ==
    ASSUME RefuseFrame \/ RefuseCell \/ RunOut
    PROVE  ExactInv'
  <1>1. phase' = "Limit"
    BY DEF RefuseFrame, RefuseCell, RunOut, Refuse
  <1> QED BY <1>1, LimitExact

\* Every step keeps the exact invariant.
LEMMA ExactNext ==
    ASSUME AdmissionInv, ExactInv, [Next]_vars
    PROVE  ExactInv'
  <1>1. CASE Replaying
    BY <1>1, ReplayExact, LimitsExact, BeginWalkExact, RefuseImageExact DEF Replaying
  <1>2. CASE Walking
    BY <1>2, EnterExact, RefuseNodeExact, ReadCellExact, LimitsExact, FollowExact,
       RefuseLinkExact, LeaveExact, NextTreeExact, RefuseTreeExact DEF Walking
  <1>3. CASE Freeing
    BY <1>3, BeginFreeListExact, TakeTrunkExact, TakeListedExact, LeaveTrunkExact, AdmitExact,
       RefusePagesExact DEF Freeing
  <1>4. CASE RunOut
    BY <1>4, LimitsExact
  <1>5. CASE UNCHANGED vars
    BY <1>5, UnchangedExact
  <1> QED BY <1>1, <1>2, <1>3, <1>4, <1>5 DEF Next

---------------------------------------------------------------------------
(* The walk ends *)

\* The parts of the work at two moments.
LEMMA LessWork ==
    ASSUME NEW a, NEW b, NEW a1, NEW a2, NEW a3, NEW a4, NEW a5,
           NEW b1, NEW b2, NEW b3, NEW b4, NEW b5,
           a = <<a1, a2, a3, a4, a5>>, b = <<b1, b2, b3, b4, b5>>,
           \/ a1 \in Nat /\ a1 < b1
           \/ a1 = b1 /\ a2 \in Nat /\ a2 < b2
           \/ a1 = b1 /\ a2 = b2 /\ a3 \in Nat /\ a3 < b3
           \/ a1 = b1 /\ a2 = b2 /\ a3 = b3 /\ a4 \in Nat /\ a4 < b4
           \/ a1 = b1 /\ a2 = b2 /\ a3 = b3 /\ a4 = b4 /\ a5 \in Nat /\ a5 < b5
    PROVE  Less(a, b)
  <1>1. /\ DOMAIN b = 1..5
        /\ a[1] = a1 /\ a[2] = a2 /\ a[3] = a3 /\ a[4] = a4 /\ a[5] = a5
        /\ b[1] = b1 /\ b[2] = b2 /\ b[3] = b3 /\ b[4] = b4 /\ b[5] = b5
    OBVIOUS
  <1>2. CASE a1 \in Nat /\ a1 < b1
    BY <1>1, <1>2, 1 \in 1..5, \A j \in 1..1 - 1 : FALSE DEF Less
  <1>3. CASE a1 = b1 /\ a2 \in Nat /\ a2 < b2
    <2>1. \A j \in 1..2 - 1 : a[j] = b[j]
      BY <1>1, <1>3
    <2> QED BY <1>1, <1>3, <2>1, 2 \in 1..5 DEF Less
  <1>4. CASE a1 = b1 /\ a2 = b2 /\ a3 \in Nat /\ a3 < b3
    <2>1. \A j \in 1..3 - 1 : a[j] = b[j]
      BY <1>1, <1>4
    <2> QED BY <1>1, <1>4, <2>1, 3 \in 1..5 DEF Less
  <1>5. CASE a1 = b1 /\ a2 = b2 /\ a3 = b3 /\ a4 \in Nat /\ a4 < b4
    <2>1. \A j \in 1..4 - 1 : a[j] = b[j]
      BY <1>1, <1>5
    <2> QED BY <1>1, <1>5, <2>1, 4 \in 1..5 DEF Less
  <1>6. CASE a1 = b1 /\ a2 = b2 /\ a3 = b3 /\ a4 = b4 /\ a5 \in Nat /\ a5 < b5
    <2>1. \A j \in 1..5 - 1 : a[j] = b[j]
      BY <1>1, <1>6
    <2> QED BY <1>1, <1>6, <2>1, 5 \in 1..5 DEF Less
  <1> QED BY <1>2, <1>3, <1>4, <1>5, <1>6

\* The work before and after a step.
LEMMA WorkLessens ==
    ASSUME \/ StagesLeft' \in Nat /\ StagesLeft' < StagesLeft
           \/ StagesLeft' = StagesLeft /\ FramesLeft' \in Nat /\ FramesLeft' < FramesLeft
           \/ /\ StagesLeft' = StagesLeft /\ FramesLeft' = FramesLeft
              /\ PagesLeft' \in Nat /\ PagesLeft' < PagesLeft
           \/ /\ StagesLeft' = StagesLeft /\ FramesLeft' = FramesLeft /\ PagesLeft' = PagesLeft
              /\ SlotsLeft' \in Nat /\ SlotsLeft' < SlotsLeft
           \/ /\ StagesLeft' = StagesLeft /\ FramesLeft' = FramesLeft /\ PagesLeft' = PagesLeft
              /\ SlotsLeft' = SlotsLeft /\ Len(trees') \in Nat /\ Len(trees') < Len(trees)
    PROVE  Less(Work', Work)
  <1> PICK a, a1, a2, a3, a4, a5 :
          /\ a = Work' /\ a1 = StagesLeft' /\ a2 = FramesLeft' /\ a3 = PagesLeft'
          /\ a4 = SlotsLeft' /\ a5 = Len(trees')
    OBVIOUS
  <1> PICK b, b1, b2, b3, b4, b5 :
          /\ b = Work /\ b1 = StagesLeft /\ b2 = FramesLeft /\ b3 = PagesLeft
          /\ b4 = SlotsLeft /\ b5 = Len(trees)
    OBVIOUS
  <1>1. a = <<a1, a2, a3, a4, a5>> /\ b = <<b1, b2, b3, b4, b5>>
    BY DEF Work
  <1>2. Less(a, b)
    BY <1>1, LessWork
  <1> QED BY <1>2

\* The stages come in one order, and a verdict ends them.
LEMMA Stages ==
    /\ phase = "replaying" => StagesLeft = 5
    /\ phase = "placing" => StagesLeft = 4 /\ FramesLeft = commit - frame
    /\ phase = "replaying" => FramesLeft = Len(input.frames) - frame
    /\ phase = "replayed" => StagesLeft = 3
    /\ phase = "walking" => StagesLeft = 2 /\ FramesLeft = 0
    /\ phase = "freeing" => StagesLeft = 1 /\ FramesLeft = 0
    /\ phase \in Verdicts => StagesLeft = 0
  BY DEF StagesLeft, FramesLeft, Verdicts

LEMMA RefusalEnds ==
    ASSUME AdmissionInv, NEW reason \in Verdicts, phase' = reason, phase \notin Verdicts
    PROVE  Less(Work', Work)
  <1>1. StagesLeft' = 0
    BY DEF StagesLeft, Verdicts
  <1>2. phase \in {"replaying", "placing", "replayed", "walking", "freeing"}
    BY DEF AdmissionInv, TypeOK, Phases
  <1>3. StagesLeft \in Nat /\ StagesLeft > 0
    BY <1>2, Stages
  <1> QED BY <1>1, <1>3, WorkLessens

\* A page that is granted is one page less.
LEMMA GrantEnds ==
    ASSUME AdmissionInv, phase \in Walks, phase' = phase, UNCHANGED image,
           NEW c \in Claims, Grantable(c.to), Grant(c)
    PROVE  Less(Work', Work)
  <1>1. size' = size /\ size \in Nat /\ StagesLeft' = StagesLeft /\ FramesLeft' = FramesLeft
    BY Stages DEF Walks, image, AdmissionInv, TypeOK, StagesLeft, FramesLeft
  <1> DEFINE F == {p \in 1..size : owner[p] = None}
  <1>2. c.to \in F /\ c # None /\ F \in SUBSET (1..size)
    BY AbsentAssumption DEF Grantable
  <1>3. IsFiniteSet(F) /\ Cardinality(F) \in Nat
    <2>1. IsFiniteSet(1..size)
      BY <1>1, 1 \in Int, FS_Interval
    <2>2. IsFiniteSet(F)
      BY ONLY <2>1, <1>2, FS_Subset
    <2> QED BY ONLY <2>2, FS_CardinalityType
  <1>4. {p \in 1..size : owner'[p] = None} = F \ {c.to}
    <2>1. owner' = [owner EXCEPT ![c.to] = c] /\ DOMAIN owner = 1..MaxPage
      BY DEF Grant, AdmissionInv, TypeOK
    <2>2. \A p \in 1..size : p \in 1..MaxPage
      BY <1>1, AdmissionAssumption DEF AdmissionInv, TypeOK
    <2>3. \A p \in 1..size : owner'[p] = IF p = c.to THEN c ELSE owner[p]
      BY <2>1, <2>2
    <2> QED BY <1>2, <2>3
  <1> HIDE DEF F
  <1>5. Cardinality(F \ {c.to}) = Cardinality(F) - 1 /\ Cardinality(F \ {c.to}) \in Nat
    BY <1>2, <1>3, FS_RemoveElement, FS_CardinalityType
  <1>6. PagesLeft = Cardinality(F)
    BY DEF PagesLeft, F
  <1>7. PagesLeft' = Cardinality(F \ {c.to})
    BY <1>1, <1>4 DEF PagesLeft
  <1> QED BY <1>1, <1>3, <1>5, <1>6, <1>7, WorkLessens

\* A step that grants nothing leaves the pages.
LEMMA PagesStay ==
    ASSUME UNCHANGED << image, owner >>
    PROVE  PagesLeft' = PagesLeft
  BY DEF PagesLeft, image

LEMMA ReplayEnds ==
    ASSUME AdmissionInv, TakeFrame \/ EndJournal \/ PlaceFrame \/ FinishReplay \/ BeginWalk
    PROVE  Less(Work', Work)
  <1>1. /\ frame \in Nat /\ commit \in Nat /\ frame <= Len(input.frames)
        /\ Len(input.frames) \in Nat /\ phase = "placing" => frame <= commit
    BY InputParts DEF AdmissionInv, TypeOK, ReplayInv
  <1>2. CASE TakeFrame
    <2>1. /\ phase = "replaying" /\ phase' = phase /\ input' = input /\ frame' = frame + 1
          /\ frame < Len(input.frames)
      BY <1>2 DEF TakeFrame
    <2>2. /\ StagesLeft' = StagesLeft /\ FramesLeft = Len(input.frames) - frame
          /\ FramesLeft' = Len(input.frames) - (frame + 1)
      BY <2>1 DEF StagesLeft, FramesLeft
    <2>3. FramesLeft' \in Nat /\ FramesLeft' < FramesLeft
      BY <1>1, <2>1, <2>2
    <2> QED BY <2>2, <2>3, WorkLessens
  <1>3. CASE PlaceFrame
    <2>1. /\ phase = "placing" /\ phase' = phase /\ commit' = commit /\ frame' = frame + 1
          /\ frame < commit
      BY <1>3 DEF PlaceFrame
    <2>2. /\ StagesLeft' = StagesLeft /\ FramesLeft = commit - frame
          /\ FramesLeft' = commit - (frame + 1)
      BY <2>1 DEF StagesLeft, FramesLeft
    <2>3. FramesLeft' \in Nat /\ FramesLeft' < FramesLeft
      BY <1>1, <2>1, <2>2
    <2> QED BY <2>2, <2>3, WorkLessens
  <1>4. CASE EndJournal \/ FinishReplay \/ BeginWalk
    <2>1. \/ phase = "replaying" /\ phase' = "placing"
          \/ phase = "placing" /\ phase' = "replayed"
          \/ phase = "replayed" /\ phase' = "walking"
      BY <1>4 DEF EndJournal, FinishReplay, BeginWalk
    <2>2. StagesLeft' \in Nat /\ StagesLeft' < StagesLeft
      BY <2>1 DEF StagesLeft
    <2> QED BY <2>2, WorkLessens
  <1> QED BY <1>2, <1>3, <1>4

LEMMA EnterEnds ==
    ASSUME AdmissionInv, Enter
    PROVE  Less(Work', Work)
  <1>1. Top \in Claims
    BY DEF Enter, Top, AdmissionInv, TypeOK
  <1> PICK c \in Claims : c = Top
    BY <1>1
  <1> QED BY EnterFacts, GrantEnds

LEMMA FollowEnds ==
    ASSUME AdmissionInv, Follow
    PROVE  Less(Work', Work)
  <1> PICK c \in Claims : c = chain
    BY DEF Follow, AdmissionInv, TypeOK
  <1> QED BY FollowFacts, GrantEnds

LEMMA TakeTrunkEnds ==
    ASSUME AdmissionInv, TakeTrunk
    PROVE  Less(Work', Work)
  <1> PICK c \in Claims : c = chain
    BY DEF TakeTrunk, AdmissionInv, TypeOK
  <1> QED BY TakeTrunkFacts, GrantEnds

LEMMA TakeListedEnds ==
    ASSUME AdmissionInv, TakeListed
    PROVE  Less(Work', Work)
  <1> PICK h \in Claims : h = here
    BY DEF TakeListed, Listing, AdmissionInv, TypeOK
  <1> PICK n \in Nat : n = cell + 1
    BY DEF AdmissionInv, TypeOK
  <1> PICK c : c = ListedClaim(h, n)
    OBVIOUS
  <1> QED BY TakeListedFacts, GrantEnds

\* A slot of a node is read, or the node is left.
LEMMA ReadCellEnds ==
    ASSUME AdmissionInv, ReadCell
    PROVE  Less(Work', Work)
  <1> PICK h \in Claims : h = here
    BY DEF ReadCell, AtCell, Reading, AdmissionInv, TypeOK
  <1> PICK n \in Nat : n = cell + 1
    BY DEF AdmissionInv, TypeOK
  <1>1. /\ phase = "walking" /\ phase' = phase /\ cell' = n /\ h.to \in 1..size
        /\ UNCHANGED << replay, image, owner, here >>
        /\ n \in DOMAIN Content(h.to).cells
    BY ReadCellFacts
  <1>2. Content(h.to)' = Content(h.to) /\ h # None
    BY <1>1, AbsentAssumption DEF Content, image
  <1> PICK k : k = Len(Content(h.to).cells)
    OBVIOUS
  <1>3. k \in Nat /\ n <= k /\ cell \in Nat
    <2>1. Content(h.to).cells \in Seq(Cells)
      BY <1>1, WalkFacts, ContentType DEF Pages, Walks
    <2> QED BY <1>1, <2>1 DEF AdmissionInv, TypeOK
  <1>4. SlotsLeft = 1 + k - cell /\ SlotsLeft' = 1 + k - n
    BY <1>1, <1>2 DEF SlotsLeft
  <1>5. SlotsLeft' \in Nat /\ SlotsLeft' < SlotsLeft
    BY <1>3, <1>4
  <1>6. PagesLeft' = PagesLeft /\ StagesLeft' = StagesLeft /\ FramesLeft' = FramesLeft
    BY <1>1, PagesStay DEF StagesLeft, FramesLeft
  <1> QED BY <1>5, <1>6, WorkLessens

LEMMA LeaveEnds ==
    ASSUME AdmissionInv, Leave \/ LeaveTrunk
    PROVE  Less(Work', Work)
  <1>1. /\ here # None /\ here' = None /\ phase' = phase /\ phase \in Walks
        /\ UNCHANGED << replay, image, owner >>
        /\ cell = Len(IF phase = "walking" THEN Content(here.to).cells
                     ELSE Content(here.to).listed)
    BY DEF Leave, LeaveTrunk, Reading, Listing, Walks
  <1>2. SlotsLeft' = 0 /\ SlotsLeft = 1 + cell - cell /\ cell \in Nat
    BY <1>1 DEF SlotsLeft, AdmissionInv, TypeOK
  <1>3. SlotsLeft' \in Nat /\ SlotsLeft' < SlotsLeft
    BY <1>2
  <1>4. PagesLeft' = PagesLeft /\ StagesLeft' = StagesLeft /\ FramesLeft' = FramesLeft
    BY <1>1, PagesStay DEF StagesLeft, FramesLeft, Walks
  <1> QED BY <1>3, <1>4, WorkLessens

LEMMA NextTreeEnds ==
    ASSUME AdmissionInv, NextTree
    PROVE  Less(Work', Work)
  <1>1. /\ phase = "walking" /\ phase' = phase /\ here = None /\ here' = None
        /\ UNCHANGED << replay, image, owner >> /\ trees # <<>> /\ trees' = Tail(trees)
    BY DEF NextTree, TreeDone
  <1>2. /\ SlotsLeft' = SlotsLeft /\ PagesLeft' = PagesLeft
        /\ StagesLeft' = StagesLeft /\ FramesLeft' = FramesLeft
    BY <1>1, PagesStay DEF StagesLeft, FramesLeft, SlotsLeft
  <1>3. Len(trees') \in Nat /\ Len(trees') < Len(trees)
    BY <1>1 DEF AdmissionInv, TypeOK
  <1> QED BY <1>2, <1>3, WorkLessens

LEMMA VerdictEnds ==
    ASSUME AdmissionInv,
           \/ RefuseFrame \/ RefuseImage \/ RefuseNode \/ RefuseCell \/ RefuseLink \/ RefuseTree
           \/ RefusePages \/ RunOut \/ Admit
    PROVE  Less(Work', Work)
  <1>1. phase \notin Verdicts /\ \E reason \in Verdicts : phase' = reason
    <2>1. CASE RefuseFrame
      BY <2>1 DEF RefuseFrame, Refuse, Verdicts
    <2>2. CASE RefuseImage
      BY <2>2 DEF RefuseImage, Refuse, Verdicts
    <2>3. CASE RefuseNode
      BY <2>3 DEF RefuseNode, Refuse, Verdicts
    <2>4. CASE RefuseCell
      BY <2>4 DEF RefuseCell, AtCell, Reading, Refuse, Verdicts
    <2>5. CASE RefuseLink
      BY <2>5 DEF RefuseLink, Refuse, Verdicts
    <2>6. CASE RefuseTree
      BY <2>6 DEF RefuseTree, TreeDone, Refuse, Verdicts
    <2>7. CASE RefusePages
      BY <2>7 DEF RefusePages, TreeDone, Listing, ListDone, Refuse, Verdicts
    <2>8. CASE RunOut
      BY <2>8 DEF RunOut, Refuse, Verdicts
    <2>9. CASE Admit
      BY <2>9 DEF Admit, ListDone, Verdicts
    <2> QED BY <2>1, <2>2, <2>3, <2>4, <2>5, <2>6, <2>7, <2>8, <2>9
  <1> QED BY <1>1, RefusalEnds

LEMMA BeginFreeListEnds ==
    ASSUME AdmissionInv, BeginFreeList
    PROVE  Less(Work', Work)
  <1>1. phase = "walking" /\ phase' = "freeing"
    BY DEF BeginFreeList, TreeDone
  <1>2. StagesLeft' \in Nat /\ StagesLeft' < StagesLeft
    BY <1>1 DEF StagesLeft
  <1> QED BY <1>2, WorkLessens

LEMMA NextEnds ==
    ASSUME AdmissionInv, Next
    PROVE  Less(Work', Work)
  <1>1. CASE Replaying
    BY <1>1, ReplayEnds, VerdictEnds DEF Replaying
  <1>2. CASE Walking
    BY <1>2, EnterEnds, ReadCellEnds, FollowEnds, LeaveEnds, NextTreeEnds, VerdictEnds DEF Walking
  <1>3. CASE Freeing
    BY <1>3, BeginFreeListEnds, TakeTrunkEnds, TakeListedEnds, LeaveEnds, VerdictEnds DEF Freeing
  <1>4. CASE RunOut
    BY <1>4, VerdictEnds
  <1> QED BY <1>1, <1>2, <1>3, <1>4 DEF Next

---------------------------------------------------------------------------
(* There is always less work only so often *)

LEMMA Smallest ==
    ASSUME NEW S, S \subseteq Nat, S # {}
    PROVE  \E n \in S : \A m \in S : n <= m
  <1>1. PICK n \in S : \A m \in S : ~(<<m, n>> \in OpToRel(<, Nat))
    BY NatLessThanWellFounded, WFMin
  <1>2. \A m \in S : ~(m < n)
    BY <1>1 DEF OpToRel
  <1> QED BY <1>2

\* Part g[n] is the first that differs from work f[n] to work f[n + 1].
Lessens(f, g) ==
    \A n \in Nat :
        /\ g[n] \in 1..5 /\ f[n + 1][g[n]] \in Nat /\ f[n + 1][g[n]] < f[n][g[n]]
        /\ \A j \in 1..g[n] - 1 : f[n + 1][j] = f[n][j]

\* Parts that count more than part k stay from n on.
StaysFrom(g, n, k) == \A m \in Nat : m >= n => g[m] >= k

\* Then part k too stays from some time on: it can only become less.
LEMMA PartStays ==
    ASSUME NEW f, NEW g, Lessens(f, g), NEW k \in 1..5, NEW n \in Nat, StaysFrom(g, n, k)
    PROVE  \E m \in Nat : StaysFrom(g, m, k + 1)
  <1>0. \A m \in Nat : m >= n => g[m] \in Int /\ g[m] >= k
    BY DEF StaysFrom, Lessens
  <1> DEFINE T == {m \in Nat : m >= n /\ g[m] = k}
  <1>1. CASE T = {}
    <2>1. \A m \in Nat : m >= n => g[m] >= k + 1
      BY <1>1 DEF StaysFrom, Lessens
    <2> QED BY <2>1 DEF StaysFrom
  <1>2. CASE T # {}
    <2> DEFINE V == {f[m + 1][k] : m \in T}
    <2>1. V \subseteq Nat /\ V # {}
      BY <1>2 DEF Lessens
    <2> HIDE DEF V
    <2>2. PICK v \in V : \A w \in V : v <= w
      BY <2>1, Smallest
    <2>3. PICK a \in T : v = f[a + 1][k]
      BY DEF V
    <2> DEFINE U == {m \in T : m > a}
    <2>4. CASE U = {}
      <3>1. \A m \in Nat : m >= a + 1 => m >= n /\ m \notin T
        BY <2>4
      <3>2. \A m \in Nat : m >= a + 1 => g[m] >= k + 1
        BY <1>0, <3>1
      <3>3. a + 1 \in Nat
        OBVIOUS
      <3> QED BY <3>2, <3>3 DEF StaysFrom
    <2>5. CASE U # {}
      <3>1. U \subseteq Nat
        OBVIOUS
      <3>2. PICK b \in U : \A m \in U : b <= m
        BY <2>5, <3>1, Smallest
      <3>3. a \in Nat /\ a >= n /\ b \in Nat /\ b > a /\ g[b] = k /\ b \in T
        OBVIOUS
      <3> DEFINE d == b - (a + 1)
                 G == {i \in 0..d : f[a + 1 + i][k] = v}
      <3>4. d \in Nat /\ a + 1 + d = b
        BY <3>3
      <3>5. 0 \in G
        BY <2>3, <3>3, <3>4
      <3>6. \A i \in 1..d : i - 1 \in G => i \in G
        <4> SUFFICES ASSUME NEW i \in 1..d, f[a + 1 + (i - 1)][k] = v
                     PROVE  f[a + 1 + i][k] = v
          BY <3>4
        <4>1. /\ a + i \in Nat /\ a + i >= n /\ a + i < b /\ a + i > a
              /\ a + 1 + (i - 1) = a + i /\ a + 1 + i = a + i + 1
          BY <3>3, <3>4
        <4>2. a + i \notin T
          BY <3>2, <4>1
        <4>3. g[a + i] >= k + 1 /\ g[a + i] \in Int
          BY <1>0, <4>1, <4>2
        <4>4. \A j \in 1..g[a + i] - 1 : f[a + i + 1][j] = f[a + i][j]
          BY <4>1 DEF Lessens
        <4>5. k \in 1..g[a + i] - 1
          BY <4>3
        <4> QED BY <4>1, <4>4, <4>5
      <3> HIDE DEF G, d
      <3>7. d \in G
        BY <3>4, <3>5, <3>6, Upwards
      <3>8. f[b][k] = v
        BY <3>4, <3>7 DEF G
      <3>9. f[b + 1][k] < v /\ f[b + 1][k] \in Nat
        BY <3>3, <3>8 DEF Lessens
      <3>10. f[b + 1][k] \in V
        BY <3>3 DEF V
      <3> QED BY <2>1, <2>2, <3>9, <3>10
    <2> QED BY <2>4, <2>5
  <1> QED BY <1>1, <1>2

---------------------------------------------------------------------------
(* The theorems *)

LEMMA RefusalsKeep ==
    ASSUME AdmissionInv,
           \/ RefuseFrame \/ RefuseImage \/ RefuseNode \/ RefuseCell \/ RefuseLink \/ RefuseTree
           \/ RefusePages \/ RunOut
    PROVE  AdmissionInv'
  <1>1. \E reason \in {"Corrupt", "Limit", "Unsupported"} : Refuse(reason)
    <2>1. CASE RefuseFrame
      BY <2>1 DEF RefuseFrame
    <2>2. CASE RefuseImage
      BY <2>2 DEF RefuseImage
    <2>3. CASE RefuseNode
      BY <2>3 DEF RefuseNode
    <2>4. CASE RefuseCell
      BY <2>4 DEF RefuseCell
    <2>5. CASE RefuseLink
      BY <2>5 DEF RefuseLink
    <2>6. CASE RefuseTree
      BY <2>6 DEF RefuseTree
    <2>7. CASE RefusePages
      BY <2>7 DEF RefusePages
    <2>8. CASE RunOut
      BY <2>8 DEF RunOut
    <2> QED BY <2>1, <2>2, <2>3, <2>4, <2>5, <2>6, <2>7, <2>8
  <1> QED BY <1>1, RefusedKeeps

LEMMA UnchangedKeeps ==
    ASSUME AdmissionInv, UNCHANGED vars
    PROVE  AdmissionInv'
  <1>1. UNCHANGED << phase, frame, commit, input, source, size, owner, stack, trees, tree, here,
                     cell, chain, rows, count >>
    BY DEF vars, replay, image, walk
  <1>2. UNCHANGED image /\ UNCHANGED << image, owner >>
    BY <1>1 DEF image
  <1>3. TypeOK' /\ (size > 0)' /\ Untouched'
    BY <1>1 DEF AdmissionInv, TypeOK, Untouched
  <1>4. ReplayInv'
    BY <1>1 DEF AdmissionInv, ReplayInv, Taken, SizeAfter, LastCommit, CommittedPrefix, PlacedUpTo
  <1>5. Stacked' = Stacked /\ Found' = Found /\ Chained' = Chained
    BY <1>1 DEF Stacked, Elements, Found, Chained
  <1>6. Whole' = Whole /\ FreeRoot' = FreeRoot /\ \A c : Made(c)' = Made(c)
    BY <1>2, ImageKept
  <1>7. PlaceInv'
    BY <1>1, <1>5, <1>6 DEF AdmissionInv, PlaceInv, Granted, OfTree, OfChain, Trunk
  <1>8. Remaining' = Remaining
    BY <1>1, <1>6 DEF Remaining
  <1>9. ClaimsInv'
    <2>1. CASE phase \in Walks
      <3>1. Waiting' = Waiting
        BY <1>1, <1>5, <1>6, <1>8 DEF Waiting
      <3> QED BY <1>2, <2>1, <3>1, QuietKept DEF AdmissionInv
    <2>2. CASE phase \notin Walks
      BY <1>1, <2>2 DEF ClaimsInv, Walks
    <2> QED BY <2>1, <2>2
  <1>10. OwnedOnce'
    <2>1. Demands' = Demands
      BY <1>2, SameOwners
    <2> QED BY <1>1, <2>1 DEF AdmissionInv, OwnedOnce
  <1> QED BY <1>3, <1>4, <1>7, <1>9, <1>10 DEF AdmissionInv

LEMMA NextHolds ==
    ASSUME AdmissionInv, [Next]_vars
    PROVE  AdmissionInv'
  <1>1. CASE Replaying
    BY <1>1, TakeFrameKeeps, EndJournalKeeps, PlaceFrameKeeps, FinishReplayKeeps, BeginWalkKeeps,
       RefusalsKeep DEF Replaying
  <1>2. CASE Walking
    BY <1>2, EnterKeeps, ReadCellKeeps, FollowKeeps, LeaveKeeps, NextTreeKeeps, RefusalsKeep
       DEF Walking
  <1>3. CASE Freeing
    BY <1>3, BeginFreeListKeeps, TakeTrunkKeeps, TakeListedKeeps, LeaveTrunkKeeps, AdmitKeeps,
       RefusalsKeep DEF Freeing
  <1>4. CASE RunOut
    BY <1>4, RefusalsKeep
  <1>5. CASE UNCHANGED vars
    BY <1>5, UnchangedKeeps
  <1> QED BY <1>1, <1>2, <1>3, <1>4, <1>5 DEF Next

\* Every reachable state of the replay and the walk satisfies the invariant.
LEMMA InvariantHolds == Spec => []AdmissionInv
  <1>1. Init => AdmissionInv
    BY InitHolds
  <1>2. AdmissionInv /\ [Next]_vars => AdmissionInv'
    BY NextHolds
  <1> QED BY <1>1, <1>2, PTL DEF Spec

\* What the walk knows of the pages it granted, wherever it is.
LEMMA ExactHolds == Spec => []ExactInv
  <1>1. Init => ExactInv
    <2>1. Init => phase = "replaying"
      BY DEF Init
    <2> QED BY <2>1 DEF Walks, ExactInv, SoundInv, SchemaInv, OnceInv, VerdictInv
  <1>2. AdmissionInv /\ ExactInv /\ [Next]_vars => ExactInv'
    BY ExactNext
  <1> QED BY <1>1, <1>2, InvariantHolds, PTL DEF Spec

\* Every variable of the replay and the walk holds a value of its kind however
\* damaged the copy is: whatever a page or a frame says, the stack, the trees and
\* the owners hold claims only (native_read_shape.rs tree and freelist).
THEOREM TypeCorrect == Spec => []TypeOK
  <1>1. AdmissionInv => TypeOK
    BY DEF AdmissionInv
  <1> QED BY <1>1, InvariantHolds, PTL

\* Whatever the journal holds, the image read is the one of its last valid
\* commit: nothing of a torn tail, nothing of an unfinished transaction, and
\* every frame of what was committed (native_read_shape.rs Image::new).
THEOREM ReplayKept == Spec => []ReplayIsLastCommit
  <1>1. AdmissionInv => ReplayIsLastCommit
    <2> SUFFICES ASSUME AdmissionInv, phase = "replayed"
                 PROVE  \E n \in 0..Len(input.frames) :
                          /\ CommittedPrefix(n)
                          /\ \A m \in n + 1 .. Len(input.frames) : ~CommittedPrefix(m)
                          /\ size = IF n = 0 THEN Len(input.main) ELSE input.frames[n].size
                          /\ \A p \in 1..MaxPage :
                               /\ source[p] \in 0..n
                               /\ source[p] # 0 => input.frames[source[p]].page = p
                               /\ \A i \in source[p] + 1 .. n : input.frames[i].page # p
      BY DEF ReplayIsLastCommit
    <2>1. /\ frame = commit /\ Taken(commit) /\ SizeAfter(commit) /\ LastCommit
          /\ PlacedUpTo(commit)
      BY DEF AdmissionInv, ReplayInv
    <2>2. commit \in 0..Len(input.frames) /\ commit \in Nat
      BY InputParts DEF AdmissionInv, TypeOK
    <2>3. CommittedPrefix(commit)
      BY <2>1, <2>2 DEF CommittedPrefix, Taken, Belongs, SizeAfter
    <2>4. \A m \in commit + 1 .. Len(input.frames) : ~CommittedPrefix(m)
      BY <2>1 DEF LastCommit
    <2>5. size = IF commit = 0 THEN Len(input.main) ELSE input.frames[commit].size
      BY <2>1, <2>2 DEF SizeAfter
    <2>6. \A p \in 1..MaxPage :
             /\ source[p] \in 0..commit
             /\ source[p] # 0 => input.frames[source[p]].page = p
             /\ \A i \in source[p] + 1 .. commit : input.frames[i].page # p
      BY <2>1 DEF PlacedUpTo
    <2> QED BY <2>2, <2>3, <2>4, <2>5, <2>6
  <1> QED BY <1>1, InvariantHolds, PTL

\* Whatever the pages say, in an admitted image the claims and the pages
\* correspond one to one: no page belongs to two trees, to a tree and the free
\* list, or to a cycle, and none is left out (native_read_shape.rs mark, admit).
THEOREM OwnersKept == Spec => []OwnedOnce
  <1>1. AdmissionInv => OwnedOnce
    BY DEF AdmissionInv
  <1> QED BY <1>1, InvariantHolds, PTL

\* Whatever the pages say, what is admitted is well formed, judged from the roots
\* and not from what was marked, and nothing that is well formed is refused as
\* corrupt or unsupported, in whichever order its pages are walked
\* (native_read_shape.rs tree, payload_prefix, freelist and admit).
THEOREM AdmissionKept == Spec => []AdmissionIsExact
  <1>1. AdmissionInv /\ ExactInv => AdmissionIsExact
    <2> SUFFICES ASSUME AdmissionInv, ExactInv
                 PROVE  AdmissionIsExact
      OBVIOUS
    <2>1. Whole => (WellFormed <=> Coherent(Reachable))
      BY ReferenceIsReachable DEF AdmissionInv
    <2> QED BY <2>1 DEF ExactInv, VerdictInv, AdmissionIsExact
  <1> QED BY <1>1, InvariantHolds, ExactHolds, PTL

\* Whatever the pages say, the replay and the walk end: every step leaves less to
\* do, in an order in which there is always less only so often
\* (native_read_shape.rs mark, and the loops of Image::new, tree,
\* payload_prefix and freelist).
THEOREM AdmissionTerminates == Spec => WalkEnds
  <1>1. AdmissionInv /\ [Next]_vars => [Less(Work', Work)]_vars
    BY NextEnds
  <1> QED BY <1>1, InvariantHolds, PTL DEF Spec, WalkEnds

\* There is no endless sequence of less and less work, so that no behaviour of the
\* replay and the walk takes steps for ever: a cycle of pages cannot keep the
\* reader from its verdict (native_read_shape.rs mark).
THEOREM LessIsWellFounded ==
    ASSUME NEW f, \A n \in Nat : DOMAIN f[n] = 1..5
    PROVE  \E n \in Nat : ~Less(f[n + 1], f[n])
  <1> SUFFICES ASSUME \A n \in Nat : Less(f[n + 1], f[n])
               PROVE  FALSE
    OBVIOUS
  <1> DEFINE Part(n, k) == /\ f[n + 1][k] \in Nat /\ f[n + 1][k] < f[n][k]
                           /\ \A j \in 1..k - 1 : f[n + 1][j] = f[n][j]
             g == [n \in Nat |-> CHOOSE k \in 1..5 : Part(n, k)]
  <1>1. \A n \in Nat : \E k \in 1..5 : Part(n, k)
    BY DEF Less
  <1> HIDE DEF Part
  <1>2. \A n \in Nat : g[n] \in 1..5 /\ Part(n, g[n])
    BY <1>1
  <1> HIDE DEF g
  <1>3. Lessens(f, g)
    BY <1>2 DEF Part, Lessens
  <1>4. StaysFrom(g, 0, 1)
    BY <1>2 DEF StaysFrom
  <1>5. \E m \in Nat : StaysFrom(g, m, 2)
    BY <1>3, <1>4, PartStays, 1 \in 1..5, 1 + 1 = 2
  <1>6. \E m \in Nat : StaysFrom(g, m, 3)
    BY <1>3, <1>5, PartStays, 2 \in 1..5, 2 + 1 = 3
  <1>7. \E m \in Nat : StaysFrom(g, m, 4)
    BY <1>3, <1>6, PartStays, 3 \in 1..5, 3 + 1 = 4
  <1>8. \E m \in Nat : StaysFrom(g, m, 5)
    BY <1>3, <1>7, PartStays, 4 \in 1..5, 4 + 1 = 5
  <1>9. \E m \in Nat : StaysFrom(g, m, 6)
    BY <1>3, <1>8, PartStays, 5 \in 1..5, 5 + 1 = 6
  <1>10. PICK m \in Nat : StaysFrom(g, m, 6)
    BY <1>9
  <1> QED BY <1>2, <1>10 DEF StaysFrom
=============================================================================
