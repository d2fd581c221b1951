------------------------------ MODULE Admission ------------------------------
(***************************************************************************)
(* What a read admits before SQLite opens its private copy                 *)
(* (adapters/sqlite/native_read_shape.rs): the journal is replayed up to   *)
(* its last valid commit, and every page of the image is walked, from the  *)
(* schema, through the trees and the overflow chains, to the free list.    *)
(* The image is admitted when every page has exactly one owner.            *)
(*                                                                         *)
(* A reference from one page to another is a claim; `owner' says which     *)
(* claim was granted a page, which is what the code's roles and parents    *)
(* record.  The copy is a file of a process that may have crashed, or was  *)
(* damaged: nothing is assumed of its pages.                               *)
(*                                                                         *)
(* Abstracted: a page is what it can be read as, a node or a link of a     *)
(* list; whether its header, cells and records are laid out well is one    *)
(* bit of it, and so is whether a frame carries the salt and the checksum  *)
(* that belong to its place.  A page number is taken from a page wherever  *)
(* the code reads one, so a node read as a link leads out of the file.     *)
(*                                                                         *)
(* An operator under a comment that starts with "Mutant" is not part of    *)
(* the model: it is the definition after it with a plausible bug.          *)
(***************************************************************************)
EXTENDS Naturals, Sequences, FiniteSets

CONSTANTS Inputs,      \* copies: a main file and the frames of its journal
          Names,       \* tables and indices of the fixed schema
          Holds,       \* what the tree of a name holds, rows or keys
          Caps,        \* rows that the tree of a name may have
          MaxPage,     \* pages of the largest image
          MaxDepth,    \* MAX_DEPTH
          MaxSchema,   \* MAX_SCHEMA
          MaxRows,     \* MAX_ROWS
          Interval,    \* pages from one pointer map to the next
          None

Cells == [left : Nat, spill : Nat, pages : Nat, name : Names \cup {None}, root : Nat]

\* What the pointer map says of a page: its role and parent.
Entries == [role : STRING, parent : Nat]

Pages ==
    [sound : BOOLEAN, holds : {"rows", "keys", "none"}, leaf : BOOLEAN,
     right : Nat, cells : Seq(Cells),
     next : Nat, listed : Seq(Nat), map : [1..MaxPage -> Entries] \cup {None},
     size : Nat, free : Nat, freed : Nat, vacuum : BOOLEAN]

Frames == [salt : BOOLEAN, sum : BOOLEAN, profile : BOOLEAN,
           page : Nat, size : Nat, content : Pages]

Copies == [main : Seq(Pages), frames : Seq(Frames)]

ASSUME AdmissionAssumption ==
    /\ MaxPage \in Nat \ {0} /\ MaxDepth \in Nat
    /\ MaxRows \in Nat /\ MaxSchema \in 0..MaxRows
    /\ Interval \in Nat \ {0}
    /\ None \notin Names /\ IsFiniteSet(Names)
    /\ Holds \in [Names -> {"rows", "keys"}]
    /\ Caps \in [Names -> Nat]
    /\ Inputs \subseteq Copies
    /\ \A i \in Inputs : Len(i.main) \in 1..MaxPage

Roles == {"root", "node", "first", "later", "free", "map"}

\* A claim: slot `at' of page `by' names page `to'.  `level' is the depth of a
\* node, and of an overflow page how many are left, itself included.
Claims ==
    [by : Nat, slot : {"root", "right", "left", "spill", "next", "trunk", "listed", "map"},
     at : Nat, to : Nat, role : Roles, level : Nat, tree : Names \cup {None}]

ASSUME AbsentAssumption == None \notin Claims

VARIABLES input,    \* the copy
          phase,    \* what is going on, or the verdict
          frame,    \* frames taken from the journal, then those placed
          commit,   \* the last of them that commits
          source,   \* page -> the frame it comes from, 0 for the main file
          size,     \* pages of the image
          owner,    \* page -> the claim it was granted to, or None
          stack,    \* claims of the tree being walked
          trees,    \* claims of the trees to come
          here,     \* the node or trunk whose slots are being read, or None
          cell,     \* slots of it that were read
          chain,    \* the next claim of an overflow chain or free list, or None
          tree,     \* whose tree is walked, None for the schema
          rows,     \* rows of the tree being walked
          count     \* free pages taken

replay == <<frame, commit>>
image  == <<input, source, size>>
walk   == <<stack, trees, tree, here, cell, chain, rows, count>>
vars   == <<phase, replay, image, owner, walk>>

Verdicts == {"admitted", "Corrupt", "Limit", "Unsupported"}

Refuse(reason) ==
    /\ phase' = reason
    /\ UNCHANGED <<replay, image, owner, walk>>

---------------------------------------------------------------------------
(* Replaying the journal *)

Init ==
    /\ input \in Inputs
    /\ phase = "replaying"
    /\ frame = 0 /\ commit = 0
    /\ source = [p \in 1..MaxPage |-> 0]
    /\ size = Len(input.main)
    /\ owner = [p \in 1..MaxPage |-> None]
    /\ stack = <<>> /\ trees = <<>> /\ here = None /\ cell = 0
    /\ chain = None /\ tree = None /\ rows = 0 /\ count = 0

Numbered(f) == f.page \in 1..MaxPage /\ f.size <= MaxPage

\* Mutant: the checksum of a frame is not looked at.
BelongsBySalt(f) == f.salt

\* The frame continues the journal; the first that does not ends it.
Belongs(f) == f.salt /\ f.sum

Usable(f) == Numbered(f) /\ (f.page = 1 => f.profile)

TakeFrame ==
    /\ phase = "replaying" /\ frame < Len(input.frames)
    /\ LET f == input.frames[frame + 1] IN
       /\ Belongs(f) /\ Usable(f)
       /\ frame' = frame + 1
       /\ IF f.size = 0
            THEN UNCHANGED <<commit, size>>
            ELSE commit' = frame + 1 /\ size' = f.size
    /\ UNCHANGED <<phase, input, source, owner, walk>>

\* Numbers out of range are refused even where the journal would have ended.
RefuseFrame ==
    /\ phase = "replaying" /\ frame < Len(input.frames)
    /\ LET f == input.frames[frame + 1] IN
       (f.salt /\ ~Numbered(f)) \/ (Belongs(f) /\ ~Usable(f))
    /\ Refuse("Limit")

Content(p) == IF source[p] = 0 THEN input.main[p] ELSE input.frames[source[p]].content

EndOfJournal ==
    frame < Len(input.frames) =>
        LET f == input.frames[frame + 1] IN ~f.salt \/ (Numbered(f) /\ ~Belongs(f))

EndJournal ==
    /\ phase = "replaying" /\ EndOfJournal
    /\ phase' = "placing" /\ frame' = 0
    /\ UNCHANGED <<commit, image, owner, walk>>

\* The committed frames once more: a later one of a page replaces an earlier one.
PlaceFrame ==
    /\ phase = "placing" /\ frame < commit
    /\ frame' = frame + 1
    /\ source' = [source EXCEPT ![input.frames[frame + 1].page] = frame + 1]
    /\ UNCHANGED <<phase, commit, input, size, owner, walk>>

FinishReplay ==
    /\ phase = "placing" /\ frame = commit
    /\ phase' = "replayed"
    /\ UNCHANGED <<replay, image, owner, walk>>

\* Every page is there, and the size in the header is the one of the image.
Whole ==
    /\ \A p \in 1..size : source[p] # 0 \/ p <= Len(input.main)
    /\ Content(1).size \in {0, size}

MapPages ==
    IF Content(1).vacuum THEN {p \in 2..size : (p - 2) % Interval = 0} ELSE {}

Claim(by, slot, at, to, role, level, name) ==
    [by |-> by, slot |-> slot, at |-> at, to |-> to, role |-> role,
     level |-> level, tree |-> name]

MapClaim(p) == Claim(0, "map", 0, p, "map", 0, None)

SchemaClaim == Claim(0, "root", 0, 1, "root", 1, None)

BeginWalk ==
    /\ phase = "replayed" /\ Whole
    /\ phase' = "walking"
    /\ owner' = [p \in 1..MaxPage |-> IF p \in MapPages THEN MapClaim(p) ELSE None]
    /\ stack' = <<SchemaClaim>>
    /\ UNCHANGED <<replay, image, trees, tree, here, cell, chain, rows, count>>

RefuseImage ==
    /\ phase = "replayed" /\ ~Whole
    /\ Refuse("Corrupt")

---------------------------------------------------------------------------
(* The claims that a page makes *)

\* Cells of an interior node of a table only guide the search.
Carries(page) == page.leaf \/ page.holds = "keys"

RightClaim(c) ==
    Claim(c.to, "right", 0, Content(c.to).right, "node", c.level + 1, c.tree)

LeftClaim(c, i) ==
    Claim(c.to, "left", i, Content(c.to).cells[i].left, "node", c.level + 1, c.tree)

SpillClaim(c, i) ==
    Claim(c.to, "spill", i, Content(c.to).cells[i].spill, "first",
          Content(c.to).cells[i].pages, c.tree)

\* schema_entry: a row of the schema names the root of a tree.
RootClaim(c, i) ==
    Claim(c.to, "root", i, Content(c.to).cells[i].root, "root", 1,
          Content(c.to).cells[i].name)

NextClaim(c) ==
    Claim(c.to, "next", 0, Content(c.to).next, "later", c.level - 1, c.tree)

ListedClaim(c, i) == Claim(c.to, "listed", i, Content(c.to).listed[i], "free", 0, None)

TrunkClaim(by, page) == Claim(by, "trunk", 0, page, "free", 0, None)

Spills(c) ==
    IF Carries(Content(c.to))
      THEN {i \in DOMAIN Content(c.to).cells : Content(c.to).cells[i].pages > 0}
      ELSE {}

NodeClaims(c) ==
    (IF Content(c.to).leaf THEN {}
     ELSE {RightClaim(c)} \cup {LeftClaim(c, i) : i \in DOMAIN Content(c.to).cells})
    \cup {SpillClaim(c, i) : i \in Spills(c)}
    \cup (IF c.tree = None /\ Carries(Content(c.to))
            THEN {RootClaim(c, i) : i \in DOMAIN Content(c.to).cells} ELSE {})

TrunkClaims(c) ==
    {ListedClaim(c, i) : i \in DOMAIN Content(c.to).listed}
    \cup (IF Content(c.to).next = 0 THEN {} ELSE {TrunkClaim(c.to, Content(c.to).next)})

\* What page c.to claims when it is granted to c.
Made(c) ==
    IF c.role \in {"root", "node"} THEN NodeClaims(c)
    ELSE IF c.role \in {"first", "later"} /\ c.level > 1 THEN {NextClaim(c)}
    ELSE IF c.slot = "trunk" THEN TrunkClaims(c)
    ELSE {}

---------------------------------------------------------------------------
(* The walk of the trees *)

\* Mutant: a page that was granted already is granted again.
GrantableAgain(p) == p \in 1..size

\* mark: a page in range that nothing owns.
Grantable(p) == p \in 1..size /\ owner[p] = None

Grant(c) == owner' = [owner EXCEPT ![c.to] = c]

Top == stack[Len(stack)]

Popped == SubSeq(stack, 1, Len(stack) - 1)

\* Whether the page can be a node of this tree.
NodeOf(page, name) ==
    page.sound /\ page.holds = (IF name = None THEN "rows" ELSE Holds[name])

\* A node is taken from the stack; its rightmost child is put there.
Enter ==
    /\ phase = "walking" /\ here = None /\ stack # <<>>
    /\ Top.level <= MaxDepth
    /\ Grantable(Top.to) /\ NodeOf(Content(Top.to), Top.tree)
    /\ Grant(Top)
    /\ here' = Top /\ cell' = 0
    /\ stack' = IF Content(Top.to).leaf THEN Popped ELSE Append(Popped, RightClaim(Top))
    /\ UNCHANGED <<phase, replay, image, trees, tree, chain, rows, count>>

RefuseNode ==
    /\ phase = "walking" /\ here = None /\ stack # <<>>
    /\ IF Top.level > MaxDepth THEN Refuse("Limit")
       ELSE /\ ~(Grantable(Top.to) /\ NodeOf(Content(Top.to), Top.tree))
            /\ Refuse("Corrupt")

\* Between two cells of a node; the last row counted may be one too many.
Reading == phase = "walking" /\ here # None /\ chain = None

TooManyRows == rows > (IF tree = None THEN MaxSchema ELSE MaxRows)

AtCell == Reading /\ ~TooManyRows /\ cell < Len(Content(here.to).cells)

\* No room for another task.
Full == ~Content(here.to).leaf /\ Len(stack) > size

\* The next cell of the node: its child, its payload, its row.
ReadCell ==
    /\ AtCell /\ ~Full
    /\ cell' = cell + 1
    /\ stack' = IF Content(here.to).leaf THEN stack
                ELSE Append(stack, LeftClaim(here, cell + 1))
    /\ chain' = IF cell + 1 \in Spills(here) THEN SpillClaim(here, cell + 1) ELSE None
    /\ IF Carries(Content(here.to))
         THEN /\ rows' = rows + 1
              /\ trees' = IF here.tree = None
                            THEN Append(trees, RootClaim(here, cell + 1)) ELSE trees
         ELSE UNCHANGED <<rows, trees>>
    /\ UNCHANGED <<phase, replay, image, owner, tree, here, count>>

RefuseCell == ((AtCell /\ Full) \/ (Reading /\ TooManyRows)) /\ Refuse("Limit")

\* The last page of a chain names no other.
LinkFits(c) == c.level = 1 => Content(c.to).next = 0

\* payload_prefix: the next overflow page of the payload.
Follow ==
    /\ phase = "walking" /\ chain # None
    /\ Grantable(chain.to) /\ LinkFits(chain)
    /\ Grant(chain)
    /\ chain' = IF chain.level > 1 THEN NextClaim(chain) ELSE None
    /\ UNCHANGED <<phase, replay, image, stack, trees, tree, here, cell, rows, count>>

RefuseLink ==
    /\ phase = "walking" /\ chain # None
    /\ ~(Grantable(chain.to) /\ LinkFits(chain))
    /\ Refuse("Corrupt")

Leave ==
    /\ Reading /\ ~TooManyRows
    /\ cell = Len(Content(here.to).cells)
    /\ here' = None
    /\ UNCHANGED <<phase, replay, image, owner, stack, trees, tree, cell, chain, rows, count>>

\* What the rows of the schema say, once all were read: no two trees have the
\* same root and none has the schema's own, and each tree is known and is
\* there once.
RootsFit(roots) ==
    /\ \A c \in roots : c.to > 1
    /\ \A c, d \in roots : c.to = d.to => c = d

NamesFit(roots) ==
    /\ \A c \in roots : c.tree # None
    /\ \A c, d \in roots : c.tree = d.tree => c = d

Missing(roots, holds) == \E n \in Names : Holds[n] = holds /\ \A c \in roots : c.tree # n

SchemaFits(roots) ==
    /\ RootsFit(roots) /\ NamesFit(roots)
    /\ ~Missing(roots, "rows") /\ ~Missing(roots, "keys")

Found == {trees[i] : i \in DOMAIN trees}

TreeDone == phase = "walking" /\ here = None /\ stack = <<>>

TreeFits == IF tree = None THEN SchemaFits(Found) ELSE rows <= Caps[tree]

NextTree ==
    /\ TreeDone /\ TreeFits /\ trees # <<>>
    /\ tree' = Head(trees).tree
    /\ stack' = <<Head(trees)>> /\ trees' = Tail(trees) /\ rows' = 0
    /\ UNCHANGED <<phase, replay, image, owner, here, cell, chain, count>>

RefuseTree ==
    /\ TreeDone /\ ~TreeFits
    /\ IF tree # None THEN Refuse("Limit")
       ELSE \/ (~RootsFit(Found) \/ Missing(Found, "keys")) /\ Refuse("Corrupt")
            \/ (~NamesFit(Found) \/ Missing(Found, "rows")) /\ Refuse("Unsupported")

---------------------------------------------------------------------------
(* The free list and the pointer maps *)

FreeHead ==
    IF Content(1).free = 0 THEN None ELSE TrunkClaim(0, Content(1).free)

BeginFreeList ==
    /\ TreeDone /\ TreeFits /\ trees = <<>>
    /\ Content(1).freed <= size
    /\ phase' = "freeing" /\ chain' = FreeHead
    /\ UNCHANGED <<replay, image, owner, stack, trees, tree, here, cell, rows, count>>

TakeTrunk ==
    /\ phase = "freeing" /\ here = None /\ chain # None
    /\ Grantable(chain.to)
    /\ Grant(chain)
    /\ here' = chain /\ cell' = 0 /\ chain' = None /\ count' = count + 1
    /\ UNCHANGED <<phase, replay, image, stack, trees, tree, rows>>

Listing == phase = "freeing" /\ here # None

TakeListed ==
    /\ Listing /\ cell < Len(Content(here.to).listed)
    /\ LET c == ListedClaim(here, cell + 1) IN Grantable(c.to) /\ Grant(c)
    /\ cell' = cell + 1 /\ count' = count + 1
    /\ UNCHANGED <<phase, replay, image, stack, trees, tree, here, chain, rows>>

LeaveTrunk ==
    /\ Listing /\ cell = Len(Content(here.to).listed)
    /\ count <= Content(1).freed
    /\ here' = None
    /\ chain' = IF Content(here.to).next = 0 THEN None
                ELSE TrunkClaim(here.to, Content(here.to).next)
    /\ UNCHANGED <<phase, replay, image, owner, stack, trees, tree, cell, rows, count>>

\* Only nodes and overflow pages have a parent to the pointer map.
ParentOf(c) == IF c.role \in {"root", "free"} THEN 0 ELSE c.by

\* The pointer map page that describes p.
MapOf(p) == ((p - 2) \div Interval) * Interval + 2

MapFits(owners) ==
    \A p \in 2..size \ MapPages :
        MapOf(p) \in MapPages =>
            Content(MapOf(p)).map[p] = [role |-> owners[p].role, parent |-> ParentOf(owners[p])]

\* Mutant: a page that nothing refers to is left alone.
AllUsed ==
    /\ count = Content(1).freed
    /\ \A p \in 1..size : owner[p] # None \/ MapPages = {}

AllOwned ==
    /\ count = Content(1).freed
    /\ \A p \in 1..size : owner[p] # None

ListDone == phase = "freeing" /\ here = None /\ chain = None

Admit ==
    /\ ListDone /\ AllOwned /\ MapFits(owner)
    /\ phase' = "admitted"
    /\ UNCHANGED <<replay, image, owner, walk>>

RefusePages ==
    /\ \/ TreeDone /\ TreeFits /\ trees = <<>> /\ Content(1).freed > size
       \/ phase = "freeing" /\ here = None /\ chain # None /\ ~Grantable(chain.to)
       \/ /\ Listing /\ cell < Len(Content(here.to).listed)
          /\ ~Grantable(Content(here.to).listed[cell + 1])
       \/ /\ Listing /\ cell = Len(Content(here.to).listed)
          /\ count > Content(1).freed
       \/ ListDone /\ ~(AllOwned /\ MapFits(owner))
    /\ Refuse("Corrupt")

---------------------------------------------------------------------------
(* The whole *)

\* Work and allocation are charged everywhere, and may run out.
RunOut == phase \notin Verdicts /\ Refuse("Limit")

Replaying ==
    TakeFrame \/ RefuseFrame \/ EndJournal \/ PlaceFrame \/ FinishReplay
        \/ BeginWalk \/ RefuseImage

Walking ==
    Enter \/ RefuseNode \/ ReadCell \/ RefuseCell \/ Follow \/ RefuseLink \/ Leave
        \/ NextTree \/ RefuseTree

Freeing ==
    BeginFreeList \/ TakeTrunk \/ TakeListed \/ LeaveTrunk \/ Admit \/ RefusePages

Next == Replaying \/ Walking \/ Freeing \/ RunOut

Spec == Init /\ [][Next]_vars

---------------------------------------------------------------------------
(* Properties *)

Phases == {"replaying", "placing", "replayed", "walking", "freeing"} \cup Verdicts

\* Every variable holds a value of its kind.
TypeOK ==
    /\ input \in Inputs
    /\ phase \in Phases
    /\ frame \in 0..Len(input.frames) /\ commit \in 0..Len(input.frames)
    /\ source \in [1..MaxPage -> 0..commit]
    /\ size \in 0..MaxPage
    /\ owner \in [1..MaxPage -> Claims \cup {None}]
    /\ stack \in Seq(Claims) /\ trees \in Seq(Claims)
    /\ tree \in Names \cup {None}
    /\ here \in Claims \cup {None} /\ cell \in Nat
    /\ chain \in Claims \cup {None}
    /\ rows \in 0..MaxRows + 1 /\ count \in Nat

\* The reference for the replay: a prefix of the journal counts when all its
\* frames belong and the last one commits.
CommittedPrefix(n) ==
    /\ \A i \in 1..n : input.frames[i].salt /\ input.frames[i].sum
    /\ n > 0 => input.frames[n].size # 0

\* The image is the one of the last valid commit: a torn or stale tail, and a
\* transaction that was not finished, contribute nothing, and no committed
\* frame is left out (native_read_shape.rs Image::new, "exactly the native
\* last valid commit, never an application-selected older cut").
ReplayIsLastCommit ==
    phase = "replayed" =>
        \E n \in 0..Len(input.frames) :
            /\ CommittedPrefix(n)
            /\ \A m \in n + 1 .. Len(input.frames) : ~CommittedPrefix(m)
            /\ size = IF n = 0 THEN Len(input.main) ELSE input.frames[n].size
            /\ \A p \in 1..MaxPage :
                 /\ source[p] \in 0..n
                 /\ source[p] # 0 => input.frames[source[p]].page = p
                 /\ \A i \in source[p] + 1 .. n : input.frames[i].page # p

\* Every claim that is made anywhere in the image, its own roots included.
Owners == {owner[p] : p \in {q \in 1..size : owner[q] # None}}

Roots ==
    {SchemaClaim} \cup (IF FreeHead = None THEN {} ELSE {FreeHead})
        \cup {MapClaim(p) : p \in MapPages}

Demands == Roots \cup UNION {Made(c) : c \in Owners}

\* In an admitted image the claims and the pages correspond one to one: every
\* page has an owner, whatever refers to a page owns it, and so no page is
\* referred to twice, by two trees, by a tree and the free list, or by a cycle
\* (native_read_shape.rs mark and freelist).
OwnedOnce ==
    phase = "admitted" =>
        /\ \A p \in 1..size : owner[p] \in Demands /\ owner[p].to = p
        /\ \A c \in Demands : c.to \in 1..size /\ owner[c.to] = c

\* Some claims, and what the pages they name claim.
Wider(claims) == claims \cup UNION {Made(c) : c \in {d \in claims : d.to \in 1..size}}

\* The claims that can be reached from the roots in n steps.
Reach[n \in 0..size] == IF n = 0 THEN Roots ELSE Wider(Reach[n - 1])

\* All of them, without looking at the walk.
Reached == Reach[size]

\* The claims form trees, chains and a free list that share nothing and leave
\* nothing out, and the header and the pointer maps agree.
Coherent(claims) ==
    LET Of(roles) == {c \in claims : c.role \in roles}
    IN  /\ \A c \in claims : c.to \in 1..size
        /\ \A c, d \in claims : c.to = d.to => c = d
        /\ \A p \in 1..size : \E c \in claims : c.to = p
        /\ \A c \in Of({"root", "node"}) : NodeOf(Content(c.to), c.tree)
        /\ \A c \in Of({"first", "later"}) : LinkFits(c)
        /\ SchemaFits(Of({"root"}) \ {SchemaClaim})
        /\ Cardinality(Of({"free"})) = Content(1).freed
        /\ MapFits([p \in 1..size |-> CHOOSE c \in claims : c.to = p])

\* The reference: all that the roots lead to is coherent.
WellFormed == Coherent(Reached)

\* What is admitted is well formed, reached from the roots and not only marked;
\* and nothing well formed is called corrupt: a read is not refused for the
\* order in which its pages happen to be walked
\* (native_read_shape.rs tree, payload_prefix, freelist and admit).
AdmissionIsExact ==
    /\ phase = "admitted" => WellFormed
    /\ phase \in {"Corrupt", "Unsupported"} => ~(Whole /\ WellFormed)

\* What is left to do, the part that counts most first: how far the admission
\* is, frames of the journal, pages that nothing owns, slots of the page whose
\* slots are being read, trees to come.
StagesLeft ==
    [replaying |-> 5, placing |-> 4, replayed |-> 3, walking |-> 2, freeing |-> 1,
     admitted |-> 0, Corrupt |-> 0, Limit |-> 0, Unsupported |-> 0][phase]

FramesLeft ==
    CASE phase = "replaying" -> Len(input.frames) - frame
      [] phase = "placing"   -> commit - frame
      [] OTHER               -> 0

PagesLeft == Cardinality({p \in 1..size : owner[p] = None})

SlotsLeft ==
    IF here = None THEN 0
    ELSE 1 + Len(IF phase = "walking" THEN Content(here.to).cells
                 ELSE Content(here.to).listed) - cell

Work == <<StagesLeft, FramesLeft, PagesLeft, SlotsLeft, Len(trees)>>

\* Less work is less of one part and no more of those that count more.
Less(a, b) ==
    \E k \in DOMAIN b : a[k] \in Nat /\ a[k] < b[k] /\ \A j \in 1..k - 1 : a[j] = b[j]

\* The walk ends whatever the pages say: no step can be taken for ever, in a
\* cycle of pages, a tree that names its own root, a chain or list that comes
\* back to where it was (native_read_shape.rs mark, and the bounds of the loops
\* of Image::new, tree, payload_prefix and freelist).
WalkEnds == [][Less(Work', Work)]_vars
=============================================================================
