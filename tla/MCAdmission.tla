---------------------------- MODULE MCAdmission ----------------------------
(***************************************************************************)
(* Small copies for Admission: journals of up to three frames over two     *)
(* pages, and images of five pages, most of which say anything at all,     *)
(* with and without pointer maps.                                          *)
(***************************************************************************)
EXTENDS Admission, TLC

MCMaxPage == 5

\* A page number that leads out of the file.
Out == 9

Blank ==
    [sound |-> TRUE, holds |-> "none", leaf |-> TRUE, right |-> 0, cells |-> <<>>,
     next |-> 0, listed |-> <<>>, map |-> None,
     size |-> 0, free |-> 0, freed |-> 0, vacuum |-> FALSE]

Row(spill, pages) ==
    [left |-> 0, spill |-> spill, pages |-> pages, name |-> None, root |-> 0]

Guide(left) == [left |-> left, spill |-> 0, pages |-> 0, name |-> None, root |-> 0]

Definition(n, root) == [left |-> 0, spill |-> 0, pages |-> 0, name |-> n, root |-> root]

Leaf(holds, cells) ==
    [Blank EXCEPT !.holds = holds, !.cells = cells, !.next = Out]

Interior(holds, right, cells) ==
    [Blank EXCEPT !.holds = holds, !.leaf = FALSE, !.right = right,
                  !.cells = cells, !.next = Out]

Link(next, listed) == [Blank EXCEPT !.next = next, !.listed = listed]

Schema(cells, free, freed, n) ==
    [Blank EXCEPT !.holds = "rows", !.cells = cells, !.free = free,
                  !.freed = freed, !.size = n, !.next = Out]

---------------------------------------------------------------------------
(* Journals *)

Plain == Schema(<<Definition("t", 2), Definition("i", 3)>>, 0, 0, 0)

Third(n) == [Plain EXCEPT !.size = n]

FrameOf(page, n, salt, sum, profile) ==
    [salt |-> salt, sum |-> sum, profile |-> profile, page |-> page, size |-> n,
     content |-> IF page = 1 THEN Third(n)
                 ELSE Leaf(IF page = 2 THEN "rows" ELSE "keys", <<Row(0, 0)>>)]

SomeFrames ==
    {FrameOf(p, z, TRUE, TRUE, TRUE) : p \in 1..3, z \in {0, 2, 3}}
    \cup {FrameOf(p, z, FALSE, TRUE, TRUE) : p \in {0, 2}, z \in {0, 3}}
    \cup {FrameOf(p, z, TRUE, FALSE, TRUE) : p \in {0, 2}, z \in {3}}
    \cup {FrameOf(1, 3, TRUE, TRUE, FALSE), FrameOf(3, Out, TRUE, TRUE, TRUE)}

Journals ==
    [main : {<<Plain, Leaf("rows", <<>>)>>, <<Plain, Leaf("rows", <<>>), Leaf("keys", <<>>)>>},
     frames : UNION {[1..n -> SomeFrames] : n \in 0..3}]

---------------------------------------------------------------------------
(* Images: a table at page 2 or 3, an index, and pages that may be anything *)

Leaves(holds, to) ==
    {Leaf(holds, <<>>)} \cup {Leaf(holds, <<Row(s, n)>>) : s \in to, n \in 1..2}

Interiors(holds, to) ==
    {Interior(holds, q, <<Guide(r)>>) : q \in to, r \in to}

\* A node of an index carries a payload and a child in each cell.
Carrier(q, r, s, n) == Interior("keys", q, <<[Row(s, n) EXCEPT !.left = r]>>)

Links(to) ==
    {Link(n, <<>>) : n \in {0} \cup to} \cup {Link(n, <<p>>) : n \in {0} \cup to, p \in to}

Anything ==
    Leaves("rows", {4, 5}) \cup {Interior("rows", q, <<>>) : q \in {2, 4, 5}}
        \cup {Interior("rows", 4, <<Guide(5)>>), Interior("rows", 5, <<Guide(4)>>)}
        \cup Links({4, 5})
        \cup {Leaf("keys", <<>>), [Blank EXCEPT !.sound = FALSE, !.holds = "rows"]}

IndexPages ==
    {Leaf("keys", <<>>), Leaf("keys", <<Row(5, 1)>>), Leaf("keys", <<Row(4, 2)>>),
     Carrier(4, 5, 0, 0), Carrier(4, 5, 5, 1)}

TablePages == Leaves("rows", {4, 5}) \cup Interiors("rows", {4, 5})

Both(t, i) == <<Definition("t", t), Definition("i", i)>>

Lists == {<<0, 0>>, <<0, 1>>, <<4, 1>>, <<4, 2>>, <<5, Out>>}

Image(pages) == [main |-> pages, frames |-> <<>>]

Images ==
    {Image(<<Schema(Both(2, 3), f[1], f[2], 0), b, c, d, e>>) :
        f \in Lists, b \in TablePages, c \in IndexPages, d \in Anything, e \in Anything}

\* Schemas that are not the fixed one.
Strange ==
    {Image(<<Schema(d, 0, 0, n), Leaf("rows", <<Row(0, 0)>>), Leaf("keys", <<>>)>>) :
        n \in {0, 3, 4},
        d \in {Both(0, 3), Both(1, 3), Both(3, 3), Both(2, 3), <<Definition("t", 2)>>,
               <<Definition("i", 3)>>, <<Definition(None, 4)>> \o Both(2, 3),
               <<Definition("t", 4)>> \o Both(2, 3), Both(2, 3) \o Both(2, 3)}}

\* A node with more children than there are pages.
Crowded ==
    {Image(<<Schema(Both(2, 3), 0, 0, 0),
             Interior("rows", 2, [i \in 1..n |-> Guide(2)]), Leaf("keys", <<>>)>>) : n \in 3..4}

\* A pointer map at page 2, the roots at 3 and 4.
NoMap == [p \in 1..MCMaxPage |-> [role |-> "none", parent |-> 0]]

MapPage(t, i, e) ==
    [Blank EXCEPT !.map = [NoMap EXCEPT ![3] = t, ![4] = i, ![5] = e]]

Entry(role, parent) == [role |-> role, parent |-> parent]

Mapped ==
    {Image(<<[Schema(Both(3, 4), f[1], f[2], 0) EXCEPT !.vacuum = TRUE],
             MapPage(t, Entry("root", 0), e), b, c, d>>) :
        f \in {<<0, 0>>, <<5, 1>>, <<2, 1>>},
        t \in {Entry("root", 0), Entry("node", 1)},
        e \in {Entry(r, p) : r \in {"node", "first", "later", "free", "root"}, p \in {0, 3, 4}},
        b \in Leaves("rows", {2, 5}) \cup {Interior("rows", 5, <<>>)},
        c \in {Leaf("keys", <<>>), Leaf("keys", <<Row(5, 1)>>), Interior("keys", 5, <<>>)},
        d \in {Leaf("rows", <<>>), Leaf("keys", <<>>), Link(0, <<>>)}}

MCInputs == Journals \cup Images \cup Strange \cup Crowded \cup Mapped

MCHolds == [n \in {"t", "i"} |-> IF n = "t" THEN "rows" ELSE "keys"]

MCCaps == [n \in {"t", "i"} |-> IF n = "t" THEN 1 ELSE 2]

\* Explored: a reader of a larger image that ran out of budget is left there.
Explored == phase = "Limit" => Len(input.main) < MaxPage
=============================================================================
