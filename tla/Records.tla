------------------------------ MODULE Records ------------------------------
(***************************************************************************)
(* The records of one Change and what can be computed from them            *)
(* (application/records.rs, the pure half of application/change.rs,        *)
(* content.rs and the control tables of sqlite/records.rs): which intake   *)
(* of content is coherent, which operation is valid against an accepted    *)
(* prefix, what accepting it adds, and what a reopened store rebuilds.     *)
(*                                                                         *)
(* The kernel is a parameter: Kernel(records, request, checks) is the      *)
(* effect of the request's command after these records, or no member of    *)
(* Effects when the kernel refuses it.  What it demands is declared by the *)
(* request: the contents and grounds `requirements' computes, and whether  *)
(* the host must judge it (discretion of Adapt, conditions of Admit and    *)
(* Dispatch).  Profiles, identities of other Changes, grants, creation     *)
(* limits and the entity claims a record repeats are left out.             *)
(***************************************************************************)
EXTENDS Naturals, Sequences, FiniteSets

CONSTANTS Ids,        \* operation ids
          Actors,
          Contents,   \* content keys of this Change
          Bytes,      \* what a content's payload can be
          Grounds,
          Versions,   \* of a ground
          Effects,
          None,
          Kernel(_, _, _)

\* A map from some of D: the other keys have no value.
Partial(D, R) == [D -> R \cup {None}]

Empty(D) == [x \in D |-> None]

Bound(f) == {x \in DOMAIN f : f[x] # None}

Citation == [operation : Ids, content : Contents]

Request ==
    [id      : Ids,
     actor   : Actors,
     uses    : SUBSET Contents,      \* contents the command names
     fresh   : Partial(Contents, [bytes : Bytes, by : Actors]),
     first   : SUBSET Contents,      \* declared first retentions
     cites   : SUBSET Citation,      \* references of proposed terms
     derived : SUBSET Citation,      \* what fresh payloads derive from
     grounds : SUBSET Grounds,
     judged  : BOOLEAN]

\* What the boundary says of an input: its bytes, and the source claim.
Observation ==
    [bytes : Bytes, by : Actors \cup {None}, known : BOOLEAN,
     kind  : {"New", "PreExisting"}]

Scopes == Ids \cup Contents \cup {"change"}

\* `mine': the represented owner is the owner of this Change.
Context == [actor : Actors, mine : BOOLEAN, shows : SUBSET Scopes]

Cases == {"Fresh", "FirstRetention", "KnownReuse"}

Snapshot ==
    [case : Cases, claim : Observation, prior : Ids \cup {None}]

Checks ==
    [expected : Ids \cup {None},
     context  : Context,
     intakes  : Partial(Contents, Snapshot),
     grounds  : Partial(Grounds, Versions),
     judgment : (SUBSET Contents) \cup {None}]

Record ==
    [sequence : Nat \ {0}, request : Request, checks : Checks, effect : Effects]

Establishment == [operation : Ids, by : Actors \cup {None}]

\* An accepted prefix in memory.
Prefix ==
    [records     : Seq(Record),
     established : Partial(Contents, Establishment),
     bytes       : Partial(Contents, Bytes),
     last        : Ids \cup {None}]

---------------------------------------------------------------------------
(* Intake of content *)

CaseOf(q, k) ==
    IF k \in Bound(q.fresh) THEN "Fresh"
    ELSE IF k \in q.first THEN "FirstRetention" ELSE "KnownReuse"

SnapshotOf(p, q, k, observation) ==
    [case  |-> CaseOf(q, k),
     claim |-> observation,
     prior |-> IF k \in Bound(p.established)
                 THEN p.established[k].operation ELSE None]

FreshFits(p, q, k, s) ==
    /\ k \in Bound(q.fresh)
    /\ k \notin Bound(p.established)
    /\ ~s.claim.known
    /\ s.claim.kind = "New"
    /\ s.claim.bytes = q.fresh[k].bytes
    /\ s.prior = None
    /\ s.claim.by = q.fresh[k].by

FirstRetentionFits(p, q, k, s) ==
    /\ k \in q.first
    /\ k \notin Bound(p.established)
    /\ ~s.claim.known
    /\ s.claim.kind = "PreExisting"
    /\ s.prior = None

\* Mutant: the retained bytes are not compared.
KnownReuseByName(p, q, k, s) ==
    /\ k \in Bound(p.established)
    /\ s.prior = p.established[k].operation
    /\ s.claim.known
    /\ s.claim.kind = "PreExisting"
    /\ s.claim.by = p.established[k].by

\* Knowledge and kind may change after the establishment; bytes and
\* attribution may not.
KnownReuseFits(p, q, k, s) ==
    /\ k \in Bound(p.established)
    /\ s.prior = p.established[k].operation
    /\ s.claim.known
    /\ s.claim.kind = "PreExisting"
    /\ k \in Bound(p.bytes) /\ s.claim.bytes = p.bytes[k]
    /\ s.claim.by = p.established[k].by

IntakeFits(p, q, k, s) ==
    \/ s.case = "Fresh" /\ FreshFits(p, q, k, s)
    \/ s.case = "FirstRetention" /\ FirstRetentionFits(p, q, k, s)
    \/ s.case = "KnownReuse" /\ KnownReuseFits(p, q, k, s)

---------------------------------------------------------------------------
(* Valid operations *)

EmptyPrefix ==
    [records |-> <<>>, established |-> Empty(Contents), bytes |-> Empty(Contents),
     last |-> None]

RecordsOf(records, id) ==
    {records[i] : i \in {j \in DOMAIN records : records[j].request.id = id}}

\* Mutant: only the last operation is remembered.
KnowsTheLast(p, id) == p.last = id

Knows(p, id) == RecordsOf(p.records, id) # {}

RecordOf(p, id) == CHOOSE r \in RecordsOf(p.records, id) : TRUE

BytesIn(intakes, k) == intakes[k].claim.bytes

DerivedContents(q) == {c.content : c \in q.derived}

\* What the operation binds once the host has judged it.
Required(q, judgment) ==
    q.uses \cup DerivedContents(q)
        \cup (IF judgment = None THEN {} ELSE judgment)

\* The cited operation bound the content, to the bytes it has here.
StandsIn(intakes, c, own) ==
    /\ c.content \in Bound(intakes) /\ c.content \in Bound(own)
    /\ BytesIn(intakes, c.content) = BytesIn(own, c.content)

\* Mutant: a citation is good if the content is known at all.
CitationOfAnything(p, q, c, intakes) == c.content \in Bound(intakes)

CitationStands(p, q, c, intakes) ==
    \/ c.operation = q.id /\ c.content \in Bound(intakes)
    \/ /\ c.operation # q.id
       /\ \E r \in RecordsOf(p.records, c.operation) :
            StandsIn(r.checks.intakes, c, intakes)

DerivationStands(p, q, c, intakes) ==
    /\ c.operation # q.id
    /\ \E r \in RecordsOf(p.records, c.operation) :
         StandsIn(r.checks.intakes, c, intakes)

\* The scope may be disclosed in this context.
Shows(context, scope) ==
    context.mine /\ ("change" \in context.shows \/ scope \in context.shows)

ValidCurrent(p, q, c) ==
    /\ c.expected = p.last
    /\ Shows(c.context, q.id)
    /\ ~Knows(p, q.id)
    /\ q.judged <=> c.judgment # None
    /\ Bound(c.intakes) = Required(q, c.judgment)
    /\ Bound(c.grounds) = q.grounds
    /\ q.first \subseteq Bound(c.intakes)
    /\ Bound(q.fresh) \subseteq Bound(c.intakes)
    /\ q.first \cap Bound(q.fresh) = {}
    /\ \A k \in Bound(c.intakes) :
         /\ c.intakes[k].case = CaseOf(q, k)
         /\ IntakeFits(p, q, k, c.intakes[k])
    /\ \A d \in q.derived : DerivationStands(p, q, d, c.intakes)
    /\ \A d \in q.cites : CitationStands(p, q, d, c.intakes)

---------------------------------------------------------------------------
(* Accepting and rebuilding *)

NewRecord(p, q, c) ==
    [sequence |-> Len(p.records) + 1, request |-> q, checks |-> c,
     effect |-> Kernel(p.records, q, c)]

\* The bytes a prefix knows, with those a record binds.
Learnt(known, intakes) ==
    [k \in Contents |->
        IF k \in Bound(intakes) THEN BytesIn(intakes, k) ELSE known[k]]

\* Mutant: only fresh content is established, not first retentions.
EstablishedFreshOnly(q) == Bound(q.fresh)

Established(q) == Bound(q.fresh) \cup q.first

EstablishmentOf(r, k) ==
    [operation |-> r.request.id, by |-> r.checks.intakes[k].claim.by]

Retain(p, r) ==
    [records     |-> Append(p.records, r),
     established |-> [k \in Contents |->
                        IF k \in Established(r.request)
                          THEN EstablishmentOf(r, k) ELSE p.established[k]],
     bytes       |-> Learnt(p.bytes, r.checks.intakes),
     last        |-> r.request.id]

\* A stored record is one this prefix could have accepted, snapshots included.
Interprets(p, r) ==
    /\ r.sequence = Len(p.records) + 1
    /\ r.request.actor = r.checks.context.actor
    /\ ValidCurrent(p, r.request, r.checks)
    /\ Kernel(p.records, r.request, r.checks) = r.effect

\* The prefix these records make, said of all of them at once.
PrefixOf(records) ==
    LET binding(k) == {i \in DOMAIN records : k \in Bound(records[i].checks.intakes)}
        establishing(k) == {i \in DOMAIN records : k \in Established(records[i].request)}
        of(I) == records[CHOOSE i \in I : TRUE]
    IN  [records     |-> records,
         established |-> [k \in Contents |->
                            IF establishing(k) = {} THEN None
                            ELSE EstablishmentOf(of(establishing(k)), k)],
         bytes       |-> [k \in Contents |->
                            IF binding(k) = {} THEN None
                            ELSE BytesIn(of(binding(k)).checks.intakes, k)],
         last        |-> IF records = <<>> THEN None
                           ELSE records[Len(records)].request.id]

---------------------------------------------------------------------------
(* The control tables beside the records *)

Tables == [memberships    : SUBSET (Ids \X Contents \X Cases),
           establishments : SUBSET (Contents \X Ids),
           materials      : SUBSET (Contents \X Bytes),
           grounds        : SUBSET (Ids \X Grounds \X Versions),
           results        : SUBSET (Ids \X Actors \X Effects)]

NoRows == [memberships |-> {}, establishments |-> {}, materials |-> {},
           grounds |-> {}, results |-> {}]

\* What one record puts into the tables.
RowsOf(r) ==
    LET id == r.request.id
        intakes == r.checks.intakes
    IN  [memberships    |-> {<<id, k, intakes[k].case>> : k \in Bound(intakes)},
         establishments |-> {<<k, id>> : k \in Established(r.request)},
         materials      |-> {<<k, BytesIn(intakes, k)>> : k \in Bound(intakes)},
         grounds        |-> {<<id, g, r.checks.grounds[g]>> :
                               g \in Bound(r.checks.grounds)},
         results        |-> {<<id, r.checks.context.actor, r.effect>>}]

Controls(records) ==
    [t \in DOMAIN NoRows |-> UNION {RowsOf(records[i])[t] : i \in DOMAIN records}]

\* No content has two payloads or two establishments, and none is established
\* that no record binds.
Coherent(records) ==
    LET all == Controls(records)
    IN  /\ \A x, y \in all.materials : x[1] = y[1] => x = y
        /\ \A x, y \in all.establishments : x[1] = y[1] => x = y
        /\ \A i \in DOMAIN records :
             Established(records[i].request) \subseteq Bound(records[i].checks.intakes)

\* Mutant: the rows of one record are inserted, but no row that is there for
\* its operation already counts as new.
AddedFromRecordAlone(records, r) ==
    [t \in DOMAIN NoRows |-> IF t = "materials" THEN {} ELSE RowsOf(r)[t]]

\* The rows an append inserts.
Added(records, r) ==
    [t \in DOMAIN NoRows |->
        Controls(Append(records, r))[t] \ Controls(records)[t]]
=============================================================================
