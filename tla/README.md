# ChangeKernel: a verification development

TLA+ modules, TLC runs and TLAPS proofs about the Rust library in `src/src`.
ChangeKernel keeps one *original* record of a negotiated change: an owner and an
agent propose, assess, adopt, undertake and revise terms; helpers act under
grants; native actions are admitted, dispatched and reconciled; every accepted
operation is appended to a durable log in SQLite that survives crashes and
refuses to show damaged history.

Paths below are relative to `src/src` unless they start with `src/`.

## 1. Inventory

| Component | State it keeps | Operations | Interacts with |
|---|---|---|---|
| Kernel, negotiation and pursuit (`kernel/change/rules.rs`, `model.rs`) | `State`: proposals, assessments, decisions, agreements, current, grants, actions, settlement | `transition`, one arm per `Command` | called by the Coordinator on a copy; asks `AuthorityFacts` and ground versions of the world |
| Kernel, content and its origins (`content.rs`, `rules.rs`) | `State.established`, `State.created`, the records | what a command needs and creates, `selected_origin`, `read_access`, the limit of a creation | composes with every command; grants select contents by origin; records are found by what they used |
| Coordinator (`application/change.rs`, `ports.rs`, `records.rs`) | `ChangeApplication`: the records and the State they produce, `fenced` | `execute`, `reconstruct`, `read`, `record` | kernel, Original through `ChangePorts`, host callbacks |
| Original (`adapters/sqlite/original.rs`, `ports.rs`) | one open store, its activation | `start`, `open`, `submit`, `resolve_original`, `activate`, `read`, `close` | Durable store, Coordinator, Register |
| Durable store (`backend.rs`) | `allocation.ctrl`, `custody.ctrl`, `ledger.sqlite` and its `-wal`/`-shm` | `allocate`, `provision`, `open`, `mutate`, `checkpoint_passive`, `close`, `drop` | Custody, Publication, Preflight, SQLite |
| Publication of control files (`control.rs`) | a control file, its successor under a temporary name | `publish_allocation`, `publish`, `replace`, `read_named` | the file system, Custody |
| Inspection (`preflight.rs`) | a private copy of the files | `inspect`, `proof_journals`, `proof_main` | Durable store |
| Writer custody (`custody.rs`) | lock files, pinned inodes | `acquire`, `pin`, `verify` | Durable store |
| Register (`register.rs`) | a second store whose log reserves, binds and includes originals | `create`, `reconcile` | Durable store, Original |
| Bounded reads (`application/read*.rs`, `sqlite/read.rs`, `cold_read.rs`, `native_read_budget.rs`) | the private copy, the budget, the client's cursor | `resolve`, `scan`, content reads, `debit`, `verify_source` | the files of a Durable store, Custody, host callbacks |
| Admission of a read copy (`native_read_shape.rs`) | roles and parents of the pages of one copy | replay of the journal, walk of trees, chains, free list, pointer maps | Bounded reads, before SQLite opens the copy |
| Record tables (`records.rs`, `schema.rs`) | SQL rows derived from records | `append`, `load`, `validate` | Durable store |
| Codec, Read adapter | none | conversions between Rust types, Protobuf and JSON | everything at the edge |
| Local boundary, Platform | none | traits of the host, entropy, SQLite version check | everything at the edge |

Which behaviours are hard, and what makes a component correct:

* **Kernel.** No concurrency, but long legal sequences by several actors: rival
  proposals, decisions that go stale between the two halves of an agreement,
  retractions and reaffirmations, grants replaced while actions wait in the
  queue, outcomes reported late and twice, settlement in the middle of all of
  it. Correct when agreements form one line, rest on both parties, carry every
  blocker, and when nothing queued under an old permission ever runs.
* **Durable store.** The process can be killed, or a call can fail, between any
  two of: a witness publication, a COMMIT, a page copy, a rename of a journal.
  A file can vanish or be replaced by an older one. Correct when a store never
  goes live on less than everything committed, never reports a guess as an
  answer, never undoes a commit it cannot disprove, and can be reopened when
  nothing is in doubt.
* **Coordinator.** The world moves between reading the context and keeping the
  record; the store may answer *refused*, *not accepted* or *I do not know*.
  Correct when memory changes exactly when the record is known to be kept, when
  a retry answers with the original record and a different request under a
  known id is a conflict.
* **Register.** Creation spans two databases and a directory and is resumed by
  the same request. Correct when one Change never gets two originals.
* **Content.** What a grant reaches changes with what is made under it; a
  delegate's rights have to span the whole of what he judges, parts carried over
  from earlier agreements included. Correct when a grant reaches what it lists or
  what was made under that very generation, and a record is found by what it
  rests on and by nothing else.
* **Publication and custody.** A kill or a loss of power between any two of write,
  sync, rename and directory sync; copies of the directory and replaced lock
  files, which give two processes a lock each. Correct when the store keeps a
  whole witness that descends from the last acknowledged one, and one process at
  a time can write it.
* **Reads.** A call is interrupted by host callbacks while a permission is
  withdrawn, the source replaced or the budget used up; a walk spans several calls
  while the log grows. Correct when every answer is the history, nothing is
  released without a permission held at the end, work is charged before it is
  done, and page boundaries neither skip nor repeat.
* **Admission.** Pages of a copy may say anything at all and refer to each other in
  cycles. Correct when the image is that of the last commit, and what is admitted
  is well formed, whichever order the walk takes, and the walk ends.

## 2. Plan

Written, in this order:

1. `Agreements` – the negotiating half of the kernel;
2. `Pursuit` – composes it with grants, native actions, observations and
   settlement; `MCPursuit` instantiates it;
3. `PursuitProofs` – theorems about it;
4. `Ledger` – what an original promises, abstractly;
5. `Store` – the durable store in detail, shown to implement `Ledger`;
6. `StoreProofs` – theorems about it, the refinement included;
7. `Records` – the pure half of the Coordinator: which intake and which
   operation is valid, what accepting one adds, what a reopened store rebuilds;
8. `Coordinator` – composes `Records` with host callbacks that come one by one,
   the guarded cut and a store that fails; shown to implement `Ledger`;
   `MCCoordinator` instantiates it;
9. `Inclusion` – what the register and the originals promise together;
10. `Creation` – the register's `reconcile` over two stores and a directory,
    shown to implement `Inclusion`; `MCCreation` instantiates it;
11. `CreationProofs` – the safety of `Creation` for any number of Changes,
    requests, failures and moves, and its refinement of `Inclusion`;
12. `Reading` – extends `Store` with the calls of a reader that has no writer: its
    callbacks, lease, copy, budget, answer, and a client's walk over pages;
    `MCReading` instantiates it;
13. `Admission` – the replay and the page walk of a read copy, against a reference
    definition of a well-formed image; `MCAdmission` has the copies;
14. `Publication` – how a control file is replaced and who may do it, shown to
    implement `WitnessRegister`, the one-step register that `Store` takes a
    publication for; `PublicationProofs` – theorems, the refinement included;
15. `CoordinatorProofs` – the safety of `Coordinator` and its refinement of `Ledger`
    for any requests, worlds and kernel;
16. `Provenance` – extends `Pursuit` with contents, origins and records;
    `ProvenanceProofs` – it implements `Pursuit`, and its own theorems;
17. `AdmissionProofs` – the replay is the one of the last commit, an admitted image
    has one owner for each page, the verdict is the reference's, and the walk ends, for
    copies of any shape;
18. `ReadingProofs` – what a reader is told is the history, permitted and paid for, and
    his pages cover what he selected exactly, over any store, host and budget.

Next:

19. The rules of custody paths (`custody.rs`: modes, owners, ancestors), once there
    is a model of what another user of the machine may do between two checks.
20. The native formulas for allocation and work (`native_read_budget.rs`), as
    arithmetic over bounded inputs.

## 3. Modules

Every definition that stands for code is tied to its source lines in
`PROJECT.json` (`map`). An operator under a comment that starts with "Mutant" is
not part of the model: it is the definition after it with a plausible bug.

### Agreements and Pursuit: `kernel/change`

`State` is the variables `initiated`, `proposals`, `assessments`, `decisions`,
`agreements`, `current`, `settlement` (Agreements), `grants`, `actions` (Pursuit)
and `observations`, the part of accepted records that no `State` field holds.
`grounds` is the world outside. A command is one action with all the conditions
of its arm of `transition`; a refused command drops the candidate copy of the
state and is a stuttering step.

| Code | Action |
|---|---|
| `Initiate`, `Propose`, `Assess` | `Initiate`, `Propose`, `Assess` |
| `Decide` with `activate` | `Decide` (`Activate`, `Supersede`, `ExtendCurrent`) |
| `Retract`, `Reaffirm` | `Retract`, `Reaffirm` |
| `SetGrant`, `RevokeGrant` | `SetGrant`, `RevokeGrant` |
| `Admit`, `Dispatch`, `Reconcile` | the same |
| `Finding`, `Adapt`, `Progress` | the same |
| `Fulfill`, `Withdraw` | `Fulfill`, `Withdraw` (`Settle`) |
| the ground port answers differently | `GroundMoves` |

Left to `Provenance`: origins, created contents and `validate_roles`; here a grant
covers a command when it lists the items the command names, and these are any set.
Left out: draft grants for another Change (refused at once). `TypeOK` includes that
stored references name something that exists.

### Provenance: `kernel/change/content.rs`, with `rules.rs` and `application/read.rs`

`established` maps a content to the operation that first bound it, `created` to the
origin of a content made here; `memberships` has a reference for every content that
the checks of any operation bound, `statements` those a proposal states its binding
terms under; `accepted` counts the operations, `record` is the stored operation of the
last step. A command is one of Pursuit's and, in the same
step, `Accept`: intake of everything the command needs (`requirements`), the checks
on what it brings, retention, and the record.

| Code | Action |
|---|---|
| `Initiate`, `Propose` with `validate_roles`, `Assess` | `Begin`, `Draft`, `Evaluate` |
| `Decide`, `Reaffirm`, `Retract` | `TakeDecision`, `Renew`, `TakeBack` |
| `SetGrant` with `validate_origin_selectors`, `RevokeGrant` | `Entrust`, `Revoke` |
| `Finding`, `Adapt`, `Progress` | `Report` (`Observed`) |
| `Fulfill`, `Withdraw` | `Conclude` |
| `selected_origin`, `discloses_content`, `read_access` | `Selected`, `Disclosed`, `Readable` |
| `derivation_references`, `proposal_references`, `Terms::references` | `Citing`, `Statements` |
| `PublicRecord::from_stored`, the visitor of a record | `PublicRecord`, `Visited`, `FoundBy...` |

The items that Pursuit asks a grant to list are here the contents the command needs
less those it brings and those the grant selects by origin, so Pursuit's choice of
items is made by the code's own rule. Native actions create nothing and stay with
Pursuit. A content is created once, so its origin is bound by the operation that
established it.

A citation need not name that operation. The caller chooses one that bound the content:
for the sources of a fresh content an earlier one (`derivation_references`), for the
terms of a proposal that one or the proposal's own (`proposal_references`), for progress
some of the references under which the terms were stated. A command may cite one
content under several references, up to `MaxCitations`. So a reader finds a record by
operations that no `prior_establishment` names, and `FoundWhereUsed` compares what finds
it with priors, sources and citations together: each of them stands in `memberships`
under a content the record bound, and for each such content the establishing reference
is among them.

### Ledger and Store: `backend.rs`, `control.rs`, `preflight.rs`, `custody.rs`

| Code | State |
|---|---|
| `allocation.ctrl` exists | `allocation` |
| `custody.ctrl` | `witness`: phase, journal object, cut, pending mutation |
| `ledger.sqlite` alone | `main` |
| `-wal` and `-shm` at their paths | `wal`: object and what main and journal show together |
| the process: how far which call is | `pc`, `inode` (its connection's journal), `found` |
| history | `committed`, `verdict` |

Each witness publication, each SQLite COMMIT and each page copy that can be seen
half done is a step. `Provisioning` is allocate, resume and provision, `Opening`
is `open` from inspection to the Live publication, `Serving` and `Mutating` are
the calls on a live handle, `Closing` is `close`, `Environment` kills the
process, fails calls and damages the journal.

Abstracted: a database is the sequence of operations it holds; generation and
epoch only number the publications; `-wal` and `-shm` are one object; a publication
is one step (see `Publication`). Not modelled: loss of pages of the database that
were written and not synced (the repository leaves power loss unqualified too,
`src/CHANGEKERNEL_STATUS.md:41`), and a journal swapped while SQLite is inside its
own connect call.

`Ledger` is the abstract side: one attempt at a time, each operation takes effect
at most once and in order, and a caller is told *accepted* or *absent* only when
no attempt of it is open.

### WitnessRegister and Publication: `control.rs`, `custody.rs`

| Code | Action |
|---|---|
| `acquire`, with and without create | `Create`, `Acquire` |
| the canonical witness is read and believed, an allocation is resumed | `Open`, `Resume` |
| `publish`, `publish_allocation`, `replace`: the first checks and the temporary file | `Begin` |
| header, payload twice, footer; sync | `Write`, `SyncFile` |
| rename, sync of the directory, reading back | `Rename`, `SyncDirectory`, `Confirm` |
| the process ends, is killed, or gives up | `Stop` |
| the machine loses power | `LosePower` |
| the directory is copied, another one put in place, an object replaced | `Copy`, `Swap`, `Replace` |

A directory keeps for each name the entry that is on disk and those renamed over it
since the last sync; losing power brings any of them back and tears files that were
not synced. A file says the chain of marks up to its own, the object it was written
to and the directory, lock file and database it was written for. Other users of the
path act at rest only: the code declares a hostile process of the same user during a
publication outside its protection. `WitnessRegister` is the abstract side: one value
that is shown, a part of its chain that is kept.

### Records and Coordinator: `application/change.rs`, `sqlite/ports.rs`, `records.rs`

`Records` is pure: `IntakeFits`, `ValidCurrent`, `Retain`, `Interprets`,
`PrefixOf`, and the control tables (`RowsOf`, `Added`, `Coherent`). `Coordinator`
adds the world, the store and the calls:

| Code | Action |
|---|---|
| `execute`, from the context to the candidate | `BeginSubmit`, `ResolveContent`, `ContentsBound`, `ReadGround`, `Judge`, `Plan` |
| `execute` of a known id, `read` | `BeginRecover`, `BeginRead` |
| `accept` under the host's guard | `Lock`, `Declare`, `Commit`, `Finalize`, `Publish` |
| `accept` fails half-way | `FailMutation` |
| `disclose_checked`, `resolve_original` | `DiscloseOriginal`, `DiscloseRead`, `ResolveAbsent` |
| `reconstruct` | `BeginOpen`, `Interpret`, `FinishOpen` |
| any callback refuses | `Refuse` |
| the host's world changes between callbacks | `WorldMoves` |
| `close`, a kill, files that are lost or damaged | `Close`, `Crash`, `Damage` |

The world stands still while the guard is held: the trait's contract asks
implementors to serialize relevant mutations with the lock (`local.rs`). The
kernel is a constant operator `Kernel(records, request, checks)`; a request
declares the contents and grounds that `requirements` computes and whether the
host must judge it. A call carries its kind, its request, what it is about, its stage and
the checks made so far. The discretion and the native-conditions ports are one
judgment. Left out: profiles, identities of other Changes, the entity claims a record
repeats, the scope of a content's origin, and, as part of the kernel's answer, grants
and creation limits (see `Provenance`). `Acceptance::NotAccepted` is never returned
by `StorePorts` and has no action.

### Inclusion and Creation: `register.rs` with `backend.rs` and `original.rs`

`entries` are the rows of the register, `register` its handle, `dirs` every
directory ever made with its files and the state of the original in it, `job` the
`reconcile` in progress, `told` every answer given.

| Code | Action |
|---|---|
| `create`, `reconcile`: the first look at the register | `Ask` |
| reservation, binding, inclusion mutations | `Reserve`, `Bind`, `Include` |
| `Backend::allocate` | `MakeDirectory`, `PublishAllocation`, `PublishWitness` |
| `validate_pending`, resumption of an allocation or a bound original | `ResumePreparation`, `OpenBound` |
| `provision`, `Original::start`, `activate` | `Provision`, `Start`, `RecoverStart`, `Activate`, `AlreadyActive` |
| a check inside a closure fails | `BindFails`, `IncludeFails`, `ActivateFails` |
| host or I/O refusals | `Refused`, `IncludeRefused`, `GiveUp` |
| progress returned after the Start is disclosed again | `Answer` |
| `Original::open` by reference, its owner working, closing | `OpenOriginal`, `Work`, `Leave` |
| kill and `Register::open` | `Kill`, `Reopen` |
| the directory is renamed by others | `Move` |

Each mutation of either store is one step with the outcomes `Store` and `Ledger`
justify: done; made or missed and the handle fenced; declared possible and missed,
after which that store never opens again. Left out: frames and digests,
`CreationIntent::check`, issuer mismatch (each one more refusal), and
`bootstrap_new`, `close` and `checkpoint`, which are `Store`'s. A caller may hold
the reference of a bound original before its receipt exists; `Original::open` has
to refuse it, and `OpenOriginal` tries.

`Inclusion` is the abstract side: reserved, bound, started, included, active, in
this order, never undone, one original per Change and one Change per original, and a
caller told of progress only when it is true.

### Reading: `cold_read.rs`, `sqlite/read.rs`, `application/read*.rs`, `preflight.rs`

`Reading` extends `Store`: the files a reader copies are those a writer left, in any
state `Store` can leave them. `call` is the read in progress with what it has
gathered, `answer` the last reply, `walk` a client's traversal of a range.

| Code | Action |
|---|---|
| limits out of range, the host cannot be locked | `Turned` |
| `read_context`, `authorize`, `custody_permission` before anything is touched | `Look`, `Authorize`, `AuthorizeCustody`, or `Deny` |
| the writer lease and the witness | `Lease` |
| `ReadCopy::capture` | `Capture` |
| `read_inspection`, `current_cut`, the first `verify_source` | `Verify` |
| any of these fails or is not affordable | `Fail` |
| `disclose_retained_content`, the frame of the reply | `Pack` |
| the same permissions again, then the context | `Recheck`, `LookAgain` |
| the last `verify_source`, then the reply or the preferred refusal | `FinishReply`, `FinishRefused` |
| `resolve`, `scan` page by page | `Begin`, `FinishPage` (`PageReply`) |
| the host changes its answers, the process is killed | `WorldMoves`, `Kill` |
| the files: a writer, or a journal lost or replaced | `StoreStep` |

Of the budget, source lengths and I/O are counted in units of a record; allocation
and work are charged in the same way and may run out wherever they are charged. The
reply is a function of the private copy and is computed where it is released. The
original was activated, so its receipt is not looked at. A cursor names no reader:
only the owner of the Change reads here.

### Admission: `native_read_shape.rs`

A page is what it can be read as, a node of a tree or a link of a list; a reference
from one page to another is a *claim*, and `owner` says which claim a page was
granted to (the roles and parents of the code).

| Code | Action |
|---|---|
| the loop over frames, the index of pages | `TakeFrame`, `RefuseFrame`, `EndJournal`, `PlaceFrame`, `FinishReplay` |
| size, header, pointer-map pages | `BeginWalk`, `RefuseImage` |
| `tree`: a node, its cells, their overflow chains, the way back, the next tree | `Enter`, `ReadCell`, `Follow`, `Leave`, `NextTree` |
| `freelist`: trunks and leaves | `BeginFreeList`, `TakeTrunk`, `TakeListed`, `LeaveTrunk` |
| every page owned, counts and pointer maps agree | `Admit`, `RefusePages` |
| the walk is charged and the budget ends | `RunOut` |

Whether a header, a cell or a record is laid out well inside its page is one bit,
and so is whether a frame carries the salt and the checksum of its place.

## 4. What is model-checked

| Run | Instance | Properties | Shows |
|---|---|---|---|
| `agreements` | 3 rival proposals, 2 assessments, 4 decisions, one blocker | `TypeOK`, `LinearHistory`, `AgreementStands`, `SupersededNeverReturns` | agreements form one line, rest on both parties, carry blockers, never return |
| `grounds` | 1 proposal with or without criteria, 2 assessments, 3 decisions, a ground that moves once, one blocker; findings | `FulfilledResolvesEveryBlocker`, `ActivationOnFreshGrounds` | an agreement starts on fresh grounds; fulfilment resolves every endorsed blocker |
| `revision` | 2 proposals, 1 grant with 3 generations, 1 action, one progress report | `NothingRevives` | a superseded agreement is inert, a grant use never revives |
| `queue` | 2 grants with 2 generations, 1 action, a ground that moves once, settlement, one adaptation | `QueueIsSafe` | a permission once invalidated never dispatches; no dispatch is replayed |
| `contents` | 1 proposal, 1 grant with 5 shapes and 2 generations, 2 contents, a ground that moves once, 7 operations, up to two citations of a content by a command | `DelegatesKnowTheWhole`, `FoundWhereUsed`, `SettlementFreezesPursuit`, `ReachIsGranted` | what a grant reaches, what a delegate must hold, what a record is found by whichever binding of a content it cites, what ends with settlement |
| `store_cuts` | 2 operations, 2 damages, 3 kills or failures, fairness | `WitnessTellsTheTruth`, `LiveShowsEverything`, `NoAutomaticAbort`, `ImplementsLedger`, `OpensAgain` | the store never goes live on less than everything committed, never guesses, implements `Ledger`, and opens again when nothing is in doubt |
| `coordinator_races` | 2 requests under one id and one more content, 2 moves of the world, 2 failures | `MemoryIsHistory`, `TrueWhenKept`, `HonestAnswers`, `ShownOnlyInContext`, `ImplementsLedger` | what is kept or shown is true and allowed at that moment; answers are final; implements `Ledger` |
| `coordinator_sharing` | 2 contents, 2 ids, 2 actors, 2 moves of the sources | `AlwaysReadable`, `ContentStands`, `ReadsAreHistory` | stored records stay readable, a content has one meaning, citations stand, reads are history |
| `creation_rivals` | 2 Changes at one path, 2 encodings, a rival Start, 2 failures or kills, 2 moves, fairness | `OriginalIsTheFirst`, `WorkNeedsInclusion`, `AnswersCanBeReliedOn`, `ImplementsInclusion`, `PendingCreationCompletes` | no second original, the first request is kept, work needs inclusion, honest answers, implements `Inclusion`, an interrupted creation completes |
| `reading_calls` | a store of 2 operations, 1 damage, 1 kill, 1 move of the host, pages of six limits, budgets of 9 lengths and 90 units of I/O | `AnswersAreTheHistory`, `NothingWithoutPermission`, `WorkIsReserved`, `CoverageIsExact` | a reader is told the history or refused; nothing leaves without a permission; pages cover a range exactly |
| `admission_copies` | journals of up to 3 frames, images of up to 5 pages, depth 3 | `WalkEnds`, `ReplayIsLastCommit`, `AdmissionIsExact` | the image is the last commit's; admitted exactly when well formed; every step leaves less to do |
| `publication_losses` | 2 processes, 2 directories, 4 witness files, 2 replacements, 2 losses of power | `AuthorityIsOne`, `WitnessSurvives`, `ImplementsRegister` | one writer, one chain of witnesses, nothing acknowledged is lost |

Why the bounds are enough to be interesting. *Agreements*: three proposals are
needed for two of them to compete to succeed the first, and a fourth decision to
complete the loser after the winner is in force. *Grounds*: one move separates the
two halves of an agreement, and a third decision renews one of them. *Grants*: a
third generation tells "the newest" from "any newer". *Contents*: seven operations
reach an agreement (start, proposal, assessment, two decisions) with a grant in
force and one act under it; each shape of the grant exists for one of the rules.
There is one agreement and no queued action: blockers carried from earlier agreements
and dispatch after settlement are left to the theorems `DelegatesKnow` and
`SettledStaysSettled`.
Seven operations also end in a progress report that cites a statement under a binding
later than the first, and a second citation tells the statements of a content from its
other citations.
*Store*: two operations are needed for an older journal that is not empty, the
second damage hits the opening that follows the first, and three kills hit a
mutation, its recovery and the close after it. *Coordinator*: two moves let the
world go away and come back (the check that compares only endpoints is not fooled by
what is then the same state; one that does not compare at all is). *Creation*: two
moves take a directory away and put another in its place, two failures interrupt the
retry of an interrupted call. *Reading*: two records make a page boundary, the six
limits end a page for each of its three reasons; the ceilings let a call with one
record pass and stop one with two at different places; a damage puts an older
journal in place. *Admission*: five pages hold a schema, two trees, a chain of two
pages and a free page, or a pointer map; three frames hold a commit, a frame after it
and a torn one. *Publication*: two losses hit a publication and its repetition, four
files are an allocation, a witness, its successor and a copy or a retry.

### Constraints

* Ids are numbers in `MCPursuit` and `MCProvenance`, and `IdsInOrder` keeps states that
  took them in order: the kernel compares ids only for equality, so every other state
  is a renaming of one that is kept.
* `CitedWhereEstablished` (`MCProvenance`) looks at every record that cites a later
  binding of a content, but goes on only from those that cite the establishing one and
  from proposals stated before any grant, whose statements progress may cite.
* `ReportsMakeSomething` (`MCProvenance`) looks at every finding, adaptation and progress
  report, but goes on only from those that make a content: the others leave nothing but
  one more binding of what they bound. The theorems have neither limit.
* `FewRewritten` (`MCProvenance`) admits one command beyond those that change the
  structure: a report, a renewal or a retraction leaves the state as it was or nearly
  so, and many of them only repeat what one shows. The theorems have no such limit.
* `Explored` (`MCReading`) leaves out what makes no difference to a reader: what
  callers of the writer were told, a call waiting while a writer works, a host that
  has moved between calls; and walks go on only over a store nobody damaged, whose
  pages the other calls read.
* `Explored` (`MCAdmission`) leaves large images once their budget ran out; small ones
  run out everywhere.

Deadlock is not checked where the system really stops: a settled Change whose reports
are used up, a store that is blocked or has used its operations, a process killed as
often as the bound allows, a copy that has its verdict.

### Fairness

None for the kernel, the Coordinator, reads, admission and publication: their
promises are safety, and a read or a publication that is not finished owes nothing.
`Store`'s `FairSpec` has weak fairness of an opening in progress and of `Drop`, which
Rust runs when a fenced handle goes out of scope. Nothing is fair about damage or
kills, and kills are bounded. `Creation`'s `FairSpec` has weak fairness of a call in
progress and of reopening the register, and strong fairness of the caller of each
reserved Change asking again; the last is an assumption about callers, who hold the
request and get an answer only by making it again. Refusals, failures and moves are
bounded, which says that they cease.

## 5. What is proved

For every value of the constants, with `tlapm`. Each module proves an inductive
invariant, one lemma per action, and derives the properties the runs check.

| Module | Theorems that state a checked property |
|---|---|
| `PursuitProofs` | `TypeCorrect`, `HistoryIsLinear`, `SupersededStaysSuperseded`, `AgreementsStand`, `FulfilmentIsComplete`, `ActivationIsFresh`, `QueuedRunOnceOrNever`, `NothingEndedRevives`, `SettledStaysSettled` |
| `ProvenanceProofs` | `SettledWithItsContents`, `UsesAreFound`, `ReachStaysGranted`, `DelegatesKnow` |
| `StoreProofs` | `WitnessHolds`, `LiveIsComplete`, `DoubtIsForever`, `StoreKeepsPromise` |
| `PublicationProofs` | `AuthorityHolds`, `WitnessIsKept`, `RegisterKept` |
| `CoordinatorProofs` | `MemoryKept`, `Readable`, `KeptIsTrue`, `Content`, `AnswersHold`, `Reads`, `Shown`, `LedgerKept` |
| `CreationProofs` | `FirstKept`, `InclusionComesFirst`, `AnswersHold`, `CreationImplementsInclusion` |
| `ReadingProofs` | `AnswersAreTrue`, `PermissionComesFirst`, `WorkComesReserved`, `CoverageHolds` |
| `AdmissionProofs` | `ReplayKept`, `AdmissionKept`, `AdmissionTerminates` |

**PursuitProofs.** `LinearHistory` is not inductive: a new agreement must not take the
id of an old one, which needs that one proposal only claims an agreement id
(`UniqueAgreementIds`). `StandingInv` adds, for the other state properties, that the
decisions of the owner adopt, without blockers, and those of the agent undertake
(`Parties`), that only the two decisions of an agreement are matched to it
(`MatchedBelong`), and that whatever blockers a
matched decision has, the agreement in force carries (`EndorsedIsCarried`): this is
what a reaffirmation can break. `ActivationOnFreshGrounds` follows from the step alone
with it. The action properties about the queue and about revival rest on facts of the
form *this only grows*: generations of grants, versions of grounds, the line of
agreements (`GrantsAdvance`, `WorldAdvances`, `Supersession`), and on `QueueInv`, that a
queued action names a generation the grant had and versions the grounds had. From
them `UsesStayEnded`: a use that was once refused is refused for ever. A permission
that was invalidated while queued is then dead at dispatch.

**ProvenanceProofs.** `ContentsImplementPursuit`: every step of `Provenance` is a step of
`Pursuit`, with the contents among the needed items as the items. So Pursuit's theorems
hold of it. Its own rest on one fact about all commands, `AcceptedStep`: a step accepts
one operation that is `Orderly` (what it brings is derived from what was bound, what it
cites is needed, and bound by then or by itself) or accepts none. `ProvenanceInv` adds
to `StandingInv` that every content is a membership of the operation that established
it and every proposal was stated under memberships (`CitationsInv`), that an origin is what was
recorded, under a generation its grant had reached, that grants select only origins
that exist (`OriginsInv`), and that terms and blockers are established (`Known`). A
replaced grant then cannot select by *own* what an earlier generation made, because
the generation in an origin is not above the grant's at that time.

**StoreProofs.** `InvariantHolds` proves `StoreInv`. The heart of it: every file, whatever
was lost, put back or torn, holds nothing or a prefix of what was committed, so two
contents with the same cut are the same content; and the witness brackets the truth by
one declared commit. A content that answers to the witness's cut is then everything.
The rest of `StoreInv` says, for each place of the process, what the steps before it
established. `StoreKeepsPromise` is the refinement of `Ledger`. `NoAutomaticAbort` is
temporal, but its proof is not about fairness: when a process died between declaring a
commit possible and making it, no file there is or will be holds the cut that would
settle the doubt, no opening gets past it, and no step changes that
(`DoubtIsNotSettled`, `DoubtStays`).

**PublicationProofs.** `PublicationInv`: no two processes hold one lock file, and
whatever a file says was written for the first directory, copies of it included, so
nobody is let in by another (`Alone`); a process in the middle of a publication still
holds what is at the path and has written what it knows and one mark more (`Engaged`);
every entry that a loss of power can bring back is whole (`Whole`); and the entries of
the witness form a chain from the acknowledged one to the one shown (`Chain`).
`RegisterKept` reads the steps of `WitnessRegister` off this: a rename shows, a
confirmation keeps, a loss takes back at most to what is kept.

**CoordinatorProofs.** `CoordinatorInv` has a part for the database, the handle, the call
at each of its stages, the guard, the attempt, and what callers were told. The argument:
`History(log)` says each record is valid over the records before it, under the very
rules of `reconstruct`, and `RetainIsPrefix` says that what `execute` adds to memory
is what `reconstruct` rebuilds from one record more. So a candidate that was published
is `PrefixOf(log)`, and an opening that has read some of the log holds the prefix of
just these. `TrueWhenKept` follows from `Revalidated` under the guard, since the world
does not move there. `LedgerKept` maps the records to their requests.

**CreationProofs.** `CreationInv`: a row says what must be true of
the directory it binds (`RowFits`), a directory holds nothing the row does not allow
(`DirectoryFits`), and each place of the call says what the steps before it established
(`CallFits`): that a call which reserved finds no directory of its Change is what keeps
a second one from being made, and that the directory it holds is neither opened nor
let go by others is what makes its later writes safe although the call looked at it
long before. Every step satisfies `Advances`: nothing a row or an original says is ever
undone; answers stay true because of it. The standing of a Change is read off its row
and the directory the row binds, so the steps that write a row, make the Start or the
receipt of an original, or answer are one abstract step each or none, depending on
whether the mutation took effect, and all others stutter.

**ReadingProofs.** `ReadInv` extends `StoreInv` by three invariants of the call in
progress. `SourceInv`: while the lease is held the store is down and only the journal
changes; a copied file holds a prefix of the log, and one that answers to the witness
holds all of it (`ResolvedIsLog`), so what was verified is the log and stays it.
`PermitInv`: what the callbacks after packing permitted was permitted since packing,
whatever the host changes later. `WorkInv`: at each stage what is reserved and not yet
moved covers the comparisons still to come, which is why the reserve of a capture is
sixteen times its size (`CaptureMoves` is at most eight). A page is true because a scan
stops where the first record is not taken, which exists by `Least`, and because a page
that promises more has advanced (`PageIsTrue`). For a walk of several pages (`WalkInv`),
the pages received are the selected records of the part of the log up to the cursor
(`Covers`); that part never changes, because the log only grows
at its end. Joining a page is a fact about sequences (`MatchingJoins`): what is selected
from two adjacent parts is what is selected from both, shown by the rank of each place
among the selected ones (`Rank`, `Nth`), without recursion. `ReadersLeaveTheStore`: a step of
a reader is a step of `Store` or none, so the theorems of `StoreProofs`, the temporal ones
included, hold with readers beside the store.

**AdmissionProofs.** For the replay (`ReplayInv`): the frames taken belong, none after the
last commit commits, and while frames are placed each page comes from the last of those
placed that is of it. For the walk (`ClaimsInv`): a claim that is demanded, by the roots
or by a page that was granted, was granted itself or is *waiting*, on the stack, among
the trees to come, in the chain being followed or in a slot of the page that was not
read yet; and only what is demanded waits or is granted. A step that grants a page puts
the claims of that page among those that wait, and nothing else stops waiting. At the
end nothing waits, so every claim was granted, and a granted claim owns its page alone:
`OwnersKept`. Nothing is assumed of the pages, so this holds of cycles and shared pages.

`AdmissionIsExact` compares the verdict with `WellFormed`, which follows the claims from the
roots and never looks at the walk. What the roots lead to is the least set that has the
roots and all that its members claim (`Reachable`), and as many steps as there are pages
reach all of it when no two claims name one page (`ReachedClosed`,
`ReferenceIsReachable`). `ExactInv` says that what is granted is fit for what it was
claimed as and the free pages are counted (`SoundInv`), that the trees named by the
schema are known while they are walked (`SchemaInv`), that no claim waits twice or after
it was granted (`OnceInv`), and that a verdict, once given, is the reference's
(`VerdictInv`). In a coherent image whatever waits can be granted (`WaitingFits`), so a
refusal as corrupt shows an image that is not; at the end what was granted is all that is
reachable (`AllReached`, `LastLook`), so what is admitted is coherent.

`AdmissionTerminates`: `Work` lists how far the admission is, the frames left, the pages
nobody owns, the slots left of the page being read, the trees to come; each step
lessens one of them and leaves those before it. That a grant takes one from the pages
is where `mark` refuses what is owned. `LessIsWellFounded`: there is no endless sequence
of such steps. So the verdict of any copy comes after finitely many steps, with no
assumption of fairness but that the reader goes on.

**Assumptions.** Each module names what it asks of its constants (`NoneAssumption`,
`StoreAssumption`, `CreationAssumption`, `PublicationAssumption`, `CoordinatorAssumption`,
`ProvenanceAssumption`, `AdmissionAssumption`, `ReadingAssumption`, `AbsentAssumption`, ...): kinds and finiteness where the code has them, and that the
marks for *nothing* and *torn* are no values of another kind. TLC evaluates all of them
in the runs.

**Only model-checked.** The liveness properties `OpensAgain` and `PendingCreationCompletes`,
which rest on fairness and so on ENABLED, which this prover does not treat. Every other
property of a run is stated by a theorem. Where an argument needs induction it is over
the members of a set of numbers (`Upwards`, `Least`), since the library's theorems with
an operator as a parameter cannot be used.

## 6. What is not modelled

* The codec and the read adapter: conversions without state, field by field.
* The local boundary and the platform: traits of the host, whose answers are inputs of
  the models; entropy and the version check of SQLite.
* Inside a page of SQLite: headers, cells, record formats, checksums. They are one
  bit in `Admission`.
* The native formulas for allocation and work of a read: a refusal that may come
  wherever they are charged.
* Of custody: path rules, modes, owners; and other processes of the same user that move
  files during a publication, which the code does not claim to withstand.
* Of content: contents of other Changes (refused at once), the byte limit of a creation,
  native actions that carry created contents.
* Of the record tables: the tables of grants and creations, the schema text, frames and
  digests. The tables of contents, grounds and results are in `Records`.
