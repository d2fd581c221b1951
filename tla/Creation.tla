------------------------------ MODULE Creation ------------------------------
(***************************************************************************)
(* Creating originals (sqlite/register.rs reconcile, with the calls it     *)
(* makes of sqlite/backend.rs and sqlite/original.rs).  One request walks  *)
(* through two databases and a directory: reserve in the register,         *)
(* allocate the directory, bind it in the register, provision it, start    *)
(* the original, include it in the register, activate it.  The process     *)
(* can be killed between any two steps, a step can fail, the directory can *)
(* be moved by others, and the same request, or another one for the same   *)
(* Change or the same path, can be made at any time.                       *)
(*                                                                         *)
(* Each database is what Ledger says a store is: a mutation took effect or *)
(* did not, a handle that does not know is fenced, opening again finds     *)
(* out, and a commit that was declared possible and did not happen leaves  *)
(* a store that never opens again.                                         *)
(***************************************************************************)
EXTENDS Naturals, Sequences, FiniteSets

CONSTANTS Changes, Paths,
          Starts,          \* typed Start requests
          Encodings,       \* byte strings one typed request may come in
          Intents,         \* the creation requests callers make
          MaxDirectories,  \* bound: directories ever made
          MaxWork,         \* bound: records beyond the Start
          MaxFailures,     \* bound: refusals, failed steps and kills
          MaxMoves,        \* bound: moves of a directory by others
          None

Intent == [change : Changes, path : Paths, start : Starts, raw : Encodings]

Receipt == [intent : Intent, binding : Nat]

Reference == [change : Changes, path : Paths, start : Starts, binding : Nat]

ASSUME CreationAssumption ==
    /\ Intents \subseteq Intent
    /\ MaxDirectories \in Nat /\ MaxDirectories >= Cardinality(Changes)
    /\ MaxWork \in Nat
    /\ MaxFailures \in Nat /\ MaxMoves \in Nat
    /\ None \notin Paths \cup Intent \cup Receipt \cup Nat

VARIABLES entries,    \* the register's rows: what is kept for each Change
          register,   \* its handle: "live", "fenced", "closed" or "stuck"
          dirs,       \* the directories ever made; the index is the binding
          job,        \* the reconcile in progress, or None
          told,       \* history: the answers each request was given
          failures, moves

stores == <<entries, register, dirs>>
bounds == <<failures, moves>>
vars   == <<entries, register, dirs, job, told, failures, moves>>

Bindings == DOMAIN dirs

Stages == {"made", "allocated", "prepared", "possible", "provisioned"}

Directory ==
    [at : Paths \cup {None},          \* where the directory is now
     change : Changes,                \* allocation.ctrl: whose it is
     request : Intent,                \*   and the exact request it is for
     stage : Stages,
     started : Intent \cup {None},    \* the request whose Start is record 1
     more : 0..MaxWork,               \* records after the Start
     activation : Receipt \cup {None},
     stuck : BOOLEAN,                 \* a declared commit is missing
     holder : {"nobody", "register", "owner"}]

Progress == {"pending inclusion", "pending activation", "ready"}

CallStages ==
    {"reserve", "find", "allocate", "prepare", "bind", "provision", "start",
     "include", "explain", "activate", "unactivated", "ready"}

Call ==
    [change : Changes, incoming : Intents, fresh : BOOLEAN,
     stage : CallStages, held : Nat \cup {None}]

Entry ==
    [intent : Intent, state : 0..2,
     binding : Nat \cup {None}, receipt : Receipt \cup {None}]

\* None is not a value of another kind.
ASSUME NoneAssumption == None \notin Entry \cup Call

---------------------------------------------------------------------------
(* What the code compares *)

\* Mutant: the same Change is taken for the same request.
SameChange(i, j) == i.change = j.change

\* Another encoding of the same typed request is the same request.
Same(i, j) ==
    /\ i.change = j.change
    /\ i.path = j.path
    /\ i.start = j.start

\* The first retained bytes are used whatever encoding came now.
RetainedRequest(j) == entries[j.change].intent

ReceiptFor(i, b) == [intent |-> i, binding |-> b]

ReferenceOf(r) ==
    [change |-> r.intent.change, path |-> r.intent.path,
     start |-> r.intent.start, binding |-> r.binding]

\* The directory the path leads to.
Occupied(p) == \E d \in Bindings : dirs[d].at = p

\* The register's own check of what it reads when it opens.
ValidEntry(c) ==
    LET e == entries[c] IN
    /\ e.intent.change = c
    /\ e.binding = None <=> e.state = 0
    /\ e.receipt = IF e.state = 2 THEN ReceiptFor(e.intent, e.binding) ELSE None

ValidRegister == \A c \in Changes : entries[c] # None => ValidEntry(c)

---------------------------------------------------------------------------
(* One mutation of a store *)

\* "done"; took effect and the handle is fenced; did not and it is fenced;
\* declared possible and did not.
Outcomes == {"done", "made", "missed", "stuck"}

Effective(o) == o \in {"done", "made"}

Spend ==
    /\ failures < MaxFailures
    /\ failures' = failures + 1

Pay(o) == IF o = "done" THEN UNCHANGED failures ELSE Spend

RegisterAfter(o) ==
    CASE o = "done" -> "live"
      [] o = "stuck" -> "stuck"
      [] OTHER -> "fenced"

\* A mutation of the register that replaces the entry of c.
MutateRegister(c, entry, o) ==
    /\ register = "live"
    /\ Pay(o)
    /\ register' = RegisterAfter(o)
    /\ entries' = IF Effective(o) THEN [entries EXCEPT ![c] = entry] ELSE entries

---------------------------------------------------------------------------
(* The call *)

At(stage) == job # None /\ job.stage = stage

Held == dirs[job.held]

\* custody.check: the directory held is still where the path leads.
InPlace == Held.at = RetainedRequest(job).path

Go(stage) == job' = [job EXCEPT !.stage = stage]

\* The call is over: whatever it held is dropped.
Released(ds) ==
    IF job.held = None THEN ds ELSE [ds EXCEPT ![job.held].holder = "nobody"]

End == job' = None

Tell(a) == told' = [told EXCEPT ![job.incoming] = @ \cup {a}]

\* create and reconcile: an unknown Change is to be reserved, a known one
\* goes on under its first request; another request is a conflict and ends
\* the call at once.
Ask(i) ==
    /\ register = "live" /\ job = None
    /\ entries[i.change] # None => Same(entries[i.change].intent, i)
    /\ job' = [change |-> i.change, incoming |-> i,
               fresh |-> entries[i.change] = None,
               stage |-> IF entries[i.change] = None THEN "reserve" ELSE "find",
               held |-> None]
    /\ UNCHANGED <<stores, told, bounds>>

Reserve(o) ==
    /\ At("reserve")
    /\ MutateRegister(job.change,
           [intent |-> job.incoming, state |-> 0, binding |-> None, receipt |-> None], o)
    /\ IF o = "done" THEN Go("find") ELSE End
    /\ UNCHANGED <<dirs, told, moves>>

\* What reconcile finds where the retained path leads.
Kept == entries[job.change]

\* Mutant: any allocation at the path will do.
AnyAllocation(j, d) == dirs[d].stage \in {"allocated", "prepared"}

\* An allocation explains itself only by this Change and the retained bytes.
Explains(j, d) ==
    /\ dirs[d].stage \in {"allocated", "prepared"}
    /\ dirs[d].change = j.change
    /\ dirs[d].request = RetainedRequest(j)

Reaches(d) == dirs[d].at = RetainedRequest(job).path /\ dirs[d].holder = "nobody"

\* Mutant: allocation.ctrl alone is not enough to go on.
NeedsWitness(j, d) == Explains(j, d) /\ dirs[d].stage = "prepared"

\* Nothing ran SQLite in it yet: a missing custody.ctrl is published again,
\* except under a binding, which was only made with one.
MayPrepare(j, d) ==
    /\ Explains(j, d)
    /\ entries[j.change].state > 0 =>
           dirs[d].stage = "prepared" /\ d = entries[j.change].binding

\* Backend::open of the bound original.
MayOpenBound(d) ==
    /\ Kept.state > 0 /\ d = Kept.binding
    /\ dirs[d].change = job.change
    /\ dirs[d].stage = "provisioned" /\ ~dirs[d].stuck
    /\ dirs[d].more > 0 => dirs[d].activation # None

\* Mutant: a missing directory is made again.
AlwaysAllocate(j) == TRUE

\* Only the call that reserved knows that nothing was allocated before.
MayAllocate(j) == j.fresh

CanAllocate ==
    Kept.state = 0 /\ ~Occupied(RetainedRequest(job).path) /\ MayAllocate(job)

Take(d, stage) ==
    job' = [job EXCEPT !.held = d, !.stage = stage]

ResumePreparation ==
    /\ At("find")
    /\ \E d \in Bindings :
          /\ Reaches(d) /\ MayPrepare(job, d)
          /\ dirs' = [dirs EXCEPT ![d].stage = "prepared", ![d].holder = "register"]
          /\ Take(d, IF Kept.state = 0 THEN "bind" ELSE "provision")
    /\ UNCHANGED <<entries, register, told, bounds>>

OpenBound ==
    /\ At("find")
    /\ \E d \in Bindings :
          /\ Reaches(d) /\ MayOpenBound(d)
          /\ dirs' = [dirs EXCEPT ![d].holder = "register"]
          /\ Take(d, "start")
    /\ UNCHANGED <<entries, register, told, bounds>>

\* Backend::allocate, in the three steps a kill can fall between: the
\* directory with its empty files, allocation.ctrl, custody.ctrl.
MakeDirectory ==
    /\ At("find") /\ CanAllocate
    /\ Len(dirs) < MaxDirectories
    /\ dirs' = Append(dirs,
           [at |-> RetainedRequest(job).path, change |-> job.change,
            request |-> RetainedRequest(job), stage |-> "made", started |-> None,
            more |-> 0, activation |-> None, stuck |-> FALSE, holder |-> "register"])
    /\ Take(Len(dirs) + 1, "allocate")
    /\ UNCHANGED <<entries, register, told, bounds>>

PublishAllocation ==
    /\ At("allocate") /\ InPlace
    /\ dirs' = [dirs EXCEPT ![job.held].stage = "allocated"]
    /\ Go("prepare")
    /\ UNCHANGED <<entries, register, told, bounds>>

PublishWitness ==
    /\ At("prepare") /\ InPlace
    /\ dirs' = [dirs EXCEPT ![job.held].stage = "prepared"]
    /\ Go("bind")
    /\ UNCHANGED <<entries, register, told, bounds>>

\* Checked again inside the register's transaction: the allocation is where
\* it was and nobody has touched its witness.
Bind(o) ==
    /\ At("bind") /\ InPlace
    /\ MutateRegister(job.change, [Kept EXCEPT !.state = 1, !.binding = job.held], o)
    /\ IF o = "done" THEN Go("provision") /\ UNCHANGED dirs
                     ELSE End /\ dirs' = Released(dirs)
    /\ UNCHANGED <<told, moves>>

\* A closure that fails leaves the register fenced and the entry as it was.
BindFails ==
    /\ At("bind") /\ ~InPlace
    /\ register' = "fenced"
    /\ End /\ dirs' = Released(dirs)
    /\ UNCHANGED <<entries, told, bounds>>

Provision(o) ==
    /\ At("provision") /\ InPlace
    /\ Pay(o)
    /\ LET stage == CASE Effective(o) -> "provisioned"
                      [] o = "stuck" -> "possible"
                      [] OTHER -> "prepared"
           after == [dirs EXCEPT ![job.held].stage = stage]
       IN IF o = "done" THEN dirs' = after /\ Go("start")
                        ELSE dirs' = Released(after) /\ End
    /\ UNCHANGED <<entries, register, told, moves>>

\* A mutation of the original held, which is dropped unless it is done.
MutateOriginal(after, o) ==
    /\ Pay(o)
    /\ LET ds == CASE Effective(o) -> [dirs EXCEPT ![job.held] = after]
                   [] o = "stuck" -> [dirs EXCEPT ![job.held].stuck = TRUE]
                   [] OTHER -> dirs
       IN dirs' = IF o = "done" THEN ds ELSE Released(ds)

\* Mutant: activation comes first and inclusion when there is time.
AfterStartHasty(state) == "activate"

\* What is left once the Start is known to be accepted.
AfterStart(state) == IF state = 1 THEN "include" ELSE "activate"

\* Original::start: the Start is accepted, or recovered when it was.
Start(o) ==
    /\ At("start") /\ InPlace
    /\ Held.started = None
    /\ MutateOriginal([Held EXCEPT !.started = RetainedRequest(job)], o)
    /\ IF o = "done" THEN Go(AfterStart(Kept.state)) ELSE End
    /\ UNCHANGED <<entries, register, told, moves>>

RecoverStart ==
    /\ At("start") /\ InPlace
    /\ Held.started # None /\ Held.started.start = RetainedRequest(job).start
    /\ Go(AfterStart(Kept.state))
    /\ UNCHANGED <<stores, told, bounds>>

\* The receipt names the retained request and the binding.
SavedReceipt(j) ==
    IF entries[j.change].state = 2 THEN entries[j.change].receipt
    ELSE ReceiptFor(RetainedRequest(j), entries[j.change].binding)

\* The one record is the Start and the original is live.
IncludesStart == InPlace /\ Held.started # None /\ Held.more = 0

\* Mutant: an inclusion that failed is taken for made.
AfterIncludeHopeful(o) == "activate"

\* An inclusion that failed has still accepted the Start.
AfterInclude(o) == IF o = "done" THEN "activate" ELSE "explain"

Include(o) ==
    /\ At("include") /\ IncludesStart
    /\ MutateRegister(job.change,
           [Kept EXCEPT !.state = 2, !.receipt = SavedReceipt(job)], o)
    /\ Go(AfterInclude(o))
    /\ UNCHANGED <<dirs, told, moves>>

IncludeFails ==
    /\ At("include") /\ ~IncludesStart
    /\ register' = "fenced"
    /\ Go("explain")
    /\ UNCHANGED <<entries, dirs, told, bounds>>

IncludeRefused ==
    /\ At("include") /\ Spend
    /\ Go("explain")
    /\ UNCHANGED <<stores, told, moves>>

\* register::validate_receipt
ValidReceipt(r) == r.binding = job.held /\ Held.started = r.intent

Activate(o) ==
    /\ At("activate") /\ InPlace
    /\ ValidReceipt(SavedReceipt(job)) /\ Held.activation = None
    /\ MutateOriginal([Held EXCEPT !.activation = SavedReceipt(job)], o)
    /\ IF o = "done" THEN Go("ready") ELSE End
    /\ UNCHANGED <<entries, register, told, moves>>

AlreadyActive ==
    /\ At("activate") /\ InPlace
    /\ ValidReceipt(SavedReceipt(job)) /\ Held.activation = SavedReceipt(job)
    /\ Go("ready")
    /\ UNCHANGED <<stores, told, bounds>>

\* The receipt is this original's, and no other is inside.
ReceiptStands ==
    /\ ValidReceipt(SavedReceipt(job))
    /\ Held.activation \in {None, SavedReceipt(job)}

\* The host refuses or a call fails, or the receipt does not stand.
ActivateFails ==
    /\ At("activate")
    /\ IF ReceiptStands THEN Spend ELSE UNCHANGED failures
    /\ Go("unactivated")
    /\ UNCHANGED <<stores, told, moves>>

\* Mutant: whether the activation failed is forgotten.
AlwaysReady(stage) == IF stage = "explain" THEN "pending inclusion" ELSE "ready"

AnswerAt(stage) ==
    CASE stage = "explain" -> "pending inclusion"
      [] stage = "unactivated" -> "pending activation"
      [] stage = "ready" -> "ready"

\* Whatever happened, the answer is given after the Start was disclosed
\* again by resolve_original.
Answer ==
    /\ \E stage \in {"explain", "unactivated", "ready"} :
          At(stage) /\ Tell(AnswerAt(stage))
    /\ InPlace
    /\ dirs' = Released(dirs) /\ End
    /\ UNCHANGED <<entries, register, bounds>>

\* What the call cannot go on from.
Blocked ==
    \/ /\ At("find")
       /\ ~\E d \in Bindings : Reaches(d) /\ (MayPrepare(job, d) \/ MayOpenBound(d))
       /\ ~CanAllocate
    \/ /\ job.held # None
       /\ ~InPlace
       /\ ~At("bind") /\ ~At("include")
    \/ /\ At("start")
       /\ Held.started # None /\ Held.started.start # RetainedRequest(job).start

GiveUp ==
    /\ job # None /\ Blocked
    /\ dirs' = Released(dirs) /\ End
    /\ UNCHANGED <<entries, register, told, bounds>>

\* The host refuses, or a step fails before it published anything.  An
\* inclusion or an activation refused leads to an answer instead.
Refused ==
    /\ job # None /\ ~At("include") /\ ~At("activate")
    /\ Spend
    /\ dirs' = Released(dirs) /\ End
    /\ UNCHANGED <<entries, register, told, moves>>

JobStep ==
    \/ \E o \in Outcomes :
          Reserve(o) \/ Bind(o) \/ Provision(o) \/ Start(o) \/ Include(o) \/ Activate(o)
    \/ ResumePreparation \/ OpenBound
    \/ MakeDirectory \/ PublishAllocation \/ PublishWitness
    \/ BindFails \/ RecoverStart
    \/ IncludeFails \/ IncludeRefused
    \/ AlreadyActive \/ ActivateFails
    \/ Answer \/ GiveUp \/ Refused

---------------------------------------------------------------------------
(* Around the call *)

Kill ==
    /\ job # None \/ register = "live"
    /\ Spend
    /\ register' = IF register = "stuck" THEN "stuck" ELSE "closed"
    /\ IF job = None THEN UNCHANGED dirs ELSE dirs' = Released(dirs)
    /\ End
    /\ UNCHANGED <<entries, told, moves>>

\* Register::open reads and checks everything it kept.
Reopen ==
    /\ job = None /\ register \in {"fenced", "closed"}
    /\ ValidRegister
    /\ register' = "live"
    /\ UNCHANGED <<entries, dirs, job, told, bounds>>

\* A reference frames what a receipt will say; a caller may hold it before
\* the receipt exists.
References ==
    {ReferenceOf(ReceiptFor(entries[c].intent, entries[c].binding)) :
         c \in {x \in Changes : entries[x] # None /\ entries[x].binding # None}}

\* Mutant: the original opens without its receipt.
OpensUnactivated(ref, d) == TRUE

\* Original::open: the receipt inside must be the one the reference is of.
OpensBy(ref, d) ==
    dirs[d].activation # None /\ ReferenceOf(dirs[d].activation) = ref

MayOpenOriginal(ref) ==
    LET d == ref.binding IN
    /\ dirs[d].at = ref.path /\ dirs[d].change = ref.change
    /\ dirs[d].holder = "nobody"
    /\ dirs[d].stage = "provisioned" /\ ~dirs[d].stuck
    /\ OpensBy(ref, d)

OpenOriginal(ref) ==
    /\ MayOpenOriginal(ref)
    /\ dirs' = [dirs EXCEPT ![ref.binding].holder = "owner"]
    /\ UNCHANGED <<entries, register, job, told, bounds>>

\* submit by the owner of an open original, which checks its custody first;
\* a handle that fails is dropped.
Work(d, o) ==
    /\ dirs[d].holder = "owner" /\ dirs[d].more < MaxWork
    /\ dirs[d].at = dirs[d].request.path
    /\ Pay(o)
    /\ dirs' = [dirs EXCEPT ![d].more = IF Effective(o) THEN @ + 1 ELSE @,
                            ![d].stuck = @ \/ o = "stuck",
                            ![d].holder = IF o = "done" THEN "owner" ELSE "nobody"]
    /\ UNCHANGED <<entries, register, job, told, moves>>

Leave(d) ==
    /\ dirs[d].holder = "owner"
    /\ dirs' = [dirs EXCEPT ![d].holder = "nobody"]
    /\ UNCHANGED <<entries, register, job, told, bounds>>

\* External: a directory is moved away, back, or to another path.
Move(d, p) ==
    /\ moves < MaxMoves /\ moves' = moves + 1
    /\ dirs[d].at # p /\ (p = None \/ ~Occupied(p))
    /\ dirs' = [dirs EXCEPT ![d].at = p]
    /\ UNCHANGED <<entries, register, job, told, failures>>

---------------------------------------------------------------------------

Init ==
    /\ entries = [c \in Changes |-> None]
    /\ register = "live"
    /\ dirs = <<>>
    /\ job = None
    /\ told = [i \in Intents |-> {}]
    /\ failures = 0 /\ moves = 0

Next ==
    \/ \E i \in Intents : Ask(i)
    \/ JobStep
    \/ Kill \/ Reopen
    \/ \E ref \in References : OpenOriginal(ref)
    \/ \E d \in Bindings :
          \/ \E o \in Outcomes : Work(d, o)
          \/ Leave(d)
          \/ \E p \in Paths \cup {None} : Move(d, p)

Spec == Init /\ [][Next]_vars

\* A call goes on, a register that can be opened is opened, and the caller
\* of each Change keeps asking for what was reserved.
AskAgain(c) == \E i \in Intents : i.change = c /\ Ask(i)

FairSpec ==
    /\ Spec
    /\ WF_vars(JobStep) /\ WF_vars(Reopen)
    /\ \A c \in Changes : SF_vars(entries[c] # None /\ AskAgain(c))

---------------------------------------------------------------------------
(* Properties *)

\* Every variable keeps its type.
TypeOK ==
    /\ \A c \in Changes : entries[c] = None \/ entries[c] \in Entry
    /\ register \in {"live", "fenced", "closed", "stuck"}
    /\ \A d \in Bindings : dirs[d] \in Directory
    /\ job = None \/ job \in Call
    /\ told \in [Intents -> SUBSET Progress]
    /\ failures \in 0..MaxFailures /\ moves \in 0..MaxMoves

\* No Change ever gets a second directory, whether the first was moved away,
\* was left half made or cannot be opened (register.rs: only the call that
\* reserved knows that allocation was never attempted).
NoReplacement ==
    \A d, e \in Bindings : dirs[d].change = dirs[e].change => d = e

\* The first complete request is what everything later is made of, byte for
\* byte: the allocation, the Start that was accepted, the receipt inside the
\* original and the one kept by the register, which Register::open accepts
\* (register.rs: "Reload FIRST retained bytes").
FirstRequestIsKept ==
    \A d \in Bindings :
        LET first == entries[dirs[d].change].intent IN
        /\ entries[dirs[d].change] # None
        /\ dirs[d].request = first
        /\ dirs[d].started \in {None, first}
        /\ dirs[d].activation \in {None, ReceiptFor(first, d)}
        /\ ValidEntry(dirs[d].change)

\* A Change has one original, made of its first complete request, however
\* often its creation is interrupted and asked for again, in whatever words.
OriginalIsTheFirst == NoReplacement /\ FirstRequestIsKept

\* Nothing is recorded after the Start before the register confirmed the
\* inclusion and the original retained the receipt of it.
WorkNeedsInclusion ==
    \A d \in Bindings :
        dirs[d].more > 0 \/ dirs[d].holder = "owner" =>
            LET e == entries[dirs[d].change] IN
            /\ e.state = 2 /\ e.binding = d
            /\ dirs[d].activation = e.receipt

\* Whoever is told of progress asked for what was retained: another path or
\* another Start under a known Change is never answered with its original.
AnswersMatchRequest ==
    \A i \in Intents : told[i] # {} =>
        /\ entries[i.change] # None
        /\ entries[i.change].intent.path = i.path
        /\ entries[i.change].intent.start = i.start

\* An original declared ready is opened by its reference alone, whatever
\* became of the register, while its directory is in place and its own
\* store is not in doubt.
ReadyOpens ==
    \A i \in Intents : "ready" \in told[i] =>
        LET ref == ReferenceOf(entries[i.change].receipt)
            d == dirs[ref.binding]
        IN d.at = ref.path /\ d.holder = "nobody" /\ ~d.stuck => MayOpenOriginal(ref)

\* Whoever was answered can rely on it: the answer was about his request, and
\* "ready" lets him in.
AnswersCanBeReliedOn == AnswersMatchRequest /\ ReadyOpens

\* The register, the directories and the answers keep the promise of
\* Inclusion.
StandingOf(c) ==
    LET e == entries[c] IN
    IF e = None THEN "absent"
    ELSE IF e.state = 0 THEN "reserved"
    ELSE IF dirs[e.binding].activation # None THEN "active"
    ELSE IF e.state = 2 THEN "included"
    ELSE IF dirs[e.binding].started # None THEN "started"
    ELSE "bound"

I == INSTANCE Inclusion WITH
        Requests <- Intents,
        Originals <- 1..MaxDirectories,
        retained <- [c \in Changes |-> IF entries[c] = None THEN None ELSE entries[c].intent],
        original <- [c \in Changes |-> IF entries[c] = None THEN None ELSE entries[c].binding],
        standing <- [c \in Changes |-> StandingOf(c)],
        told <- [c \in Changes |-> UNION {told[i] : i \in {x \in Intents : x.change = c}}]

ImplementsInclusion == I!Spec

\* What a reserved creation can still be completed from.
Intact(c) ==
    /\ entries[c] # None /\ register # "stuck"
    /\ \E d \in Bindings :
          /\ dirs[d].at = entries[c].intent.path /\ dirs[d].change = c
          /\ dirs[d].stage \in {"allocated", "prepared", "provisioned"}
          /\ ~dirs[d].stuck

\* A creation interrupted anywhere after its directory was allocated is
\* completed by asking again, once refusals, failures and moves cease.  Who
\* holds a reference may then use it before the asker hears of it.
PendingCreationCompletes ==
    \A c \in Changes : Intact(c) ~> (StandingOf(c) = "active" \/ ~Intact(c))
=============================================================================
