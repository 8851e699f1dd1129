---------------------------- MODULE JobRegistry ----------------------------
(***************************************************************************)
(* The process-local registry of background jobs (jobs-local): jobs with   *)
(* their lifecycle and output, the waits on them, the teardown of their    *)
(* owner agents and of the registry itself.                                *)
(*                                                                         *)
(* A producer (a shell command, a workflow) owns the work; the registry    *)
(* owns the record. One action is the code between two awaits. The text of *)
(* output, reasons, results and details is left out.                       *)
(***************************************************************************)
EXTENDS OutputRing, FiniteSets

CONSTANTS
    Job,                \* job ids, in the order nobody relies on
    Owner,              \* agents that may own jobs
    NoOwner,            \* the owner of an unowned job
    Waiter,             \* callers of wait, one outstanding wait each
    NoJob,
    CancelThrows,       \* jobs whose producer's cancel may throw
    MaxActive,          \* maxConcurrentJobsPerOwner
    RetainBytes,        \* cap of a live ring
    SettledRetainBytes, \* cap of a settled ring, unread bytes aside
    ChunkSizes,         \* sizes of the chunks a producer writes
    MaxBytes            \* bound: bytes one producer writes

ASSUME JobConstants ==
    /\ NoOwner \notin Owner
    /\ NoJob \notin Job
    /\ CancelThrows \subseteq Job
    /\ MaxActive \in Nat \ {0}
    /\ RetainBytes \in Nat \ {0}
    /\ SettledRetainBytes \in Nat \ {0}
    /\ ChunkSizes \subseteq Nat \ {0}
    /\ MaxBytes \in Nat

VARIABLES
    job,        \* the record of each job
    resolvers,  \* waitResolvers of each job
    wait,       \* each caller's outstanding wait
    owner,      \* the fiber of each owner's scope
    service     \* the registry itself

regVars == <<job, resolvers, wait, owner, service>>

-----------------------------------------------------------------------------
Live     == {"running", "stopping"}
Terminal == {"completed", "killed", "failed"}
Cause    == {"none", "producer", "kill", "teardown"}

\* done: the producer is at work, has settled its promise, and the pump has
\* drained the source a last time. source: written, not yet pumped.
Record ==
    [status    : {"absent"} \cup Live \cup Terminal,
     stored    : BOOLEAN,
     owner     : Owner \cup {NoOwner},
     ring      : [starts : Seq(Nat), total : Nat],
     source    : Nat,
     cursor    : Nat,
     progress  : BOOLEAN,
     cancelled : BOOLEAN,
     cause     : Cause,
     done      : {"no", "drain", "settle"}]

Absent ==
    [status |-> "absent", stored |-> FALSE, owner |-> NoOwner, ring |-> EmptyRing,
     source |-> 0, cursor |-> 0, progress |-> FALSE, cancelled |-> FALSE,
     cause |-> "none", done |-> "no"]

RegTypeOK ==
    /\ job \in [Job -> Record]
    /\ resolvers \in [Job -> SUBSET Waiter]
    /\ wait \in [Waiter -> [state : {"free", "waiting", "settled", "timeout", "aborted"},
                            job   : Job \cup {NoJob}]]
    /\ owner \in [Owner -> [state   : {"live", "unloading", "draining", "gone"},
                            cleanup : BOOLEAN,
                            jobs    : SUBSET Job]]
    /\ service \in [state : {"live", "draining", "gone"}, jobs : SUBSET Job]

NoWait == [state |-> "free", job |-> NoJob]

RegInit ==
    /\ job = [j \in Job |-> Absent]
    /\ resolvers = [j \in Job |-> {}]
    /\ wait = [w \in Waiter |-> NoWait]
    /\ owner = [o \in Owner |-> [state |-> "live", cleanup |-> FALSE, jobs |-> {}]]
    /\ service = [state |-> "live", jobs |-> {}]

-----------------------------------------------------------------------------
(* Parts of the operations.                                                *)

IsLive(j)     == job[j].status \in Live
IsTerminal(j) == job[j].status \in Terminal

ActiveJobs(o) == {j \in Job : job[j].stored /\ job[j].owner = o /\ IsLive(j)}

\* Slip: a settled job takes bytes.
AppendedAlways(r, bytes) == [r EXCEPT !.ring = RingAppend(@, bytes, RetainBytes)]

\* appendRing: a settled job takes no more bytes.
Appended(r, bytes) ==
    IF r.status \in Terminal THEN r
    ELSE [r EXCEPT !.ring = RingAppend(@, bytes, RetainBytes)]

\* Slip: the cap of a settled ring spares no unread bytes.
SettledShort(r, status, cause) ==
    IF r.status \in Terminal THEN r
    ELSE [r EXCEPT !.status = status, !.cause = cause, !.progress = FALSE,
                   !.ring = Trim(@, SettledRetainBytes)]

\* settle: the first outcome wins; unread bytes survive the trim.
Settled(r, status, cause) ==
    IF r.status \in Terminal THEN r
    ELSE LET unread == r.ring.total - r.cursor
             cap    == IF unread > SettledRetainBytes THEN unread ELSE SettledRetainBytes
         IN  [r EXCEPT !.status = status, !.cause = cause, !.progress = FALSE,
                       !.ring = Trim(@, cap)]

\* settle also releases the live waits of the jobs it settles.
ReleaseWaits(jobs) ==
    LET released == UNION {resolvers[j] : j \in jobs}
    IN  /\ resolvers' = [j \in Job |-> IF j \in jobs THEN {} ELSE resolvers[j]]
        /\ wait' = [w \in Waiter |->
                       IF w \in released /\ wait[w].state = "waiting"
                       THEN [wait[w] EXCEPT !.state = "settled"] ELSE wait[w]]

\* Slip: the cause names the caller, not the kill.
KilledByUser(r) == [r EXCEPT !.cancelled = TRUE, !.status = "stopping", !.cause = "user"]

\* killJob on a live job whose cancel returns.
Killed(r) == [r EXCEPT !.cancelled = TRUE, !.status = "stopping", !.cause = "kill"]

\* Slip: a cancel that threw leaves the job to its producer.
TornDownGently(r, throws) ==
    [r EXCEPT !.cause = "teardown", !.cancelled = @ \/ ~throws, !.status = "stopping"]

\* cancelForTeardown: the live jobs are cancelled; a throw settles by force.
TornDown(r, throws) ==
    IF throws THEN Settled([r EXCEPT !.cause = "teardown"], "failed", "teardown")
    ELSE [r EXCEPT !.cause = "teardown", !.cancelled = TRUE, !.status = "stopping"]

CancelForTeardown(jobs) ==
    LET live == {j \in jobs : IsLive(j)}
    IN  \E forced \in SUBSET (live \cap CancelThrows) :
           /\ job' = [j \in Job |-> IF j \in live THEN TornDown(job[j], j \in forced)
                                    ELSE job[j]]
           /\ ReleaseWaits(forced)

Drop(jobs) == job' = [j \in Job |-> IF j \in jobs THEN [job[j] EXCEPT !.stored = FALSE]
                                    ELSE job[j]]

Stored(o) == {j \in Job : job[j].stored /\ job[j].owner = o}

-----------------------------------------------------------------------------
(* Operations of the registry's callers.                                   *)

\* Slip: a scope that unloads takes another effect.
CleanupAlways(o) == TRUE

\* ensureOwnerCleanup succeeds: it is attached, or the scope still takes effects.
CleanupHeld(o) == owner[o].cleanup \/ owner[o].state = "live"

\* start. A controller serves every owner while the service is live; the owner
\* must be registered, and a scope that unloads refuses effects.
Start(j, o) ==
    /\ job[j].status = "absent"
    /\ service.state = "live"
    /\ o # NoOwner => owner[o].state # "gone" /\ CleanupHeld(o)
    /\ Cardinality(ActiveJobs(o)) < MaxActive
    /\ job' = [job EXCEPT ![j] = [Absent EXCEPT !.status = "running",
                                                !.stored = TRUE, !.owner = o]]
    /\ owner' = [p \in Owner |-> IF p = o THEN [owner[p] EXCEPT !.cleanup = TRUE]
                                 ELSE owner[p]]
    /\ UNCHANGED service

\* read: consumes to the end of the ring; a settled ring then drops to its cap.
Consumed(r) ==
    LET read == [r EXCEPT !.cursor = r.ring.total]
    IN  IF r.status \in Terminal
        THEN [read EXCEPT !.ring = Trim(@, SettledRetainBytes)] ELSE read

Read(j) ==
    /\ job[j].stored
    /\ job' = [job EXCEPT ![j] = Consumed(@)]
    /\ UNCHANGED <<resolvers, wait, owner, service>>

\* kill, when the producer's cancel returns; a throw changes nothing.
Kill(j) ==
    /\ job[j].stored
    /\ IsLive(j)
    /\ job' = [job EXCEPT ![j] = Killed(@)]
    /\ UNCHANGED <<resolvers, wait, owner, service>>

\* remove.
Remove(j) ==
    /\ job[j].stored
    /\ IsTerminal(j)
    /\ Drop({j})
    /\ UNCHANGED <<resolvers, wait, owner, service>>

\* waitJob on a live job registers a resolver; on a settled one it returns.
BeginWait(w, j) ==
    IF job'[j].status \in Live
    THEN /\ resolvers' = [resolvers EXCEPT ![j] = @ \cup {w}]
         /\ wait' = [wait EXCEPT ![w] = [state |-> "waiting", job |-> j]]
    ELSE /\ UNCHANGED resolvers
         /\ wait' = [wait EXCEPT ![w] = [state |-> "settled", job |-> j]]

\* Slip: a wait that ended stays registered.
EndWaitOnly(w, how) ==
    /\ wait[w].state = "waiting"
    /\ wait' = [wait EXCEPT ![w].state = how]
    /\ UNCHANGED <<resolvers, job, owner, service>>

\* onAbort: the deadline or the caller's signal unregisters the wait.
EndWait(w, how) ==
    /\ wait[w].state = "waiting"
    /\ resolvers' = [resolvers EXCEPT ![wait[w].job] = @ \ {w}]
    /\ wait' = [wait EXCEPT ![w].state = how]
    /\ UNCHANGED <<job, owner, service>>

WaitTimeout(w) == EndWait(w, "timeout")
WaitAbort(w)   == EndWait(w, "aborted")

-----------------------------------------------------------------------------
(* The producer and the registry's pump.                                   *)

Written(j) == job[j].source + job[j].ring.total

\* The process writes to a source, or the producer appends to the ring.
Write(j) ==
    /\ job[j].status # "absent"
    /\ job[j].done = "no"
    /\ \E n \in ChunkSizes :
          /\ Written(j) + n <= MaxBytes
          /\ \/ job' = [job EXCEPT ![j].source = @ + n]
             \/ job' = [job EXCEPT ![j] = Appended(@, n)]
    /\ UNCHANGED <<resolvers, wait, owner, service>>

\* updateProgress.
Progress(j) ==
    /\ IsLive(j)
    /\ job[j].done = "no"
    /\ job' = [job EXCEPT ![j].progress = TRUE]
    /\ UNCHANGED <<resolvers, wait, owner, service>>

\* drain: the pump copies what the source holds; a settled job drops it.
Pumped(r) == [Appended(r, r.source) EXCEPT !.source = 0]

Poll(j) ==
    /\ IsLive(j)
    /\ job[j].done = "no"
    /\ job[j].source > 0
    /\ job' = [job EXCEPT ![j] = Pumped(@)]
    /\ UNCHANGED <<resolvers, wait, owner, service>>

\* The producer settles its promise: it released its resources.
ProducerDone(j) ==
    /\ job[j].status # "absent"
    /\ job[j].done = "no"
    /\ job' = [job EXCEPT ![j].done = "drain"]
    /\ UNCHANGED <<resolvers, wait, owner, service>>

FinalDrain(j) ==
    /\ job[j].done = "drain"
    /\ job' = [job EXCEPT ![j] = [Pumped(@) EXCEPT !.done = "settle"]]
    /\ UNCHANGED <<resolvers, wait, owner, service>>

\* The producer's outcome reaches settle.
Settle(j) ==
    /\ job[j].done = "settle"
    /\ IsLive(j)
    /\ \E status \in Terminal :
          job' = [job EXCEPT ![j] =
                     Settled(@, status, IF @.cause = "none" THEN "producer" ELSE @.cause)]
    /\ ReleaseWaits({j})
    /\ UNCHANGED <<owner, service>>

-----------------------------------------------------------------------------
(* Teardown of owners and of the registry.                                 *)

\* The owner's scope starts to unload; from here it refuses new effects.
UnloadOwner(o) ==
    /\ owner[o].state = "live"
    /\ owner' = [owner EXCEPT ![o].state = "unloading"]
    /\ UNCHANGED <<job, resolvers, wait, service>>

\* disposeOwned, up to its await.
OwnerCleanup(o) ==
    /\ owner[o].state = "unloading"
    /\ owner' = [owner EXCEPT ![o] = [state |-> "draining", cleanup |-> FALSE,
                                      jobs |-> IF owner[o].cleanup THEN Stored(o) ELSE {}]]
    /\ IF owner[o].cleanup THEN CancelForTeardown(Stored(o))
       ELSE UNCHANGED <<job, resolvers, wait>>
    /\ UNCHANGED service

\* disposeOwned drops what it awaited; the agent leaves the registry.
OwnerDropped(o) ==
    /\ owner[o].state = "draining"
    /\ \A j \in owner[o].jobs : IsTerminal(j)
    /\ Drop(owner[o].jobs)
    /\ owner' = [owner EXCEPT ![o].state = "gone", ![o].jobs = {}]
    /\ UNCHANGED <<resolvers, wait, service>>

\* disposeAll, up to its await. Every injecting plugin unloads with the
\* service, its controllers included.
UnloadService ==
    LET all == {j \in Job : job[j].stored}
    IN  /\ service.state = "live"
        /\ CancelForTeardown(all)
        /\ service' = [state |-> "draining", jobs |-> all]
        /\ UNCHANGED owner

\* disposeAll drops what it awaited and detaches the owners' cleanups.
ServiceDropped ==
    /\ service.state = "draining"
    /\ \A j \in service.jobs : IsTerminal(j)
    /\ Drop(service.jobs)
    /\ owner' = [o \in Owner |-> [owner[o] EXCEPT !.cleanup = FALSE]]
    /\ service' = [service EXCEPT !.state = "gone", !.jobs = {}]
    /\ UNCHANGED <<resolvers, wait>>

ProducerStep(j) ==
    Write(j) \/ Progress(j) \/ Poll(j) \/ ProducerDone(j) \/ FinalDrain(j) \/ Settle(j)

\* A producer is compliant: once its cancel was called its promise settles.
CancelledEnds(j) == job[j].cancelled /\ ProducerDone(j)

-----------------------------------------------------------------------------
(* Properties.                                                             *)

(***************************************************************************)
(* An agent that finished its teardown left no job behind: none of its     *)
(* jobs is listed, and none started after the teardown looked. The same    *)
(* for the registry, which leaves nobody waiting either.                   *)
(***************************************************************************)
TeardownLeavesNothing ==
    /\ \A o \in Owner : owner[o].state = "gone" => Stored(o) = {}
    /\ service.state = "gone" =>
          /\ \A j \in Job : ~job[j].stored
          /\ \A w \in Waiter : wait[w].state # "waiting"

(***************************************************************************)
(* Settlement is final: the first outcome stays, whatever the producer, a  *)
(* kill or a teardown does later. It trims the ring but takes no byte the  *)
(* model has not read and the ring still held, and from then on only a     *)
(* read trims further.                                                     *)
(***************************************************************************)
SettlementStands ==
    \A j \in Job :
       /\ IsTerminal(j) => job'[j].status = job[j].status /\ job'[j].cause = job[j].cause
       /\ job'[j].status \in Terminal /\ job'[j].cursor = job[j].cursor =>
             Unread(job'[j].ring, job'[j].cursor) = Unread(job[j].ring, job[j].cursor)

SettlementIsFinal == [][SettlementStands]_regVars
=============================================================================
