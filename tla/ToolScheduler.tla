----------------------------- MODULE ToolScheduler -----------------------------
(***************************************************************************)
(* executeToolCalls and runGroup of                                        *)
(* packages/core/agent-loop/src/tool-calls.ts: one batch of tool calls,    *)
(* scheduled in groups.  A call that may run in parallel opens a group of  *)
(* all the calls left, run through a bounded pool and reclassified before  *)
(* each start; any other call is a group of its own.  Tool bodies overlap, *)
(* everything else is in model order.                                      *)
(*                                                                         *)
(* An action is the code between two awaits, or one appended event: the    *)
(* scheduler waits at "classify" (a group's promise), "preparing",         *)
(* "finalizing" and "waiting" (the race), and runs on from "committing".   *)
(***************************************************************************)
EXTENDS Integers, Sequences, FiniteSets

CONSTANTS
  MaxCall,       \* bound: calls of the batch
  MaxParallel    \* config maxParallelToolCalls

ASSUME MaxCallAssumption == MaxCall \in Nat
ASSUME MaxParallelAssumption == MaxParallel \in Nat \ {0}

Call == 1 .. MaxCall

VARIABLES
  pc,          \* where the scheduler is
  aborted,     \* the step's signal
  sawAbort,    \* runGroup's `aborted`: the signal as last read
  asked,       \* calls of the batch
  first,       \* executeToolCalls' `next`: first call of the group
  mode,        \* the group's execution mode
  started,     \* calls with a tool/call event, a prefix of the batch
  committed,   \* calls with a tool/result event, a prefix of the started ones
  slots,       \* per call: no outcome, or one awaiting "post" or "final" commit
  inFlight,    \* dispatched calls the race has not returned yet
  bodies,      \* dispatched calls whose body still runs
  failure,     \* schedulerFailure is set
  events       \* the tool events recorded, in order

vars == <<pc, aborted, sawAbort, asked, first, mode, started, committed, slots,
          inFlight, bodies, failure, events>>

Mode == {"parallel", "exclusive"}

TypeOK ==
  /\ pc \in {"idle", "classify", "preparing", "committing", "finalizing", "waiting",
             "skipping", "draining", "done", "failed"}
  /\ aborted \in BOOLEAN /\ sawAbort \in BOOLEAN /\ failure \in BOOLEAN
  /\ asked \in 0 .. MaxCall
  /\ first \in 1 .. MaxCall + 1
  /\ mode \in Mode
  /\ started \in 0 .. MaxCall /\ committed \in 0 .. MaxCall
  /\ slots \in [Call -> {"none", "post", "final"}]
  /\ inFlight \subseteq Call /\ bodies \subseteq Call
  /\ events \in Seq({"call", "ok", "aborted"} \X Call)

Init ==
  /\ pc = "idle"
  /\ aborted = FALSE /\ sawAbort = FALSE
  /\ asked = 0 /\ first = 1 /\ mode = "exclusive"
  /\ started = 0 /\ committed = 0
  /\ slots = [c \in Call |-> "none"]
  /\ inFlight = {} /\ bodies = {} /\ failure = FALSE
  /\ events = << >>

batchVars == <<asked, first, mode>>
poolVars == <<inFlight, bodies>>

(* The step hands over its calls. *)
Begin ==
  /\ pc = "idle"
  /\ asked' \in Call
  /\ pc' = "classify"
  /\ UNCHANGED <<aborted, sawAbort, first, mode, started, committed, slots, poolVars,
                 failure, events>>

(* Slips: a parallel group reaches one call too far; every group takes all
   the calls left. *)
GroupEndTooFar(f, m) == IF m = "parallel" THEN asked + 1 ELSE f
GroupEndAlways(f, m) == asked

(* The last call of the group that starts at call f in mode m. *)
GroupEnd(f, m) == IF m = "parallel" THEN asked ELSE f

(* startCall, up to its await. *)
StartCall ==
  /\ events' = Append(events, <<"call", started + 1>>)
  /\ started' = started + 1
  /\ pc' = "preparing"

(* The group has no call in flight: on an abort the rest of the batch is
   skipped, else the calls it consumed are passed. *)
LeaveGroup(seen) ==
  /\ IF seen THEN pc' = "skipping" /\ UNCHANGED first
             ELSE pc' = "classify" /\ first' = started + 1
  /\ UNCHANGED <<started, events>>

(* Slip: the signal is first read after a call has started. *)
EnterGroupUnchecked ==
  /\ pc = "classify" /\ first <= asked
  /\ mode' \in Mode
  /\ sawAbort' = aborted
  /\ StartCall /\ UNCHANGED first
  /\ UNCHANGED <<aborted, asked, committed, slots, poolVars, failure>>

(* Classify the next call and enter its group.  runGroup reads the signal
   before its first start; the first call is not classified again. *)
EnterGroup ==
  /\ pc = "classify" /\ first <= asked
  /\ mode' \in Mode
  /\ sawAbort' = aborted
  /\ IF aborted THEN LeaveGroup(TRUE) ELSE StartCall /\ UNCHANGED first
  /\ UNCHANGED <<aborted, asked, committed, slots, poolVars, failure>>

Return ==
  /\ pc = "classify" /\ first > asked
  /\ pc' = "done"
  /\ UNCHANGED <<aborted, sawAbort, batchVars, started, committed, slots, poolVars,
                 failure, events>>

(* Prepare settles for the call just started: with a body to dispatch, with a
   result of its own, or by throwing.  A failure recorded meanwhile wins. *)
Prepared ==
  /\ pc = "preparing"
  /\ \/ /\ ~failure
        /\ \/ /\ inFlight' = inFlight \cup {started} /\ bodies' = bodies \cup {started}
              /\ UNCHANGED slots
           \/ /\ slots' \in {[slots EXCEPT ![started] = kind] : kind \in {"post", "final"}}
              /\ UNCHANGED poolVars
        /\ pc' = "committing" /\ UNCHANGED failure
     \/ /\ pc' = "draining" /\ failure' = TRUE
        /\ UNCHANGED <<slots, poolVars>>
  /\ UNCHANGED <<aborted, sawAbort, batchVars, started, committed, events>>

(* commitReady: results leave in model order, each after its post-execution
   policy if it needs one. *)
Ready(c) == c <= started /\ slots[c] # "none"

CommitCall ==
  /\ committed' = committed + 1
  /\ events' = Append(events, <<"ok", committed + 1>>)
  /\ pc' = "committing"

FinishReady ==
  /\ pc = "committing"
  /\ Ready(committed + 1)
  /\ \/ slots[committed + 1] = "final" /\ CommitCall
     \/ slots[committed + 1] = "post" /\ pc' = "finalizing" /\ UNCHANGED <<committed, events>>
  /\ UNCHANGED <<aborted, sawAbort, batchVars, started, slots, poolVars, failure>>

Finalized ==
  /\ pc = "finalizing"
  /\ \/ CommitCall /\ UNCHANGED failure
     \/ pc' = "draining" /\ failure' = TRUE /\ UNCHANGED <<committed, events>>
  /\ UNCHANGED <<aborted, sawAbort, batchVars, started, slots, poolVars>>

(* Nothing more to commit: a recorded failure throws; otherwise the signal is
   read again and fillPool goes on - it starts the next call of the group if
   the pool has room, unless that call is now classified as exclusive - and
   the group waits for a call in flight, or ends. *)
MayFill == ~aborted /\ started < GroupEnd(first, mode) /\ Cardinality(inFlight) < MaxParallel

WaitOrLeave == IF inFlight # {} THEN pc' = "waiting" /\ UNCHANGED <<first, started, events>>
               ELSE LeaveGroup(aborted)

Advance ==
  /\ pc = "committing" /\ ~Ready(committed + 1)
  /\ IF failure THEN pc' = "draining" /\ UNCHANGED <<sawAbort, first, started, events>>
     ELSE /\ sawAbort' = aborted
          /\ \/ MayFill /\ StartCall /\ UNCHANGED first
             \/ MayFill /\ WaitOrLeave
             \/ ~MayFill /\ WaitOrLeave
  /\ UNCHANGED <<aborted, asked, mode, committed, slots, poolVars, failure>>

(* The race returns a call whose body has settled. *)
Race ==
  /\ pc = "waiting"
  /\ \E c \in inFlight \ bodies : inFlight' = inFlight \ {c}
  /\ pc' = IF failure THEN "draining" ELSE "committing"
  /\ UNCHANGED <<aborted, sawAbort, batchVars, started, committed, slots, bodies,
                 failure, events>>

(* Slips: the calls of the group that did start are skipped as well; the
   batch goes on from the group it skipped. *)
SkipGroup ==
  /\ pc = "skipping"
  /\ LET n == asked - (first - 1)
     IN events' = events \o [i \in 1 .. 2 * n |->
                     <<IF i % 2 = 1 THEN "call" ELSE "aborted", first - 1 + (i + 1) \div 2>>]
  /\ first' = asked + 1
  /\ started' = asked /\ committed' = asked
  /\ pc' = "classify"
  /\ UNCHANGED <<aborted, sawAbort, asked, mode, slots, poolVars, failure>>

SkipAndRetry ==
  /\ pc = "skipping"
  /\ pc' = "classify"
  /\ UNCHANGED <<aborted, sawAbort, batchVars, started, committed, slots, poolVars, failure, events>>

(* appendSkippedToolCall for every call not started, of the group and of the
   groups after it. *)
SkipRest ==
  /\ pc = "skipping"
  /\ LET n == asked - started
     IN events' = events \o [i \in 1 .. 2 * n |->
                     <<IF i % 2 = 1 THEN "call" ELSE "aborted", started + (i + 1) \div 2>>]
  /\ first' = asked + 1
  /\ started' = asked /\ committed' = asked
  /\ pc' = "classify"
  /\ UNCHANGED <<aborted, sawAbort, asked, mode, slots, poolVars, failure>>

(* A failed batch rejects once every dispatched body has settled. *)
Drained ==
  /\ pc = "draining" /\ inFlight \cap bodies = {}
  /\ pc' = "failed"
  /\ UNCHANGED <<aborted, sawAbort, batchVars, started, committed, slots, poolVars,
                 failure, events>>

(* A body settles while the scheduler waits, with a result or by rejecting. *)
Suspended == pc \in {"classify", "preparing", "finalizing", "waiting", "draining"}

Settle(c) ==
  /\ Suspended /\ c \in bodies
  /\ bodies' = bodies \ {c}
  /\ \/ slots' \in {[slots EXCEPT ![c] = kind] : kind \in {"post", "final"}} /\ UNCHANGED failure
     \/ failure' = TRUE /\ UNCHANGED slots
  /\ UNCHANGED <<pc, aborted, sawAbort, batchVars, started, committed, inFlight, events>>

(* The step is cancelled. *)
Abort ==
  /\ ~aborted /\ aborted' = TRUE
  /\ UNCHANGED <<pc, sawAbort, batchVars, started, committed, slots, poolVars,
                 failure, events>>

Scheduler ==
  \/ EnterGroup \/ Return \/ Prepared \/ FinishReady \/ Finalized \/ Advance \/ Race
  \/ SkipRest \/ Drained

Next == Begin \/ Scheduler \/ (\E c \in Call : Settle(c)) \/ Abort

Spec == Init /\ [][Next]_vars

(* What the scheduler awaits settles: preparation, policy and tool bodies are
   handed the abort signal and return. *)
FairSpec == Spec /\ WF_vars(Scheduler) /\ \A c \in Call : WF_vars(Settle(c))

-------------------------------------------------------------------------------
(* Properties. *)

(* The step sees an ordered batch: the scheduler, its groups and its pool are
   an implementation of ToolBatch. *)
BatchState ==
  [state |-> IF pc \in {"idle", "done", "failed"} THEN "idle"
             ELSE IF pc = "draining" THEN "failed" ELSE "running",
   asked |-> asked, started |-> started, done |-> committed]

Batch == INSTANCE ToolBatch WITH
  aborted <- aborted,
  batch <- IF BatchState.state = "idle"
           THEN [state |-> "idle", asked |-> 0, started |-> 0, done |-> 0] ELSE BatchState

ImplementsToolBatch == Batch!Spec

(* The recorded events pair up: calls, and results, are those of 1, 2, ... in
   that order, one of each per call, and a result follows its call. *)
IsCall(i) == events[i][1] = "call"

SuccessiveEvents(i, j) ==
  i < j /\ (IsCall(i) <=> IsCall(j)) => events[i][2] < events[j][2]

NoGapBefore(i) ==
  \A c \in 1 .. events[i][2] - 1 :
    \E j \in 1 .. i - 1 : (IsCall(j) <=> IsCall(i)) /\ events[j][2] = c

AfterItsCall(i) ==
  ~IsCall(i) => \E j \in 1 .. i - 1 : events[j] = <<"call", events[i][2]>>

ResultsInModelOrder ==
  /\ \A i, j \in 1 .. Len(events) : SuccessiveEvents(i, j)
  /\ \A i \in 1 .. Len(events) : NoGapBefore(i) /\ AfterItsCall(i)

(* Bodies stay where they belong: at most a pool of them, an exclusive call's
   alone, and none outlives its group, so none is left running when the batch is
   over, rejected or not. *)
ExclusiveRunsAlone ==
  /\ Cardinality(bodies) <= MaxParallel
  /\ mode = "exclusive" /\ pc # "idle" => bodies \subseteq {first}
  /\ pc \in {"classify", "skipping", "done", "failed"} => bodies = {}

(* The batch ends, aborted or not, failed or not. *)
BatchEnds == (pc = "classify") ~> (pc \in {"done", "failed"})
===============================================================================
