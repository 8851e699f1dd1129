------------------------------- MODULE ToolBatch -------------------------------
(***************************************************************************)
(* What executeToolCalls (packages/core/agent-loop/src/tool-calls.ts)      *)
(* promises the step that calls it, with the scheduling left out: the      *)
(* tool calls of one assistant message are started in model order, their   *)
(* results are committed in model order, an abort stops starts, lets every *)
(* started call commit and answers the rest with synthetic results, and an *)
(* internal failure ends the batch with nothing further recorded.          *)
(*                                                                         *)
(* AgentDriver takes its tool phase from the actions of this module;       *)
(* ToolScheduler, which models groups, the pool and reclassification,      *)
(* implements its specification.                                           *)
(***************************************************************************)
EXTENDS Integers

CONSTANT MaxCall     \* bound: tool calls in one batch

VARIABLES
  aborted,   \* the step's abort signal
  batch      \* the batch: see TypeOK

Idle == [state |-> "idle", asked |-> 0, started |-> 0, done |-> 0]

TypeOK ==
  /\ aborted \in BOOLEAN
  /\ batch \in [state : {"idle", "running", "failed"},
                asked : 0 .. MaxCall,     \* calls in the assistant message
                started : 0 .. MaxCall,   \* calls with a tool/call event
                done : 0 .. MaxCall]      \* calls with a tool/result event

Init == aborted = FALSE /\ batch = Idle

(* The step hands over the calls of its assistant message. *)
Begin(n) ==
  /\ batch.state = "idle"
  /\ n > 0
  /\ batch' = [state |-> "running", asked |-> n, started |-> 0, done |-> 0]

(* Slip: the pool is refilled without looking at the end of the batch. *)
StartPastEnd ==
  /\ batch.state = "running" /\ ~aborted
  /\ batch' = [batch EXCEPT !.started = @ + 1]

Start ==
  /\ batch.state = "running" /\ ~aborted
  /\ batch.started < batch.asked
  /\ batch' = [batch EXCEPT !.started = @ + 1]

Commit ==
  /\ batch.state = "running"
  /\ batch.done < batch.started
  /\ batch' = [batch EXCEPT !.done = @ + 1]

(* Slip: only a batch that has started something is closed on an abort. *)
SkipOnlyStarted ==
  /\ batch.state = "running" /\ aborted
  /\ batch.done = batch.started /\ batch.started > 0
  /\ batch.started < batch.asked
  /\ batch' = [batch EXCEPT !.started = batch.asked, !.done = batch.asked]

(* Aborted with every started call committed: the remaining calls each get a
   synthetic call and result, and the batch is over. *)
Skip ==
  /\ batch.state = "running" /\ aborted
  /\ batch.done = batch.started
  /\ batch.started < batch.asked
  /\ batch' = [batch EXCEPT !.started = batch.asked, !.done = batch.asked]

Finish ==
  /\ batch.state = "running"
  /\ batch.done = batch.asked
  /\ batch' = Idle

(* A failure of the scheduler itself: nothing starts or commits any more;
   dispatches already started are awaited before the batch rejects. *)
Fail ==
  /\ batch.state = "running"
  /\ batch' = [batch EXCEPT !.state = "failed"]

Reject ==
  /\ batch.state = "failed"
  /\ batch' = Idle

Abort == ~aborted /\ aborted' = TRUE /\ UNCHANGED batch

(* A new step gets a signal of its own. *)
Renew == batch.state = "idle" /\ aborted /\ aborted' = FALSE /\ UNCHANGED batch

Next ==
  \/ /\ UNCHANGED aborted
     /\ \/ \E n \in 1 .. MaxCall : Begin(n)
        \/ Start \/ Commit \/ Skip \/ Finish \/ Fail \/ Reject
  \/ Abort \/ Renew

Spec == Init /\ [][Next]_<<aborted, batch>>
===============================================================================
