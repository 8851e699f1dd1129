------------------------------ MODULE AgentDriver ------------------------------
(***************************************************************************)
(* The driver of one agent: ReactLoopAgent of                              *)
(* packages/core/agent-loop/src/agent.ts, with its inbox (inbox.ts), the   *)
(* log it writes, the tool phase (tool-calls.ts, as ToolBatch promises it),*)
(* its teardown (index.ts) and crash repair (session/src/repair.ts).       *)
(*                                                                         *)
(* The program runs on one JavaScript thread.  An action is the code       *)
(* between two points where other code may run:                            *)
(*   - an await: any client call may run before the driver resumes;        *)
(*   - the publication of a log event to its synchronous observers: they   *)
(*     may call the agent, but every append they cause is refused          *)
(*     (session/src/index.ts, publicationEntry);                           *)
(*   - an agent notification (status, inbox, error): its observers may     *)
(*     make any client call, nested in the call that notified them.        *)
(* `pc` names the point the driver is at.                                  *)
(***************************************************************************)
EXTENDS SessionLog, FiniteSets

CONSTANTS
  Cause,             \* the cancellation causes clients use
  MaxStep,           \* bound: the model asks for tools in the first MaxStep steps of a turn
  MaxAttempt,        \* bound: model attempts in one step
  MaxCrash,          \* bound: process losses
  ReentrantDisposal  \* may an observer of a log event dispose the agent?

ASSUME CauseAssumption == Cause \subseteq AgentCancelCause \ {"disposed"}
ASSUME BoundAssumption ==
  MaxStep \in Nat /\ MaxAttempt \in Nat \ {0} /\ MaxCrash \in Nat
ASSUME ReentrantDisposalAssumption == ReentrantDisposal \in BOOLEAN

VARIABLES
  phase,      \* the phase union, flattened; unused fields are 0, "none", FALSE
  inbox,      \* pending input, by target
  log,        \* the durable session log
  pc,         \* where the driver is
  turnEnds,   \* turn(): how the turn would end now, "none" while it goes on
  claimed,    \* messages the proposed or open step has claimed, not admitted yet
  attempts,   \* step(): model attempts admitted in the open step
  batch,      \* the tool calls of the open step, see ToolBatch
  concluded,  \* a tool result concluded the turn
  sent,       \* messages clients have used: a message identity is used once
  waking,     \* a send() between its insertion and its wakeDriver()
  replay,     \* a kick() between going idle and replaying the latched wake
  teardown,   \* the lifecycle owner: "live", "draining" (whenIdle), "done"
  crashes     \* process losses so far

inputVars == <<inbox, sent>>
stepVars  == <<claimed, attempts, batch, concluded>>
callVars  == <<waking, replay, teardown, crashes>>
vars == <<phase, inbox, log, pc, turnEnds, stepVars, sent, callVars>>

InboxTarget == {"next-turn", "next-step"}
Empty == [t \in InboxTarget |-> << >>]
HasPending == inbox # Empty
Aborted == phase.cause # "none"
Active == phase.kind # "idle"

Tools == INSTANCE ToolBatch WITH aborted <- Aborted

(* Points reached by an await or an agent notification, and points at which
   the observers of a log event run. *)
Awaiting == {"off", "opening", "prestep", "rejected", "entering", "preparing", "streaming",
             "requestError", "tools", "draining", "returned", "failing", "stopping",
             "reporting", "converging", "repairing"}
Publishing == {"claim", "dispatching", "recovering", "stepEnded", "stepFailed", "turnEnded"}

(* Points with a turn open, and those of them with a step open. *)
StepPoints == {"preparing", "dispatching", "streaming", "requestError", "tools", "draining",
               "returned", "failing", "recovering"}
TurnPoints == StepPoints \cup {"claim", "prestep", "rejected", "entering", "stepEnded",
                               "stopping", "stepFailed", "reporting"}

PhaseType == [kind : {"idle", "maintenance", "running"},
              cause : Cause \cup {"none", "disposed"},
              turn : Nat, step : Nat, wakeRequested : BOOLEAN]
TurnEndState == {"none", "completed", "max-tokens", "error"}

TypeOK ==
  /\ phase \in PhaseType
  /\ inbox \in [InboxTarget -> Seq(Message)]
  /\ log \in Seq(Event)
  /\ pc \in Awaiting \cup Publishing
  /\ turnEnds \in TurnEndState
  /\ claimed \in Seq(Message)
  /\ attempts \in 0 .. MaxAttempt
  /\ Tools!TypeOK
  /\ concluded \in BOOLEAN
  /\ sent \subseteq Message
  /\ waking \in {"none", "live", "after-abort"}
  /\ replay \in BOOLEAN
  /\ teardown \in {"live", "draining", "done"}
  /\ crashes \in 0 .. MaxCrash

IdlePhase(t) == [kind |-> "idle", cause |-> "none", turn |-> t, step |-> 0,
                 wakeRequested |-> FALSE]

Init ==
  /\ phase = IdlePhase(0)
  /\ inbox = Empty
  /\ log = << >>
  /\ pc = "off"
  /\ turnEnds = "none"
  /\ claimed = << >> /\ attempts = 0 /\ batch = Tools!Idle /\ concluded = FALSE
  /\ sent = {}
  /\ waking = "none" /\ replay = FALSE /\ teardown = "live" /\ crashes = 0

(* Append events to the log. *)
Record(events) == log' = log \o events

-------------------------------------------------------------------------------
(* Client calls. *)

(* A client may call now: the agent is not yet detached, and an append it
   makes is not refused. *)
Client == teardown # "done" /\ pc # "repairing"
MayAppend == Client /\ pc \in Awaiting

Fresh(m) == m \notin sent

(* Slips: a disposed activity latches like any other; a wake with nothing
   pending starts no driver. *)
WakeDriverLatchesDisposed(afterAbort) ==
  IF ~Active
  THEN /\ phase' = [phase EXCEPT !.kind = "running"]
       /\ pc' = "opening"
  ELSE /\ phase' = [phase EXCEPT !.wakeRequested = @ \/ phase.kind = "maintenance" \/ afterAbort]
       /\ UNCHANGED pc

WakeDriverIfPending(afterAbort) ==
  IF ~Active
  THEN IF HasPending
       THEN phase' = [phase EXCEPT !.kind = "running"] /\ pc' = "opening"
       ELSE UNCHANGED <<phase, pc>>
  ELSE /\ phase' = [phase EXCEPT !.wakeRequested =
                      \/ @
                      \/ /\ phase.cause # "disposed"
                         /\ phase.kind = "maintenance" \/ afterAbort]
       /\ UNCHANGED pc

(* wakeDriver: start a driver, or latch the wake behind maintenance or an
   aborted activity; disposal never latches. *)
WakeDriver(afterAbort) ==
  IF ~Active
  THEN /\ phase' = [phase EXCEPT !.kind = "running"]
       /\ pc' = "opening"
  ELSE /\ phase' = [phase EXCEPT !.wakeRequested =
                      \/ @
                      \/ /\ phase.cause # "disposed"
                         /\ phase.kind = "maintenance" \/ afterAbort]
       /\ UNCHANGED pc

(* send: waking input cannot join an aborted activity.  Its insertion is
   announced before wakeDriver runs; meanwhile observers may cancel or edit
   the inbox.  (Bound: they do not send waking input themselves.) *)
Send(m, target, wakeup) ==
  /\ MayAppend
  /\ Fresh(m) /\ sent' = sent \cup {m}
  /\ wakeup => waking = "none"
  /\ LET wakingAfterAbort == wakeup /\ Active /\ Aborted
         resolvedTarget   == IF wakingAfterAbort THEN "next-turn" ELSE target
     IN /\ inbox' = [inbox EXCEPT ![resolvedTarget] = Append(@, m)]
        /\ waking' = IF ~wakeup THEN waking
                     ELSE IF wakingAfterAbort THEN "after-abort" ELSE "live"
  /\ UNCHANGED <<phase, log, pc, turnEnds, stepVars, replay, teardown, crashes>>

SendWakes ==
  /\ waking # "none"
  /\ waking' = "none"
  /\ WakeDriver(waking = "after-abort")
  /\ UNCHANGED <<inputVars, log, turnEnds, stepVars, replay, teardown, crashes>>

(* Inbox commands remove and replace, by identity across both lists, and
   prepend. *)
InboxRemove(target, i) ==
  /\ MayAppend
  /\ i \in 1 .. Len(inbox[target])
  /\ inbox' = [inbox EXCEPT ![target] = SubSeq(@, 1, i - 1) \o SubSeq(@, i + 1, Len(@))]
  /\ UNCHANGED <<phase, log, pc, turnEnds, stepVars, sent, callVars>>

InboxReplace(target, i, m) ==
  /\ MayAppend
  /\ i \in 1 .. Len(inbox[target])
  /\ Fresh(m) /\ sent' = sent \cup {m}
  /\ inbox' = [inbox EXCEPT ![target][i] = m]
  /\ UNCHANGED <<phase, log, pc, turnEnds, stepVars, callVars>>

InboxPrepend(target, m) ==
  /\ MayAppend
  /\ Fresh(m) /\ sent' = sent \cup {m}
  /\ inbox' = [inbox EXCEPT ![target] = <<m>> \o @]
  /\ UNCHANGED <<phase, log, pc, turnEnds, stepVars, callVars>>

(* The effect of cancel: clear the inbox and the latched wake unless they are
   kept, then abort the activity.  The first cause stays. *)
CancelEffect(cause, keepInbox) ==
  /\ inbox' = IF keepInbox THEN inbox ELSE Empty
  /\ phase' = IF ~Active THEN phase
              ELSE [phase EXCEPT !.wakeRequested = @ /\ keepInbox,
                                 !.cause = IF @ = "none" THEN cause ELSE @]

(* During a publication the clear is refused, and cancel throws, unless there
   is nothing to clear. *)
CancelRefused(keepInbox) == pc \in Publishing /\ ~keepInbox /\ HasPending

Cancel(cause, keepInbox) ==
  /\ Client /\ ~CancelRefused(keepInbox)
  /\ CancelEffect(cause, keepInbox)
  /\ UNCHANGED <<log, pc, turnEnds, stepVars, sent, callVars>>

(* runMaintenance and the end of its job. *)
RunMaintenance ==
  /\ Client /\ ~Active
  /\ phase' = [phase EXCEPT !.kind = "maintenance"]
  /\ UNCHANGED <<inputVars, log, pc, turnEnds, stepVars, callVars>>

FinishMaintenance ==
  /\ phase.kind = "maintenance" /\ waking = "none" /\ ~replay
  /\ IF phase.cause # "disposed" /\ phase.wakeRequested /\ HasPending
     THEN phase' = [IdlePhase(phase.turn) EXCEPT !.kind = "running"] /\ pc' = "opening"
     ELSE phase' = IdlePhase(phase.turn) /\ UNCHANGED pc
  /\ UNCHANGED <<inputVars, log, turnEnds, stepVars, callVars>>

-------------------------------------------------------------------------------
(* Teardown and process loss. *)

(* teardown: a disposed-cause cancel, then whenIdle.  The refused cancel is a
   collected failure: whenIdle is skipped and the agent is detached at once. *)
Dispose ==
  /\ Client /\ teardown = "live"
  /\ IF CancelRefused(FALSE)
     THEN /\ ReentrantDisposal
          /\ teardown' = "done"
          /\ UNCHANGED <<phase, inbox>>
     ELSE /\ teardown' = "draining"
          /\ CancelEffect("disposed", FALSE)
  /\ UNCHANGED <<log, pc, turnEnds, stepVars, sent, waking, replay, crashes>>

(* whenIdle resolves once no activity is left, then the agent is detached. *)
Detach ==
  /\ teardown = "draining"
  /\ ~Active /\ waking = "none" /\ ~replay
  /\ teardown' = "done"
  /\ UNCHANGED <<phase, inputVars, log, pc, turnEnds, stepVars, waking, replay, crashes>>

(* The process is lost and the session resumed: the log and the inbox it
   projects survive, everything else is new.  resumeWith appends the closers
   of an interrupted turn before anything else runs; a loss between two of
   them is a loss during the repair. *)
Crash ==
  /\ crashes < MaxCrash /\ teardown = "live"
  /\ crashes' = crashes + 1
  /\ phase' = IdlePhase(LastTurn(log))
  /\ pc' = IF OpenTurn(log) = 0 THEN "off" ELSE "repairing"
  /\ turnEnds' = "none"
  /\ claimed' = << >> /\ attempts' = 0 /\ batch' = Tools!Idle /\ concluded' = FALSE
  /\ waking' = "none" /\ replay' = FALSE
  /\ UNCHANGED <<inputVars, log, teardown>>

RecoverNext ==
  \E r \in Unanswered(log) :
    /\ IsNextUnanswered(log, r)
    /\ Record(<<RecoveryResult(log, r[1], r[2])>>)

Repair ==
  /\ pc = "repairing"
  /\ \/ RecoverNext /\ UNCHANGED pc
     \/ /\ Unanswered(log) = {} /\ OpenStep(log) # 0
        /\ Record(<<StepEnd(OpenTurn(log), OpenStep(log))>>) /\ UNCHANGED pc
     \/ /\ Unanswered(log) = {} /\ OpenStep(log) = 0
        /\ Record(<<TurnEnd(OpenTurn(log), "interrupted", "none")>>) /\ pc' = "off"
  /\ UNCHANGED <<phase, inputVars, turnEnds, stepVars, callVars>>

-------------------------------------------------------------------------------
(* The driver. *)

(* The driver resumes at p: no client call is on the stack above it. *)
At(p) == pc = p /\ waking = "none" /\ ~replay

turn == phase.turn
step == phase.step

(* Leaving turn(): its turn/end is the last thing a turn records. *)
EndTurn(kind) == Record(<<TurnEnd(turn, kind, IF kind = "aborted" THEN phase.cause ELSE "none")>>)

(* An exception reaches turn(): an abort ends the turn with its cause; any
   other error is reported to agent/error observers first. *)
Throw ==
  \/ /\ Aborted
     /\ EndTurn("aborted") /\ pc' = "converging"
     /\ UNCHANGED turnEnds
  \/ /\ ~Aborted
     /\ turnEnds' = "error" /\ pc' = "reporting"
     /\ UNCHANGED log

(* turn() opens a turn, unless the driver was cancelled before. *)
OpenTurnBoundary ==
  /\ At("opening") /\ ~Aborted
  /\ Record(<<TurnStart(turn + 1)>>)
  /\ phase' = [phase EXCEPT !.turn = @ + 1]
  /\ turnEnds' = "none"
  /\ pc' = "claim"
  /\ UNCHANGED <<inputVars, stepVars, callVars>>

(* Slip: a disposed driver is not dropped at its first boundary. *)
DropUndisposedDriver ==
  /\ At("opening") /\ Aborted /\ phase.cause # "disposed"
  /\ pc' = "converging"
  /\ UNCHANGED <<phase, inputVars, log, turnEnds, stepVars, callVars>>

DropDriver ==
  /\ At("opening") /\ Aborted
  /\ pc' = "converging"
  /\ UNCHANGED <<phase, inputVars, log, turnEnds, stepVars, callVars>>

(* Slip: claimed next-step input stays pending. *)
ClaimKeeping(target) ==
  LET queued == inbox["next-turn"]
      prompts == IF target = "next-turn" /\ queued # << >> THEN 1 ELSE 0
  IN /\ claimed' = inbox["next-step"] \o SubSeq(queued, 1, prompts)
     /\ inbox' = [inbox EXCEPT !["next-turn"] = SubSeq(queued, prompts + 1, Len(queued))]

(* inbox.claim: all next-step input, and one queued turn at a turn boundary. *)
Claim(target) ==
  LET queued == inbox["next-turn"]
      prompts == IF target = "next-turn" /\ queued # << >> THEN 1 ELSE 0
  IN /\ claimed' = inbox["next-step"] \o SubSeq(queued, 1, prompts)
     /\ inbox' = [inbox EXCEPT !["next-step"] = << >>,
                               !["next-turn"] = SubSeq(queued, prompts + 1, Len(queued))]

ClaimTurn ==
  /\ At("claim")
  /\ \/ ~Aborted /\ Claim("next-turn") /\ pc' = "prestep" /\ UNCHANGED <<log, turnEnds>>
     \/ Aborted /\ Throw /\ UNCHANGED <<inbox, claimed>>
  /\ UNCHANGED <<phase, sent, attempts, batch, concluded, callVars>>

(* preStep throws, rejects, or enters with the claimed messages, possibly
   rewritten to none.  What it claimed is gone from the inbox in every case.
   It reads the signal before it returns; turn() awaits its answer, so an abort
   may still come before turn() acts on it. *)
PreStepThrows ==
  /\ At("prestep")
  /\ Throw
  /\ claimed' = << >>
  /\ UNCHANGED <<phase, inputVars, attempts, batch, concluded, callVars>>

PreStepRejects ==
  /\ At("prestep") /\ ~Aborted
  /\ pc' = "rejected"
  /\ claimed' = << >>
  /\ UNCHANGED <<phase, inputVars, log, turnEnds, attempts, batch, concluded, callVars>>

PreStepEnters ==
  /\ At("prestep") /\ ~Aborted
  /\ pc' = "entering"
  /\ claimed' \in {claimed, << >>}
  /\ UNCHANGED <<phase, inputVars, log, turnEnds, attempts, batch, concluded, callVars>>

(* turn() ends on a rejection, or because nothing is left to enter a step for,
   without reading the signal again: only entering a step does. *)
Block ==
  /\ At("rejected")
  /\ EndTurn("blocked") /\ pc' = "converging"
  /\ UNCHANGED <<phase, inputVars, turnEnds, stepVars, callVars>>

(* The turn's natural end: no step follows. *)
Break == EndTurn(turnEnds) /\ pc' = "turnEnded"

Enters == claimed # << >> \/ (turnEnds = "none" /\ step > 0)

EnterNothing ==
  /\ At("entering") /\ ~Enters
  /\ \/ turnEnds # "none" /\ Break
     \/ turnEnds = "none" /\ EndTurn("completed") /\ pc' = "converging"
  /\ UNCHANGED <<phase, inputVars, turnEnds, stepVars, callVars>>

EnterAborted ==
  /\ At("entering") /\ Enters /\ Aborted
  /\ Throw
  /\ claimed' = << >>
  /\ UNCHANGED <<phase, inputVars, attempts, batch, concluded, callVars>>

(* Slip: the step is opened in the log but not counted. *)
EnterStepUncounted ==
  /\ At("entering") /\ Enters /\ ~Aborted
  /\ Record(<<StepStart(turn, step + 1)>>)
  /\ attempts' = 0 /\ concluded' = FALSE
  /\ pc' = "preparing"
  /\ UNCHANGED <<phase, inputVars, turnEnds, claimed, batch, callVars>>

EnterStep ==
  /\ At("entering") /\ Enters /\ ~Aborted
  /\ Record(<<StepStart(turn, step + 1)>>)
  /\ phase' = [phase EXCEPT !.step = @ + 1]
  /\ attempts' = 0 /\ concluded' = FALSE
  /\ pc' = "preparing"
  /\ UNCHANGED <<inputVars, turnEnds, claimed, batch, callVars>>

(* step() throws, having recorded `events`, and its exception reaches the await
   in turn(): each unanswered tool call of the step gets a recovery result,
   then the step closes. *)
StepThrows(events) == Record(events) /\ pc' = "failing"

Failing == At("failing") \/ At("recovering")

RecoverCall ==
  /\ Failing
  /\ RecoverNext
  /\ pc' = "recovering"
  /\ UNCHANGED <<phase, inputVars, turnEnds, stepVars, callVars>>

(* Slip: a failed step is closed around its unanswered calls. *)
CloseFailedStepEarly ==
  /\ Failing
  /\ Record(<<StepEnd(turn, step)>>) /\ pc' = "stepFailed"
  /\ UNCHANGED <<phase, inputVars, turnEnds, stepVars, callVars>>

CloseFailedStep ==
  /\ Failing /\ Unanswered(log) = {}
  /\ Record(<<StepEnd(turn, step)>>) /\ pc' = "stepFailed"
  /\ UNCHANGED <<phase, inputVars, turnEnds, stepVars, callVars>>

(* step() returns `end`, having recorded `events`, and turn() awaits it: then
   the step closes.  A step that hit the token ceiling decides how the turn
   ends. *)
StepReturns(events, end) ==
  /\ Record(events)
  /\ turnEnds' = IF turnEnds = "max-tokens" THEN turnEnds ELSE end
  /\ pc' = "returned"

CloseStep ==
  /\ At("returned")
  /\ Record(<<StepEnd(turn, step)>>) /\ pc' = "stepEnded"
  /\ UNCHANGED <<phase, inputVars, turnEnds, stepVars, callVars>>

(* prepareRequest fails, or a model attempt begins: its system messages enter
   the log, and on the first attempt the claimed ones after them.  The signal is
   read before the first of these appends, not between them: an observer that
   aborts at one of them does not keep the rest out. *)
PrepareFails ==
  /\ At("preparing")
  /\ StepThrows(<< >>)
  /\ claimed' = << >>
  /\ UNCHANGED <<phase, inputVars, turnEnds, attempts, batch, concluded, callVars>>

(* Slip: the signal is not read again after the request is prepared. *)
AdmitUnchecked ==
  /\ At("preparing")
  /\ attempts' = attempts + 1
  /\ pc' = "dispatching"
  /\ UNCHANGED <<phase, inputVars, log, turnEnds, claimed, batch, concluded, callVars>>

Admit ==
  /\ At("preparing") /\ ~Aborted
  /\ attempts' = attempts + 1
  /\ pc' = "dispatching"
  /\ UNCHANGED <<phase, inputVars, log, turnEnds, claimed, batch, concluded, callVars>>

AdmitMessage ==
  /\ At("dispatching") /\ claimed # << >>
  /\ Record(<<UserMessage(turn, step, Head(claimed))>>)
  /\ claimed' = Tail(claimed)
  /\ UNCHANGED <<phase, inputVars, pc, turnEnds, attempts, batch, concluded, callVars>>

(* The request is built and its stream opened without an await. *)
DispatchFails ==
  /\ At("dispatching") /\ claimed = << >>
  /\ StepThrows(<< >>)
  /\ UNCHANGED <<phase, inputVars, turnEnds, stepVars, callVars>>

StartStream ==
  /\ At("dispatching") /\ claimed = << >> /\ ~Aborted
  /\ pc' = "streaming"
  /\ UNCHANGED <<phase, inputVars, log, turnEnds, stepVars, callVars>>

(* The stream is aborted: the visible prefix is kept, if there is one. *)
StreamInterrupted ==
  /\ At("streaming") /\ Aborted
  /\ \E settled \in {Assistant(turn, step, "interrupted", 0), Attempt(turn, step)} :
       StepThrows(<<settled>>)
  /\ UNCHANGED <<phase, inputVars, turnEnds, stepVars, callVars>>

StreamThrows ==
  /\ At("streaming") /\ ~Aborted
  /\ StepThrows(<<Attempt(turn, step)>>)
  /\ UNCHANGED <<phase, inputVars, turnEnds, stepVars, callVars>>

(* The stream ends with an error finish: listeners decide about a retry. *)
StreamFails ==
  /\ At("streaming") /\ ~Aborted
  /\ Record(<<Attempt(turn, step)>>)
  /\ pc' = "requestError"
  /\ UNCHANGED <<phase, inputVars, turnEnds, stepVars, callVars>>

Retry ==
  /\ At("requestError") /\ ~Aborted
  /\ attempts < MaxAttempt
  /\ pc' = "preparing"
  /\ UNCHANGED <<phase, inputVars, log, turnEnds, stepVars, callVars>>

GiveUp ==
  /\ At("requestError")
  /\ StepThrows(<< >>)
  /\ UNCHANGED <<phase, inputVars, turnEnds, stepVars, callVars>>

(* The stream hits the token ceiling: its tool calls are dropped, and one cut
   off in the middle fails the step. *)
StreamCutOff ==
  /\ At("streaming") /\ ~Aborted
  /\ LET message == <<Assistant(turn, step, "max-tokens", 0)>>
     IN \/ StepReturns(message, "max-tokens")
        \/ StepThrows(message) /\ UNCHANGED turnEnds
  /\ UNCHANGED <<phase, inputVars, stepVars, callVars>>

StreamStops ==
  /\ At("streaming") /\ ~Aborted
  /\ StepReturns(<<Assistant(turn, step, "stop", 0)>>, "completed")
  /\ UNCHANGED <<phase, inputVars, stepVars, callVars>>

StreamAsksForTools(n) ==
  /\ At("streaming") /\ ~Aborted
  /\ step <= MaxStep
  /\ Tools!Begin(n)
  /\ Record(<<Assistant(turn, step, "tool-calls", n)>>)
  /\ pc' = "tools"
  /\ UNCHANGED <<phase, inputVars, turnEnds, claimed, attempts, concluded, callVars>>

(* The tool phase: the actions of ToolBatch, with the events they record. *)
ToolStart ==
  /\ At("tools") /\ Tools!Start
  /\ Record(<<ToolCall(turn, step, batch.started + 1)>>)
  /\ UNCHANGED <<phase, inputVars, pc, turnEnds, claimed, attempts, concluded, callVars>>

(* A result is committed; context it carries joins the next step's input. *)
ToolCommit ==
  /\ At("tools") /\ Tools!Commit
  /\ Record(<<ToolResult(turn, step, batch.done + 1, "ok")>>)
  /\ \E contexts \in {{}} \cup {{m} : m \in {n \in Message : Fresh(n)}} :
       /\ sent' = sent \cup contexts
       /\ inbox' = [inbox EXCEPT !["next-step"] =
                      IF contexts = {} THEN @ ELSE Append(@, CHOOSE m \in contexts : TRUE)]
  /\ concluded' \in {concluded, TRUE}
  /\ UNCHANGED <<phase, pc, turnEnds, claimed, attempts, callVars>>

(* The events of the calls an aborted batch never started. *)
Skipped ==
  [i \in 1 .. 2 * (batch.asked - batch.started) |->
     LET c == batch.started + (i + 1) \div 2
     IN IF i % 2 = 1 THEN ToolCall(turn, step, c) ELSE ToolResult(turn, step, c, "aborted")]

ToolSkip ==
  /\ At("tools") /\ Tools!Skip
  /\ Record(Skipped)
  /\ UNCHANGED <<phase, inputVars, pc, turnEnds, claimed, attempts, concluded, callVars>>

ToolsFinish ==
  /\ At("tools") /\ Tools!Finish
  /\ StepReturns(<< >>, IF concluded THEN "completed" ELSE "none")
  /\ UNCHANGED <<phase, inputVars, claimed, attempts, concluded, callVars>>

ToolsFail ==
  /\ At("tools") /\ Tools!Fail
  /\ pc' = "draining"
  /\ UNCHANGED <<phase, inputVars, log, turnEnds, claimed, attempts, concluded, callVars>>

ToolsReject ==
  /\ At("draining") /\ Tools!Reject
  /\ StepThrows(<< >>)
  /\ UNCHANGED <<phase, inputVars, turnEnds, claimed, attempts, concluded, callVars>>

(* After a failed step: its exception reaches turn(). *)
StepFailed ==
  /\ At("stepFailed")
  /\ Throw
  /\ UNCHANGED <<phase, inputVars, stepVars, callVars>>

(* After a step that returned: go on with next-step input, or stop.  A turn
   about to stop first asks its agent/turn-stopping listeners, which may add
   input. *)
MayStop == turnEnds # "none" /\ inbox["next-step"] = << >>

NextStep == Claim("next-step") /\ pc' = "prestep" /\ UNCHANGED <<log, turnEnds>>

AfterStep ==
  /\ At("stepEnded")
  /\ \/ Aborted /\ Throw /\ UNCHANGED <<inbox, claimed>>
     \/ ~Aborted /\ MayStop /\ pc' = "stopping" /\ UNCHANGED <<log, turnEnds, inbox, claimed>>
     \/ ~Aborted /\ ~MayStop /\ NextStep
  /\ UNCHANGED <<phase, sent, attempts, batch, concluded, callVars>>

StoppingThrows ==
  /\ At("stopping")
  /\ Throw
  /\ UNCHANGED <<phase, inputVars, stepVars, callVars>>

(* Slip: the signal is not read again after the turn-stopping listeners. *)
StoppingUnchecked ==
  /\ At("stopping")
  /\ \/ MayStop /\ Break /\ UNCHANGED <<turnEnds, inbox, claimed>>
     \/ ~MayStop /\ NextStep
  /\ UNCHANGED <<phase, sent, attempts, batch, concluded, callVars>>

Stopping ==
  /\ At("stopping") /\ ~Aborted
  /\ \/ MayStop /\ Break /\ UNCHANGED <<turnEnds, inbox, claimed>>
     \/ ~MayStop /\ NextStep
  /\ UNCHANGED <<phase, sent, attempts, batch, concluded, callVars>>

(* The reported error ends the turn. *)
EndFailedTurn ==
  /\ At("reporting")
  /\ EndTurn("error") /\ pc' = "converging"
  /\ UNCHANGED <<phase, inputVars, turnEnds, stepVars, callVars>>

(* After a turn that ran to its end: pending input gets a turn of its own,
   under a fresh abort controller, and a latch on the old one is stale. *)
AfterTurn ==
  /\ At("turnEnded")
  /\ IF HasPending
     THEN /\ phase' = [phase EXCEPT !.cause = "none", !.wakeRequested = FALSE, !.step = 0]
          /\ pc' = "opening"
     ELSE UNCHANGED phase /\ pc' = "converging"
  /\ UNCHANGED <<inputVars, log, turnEnds, stepVars, callVars>>

(* Slip: the latched wake is lost when the driver goes idle. *)
ConvergeForgetting ==
  /\ At("converging")
  /\ phase' = IdlePhase(turn)
  /\ pc' = "off"
  /\ replay' = FALSE
  /\ UNCHANGED <<inputVars, log, turnEnds, stepVars, waking, teardown, crashes>>

(* kick: the driver goes idle, tells its observers, then replays a wake that
   was latched while it was aborted. *)
Converge ==
  /\ At("converging")
  /\ phase' = IdlePhase(turn)
  /\ pc' = "off"
  /\ replay' = phase.wakeRequested
  /\ UNCHANGED <<inputVars, log, turnEnds, stepVars, waking, teardown, crashes>>

Replay ==
  /\ replay /\ waking = "none"
  /\ replay' = FALSE
  /\ IF HasPending THEN WakeDriver(FALSE) ELSE UNCHANGED <<phase, pc>>
  /\ UNCHANGED <<inputVars, log, turnEnds, stepVars, waking, teardown, crashes>>

-------------------------------------------------------------------------------
Turn ==
  \/ OpenTurnBoundary \/ DropDriver \/ ClaimTurn
  \/ PreStepThrows \/ PreStepRejects \/ PreStepEnters
  \/ Block \/ EnterNothing \/ EnterAborted \/ EnterStep
  \/ AfterStep \/ StepFailed \/ StoppingThrows \/ Stopping
  \/ EndFailedTurn \/ AfterTurn

Step ==
  \/ RecoverCall \/ CloseFailedStep \/ CloseStep \/ PrepareFails \/ Admit \/ AdmitMessage
  \/ DispatchFails \/ StartStream \/ StreamInterrupted \/ StreamThrows \/ StreamFails
  \/ Retry \/ GiveUp \/ StreamCutOff \/ StreamStops
  \/ \E n \in CallIndex : StreamAsksForTools(n)

ToolPhase ==
  ToolStart \/ ToolCommit \/ ToolSkip \/ ToolsFinish \/ ToolsFail \/ ToolsReject

(* Everything the agent runs on its own account. *)
Driver == Turn \/ Step \/ ToolPhase \/ Converge \/ Replay \/ SendWakes

Clients ==
  \/ \E m \in Message, t \in InboxTarget :
       \/ \E w \in BOOLEAN : Send(m, t, w)
       \/ InboxPrepend(t, m)
       \/ \E i \in 1 .. Len(inbox[t]) : InboxReplace(t, i, m)
  \/ \E t \in InboxTarget : \E i \in 1 .. Len(inbox[t]) : InboxRemove(t, i)
  \/ \E c \in Cause, k \in BOOLEAN : Cancel(c, k)
  \/ RunMaintenance

Next ==
  Driver \/ Clients \/ FinishMaintenance \/ Dispose \/ Detach \/ Crash \/ Repair

Spec == Init /\ [][Next]_vars

(* What the program awaits settles: prompt assembly, listeners, the adapter's
   stream, tool calls and maintenance jobs are all handed the abort signal and
   return, so the driver, a maintenance job and a teardown each keep going.
   That the scheduler fails is never assumed. *)
Progress ==
  \/ Turn \/ Step \/ Converge \/ Replay \/ SendWakes
  \/ ToolStart \/ ToolCommit \/ ToolSkip \/ ToolsFinish \/ ToolsReject

Fairness ==
  /\ WF_vars(Progress)
  /\ WF_vars(FinishMaintenance)
  /\ WF_vars(Detach)
  /\ WF_vars(Repair)

FairSpec == Spec /\ Fairness

-------------------------------------------------------------------------------
(* Safety. *)

(* The log is a grammatical turn history at every moment, whatever is
   cancelled, fails or is lost: turns and steps nest and are numbered without
   gaps, input is admitted before the model answers, tool events follow a
   message that asked for them.  (turn, step, FailStep, crash repair.) *)
LogWellFormed == WellFormed(log)

(* The log's open turn and step are the ones the driver is in: what a reader
   of the log takes for the running turn is the running turn.
   (turnBoundary projection against agent.ts' phase.) *)
LogAgreesWithDriver ==
  pc # "repairing" =>
    /\ OpenTurn(log) = IF pc \in TurnPoints THEN turn ELSE 0
    /\ pc \in TurnPoints => OpenStep(log) = IF pc \in StepPoints THEN step ELSE 0
    /\ LastTurn(log) = turn

(* A closed step leaves no tool call dangling: each call its assistant message
   asked for has exactly one result, in model order, whether the batch
   finished, was aborted, failed, or was cut off by a crash. *)
EveryCallAnswered == CallsAnswered(log)

(* Why the last two hold: the driver's position in the code fixes what the
   last event of the log is.  Between turns it is the last turn's end, ... *)
AtBoundary ==
  \/ log = << >> /\ turn = 0
  \/ log # << >> /\ LastEvent(log).type = "turn/end" /\ LastEvent(log).turn = turn

(* ... in a turn an event of the open turn and step. *)
LastIs(types) ==
  /\ log # << >> /\ LastEvent(log).type \in types
  /\ LastEvent(log).turn = turn /\ LastEvent(log).step = step

BetweenTurns == {"off", "opening", "converging", "turnEnded"}
BetweenSteps == {"claim", "prestep", "rejected", "entering", "stepEnded", "stopping",
                 "stepFailed", "reporting"}
BeforeAnswer == {"preparing", "dispatching", "streaming"}

Position ==
  /\ pc \in BetweenTurns => AtBoundary
  /\ pc \in BetweenSteps => LastIs({"turn/start", "step/end"})
  /\ pc \in BeforeAnswer => LastIs({"step/start", "user/message", "assistant/attempt"})
  /\ pc = "preparing" /\ claimed # << >> => LastIs({"step/start"})
  /\ pc = "dispatching" /\ claimed # << >> => LastIs({"step/start", "user/message"})
  /\ pc = "requestError" => LastIs({"assistant/attempt"})
  /\ pc \in {"returned", "failing", "recovering"} => LastIs(InStep)
  /\ pc \in {"tools", "draining"} =>
       /\ LastIs({"assistant/message"} \cup ToolEvent)
       /\ Asking(LastEvent(log)) \/ LastEvent(log).type \in ToolEvent
  /\ pc = "repairing" => OpenTurn(log) # 0 /\ turn = LastTurn(log)

(* The phase says whether a driver runs, and a driver that has not opened a
   turn has no step. *)
Control ==
  /\ phase.kind = "running" <=> pc \notin {"off", "repairing"}
  /\ pc \in {"off", "opening", "repairing"} => step = 0
  /\ pc = "repairing" => phase.kind = "idle" /\ waking = "none" /\ ~replay
  /\ pc = "preparing" => attempts < MaxAttempt
  /\ pc = "dispatching" => attempts > 0
  /\ pc \in {"streaming", "requestError"} => claimed = << >>

DriverFollowsLog == LogFits(log) /\ Position /\ Control

(* No input is delivered twice, and what is delivered is no longer pending: a
   message is in one inbox position, or claimed, or in the log once. *)
Occurrences(m) ==
  LET in(s) == Cardinality({i \in DOMAIN s : s[i] = m})
  IN in(inbox["next-turn"]) + in(inbox["next-step"]) + in(claimed)
     + Cardinality({i \in DOMAIN log : Is(log, i, {"user/message"}) /\ log[i].message = m})

InputDeliveredOnce == \A m \in Message : Occurrences(m) <= IF m \in sent THEN 1 ELSE 0

-------------------------------------------------------------------------------
(* Action properties. *)

Appended == {log'[i] : i \in Len(log) + 1 .. Len(log')}

(* Losing the process at any point between two appends leaves a log that the
   resume closers balance: every prefix of the log is cut after an event some
   step appended.  (openTurnClosers, resumeWith.) *)
EveryPrefixRepaired ==
  \A l \in {SubSeq(log', 1, n) : n \in Len(log) + 1 .. Len(log')} :
    \A resumed \in {l \o Closers(l)} : Balanced(resumed)

RecoverableAtEveryPrefix == [][EveryPrefixRepaired]_vars

(* Once the open turn is aborted it does no new work: it opens no step, begins
   no model attempt, settles no complete model message and starts no tool call -
   a call it still records is answered as aborted in the same breath.  Input
   still enters the log only as the rest of what an attempt begun before the
   abort is admitting, and that attempt then asks no model. *)
AbortSilencesTurn ==
  [][Aborted /\ pc \in TurnPoints =>
       /\ attempts' <= attempts
       /\ pc' = "streaming" => pc = "streaming"
       /\ \A e \in Appended :
         /\ e.type \notin {"turn/start", "step/start"}
         /\ e.type = "user/message" => attempts > 0
         /\ e.type = "assistant/message" => e.finish = "interrupted"
         /\ e.type = "tool/call" =>
              \E f \in Appended : /\ f.type = "tool/result" /\ f.call = e.call
                                  /\ f.result = "aborted"]_vars

(* What a turn records as its end is true.  A turn that was cancelled while it
   was open says so, with the cause that came first, unless its end was already
   decided when the cancel came: a failure being reported, a rejection by the
   pre-step or its empty answer on its way to turn().  A turn nobody cancelled
   never says it was, and one in which some step hit the output ceiling is never
   completed, whatever its later steps do. *)
CutOff(t) ==
  \E i \in 1 .. Len(log) :
    Is(log, i, {"assistant/message"}) /\ log[i].finish = "max-tokens" /\ log[i].turn = t

Decided(kind) ==
  \/ pc = "reporting" /\ kind = "error"
  \/ pc = "rejected" /\ kind = "blocked"
  \/ pc = "entering" /\ kind \in {"completed", "max-tokens"}

TurnEndIsHonest ==
  [][\A e \in Appended : e.type = "turn/end" /\ e.kind # "interrupted" =>
       /\ Aborted => e.kind = "aborted" \/ Decided(e.kind)
       /\ e.kind = "aborted" => Aborted /\ e.cause = phase.cause
       /\ e.kind = "completed" => ~CutOff(e.turn)]_vars

(* An activity aborted by disposal is the last one: the driver neither opens a
   turn nor is replaced while it unwinds.  There is one exception: a disposal
   that arrives while the pre-step's empty answer is on its way to turn() is not
   seen there, the turn ends of itself, and input sent since then gets a turn. *)
EndedUnseen == pc = "turnEnded" /\ HasPending /\ pc' = "opening"

DisposalOpensNothing ==
  [][phase.cause = "disposed" =>
       \/ phase'.cause = "disposed" /\ phase'.turn = phase.turn
       \/ phase' = IdlePhase(phase.turn) /\ ~replay'
       \/ EndedUnseen]_vars

-------------------------------------------------------------------------------
(* Liveness. *)

(* A cancelled turn converges: the driver reaches idle. *)
AbortConverges ==
  (pc \in TurnPoints /\ Aborted) ~> (phase.kind = "idle")

(* A latched wake is replayed: pending input behind it gets a turn, unless it
   is withdrawn or the replacing driver is itself cancelled before its turn. *)
LatchedWakeReplays ==
  \A t \in 0 .. Cardinality(Message) :
    (phase.wakeRequested /\ HasPending /\ turn = t)
      ~> (turn > t \/ ~HasPending \/ (pc = "opening" /\ Aborted))

(* A wake sent to an idle agent opens a turn even if its message is withdrawn
   before it is claimed; only a cancel of the new driver prevents it. *)
WakeOpensTurn ==
  \A t \in 0 .. Cardinality(Message) :
    (waking = "live" /\ phase.kind = "idle" /\ turn = t)
      ~> (turn > t \/ (pc = "opening" /\ Aborted) \/ phase.kind = "maintenance")

(* Teardown completes although waking input may keep arriving, once clients
   stop starting maintenance behind it: whenIdle follows every activity that
   replaces the one it waits for, and comes to an end. *)
TeardownCompletes ==
  <>[](phase.kind # "maintenance") => (teardown = "draining" ~> teardown = "done")

(* What begins comes to rest: a cancelled turn, and a teardown. *)
DriverComesToRest == AbortConverges /\ TeardownCompletes

(* A wake is served, at once or after the abort it was latched behind. *)
WakesAreServed == WakeOpensTurn /\ LatchedWakeReplays

-------------------------------------------------------------------------------
(* What the repository says of the program and the program does not do. *)

(* "Teardown stops and drains the driver" (agent-loop README): a detached agent
   has no running driver. *)
TeardownDrainsDriver == teardown = "done" => phase.kind = "idle"
===============================================================================
