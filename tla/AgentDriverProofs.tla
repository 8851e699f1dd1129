--------------------------- MODULE AgentDriverProofs ---------------------------
(***************************************************************************)
(* Theorems about AgentDriver, for any set of messages and any bounds: its *)
(* state is well typed, the log it writes is grammatical at every moment,  *)
(* the log's open turn and step are the driver's, an aborted turn does no  *)
(* new work, a turn's end says truly how it ended, nothing follows a       *)
(* disposal, no closed step leaves a tool call unanswered, and no message  *)
(* is delivered twice.                                                     *)
(*                                                                         *)
(* The invariant is TypeOK /\ DriverFollowsLog: where the driver is in its *)
(* code fixes what the last event of the log is, so whatever it appends    *)
(* next may follow that event. The properties of steps rest on two further *)
(* invariants, CutOffsCount and CauseCounts, carried beside it, the        *)
(* answers to tool calls on a third, AnswersCount, and the input on a      *)
(* fourth, InputCounts.                                                    *)
(***************************************************************************)
EXTENDS AgentDriver, SessionLogProofs

Inv == TypeOK /\ DriverFollowsLog

-------------------------------------------------------------------------------
(* Type correctness: what each action assigns, action by action. *)

USE DEF Tools!Idle, Tools!TypeOK

InboxType == [InboxTarget -> Seq(Message)]

(* What the helpers of several actions assign is well typed. *)
LEMMA PhaseUpdates ==
  ASSUME NEW p \in PhaseType
  PROVE  /\ \A t \in Nat : IdlePhase(t) \in PhaseType
         /\ \A t \in Nat : [IdlePhase(t) EXCEPT !.kind = "running"] \in PhaseType
         /\ \A k \in {"idle", "maintenance", "running"} : [p EXCEPT !.kind = k] \in PhaseType
         /\ [p EXCEPT !.turn = @ + 1] \in PhaseType
         /\ [p EXCEPT !.step = @ + 1] \in PhaseType
         /\ \A w \in BOOLEAN : [p EXCEPT !.wakeRequested = w] \in PhaseType
         /\ [p EXCEPT !.cause = "none", !.wakeRequested = FALSE, !.step = 0] \in PhaseType
         /\ \A w \in BOOLEAN, c \in Cause \cup {"none", "disposed"} :
              [p EXCEPT !.wakeRequested = w, !.cause = c] \in PhaseType
<1>1. \A t \in Nat : IdlePhase(t) \in PhaseType
  BY DEF PhaseType, IdlePhase
<1>2. \A t \in Nat : [IdlePhase(t) EXCEPT !.kind = "running"] \in PhaseType
  BY DEF PhaseType, IdlePhase
<1>3. \A k \in {"idle", "maintenance", "running"} : [p EXCEPT !.kind = k] \in PhaseType
  BY DEF PhaseType
<1>4. [p EXCEPT !.turn = @ + 1] \in PhaseType /\ [p EXCEPT !.step = @ + 1] \in PhaseType
  BY DEF PhaseType
<1>5. \A w \in BOOLEAN : [p EXCEPT !.wakeRequested = w] \in PhaseType
  BY DEF PhaseType
<1>6. [p EXCEPT !.cause = "none", !.wakeRequested = FALSE, !.step = 0] \in PhaseType
  BY DEF PhaseType
<1>7. \A w \in BOOLEAN, c \in Cause \cup {"none", "disposed"} :
        [p EXCEPT !.wakeRequested = w, !.cause = c] \in PhaseType
  BY DEF PhaseType
<1> QED
  BY <1>1, <1>2, <1>3, <1>4, <1>5, <1>6, <1>7

(* What the fields of the phase are. *)
LEMMA PhaseFields ==
  ASSUME TypeOK
  PROVE  /\ turn \in Nat /\ step \in Nat /\ phase.cause \in Cause \cup {"none", "disposed"}
         /\ phase.kind \in {"idle", "maintenance", "running"} /\ phase.wakeRequested \in BOOLEAN
  BY DEF TypeOK, PhaseType, turn, step

(* A cancel keeps the phase and the inbox in their types. *)
LEMMA CancelTypes ==
  ASSUME TypeOK, NEW c \in Cause \cup {"disposed"}, NEW k \in BOOLEAN, CancelEffect(c, k)
  PROVE  phase' \in PhaseType /\ inbox' \in InboxType
<1>1. inbox' \in InboxType
  BY DEF CancelEffect, TypeOK, Empty, InboxType, InboxTarget
<1>2. phase' \in PhaseType
  <2> DEFINE w == phase.wakeRequested /\ k
             d == IF phase.cause = "none" THEN c ELSE phase.cause
  <2>1. w \in BOOLEAN /\ d \in Cause \cup {"none", "disposed"}
    BY PhaseFields
  <2>2. phase' = IF ~Active THEN phase ELSE [phase EXCEPT !.wakeRequested = w, !.cause = d]
    BY DEF CancelEffect
  <2> HIDE DEF w, d
  <2> QED
    BY <2>1, <2>2, PhaseUpdates DEF TypeOK
<1> QED
  BY <1>1, <1>2

(* A wake keeps the phase and the position in their types. *)
LEMMA WakeTypes ==
  ASSUME TypeOK, NEW a \in BOOLEAN, WakeDriver(a)
  PROVE  phase' \in PhaseType /\ pc' \in Awaiting \cup Publishing
<1>1. CASE ~Active
  BY <1>1, PhaseUpdates DEF WakeDriver, TypeOK, Awaiting
<1>2. CASE Active
  <2> DEFINE w == \/ phase.wakeRequested
                  \/ phase.cause # "disposed" /\ (phase.kind = "maintenance" \/ a)
  <2>1. w \in BOOLEAN
    OBVIOUS
  <2>2. phase' = [phase EXCEPT !.wakeRequested = w] /\ pc' = pc
    BY <1>2 DEF WakeDriver
  <2> HIDE DEF w
  <2> QED
    BY <2>1, <2>2, PhaseUpdates DEF TypeOK
<1> QED
  BY <1>1, <1>2

(* Recording events keeps the log a sequence of events, *)
LEMMA RecordTypes ==
  ASSUME TypeOK, NEW es \in Seq(Event), Record(es)
  PROVE  log' \in Seq(Event)
  BY DEF TypeOK, Record

(* recording one does, *)
LEMMA RecordOne ==
  ASSUME TypeOK, NEW e \in Event, Record(<<e>>)
  PROVE  log' \in Seq(Event)
<1>1. <<e>> \in Seq(Event)
  OBVIOUS
<1> QED
  BY <1>1, RecordTypes

(* and so does a turn's end. *)
LEMMA EndTurnTypes ==
  ASSUME TypeOK, NEW k \in TurnEndKind, EndTurn(k)
  PROVE  log' \in Seq(Event)
<1> DEFINE e == TurnEnd(turn, k, IF k = "aborted" THEN phase.cause ELSE "none")
<1>1. e \in Event
  BY PhaseFields, CauseAssumption, EventsAreEvents DEF AgentCancelCause
<1>2. Record(<<e>>)
  BY DEF EndTurn
<1> HIDE DEF e
<1> QED
  BY <1>1, <1>2, RecordOne

(* A throw keeps the log and the turn's end in their types. *)
LEMMA ThrowTypes ==
  ASSUME TypeOK, Throw
  PROVE  /\ log' \in Seq(Event) /\ turnEnds' \in TurnEndState
         /\ pc' \in {"converging", "reporting"}
<1>1. EndTurn("aborted") => log' \in Seq(Event)
  BY EndTurnTypes DEF TurnEndKind
<1> QED
  BY <1>1 DEF Throw, TypeOK, TurnEndState

(* So does a step that returns. *)
LEMMA StepReturnsTypes ==
  ASSUME TypeOK, NEW es \in Seq(Event), NEW end \in TurnEndState, StepReturns(es, end)
  PROVE  log' \in Seq(Event) /\ turnEnds' \in TurnEndState /\ pc' = "returned"
<1>1. log' \in Seq(Event)
  BY RecordTypes DEF StepReturns
<1> QED
  BY <1>1 DEF StepReturns, TypeOK

(* Claiming prompts keeps them and the inbox in their types. *)
LEMMA ClaimTypes ==
  ASSUME TypeOK, NEW t \in InboxTarget, Claim(t)
  PROVE  claimed' \in Seq(Message) /\ inbox' \in InboxType
<1> DEFINE queued  == inbox["next-turn"]
           prompts == IF t = "next-turn" /\ queued # << >> THEN 1 ELSE 0
<1>1. queued \in Seq(Message) /\ inbox["next-step"] \in Seq(Message)
  BY DEF TypeOK, InboxTarget
<1>2. prompts \in 0 .. 1 /\ prompts <= Len(queued)
  BY <1>1
<1>3. SubSeq(queued, 1, prompts) \in Seq(Message)
      /\ SubSeq(queued, prompts + 1, Len(queued)) \in Seq(Message)
  BY <1>1, <1>2
<1>4. /\ claimed' = inbox["next-step"] \o SubSeq(queued, 1, prompts)
      /\ inbox' = [inbox EXCEPT !["next-step"] = << >>,
                                !["next-turn"] = SubSeq(queued, prompts + 1, Len(queued))]
  BY DEF Claim
<1> HIDE DEF queued, prompts
<1>5. claimed' \in Seq(Message)
  BY <1>1, <1>3, <1>4
<1>6. inbox' \in InboxType
  <2>1. inbox \in [InboxTarget -> Seq(Message)] /\ << >> \in Seq(Message)
    BY DEF TypeOK
  <2> QED
    BY <1>3, <1>4, <2>1 DEF InboxType, InboxTarget
<1> QED
  BY <1>5, <1>6

(* A repair event is an event. *)
LEMMA RecoverNextTypes ==
  ASSUME TypeOK, RecoverNext
  PROVE  log' \in Seq(Event)
<1>1. log \in Seq(Event)
  BY DEF TypeOK
<1>2. PICK r \in Unanswered(log) : Record(<<RecoveryResult(log, r[1], r[2])>>)
  BY DEF RecoverNext
<1> DEFINE e == RecoveryResult(log, r[1], r[2])
<1>3. e \in Event
  BY <1>1, RecoveryResultIsEvent
<1>4. Record(<<e>>)
  BY <1>2
<1> HIDE DEF e
<1>5. <<e>> \in Seq(Event)
  BY <1>3
<1> QED
  BY <1>4, <1>5, RecordTypes

(* The cursors of a log are numbers. *)
LEMMA CursorTypes ==
  ASSUME NEW l \in Seq(Event)
  PROVE  OpenTurn(l) \in Nat /\ OpenStep(l) \in Nat /\ LastTurn(l) \in Nat
<1>1. \A i \in 1 .. Len(l) : l[i].turn \in Nat /\ l[i].step \in Nat
  BY EventFields
<1>2. /\ OpenTurns(l) \subseteq 1 .. Len(l) /\ OpenSteps(l) \subseteq 1 .. Len(l)
      /\ LastTurns(l) \subseteq 1 .. Len(l)
  BY DEF OpenTurns, OpenSteps, LastTurns, Latest
<1>3. \A I \in SUBSET (1 .. Len(l)) : I # {} => (CHOOSE i \in I : TRUE) \in 1 .. Len(l)
  OBVIOUS
<1>4. OpenTurn(l) \in Nat
  BY <1>1, <1>2, <1>3 DEF OpenTurn
<1>5. OpenStep(l) \in Nat
  BY <1>1, <1>2, <1>3 DEF OpenStep
<1>6. LastTurn(l) \in Nat
  BY <1>1, <1>2, <1>3 DEF LastTurn
<1> QED
  BY <1>4, <1>5, <1>6

BatchType == [state : {"idle", "running", "failed"}, asked : 0 .. MaxCall,
              started : 0 .. MaxCall, done : 0 .. MaxCall]

(* What the fields of the tool batch are. *)
LEMMA BatchFields ==
  ASSUME TypeOK
  PROVE  /\ batch.state \in {"idle", "running", "failed"}
         /\ batch.asked \in Nat /\ batch.asked <= MaxCall
         /\ batch.started \in Nat /\ batch.started <= MaxCall
         /\ batch.done \in Nat /\ batch.done <= MaxCall
  BY MaxCallAssumption DEF TypeOK

(* The calls not started are answered with two events each. *)
LEMMA SkippedAreEvents ==
  ASSUME TypeOK, batch.started < batch.asked
  PROVE  Skipped \in Seq(Event) /\ Len(Skipped) = 2 * (batch.asked - batch.started)
<1> DEFINE n == batch.asked - batch.started
           c(i) == batch.started + (i + 1) \div 2
<1>1. /\ batch.started \in Nat /\ batch.asked \in Nat /\ n \in Nat /\ 2 * n \in Nat
      /\ batch.asked <= MaxCall /\ batch.started + n = batch.asked
  BY MaxCallAssumption DEF TypeOK
<1>2. \A i \in 1 .. 2 * n : c(i) \in CallIndex
  BY <1>1, MaxCallAssumption DEF CallIndex
<1> HIDE DEF c
<1>3. \A i \in 1 .. 2 * n : /\ ToolCall(turn, step, c(i)) \in Event
                           /\ ToolResult(turn, step, c(i), "aborted") \in Event
  BY <1>2, PhaseFields, EventsAreEvents DEF ResultKind
<1>4. Skipped = [i \in 1 .. 2 * n |-> IF i % 2 = 1 THEN ToolCall(turn, step, c(i))
                                     ELSE ToolResult(turn, step, c(i), "aborted")]
  BY DEF Skipped, c
<1> HIDE DEF n
<1> QED
  BY <1>1, <1>3, <1>4 DEF n

(* The bound on attempts holds where an attempt starts. *)
AttemptsFit ==
  /\ pc = "preparing" => attempts < MaxAttempt

(* Every action keeps the state well typed.  (All of agent.ts.) *)
LEMMA TypeStep ==
  ASSUME TypeOK, AttemptsFit, [Next]_vars
  PROVE  TypeOK'
<1> USE BoundAssumption, MaxCallAssumption
        DEF TypeOK, Aborted, Awaiting, Publishing, inputVars, stepVars, callVars, At
<1>1. ASSUME NEW m \in Message, NEW t \in InboxTarget, NEW w \in BOOLEAN, Send(m, t, w)
      PROVE  TypeOK'
  BY <1>1 DEF Send, InboxTarget, Fresh
<1>2. ASSUME NEW t \in InboxTarget, NEW m \in Message, InboxPrepend(t, m)
      PROVE  TypeOK'
  BY <1>2 DEF InboxPrepend, InboxTarget, Fresh
<1>3. ASSUME NEW t \in InboxTarget, NEW m \in Message, NEW i \in 1 .. Len(inbox[t]),
             InboxReplace(t, i, m)
      PROVE  TypeOK'
  BY <1>3 DEF InboxReplace, InboxTarget, Fresh
<1>4. ASSUME NEW t \in InboxTarget, NEW i \in 1 .. Len(inbox[t]), InboxRemove(t, i)
      PROVE  TypeOK'
  BY <1>4 DEF InboxRemove, InboxTarget
<1>5. ASSUME NEW c \in Cause, NEW k \in BOOLEAN, Cancel(c, k)
      PROVE  TypeOK'
  <2>1. phase' \in PhaseType /\ inbox' \in InboxType
    BY <1>5, CancelTypes DEF Cancel
  <2> QED
    BY <1>5, <2>1 DEF Cancel, InboxType
<1>6. ASSUME RunMaintenance
      PROVE  TypeOK'
  BY ZenonT(60), <1>6, PhaseUpdates DEF RunMaintenance
<1>7. ASSUME FinishMaintenance
      PROVE  TypeOK'
  <2>1. phase' \in PhaseType
    BY <1>7, PhaseUpdates, PhaseFields DEF FinishMaintenance, turn
  <2> QED
    BY <1>7, <2>1 DEF FinishMaintenance
<1>8. ASSUME Dispose
      PROVE  TypeOK'
  <2>1. phase' \in PhaseType /\ inbox' \in InboxType
    BY <1>8, CancelTypes DEF Dispose, InboxType
  <2> QED
    BY <1>8, <2>1 DEF Dispose, InboxType
<1>9. ASSUME Detach
      PROVE  TypeOK'
  BY <1>9 DEF Detach
<1>10. ASSUME Crash
       PROVE  TypeOK'
  <2>1. phase' \in PhaseType
    BY <1>10, PhaseUpdates, CursorTypes DEF Crash
  <2>2. crashes' \in 0 .. MaxCrash
    BY <1>10 DEF Crash
  <2>3. pc' \in Awaiting
    BY <1>10 DEF Crash
  <2> QED
    <3>1. /\ turnEnds' = "none" /\ claimed' = << >> /\ attempts' = 0 /\ batch' = Tools!Idle
          /\ concluded' = FALSE /\ waking' = "none" /\ replay' = FALSE
          /\ UNCHANGED <<inputVars, log, teardown>>
      BY <1>10 DEF Crash
    <3>2. claimed' \in Seq(Message) /\ attempts' \in 0 .. MaxAttempt /\ Tools!TypeOK'
      BY <3>1
    <3> QED
      BY <2>1, <2>2, <2>3, <3>1, <3>2 DEF TurnEndState
<1>11. ASSUME Repair
       PROVE  TypeOK'
  <2>1. OpenTurn(log) \in Nat /\ OpenStep(log) \in Nat
    BY CursorTypes
  <2> DEFINE e == StepEnd(OpenTurn(log), OpenStep(log))
             f == TurnEnd(OpenTurn(log), "interrupted", "none")
  <2>2. e \in Event /\ f \in Event
    BY <2>1, EventsAreEvents DEF TurnEndKind
  <2>3. (RecoverNext \/ Record(<<e>>) \/ Record(<<f>>)) /\ pc' \in {pc, "off"}
    BY <1>11 DEF Repair
  <2> HIDE DEF e, f
  <2>4. <<e>> \in Seq(Event) /\ <<f>> \in Seq(Event)
    BY <2>2
  <2>5. log' \in Seq(Event)
    BY <2>3, <2>4, RecordTypes, RecoverNextTypes
  <2> QED
    BY <1>11, <2>3, <2>5 DEF Repair
<1>12. ASSUME SendWakes
       PROVE  TypeOK'
  <2>1. phase' \in PhaseType /\ pc' \in Awaiting \cup Publishing
    BY <1>12, WakeTypes DEF SendWakes
  <2> QED
    BY <1>12, <2>1 DEF SendWakes
<1>13. ASSUME OpenTurnBoundary
       PROVE  TypeOK'
  <2>1. phase' \in PhaseType
    BY <1>13, PhaseUpdates DEF OpenTurnBoundary
  <2>2. log' \in Seq(Event)
    <3> DEFINE e == TurnStart(turn + 1)
    <3>1. e \in Event
      BY PhaseFields, EventsAreEvents
    <3>2. Record(<<e>>)
      BY <1>13 DEF OpenTurnBoundary
    <3> HIDE DEF e
    <3> QED
      BY <3>1, <3>2, RecordOne
  <2> QED
    BY <1>13, <2>1, <2>2 DEF OpenTurnBoundary, TurnEndState
<1>14. ASSUME DropDriver
       PROVE  TypeOK'
  BY <1>14 DEF DropDriver
<1>15. ASSUME ClaimTurn
       PROVE  TypeOK'
  <2>1. Claim("next-turn") => claimed' \in Seq(Message) /\ inbox' \in InboxType
    BY ClaimTypes DEF InboxTarget
  <2> QED
    BY <1>15, <2>1, ThrowTypes DEF ClaimTurn, InboxType
<1>16. ASSUME PreStepThrows
       PROVE  TypeOK'
  BY <1>16, ThrowTypes DEF PreStepThrows
<1>17. ASSUME PreStepRejects
       PROVE  TypeOK'
  BY <1>17 DEF PreStepRejects
<1>18. ASSUME PreStepEnters
       PROVE  TypeOK'
  <2>1. claimed' \in Seq(Message)
    <3>1. claimed' \in {claimed, << >>}
      BY <1>18 DEF PreStepEnters
    <3>2. << >> \in Seq(Message) /\ claimed \in Seq(Message)
      OBVIOUS
    <3> QED
      BY <3>1, <3>2
  <2> QED
    BY <1>18, <2>1 DEF PreStepEnters
<1>19. ASSUME Block
       PROVE  TypeOK'
  <2>1. log' \in Seq(Event)
    BY <1>19, EndTurnTypes DEF Block, TurnEndKind
  <2> QED
    BY <1>19, <2>1 DEF Block
<1>20. ASSUME EnterNothing
       PROVE  TypeOK'
  <2>1. log' \in Seq(Event) /\ pc' \in {"turnEnded", "converging"}
    BY <1>20, EndTurnTypes DEF EnterNothing, Break, TurnEndKind, TurnEndState
  <2> QED
    BY <1>20, <2>1 DEF EnterNothing
<1>21. ASSUME EnterAborted
       PROVE  TypeOK'
  BY <1>21, ThrowTypes DEF EnterAborted
<1>22. ASSUME EnterStep
       PROVE  TypeOK'
  <2>1. phase' \in PhaseType
    BY <1>22, PhaseUpdates DEF EnterStep
  <2>2. log' \in Seq(Event)
    <3> DEFINE e == StepStart(turn, step + 1)
    <3>1. e \in Event
      BY PhaseFields, EventsAreEvents
    <3>2. Record(<<e>>)
      BY <1>22 DEF EnterStep
    <3> HIDE DEF e
    <3> QED
      BY <3>1, <3>2, RecordOne
  <2>3. /\ attempts' = 0 /\ concluded' = FALSE /\ pc' = "preparing"
        /\ UNCHANGED <<inputVars, turnEnds, claimed, batch, callVars>>
    BY <1>22 DEF EnterStep
  <2>4. Tools!TypeOK' /\ attempts' \in 0 .. MaxAttempt
    BY <2>3
  <2> QED
    BY <2>1, <2>2, <2>3, <2>4
<1>23. ASSUME AfterStep
       PROVE  TypeOK'
  <2>1. Claim("next-step") => claimed' \in Seq(Message) /\ inbox' \in InboxType
    BY ClaimTypes DEF InboxTarget
  <2> QED
    BY <1>23, <2>1, ThrowTypes DEF AfterStep, NextStep, InboxType
<1>24. ASSUME StepFailed
       PROVE  TypeOK'
  BY <1>24, ThrowTypes DEF StepFailed
<1>25. ASSUME StoppingThrows
       PROVE  TypeOK'
  BY <1>25, ThrowTypes DEF StoppingThrows
<1>26. ASSUME Stopping
       PROVE  TypeOK'
  <2>1. Claim("next-step") => claimed' \in Seq(Message) /\ inbox' \in InboxType
    BY ClaimTypes DEF InboxTarget
  <2>2. MayStop /\ Break => log' \in Seq(Event) /\ pc' = "turnEnded"
    BY EndTurnTypes DEF MayStop, Break, TurnEndKind, TurnEndState
  <2> QED
    BY <1>26, <2>1, <2>2 DEF Stopping, NextStep, InboxType
<1>27. ASSUME EndFailedTurn
       PROVE  TypeOK'
  <2>1. log' \in Seq(Event)
    BY <1>27, EndTurnTypes DEF EndFailedTurn, TurnEndKind
  <2> QED
    BY <1>27, <2>1 DEF EndFailedTurn
<1>28. ASSUME AfterTurn
       PROVE  TypeOK'
  <2>1. phase' \in PhaseType
    BY <1>28, PhaseUpdates DEF AfterTurn
  <2> QED
    BY <1>28, <2>1 DEF AfterTurn
<1>29. ASSUME RecoverCall
       PROVE  TypeOK'
  BY <1>29, RecoverNextTypes DEF RecoverCall
<1>30. ASSUME CloseFailedStep
       PROVE  TypeOK'
  <2>1. log' \in Seq(Event)
    <3> DEFINE e == StepEnd(turn, step)
    <3>1. e \in Event
      BY PhaseFields, EventsAreEvents
    <3>2. Record(<<e>>)
      BY <1>30 DEF CloseFailedStep
    <3> HIDE DEF e
    <3> QED
      BY <3>1, <3>2, RecordOne
  <2> QED
    BY <1>30, <2>1 DEF CloseFailedStep
<1>31. ASSUME CloseStep
       PROVE  TypeOK'
  <2>1. log' \in Seq(Event)
    <3> DEFINE e == StepEnd(turn, step)
    <3>1. e \in Event
      BY PhaseFields, EventsAreEvents
    <3>2. Record(<<e>>)
      BY <1>31 DEF CloseStep
    <3> HIDE DEF e
    <3> QED
      BY <3>1, <3>2, RecordOne
  <2> QED
    BY <1>31, <2>1 DEF CloseStep
<1>32. ASSUME PrepareFails
       PROVE  TypeOK'
  BY <1>32 DEF PrepareFails, StepThrows, Record
<1>33. ASSUME Admit
       PROVE  TypeOK'
  <2>1. attempts' \in 0 .. MaxAttempt
    BY <1>33 DEF Admit, AttemptsFit
  <2> QED
    BY <1>33, <2>1 DEF Admit
<1>34. ASSUME AdmitMessage
       PROVE  TypeOK'
  <2>1. Head(claimed) \in Message /\ Tail(claimed) \in Seq(Message)
    BY <1>34 DEF AdmitMessage
  <2>2. log' \in Seq(Event)
    <3> DEFINE e == UserMessage(turn, step, Head(claimed))
    <3>1. e \in Event
      BY <2>1, PhaseFields, EventsAreEvents
    <3>2. Record(<<e>>)
      BY <1>34 DEF AdmitMessage
    <3> HIDE DEF e
    <3> QED
      BY <3>1, <3>2, RecordOne
  <2> QED
    BY <1>34, <2>1, <2>2 DEF AdmitMessage
<1>35. ASSUME DispatchFails
       PROVE  TypeOK'
  BY <1>35 DEF DispatchFails, StepThrows, Record
<1>36. ASSUME StartStream
       PROVE  TypeOK'
  BY <1>36 DEF StartStream
<1>37. ASSUME StreamInterrupted
       PROVE  TypeOK'
  <2>1. log' \in Seq(Event)
    <3>1. Assistant(turn, step, "interrupted", 0) \in Event /\ Attempt(turn, step) \in Event
      BY PhaseFields, EventsAreEvents DEF FinishKind
    <3> QED
      <4> DEFINE e == Assistant(turn, step, "interrupted", 0)
                 f == Attempt(turn, step)
      <4>1. Record(<<e>>) \/ Record(<<f>>)
        BY <1>37 DEF StreamInterrupted, StepThrows
      <4>2. e \in Event /\ f \in Event
        BY <3>1
      <4> HIDE DEF e, f
      <4> QED
        BY <4>1, <4>2, RecordOne
  <2> QED
    BY <1>37, <2>1 DEF StreamInterrupted, StepThrows
<1>38. ASSUME StreamThrows
       PROVE  TypeOK'
  <2>1. log' \in Seq(Event)
    <3> DEFINE e == Attempt(turn, step)
    <3>1. e \in Event
      BY PhaseFields, EventsAreEvents
    <3>2. Record(<<e>>)
      BY <1>38 DEF StreamThrows, StepThrows
    <3> HIDE DEF e
    <3> QED
      BY <3>1, <3>2, RecordOne
  <2> QED
    BY <1>38, <2>1 DEF StreamThrows, StepThrows
<1>39. ASSUME StreamFails
       PROVE  TypeOK'
  <2>1. log' \in Seq(Event)
    <3> DEFINE e == Attempt(turn, step)
    <3>1. e \in Event
      BY PhaseFields, EventsAreEvents
    <3>2. Record(<<e>>)
      BY <1>39 DEF StreamFails
    <3> HIDE DEF e
    <3> QED
      BY <3>1, <3>2, RecordOne
  <2> QED
    BY <1>39, <2>1 DEF StreamFails
<1>40. ASSUME Retry
       PROVE  TypeOK'
  BY <1>40 DEF Retry
<1>41. ASSUME GiveUp
       PROVE  TypeOK'
  BY <1>41 DEF GiveUp, StepThrows, Record
<1>42. ASSUME StreamCutOff
       PROVE  TypeOK'
  <2> DEFINE es == <<Assistant(turn, step, "max-tokens", 0)>>
  <2>1. es \in Seq(Event)
    BY PhaseFields, EventsAreEvents DEF FinishKind
  <2>2. StepReturns(es, "max-tokens") \/ (Record(es) /\ pc' = "failing" /\ turnEnds' = turnEnds)
    BY <1>42 DEF StreamCutOff, StepThrows
  <2> HIDE DEF es
  <2>3. log' \in Seq(Event) /\ turnEnds' \in TurnEndState /\ pc' \in {"returned", "failing"}
    BY <2>1, <2>2, StepReturnsTypes, RecordTypes DEF TurnEndState
  <2> QED
    BY <1>42, <2>3 DEF StreamCutOff
<1>43. ASSUME StreamStops
       PROVE  TypeOK'
  <2>1. log' \in Seq(Event) /\ turnEnds' \in TurnEndState /\ pc' = "returned"
    <3>1. <<Assistant(turn, step, "stop", 0)>> \in Seq(Event)
      BY PhaseFields, EventsAreEvents DEF FinishKind
    <3> QED
      BY <1>43, <3>1, StepReturnsTypes DEF StreamStops, TurnEndState
  <2> QED
    BY <1>43, <2>1 DEF StreamStops
<1>44. ASSUME NEW n \in CallIndex, StreamAsksForTools(n)
       PROVE  TypeOK'
  <2>1. log' \in Seq(Event)
    <3> DEFINE e == Assistant(turn, step, "tool-calls", n)
    <3>1. e \in Event
      BY PhaseFields, EventsAreEvents
    <3>2. Record(<<e>>)
      BY <1>44 DEF StreamAsksForTools
    <3> HIDE DEF e
    <3> QED
      BY <3>1, <3>2, RecordOne
  <2>2. batch' \in BatchType
    BY <1>44 DEF StreamAsksForTools, Tools!Begin, CallIndex, BatchType
  <2> QED
    BY <1>44, <2>1, <2>2 DEF StreamAsksForTools, BatchType
<1>45. ASSUME ToolStart
       PROVE  TypeOK'
  <2>1. batch.started + 1 \in CallIndex
    BY <1>45, BatchFields DEF ToolStart, Tools!Start, CallIndex
  <2>3. batch' = [batch EXCEPT !.started = batch.started + 1]
    BY <1>45 DEF ToolStart, Tools!Start
  <2>4. batch' \in BatchType
    BY SMTT(30), <2>1, <2>3, BatchFields DEF CallIndex, BatchType
  <2>2. log' \in Seq(Event)
    <3> DEFINE e == ToolCall(turn, step, batch.started + 1)
    <3>1. e \in Event
      BY <2>1, PhaseFields, EventsAreEvents
    <3>2. Record(<<e>>)
      BY <1>45 DEF ToolStart
    <3> HIDE DEF e
    <3> QED
      BY <3>1, <3>2, RecordOne
  <2> QED
    BY <1>45, <2>4, <2>2 DEF ToolStart, BatchType
<1>46. ASSUME ToolCommit
       PROVE  TypeOK'
  <2>1. batch.done + 1 \in CallIndex
    BY <1>46, BatchFields DEF ToolCommit, Tools!Commit, CallIndex
  <2>4. batch' = [batch EXCEPT !.done = batch.done + 1]
    BY <1>46 DEF ToolCommit, Tools!Commit
  <2>5. batch' \in BatchType
    BY SMTT(30), <2>1, <2>4, BatchFields DEF CallIndex, BatchType
  <2>2. log' \in Seq(Event)
    <3> DEFINE e == ToolResult(turn, step, batch.done + 1, "ok")
    <3>1. e \in Event
      BY <2>1, PhaseFields, EventsAreEvents DEF ResultKind
    <3>2. Record(<<e>>)
      BY <1>46 DEF ToolCommit
    <3> HIDE DEF e
    <3> QED
      BY <3>1, <3>2, RecordOne
  <2>3. inbox' \in InboxType /\ sent' \subseteq Message
    <3>1. PICK cs \in {{}} \cup {{m} : m \in {n \in Message : Fresh(n)}} :
            /\ sent' = sent \cup cs
            /\ inbox' = [inbox EXCEPT !["next-step"] =
                           IF cs = {} THEN @ ELSE Append(@, CHOOSE m \in cs : TRUE)]
      BY <1>46 DEF ToolCommit
    <3>2. cs \subseteq Message /\ (cs # {} => (CHOOSE m \in cs : TRUE) \in Message)
      OBVIOUS
    <3> DEFINE added == IF cs = {} THEN inbox["next-step"]
                        ELSE Append(inbox["next-step"], CHOOSE m \in cs : TRUE)
    <3>3. added \in Seq(Message)
      BY <3>2 DEF InboxTarget
    <3>4. inbox' = [inbox EXCEPT !["next-step"] = added]
      BY <3>1
    <3> HIDE DEF added
    <3> QED
      BY <3>1, <3>2, <3>3, <3>4 DEF InboxType, InboxTarget
  <2> QED
    BY <1>46, <2>5, <2>2, <2>3 DEF ToolCommit, BatchType, InboxType
<1>47. ASSUME ToolSkip
       PROVE  TypeOK'
  <2>1. batch' \in BatchType
    BY <1>47 DEF ToolSkip, Tools!Skip, BatchType
  <2>2. log' \in Seq(Event)
    BY <1>47, SkippedAreEvents, RecordTypes DEF ToolSkip, Tools!Skip
  <2> QED
    BY <1>47, <2>1, <2>2 DEF ToolSkip, BatchType
<1>48. ASSUME ToolsFinish
       PROVE  TypeOK'
  <2>1. log' \in Seq(Event) /\ turnEnds' \in TurnEndState /\ pc' = "returned"
    <3>1. << >> \in Seq(Event) /\ (IF concluded THEN "completed" ELSE "none") \in TurnEndState
      BY DEF TurnEndState
    <3> QED
      BY <1>48, <3>1, StepReturnsTypes DEF ToolsFinish
  <2> QED
    BY <1>48, <2>1 DEF ToolsFinish, Tools!Finish
<1>49. ASSUME ToolsFail
       PROVE  TypeOK'
  BY <1>49 DEF ToolsFail, Tools!Fail
<1>50. ASSUME ToolsReject
       PROVE  TypeOK'
  <2>1. log' \in Seq(Event)
    <3>1. Record(<< >>) /\ << >> \in Seq(Event)
      BY <1>50 DEF ToolsReject, StepThrows
    <3> QED
      BY <3>1, RecordTypes
  <2> QED
    BY <1>50, <2>1 DEF ToolsReject, Tools!Reject, StepThrows
<1>51. ASSUME Converge
       PROVE  TypeOK'
  BY <1>51, PhaseUpdates, PhaseFields DEF Converge
<1>52. ASSUME Replay
       PROVE  TypeOK'
  <2>1. phase' \in PhaseType /\ pc' \in Awaiting \cup Publishing
    BY <1>52, WakeTypes DEF Replay
  <2> QED
    BY <1>52, <2>1 DEF Replay
<1>53. ASSUME UNCHANGED vars
       PROVE  TypeOK'
  BY <1>53 DEF vars
<1> HIDE DEF TypeOK, At
<1>54. CASE Clients
  <2>1. ASSUME NEW m \in Message, NEW t \in InboxTarget,
               \/ \E w \in BOOLEAN : Send(m, t, w)
               \/ InboxPrepend(t, m)
               \/ \E i \in 1 .. Len(inbox[t]) : InboxReplace(t, i, m)
        PROVE  TypeOK'
    BY <2>1, <1>1, <1>2, <1>3
  <2> QED
    BY <1>54, <2>1, <1>4, <1>5, <1>6 DEF Clients
<1>55. CASE Turn
  BY <1>55, <1>13, <1>14, <1>15, <1>16, <1>17, <1>18, <1>19, <1>20, <1>21, <1>22, <1>23, <1>24,
     <1>25, <1>26, <1>27, <1>28
  DEF Turn
<1>56. CASE Step
  BY <1>56, <1>29, <1>30, <1>31, <1>32, <1>33, <1>34, <1>35, <1>36, <1>37, <1>38, <1>39, <1>40,
     <1>41, <1>42, <1>43, <1>44
  DEF Step
<1>57. CASE ToolPhase
  BY <1>57, <1>45, <1>46, <1>47, <1>48, <1>49, <1>50 DEF ToolPhase
<1> QED
  BY <1>7, <1>8, <1>9, <1>10, <1>11, <1>12, <1>51, <1>52, <1>53, <1>54, <1>55, <1>56, <1>57
  DEF Next, Driver

HIDE DEF Tools!Idle, Tools!TypeOK

-------------------------------------------------------------------------------
(* What recording events does to the log. *)

(* One event that may follow the last one. *)
LEMMA RecordFits ==
  ASSUME TypeOK, LogFits(log), log # << >>, NEW e \in Event,
         Follows(LastEvent(log), e), Record(<<e>>)
  PROVE  LogFits(log') /\ log' # << >> /\ LastEvent(log') = e
<1>1. log \in Seq(Event)
  BY DEF TypeOK
<1>2. log' = Append(log, e)
  BY <1>1 DEF Record
<1>3. log' # << >> /\ LastEvent(log') = e
  BY <1>1, <1>2 DEF LastEvent
<1> QED
  BY <1>1, <1>2, <1>3, AppendFits

(* No event. *)
LEMMA RecordNothing ==
  ASSUME TypeOK, Record(<< >>)
  PROVE  log' = log
  BY DEF TypeOK, Record

(* The end of the open turn, where no step is open.  (turn's finally.) *)
LEMMA EndTurnFits ==
  ASSUME TypeOK, LogFits(log), LastIs({"turn/start", "step/end"}),
         NEW k \in TurnEndKind, EndTurn(k)
  PROVE  /\ LogFits(log') /\ log' # << >>
         /\ LastEvent(log').type = "turn/end" /\ LastEvent(log').turn = turn
<1> DEFINE e == TurnEnd(turn, k, IF k = "aborted" THEN phase.cause ELSE "none")
<1>1. e \in Event
  BY PhaseFields, CauseAssumption, EventsAreEvents DEF AgentCancelCause
<1>2. e.type = "turn/end" /\ e.turn = turn
  BY DEF TurnEnd
<1>3. Record(<<e>>)
  BY DEF EndTurn
<1> HIDE DEF e
<1>4. Follows(LastEvent(log), e) /\ log # << >>
  BY <1>2 DEF LastIs, Follows, SameTurn
<1> QED
  BY <1>1, <1>2, <1>3, <1>4, RecordFits

(* The end of the open step.  (turn's inner finally.) *)
LEMMA StepEndFits ==
  ASSUME TypeOK, LogFits(log), LastIs(InStep), Record(<<StepEnd(turn, step)>>)
  PROVE  /\ LogFits(log') /\ log' # << >>
         /\ LastEvent(log').type = "step/end"
         /\ LastEvent(log').turn = turn /\ LastEvent(log').step = step
<1> DEFINE e == StepEnd(turn, step)
<1>1. e \in Event
  BY PhaseFields, EventsAreEvents
<1>2. e.type = "step/end" /\ e.turn = turn /\ e.step = step
  BY DEF StepEnd
<1> HIDE DEF e
<1>3. Follows(LastEvent(log), e) /\ log # << >>
  BY <1>2 DEF LastIs, Follows, SameStep
<1>4. Record(<<e>>)
  BY DEF e
<1> QED
  BY <1>1, <1>2, <1>3, <1>4, RecordFits

(* A model answer or attempt. *)
LEMMA AnswerFits ==
  ASSUME TypeOK, LogFits(log), LastIs({"step/start", "user/message", "assistant/attempt"}),
         NEW a \in Event, a.type \in {"assistant/attempt", "assistant/message"},
         a.turn = turn, a.step = step, Record(<<a>>)
  PROVE  LogFits(log') /\ log' # << >> /\ LastEvent(log') = a
<1>1. Follows(LastEvent(log), a) /\ log # << >>
  BY DEF LastIs, Follows, SameStep
<1> QED
  BY <1>1, RecordFits

(* A tool event. *)
LEMMA ToolEventFits ==
  ASSUME TypeOK, LogFits(log), log # << >>,
         LastEvent(log).turn = turn, LastEvent(log).step = step,
         Asking(LastEvent(log)) \/ LastEvent(log).type \in ToolEvent,
         NEW e \in Event, e.type \in ToolEvent, e.turn = turn, e.step = step, Record(<<e>>)
  PROVE  LogFits(log') /\ log' # << >> /\ LastEvent(log') = e
<1>1. Follows(LastEvent(log), e)
  BY DEF Follows, SameStep, ToolEvent
<1> QED
  BY <1>1, RecordFits

(* A recovery result: the step it closes is the one the last event is in. *)
LEMMA RecoveryFits ==
  ASSUME TypeOK, LogFits(log), RecoverNext
  PROVE  /\ log # << >> /\ LogFits(log') /\ log' # << >>
         /\ LastEvent(log').type = "tool/result"
         /\ LastEvent(log).type \in InStep
         /\ SameStep(LastEvent(log), LastEvent(log'))
<1>1. log \in Seq(Event)
  BY DEF TypeOK
<1>2. PICK r \in Unanswered(log) : Record(<<RecoveryResult(log, r[1], r[2])>>)
  BY DEF RecoverNext
<1> DEFINE e == RecoveryResult(log, r[1], r[2])
<1>3. /\ e \in Event /\ e.type = "tool/result" /\ SameStep(log[r[1]], e)
      /\ r[1] \in PendingRequests(log) /\ r[1] \in 1 .. Len(log) /\ log[r[1]].calls > 0
  BY <1>1, RecoveryResultIsEvent
<1>4. Record(<<e>>)
  BY <1>2
<1> HIDE DEF e
<1>5. /\ SameStep(log[r[1]], LastEvent(log))
      /\ Asking(LastEvent(log)) \/ LastEvent(log).type \in ToolEvent
  BY <1>3 DEF LogFits, PendingFits
<1>6. log # << >>
  BY <1>1, <1>3
<1>7. SameStep(LastEvent(log), e)
  BY <1>3, <1>5 DEF SameStep
<1>8. Follows(LastEvent(log), e)
  BY <1>3, <1>5, <1>7 DEF Follows, ToolEvent
<1>9. LastEvent(log).type \in InStep
  BY <1>5 DEF Asking, ToolEvent, InStep
<1> QED
  BY <1>3, <1>4, <1>6, <1>7, <1>8, <1>9, RecordFits

-------------------------------------------------------------------------------
(* What the actions do to the driver's position. *)

(* Steps that leave the driver where it is. *)
LEMMA Stays ==
  ASSUME TypeOK, DriverFollowsLog, UNCHANGED <<log, pc, claimed, attempts>>,
         phase'.turn = phase.turn, phase'.step = phase.step,
         phase'.kind = "running" <=> phase.kind = "running",
         pc = "repairing" => phase'.kind = "idle" /\ waking' = "none" /\ ~replay'
  PROVE  DriverFollowsLog'
<1>1. LogFits(log')
  BY DEF DriverFollowsLog
<1>2. turn' = turn /\ step' = step
  BY DEF turn, step
<1>3. AtBoundary' <=> AtBoundary
  BY <1>2 DEF AtBoundary
<1>4. \A types : LastIs(types)' <=> LastIs(types)
  BY <1>2 DEF LastIs
<1>5. Position'
  BY <1>2, <1>3, <1>4 DEF DriverFollowsLog, Position
<1>6. Control'
  BY <1>2 DEF DriverFollowsLog, Control
<1> QED
  BY <1>1, <1>5, <1>6 DEF DriverFollowsLog

(* Steps to a point between turns. *)
LEMMA LandsBetweenTurns ==
  ASSUME LogFits(log'), AtBoundary', pc' \in BetweenTurns,
         phase'.kind = "running" <=> pc' # "off",
         pc' \in {"off", "opening"} => step' = 0
  PROVE  DriverFollowsLog'
<1>1. Position'
  BY DEF Position, BetweenTurns, BetweenSteps, BeforeAnswer
<1>2. Control'
  BY DEF Control, BetweenTurns
<1> QED
  BY <1>1, <1>2 DEF DriverFollowsLog

(* Steps to a point in a turn. *)
LEMMA LandsBetweenSteps ==
  ASSUME LogFits(log'), LastIs({"turn/start", "step/end"})', pc' \in BetweenSteps,
         phase'.kind = "running"
  PROVE  DriverFollowsLog'
<1>1. Position'
  BY DEF Position, BetweenTurns, BetweenSteps, BeforeAnswer
<1>2. Control'
  BY DEF Control, BetweenSteps
<1> QED
  BY <1>1, <1>2 DEF DriverFollowsLog

(* Before an answer, a step with its prompts or a failed attempt is last. *)
LEMMA LandsBeforeAnswer ==
  ASSUME LogFits(log'), LastIs({"step/start", "user/message", "assistant/attempt"})',
         pc' \in BeforeAnswer, phase'.kind = "running",
         pc' = "preparing" => /\ attempts' < MaxAttempt
                              /\ claimed' # << >> => LastIs({"step/start"})',
         pc' = "dispatching" => /\ attempts' > 0
                                /\ claimed' # << >> => LastIs({"step/start", "user/message"})',
         pc' = "streaming" => claimed' = << >>
  PROVE  DriverFollowsLog'
<1>1. Position'
  BY DEF Position, BetweenTurns, BetweenSteps, BeforeAnswer
<1>2. Control'
  BY DEF Control, BeforeAnswer
<1> QED
  BY <1>1, <1>2 DEF DriverFollowsLog

(* Once a step returned or threw, the open step is last. *)
LEMMA LandsInRecovery ==
  ASSUME LogFits(log'), LastIs(InStep)', pc' \in {"returned", "failing", "recovering"},
         phase'.kind = "running"
  PROVE  DriverFollowsLog'
<1>1. Position'
  BY DEF Position, BetweenTurns, BetweenSteps, BeforeAnswer
<1>2. Control'
  BY DEF Control
<1> QED
  BY <1>1, <1>2 DEF DriverFollowsLog

(* While tools run, an asking answer or a call's event is last. *)
LEMMA LandsInTools ==
  ASSUME LogFits(log'), LastIs({"assistant/message"} \cup ToolEvent)',
         Asking(LastEvent(log')) \/ LastEvent(log').type \in ToolEvent,
         pc' \in {"tools", "draining"}, phase'.kind = "running"
  PROVE  DriverFollowsLog'
<1>1. Position'
  BY DEF Position, BetweenTurns, BetweenSteps, BeforeAnswer
<1>2. Control'
  BY DEF Control
<1> QED
  BY <1>1, <1>2 DEF DriverFollowsLog

(* An exception that reaches turn(). *)
LEMMA ThrowFits ==
  ASSUME TypeOK, DriverFollowsLog, pc \in BetweenSteps, Throw, UNCHANGED phase
  PROVE  DriverFollowsLog'
<1>1. LogFits(log) /\ LastIs({"turn/start", "step/end"}) /\ phase.kind = "running"
  BY DEF DriverFollowsLog, Position, Control, BetweenSteps
<1>2. CASE EndTurn("aborted") /\ pc' = "converging"
  <2>1. /\ LogFits(log') /\ log' # << >>
        /\ LastEvent(log').type = "turn/end" /\ LastEvent(log').turn = turn
    BY <1>1, <1>2, EndTurnFits DEF TurnEndKind
  <2>2. AtBoundary'
    BY <2>1 DEF AtBoundary, turn
  <2> QED
    BY <1>1, <1>2, <2>1, <2>2, LandsBetweenTurns DEF BetweenTurns
<1>3. CASE pc' = "reporting" /\ UNCHANGED log
  <2>1. LastIs({"turn/start", "step/end"})'
    BY <1>1, <1>3 DEF LastIs, turn, step
  <2> QED
    BY <1>1, <1>3, <2>1, LandsBetweenSteps DEF BetweenSteps
<1> QED
  BY <1>2, <1>3 DEF Throw

(* The end of a turn. *)
LEMMA EndTurnLands ==
  ASSUME TypeOK, DriverFollowsLog, pc \in BetweenSteps, NEW k \in TurnEndKind, EndTurn(k),
         pc' \in {"converging", "turnEnded"}, UNCHANGED phase
  PROVE  DriverFollowsLog'
<1>1. LogFits(log) /\ LastIs({"turn/start", "step/end"}) /\ phase.kind = "running"
  BY DEF DriverFollowsLog, Position, Control, BetweenSteps
<1>2. /\ LogFits(log') /\ log' # << >>
      /\ LastEvent(log').type = "turn/end" /\ LastEvent(log').turn = turn
  BY <1>1, EndTurnFits
<1>3. AtBoundary'
  BY <1>2 DEF AtBoundary, turn
<1> QED
  BY <1>1, <1>2, <1>3, LandsBetweenTurns DEF BetweenTurns

(* A step that goes on between two steps, or starts claiming for the next. *)
LEMMA GoesOnBetweenSteps ==
  ASSUME TypeOK, DriverFollowsLog, pc \in BetweenSteps, pc' \in BetweenSteps,
         UNCHANGED <<phase, log>>
  PROVE  DriverFollowsLog'
<1>1. LogFits(log) /\ LastIs({"turn/start", "step/end"}) /\ phase.kind = "running"
  BY DEF DriverFollowsLog, Position, Control, BetweenSteps
<1>2. LastIs({"turn/start", "step/end"})'
  BY <1>1 DEF LastIs, turn, step
<1> QED
  BY <1>1, <1>2, LandsBetweenSteps

(* A step that failed without recording anything more. *)
LEMMA FailsIntoRecovery ==
  ASSUME TypeOK, DriverFollowsLog, StepThrows(<< >>), LastIs(InStep),
         phase.kind = "running", UNCHANGED phase
  PROVE  DriverFollowsLog'
<1>1. log' = log
  BY RecordNothing DEF StepThrows
<1>2. LastIs(InStep)' /\ LogFits(log')
  BY <1>1 DEF LastIs, turn, step, DriverFollowsLog
<1> QED
  BY <1>2, LandsInRecovery DEF StepThrows

(* A client call that starts a driver. *)
LEMMA WakeFits ==
  ASSUME TypeOK, DriverFollowsLog, pc # "repairing", NEW a \in BOOLEAN, WakeDriver(a),
         UNCHANGED <<log, claimed, attempts>>
  PROVE  DriverFollowsLog'
<1>1. CASE ~Active
  <2>1. pc = "off" /\ step = 0 /\ AtBoundary /\ LogFits(log)
    BY <1>1 DEF DriverFollowsLog, Control, Position, BetweenTurns, Active
  <2>2. phase' = [phase EXCEPT !.kind = "running"] /\ pc' = "opening"
    BY <1>1 DEF WakeDriver
  <2>3. phase'.turn = phase.turn /\ phase'.step = phase.step /\ phase'.kind = "running"
    BY <2>2 DEF TypeOK, PhaseType
  <2>4. AtBoundary' /\ step' = 0
    BY <2>1, <2>3 DEF AtBoundary, turn, step
  <2> QED
    BY <2>1, <2>2, <2>3, <2>4, LandsBetweenTurns DEF BetweenTurns
<1>2. CASE Active
  <2>1. /\ phase'.turn = phase.turn /\ phase'.step = phase.step /\ phase'.kind = phase.kind
        /\ pc' = pc
    BY <1>2 DEF WakeDriver, TypeOK, PhaseType
  <2> QED
    BY <2>1, Stays
<1> QED
  BY <1>1, <1>2

-------------------------------------------------------------------------------
(* The invariant is inductive. *)

(* It holds of the first states. *)
LEMMA InitFits ==
  ASSUME Init
  PROVE  Inv
<1>1. TypeOK
  <2>1. phase \in PhaseType
    BY DEF Init, PhaseType, IdlePhase
  <2>2. inbox \in [InboxTarget -> Seq(Message)] /\ log \in Seq(Event) /\ claimed \in Seq(Message)
    BY DEF Init, Empty
  <2>3. Tools!TypeOK
    BY MaxCallAssumption DEF Init, Tools!TypeOK, Tools!Idle, Aborted
  <2>4. attempts \in 0 .. MaxAttempt /\ crashes \in 0 .. MaxCrash
    BY BoundAssumption DEF Init
  <2> QED
    BY <2>1, <2>2, <2>3, <2>4 DEF Init, TypeOK, Awaiting, TurnEndState
<1>2. AtBoundary /\ step = 0 /\ LogFits(log)
  BY EmptyFits DEF Init, AtBoundary, IdlePhase, turn, step
<1>3. Position
  BY <1>2 DEF Init, Position, BetweenTurns, BetweenSteps, BeforeAnswer
<1>4. Control
  BY <1>2 DEF Init, Control, IdlePhase
<1> QED
  BY <1>1, <1>2, <1>3, <1>4 DEF Inv, DriverFollowsLog

(* The calls an aborted batch skips are recorded as tool events of the step. *)
LEMMA SkippedAreToolEvents ==
  ASSUME TypeOK, batch.started < batch.asked
  PROVE  \A i \in 1 .. Len(Skipped) :
           /\ Skipped[i].type \in ToolEvent /\ Skipped[i].turn = turn /\ Skipped[i].step = step
<1> DEFINE n == batch.asked - batch.started
<1>1. n \in Nat /\ 2 * n \in Nat
  BY BatchFields
<1>2. \A c : /\ ToolCall(turn, step, c).type \in ToolEvent
             /\ ToolCall(turn, step, c).turn = turn /\ ToolCall(turn, step, c).step = step
             /\ ToolResult(turn, step, c, "aborted").type \in ToolEvent
             /\ ToolResult(turn, step, c, "aborted").turn = turn
             /\ ToolResult(turn, step, c, "aborted").step = step
  BY DEF ToolCall, ToolResult, ToolEvent
<1>3. \A i \in 1 .. 2 * n :
        \E c : Skipped[i] \in {ToolCall(turn, step, c), ToolResult(turn, step, c, "aborted")}
  BY DEF Skipped
<1>4. Len(Skipped) = 2 * n
  BY SkippedAreEvents
<1> HIDE DEF n
<1> QED
  BY <1>2, <1>3, <1>4

(* Every action leaves the log grammatical and the driver at its last event. *)
LEMMA StepFits ==
  ASSUME TypeOK, DriverFollowsLog, [Next]_vars
  PROVE  DriverFollowsLog'
<1>1. ASSUME NEW m \in Message, NEW t \in InboxTarget, NEW w \in BOOLEAN, Send(m, t, w)
      PROVE  DriverFollowsLog'
  <2>1. pc # "repairing" /\ UNCHANGED <<phase, log, pc, stepVars>>
    BY <1>1 DEF Send, MayAppend, Client
  <2> QED
    BY <2>1, Stays DEF stepVars
<1>2. ASSUME NEW t \in InboxTarget, NEW m \in Message, InboxPrepend(t, m)
      PROVE  DriverFollowsLog'
  <2>1. UNCHANGED <<phase, log, pc, claimed, attempts, waking, replay>>
    BY <1>2 DEF InboxPrepend, inputVars, stepVars, callVars
  <2> QED
    BY <2>1, Stays DEF DriverFollowsLog, Control
<1>3. ASSUME NEW t \in InboxTarget, NEW m \in Message,
             NEW i \in 1 .. Len(inbox[t]), InboxReplace(t, i, m)
      PROVE  DriverFollowsLog'
  <2>1. UNCHANGED <<phase, log, pc, claimed, attempts, waking, replay>>
    BY <1>3 DEF InboxReplace, inputVars, stepVars, callVars
  <2> QED
    BY <2>1, Stays DEF DriverFollowsLog, Control
<1>4. ASSUME NEW t \in InboxTarget, NEW i \in 1 .. Len(inbox[t]), InboxRemove(t, i)
      PROVE  DriverFollowsLog'
  <2>1. UNCHANGED <<phase, log, pc, claimed, attempts, waking, replay>>
    BY <1>4 DEF InboxRemove, inputVars, stepVars, callVars
  <2> QED
    BY <2>1, Stays DEF DriverFollowsLog, Control
<1>5. ASSUME NEW c \in Cause, NEW k \in BOOLEAN, Cancel(c, k)
      PROVE  DriverFollowsLog'
  <2>1. UNCHANGED <<log, pc, claimed, attempts, waking, replay>>
    BY <1>5 DEF Cancel, inputVars, stepVars, callVars
  <2>2. phase'.turn = phase.turn /\ phase'.step = phase.step /\ phase'.kind = phase.kind
    BY <1>5 DEF Cancel, CancelEffect, TypeOK, PhaseType
  <2> QED
    BY <2>1, <2>2, Stays DEF DriverFollowsLog, Control
<1>6. ASSUME RunMaintenance
      PROVE  DriverFollowsLog'
  <2>1. pc # "repairing" /\ UNCHANGED <<log, pc, claimed, attempts>>
    BY <1>6 DEF RunMaintenance, Client, stepVars
  <2>2. /\ phase'.turn = phase.turn /\ phase'.step = phase.step
        /\ phase'.kind = "maintenance" /\ phase.kind = "idle"
    BY <1>6 DEF RunMaintenance, Active, TypeOK, PhaseType
  <2> QED
    BY <2>1, <2>2, Stays
<1>7. ASSUME FinishMaintenance
      PROVE  DriverFollowsLog'
  <2>1. pc = "off" /\ step = 0 /\ AtBoundary /\ LogFits(log)
    BY <1>7 DEF FinishMaintenance, DriverFollowsLog, Control, Position, BetweenTurns
  <2>2. /\ phase'.turn = phase.turn /\ phase'.step = 0 /\ UNCHANGED log
        /\ \/ phase'.kind = "running" /\ pc' = "opening"
           \/ phase'.kind = "idle" /\ pc' = pc
    BY <1>7 DEF FinishMaintenance, IdlePhase
  <2>3. AtBoundary' /\ step' = 0
    BY <2>1, <2>2 DEF AtBoundary, turn, step
  <2> QED
    BY <2>1, <2>2, <2>3, LandsBetweenTurns DEF BetweenTurns
<1>8. ASSUME Dispose
      PROVE  DriverFollowsLog'
  <2>1. UNCHANGED <<log, pc, claimed, attempts, waking, replay>>
    BY <1>8 DEF Dispose, inputVars, stepVars, callVars
  <2>2. phase'.turn = phase.turn /\ phase'.step = phase.step /\ phase'.kind = phase.kind
    BY <1>8 DEF Dispose, CancelEffect, TypeOK, PhaseType
  <2> QED
    BY <2>1, <2>2, Stays DEF DriverFollowsLog, Control
<1>9. ASSUME Detach
      PROVE  DriverFollowsLog'
  <2>1. UNCHANGED <<phase, log, pc, claimed, attempts, waking, replay>>
    BY <1>9 DEF Detach, inputVars, stepVars, callVars
  <2> QED
    BY <2>1, Stays DEF DriverFollowsLog, Control
<1>10. ASSUME Crash
       PROVE  DriverFollowsLog'
  <2>1. LogFits(log') /\ LogFits(log) /\ log' = log
    BY <1>10 DEF Crash, DriverFollowsLog
  <2>2. /\ turn' = LastTurn(log) /\ step' = 0 /\ phase'.kind = "idle"
        /\ pc' = IF OpenTurn(log) = 0 THEN "off" ELSE "repairing"
        /\ waking' = "none" /\ ~replay'
    BY <1>10 DEF Crash, IdlePhase, turn, step
  <2>3. CASE OpenTurn(log) = 0
    <3>1. log # << >> => LastEvent(log).type = "turn/end" /\ LastEvent(log).turn = LastTurn(log)
      BY <2>1, <2>3 DEF LogFits, CursorFits
    <3>2. log = << >> => LastTurn(log) = 0
      BY <2>1 DEF LogFits, CursorFits
    <3>3. AtBoundary'
      BY <2>1, <2>2, <3>1, <3>2 DEF AtBoundary
    <3> QED
      BY <2>1, <2>2, <2>3, <3>3, LandsBetweenTurns DEF BetweenTurns
  <2>4. CASE OpenTurn(log) # 0
    <3>1. Position'
      BY <2>1, <2>2, <2>4 DEF Position, BetweenTurns, BetweenSteps, BeforeAnswer
    <3>2. Control'
      BY <2>2, <2>4 DEF Control
    <3> QED
      BY <2>1, <3>1, <3>2 DEF DriverFollowsLog
  <2> QED
    BY <2>3, <2>4
<1>11. ASSUME Repair
       PROVE  DriverFollowsLog'
  <2>1. /\ LogFits(log) /\ OpenTurn(log) # 0 /\ turn = LastTurn(log) /\ pc = "repairing"
        /\ step = 0 /\ phase.kind = "idle" /\ waking = "none" /\ ~replay
    BY <1>11 DEF Repair, DriverFollowsLog, Position, Control
  <2>2. UNCHANGED <<phase, waking, replay>> /\ turn' = turn /\ step' = step
    BY <1>11 DEF Repair, callVars, turn, step
  <2> DEFINE d == LastEvent(log)
  <2>3. /\ log # << >> /\ log \in Seq(Event) /\ d \in Event /\ d.turn # 0
        /\ OpenTurn(log) = d.turn /\ LastTurn(log) = d.turn /\ d.type # "turn/end"
        /\ OpenStep(log) = IF d.type \in InStep THEN d.step ELSE 0
        /\ d.type \in InStep => d.step # 0
    <3>1. log # << >> /\ log \in Seq(Event)
      BY <2>1 DEF LogFits, CursorFits, TypeOK
    <3>2. d \in Event
      BY <3>1 DEF LastEvent
    <3> QED
      BY <2>1, <3>1, <3>2 DEF LogFits, CursorFits
  <2> HIDE DEF d
  <2>4. d.turn \in Nat /\ d.step \in Nat /\ d.type \in StepBoundary \cup InStep
    BY <2>3, EventFields
  <2>5. CASE RecoverNext /\ UNCHANGED pc
    <3>1. /\ LogFits(log') /\ log' # << >> /\ LastEvent(log').type = "tool/result"
          /\ LastEvent(log').turn = d.turn
      BY <2>1, <2>5, RecoveryFits DEF SameStep, d
    <3>2. OpenTurn(log') = d.turn /\ LastTurn(log') = d.turn
      BY <3>1 DEF LogFits, CursorFits
    <3>3. Position'
      BY <2>1, <2>2, <2>3, <2>5, <3>2 DEF Position, BetweenTurns, BetweenSteps, BeforeAnswer
    <3>4. Control'
      BY <2>1, <2>2, <2>5 DEF Control
    <3> QED
      BY <3>1, <3>3, <3>4 DEF DriverFollowsLog
  <2>6. CASE /\ OpenStep(log) # 0 /\ UNCHANGED pc
             /\ Record(<<StepEnd(OpenTurn(log), OpenStep(log))>>)
    <3> DEFINE e == StepEnd(OpenTurn(log), OpenStep(log))
    <3>1. d.type \in InStep /\ OpenStep(log) = d.step
      BY <2>3, <2>6
    <3>2. e \in Event
      BY <2>3, <2>4, <3>1, EventsAreEvents
    <3>3. e.type = "step/end" /\ e.turn = d.turn /\ e.step = d.step
      BY <2>3, <3>1 DEF StepEnd
    <3>4. Record(<<e>>)
      BY <2>6
    <3> HIDE DEF e
    <3>5. Follows(d, e)
      BY <3>1, <3>3 DEF Follows, SameStep
    <3>6. LogFits(log') /\ log' # << >> /\ LastEvent(log') = e
      BY <2>1, <2>3, <3>2, <3>4, <3>5, RecordFits DEF d
    <3>7. OpenTurn(log') = d.turn /\ LastTurn(log') = d.turn
      BY <3>3, <3>6 DEF LogFits, CursorFits
    <3>8. Position'
      BY <2>1, <2>2, <2>3, <2>6, <3>7 DEF Position, BetweenTurns, BetweenSteps, BeforeAnswer
    <3>9. Control'
      BY <2>1, <2>2, <2>6 DEF Control
    <3> QED
      BY <3>6, <3>8, <3>9 DEF DriverFollowsLog
  <2>7. CASE /\ OpenStep(log) = 0 /\ pc' = "off"
             /\ Record(<<TurnEnd(OpenTurn(log), "interrupted", "none")>>)
    <3> DEFINE e == TurnEnd(OpenTurn(log), "interrupted", "none")
    <3>1. d.type \in {"turn/start", "step/end"}
      BY <2>3, <2>4, <2>7 DEF StepBoundary, TurnBoundary, InStep
    <3>2. e \in Event
      BY <2>3, <2>4, EventsAreEvents DEF TurnEndKind
    <3>3. e.type = "turn/end" /\ e.turn = d.turn
      BY <2>3 DEF TurnEnd
    <3>4. Record(<<e>>)
      BY <2>7
    <3> HIDE DEF e
    <3>5. Follows(d, e)
      BY <3>1, <3>3 DEF Follows, SameTurn
    <3>6. LogFits(log') /\ log' # << >> /\ LastEvent(log') = e
      BY <2>1, <2>3, <3>2, <3>4, <3>5, RecordFits DEF d
    <3>7. AtBoundary'
      BY <2>1, <2>2, <2>3, <3>3, <3>6 DEF AtBoundary
    <3> QED
      BY <2>1, <2>2, <2>7, <3>6, <3>7, LandsBetweenTurns DEF BetweenTurns
  <2> QED
    BY <1>11, <2>5, <2>6, <2>7 DEF Repair
<1>12. ASSUME SendWakes
       PROVE  DriverFollowsLog'
  <2>1. UNCHANGED <<log, claimed, attempts>> /\ pc # "repairing"
    BY <1>12 DEF SendWakes, stepVars, DriverFollowsLog, Control
  <2>2. \/ \E a \in BOOLEAN : WakeDriver(a)
        \/ UNCHANGED <<phase, pc>>
    BY <1>12 DEF SendWakes
  <2> QED
    BY <2>1, <2>2, WakeFits, Stays
<1>13. ASSUME OpenTurnBoundary
       PROVE  DriverFollowsLog'
  <2>1. LogFits(log) /\ AtBoundary /\ step = 0 /\ phase.kind = "running"
    BY <1>13 DEF OpenTurnBoundary, At, DriverFollowsLog, Position, Control, BetweenTurns
  <2>2. /\ phase'.turn = turn + 1 /\ phase'.step = step /\ phase'.kind = phase.kind
        /\ pc' = "claim"
    BY <1>13 DEF OpenTurnBoundary, TypeOK, PhaseType, turn, step
  <2> DEFINE e == TurnStart(turn + 1)
  <2>3. e \in Event /\ e.type = "turn/start" /\ e.turn = turn + 1 /\ e.step = 0
    BY PhaseFields, EventsAreEvents DEF TurnStart
  <2>4. LogFits(log') /\ log' # << >> /\ LastEvent(log') = e
    <3>1. CASE log = << >>
      <4>1. turn = 0
        BY <2>1, <3>1 DEF AtBoundary
      <4>2. log' = <<TurnStart(1)>>
        BY <1>13, <3>1, <4>1 DEF OpenTurnBoundary, Record
      <4> QED
        BY <4>1, <4>2, FirstTurnFits DEF LastEvent
    <3>2. CASE log # << >>
      <4>1. Record(<<e>>)
        BY <1>13 DEF OpenTurnBoundary
      <4> HIDE DEF e
      <4>2. Follows(LastEvent(log), e)
        BY <2>1, <2>3, <3>2 DEF AtBoundary, Follows
      <4> QED
        BY <2>1, <2>3, <3>2, <4>1, <4>2, RecordFits
    <3> QED
      BY <3>1, <3>2
  <2> HIDE DEF e
  <2>5. LastIs({"turn/start", "step/end"})'
    BY <2>1, <2>2, <2>3, <2>4 DEF LastIs, turn, step
  <2> QED
    BY <2>1, <2>2, <2>4, <2>5, LandsBetweenSteps DEF BetweenSteps
<1>14. ASSUME DropDriver
       PROVE  DriverFollowsLog'
  <2>1. /\ LogFits(log) /\ AtBoundary /\ phase.kind = "running"
        /\ pc' = "converging" /\ UNCHANGED <<phase, log>>
    BY <1>14 DEF DropDriver, At, DriverFollowsLog, Position, Control, BetweenTurns
  <2>2. AtBoundary'
    BY <2>1 DEF AtBoundary, turn
  <2> QED
    BY <2>1, <2>2, LandsBetweenTurns DEF BetweenTurns
<1>15. ASSUME ClaimTurn
       PROVE  DriverFollowsLog'
  <2>1. pc \in BetweenSteps /\ UNCHANGED phase
    BY <1>15 DEF ClaimTurn, At, BetweenSteps
  <2>2. Throw \/ (pc' \in BetweenSteps /\ UNCHANGED log)
    BY <1>15 DEF ClaimTurn, BetweenSteps
  <2> QED
    BY <2>1, <2>2, ThrowFits, GoesOnBetweenSteps
<1>16. ASSUME PreStepThrows
       PROVE  DriverFollowsLog'
  <2>1. pc \in BetweenSteps /\ UNCHANGED phase /\ Throw
    BY <1>16 DEF PreStepThrows, At, BetweenSteps
  <2> QED
    BY <2>1, ThrowFits
<1>17. ASSUME PreStepRejects
      PROVE  DriverFollowsLog'
  <2>1. pc \in BetweenSteps /\ pc' \in BetweenSteps /\ UNCHANGED <<phase, log>>
    BY <1>17 DEF PreStepRejects, At, BetweenSteps
  <2> QED
    BY <2>1, GoesOnBetweenSteps
<1>18. ASSUME PreStepEnters
      PROVE  DriverFollowsLog'
  <2>1. pc \in BetweenSteps /\ pc' \in BetweenSteps /\ UNCHANGED <<phase, log>>
    BY <1>18 DEF PreStepEnters, At, BetweenSteps
  <2> QED
    BY <2>1, GoesOnBetweenSteps
<1>19. ASSUME Block
      PROVE  DriverFollowsLog'
  <2>1. /\ pc \in BetweenSteps /\ UNCHANGED phase /\ EndTurn("blocked") /\ pc' = "converging"
        /\ "blocked" \in TurnEndKind
    BY <1>19 DEF Block, At, BetweenSteps, TurnEndKind
  <2> QED
    BY <2>1, EndTurnLands
<1>20. ASSUME EnterNothing
       PROVE  DriverFollowsLog'
  <2>1. pc \in BetweenSteps /\ UNCHANGED phase
    BY <1>20 DEF EnterNothing, At, BetweenSteps
  <2>2. \E k \in TurnEndKind : EndTurn(k) /\ pc' \in {"converging", "turnEnded"}
    BY <1>20 DEF EnterNothing, Break, TypeOK, TurnEndState, TurnEndKind
  <2> QED
    BY <2>1, <2>2, EndTurnLands
<1>21. ASSUME EnterAborted
       PROVE  DriverFollowsLog'
  <2>1. pc \in BetweenSteps /\ UNCHANGED phase /\ Throw
    BY <1>21 DEF EnterAborted, At, BetweenSteps
  <2> QED
    BY <2>1, ThrowFits
<1>22. ASSUME EnterStep
       PROVE  DriverFollowsLog'
  <2>1. LogFits(log) /\ LastIs({"turn/start", "step/end"}) /\ phase.kind = "running"
    BY <1>22 DEF EnterStep, At, DriverFollowsLog, Position, Control, BetweenSteps
  <2>2. /\ phase'.turn = turn /\ phase'.step = step + 1 /\ phase'.kind = phase.kind
        /\ pc' = "preparing" /\ attempts' = 0
    BY <1>22 DEF EnterStep, TypeOK, PhaseType, turn, step
  <2> DEFINE e == StepStart(turn, step + 1)
  <2>3. e \in Event /\ e.type = "step/start" /\ e.turn = turn /\ e.step = step + 1
    BY PhaseFields, EventsAreEvents DEF StepStart
  <2>4. Record(<<e>>)
    BY <1>22 DEF EnterStep
  <2> HIDE DEF e
  <2>5. Follows(LastEvent(log), e) /\ log # << >>
    BY <2>1, <2>3 DEF LastIs, Follows, SameTurn
  <2>6. LogFits(log') /\ log' # << >> /\ LastEvent(log') = e
    BY <2>1, <2>3, <2>4, <2>5, RecordFits
  <2>7. LastIs({"step/start", "user/message", "assistant/attempt"})' /\ LastIs({"step/start"})'
    BY <2>2, <2>3, <2>6 DEF LastIs, turn, step
  <2>8. 0 < MaxAttempt
    BY BoundAssumption
  <2> QED
    BY <2>1, <2>2, <2>6, <2>7, <2>8, LandsBeforeAnswer DEF BeforeAnswer
<1>23. ASSUME AfterStep
       PROVE  DriverFollowsLog'
  <2>1. pc \in BetweenSteps /\ UNCHANGED phase
    BY <1>23 DEF AfterStep, At, BetweenSteps
  <2>2. Throw \/ (pc' \in BetweenSteps /\ UNCHANGED log)
    BY <1>23 DEF AfterStep, NextStep, BetweenSteps
  <2> QED
    BY <2>1, <2>2, ThrowFits, GoesOnBetweenSteps
<1>24. ASSUME StepFailed
       PROVE  DriverFollowsLog'
  <2>1. pc \in BetweenSteps /\ UNCHANGED phase /\ Throw
    BY <1>24 DEF StepFailed, At, BetweenSteps
  <2> QED
    BY <2>1, ThrowFits
<1>25. ASSUME StoppingThrows
       PROVE  DriverFollowsLog'
  <2>1. pc \in BetweenSteps /\ UNCHANGED phase /\ Throw
    BY <1>25 DEF StoppingThrows, At, BetweenSteps
  <2> QED
    BY <2>1, ThrowFits
<1>26. ASSUME Stopping
       PROVE  DriverFollowsLog'
  <2>1. pc \in BetweenSteps /\ UNCHANGED phase
    BY <1>26 DEF Stopping, At, BetweenSteps
  <2>2. \/ \E k \in TurnEndKind : EndTurn(k) /\ pc' \in {"converging", "turnEnded"}
        \/ pc' \in BetweenSteps /\ UNCHANGED log
    BY <1>26 DEF Stopping, MayStop, Break, NextStep, BetweenSteps, TypeOK, TurnEndState, TurnEndKind
  <2> QED
    BY <2>1, <2>2, EndTurnLands, GoesOnBetweenSteps
<1>27. ASSUME EndFailedTurn
       PROVE  DriverFollowsLog'
  <2>1. /\ pc \in BetweenSteps /\ UNCHANGED phase /\ EndTurn("error") /\ pc' = "converging"
        /\ "error" \in TurnEndKind
    BY <1>27 DEF EndFailedTurn, At, BetweenSteps, TurnEndKind
  <2> QED
    BY <2>1, EndTurnLands
<1>28. ASSUME AfterTurn
       PROVE  DriverFollowsLog'
  <2>1. LogFits(log) /\ AtBoundary /\ phase.kind = "running" /\ UNCHANGED log
    BY <1>28 DEF AfterTurn, At, DriverFollowsLog, Position, Control, BetweenTurns
  <2>2. /\ phase'.turn = phase.turn /\ phase'.kind = phase.kind
        /\ (pc' = "opening" /\ phase'.step = 0) \/ pc' = "converging"
    BY <1>28 DEF AfterTurn, TypeOK, PhaseType
  <2>3. AtBoundary'
    BY <2>1, <2>2 DEF AtBoundary, turn
  <2> QED
    BY <2>1, <2>2, <2>3, LandsBetweenTurns DEF BetweenTurns, step
<1>29. ASSUME RecoverCall
       PROVE  DriverFollowsLog'
  <2>1. LogFits(log) /\ LastIs(InStep) /\ phase.kind = "running" /\ UNCHANGED phase
        /\ pc' = "recovering" /\ RecoverNext
    BY <1>29 DEF RecoverCall, Failing, At, DriverFollowsLog, Position, Control
  <2>2. LogFits(log') /\ LastIs(InStep)'
    BY <2>1, RecoveryFits DEF LastIs, SameStep, InStep, turn, step
  <2> QED
    BY <2>1, <2>2, LandsInRecovery
<1>30. ASSUME CloseFailedStep
       PROVE  DriverFollowsLog'
  <2>1. /\ LogFits(log) /\ LastIs(InStep) /\ phase.kind = "running" /\ UNCHANGED phase
        /\ pc' = "stepFailed" /\ Record(<<StepEnd(turn, step)>>)
    BY <1>30 DEF CloseFailedStep, Failing, At, DriverFollowsLog, Position, Control
  <2>2. LogFits(log') /\ LastIs({"turn/start", "step/end"})'
    BY <2>1, StepEndFits DEF LastIs, turn, step
  <2> QED
    BY <2>1, <2>2, LandsBetweenSteps DEF BetweenSteps
<1>31. ASSUME CloseStep
       PROVE  DriverFollowsLog'
  <2>1. /\ LogFits(log) /\ LastIs(InStep) /\ phase.kind = "running" /\ UNCHANGED phase
        /\ pc' = "stepEnded" /\ Record(<<StepEnd(turn, step)>>)
    BY <1>31 DEF CloseStep, At, DriverFollowsLog, Position, Control
  <2>2. LogFits(log') /\ LastIs({"turn/start", "step/end"})'
    BY <2>1, StepEndFits DEF LastIs, turn, step
  <2> QED
    BY <2>1, <2>2, LandsBetweenSteps DEF BetweenSteps
<1>32. ASSUME PrepareFails
       PROVE  DriverFollowsLog'
  <2>1. /\ UNCHANGED phase
        /\ StepThrows(<< >>)
        /\ phase.kind = "running"
        /\ LastIs({"step/start", "user/message", "assistant/attempt"})
    BY <1>32 DEF PrepareFails, At, DriverFollowsLog, Position, Control, BeforeAnswer
  <2>2. LastIs(InStep)
    BY <2>1 DEF LastIs, InStep, ToolEvent
  <2> QED
    BY <2>1, <2>2, FailsIntoRecovery
<1>33. ASSUME Admit
       PROVE  DriverFollowsLog'
  <2>1. /\ LogFits(log) /\ phase.kind = "running" /\ UNCHANGED <<phase, log, claimed>>
        /\ LastIs({"step/start", "user/message", "assistant/attempt"})
        /\ claimed # << >> => LastIs({"step/start"})
        /\ pc' = "dispatching" /\ attempts' = attempts + 1 /\ attempts \in Nat
    BY <1>33, BoundAssumption
       DEF Admit, At, DriverFollowsLog, Position, Control, BeforeAnswer, TypeOK
  <2>2. /\ LogFits(log') /\ LastIs({"step/start", "user/message", "assistant/attempt"})'
        /\ claimed' # << >> => LastIs({"step/start", "user/message"})'
    BY <2>1 DEF LastIs, turn, step
  <2> QED
    BY <2>1, <2>2, LandsBeforeAnswer DEF BeforeAnswer
<1>34. ASSUME AdmitMessage
       PROVE  DriverFollowsLog'
  <2>1. /\ LogFits(log) /\ phase.kind = "running" /\ UNCHANGED <<phase, attempts>>
        /\ LastIs({"step/start", "user/message"}) /\ attempts > 0
        /\ pc' = "dispatching" /\ Head(claimed) \in Message
    BY <1>34 DEF AdmitMessage, At, DriverFollowsLog, Position, Control, BeforeAnswer, TypeOK
  <2> DEFINE e == UserMessage(turn, step, Head(claimed))
  <2>2. e \in Event /\ e.type = "user/message" /\ e.turn = turn /\ e.step = step
    BY <2>1, PhaseFields, EventsAreEvents DEF UserMessage
  <2>3. Record(<<e>>)
    BY <1>34 DEF AdmitMessage
  <2> HIDE DEF e
  <2>4. Follows(LastEvent(log), e) /\ log # << >>
    BY <2>1, <2>2 DEF LastIs, Follows, SameStep
  <2>5. LogFits(log') /\ log' # << >> /\ LastEvent(log') = e
    BY <2>1, <2>2, <2>3, <2>4, RecordFits
  <2>6. /\ LastIs({"step/start", "user/message", "assistant/attempt"})'
        /\ LastIs({"step/start", "user/message"})'
    BY <2>1, <2>2, <2>5 DEF LastIs, turn, step
  <2> QED
    BY <2>1, <2>5, <2>6, LandsBeforeAnswer DEF BeforeAnswer
<1>35. ASSUME DispatchFails
       PROVE  DriverFollowsLog'
  <2>1. /\ UNCHANGED phase
        /\ StepThrows(<< >>)
        /\ phase.kind = "running"
        /\ LastIs({"step/start", "user/message", "assistant/attempt"})
    BY <1>35 DEF DispatchFails, At, DriverFollowsLog, Position, Control, BeforeAnswer
  <2>2. LastIs(InStep)
    BY <2>1 DEF LastIs, InStep, ToolEvent
  <2> QED
    BY <2>1, <2>2, FailsIntoRecovery
<1>36. ASSUME StartStream
       PROVE  DriverFollowsLog'
  <2>1. /\ LogFits(log) /\ phase.kind = "running" /\ UNCHANGED <<phase, log, claimed>>
        /\ LastIs({"step/start", "user/message", "assistant/attempt"})
        /\ pc' = "streaming" /\ claimed = << >>
    BY <1>36 DEF StartStream, At, stepVars, DriverFollowsLog, Position, Control, BeforeAnswer
  <2>2. LastIs({"step/start", "user/message", "assistant/attempt"})'
    BY <2>1 DEF LastIs, turn, step
  <2> QED
    BY <2>1, <2>2, LandsBeforeAnswer DEF BeforeAnswer
<1>37. ASSUME StreamInterrupted
       PROVE  DriverFollowsLog'
  <2>1. /\ LogFits(log) /\ phase.kind = "running" /\ UNCHANGED phase
        /\ LastIs({"step/start", "user/message", "assistant/attempt"})
        /\ pc' = "failing"
    BY <1>37 DEF StreamInterrupted, StepThrows, At, DriverFollowsLog, Position, Control,
                 BeforeAnswer
  <2>2. PICK a \in {Assistant(turn, step, "interrupted", 0), Attempt(turn, step)} : Record(<<a>>)
    BY <1>37 DEF StreamInterrupted, StepThrows
  <2>3. /\ a \in Event /\ a.turn = turn /\ a.step = step
        /\ a.type \in {"assistant/attempt", "assistant/message"}
    <3>1. CASE a = Assistant(turn, step, "interrupted", 0)
      BY <3>1, PhaseFields, EventsAreEvents DEF FinishKind, Assistant
    <3>2. CASE a = Attempt(turn, step)
      BY <3>2, PhaseFields, EventsAreEvents DEF Attempt
    <3> QED
      BY <3>1, <3>2
  <2>4. LogFits(log') /\ log' # << >> /\ LastEvent(log') = a
    BY <2>1, <2>2, <2>3, AnswerFits
  <2>5. LastIs(InStep)'
    BY <2>1, <2>3, <2>4 DEF LastIs, InStep, turn, step
  <2> QED
    BY <2>1, <2>4, <2>5, LandsInRecovery
<1>38. ASSUME StreamThrows
       PROVE  DriverFollowsLog'
  <2>1. /\ LogFits(log) /\ phase.kind = "running" /\ UNCHANGED phase
        /\ LastIs({"step/start", "user/message", "assistant/attempt"})
        /\ pc' = "failing" /\ UNCHANGED claimed /\ claimed = << >>
    BY <1>38 DEF StreamThrows, StepThrows, At, stepVars, DriverFollowsLog, Position, Control,
                 BeforeAnswer
  <2> DEFINE a == Attempt(turn, step)
  <2>2. a \in Event /\ a.turn = turn /\ a.step = step /\ a.type = "assistant/attempt"
    BY PhaseFields, EventsAreEvents DEF Attempt
  <2>3. Record(<<a>>)
    BY <1>38 DEF StreamThrows, StepThrows
  <2> HIDE DEF a
  <2>4. LogFits(log') /\ log' # << >> /\ LastEvent(log') = a
    BY <2>1, <2>2, <2>3, AnswerFits
  <2>5. LastIs(InStep)'
    BY <2>1, <2>2, <2>4 DEF LastIs, InStep, turn, step
  <2> QED
    BY <2>1, <2>4, <2>5, LandsInRecovery
<1>39. ASSUME StreamFails
       PROVE  DriverFollowsLog'
  <2>1. /\ LogFits(log) /\ phase.kind = "running" /\ UNCHANGED phase
        /\ LastIs({"step/start", "user/message", "assistant/attempt"})
        /\ pc' = "requestError" /\ UNCHANGED claimed /\ claimed = << >>
    BY <1>39 DEF StreamFails, StepThrows, At, stepVars, DriverFollowsLog, Position, Control,
                 BeforeAnswer
  <2> DEFINE a == Attempt(turn, step)
  <2>2. a \in Event /\ a.turn = turn /\ a.step = step /\ a.type = "assistant/attempt"
    BY PhaseFields, EventsAreEvents DEF Attempt
  <2>3. Record(<<a>>)
    BY <1>39 DEF StreamFails, StepThrows
  <2> HIDE DEF a
  <2>4. LogFits(log') /\ log' # << >> /\ LastEvent(log') = a
    BY <2>1, <2>2, <2>3, AnswerFits
  <2>5. LastIs({"assistant/attempt"})'
    BY <2>1, <2>2, <2>4 DEF LastIs, InStep, turn, step
  <2>6. Position'
    BY <2>1, <2>5 DEF Position, BetweenTurns, BetweenSteps, BeforeAnswer
  <2>7. Control'
    BY <2>1 DEF Control
  <2> QED
    BY <2>4, <2>6, <2>7 DEF DriverFollowsLog
<1>40. ASSUME Retry
       PROVE  DriverFollowsLog'
  <2>1. /\ LogFits(log) /\ phase.kind = "running" /\ UNCHANGED <<phase, log, claimed, attempts>>
        /\ LastIs({"assistant/attempt"}) /\ claimed = << >>
        /\ attempts < MaxAttempt /\ pc' = "preparing"
    BY <1>40 DEF Retry, At, stepVars, DriverFollowsLog, Position, Control
  <2>2. LastIs({"step/start", "user/message", "assistant/attempt"})'
    BY <2>1 DEF LastIs, turn, step
  <2> QED
    BY <2>1, <2>2, LandsBeforeAnswer DEF BeforeAnswer
<1>41. ASSUME GiveUp
       PROVE  DriverFollowsLog'
  <2>1. /\ UNCHANGED phase
        /\ StepThrows(<< >>)
        /\ phase.kind = "running"
        /\ LastIs({"assistant/attempt"})
    BY <1>41 DEF GiveUp, At, DriverFollowsLog, Position, Control, BeforeAnswer
  <2>2. LastIs(InStep)
    BY <2>1 DEF LastIs, InStep, ToolEvent
  <2> QED
    BY <2>1, <2>2, FailsIntoRecovery
<1>42. ASSUME StreamCutOff
       PROVE  DriverFollowsLog'
  <2>1. /\ LogFits(log) /\ phase.kind = "running" /\ UNCHANGED phase
        /\ LastIs({"step/start", "user/message", "assistant/attempt"})
    BY <1>42 DEF StreamCutOff, At, DriverFollowsLog, Position, Control, BeforeAnswer
  <2> DEFINE a == Assistant(turn, step, "max-tokens", 0)
  <2>2. a \in Event /\ a.turn = turn /\ a.step = step /\ a.type = "assistant/message"
    BY PhaseFields, EventsAreEvents DEF FinishKind, Assistant
  <2>3. Record(<<a>>) /\ pc' \in {"returned", "failing"}
    BY <1>42 DEF StreamCutOff, StepReturns, StepThrows
  <2> HIDE DEF a
  <2>4. LogFits(log') /\ log' # << >> /\ LastEvent(log') = a
    BY <2>1, <2>2, <2>3, AnswerFits
  <2>5. LastIs(InStep)'
    BY <2>1, <2>2, <2>4 DEF LastIs, InStep, turn, step
  <2> QED
    BY <2>1, <2>3, <2>4, <2>5, LandsInRecovery
<1>43. ASSUME StreamStops
       PROVE  DriverFollowsLog'
  <2>1. /\ LogFits(log) /\ phase.kind = "running" /\ UNCHANGED phase
        /\ LastIs({"step/start", "user/message", "assistant/attempt"})
    BY <1>43 DEF StreamStops, At, DriverFollowsLog, Position, Control, BeforeAnswer
  <2> DEFINE a == Assistant(turn, step, "stop", 0)
  <2>2. a \in Event /\ a.turn = turn /\ a.step = step /\ a.type = "assistant/message"
    BY PhaseFields, EventsAreEvents DEF FinishKind, Assistant
  <2>3. Record(<<a>>) /\ pc' \in {"returned", "failing"}
    BY <1>43 DEF StreamStops, StepReturns
  <2> HIDE DEF a
  <2>4. LogFits(log') /\ log' # << >> /\ LastEvent(log') = a
    BY <2>1, <2>2, <2>3, AnswerFits
  <2>5. LastIs(InStep)'
    BY <2>1, <2>2, <2>4 DEF LastIs, InStep, turn, step
  <2> QED
    BY <2>1, <2>3, <2>4, <2>5, LandsInRecovery
<1>44. ASSUME NEW n \in CallIndex, StreamAsksForTools(n)
       PROVE  DriverFollowsLog'
  <2>1. /\ LogFits(log) /\ phase.kind = "running" /\ UNCHANGED phase
        /\ LastIs({"step/start", "user/message", "assistant/attempt"})
        /\ pc' = "tools"
    BY <1>44 DEF StreamAsksForTools, At, DriverFollowsLog, Position, Control, BeforeAnswer
  <2> DEFINE a == Assistant(turn, step, "tool-calls", n)
  <2>2. /\ a \in Event /\ a.turn = turn /\ a.step = step /\ a.type = "assistant/message"
        /\ Asking(a)
    BY PhaseFields, EventsAreEvents DEF Assistant, Asking
  <2>3. Record(<<a>>)
    BY <1>44 DEF StreamAsksForTools
  <2> HIDE DEF a
  <2>4. LogFits(log') /\ log' # << >> /\ LastEvent(log') = a
    BY <2>1, <2>2, <2>3, AnswerFits
  <2>5. LastIs({"assistant/message"} \cup ToolEvent)'
    BY <2>1, <2>2, <2>4 DEF LastIs, turn, step
  <2> QED
    BY <2>1, <2>2, <2>4, <2>5, LandsInTools
<1>45. ASSUME ToolStart
       PROVE  DriverFollowsLog'
  <2>1. /\ LogFits(log) /\ log # << >> /\ phase.kind = "running" /\ UNCHANGED phase
        /\ LastEvent(log).turn = turn /\ LastEvent(log).step = step
        /\ LastIs({"assistant/message"} \cup ToolEvent)
        /\ Asking(LastEvent(log)) \/ LastEvent(log).type \in ToolEvent
        /\ pc = "tools" /\ UNCHANGED pc
    BY <1>45 DEF ToolStart, At, DriverFollowsLog, Position, Control, LastIs
  <2> DEFINE e == ToolCall(turn, step, batch.started + 1)
  <2>2. batch.started + 1 \in CallIndex
    BY <1>45, BatchFields, MaxCallAssumption DEF ToolStart, Tools!Start, CallIndex
  <2>3. e \in Event /\ e.type \in ToolEvent /\ e.turn = turn /\ e.step = step
    BY <2>2, PhaseFields, EventsAreEvents DEF ToolCall, ToolEvent
  <2>4. Record(<<e>>)
    BY <1>45 DEF ToolStart
  <2> HIDE DEF e
  <2>5. LogFits(log') /\ log' # << >> /\ LastEvent(log') = e
    BY <2>1, <2>3, <2>4, ToolEventFits
  <2>6. LastIs({"assistant/message"} \cup ToolEvent)'
    BY <2>1, <2>3, <2>5 DEF LastIs, turn, step
  <2> QED
    BY <2>1, <2>3, <2>5, <2>6, LandsInTools
<1>46. ASSUME ToolCommit
       PROVE  DriverFollowsLog'
  <2>1. /\ LogFits(log) /\ log # << >> /\ phase.kind = "running" /\ UNCHANGED phase
        /\ LastEvent(log).turn = turn /\ LastEvent(log).step = step
        /\ LastIs({"assistant/message"} \cup ToolEvent)
        /\ Asking(LastEvent(log)) \/ LastEvent(log).type \in ToolEvent
        /\ pc = "tools" /\ UNCHANGED pc
    BY <1>46 DEF ToolCommit, At, DriverFollowsLog, Position, Control, LastIs
  <2> DEFINE e == ToolResult(turn, step, batch.done + 1, "ok")
  <2>2. batch.done + 1 \in CallIndex
    BY <1>46, BatchFields, MaxCallAssumption DEF ToolCommit, Tools!Commit, CallIndex
  <2>3. e \in Event /\ e.type \in ToolEvent /\ e.turn = turn /\ e.step = step
    BY <2>2, PhaseFields, EventsAreEvents DEF ToolResult, ToolEvent, ResultKind
  <2>4. Record(<<e>>)
    BY <1>46 DEF ToolCommit
  <2> HIDE DEF e
  <2>5. LogFits(log') /\ log' # << >> /\ LastEvent(log') = e
    BY <2>1, <2>3, <2>4, ToolEventFits
  <2>6. LastIs({"assistant/message"} \cup ToolEvent)'
    BY <2>1, <2>3, <2>5 DEF LastIs, turn, step
  <2> QED
    BY <2>1, <2>3, <2>5, <2>6, LandsInTools
<1>47. ASSUME ToolSkip
       PROVE  DriverFollowsLog'
  <2>1. /\ LogFits(log) /\ log # << >> /\ phase.kind = "running" /\ UNCHANGED phase
        /\ LastEvent(log).turn = turn /\ LastEvent(log).step = step
        /\ LastIs({"assistant/message"} \cup ToolEvent)
        /\ Asking(LastEvent(log)) \/ LastEvent(log).type \in ToolEvent
        /\ pc = "tools" /\ UNCHANGED pc
    BY <1>47 DEF ToolSkip, At, DriverFollowsLog, Position, Control, LastIs
  <2>2. batch.started < batch.asked /\ log' = log \o Skipped /\ log \in Seq(Event)
    BY <1>47 DEF ToolSkip, Tools!Skip, Record, TypeOK
  <2>3. Skipped \in Seq(Event) /\ Len(Skipped) = 2 * (batch.asked - batch.started)
    BY <2>2, SkippedAreEvents
  <2>4. \A i \in 1 .. Len(Skipped) :
          /\ Skipped[i].type \in ToolEvent /\ Skipped[i].turn = turn /\ Skipped[i].step = step
    BY <2>2, SkippedAreToolEvents
  <2>5. Len(Skipped) \in Nat \ {0} /\ Skipped # << >>
    BY <2>2, <2>3, BatchFields
  <2>6. Follows(LastEvent(log), Skipped[1])
    BY <2>1, <2>4, <2>5 DEF Follows, SameStep, ToolEvent
  <2>7. \A i \in 1 .. Len(Skipped) - 1 : Follows(Skipped[i], Skipped[i + 1])
    BY <2>4, <2>5 DEF Follows, SameStep, ToolEvent
  <2>8. \A i \in 1 .. Len(Skipped) : SameStep(Skipped[i], LastEvent(log))
    BY <2>1, <2>4 DEF SameStep
  <2>9. LogFits(log')
    BY <2>1, <2>2, <2>3, <2>4, <2>5, <2>6, <2>7, <2>8, ConcatFits
  <2>10. log' # << >> /\ LastEvent(log') = Skipped[Len(Skipped)]
    BY <2>2, <2>3, <2>5 DEF LastEvent
  <2>11. LastIs({"assistant/message"} \cup ToolEvent)' /\ LastEvent(log').type \in ToolEvent
    BY <2>1, <2>4, <2>5, <2>10 DEF LastIs, turn, step
  <2> QED
    BY <2>1, <2>9, <2>11, LandsInTools
<1>48. ASSUME ToolsFinish
       PROVE  DriverFollowsLog'
  <2>1. /\ LogFits(log) /\ phase.kind = "running" /\ UNCHANGED phase
        /\ LastIs({"assistant/message"} \cup ToolEvent)
        /\ Record(<< >>) /\ pc' = "returned"
    BY <1>48 DEF ToolsFinish, StepReturns, At, DriverFollowsLog, Position, Control
  <2>2. log' = log
    BY <2>1, RecordNothing
  <2>3. LogFits(log') /\ LastIs(InStep)'
    BY <2>1, <2>2 DEF LastIs, InStep, ToolEvent, turn, step
  <2> QED
    BY <2>1, <2>3, LandsInRecovery
<1>49. ASSUME ToolsFail
       PROVE  DriverFollowsLog'
  <2>1. /\ LogFits(log) /\ log # << >> /\ phase.kind = "running" /\ UNCHANGED phase
        /\ LastEvent(log).turn = turn /\ LastEvent(log).step = step
        /\ LastIs({"assistant/message"} \cup ToolEvent)
        /\ Asking(LastEvent(log)) \/ LastEvent(log).type \in ToolEvent
        /\ pc' = "draining" /\ UNCHANGED log
    BY <1>49 DEF ToolsFail, At, DriverFollowsLog, Position, Control, LastIs
  <2>2. LastIs({"assistant/message"} \cup ToolEvent)'
    BY <2>1 DEF LastIs, turn, step
  <2> QED
    BY <2>1, <2>2, LandsInTools
<1>50. ASSUME ToolsReject
       PROVE  DriverFollowsLog'
  <2>1. /\ UNCHANGED phase
        /\ StepThrows(<< >>)
        /\ phase.kind = "running"
        /\ LastIs({"assistant/message"} \cup ToolEvent)
    BY <1>50 DEF ToolsReject, At, DriverFollowsLog, Position, Control, BeforeAnswer
  <2>2. LastIs(InStep)
    BY <2>1 DEF LastIs, InStep, ToolEvent
  <2> QED
    BY <2>1, <2>2, FailsIntoRecovery
<1>51. ASSUME Converge
       PROVE  DriverFollowsLog'
  <2>1. LogFits(log) /\ AtBoundary
    BY <1>51 DEF Converge, At, DriverFollowsLog, Position, BetweenTurns
  <2>2. /\ phase'.turn = turn /\ phase'.step = 0 /\ phase'.kind = "idle" /\ pc' = "off"
        /\ UNCHANGED log
    BY <1>51 DEF Converge, IdlePhase
  <2>3. AtBoundary' /\ step' = 0
    BY <2>1, <2>2 DEF AtBoundary, turn, step
  <2> QED
    BY <2>1, <2>2, <2>3, LandsBetweenTurns DEF BetweenTurns
<1>52. ASSUME Replay
       PROVE  DriverFollowsLog'
  <2>1. UNCHANGED <<log, claimed, attempts>> /\ pc # "repairing"
    BY <1>52 DEF Replay, stepVars, DriverFollowsLog, Control
  <2>2. \/ \E a \in BOOLEAN : WakeDriver(a)
        \/ UNCHANGED <<phase, pc>>
    BY <1>52 DEF Replay
  <2> QED
    BY <2>1, <2>2, WakeFits, Stays
<1>53. CASE UNCHANGED vars
  BY <1>53, Stays DEF vars, stepVars, callVars, DriverFollowsLog, Control
<1>54. CASE Clients
  <2>1. ASSUME NEW m \in Message, NEW t \in InboxTarget,
               \/ \E w \in BOOLEAN : Send(m, t, w)
               \/ InboxPrepend(t, m)
               \/ \E i \in 1 .. Len(inbox[t]) : InboxReplace(t, i, m)
        PROVE  DriverFollowsLog'
    BY <2>1, <1>1, <1>2, <1>3
  <2> QED
    BY <1>54, <2>1, <1>4, <1>5, <1>6 DEF Clients
<1>55. CASE Turn
  BY <1>55, <1>13, <1>14, <1>15, <1>16, <1>17, <1>18, <1>19, <1>20, <1>21, <1>22, <1>23, <1>24,
     <1>25, <1>26,
     <1>27, <1>28 DEF Turn
<1>56. CASE Step
  BY <1>56, <1>29, <1>30, <1>31, <1>32, <1>33, <1>34, <1>35, <1>36, <1>37, <1>38, <1>39, <1>40,
     <1>41,
     <1>42, <1>43, <1>44 DEF Step
<1>57. CASE ToolPhase
  BY <1>57, <1>45, <1>46, <1>47, <1>48, <1>49, <1>50 DEF ToolPhase
<1> QED
  BY <1>7, <1>8, <1>9, <1>10, <1>11, <1>12, <1>51, <1>52,
     <1>53, <1>54, <1>55, <1>56, <1>57 DEF Next, Driver

(* Every step keeps it. *)
LEMMA StepKeepsInv ==
  ASSUME Inv, [Next]_vars
  PROVE  Inv'
<1>1. AttemptsFit
  BY DEF Inv, DriverFollowsLog, Control, AttemptsFit
<1> QED
  BY <1>1, TypeStep, StepFits DEF Inv

-------------------------------------------------------------------------------
(* What the log says of turns and steps. *)

(* The turn and step a reader of the log takes to be open are the driver's. *)
LEMMA InvAgrees ==
  ASSUME Inv
  PROVE  LogAgreesWithDriver
<1> SUFFICES ASSUME pc # "repairing"
             PROVE  /\ OpenTurn(log) = IF pc \in TurnPoints THEN turn ELSE 0
                    /\ pc \in TurnPoints => OpenStep(log) = IF pc \in StepPoints THEN step ELSE 0
                    /\ LastTurn(log) = turn
  BY DEF LogAgreesWithDriver
<1>1. TypeOK /\ LogFits(log) /\ Position
  BY DEF Inv, DriverFollowsLog
<1>2. CASE pc \in BetweenTurns
  <2>1. AtBoundary
    BY <1>1, <1>2 DEF Position
  <2>2. OpenTurn(log) = 0 /\ LastTurn(log) = turn
    BY <1>1, <2>1 DEF AtBoundary, LogFits, CursorFits
  <2> QED
    BY <1>2, <2>2 DEF BetweenTurns, TurnPoints, StepPoints
<1>3. CASE pc \in BetweenSteps
  <2>1. LastIs({"turn/start", "step/end"})
    BY <1>1, <1>3 DEF Position
  <2>2. OpenTurn(log) = turn /\ OpenStep(log) = 0 /\ LastTurn(log) = turn
    BY <1>1, <2>1 DEF LastIs, LogFits, CursorFits, InStep
  <2> QED
    BY <1>3, <2>2 DEF BetweenSteps, TurnPoints, StepPoints
<1>4. CASE pc \in StepPoints
  <2>1. LastIs(InStep)
    BY <1>1, <1>4 DEF Position, StepPoints, BeforeAnswer, LastIs, InStep, ToolEvent
  <2>2. OpenTurn(log) = turn /\ OpenStep(log) = step /\ LastTurn(log) = turn
    BY <1>1, <2>1 DEF LastIs, LogFits, CursorFits, InStep
  <2> QED
    BY <1>4, <2>2 DEF TurnPoints
<1> QED
  BY <1>1, <1>2, <1>3, <1>4
  DEF TypeOK, Awaiting, Publishing, BetweenTurns, BetweenSteps, StepPoints

(* The last turn of the log is the driver's, also while a lost turn is repaired. *)
LEMMA LastTurnIsDrivers ==
  ASSUME Inv
  PROVE  LastTurn(log) = turn
<1>1. pc = "repairing" => turn = LastTurn(log)
  BY DEF Inv, DriverFollowsLog, Position
<1>2. pc # "repairing" => LastTurn(log) = turn
  BY InvAgrees DEF LogAgreesWithDriver
<1> QED
  BY <1>1, <1>2

-------------------------------------------------------------------------------
(* What a step records. *)

(* The log grows at its end, by exactly the events of E. *)
Adds(E) ==
  /\ Len(log') >= Len(log)
  /\ \A i \in 1 .. Len(log) : log'[i] = log[i]
  /\ Appended = E

(* Recording a sequence adds its events. *)
LEMMA RecordAdds ==
  ASSUME TypeOK, NEW es \in Seq(Event), Record(es)
  PROVE  Adds({es[i] : i \in 1 .. Len(es)})
<1>1. log \in Seq(Event) /\ log' = log \o es
  BY DEF TypeOK, Record
<1>2. Len(log) \in Nat /\ Len(es) \in Nat /\ Len(log') = Len(log) + Len(es)
  BY <1>1
<1>3. /\ \A i \in 1 .. Len(log) : log'[i] = log[i]
      /\ \A i \in Len(log) + 1 .. Len(log') : log'[i] = es[i - Len(log)]
  BY <1>1, <1>2
<1>4. Appended \subseteq {es[i] : i \in 1 .. Len(es)}
  <2> SUFFICES ASSUME NEW i \in Len(log) + 1 .. Len(log')
               PROVE  log'[i] \in {es[k] : k \in 1 .. Len(es)}
    BY DEF Appended
  <2>1. i - Len(log) \in 1 .. Len(es)
    BY <1>2
  <2> QED
    BY <1>3, <2>1
<1>5. {es[i] : i \in 1 .. Len(es)} \subseteq Appended
  <2> SUFFICES ASSUME NEW k \in 1 .. Len(es)
               PROVE  es[k] \in Appended
    OBVIOUS
  <2>1. Len(log) + k \in Len(log) + 1 .. Len(log') /\ (Len(log) + k) - Len(log) = k
    BY <1>2
  <2>2. es[k] = log'[Len(log) + k]
    BY <1>3, <2>1
  <2> QED
    BY <2>1, <2>2 DEF Appended
<1>6. Len(log') >= Len(log)
  BY <1>2
<1> QED
  BY <1>3, <1>4, <1>5, <1>6 DEF Adds

(* One event. *)
LEMMA AddsOne ==
  ASSUME TypeOK, NEW e \in Event, Record(<<e>>)
  PROVE  Adds({e})
<1>1. <<e>> \in Seq(Event) /\ {<<e>>[i] : i \in 1 .. Len(<<e>>)} = {e}
  OBVIOUS
<1> QED
  BY <1>1, RecordAdds

(* None. *)
LEMMA AddsNone ==
  ASSUME TypeOK, log' = log
  PROVE  Adds({})
<1>1. Len(log) \in Nat
  BY DEF TypeOK
<1>2. Len(log) + 1 .. Len(log) = {}
  BY <1>1
<1> QED
  BY <1>1, <1>2 DEF Adds, Appended

-------------------------------------------------------------------------------
(* What the ends of turns rest on, and what an aborted turn records. *)

(* The model answers of the log are those of turns the log has opened, and a turn
   with an answer cut off will not complete: its step returned max-tokens, which
   no later step revokes, or it failed.  A turn to end in an error is reporting it. *)
CutOffsCount ==
  /\ \A i \in 1 .. Len(log) : Is(log, i, {"assistant/message"}) => log[i].turn <= turn
  /\ CutOff(turn) /\ pc \in TurnPoints =>
       /\ step > 0
       /\ turnEnds = "max-tokens" \/ pc \in {"failing", "recovering", "stepFailed", "reporting"}
  /\ turnEnds = "error" /\ pc \in TurnPoints => pc = "reporting"

(* The steps AbortSilencesTurn and TurnEndIsHonest speak of. *)
AsksNoModel ==
  Aborted /\ pc \in TurnPoints =>
    /\ attempts' <= attempts
    /\ pc' = "streaming" => pc = "streaming"

Silenced ==
  Aborted /\ pc \in TurnPoints =>
    \A e \in Appended :
      /\ e.type \notin {"turn/start", "step/start"}
      /\ e.type = "user/message" => attempts > 0
      /\ e.type = "assistant/message" => e.finish = "interrupted"
      /\ e.type = "tool/call" =>
           \E f \in Appended : /\ f.type = "tool/result" /\ f.call = e.call
                               /\ f.result = "aborted"

Honest ==
  \A e \in Appended : e.type = "turn/end" /\ e.kind # "interrupted" =>
    /\ Aborted => e.kind = "aborted" \/ Decided(e.kind)
    /\ e.kind = "aborted" => Aborted /\ e.cause = phase.cause
    /\ e.kind = "completed" => ~CutOff(e.turn)

(* What a step has to record and assign for all of it. *)
Faithful == CutOffsCount' /\ Silenced /\ Honest

(* A step that adds no complete answer: an answer cut off was so before. *)
LEMMA NoCutOff ==
  ASSUME TypeOK, TypeOK', NEW E, Adds(E), CutOffsCount, turn' >= turn,
         \A e \in E : e.type = "assistant/message" => e.finish # "max-tokens" /\ e.turn <= turn'
  PROVE  /\ \A i \in 1 .. Len(log') : Is(log', i, {"assistant/message"}) => log'[i].turn <= turn'
         /\ \A t : CutOff(t)' => CutOff(t)
         /\ CutOff(turn)' => turn' = turn /\ CutOff(turn)
<1>1. /\ Len(log) \in Nat /\ Len(log') \in Nat /\ Len(log') >= Len(log)
      /\ \A i \in 1 .. Len(log) : log'[i] = log[i] /\ log[i].turn \in Nat
      /\ turn \in Nat /\ turn' \in Nat
  BY EventFields DEF Adds, TypeOK, turn, PhaseType
<1>2. \A i \in Len(log) + 1 .. Len(log') : log'[i] \in E
  BY DEF Adds, Appended
<1>3. \A i \in 1 .. Len(log') : i \in 1 .. Len(log) \/ i \in Len(log) + 1 .. Len(log')
  BY <1>1
<1>4. ASSUME NEW i \in 1 .. Len(log'), Is(log', i, {"assistant/message"})
      PROVE  log'[i].turn <= turn'
  <2>1. CASE i \in 1 .. Len(log)
    <3>1. log'[i] = log[i] /\ log[i].turn <= turn /\ log[i].turn \in Nat
      BY <1>1, <1>4, <2>1 DEF CutOffsCount, Is
    <3> QED
      BY <1>1, <3>1
  <2>2. CASE i \in Len(log) + 1 .. Len(log')
    BY <1>2, <1>4, <2>2 DEF Is
  <2> QED
    BY <1>3, <2>1, <2>2
<1>5. ASSUME NEW t, CutOff(t)'
      PROVE  CutOff(t)
  <2>1. PICK i \in 1 .. Len(log') :
          Is(log', i, {"assistant/message"}) /\ log'[i].finish = "max-tokens" /\ log'[i].turn = t
    BY <1>5 DEF CutOff
  <2>2. i \in 1 .. Len(log)
    BY <1>2, <1>3, <2>1 DEF Is
  <2> QED
    BY <1>1, <2>1, <2>2 DEF CutOff, Is
<1>6. ASSUME CutOff(turn)'
      PROVE  turn' = turn /\ CutOff(turn)
  <2>1. PICK i \in 1 .. Len(log') :
          /\ Is(log', i, {"assistant/message"})
          /\ log'[i].finish = "max-tokens" /\ log'[i].turn = turn'
    BY <1>6 DEF CutOff
  <2>2. i \in 1 .. Len(log) /\ log[i] = log'[i]
    BY <1>1, <1>2, <1>3, <2>1 DEF Is
  <2>3. log[i].turn <= turn
    BY <2>1, <2>2 DEF CutOffsCount, Is
  <2>4. turn' = turn
    BY <1>1, <2>1, <2>2, <2>3
  <2> QED
    BY <2>1, <2>2, <2>4 DEF CutOff, Is
<1> QED
  BY <1>4, <1>5, <1>6

(* A step that stays in its turn keeps what the turn will say of its end. *)
Carries ==
  /\ pc' \in TurnPoints /\ turn' = turn =>
       /\ pc \in TurnPoints
       /\ step' >= step
       /\ turnEnds = "max-tokens" => turnEnds' = "max-tokens" \/ pc' = "reporting"
       /\ pc \in {"failing", "recovering", "stepFailed", "reporting"} =>
            pc' \in {"failing", "recovering", "stepFailed", "reporting"}
  /\ pc' \in TurnPoints /\ turnEnds' = "error" =>
       \/ pc' = "reporting"
       \/ turnEnds = "error" /\ pc \in TurnPoints /\ pc # "reporting"

(* Such a step keeps it if it adds no answer that is cut off. *)
LEMMA CarriesOn ==
  ASSUME TypeOK, TypeOK', NEW E, Adds(E), CutOffsCount, turn' >= turn, Carries,
         \A e \in E : e.type = "assistant/message" => e.finish # "max-tokens" /\ e.turn <= turn'
  PROVE  CutOffsCount'
<1>1. /\ \A i \in 1 .. Len(log') : Is(log', i, {"assistant/message"}) => log'[i].turn <= turn'
      /\ CutOff(turn)' => turn' = turn /\ CutOff(turn)
  BY NoCutOff
<1>2. step \in Nat /\ step' \in Nat
  BY DEF TypeOK, step, PhaseType
<1>3. ASSUME CutOff(turn)', pc' \in TurnPoints
      PROVE  /\ step' > 0
             /\ turnEnds' = "max-tokens"
                \/ pc' \in {"failing", "recovering", "stepFailed", "reporting"}
  <2>1. CutOff(turn) /\ turn' = turn
    BY <1>1, <1>3
  <2>2. /\ pc \in TurnPoints /\ step' >= step
        /\ turnEnds = "max-tokens" => turnEnds' = "max-tokens" \/ pc' = "reporting"
        /\ pc \in {"failing", "recovering", "stepFailed", "reporting"} =>
             pc' \in {"failing", "recovering", "stepFailed", "reporting"}
    BY <1>3, <2>1 DEF Carries
  <2>3. /\ step > 0
        /\ turnEnds = "max-tokens" \/ pc \in {"failing", "recovering", "stepFailed", "reporting"}
    BY <2>1, <2>2 DEF CutOffsCount
  <2> QED
    BY <1>2, <2>2, <2>3
<1>4. turnEnds' = "error" /\ pc' \in TurnPoints => pc' = "reporting"
  BY DEF Carries, CutOffsCount
<1> QED
  BY <1>1, <1>3, <1>4 DEF CutOffsCount

(* A step that ends no turn and cuts no answer off; if the turn is aborted, it
   records only what may still be recorded then. *)
LEMMA GoesOnFaithfully ==
  ASSUME TypeOK, TypeOK', NEW E, Adds(E), CutOffsCount, turn' >= turn, Carries,
         \A e \in E :
           /\ e.type # "turn/end"
           /\ e.type = "assistant/message" => e.finish # "max-tokens" /\ e.turn <= turn',
         \/ ~Aborted
         \/ pc \notin TurnPoints
         \/ \A e \in E :
              /\ e.type \notin {"turn/start", "step/start", "tool/call"}
              /\ e.type = "user/message" => attempts > 0
              /\ e.type = "assistant/message" => e.finish = "interrupted"
  PROVE  Faithful
<1>1. CutOffsCount'
  BY CarriesOn
<1>2. Silenced
  BY DEF Silenced, Adds
<1>3. Honest
  BY DEF Honest, Adds
<1> QED
  BY <1>1, <1>2, <1>3 DEF Faithful

(* A step that records nothing. *)
LEMMA RecordsNothing ==
  ASSUME TypeOK, TypeOK', CutOffsCount, turn' >= turn, Carries, log' = log
  PROVE  Faithful
<1>1. Adds({})
  BY AddsNone
<1> QED
  BY <1>1, GoesOnFaithfully

(* A step that changes neither the turn nor the driver's position. *)
LEMMA StaysFaithful ==
  ASSUME TypeOK, TypeOK', CutOffsCount, UNCHANGED <<log, pc, turnEnds>>,
         phase'.turn = phase.turn, phase'.step = phase.step
  PROVE  Faithful
<1>1. turn' = turn /\ step' = step /\ turn \in Nat /\ step \in Nat
  BY DEF turn, step, TypeOK, PhaseType
<1>2. Carries
  BY <1>1 DEF Carries
<1> QED
  BY <1>1, <1>2, RecordsNothing

(* The end of the turn: what it says of an abort is so, and the turn it calls
   completed had no answer cut off. *)
LEMMA EndsFaithfully ==
  ASSUME TypeOK, TypeOK', CutOffsCount, NEW k \in TurnEndKind, EndTurn(k), UNCHANGED phase,
         pc' \notin TurnPoints,
         Aborted => k = "aborted" \/ Decided(k), k = "aborted" => Aborted,
         k = "completed" => ~CutOff(turn)
  PROVE  Faithful
<1> DEFINE e == TurnEnd(turn, k, IF k = "aborted" THEN phase.cause ELSE "none")
<1>1. e \in Event
  BY PhaseFields, CauseAssumption, EventsAreEvents DEF AgentCancelCause
<1>2. /\ e.type = "turn/end" /\ e.turn = turn /\ e.kind = k
      /\ k = "aborted" => e.cause = phase.cause
  BY DEF TurnEnd
<1>3. Record(<<e>>)
  BY DEF EndTurn
<1> HIDE DEF e
<1>4. Adds({e})
  BY <1>1, <1>3, AddsOne
<1>5. turn' = turn /\ turn \in Nat
  BY DEF turn, TypeOK, PhaseType
<1>6. Carries
  BY DEF Carries
<1>7. CutOffsCount'
  BY <1>2, <1>4, <1>5, <1>6, CarriesOn
<1>8. Silenced
  BY <1>2, <1>4 DEF Silenced, Adds
<1>9. Honest
  BY <1>2, <1>4 DEF Honest, Adds
<1> QED
  BY <1>7, <1>8, <1>9 DEF Faithful

(* An exception that reaches turn(). *)
LEMMA ThrowsFaithfully ==
  ASSUME TypeOK, TypeOK', CutOffsCount, pc \in TurnPoints \ {"reporting"}, Throw, UNCHANGED phase
  PROVE  Faithful
<1>1. CASE Aborted /\ EndTurn("aborted") /\ pc' = "converging"
  BY <1>1, EndsFaithfully DEF TurnEndKind, TurnPoints, StepPoints
<1>2. CASE pc' = "reporting" /\ log' = log
  <2>1. turn' = turn /\ step' = step /\ turn \in Nat /\ step \in Nat
    BY DEF turn, step, TypeOK, PhaseType
  <2>2. Carries
    BY <1>2, <2>1 DEF Carries, TurnPoints
  <2> QED
    BY <1>2, <2>1, <2>2, RecordsNothing
<1> QED
  BY <1>1, <1>2 DEF Throw

(* The events an aborted batch records for the calls it never started: each call
   is answered as aborted in the same breath. *)
LEMMA SkipsFaithfully ==
  ASSUME TypeOK, TypeOK', CutOffsCount, ToolSkip
  PROVE  Faithful
<1>1. /\ Record(Skipped) /\ UNCHANGED <<phase, pc, turnEnds>> /\ pc = "tools"
      /\ batch.started < batch.asked
  BY DEF ToolSkip, At, Tools!Skip
<1>2. Skipped \in Seq(Event) /\ Len(Skipped) = 2 * (batch.asked - batch.started)
  BY <1>1, SkippedAreEvents
<1> DEFINE E == {Skipped[i] : i \in 1 .. Len(Skipped)}
           n == 2 * (batch.asked - batch.started)
<1>3. Adds(E)
  BY <1>1, <1>2, RecordAdds
<1>4. batch.started \in Nat /\ batch.asked \in Nat /\ n \in Nat
  BY <1>1, BatchFields
<1>5. \A i \in 1 .. n :
        Skipped[i] = IF i % 2 = 1 THEN ToolCall(turn, step, batch.started + (i + 1) \div 2)
                     ELSE ToolResult(turn, step, batch.started + (i + 1) \div 2, "aborted")
  BY DEF Skipped
<1>6. \A e \in E : e.type \in {"tool/call", "tool/result"}
  BY <1>2, <1>5 DEF ToolCall, ToolResult
<1>7. ASSUME NEW i \in 1 .. n, Skipped[i].type = "tool/call"
      PROVE  \E f \in E : /\ f.type = "tool/result" /\ f.call = Skipped[i].call
                          /\ f.result = "aborted"
  <2> DEFINE c == batch.started + (i + 1) \div 2
             f == ToolResult(turn, step, c, "aborted")
  <2>1. i % 2 = 1 /\ Skipped[i] = ToolCall(turn, step, c)
    <3>1. Skipped[i] = IF i % 2 = 1 THEN ToolCall(turn, step, c) ELSE f
      BY <1>5
    <3>2. f.type # "tool/call"
      BY DEF ToolResult
    <3> HIDE DEF f
    <3> QED
      BY <1>7, <3>1, <3>2
  <2>2. i + 1 \in 1 .. n /\ (i + 1) % 2 # 1 /\ (i + 1 + 1) \div 2 = (i + 1) \div 2
    BY <1>4, <2>1
  <2>3. Skipped[i + 1] = f
    BY <1>5, <2>2
  <2>4. f \in E
    BY <1>2, <2>2, <2>3
  <2>5. f.type = "tool/result" /\ f.call = Skipped[i].call /\ f.result = "aborted"
    BY <2>1 DEF ToolCall, ToolResult
  <2> QED
    BY <2>4, <2>5
<1> HIDE DEF E
<1>8. turn' = turn /\ step' = step /\ turn \in Nat /\ step \in Nat
  BY <1>1 DEF turn, step, TypeOK, PhaseType
<1>9. Carries
  BY <1>1, <1>8 DEF Carries
<1>10. CutOffsCount'
  BY <1>3, <1>6, <1>8, <1>9, CarriesOn
<1>11. \A e \in E : e.type = "tool/call" =>
         \E f \in E : f.type = "tool/result" /\ f.call = e.call /\ f.result = "aborted"
  BY <1>2, <1>7 DEF E
<1>12. Silenced
  BY <1>3, <1>6, <1>11 DEF Silenced, Adds
<1>13. Honest
  BY <1>3, <1>6 DEF Honest, Adds
<1> QED
  BY <1>10, <1>12, <1>13 DEF Faithful

(* An aborted turn begins no model attempt. *)
LEMMA AbortAsksNoModel ==
  ASSUME TypeOK, [Next]_vars
  PROVE  AsksNoModel
<1> SUFFICES ASSUME Aborted, pc \in TurnPoints
             PROVE  attempts' <= attempts /\ (pc' = "streaming" => pc = "streaming")
  BY DEF AsksNoModel
<1>1. attempts \in Nat /\ 0 <= attempts
  BY BoundAssumption DEF TypeOK
<1>2. CASE Turn
  <2>1. attempts' = attempts
    BY <1>2 DEF Turn, OpenTurnBoundary, DropDriver, ClaimTurn, PreStepThrows, PreStepRejects,
       PreStepEnters, Block, EnterNothing, EnterAborted, EnterStep, AfterStep, StepFailed,
       StoppingThrows, Stopping, EndFailedTurn, AfterTurn, stepVars
  <2>2. pc' # "streaming"
    BY <1>2 DEF Turn, OpenTurnBoundary, DropDriver, ClaimTurn, PreStepThrows, PreStepRejects,
       PreStepEnters, Block, EnterNothing, EnterAborted, EnterStep, AfterStep, StepFailed,
       StoppingThrows, Stopping, EndFailedTurn, AfterTurn, Throw, Break, NextStep, At, TurnPoints,
       StepPoints
  <2> QED
    BY <1>1, <2>1, <2>2
<1>3. CASE Step
  <2>1. attempts' = attempts
    BY <1>3 DEF Step, RecoverCall, CloseFailedStep, CloseStep, PrepareFails, Admit, AdmitMessage,
       DispatchFails, StartStream, StreamInterrupted, StreamThrows, StreamFails, Retry, GiveUp,
       StreamCutOff, StreamStops, StreamAsksForTools, stepVars
  <2>2. pc' = "streaming" => pc = "streaming"
    BY <1>3 DEF Step, RecoverCall, CloseFailedStep, CloseStep, PrepareFails, Admit, AdmitMessage,
       DispatchFails, StartStream, StreamInterrupted, StreamThrows, StreamFails, Retry, GiveUp,
       StreamCutOff, StreamStops, StreamAsksForTools, StepReturns, StepThrows
  <2> QED
    BY <1>1, <2>1, <2>2
<1>4. CASE ToolPhase
  <2>1. attempts' = attempts /\ pc' # "streaming"
    BY <1>4 DEF ToolPhase, ToolStart, ToolCommit, ToolSkip, ToolsFinish, ToolsFail, ToolsReject,
       StepReturns, StepThrows, At
  <2> QED
    BY <1>1, <2>1
<1>5. CASE Converge \/ Replay \/ SendWakes \/ FinishMaintenance
  <2>1. attempts' = attempts /\ (pc' = pc \/ pc' \in {"off", "opening"})
    BY <1>5 DEF Converge, Replay, SendWakes, FinishMaintenance, WakeDriver, stepVars
  <2> QED
    BY <1>1, <2>1
<1>6. CASE Clients \/ Dispose \/ Detach \/ UNCHANGED vars
  <2>1. UNCHANGED <<attempts, pc>>
    BY <1>6 DEF Clients, Send, InboxPrepend, InboxReplace, InboxRemove, Cancel, RunMaintenance,
       Dispose, Detach, vars, stepVars
  <2> QED
    BY <1>1, <2>1
<1>7. CASE Crash \/ Repair
  <2>1. (attempts' = 0 \/ attempts' = attempts) /\ pc' # "streaming"
    BY <1>7 DEF Crash, Repair, stepVars
  <2> QED
    BY <1>1, <2>1
<1> QED
  BY <1>2, <1>3, <1>4, <1>5, <1>6, <1>7 DEF Next, Driver

(* Every step. *)
LEMMA StepsFaithfully ==
  ASSUME Inv, Inv', CutOffsCount, [Next]_vars
  PROVE  Faithful
<1>1. /\ TypeOK /\ TypeOK' /\ Position /\ Control /\ LogFits(log)
      /\ turn \in Nat /\ step \in Nat /\ phase \in PhaseType
  BY DEF Inv, DriverFollowsLog, TypeOK, PhaseType, turn, step
<1>2. UNCHANGED phase => turn' = turn /\ step' = step
  BY DEF turn, step
<1>3. ASSUME NEW m \in Message, NEW t \in InboxTarget, NEW w \in BOOLEAN, Send(m, t, w)
      PROVE  Faithful
  <2>1. UNCHANGED <<log, pc, turnEnds>> /\ phase'.turn = phase.turn /\ phase'.step = phase.step
    BY <1>1, <1>3 DEF Send
  <2> QED
    BY <1>1, <2>1, StaysFaithful
<1>4. ASSUME NEW t \in InboxTarget, NEW m \in Message, InboxPrepend(t, m)
      PROVE  Faithful
  <2>1. UNCHANGED <<log, pc, turnEnds>> /\ phase'.turn = phase.turn /\ phase'.step = phase.step
    BY <1>1, <1>4 DEF InboxPrepend
  <2> QED
    BY <1>1, <2>1, StaysFaithful
<1>5. ASSUME NEW t \in InboxTarget, NEW m \in Message, NEW i \in 1 .. Len(inbox[t]),
             InboxReplace(t, i, m)
      PROVE  Faithful
  <2>1. UNCHANGED <<log, pc, turnEnds>> /\ phase'.turn = phase.turn /\ phase'.step = phase.step
    BY <1>1, <1>5 DEF InboxReplace
  <2> QED
    BY <1>1, <2>1, StaysFaithful
<1>6. ASSUME NEW t \in InboxTarget, NEW i \in 1 .. Len(inbox[t]), InboxRemove(t, i)
      PROVE  Faithful
  <2>1. UNCHANGED <<log, pc, turnEnds>> /\ phase'.turn = phase.turn /\ phase'.step = phase.step
    BY <1>1, <1>6 DEF InboxRemove
  <2> QED
    BY <1>1, <2>1, StaysFaithful
<1>7. ASSUME NEW c \in Cause, NEW k \in BOOLEAN, Cancel(c, k)
      PROVE  Faithful
  <2>1. UNCHANGED <<log, pc, turnEnds>> /\ phase'.turn = phase.turn /\ phase'.step = phase.step
    BY <1>1, <1>7 DEF Cancel, CancelEffect, PhaseType
  <2> QED
    BY <1>1, <2>1, StaysFaithful
<1>8. ASSUME RunMaintenance
      PROVE  Faithful
  <2>1. UNCHANGED <<log, pc, turnEnds>> /\ phase'.turn = phase.turn /\ phase'.step = phase.step
    BY <1>1, <1>8 DEF RunMaintenance, PhaseType
  <2> QED
    BY <1>1, <2>1, StaysFaithful
<1>9. ASSUME Dispose
      PROVE  Faithful
  <2>1. UNCHANGED <<log, pc, turnEnds>> /\ phase'.turn = phase.turn /\ phase'.step = phase.step
    BY <1>1, <1>9 DEF Dispose, CancelEffect, PhaseType
  <2> QED
    BY <1>1, <2>1, StaysFaithful
<1>10. ASSUME Detach
      PROVE  Faithful
  <2>1. UNCHANGED <<log, pc, turnEnds>> /\ phase'.turn = phase.turn /\ phase'.step = phase.step
    BY <1>1, <1>10 DEF Detach
  <2> QED
    BY <1>1, <2>1, StaysFaithful
<1>11. ASSUME FinishMaintenance
      PROVE  Faithful
  <2>1. log' = log /\ turn' = turn /\ (pc' \notin TurnPoints \/ UNCHANGED <<pc, turnEnds, phase>>)
    BY <1>1, <1>11 DEF FinishMaintenance, IdlePhase, Control, turn, PhaseType, TurnPoints,
       StepPoints
  <2>2. Carries
    BY <1>1, <1>2, <2>1 DEF Carries
  <2> QED
    BY <1>1, <2>1, <2>2, RecordsNothing
<1>12. ASSUME DropDriver
      PROVE  Faithful
  <2>1. log' = log /\ turn' = turn /\ (pc' \notin TurnPoints \/ UNCHANGED <<pc, turnEnds, phase>>)
    BY <1>1, <1>12 DEF DropDriver, turn, PhaseType, TurnPoints, StepPoints
  <2>2. Carries
    BY <1>1, <1>2, <2>1 DEF Carries
  <2> QED
    BY <1>1, <2>1, <2>2, RecordsNothing
<1>13. ASSUME Converge
      PROVE  Faithful
  <2>1. log' = log /\ turn' = turn /\ (pc' \notin TurnPoints \/ UNCHANGED <<pc, turnEnds, phase>>)
    BY <1>1, <1>13 DEF Converge, IdlePhase, turn, PhaseType, TurnPoints, StepPoints
  <2>2. Carries
    BY <1>1, <1>2, <2>1 DEF Carries
  <2> QED
    BY <1>1, <2>1, <2>2, RecordsNothing
<1>14. ASSUME AfterTurn
      PROVE  Faithful
  <2>1. log' = log /\ turn' = turn /\ (pc' \notin TurnPoints \/ UNCHANGED <<pc, turnEnds, phase>>)
    BY <1>1, <1>14 DEF AfterTurn, At, turn, PhaseType, TurnPoints, StepPoints
  <2>2. Carries
    BY <1>1, <1>2, <2>1 DEF Carries
  <2> QED
    BY <1>1, <2>1, <2>2, RecordsNothing
<1>15. ASSUME SendWakes
      PROVE  Faithful
  <2>1. UNCHANGED <<log, turnEnds>> /\ (UNCHANGED <<phase, pc>> \/ \E a \in BOOLEAN : WakeDriver(a))
    BY <1>15 DEF SendWakes
  <2>2. CASE UNCHANGED <<phase, pc>>
    BY <1>1, <2>1, <2>2, StaysFaithful
  <2>3. ASSUME NEW a \in BOOLEAN, WakeDriver(a)
        PROVE  Faithful
    <3>1. phase'.turn = phase.turn /\ phase'.step = phase.step /\ (pc' = "opening" \/ pc' = pc)
      BY <1>1, <2>3 DEF WakeDriver, PhaseType
    <3>2. turn' = turn /\ step' = step
      BY <3>1 DEF turn, step
    <3>3. Carries
      BY <1>1, <2>1, <3>1, <3>2 DEF Carries, TurnPoints, StepPoints
    <3> QED
      BY <1>1, <2>1, <3>2, <3>3, RecordsNothing
  <2> QED
    BY <2>1, <2>2, <2>3
<1>16. ASSUME Replay
      PROVE  Faithful
  <2>1. UNCHANGED <<log, turnEnds>> /\ (UNCHANGED <<phase, pc>> \/ \E a \in BOOLEAN : WakeDriver(a))
    BY <1>16 DEF Replay
  <2>2. CASE UNCHANGED <<phase, pc>>
    BY <1>1, <2>1, <2>2, StaysFaithful
  <2>3. ASSUME NEW a \in BOOLEAN, WakeDriver(a)
        PROVE  Faithful
    <3>1. phase'.turn = phase.turn /\ phase'.step = phase.step /\ (pc' = "opening" \/ pc' = pc)
      BY <1>1, <2>3 DEF WakeDriver, PhaseType
    <3>2. turn' = turn /\ step' = step
      BY <3>1 DEF turn, step
    <3>3. Carries
      BY <1>1, <2>1, <3>1, <3>2 DEF Carries, TurnPoints, StepPoints
    <3> QED
      BY <1>1, <2>1, <3>2, <3>3, RecordsNothing
  <2> QED
    BY <2>1, <2>2, <2>3
<1>17. ASSUME Crash
      PROVE  Faithful
  <2>1. log' = log /\ pc' \in {"off", "repairing"} /\ phase' = IdlePhase(LastTurn(log))
    BY <1>17 DEF Crash
  <2>2. turn' = turn
    BY <1>1, <2>1, LastTurnIsDrivers DEF Inv, IdlePhase, turn
  <2>3. Carries
    BY <2>1 DEF Carries, TurnPoints, StepPoints
  <2> QED
    BY <1>1, <2>1, <2>2, <2>3, RecordsNothing
<1>18. ASSUME Repair
      PROVE  Faithful
  <2>1. /\ pc = "repairing" /\ pc' \in {"repairing", "off"} /\ UNCHANGED phase
        /\ pc \notin TurnPoints /\ pc' \notin TurnPoints
    BY <1>18 DEF Repair, TurnPoints, StepPoints
  <2>2. Carries
    BY <2>1 DEF Carries
  <2>3. OpenTurn(log) \in Nat /\ OpenStep(log) \in Nat
    BY <1>1, <2>1, CursorTypes DEF TypeOK
  <2>4. PICK e \in Event : /\ Record(<<e>>)
                           /\ e.type \in {"tool/result", "step/end", "turn/end"}
                           /\ e.type = "turn/end" => e.kind = "interrupted"
    <3>1. CASE RecoverNext
      <4>1. PICK r \in Unanswered(log) : Record(<<RecoveryResult(log, r[1], r[2])>>)
        BY <3>1 DEF RecoverNext
      <4> QED
        BY <1>1, <4>1, RecoveryResultIsEvent DEF TypeOK
    <3>2. CASE Record(<<StepEnd(OpenTurn(log), OpenStep(log))>>)
      BY <2>3, <3>2, EventsAreEvents DEF StepEnd
    <3>3. CASE Record(<<TurnEnd(OpenTurn(log), "interrupted", "none")>>)
      <4> DEFINE f == TurnEnd(OpenTurn(log), "interrupted", "none")
      <4>1. f \in Event
        BY <2>3, EventsAreEvents DEF TurnEndKind
      <4>2. f.type = "turn/end" /\ f.kind = "interrupted"
        BY DEF TurnEnd
      <4> QED
        BY <3>3, <4>1, <4>2
    <3> QED
      BY <1>18, <3>1, <3>2, <3>3 DEF Repair
  <2>5. Adds({e})
    BY <1>1, <2>4, AddsOne
  <2>6. CutOffsCount'
    BY <1>1, <1>2, <2>1, <2>2, <2>4, <2>5, CarriesOn
  <2>7. Silenced /\ Honest
    BY <2>1, <2>4, <2>5 DEF Silenced, Honest, Adds
  <2> QED
    BY <2>6, <2>7 DEF Faithful
<1>19. ASSUME OpenTurnBoundary
      PROVE  Faithful
  <2>1. /\ ~Aborted /\ Record(<<TurnStart(turn + 1)>>) /\ turn' = turn + 1
        /\ turnEnds' = "none"
    BY <1>1, <1>19 DEF OpenTurnBoundary, PhaseType, turn
  <2>2. TurnStart(turn + 1) \in Event /\ TurnStart(turn + 1).type = "turn/start"
    BY <1>1, EventsAreEvents DEF TurnStart
  <2>3. Adds({TurnStart(turn + 1)})
    BY <1>1, <2>1, <2>2, AddsOne
  <2>4. Carries /\ turn' >= turn
    BY <1>1, <2>1 DEF Carries
  <2> QED
    BY <1>1, <2>1, <2>2, <2>3, <2>4, GoesOnFaithfully
<1>20. ASSUME ClaimTurn
      PROVE  Faithful
  <2>1. CASE Throw
    BY <1>1, <2>1, <1>20, ThrowsFaithfully DEF ClaimTurn, At, TurnPoints
  <2>2. CASE log' = log /\ UNCHANGED <<phase, turnEnds>>
    <3>1. Carries
      BY <1>1, <1>2, <2>2, <1>20 DEF Carries, ClaimTurn, At, TurnPoints
    <3> QED
      BY <1>1, <1>2, <2>2, <3>1, RecordsNothing
  <2> QED
    BY <2>1, <2>2, <1>20 DEF ClaimTurn
<1>21. ASSUME AfterStep
      PROVE  Faithful
  <2>1. CASE Throw
    BY <1>1, <2>1, <1>21, ThrowsFaithfully DEF AfterStep, At, TurnPoints
  <2>2. CASE log' = log /\ UNCHANGED <<phase, turnEnds>>
    <3>1. Carries
      BY <1>1, <1>2, <2>2, <1>21 DEF Carries, AfterStep, At, TurnPoints
    <3> QED
      BY <1>1, <1>2, <2>2, <3>1, RecordsNothing
  <2> QED
    BY <2>1, <2>2, <1>21 DEF AfterStep, NextStep
<1>22. ASSUME PreStepThrows
      PROVE  Faithful
  <2>1. Throw /\ UNCHANGED phase /\ pc = "prestep"
    BY <1>22 DEF PreStepThrows, At
  <2> QED
    BY <1>1, <2>1, ThrowsFaithfully DEF TurnPoints
<1>23. ASSUME StepFailed
      PROVE  Faithful
  <2>1. Throw /\ UNCHANGED phase /\ pc = "stepFailed"
    BY <1>23 DEF StepFailed, At
  <2> QED
    BY <1>1, <2>1, ThrowsFaithfully DEF TurnPoints
<1>24. ASSUME StoppingThrows
      PROVE  Faithful
  <2>1. Throw /\ UNCHANGED phase /\ pc = "stopping"
    BY <1>24 DEF StoppingThrows, At
  <2> QED
    BY <1>1, <2>1, ThrowsFaithfully DEF TurnPoints
<1>25. ASSUME PreStepRejects
      PROVE  Faithful
  <2>1. /\ log' = log /\ UNCHANGED <<phase, turnEnds>> /\ pc \in TurnPoints
        /\ pc \notin {"failing", "recovering", "stepFailed", "reporting"}
    BY <1>1, <1>25 DEF PreStepRejects, At, TurnPoints
  <2>2. Carries
    BY <1>1, <1>2, <2>1 DEF Carries
  <2> QED
    BY <1>1, <1>2, <2>1, <2>2, RecordsNothing
<1>26. ASSUME PreStepEnters
      PROVE  Faithful
  <2>1. /\ log' = log /\ UNCHANGED <<phase, turnEnds>> /\ pc \in TurnPoints
        /\ pc \notin {"failing", "recovering", "stepFailed", "reporting"}
    BY <1>1, <1>26 DEF PreStepEnters, At, TurnPoints
  <2>2. Carries
    BY <1>1, <1>2, <2>1 DEF Carries
  <2> QED
    BY <1>1, <1>2, <2>1, <2>2, RecordsNothing
<1>27. ASSUME Block
      PROVE  Faithful
  <2>1. EndTurn("blocked") /\ UNCHANGED phase /\ pc' = "converging" /\ Decided("blocked")
    BY <1>27 DEF Block, At, Decided
  <2> QED
    BY <1>1, <2>1, EndsFaithfully DEF TurnEndKind, TurnPoints, StepPoints
<1>28. ASSUME EnterAborted
      PROVE  Faithful
  <2>1. Throw /\ UNCHANGED phase /\ pc = "entering"
    BY <1>28 DEF EnterAborted, At
  <2> QED
    BY <1>1, <2>1, ThrowsFaithfully DEF TurnPoints
<1>29. ASSUME EndFailedTurn
      PROVE  Faithful
  <2>1. EndTurn("error") /\ UNCHANGED phase /\ pc' = "converging" /\ Decided("error")
    BY <1>29 DEF EndFailedTurn, At, Decided
  <2> QED
    BY <1>1, <2>1, EndsFaithfully DEF TurnEndKind, TurnPoints, StepPoints
<1>30. ASSUME EnterNothing
      PROVE  Faithful
  <2>0. UNCHANGED phase /\ pc = "entering" /\ pc \in TurnPoints
    BY <1>30 DEF EnterNothing, At, TurnPoints
  <2>1. CASE turnEnds # "none" /\ Break
    <3>1. turnEnds \in TurnEndKind /\ turnEnds # "aborted" /\ Decided(turnEnds)
      BY <1>1, <2>0, <2>1 DEF TypeOK, TurnEndState, TurnEndKind, CutOffsCount, Decided
    <3>2. turnEnds = "completed" => ~CutOff(turn)
      BY <2>0 DEF CutOffsCount
    <3> QED
      BY <1>1, <2>0, <2>1, <3>1, <3>2, EndsFaithfully DEF Break, TurnPoints, StepPoints
  <2>2. CASE turnEnds = "none" /\ EndTurn("completed") /\ pc' = "converging"
    <3>1. ~CutOff(turn) /\ Decided("completed")
      BY <2>0, <2>2 DEF CutOffsCount, Decided
    <3> QED
      BY <1>1, <2>0, <2>2, <3>1, EndsFaithfully DEF TurnEndKind, TurnPoints, StepPoints
  <2> QED
    BY <2>1, <2>2, <1>30 DEF EnterNothing
<1>31. ASSUME Stopping
      PROVE  Faithful
  <2>0. ~Aborted /\ UNCHANGED phase /\ pc = "stopping"
    BY <1>31 DEF Stopping, At
  <2>1. CASE MayStop /\ Break
    <3>1. turnEnds \in TurnEndKind /\ turnEnds # "aborted"
      BY <1>1, <2>1 DEF MayStop, TypeOK, TurnEndState, TurnEndKind
    <3>2. turnEnds = "completed" => ~CutOff(turn)
      BY <2>0 DEF CutOffsCount, TurnPoints
    <3> QED
      BY <1>1, <2>0, <2>1, <3>1, <3>2, EndsFaithfully DEF Break, TurnPoints, StepPoints
  <2>2. CASE log' = log /\ UNCHANGED turnEnds
    <3>1. Carries
      BY <1>1, <1>2, <2>0, <2>2 DEF Carries, TurnPoints
    <3> QED
      BY <1>1, <1>2, <2>0, <2>2, <3>1, RecordsNothing
  <2> QED
    BY <2>1, <2>2, <1>31 DEF Stopping, NextStep
<1>32. ASSUME EnterStep
      PROVE  Faithful
  <2>1. /\ ~Aborted /\ Record(<<StepStart(turn, step + 1)>>) /\ pc = "entering"
        /\ turn' = turn /\ step' = step + 1 /\ turnEnds' = turnEnds
    BY <1>1, <1>32 DEF EnterStep, PhaseType, turn, step, At
  <2>2. StepStart(turn, step + 1) \in Event /\ StepStart(turn, step + 1).type = "step/start"
    BY <1>1, EventsAreEvents DEF StepStart
  <2>3. Adds({StepStart(turn, step + 1)})
    BY <1>1, <2>1, <2>2, AddsOne
  <2>4. Carries /\ turn' >= turn
    BY <1>1, <2>1 DEF Carries, TurnPoints
  <2> QED
    BY <1>1, <2>1, <2>2, <2>3, <2>4, GoesOnFaithfully
<1>33. ASSUME RecoverCall
      PROVE  Faithful
  <2>1. PICK r \in Unanswered(log) : Record(<<RecoveryResult(log, r[1], r[2])>>)
    BY <1>33 DEF RecoverCall, RecoverNext
  <2> DEFINE e == RecoveryResult(log, r[1], r[2])
  <2>2. e \in Event /\ e.type = "tool/result"
    BY <1>1, RecoveryResultIsEvent DEF TypeOK
  <2> HIDE DEF e
  <2>3. Adds({e})
    BY <1>1, <2>1, <2>2, AddsOne DEF e
  <2>4. Carries /\ UNCHANGED phase
    BY <1>1, <1>2, <1>33
    DEF Carries, RecoverCall, Failing, At, TurnPoints, StepPoints
  <2> QED
    BY <1>1, <1>2, <2>2, <2>3, <2>4, GoesOnFaithfully
<1>34. ASSUME CloseFailedStep
      PROVE  Faithful
  <2>1. /\ Record(<<StepEnd(turn, step)>>) /\ UNCHANGED <<phase, turnEnds>>
        /\ pc \in {"failing", "recovering"} /\ pc' = "stepFailed"
    BY <1>34 DEF CloseFailedStep, Failing, At
  <2>2. StepEnd(turn, step) \in Event /\ StepEnd(turn, step).type = "step/end"
    BY <1>1, EventsAreEvents, <1>34 DEF StepEnd
  <2>3. Adds({StepEnd(turn, step)})
    BY <1>1, <2>1, <2>2, AddsOne
  <2>4. Carries
    BY <1>1, <1>2, <2>1 DEF Carries, TurnPoints, StepPoints
  <2> QED
    BY <1>1, <1>2, <2>1, <2>2, <2>3, <2>4, GoesOnFaithfully
<1>35. ASSUME CloseStep
      PROVE  Faithful
  <2>1. /\ Record(<<StepEnd(turn, step)>>) /\ UNCHANGED <<phase, turnEnds>>
        /\ pc = "returned"
    BY <1>35 DEF CloseStep, At
  <2>2. StepEnd(turn, step) \in Event /\ StepEnd(turn, step).type = "step/end"
    BY <1>1, EventsAreEvents, <1>35 DEF StepEnd
  <2>3. Adds({StepEnd(turn, step)})
    BY <1>1, <2>1, <2>2, AddsOne
  <2>4. Carries
    BY <1>1, <1>2, <2>1 DEF Carries, TurnPoints, StepPoints
  <2> QED
    BY <1>1, <1>2, <2>1, <2>2, <2>3, <2>4, GoesOnFaithfully
<1>36. ASSUME PrepareFails
      PROVE  Faithful
  <2>1. /\ log' = log /\ UNCHANGED <<phase, turnEnds>> /\ pc \in TurnPoints
        /\ pc \notin {"failing", "recovering", "stepFailed", "reporting"}
    BY <1>1, <1>36, RecordNothing DEF PrepareFails, StepThrows, At, TurnPoints, StepPoints
  <2>2. Carries
    BY <1>1, <1>2, <2>1 DEF Carries
  <2> QED
    BY <1>1, <1>2, <2>1, <2>2, RecordsNothing
<1>37. ASSUME Admit
      PROVE  Faithful
  <2>1. /\ log' = log /\ UNCHANGED <<phase, turnEnds>> /\ pc \in TurnPoints
        /\ pc \notin {"failing", "recovering", "stepFailed", "reporting"}
    BY <1>1, <1>37 DEF Admit, At, TurnPoints, StepPoints
  <2>2. Carries
    BY <1>1, <1>2, <2>1 DEF Carries
  <2> QED
    BY <1>1, <1>2, <2>1, <2>2, RecordsNothing
<1>38. ASSUME AdmitMessage
      PROVE  Faithful
  <2> DEFINE e == UserMessage(turn, step, Head(claimed))
  <2>1. /\ Record(<<e>>) /\ UNCHANGED <<phase, turnEnds>> /\ pc = "dispatching"
        /\ attempts > 0
    BY <1>1, <1>38 DEF AdmitMessage, At, Control
  <2>2. e \in Event /\ e.type = "user/message"
    <3>1. Head(claimed) \in Message
      BY <1>1, <1>38 DEF AdmitMessage, TypeOK
    <3> QED
      BY <1>1, <3>1, EventsAreEvents DEF UserMessage
  <2> HIDE DEF e
  <2>3. Adds({e})
    BY <1>1, <2>1, <2>2, AddsOne
  <2>4. Carries
    BY <1>1, <1>2, <2>1 DEF Carries, TurnPoints, StepPoints
  <2> QED
    BY <1>1, <1>2, <2>1, <2>2, <2>3, <2>4, GoesOnFaithfully
<1>39. ASSUME DispatchFails
      PROVE  Faithful
  <2>1. /\ log' = log /\ UNCHANGED <<phase, turnEnds>> /\ pc \in TurnPoints
        /\ pc \notin {"failing", "recovering", "stepFailed", "reporting"}
    BY <1>1, <1>39, RecordNothing DEF DispatchFails, StepThrows, At, TurnPoints, StepPoints
  <2>2. Carries
    BY <1>1, <1>2, <2>1 DEF Carries
  <2> QED
    BY <1>1, <1>2, <2>1, <2>2, RecordsNothing
<1>40. ASSUME StartStream
      PROVE  Faithful
  <2>1. /\ log' = log /\ UNCHANGED <<phase, turnEnds>> /\ pc \in TurnPoints
        /\ pc \notin {"failing", "recovering", "stepFailed", "reporting"}
    BY <1>1, <1>40, RecordNothing DEF StartStream, At, TurnPoints, StepPoints
  <2>2. Carries
    BY <1>1, <1>2, <2>1 DEF Carries
  <2> QED
    BY <1>1, <1>2, <2>1, <2>2, RecordsNothing
<1>41. ASSUME StreamInterrupted
      PROVE  Faithful
  <2>1. PICK e \in {Assistant(turn, step, "interrupted", 0), Attempt(turn, step)} : Record(<<e>>)
    BY <1>41 DEF StreamInterrupted, StepThrows
  <2>2. /\ e \in Event /\ e.type \in {"assistant/message", "assistant/attempt"}
        /\ e.type = "assistant/message" => e.finish = "interrupted" /\ e.turn = turn
    <3>1. /\ Assistant(turn, step, "interrupted", 0) \in Event /\ Attempt(turn, step) \in Event
      BY <1>1, EventsAreEvents DEF FinishKind
    <3>2. CASE e = Assistant(turn, step, "interrupted", 0)
      BY <3>1, <3>2 DEF Assistant
    <3>3. CASE e = Attempt(turn, step)
      BY <3>1, <3>3 DEF Attempt
    <3> QED
      BY <3>2, <3>3
  <2>3. Adds({e})
    BY <1>1, <2>1, <2>2, AddsOne
  <2>4. Carries /\ UNCHANGED phase
    BY <1>1, <1>2, <1>41 DEF Carries, StreamInterrupted, StepThrows, At, TurnPoints, StepPoints
  <2> QED
    BY <1>1, <1>2, <2>2, <2>3, <2>4, GoesOnFaithfully
<1>42. ASSUME StreamThrows
      PROVE  Faithful
  <2>1. /\ ~Aborted
        /\ Record(<<Attempt(turn, step)>>)
        /\ UNCHANGED <<phase, turnEnds>>
        /\ pc = "streaming"
    BY <1>42 DEF StreamThrows, StepThrows, At
  <2>2. Attempt(turn, step) \in Event /\ Attempt(turn, step).type = "assistant/attempt"
    BY <1>1, EventsAreEvents, <1>42 DEF Attempt
  <2>3. Adds({Attempt(turn, step)})
    BY <1>1, <2>1, <2>2, AddsOne
  <2>4. Carries
    BY <1>1, <1>2, <2>1 DEF Carries, TurnPoints, StepPoints
  <2> QED
    BY <1>1, <1>2, <2>1, <2>2, <2>3, <2>4, GoesOnFaithfully
<1>43. ASSUME StreamFails
      PROVE  Faithful
  <2>1. /\ ~Aborted
        /\ Record(<<Attempt(turn, step)>>)
        /\ UNCHANGED <<phase, turnEnds>>
        /\ pc = "streaming"
    BY <1>43 DEF StreamFails, At
  <2>2. Attempt(turn, step) \in Event /\ Attempt(turn, step).type = "assistant/attempt"
    BY <1>1, EventsAreEvents, <1>43 DEF Attempt
  <2>3. Adds({Attempt(turn, step)})
    BY <1>1, <2>1, <2>2, AddsOne
  <2>4. Carries
    BY <1>1, <1>2, <2>1 DEF Carries, TurnPoints, StepPoints
  <2> QED
    BY <1>1, <1>2, <2>1, <2>2, <2>3, <2>4, GoesOnFaithfully
<1>44. ASSUME Retry
      PROVE  Faithful
  <2>1. /\ log' = log /\ UNCHANGED <<phase, turnEnds>> /\ pc \in TurnPoints
        /\ pc \notin {"failing", "recovering", "stepFailed", "reporting"}
    BY <1>1, <1>44, RecordNothing DEF Retry, At, TurnPoints, StepPoints
  <2>2. Carries
    BY <1>1, <1>2, <2>1 DEF Carries
  <2> QED
    BY <1>1, <1>2, <2>1, <2>2, RecordsNothing
<1>45. ASSUME GiveUp
      PROVE  Faithful
  <2>1. /\ log' = log /\ UNCHANGED <<phase, turnEnds>> /\ pc \in TurnPoints
        /\ pc \notin {"failing", "recovering", "stepFailed", "reporting"}
    BY <1>1, <1>45, RecordNothing DEF GiveUp, StepThrows, At, TurnPoints, StepPoints
  <2>2. Carries
    BY <1>1, <1>2, <2>1 DEF Carries
  <2> QED
    BY <1>1, <1>2, <2>1, <2>2, RecordsNothing
<1>46. ASSUME StreamCutOff
      PROVE  Faithful
  <2> DEFINE a == Assistant(turn, step, "max-tokens", 0)
  <2>1. ~Aborted /\ UNCHANGED phase /\ pc = "streaming" /\ Record(<<a>>)
    BY <1>46 DEF StreamCutOff, StepReturns, StepThrows, At
  <2>2. a \in Event /\ a.type = "assistant/message" /\ a.turn = turn
    BY <1>1, EventsAreEvents DEF FinishKind, Assistant
  <2>3. \/ pc' = "failing" /\ turnEnds' = turnEnds
        \/ turnEnds' = "max-tokens"
    BY <1>46 DEF StreamCutOff, StepReturns, StepThrows
  <2> HIDE DEF a
  <2>4. Adds({a})
    BY <1>1, <2>1, <2>2, AddsOne
  <2>5. step > 0 /\ step' = step /\ turn' = turn /\ turnEnds # "error"
    <3>1. LastIs({"step/start", "user/message", "assistant/attempt"}) /\ log # << >>
      BY <1>1, <2>1 DEF Position, BeforeAnswer, LastIs
    <3>2. step # 0
      BY <1>1, <3>1 DEF LogFits, CursorFits, LastIs, InStep
    <3>3. turnEnds # "error"
      BY <2>1 DEF CutOffsCount, TurnPoints, StepPoints
    <3> QED
      BY <1>1, <1>2, <2>1, <3>2, <3>3
  <2>6. CutOffsCount'
    <3>1. ASSUME NEW i \in 1 .. Len(log'), Is(log', i, {"assistant/message"})
          PROVE  log'[i].turn <= turn'
      <4>1. Len(log) \in Nat /\ Len(log') \in Nat
        BY <1>1 DEF TypeOK
      <4>2. CASE i \in 1 .. Len(log)
        <5>1. log'[i] = log[i] /\ log[i].turn <= turn
          BY <2>4, <3>1, <4>2 DEF Adds, CutOffsCount, Is
        <5> QED
          BY <2>5, <5>1
      <4>3. CASE i \in Len(log) + 1 .. Len(log')
        <5>1. log'[i] = a
          BY <2>4, <4>3 DEF Adds, Appended
        <5> QED
          BY <1>1, <2>2, <2>5, <5>1
      <4> QED
        BY <4>1, <4>2, <4>3
    <3> QED
      BY <2>3, <2>5, <3>1 DEF CutOffsCount
  <2>7. Silenced
    BY <2>1 DEF Silenced
  <2>8. Honest
    BY <2>2, <2>4 DEF Honest, Adds
  <2> QED
    BY <2>6, <2>7, <2>8 DEF Faithful
<1>47. ASSUME StreamStops
      PROVE  Faithful
  <2> DEFINE a == Assistant(turn, step, "stop", 0)
  <2>1. ~Aborted /\ UNCHANGED phase /\ pc = "streaming" /\ Record(<<a>>)
    BY <1>47 DEF StreamStops, StepReturns, At
  <2>2. a \in Event /\ a.type = "assistant/message" /\ a.turn = turn /\ a.finish = "stop"
    BY <1>1, EventsAreEvents DEF FinishKind, Assistant
  <2> HIDE DEF a
  <2>3. Adds({a})
    BY <1>1, <2>1, <2>2, AddsOne
  <2>4. Carries
    BY <1>1, <1>2, <2>1, <1>47 DEF Carries, StreamStops, StepReturns, TurnPoints, StepPoints
  <2> QED
    BY <1>1, <1>2, <2>1, <2>2, <2>3, <2>4, GoesOnFaithfully
<1>48. ASSUME NEW n \in CallIndex, StreamAsksForTools(n)
      PROVE  Faithful
  <2> DEFINE a == Assistant(turn, step, "tool-calls", n)
  <2>1. /\ ~Aborted /\ UNCHANGED <<phase, turnEnds>> /\ pc = "streaming" /\ Record(<<a>>)
    BY <1>48 DEF StreamAsksForTools, At
  <2>2. /\ a \in Event /\ a.type = "assistant/message" /\ a.turn = turn
        /\ a.finish = "tool-calls"
    BY <1>1, EventsAreEvents DEF Assistant
  <2> HIDE DEF a
  <2>3. Adds({a})
    BY <1>1, <2>1, <2>2, AddsOne
  <2>4. Carries
    BY <1>1, <1>2, <2>1 DEF Carries, TurnPoints, StepPoints
  <2> QED
    BY <1>1, <1>2, <2>1, <2>2, <2>3, <2>4, GoesOnFaithfully
<1>49. ASSUME ToolStart
      PROVE  Faithful
  <2> DEFINE e == ToolCall(turn, step, batch.started + 1)
  <2>1. /\ ~Aborted /\ UNCHANGED <<phase, turnEnds>> /\ pc = "tools" /\ Record(<<e>>)
        /\ batch.started < batch.asked
    BY <1>49 DEF ToolStart, Tools!Start, At
  <2>2. batch.started + 1 \in CallIndex
    BY <1>1, <2>1, BatchFields, MaxCallAssumption DEF CallIndex
  <2>3. e \in Event /\ e.type = "tool/call"
    BY <1>1, <2>2, EventsAreEvents DEF ToolCall
  <2> HIDE DEF e
  <2>4. Adds({e})
    BY <1>1, <2>1, <2>3, AddsOne
  <2>5. Carries
    BY <1>1, <1>2, <2>1 DEF Carries, TurnPoints, StepPoints
  <2> QED
    BY <1>1, <1>2, <2>1, <2>3, <2>4, <2>5, GoesOnFaithfully
<1>50. ASSUME ToolCommit
      PROVE  Faithful
  <2> DEFINE e == ToolResult(turn, step, batch.done + 1, "ok")
  <2>1. /\ UNCHANGED <<phase, turnEnds>> /\ pc = "tools" /\ Record(<<e>>)
        /\ batch.done < batch.started
    BY <1>50 DEF ToolCommit, Tools!Commit, At
  <2>2. batch.done + 1 \in CallIndex
    BY <1>1, <2>1, BatchFields, MaxCallAssumption DEF CallIndex
  <2>3. e \in Event /\ e.type = "tool/result"
    BY <1>1, <2>2, EventsAreEvents DEF ToolResult, ResultKind
  <2> HIDE DEF e
  <2>4. Adds({e})
    BY <1>1, <2>1, <2>3, AddsOne
  <2>5. Carries
    BY <1>1, <1>2, <2>1 DEF Carries, TurnPoints, StepPoints
  <2> QED
    BY <1>1, <1>2, <2>1, <2>3, <2>4, <2>5, GoesOnFaithfully
<1>51. ASSUME ToolSkip
      PROVE  Faithful
  BY <1>1, <1>51, SkipsFaithfully
<1>52. ASSUME ToolsFinish
      PROVE  Faithful
  <2>1. log' = log /\ UNCHANGED phase /\ pc = "tools"
    BY <1>1, <1>52, RecordNothing DEF ToolsFinish, StepReturns, At
  <2>2. Carries
    BY <1>1, <1>2, <2>1, <1>52 DEF Carries, ToolsFinish, StepReturns, TurnPoints, StepPoints
  <2> QED
    BY <1>1, <1>2, <2>1, <2>2, RecordsNothing
<1>53. ASSUME ToolsFail
      PROVE  Faithful
  <2>1. /\ log' = log /\ UNCHANGED <<phase, turnEnds>> /\ pc \in TurnPoints
        /\ pc \notin {"failing", "recovering", "stepFailed", "reporting"}
    BY <1>1, <1>53, RecordNothing DEF ToolsFail, At, TurnPoints, StepPoints
  <2>2. Carries
    BY <1>1, <1>2, <2>1 DEF Carries
  <2> QED
    BY <1>1, <1>2, <2>1, <2>2, RecordsNothing
<1>54. ASSUME ToolsReject
      PROVE  Faithful
  <2>1. /\ log' = log /\ UNCHANGED <<phase, turnEnds>> /\ pc \in TurnPoints
        /\ pc \notin {"failing", "recovering", "stepFailed", "reporting"}
    BY <1>1, <1>54, RecordNothing DEF ToolsReject, StepThrows, At, TurnPoints, StepPoints
  <2>2. Carries
    BY <1>1, <1>2, <2>1 DEF Carries
  <2> QED
    BY <1>1, <1>2, <2>1, <2>2, RecordsNothing
<1>55. ASSUME UNCHANGED vars
      PROVE  Faithful
  <2>1. UNCHANGED <<log, pc, turnEnds>> /\ phase'.turn = phase.turn /\ phase'.step = phase.step
    BY <1>1, <1>55 DEF vars
  <2> QED
    BY <1>1, <2>1, StaysFaithful
<1>56. CASE Clients
  <2>1. ASSUME NEW m \in Message, NEW t \in InboxTarget,
               \/ \E w \in BOOLEAN : Send(m, t, w)
               \/ InboxPrepend(t, m)
               \/ \E i \in 1 .. Len(inbox[t]) : InboxReplace(t, i, m)
        PROVE  Faithful
    BY <2>1, <1>3, <1>4, <1>5
  <2> QED
    BY <1>56, <2>1, <1>6, <1>7, <1>8 DEF Clients
<1>57. CASE Turn
  BY <1>57, <1>19, <1>12, <1>20, <1>22, <1>25, <1>26, <1>27, <1>28, <1>30, <1>32,
     <1>21, <1>23, <1>24, <1>31, <1>29, <1>14 DEF Turn
<1>58. CASE Step
  BY <1>58, <1>33, <1>34, <1>35, <1>36, <1>37, <1>38, <1>39, <1>40, <1>41,
     <1>42, <1>43, <1>44, <1>45, <1>46, <1>47, <1>48 DEF Step
<1>59. CASE ToolPhase
  BY <1>59, <1>49, <1>50, <1>51, <1>52, <1>53, <1>54 DEF ToolPhase
<1> QED
  BY <1>56, <1>57, <1>58, <1>59, <1>13, <1>16, <1>15, <1>11, <1>9,
     <1>10, <1>17, <1>18, <1>55 DEF Next, Driver

-------------------------------------------------------------------------------
(* What a cancelled activity comes to. *)

(* The abort cause belongs to an activity, and one that disposal aborted has no
   wake latched. *)
CauseCounts ==
  /\ phase.kind = "idle" => phase.cause = "none"
  /\ phase.cause = "disposed" => ~phase.wakeRequested

(* The step DisposalOpensNothing speaks of. *)
OpensNothing ==
  phase.cause = "disposed" =>
    \/ phase'.cause = "disposed" /\ phase'.turn = phase.turn
    \/ phase' = IdlePhase(phase.turn) /\ ~replay'
    \/ EndedUnseen

(* A step that leaves the activity alone. *)
LEMMA LeavesActivity ==
  ASSUME CauseCounts, UNCHANGED phase
  PROVE  CauseCounts' /\ OpensNothing
  BY DEF CauseCounts, OpensNothing

(* Cancel, and the cancel of a teardown. *)
LEMMA CancelCounts ==
  ASSUME TypeOK, CauseCounts, NEW c \in Cause \cup {"disposed"}, NEW k \in BOOLEAN,
         c = "disposed" => ~k, CancelEffect(c, k)
  PROVE  CauseCounts' /\ OpensNothing
<1>1. phase \in PhaseType
  BY DEF TypeOK
<1>2. CASE ~Active
  <2>1. phase' = phase /\ phase.cause = "none"
    BY <1>2 DEF CancelEffect, Active, CauseCounts
  <2> QED
    BY <2>1 DEF CauseCounts, OpensNothing
<1>3. CASE Active
  <2>1. /\ phase'.kind = phase.kind /\ phase'.turn = phase.turn
        /\ phase'.wakeRequested = (phase.wakeRequested /\ k)
        /\ phase'.cause = IF phase.cause = "none" THEN c ELSE phase.cause
    BY <1>1, <1>3 DEF CancelEffect, PhaseType
  <2>2. phase'.kind # "idle"
    BY <1>3, <2>1 DEF Active
  <2>3. phase'.cause = "disposed" => ~phase'.wakeRequested
    BY <2>1 DEF CauseCounts
  <2> QED
    BY <2>1, <2>2, <2>3 DEF CauseCounts, OpensNothing
<1> QED
  BY <1>2, <1>3

(* wakeDriver: it starts an activity, or latches unless disposal aborted it. *)
LEMMA WakeCounts ==
  ASSUME TypeOK, CauseCounts, NEW a \in BOOLEAN, WakeDriver(a)
  PROVE  CauseCounts' /\ OpensNothing
<1>1. phase \in PhaseType
  BY DEF TypeOK
<1>2. CASE ~Active
  <2>1. phase.cause = "none"
    BY <1>2 DEF Active, CauseCounts
  <2>2. phase'.cause = phase.cause /\ phase'.kind = "running"
    BY <1>1, <1>2 DEF WakeDriver, PhaseType
  <2> QED
    BY <2>1, <2>2 DEF CauseCounts, OpensNothing
<1>3. CASE Active
  <2>1. /\ phase'.cause = phase.cause /\ phase'.kind = phase.kind /\ phase'.turn = phase.turn
        /\ phase.cause = "disposed" => phase'.wakeRequested = phase.wakeRequested
    BY <1>1, <1>3 DEF WakeDriver, PhaseType
  <2> QED
    BY <2>1 DEF CauseCounts, OpensNothing
<1> QED
  BY <1>2, <1>3

(* Every step. *)
LEMMA StepsCount ==
  ASSUME Inv, CauseCounts, [Next]_vars
  PROVE  CauseCounts' /\ OpensNothing
<1>0. TypeOK /\ phase \in PhaseType /\ Control
  BY DEF Inv, TypeOK, DriverFollowsLog
<1>1. ASSUME NEW c \in Cause, NEW k \in BOOLEAN, Cancel(c, k)
      PROVE  CauseCounts' /\ OpensNothing
  <2>1. CancelEffect(c, k) /\ c # "disposed"
    BY <1>1, CauseAssumption DEF Cancel
  <2> QED
    BY <1>0, <2>1, CancelCounts
<1>2. ASSUME RunMaintenance
      PROVE  CauseCounts' /\ OpensNothing
  <2>1. phase'.cause = "none" /\ phase.cause = "none" /\ phase'.kind = "maintenance"
    BY <1>0, <1>2 DEF RunMaintenance, Active, CauseCounts, PhaseType
  <2> QED
    BY <2>1 DEF CauseCounts, OpensNothing
<1>3. CASE Clients
  <2>1. ASSUME NEW m \in Message, NEW t \in InboxTarget,
               \/ \E w \in BOOLEAN : Send(m, t, w)
               \/ InboxPrepend(t, m)
               \/ \E i \in 1 .. Len(inbox[t]) : InboxReplace(t, i, m)
        PROVE  UNCHANGED phase
    BY <2>1 DEF Send, InboxPrepend, InboxReplace
  <2>2. ASSUME NEW t \in InboxTarget, NEW i \in 1 .. Len(inbox[t]), InboxRemove(t, i)
        PROVE  UNCHANGED phase
    BY <2>2 DEF InboxRemove
  <2> QED
    BY <1>3, <2>1, <2>2, <1>1, <1>2, LeavesActivity DEF Clients
<1>4. ASSUME FinishMaintenance
      PROVE  CauseCounts' /\ OpensNothing
  <2>1. CASE phase.cause # "disposed" /\ phase.wakeRequested /\ HasPending
    BY <2>1, <1>4 DEF FinishMaintenance, CauseCounts, OpensNothing, IdlePhase
  <2>2. CASE ~(phase.cause # "disposed" /\ phase.wakeRequested /\ HasPending)
    <3>1. phase' = IdlePhase(phase.turn) /\ ~replay'
      BY <2>2, <1>4 DEF FinishMaintenance, callVars
    <3> QED
      BY <3>1 DEF CauseCounts, OpensNothing, IdlePhase
  <2> QED
    BY <2>1, <2>2
<1>5. ASSUME Dispose
      PROVE  CauseCounts' /\ OpensNothing
  <2>1. CASE CancelEffect("disposed", FALSE)
    BY <1>0, <2>1, CancelCounts
  <2> QED
    BY <1>5, <2>1, LeavesActivity DEF Dispose
<1>6. ASSUME Crash
      PROVE  CauseCounts' /\ OpensNothing
  <2>1. phase' = IdlePhase(phase.turn) /\ ~replay'
    BY <1>6, LastTurnIsDrivers DEF Crash, turn
  <2> QED
    BY <2>1 DEF CauseCounts, OpensNothing, IdlePhase
<1>7. ASSUME OpenTurnBoundary
      PROVE  CauseCounts' /\ OpensNothing
  <2>1. phase.cause = "none" /\ phase'.cause = "none" /\ phase'.kind = phase.kind
    BY <1>0, <1>7 DEF OpenTurnBoundary, Aborted, PhaseType
  <2> QED
    BY <1>0, <2>1, <1>7 DEF CauseCounts, OpensNothing, OpenTurnBoundary, Control, At
<1>8. ASSUME EnterStep
      PROVE  CauseCounts' /\ OpensNothing
  <2>1. /\ phase.cause = "none" /\ phase'.cause = "none" /\ phase'.kind = phase.kind
        /\ phase.kind = "running"
    BY <1>0, <1>8 DEF EnterStep, Aborted, PhaseType, Control, At
  <2> QED
    BY <2>1 DEF CauseCounts, OpensNothing
<1>9. ASSUME AfterTurn
      PROVE  CauseCounts' /\ OpensNothing
  <2>1. CASE HasPending
    <3>1. /\ phase'.cause = "none" /\ phase'.kind = phase.kind
          /\ pc = "turnEnded" /\ pc' = "opening" /\ ~phase'.wakeRequested
      BY <1>0, <2>1, <1>9 DEF AfterTurn, At, PhaseType
    <3> QED
      BY <2>1, <3>1 DEF CauseCounts, OpensNothing, EndedUnseen
  <2>2. CASE ~HasPending
    BY <2>2, <1>9, LeavesActivity DEF AfterTurn
  <2> QED
    BY <2>1, <2>2
<1>10. CASE Turn
  <2>1. \/ OpenTurnBoundary \/ EnterStep \/ AfterTurn
        \/ UNCHANGED phase
    BY <1>10 DEF Turn, DropDriver, ClaimTurn, PreStepThrows, PreStepRejects, PreStepEnters,
       Block, EnterNothing, EnterAborted, AfterStep, StepFailed, StoppingThrows, Stopping,
       EndFailedTurn
  <2> QED
    BY <2>1, <1>7, <1>8, <1>9, LeavesActivity
<1>11. CASE Step
  <2>1. UNCHANGED phase
    BY <1>11 DEF Step, RecoverCall, CloseFailedStep, CloseStep, PrepareFails, Admit, AdmitMessage,
       DispatchFails, StartStream, StreamInterrupted, StreamThrows, StreamFails, Retry, GiveUp,
       StreamCutOff, StreamStops, StreamAsksForTools
  <2> QED
    BY <2>1, LeavesActivity
<1>12. CASE ToolPhase
  <2>1. UNCHANGED phase
    BY <1>12 DEF ToolPhase, ToolStart, ToolCommit, ToolSkip, ToolsFinish, ToolsFail, ToolsReject
  <2> QED
    BY <2>1, LeavesActivity
<1>13. ASSUME Converge
      PROVE  CauseCounts' /\ OpensNothing
  <2>1. phase' = IdlePhase(phase.turn) /\ replay' = phase.wakeRequested
    BY <1>13 DEF Converge, turn
  <2> QED
    BY <2>1 DEF CauseCounts, OpensNothing, IdlePhase
<1>14. CASE Replay \/ SendWakes
  <2>1. UNCHANGED phase \/ \E a \in BOOLEAN : WakeDriver(a)
    BY <1>14 DEF Replay, SendWakes
  <2> QED
    BY <1>0, <2>1, LeavesActivity, WakeCounts
<1>15. CASE Detach \/ Repair \/ UNCHANGED vars
  <2>1. UNCHANGED phase
    BY <1>15 DEF Detach, Repair, vars
  <2> QED
    BY <2>1, LeavesActivity
<1> QED
  BY <1>3, <1>4, <1>5, <1>6, <1>10, <1>11, <1>12, <1>13, <1>14, <1>15 DEF Next, Driver

-------------------------------------------------------------------------------
(* Theorems. *)

(* The invariant holds: the state is well typed, and the driver's position in
   turn(), step() and the tool phase fixes the last event of the log. *)
THEOREM InvariantHolds == Spec => []Inv
<1>1. Init => Inv
  BY InitFits
<1>2. Inv /\ [Next]_vars => Inv'
  BY StepKeepsInv
<1> QED
  BY <1>1, <1>2, PTL DEF Spec

(* Type correctness of every variable of the driver. *)
THEOREM TypeCorrect == Spec => []TypeOK
<1>1. Inv => TypeOK
  BY DEF Inv
<1> QED
  BY <1>1, InvariantHolds, PTL

(* Wherever the driver is, whatever interrupted it, the last event it
   recorded is one that its position in the code implies. *)
THEOREM PositionIsRecorded == Spec => []DriverFollowsLog
<1>1. Inv => DriverFollowsLog
  BY DEF Inv
<1> QED
  BY <1>1, InvariantHolds, PTL

(* The log is a grammatical turn history at every moment, whatever clients
   cancel, listeners throw, tools do or crashes cut off.  (turn, step and
   openTurnClosers together.) *)
THEOREM LogIsWellFormed == Spec => []LogWellFormed
<1>1. Inv => LogWellFormed
  BY DEF Inv, DriverFollowsLog, LogFits, LogWellFormed
<1> QED
  BY <1>1, InvariantHolds, PTL

(* The turn and step a reader of the log takes to be open are the driver's. *)
THEOREM LogAgrees == Spec => []LogAgreesWithDriver
<1>1. Inv => LogAgreesWithDriver
  BY InvAgrees
<1> QED
  BY <1>1, InvariantHolds, PTL

-------------------------------------------------------------------------------
(* The two hold in every state. *)
LEMMA CountsHold == Spec => [](Inv /\ CutOffsCount /\ CauseCounts)
<1>1. Init => CutOffsCount /\ CauseCounts
  <2> SUFFICES ASSUME Init
               PROVE  CutOffsCount /\ CauseCounts
    OBVIOUS
  <2>1. phase.cause = "none" /\ ~phase.wakeRequested /\ pc = "off" /\ log = << >>
    BY DEF Init, IdlePhase
  <2>2. Len(log) = 0
    BY <2>1
  <2>3. CutOffsCount
    BY <2>1, <2>2 DEF CutOffsCount, TurnPoints, StepPoints
  <2> QED
    BY <2>1, <2>3 DEF CauseCounts
<1>2. Inv /\ Inv' /\ CutOffsCount /\ CauseCounts /\ [Next]_vars => CutOffsCount' /\ CauseCounts'
  BY StepsFaithfully, StepsCount DEF Faithful
<1> QED
  BY <1>1, <1>2, InvariantHolds, PTL DEF Spec

(* Once the open turn is aborted it does no new work: it opens no step, begins no
   model attempt, settles no complete answer and starts no call it does not answer
   as aborted at once.  Input still enters the log only in a step whose attempt had
   begun, and that attempt then asks no model.  (The checks of the signal in turn,
   step and runGroup; the appends of step between two of them.) *)
THEOREM AbortsSilence == Spec => AbortSilencesTurn
<1>1. Inv /\ Inv' /\ CutOffsCount /\ [Next]_vars => Silenced /\ AsksNoModel
  BY StepsFaithfully, AbortAsksNoModel DEF Faithful, Inv
<1>2. Spec => [][Silenced /\ AsksNoModel]_vars
  BY <1>1, CountsHold, PTL DEF Spec
<1>3. (Silenced /\ AsksNoModel) <=>
        (Aborted /\ pc \in TurnPoints =>
           /\ attempts' <= attempts
           /\ pc' = "streaming" => pc = "streaming"
           /\ \A e \in Appended :
             /\ e.type \notin {"turn/start", "step/start"}
             /\ e.type = "user/message" => attempts > 0
             /\ e.type = "assistant/message" => e.finish = "interrupted"
             /\ e.type = "tool/call" =>
                  \E f \in Appended : /\ f.type = "tool/result" /\ f.call = e.call
                                      /\ f.result = "aborted")
  BY DEF Silenced, AsksNoModel
<1> QED
  BY <1>2, <1>3, PTL DEF AbortSilencesTurn

(* What a turn records as its end is true: one that was aborted says so, and by
   whom, unless its end was decided when the abort came - it was reporting an error,
   or the answer of its pre-step was on its way - one that was not aborted never says
   it was, and one in which an answer hit the output ceiling never counts as
   completed.  (turn's exits and its finally, turnEnds.) *)
THEOREM TurnEndsAreHonest == Spec => TurnEndIsHonest
<1>1. Inv /\ Inv' /\ CutOffsCount /\ [Next]_vars => Honest
  BY StepsFaithfully DEF Faithful
<1>2. Spec => [][Honest]_vars
  BY <1>1, CountsHold, PTL DEF Spec
<1> QED
  BY <1>2 DEF TurnEndIsHonest, Honest

(* An activity that disposal aborted is the last one: no turn is opened in it and
   nothing replaces it, but for a turn that ended without seeing the disposal.
   (wakeDriver, kick, the end of a maintenance job.) *)
THEOREM DisposalIsLast == Spec => DisposalOpensNothing
<1>1. Inv /\ CauseCounts /\ [Next]_vars => OpensNothing
  BY StepsCount
<1>2. Spec => [][OpensNothing]_vars
  BY <1>1, CountsHold, PTL DEF Spec
<1> QED
  BY <1>2 DEF DisposalOpensNothing, OpensNothing

-------------------------------------------------------------------------------
(* The answers to the calls of the log, and those of the running batch. *)

(* While tools run, the message that asked for them asked for the calls of the
   batch and is answered as far as the batch has committed; when a step returns, all
   its calls are answered. *)
ToolsFollowLog ==
  /\ pc = "tools" =>
       /\ batch.done <= batch.started /\ batch.started <= batch.asked
       /\ \A i \in 1 .. Len(log) : Asks(log, i) /\ SameStep(log[i], LastEvent(log)) =>
            log[i].calls = batch.asked /\ AnsweredTo(log, i, batch.done)
  /\ pc = "returned" =>
       \A i \in 1 .. Len(log) : Asks(log, i) /\ SameStep(log[i], LastEvent(log)) =>
         AnsweredTo(log, i, log[i].calls)

AnswersCount == AnswersFit(log) /\ ToolsFollowLog

(* What a step records follows the last event, as the log it leaves is grammatical. *)
LEMMA RecordedFollows ==
  ASSUME Inv, Inv', NEW e \in Event, Record(<<e>>), log # << >>
  PROVE  log' = Append(log, e) /\ Follows(LastEvent(log), e)
<1>1. log \in Seq(Event) /\ WellFormed(log')
  BY DEF Inv, TypeOK, DriverFollowsLog, LogFits
<1>2. log' = Append(log, e) /\ Len(log) \in 1 .. Len(log') - 1
  BY <1>1 DEF Record
<1>3. log'[Len(log)] = LastEvent(log) /\ log'[Len(log) + 1] = e
  BY <1>1, <1>2 DEF LastEvent
<1> QED
  BY <1>1, <1>2, <1>3 DEF WellFormed

(* A step that records nothing. *)
LEMMA KeepsAnswers ==
  ASSUME AnswersCount, log' = log,
         pc' \in {"tools", "returned"} => pc' = pc /\ batch' = batch
  PROVE  AnswersCount'
  BY DEF AnswersCount, ToolsFollowLog

(* A step that records one event which neither closes a step nor answers a call. *)
LEMMA RecordsQuietly ==
  ASSUME Inv, Inv', AnswersCount, NEW e \in Event, Record(<<e>>), pc' \notin {"tools", "returned"},
         e.type \notin {"step/end", "tool/result"}
  PROVE  AnswersCount'
<1>1. log \in Seq(Event) /\ WellFormed(log')
  BY DEF Inv, TypeOK, DriverFollowsLog, LogFits
<1>2. CASE log = << >>
  <2>1. log' = <<e>> /\ Len(log') = 1 /\ log'[1] = e
    BY <1>1, <1>2 DEF Record
  <2>2. log' = <<TurnStart(1)>>
    BY <1>1, <2>1 DEF WellFormed
  <2> QED
    BY <2>2, FirstTurnAnswers DEF AnswersCount, ToolsFollowLog
<1>3. CASE log # << >>
  <2>1. log' = Append(log, e) /\ Follows(LastEvent(log), e)
    BY <1>3, RecordedFollows
  <2>2. AnswersFit(log')
    BY <1>1, <1>3, <2>1, AppendAnswers DEF AnswersCount
  <2> QED
    BY <2>2 DEF AnswersCount, ToolsFollowLog
<1> QED
  BY <1>2, <1>3

(* A step that closes the open step, all of whose calls are answered. *)
LEMMA ClosesStep ==
  ASSUME Inv, Inv', AnswersCount, NEW t \in Nat, NEW s \in Nat, Record(<<StepEnd(t, s)>>),
         pc' \notin {"tools", "returned"}, log # << >>,
         \A i \in 1 .. Len(log) : Asks(log, i) /\ SameStep(log[i], LastEvent(log)) =>
           AnsweredTo(log, i, log[i].calls)
  PROVE  AnswersCount'
<1> DEFINE e == StepEnd(t, s)
<1>1. log \in Seq(Event) /\ e \in Event /\ e.type = "step/end"
  BY EventsAreEvents DEF Inv, TypeOK, StepEnd
<1>2. Record(<<e>>)
  OBVIOUS
<1> HIDE DEF e
<1>3. log' = Append(log, e) /\ Follows(LastEvent(log), e)
  BY <1>1, <1>2, RecordedFollows
<1>4. SameStep(LastEvent(log), e)
  BY <1>1, <1>3 DEF Follows
<1>5. \A i \in 1 .. Len(log) : SameStep(log[i], e) => SameStep(log[i], LastEvent(log))
  BY <1>4 DEF SameStep
<1>6. AnswersFit(log')
  BY <1>1, <1>3, <1>5, AppendAnswers DEF AnswersCount
<1> QED
  BY <1>6 DEF AnswersCount, ToolsFollowLog

(* Where repair finds no call unanswered, all calls of the open step are answered. *)
LEMMA NoneUnanswered ==
  ASSUME TypeOK, AnswersCount, log # << >>, LastEvent(log).type \in InStep, Unanswered(log) = {},
         NEW i \in 1 .. Len(log), Asks(log, i), SameStep(log[i], LastEvent(log))
  PROVE  AnsweredTo(log, i, log[i].calls)
<1>1. log \in Seq(Event) /\ log[i].calls \in Nat
  BY EventFields DEF TypeOK, Asks, Is
<1>2. PICK d \in 0 .. log[i].calls : AnsweredTo(log, i, d)
  BY DEF AnswersCount, AnswersFit, Answering
<1>3. \A c \in 1 .. log[i].calls : <<i, c>> \in Unanswered(log) <=> c > d
  <2>1. d \in Nat /\ InOrder(log)
    BY <1>1 DEF AnswersCount, AnswersFit
  <2> QED
    BY <1>1, <1>2, <2>1, AwaitsUnanswered
<1>4. d = log[i].calls
  <2>1. CASE d < log[i].calls
    <3>1. log[i].calls \in 1 .. log[i].calls /\ log[i].calls > d
      BY <1>1, <2>1
    <3> QED
      BY <1>3, <3>1
  <2> QED
    BY <1>1, <2>1
<1> QED
  BY <1>2, <1>4

(* A step that closes the open step once repair finds no call unanswered. *)
LEMMA ClosesRepaired ==
  ASSUME Inv, Inv', AnswersCount, NEW t \in Nat, NEW s \in Nat, Record(<<StepEnd(t, s)>>),
         pc' \notin {"tools", "returned"}, Unanswered(log) = {}
  PROVE  AnswersCount'
<1> DEFINE e == StepEnd(t, s)
<1>1. log \in Seq(Event) /\ e \in Event /\ e.type = "step/end" /\ WellFormed(log') /\ TypeOK
  BY EventsAreEvents DEF Inv, TypeOK, StepEnd, DriverFollowsLog, LogFits
<1>2. Record(<<e>>)
  OBVIOUS
<1> HIDE DEF e
<1>3. log # << >>
  <2> SUFFICES ASSUME log = << >>
               PROVE  FALSE
    OBVIOUS
  <2>1. log' = <<e>> /\ Len(log') = 1 /\ log'[1] = e
    BY <1>1, <1>2 DEF Record
  <2> QED
    BY <1>1, <2>1 DEF WellFormed, TurnStart
<1>4. Follows(LastEvent(log), e)
  BY <1>1, <1>2, <1>3, RecordedFollows
<1>5. LastEvent(log).type \in InStep
  BY <1>1, <1>4 DEF Follows
<1> QED
  BY <1>1, <1>3, <1>5, NoneUnanswered, ClosesStep

(* A step that gives the next unanswered call the result repair has for it. *)
LEMMA RecoversCall ==
  ASSUME Inv, Inv', AnswersCount, RecoverNext, pc' \notin {"tools", "returned"}
  PROVE  AnswersCount'
<1>1. log \in Seq(Event) /\ TypeOK /\ LogFits(log)
  BY DEF Inv, TypeOK, DriverFollowsLog
<1>2. PICK r \in Unanswered(log) :
        IsNextUnanswered(log, r) /\ Record(<<RecoveryResult(log, r[1], r[2])>>)
  BY DEF RecoverNext
<1> DEFINE e == RecoveryResult(log, r[1], r[2])
           i == r[1]
<1>3. /\ e \in Event /\ e.type = "tool/result" /\ SameStep(log[i], e) /\ e.call = r[2]
      /\ i \in PendingRequests(log) /\ i \in 1 .. Len(log) /\ log[i].calls > 0
  BY <1>1, RecoveryResultIsEvent DEF RecoveryResult, ToolResult
<1>4. r[2] \in CallIndex /\ r[2] <= log[i].calls /\ r = <<i, r[2]>>
  BY DEF Unanswered
<1>5. Record(<<e>>) /\ log # << >>
  BY <1>1, <1>2, RecoveryFits
<1> HIDE DEF e, i
<1>6. log' = Append(log, e) /\ Follows(LastEvent(log), e)
  BY <1>3, <1>5, RecordedFollows
<1>7. LastEvent(log).type \in InStep /\ SameStep(LastEvent(log), e)
  BY <1>3, <1>6 DEF Follows, Asking, InStep
<1>8. Asks(log, i) /\ SameStep(log[i], LastEvent(log)) /\ log[i].calls \in Nat
  <2>1. log[i].type = "assistant/message" /\ log[i] \in Event
    BY <1>1, <1>3 DEF PendingRequests, Latest, Is
  <2> QED
    BY <1>3, <1>7, <2>1, EventFields DEF Asks, Is, SameStep
<1>9. PICK d \in 0 .. log[i].calls : AnsweredTo(log, i, d)
  BY <1>3, <1>8 DEF AnswersCount, AnswersFit, Answering
<1>10. \A c \in 1 .. log[i].calls : <<i, c>> \in Unanswered(log) <=> c > d
  BY <1>1, <1>3, <1>5, <1>7, <1>8, <1>9, AwaitsUnanswered DEF AnswersCount, AnswersFit
<1>11. r[2] = d + 1 /\ r[2] \in 1 .. log[i].calls
  <2>1. r[2] \in 1 .. log[i].calls
    BY <1>4, <1>8, MaxCallAssumption DEF CallIndex
  <2>2. r[2] > d
    BY <1>4, <1>10, <2>1
  <2>3. d + 1 \in 1 .. log[i].calls /\ d + 1 > d
    BY <1>8, <2>1, <2>2
  <2>4. <<i, d + 1>> \in Unanswered(log)
    BY <1>10, <2>3
  <2>5. ~Before(<<i, d + 1>>, r)
    BY <1>2, <2>4 DEF IsNextUnanswered
  <2>6. ~(d + 1 < r[2])
    BY <2>5 DEF Before, i
  <2> QED
    BY <1>9, <2>1, <2>2, <2>6
<1>12. ASSUME NEW j \in 1 .. Len(log), Asks(log, j), SameStep(log[j], e)
       PROVE  e.call \in 1 .. log[j].calls /\ AnsweredTo(log, j, e.call - 1)
  <2>1. SameStep(log[j], log[i])
    BY <1>3, <1>12 DEF SameStep
  <2>2. j = i
    BY <1>3, <1>8, <1>12, <2>1 DEF AnswersCount, AnswersFit, OneAnswer
  <2>3. e.call - 1 = d
    BY <1>3, <1>8, <1>11
  <2> QED
    BY <1>3, <1>9, <1>11, <2>2, <2>3
<1>13. AnswersFit(log')
  BY <1>1, <1>3, <1>5, <1>6, <1>12, AppendAnswers DEF AnswersCount
<1> QED
  BY <1>13 DEF AnswersCount, ToolsFollowLog

(* A step that settles an answer without calls. *)
LEMMA SettlesStep ==
  ASSUME Inv, Inv', AnswersCount, NEW f \in FinishKind \ {"tool-calls"},
         Record(<<Assistant(turn, step, f, 0)>>), pc' # "tools"
  PROVE  AnswersCount'
<1> DEFINE a == Assistant(turn, step, f, 0)
<1>1. a \in Event /\ log \in Seq(Event) /\ WellFormed(log')
  BY PhaseFields, EventsAreEvents DEF Inv, TypeOK, DriverFollowsLog, LogFits
<1>2. a.type = "assistant/message" /\ a.calls = 0 /\ a.turn = turn /\ a.step = step
  BY DEF Assistant
<1>3. Record(<<a>>)
  OBVIOUS
<1> HIDE DEF a
<1>4. log # << >>
  <2> SUFFICES ASSUME log = << >>
               PROVE  FALSE
    OBVIOUS
  <2>1. log' = <<a>> /\ Len(log') = 1 /\ log'[1] = a
    BY <1>1, <1>3 DEF Record
  <2> QED
    BY <1>1, <1>2, <2>1 DEF WellFormed, TurnStart
<1>5. log' = Append(log, a) /\ Follows(LastEvent(log), a)
  BY <1>1, <1>3, <1>4, RecordedFollows
<1>6. /\ Len(log') = Len(log) + 1 /\ Len(log) \in Nat /\ log'[Len(log) + 1] = a
      /\ \A i \in 1 .. Len(log) : log'[i] = log[i]
      /\ LastEvent(log') = a
  BY <1>1, <1>5, AppendLooks
<1>7. AnswersFit(log')
  BY <1>1, <1>2, <1>4, <1>5, AppendAnswers DEF AnswersCount
<1>8. ASSUME NEW i \in 1 .. Len(log'), Asks(log', i), SameStep(log'[i], LastEvent(log'))
      PROVE  FALSE
  <2>1. CASE i = Len(log) + 1
    BY <1>2, <1>6, <1>8, <2>1 DEF Asks
  <2>2. CASE i \in 1 .. Len(log)
    <3>1. LastEvent(log).type \in Unsettled /\ SameStep(LastEvent(log), a)
      BY <1>2, <1>5 DEF Follows, Unsettled
    <3>2. SameStep(log[i], LastEvent(log)) /\ Is(log, i, {"assistant/message"})
      BY <1>2, <1>6, <1>8, <2>2, <3>1 DEF SameStep, Asks, Is
    <3> QED
      BY <2>2, <3>1, <3>2 DEF AnswersCount, AnswersFit, OneAnswer, Is
  <2> QED
    BY <1>6, <2>1, <2>2
<1> QED
  BY <1>7, <1>8 DEF AnswersCount, ToolsFollowLog

(* The answer that asks for tools: none of its calls is answered. *)
LEMMA AsksForTools ==
  ASSUME Inv, Inv', AnswersCount, NEW n \in CallIndex, StreamAsksForTools(n)
  PROVE  AnswersCount'
<1> DEFINE e == Assistant(turn, step, "tool-calls", n)
<1>1. log \in Seq(Event) /\ e \in Event /\ Record(<<e>>) /\ n \in Nat
  BY PhaseFields, EventsAreEvents, MaxCallAssumption DEF Inv, TypeOK, StreamAsksForTools, CallIndex
<1>2. batch'.asked = n /\ batch'.started = 0 /\ batch'.done = 0 /\ pc' = "tools"
  BY DEF StreamAsksForTools, Tools!Begin
<1>3. e.type = "assistant/message" /\ e.calls = n /\ SameStep(e, e)
  BY DEF Assistant, SameStep
<1> HIDE DEF e
<1>4. log # << >>
  BY DEF Inv, DriverFollowsLog, Position, StreamAsksForTools, At, BeforeAnswer, LastIs
<1>5. log' = Append(log, e) /\ Follows(LastEvent(log), e)
  BY <1>1, <1>4, RecordedFollows
<1>6. /\ Len(log') = Len(log) + 1 /\ Len(log) \in Nat
      /\ LastEvent(log') = e /\ log'[Len(log) + 1] = e
  BY <1>1, <1>5, AppendLooks
<1>7. /\ AnswersFit(log')
      /\ Asks(log', Len(log) + 1) => AnsweredTo(log', Len(log) + 1, 0)
  BY <1>1, <1>3, <1>4, <1>5, AppendAnswers DEF AnswersCount
<1>8. Asks(log', Len(log) + 1) /\ Len(log) + 1 \in 1 .. Len(log')
  BY <1>1, <1>3, <1>6, MaxCallAssumption DEF Asks, Is, CallIndex
<1>9. ASSUME NEW i \in 1 .. Len(log'), Asks(log', i), SameStep(log'[i], LastEvent(log'))
      PROVE  log'[i].calls = n /\ AnsweredTo(log', i, 0)
  <2>1. i = Len(log) + 1
    BY <1>6, <1>7, <1>8, <1>9 DEF AnswersFit, OneAnswer
  <2> QED
    BY <1>3, <1>6, <1>7, <1>8, <2>1
<1>10. ToolsFollowLog'
  BY <1>1, <1>2, <1>9 DEF ToolsFollowLog
<1> QED
  BY <1>7, <1>10 DEF AnswersCount

(* The start of a call. *)
LEMMA StartsCall ==
  ASSUME Inv, Inv', AnswersCount, ToolStart
  PROVE  AnswersCount'
<1> DEFINE e == ToolCall(turn, step, batch.started + 1)
<1>0. /\ batch.started \in Nat /\ batch.asked \in Nat /\ batch.done \in Nat
      /\ batch.asked <= MaxCall
      /\ batch.started < batch.asked /\ batch \in BatchType
  <2>1. TypeOK /\ batch \in BatchType
    BY DEF Inv, TypeOK, Tools!TypeOK, BatchType
  <2> QED
    BY <2>1, BatchFields DEF ToolStart, Tools!Start
<1>1. log \in Seq(Event) /\ e \in Event /\ Record(<<e>>)
  <2>1. batch.started + 1 \in CallIndex
    BY <1>0, MaxCallAssumption DEF CallIndex
  <2> QED
    BY <2>1, PhaseFields, EventsAreEvents DEF Inv, TypeOK, ToolStart
<1>2. batch'.asked = batch.asked /\ batch'.started = batch.started + 1 /\ batch'.done = batch.done
  BY <1>0 DEF ToolStart, Tools!Start, BatchType
<1>3. e.type = "tool/call"
  BY DEF ToolCall
<1> HIDE DEF e
<1>4. log # << >> /\ pc = "tools" /\ pc' = "tools"
  BY DEF Inv, DriverFollowsLog, Position, ToolStart, At, LastIs
<1>5. log' = Append(log, e) /\ Follows(LastEvent(log), e)
  BY <1>1, <1>4, RecordedFollows
<1>6. /\ Len(log') = Len(log) + 1 /\ Len(log) \in Nat
      /\ LastEvent(log') = e /\ log'[Len(log) + 1] = e
      /\ \A i \in 1 .. Len(log) : log'[i] = log[i]
  BY <1>1, <1>5, AppendLooks
<1>7. AnswersFit(log')
  BY <1>1, <1>3, <1>4, <1>5, AppendAnswers DEF AnswersCount
<1>8. ASSUME NEW i \in 1 .. Len(log'), Asks(log', i), SameStep(log'[i], LastEvent(log'))
      PROVE  log'[i].calls = batch.asked /\ AnsweredTo(log', i, batch.done)
  <2>1. i \in 1 .. Len(log) /\ Asks(log, i) /\ SameStep(log[i], e)
    BY <1>3, <1>6, <1>8 DEF Asks, Is
  <2>2. SameStep(log[i], LastEvent(log))
    BY <1>3, <1>5, <2>1 DEF Follows, SameStep
  <2>3. log[i].calls = batch.asked /\ AnsweredTo(log, i, batch.done)
    BY <1>4, <2>1, <2>2 DEF AnswersCount, ToolsFollowLog
  <2> QED
    BY <1>0, <1>1, <1>3, <1>5, <1>6, <2>1, <2>3, AnsweredStays
<1>9. ToolsFollowLog'
  BY <1>0, <1>2, <1>4, <1>8 DEF ToolsFollowLog, AnswersCount
<1> QED
  BY <1>7, <1>9 DEF AnswersCount

(* The result of the next call. *)
LEMMA CommitsResult ==
  ASSUME Inv, Inv', AnswersCount, ToolCommit
  PROVE  AnswersCount'
<1> DEFINE e == ToolResult(turn, step, batch.done + 1, "ok")
<1>1. /\ batch.started \in Nat /\ batch.asked \in Nat /\ batch.done \in Nat
      /\ batch.asked <= MaxCall
      /\ batch.done < batch.started /\ batch \in BatchType
  <2>1. TypeOK /\ batch \in BatchType
    BY DEF Inv, TypeOK, Tools!TypeOK, BatchType
  <2> QED
    BY <2>1, BatchFields DEF ToolCommit, Tools!Commit
<1>2. log # << >> /\ pc = "tools" /\ pc' = "tools"
  BY DEF Inv, DriverFollowsLog, Position, ToolCommit, At, LastIs
<1>3. batch.started <= batch.asked
  BY <1>2 DEF AnswersCount, ToolsFollowLog
<1>4. log \in Seq(Event) /\ e \in Event /\ Record(<<e>>)
  <2>1. batch.done + 1 \in CallIndex
    BY <1>1, <1>3, MaxCallAssumption DEF CallIndex
  <2> QED
    BY <2>1, PhaseFields, EventsAreEvents DEF Inv, TypeOK, ToolCommit, ResultKind
<1>5. batch'.asked = batch.asked /\ batch'.started = batch.started /\ batch'.done = batch.done + 1
  BY <1>1 DEF ToolCommit, Tools!Commit, BatchType
<1>6. e.type = "tool/result" /\ e.call = batch.done + 1 /\ e.call - 1 = batch.done
  BY <1>1 DEF ToolResult
<1> HIDE DEF e
<1>7. log' = Append(log, e) /\ Follows(LastEvent(log), e)
  BY <1>4, <1>2, RecordedFollows
<1>8. /\ Len(log') = Len(log) + 1 /\ Len(log) \in Nat
      /\ LastEvent(log') = e /\ log'[Len(log) + 1] = e
      /\ \A i \in 1 .. Len(log) : log'[i] = log[i]
  BY <1>4, <1>7, AppendLooks
<1>9. ASSUME NEW i \in 1 .. Len(log), Asks(log, i), SameStep(log[i], e)
      PROVE  /\ log[i].calls = batch.asked /\ AnsweredTo(log, i, e.call - 1)
             /\ e.call \in 1 .. log[i].calls
  <2>1. SameStep(log[i], LastEvent(log))
    BY <1>6, <1>7, <1>9 DEF Follows, SameStep
  <2>2. log[i].calls = batch.asked /\ AnsweredTo(log, i, batch.done)
    BY <1>2, <1>9, <2>1 DEF AnswersCount, ToolsFollowLog
  <2> QED
    BY <1>1, <1>6, <1>3, <2>2
<1>10. AnswersFit(log')
  BY <1>4, <1>6, <1>2, <1>7, <1>9, AppendAnswers DEF AnswersCount
<1>11. ASSUME NEW i \in 1 .. Len(log'), Asks(log', i), SameStep(log'[i], LastEvent(log'))
      PROVE  log'[i].calls = batch.asked /\ AnsweredTo(log', i, batch.done + 1)
  <2>1. i \in 1 .. Len(log) /\ Asks(log, i) /\ SameStep(log[i], e) /\ SameStep(e, log[i])
    BY <1>6, <1>8, <1>11 DEF Asks, Is, SameStep
  <2>2. /\ log[i].calls = batch.asked /\ AnsweredTo(log, i, e.call - 1)
        /\ e.call \in 1 .. log[i].calls
    BY <1>9, <2>1
  <2>3. AnsweredTo(Append(log, e), i, e.call)
    BY <1>1, <1>4, <1>6, <2>1, <2>2, AnsweredNext
  <2> QED
    BY <1>6, <1>7, <1>8, <2>1, <2>2, <2>3
<1>12. ToolsFollowLog'
  BY <1>1, <1>5, <1>2, <1>11, <1>3 DEF ToolsFollowLog
<1> QED
  BY <1>10, <1>12 DEF AnswersCount

(* The calls an aborted batch never started. *)
LEMMA SkipsCalls ==
  ASSUME Inv, Inv', AnswersCount, ToolSkip
  PROVE  AnswersCount'
<1> DEFINE s == Skipped
           d == batch.started
           n == batch.asked
<1>1. TypeOK /\ batch \in BatchType /\ log \in Seq(Event) /\ pc = "tools" /\ Record(s)
  BY DEF Inv, TypeOK, Tools!TypeOK, BatchType, ToolSkip, At
<1>2. d \in Nat /\ n \in Nat /\ d < n /\ batch.done = d
  BY <1>1, BatchFields DEF ToolSkip, Tools!Skip
<1>3. batch'.asked = n /\ batch'.started = n /\ batch'.done = n /\ pc' = "tools"
  BY <1>1 DEF ToolSkip, Tools!Skip, BatchType, At
<1>4. /\ log # << >>
      /\ Asking(LastEvent(log)) \/ LastEvent(log).type \in ToolEvent
      /\ LastEvent(log).turn = turn /\ LastEvent(log).step = step
  BY <1>1 DEF Inv, DriverFollowsLog, Position, LastIs
<1>5. s \in Seq(Event) /\ Len(s) = 2 * (n - d)
  BY <1>1, <1>2, SkippedAreEvents
<1>6. \A p \in 1 .. Len(s) : s[p].type \in ToolEvent /\ SameStep(s[p], LastEvent(log))
  BY <1>1, <1>2, <1>4, SkippedAreToolEvents DEF SameStep
<1>7. /\ \A c \in d + 1 .. n : s[2 * (c - d)].type = "tool/result" /\ s[2 * (c - d)].call = c
      /\ \A p \in 1 .. Len(s) : s[p].type = "tool/result" => \E c \in d + 1 .. n : p = 2 * (c - d)
  <2>1. /\ \A c : ToolCall(turn, step, c).type = "tool/call"
        /\ \A c : /\ ToolResult(turn, step, c, "aborted").type = "tool/result"
                  /\ ToolResult(turn, step, c, "aborted").call = c
    BY DEF ToolCall, ToolResult
  <2>2. \A p \in 1 .. 2 * (n - d) :
          s[p] = LET c == d + (p + 1) \div 2
                 IN IF p % 2 = 1 THEN ToolCall(turn, step, c)
                    ELSE ToolResult(turn, step, c, "aborted")
    BY DEF Skipped
  <2> HIDE DEF s, n, d
  <2>3. ASSUME NEW c \in d + 1 .. n
        PROVE  s[2 * (c - d)].type = "tool/result" /\ s[2 * (c - d)].call = c
    <3>1. /\ 2 * (c - d) \in 1 .. 2 * (n - d) /\ (2 * (c - d)) % 2 # 1
          /\ d + (2 * (c - d) + 1) \div 2 = c
      BY <1>2
    <3>2. s[2 * (c - d)] = ToolResult(turn, step, c, "aborted")
      BY <2>2, <3>1
    <3> QED
      BY <2>1, <3>2
  <2>4. ASSUME NEW p \in 1 .. Len(s), s[p].type = "tool/result"
        PROVE  \E c \in d + 1 .. n : p = 2 * (c - d)
    <3>1. p \in 1 .. 2 * (n - d)
      BY <1>5
    <3>2. p % 2 # 1
      <4> SUFFICES ASSUME p % 2 = 1
                   PROVE  FALSE
        OBVIOUS
      <4>1. s[p] = ToolCall(turn, step, d + (p + 1) \div 2)
        BY <2>2, <3>1
      <4> QED
        BY <2>1, <2>4, <4>1
    <3>3. d + p \div 2 \in d + 1 .. n /\ p = 2 * ((d + p \div 2) - d)
      BY <1>2, <3>1, <3>2
    <3> QED
      BY <3>3
  <2> QED
    BY <2>3, <2>4
<1>8. log' = log \o s
  BY <1>1 DEF Record
<1> HIDE DEF s, d, n
<1>9. ASSUME NEW i \in 1 .. Len(log), Asks(log, i), SameStep(log[i], LastEvent(log))
      PROVE  log[i].calls = n /\ AnsweredTo(log \o s, i, n)
  <2>1. log[i].calls = n /\ AnsweredTo(log, i, d)
    BY <1>1, <1>2, <1>9 DEF AnswersCount, ToolsFollowLog, n
  <2> DEFINE at == [c \in d + 1 .. n |-> 2 * (c - d)]
  <2>2. \A c \in d + 1 .. n :
          /\ 2 * (c - d) \in 1 .. Len(s) /\ at[c] = 2 * (c - d)
          /\ \A b \in d + 1 .. c - 1 : b \in d + 1 .. n /\ 2 * (b - d) < 2 * (c - d)
    BY <1>2, <1>5
  <2>3. at \in [d + 1 .. n -> 1 .. Len(s)]
    BY <2>2
  <2> HIDE DEF at
  <2>4. ASSUME NEW c \in d + 1 .. n
        PROVE  /\ s[at[c]].type = "tool/result" /\ SameStep(s[at[c]], log[i]) /\ s[at[c]].call = c
               /\ \A b \in d + 1 .. c - 1 : at[b] < at[c]
    BY <1>6, <1>7, <1>9, <2>2 DEF SameStep
  <2>5. \A p \in 1 .. Len(s) : s[p].type = "tool/result" => \E c \in d + 1 .. n : p = at[c]
    BY <1>7, <2>2
  <2>6. AnsweredTo(log \o s, i, log[i].calls)
    <3>1. /\ log[i].calls \in Nat /\ at \in [d + 1 .. log[i].calls -> 1 .. Len(s)]
          /\ \A c \in d + 1 .. log[i].calls :
               /\ s[at[c]].type = "tool/result" /\ SameStep(s[at[c]], log[i]) /\ s[at[c]].call = c
               /\ \A b \in d + 1 .. c - 1 : at[b] < at[c]
          /\ \A p \in 1 .. Len(s) : s[p].type = "tool/result" =>
               \E c \in d + 1 .. log[i].calls : p = at[c]
      BY <1>2, <2>1, <2>3, <2>4, <2>5
    <3> QED
      BY <1>1, <1>2, <1>5, <2>1, <3>1, AnsweredConcat
  <2> QED
    BY <2>1, <2>6
<1>10. s # << >> /\ LastEvent(log).type \in InStep
  BY <1>2, <1>4, <1>5 DEF Asking, InStep, ToolEvent
<1>11. AnswersFit(log')
  <2>1. \A i \in 1 .. Len(log) : Asks(log, i) /\ SameStep(log[i], LastEvent(log)) =>
          AnsweredTo(log \o s, i, log[i].calls)
    BY <1>9
  <2>2. AnswersFit(log \o s)
    BY <1>1, <1>4, <1>5, <1>6, <1>10, <2>1, ConcatAnswers DEF AnswersCount
  <2> QED
    BY <1>8, <2>2
<1>12. ASSUME NEW i \in 1 .. Len(log'), Asks(log', i), SameStep(log'[i], LastEvent(log'))
       PROVE  log'[i].calls = n /\ AnsweredTo(log', i, n)
  <2>1. /\ Len(log') = Len(log) + Len(s) /\ Len(log) \in Nat /\ Len(s) \in Nat \ {0}
        /\ \A j \in 1 .. Len(log) : log'[j] = log[j]
        /\ \A p \in 1 .. Len(s) : log'[Len(log) + p] = s[p]
    <3> DEFINE k == log \o s
    <3>1. Len(k) = Len(log) + Len(s) /\ Len(log) \in Nat /\ Len(s) \in Nat \ {0}
      BY <1>1, <1>5, <1>10
    <3>2. \A j \in 1 .. Len(log) : k[j] = log[j]
      BY <1>1, <1>5
    <3>3. \A p \in 1 .. Len(s) : k[Len(log) + p] = s[p]
      BY <1>1, <1>5
    <3>4. log' = k
      BY <1>8
    <3> QED
      BY <3>1, <3>2, <3>3, <3>4
  <2>2. ASSUME NEW j \in 1 .. Len(log'), j \notin 1 .. Len(log)
        PROVE  log'[j].type \in ToolEvent /\ SameStep(log'[j], LastEvent(log))
    <3>1. j - Len(log) \in 1 .. Len(s) /\ Len(log) + (j - Len(log)) = j
      BY <2>1, <2>2
    <3> QED
      BY <1>6, <2>1, <3>1
  <2>3. SameStep(LastEvent(log'), LastEvent(log))
    <3>1. Len(log') \in 1 .. Len(log') /\ Len(log') \notin 1 .. Len(log)
      BY <2>1
    <3> QED
      BY <2>2, <3>1 DEF LastEvent
  <2>4. i \in 1 .. Len(log)
    BY <1>12, <2>2 DEF Asks, Is, ToolEvent
  <2>5. Asks(log, i) /\ SameStep(log[i], LastEvent(log)) /\ log'[i] = log[i]
    BY <1>12, <2>1, <2>3, <2>4 DEF Asks, Is, SameStep
  <2> QED
    BY <1>8, <1>9, <2>4, <2>5
<1>13. ToolsFollowLog'
  BY <1>2, <1>3, <1>12 DEF ToolsFollowLog
<1> QED
  BY <1>11, <1>13 DEF AnswersCount

(* The end of a batch: all its calls are answered. *)
LEMMA FinishesTools ==
  ASSUME Inv, AnswersCount, ToolsFinish
  PROVE  AnswersCount'
<1>1. pc = "tools" /\ batch.done = batch.asked /\ pc' = "returned" /\ log' = log
  BY RecordNothing DEF ToolsFinish, At, Tools!Finish, StepReturns, Inv
<1>2. \A i \in 1 .. Len(log) : Asks(log, i) /\ SameStep(log[i], LastEvent(log)) =>
        AnsweredTo(log, i, log[i].calls)
  BY <1>1 DEF AnswersCount, ToolsFollowLog
<1> QED
  BY <1>1, <1>2 DEF AnswersCount, ToolsFollowLog

(* The end of a turn, and an exception. *)
LEMMA EndsTurn ==
  ASSUME Inv, Inv', AnswersCount, NEW k \in TurnEndKind,
         EndTurn(k), pc' \notin {"tools", "returned"}
  PROVE  AnswersCount'
<1> DEFINE e == TurnEnd(turn, k, IF k = "aborted" THEN phase.cause ELSE "none")
<1>1. e \in Event
  BY PhaseFields, CauseAssumption, EventsAreEvents DEF AgentCancelCause, Inv
<1>2. Record(<<e>>) /\ e.type = "turn/end"
  BY DEF EndTurn, TurnEnd
<1> HIDE DEF e
<1> QED
  BY <1>1, <1>2, RecordsQuietly

LEMMA ThrowsOn ==
  ASSUME Inv, Inv', AnswersCount, Throw
  PROVE  AnswersCount'
<1>1. CASE EndTurn("aborted") /\ pc' = "converging"
  BY <1>1, EndsTurn DEF TurnEndKind
<1>2. CASE UNCHANGED log /\ pc' = "reporting"
  BY <1>2, KeepsAnswers
<1> QED
  BY <1>1, <1>2 DEF Throw

(* Every step keeps the answers in order. *)
LEMMA StepsAnswer ==
  ASSUME Inv, Inv', AnswersCount, [Next]_vars
  PROVE  AnswersCount'
<1>1. turn \in Nat /\ step \in Nat /\ turnEnds \in TurnEndState /\ log \in Seq(Event)
  BY PhaseFields DEF Inv, TypeOK
<1>2. ASSUME NEW m \in Message, NEW t \in InboxTarget, NEW w \in BOOLEAN, Send(m, t, w)
      PROVE  AnswersCount'
  <2>1. UNCHANGED log /\ (pc' \in {"tools", "returned"} => pc' = pc /\ batch' = batch)
    BY <1>2 DEF Send, stepVars
  <2> QED
    BY <2>1, KeepsAnswers
<1>3. ASSUME NEW t \in InboxTarget, NEW m \in Message, InboxPrepend(t, m)
      PROVE  AnswersCount'
  <2>1. UNCHANGED log /\ (pc' \in {"tools", "returned"} => pc' = pc /\ batch' = batch)
    BY <1>3 DEF InboxPrepend, stepVars
  <2> QED
    BY <2>1, KeepsAnswers
<1>4. ASSUME NEW t \in InboxTarget, NEW m \in Message, NEW i \in 1 .. Len(inbox[t]),
             InboxReplace(t, i, m)
      PROVE  AnswersCount'
  <2>1. UNCHANGED log /\ (pc' \in {"tools", "returned"} => pc' = pc /\ batch' = batch)
    BY <1>4 DEF InboxReplace, stepVars
  <2> QED
    BY <2>1, KeepsAnswers
<1>5. ASSUME NEW t \in InboxTarget, NEW i \in 1 .. Len(inbox[t]), InboxRemove(t, i)
      PROVE  AnswersCount'
  <2>1. UNCHANGED log /\ (pc' \in {"tools", "returned"} => pc' = pc /\ batch' = batch)
    BY <1>5 DEF InboxRemove, stepVars
  <2> QED
    BY <2>1, KeepsAnswers
<1>6. ASSUME NEW c \in Cause, NEW k \in BOOLEAN, Cancel(c, k)
      PROVE  AnswersCount'
  <2>1. UNCHANGED log /\ (pc' \in {"tools", "returned"} => pc' = pc /\ batch' = batch)
    BY <1>6 DEF Cancel, stepVars
  <2> QED
    BY <2>1, KeepsAnswers
<1>7. ASSUME RunMaintenance
      PROVE  AnswersCount'
  <2>1. UNCHANGED log /\ (pc' \in {"tools", "returned"} => pc' = pc /\ batch' = batch)
    BY <1>7 DEF RunMaintenance, stepVars
  <2> QED
    BY <2>1, KeepsAnswers
<1>8. ASSUME FinishMaintenance
      PROVE  AnswersCount'
  <2>1. UNCHANGED log /\ (pc' \in {"tools", "returned"} => pc' = pc /\ batch' = batch)
    BY <1>8 DEF FinishMaintenance, stepVars
  <2> QED
    BY <2>1, KeepsAnswers
<1>9. ASSUME Dispose
      PROVE  AnswersCount'
  <2>1. UNCHANGED log /\ (pc' \in {"tools", "returned"} => pc' = pc /\ batch' = batch)
    BY <1>9 DEF Dispose, stepVars
  <2> QED
    BY <2>1, KeepsAnswers
<1>10. ASSUME Detach
      PROVE  AnswersCount'
  <2>1. UNCHANGED log /\ (pc' \in {"tools", "returned"} => pc' = pc /\ batch' = batch)
    BY <1>10 DEF Detach, stepVars
  <2> QED
    BY <2>1, KeepsAnswers
<1>11. ASSUME Crash
      PROVE  AnswersCount'
  <2>1. UNCHANGED log /\ (pc' \in {"tools", "returned"} => pc' = pc /\ batch' = batch)
    BY <1>11 DEF Crash
  <2> QED
    BY <2>1, KeepsAnswers
<1>12. ASSUME DropDriver
      PROVE  AnswersCount'
  <2>1. UNCHANGED log /\ (pc' \in {"tools", "returned"} => pc' = pc /\ batch' = batch)
    BY <1>12 DEF DropDriver
  <2> QED
    BY <2>1, KeepsAnswers
<1>13. ASSUME StartStream
      PROVE  AnswersCount'
  <2>1. UNCHANGED log /\ (pc' \in {"tools", "returned"} => pc' = pc /\ batch' = batch)
    BY <1>13 DEF StartStream
  <2> QED
    BY <2>1, KeepsAnswers
<1>14. ASSUME Retry
      PROVE  AnswersCount'
  <2>1. UNCHANGED log /\ (pc' \in {"tools", "returned"} => pc' = pc /\ batch' = batch)
    BY <1>14 DEF Retry
  <2> QED
    BY <2>1, KeepsAnswers
<1>15. ASSUME ToolsFail
      PROVE  AnswersCount'
  <2>1. UNCHANGED log /\ (pc' \in {"tools", "returned"} => pc' = pc /\ batch' = batch)
    BY <1>15 DEF ToolsFail
  <2> QED
    BY <2>1, KeepsAnswers
<1>16. ASSUME Converge
      PROVE  AnswersCount'
  <2>1. UNCHANGED log /\ (pc' \in {"tools", "returned"} => pc' = pc /\ batch' = batch)
    BY <1>16 DEF Converge
  <2> QED
    BY <2>1, KeepsAnswers
<1>17. ASSUME AfterTurn
      PROVE  AnswersCount'
  <2>1. UNCHANGED log /\ (pc' \in {"tools", "returned"} => pc' = pc /\ batch' = batch)
    BY <1>17 DEF AfterTurn, At
  <2> QED
    BY <2>1, KeepsAnswers
<1>18. ASSUME SendWakes
      PROVE  AnswersCount'
  <2>1. UNCHANGED log /\ (pc' \in {"tools", "returned"} => pc' = pc /\ batch' = batch)
    BY <1>18 DEF SendWakes, WakeDriver, stepVars
  <2> QED
    BY <2>1, KeepsAnswers
<1>19. ASSUME Replay
      PROVE  AnswersCount'
  <2>1. UNCHANGED log /\ (pc' \in {"tools", "returned"} => pc' = pc /\ batch' = batch)
    BY <1>19 DEF Replay, WakeDriver, stepVars
  <2> QED
    BY <2>1, KeepsAnswers
<1>20. ASSUME UNCHANGED vars
      PROVE  AnswersCount'
  <2>1. UNCHANGED log /\ (pc' \in {"tools", "returned"} => pc' = pc /\ batch' = batch)
    BY <1>20 DEF vars, stepVars
  <2> QED
    BY <2>1, KeepsAnswers
<1>21. ASSUME ClaimTurn
      PROVE  AnswersCount'
  <2>1. Throw \/ (UNCHANGED log /\ pc' \notin {"tools", "returned"})
    BY <1>21 DEF ClaimTurn
  <2> QED
    BY <2>1, ThrowsOn, KeepsAnswers
<1>22. ASSUME PreStepThrows
      PROVE  AnswersCount'
  <2>1. Throw \/ (UNCHANGED log /\ pc' \notin {"tools", "returned"})
    BY <1>22 DEF PreStepThrows
  <2> QED
    BY <2>1, ThrowsOn, KeepsAnswers
<1>23. ASSUME AfterStep
      PROVE  AnswersCount'
  <2>1. Throw \/ (UNCHANGED log /\ pc' \notin {"tools", "returned"})
    BY <1>23 DEF AfterStep, NextStep
  <2> QED
    BY <2>1, ThrowsOn, KeepsAnswers
<1>24. ASSUME StepFailed
      PROVE  AnswersCount'
  <2>1. Throw \/ (UNCHANGED log /\ pc' \notin {"tools", "returned"})
    BY <1>24 DEF StepFailed
  <2> QED
    BY <2>1, ThrowsOn, KeepsAnswers
<1>25. ASSUME StoppingThrows
      PROVE  AnswersCount'
  <2>1. Throw \/ (UNCHANGED log /\ pc' \notin {"tools", "returned"})
    BY <1>25 DEF StoppingThrows
  <2> QED
    BY <2>1, ThrowsOn, KeepsAnswers
<1>26. ASSUME PrepareFails
      PROVE  AnswersCount'
  <2>1. UNCHANGED log /\ pc' \notin {"tools", "returned"}
    <3>1. log \o << >> = log /\ Record(<< >>)
      BY <1>26 DEF Inv, TypeOK, PrepareFails, StepThrows
    <3> QED
      BY <1>26, <3>1 DEF Record, PrepareFails, StepThrows
  <2> QED
    BY <2>1, KeepsAnswers
<1>27. ASSUME DispatchFails
      PROVE  AnswersCount'
  <2>1. UNCHANGED log /\ pc' \notin {"tools", "returned"}
    <3>1. log \o << >> = log /\ Record(<< >>)
      BY <1>27 DEF Inv, TypeOK, DispatchFails, StepThrows
    <3> QED
      BY <1>27, <3>1 DEF Record, DispatchFails, StepThrows
  <2> QED
    BY <2>1, KeepsAnswers
<1>28. ASSUME GiveUp
      PROVE  AnswersCount'
  <2>1. UNCHANGED log /\ pc' \notin {"tools", "returned"}
    <3>1. log \o << >> = log /\ Record(<< >>)
      BY <1>28 DEF Inv, TypeOK, GiveUp, StepThrows
    <3> QED
      BY <1>28, <3>1 DEF Record, GiveUp, StepThrows
  <2> QED
    BY <2>1, KeepsAnswers
<1>29. ASSUME ToolsReject
      PROVE  AnswersCount'
  <2>1. UNCHANGED log /\ pc' \notin {"tools", "returned"}
    <3>1. log \o << >> = log /\ Record(<< >>)
      BY <1>29 DEF Inv, TypeOK, ToolsReject, StepThrows
    <3> QED
      BY <1>29, <3>1 DEF Record, ToolsReject, StepThrows
  <2> QED
    BY <2>1, KeepsAnswers
<1>30. ASSUME PreStepRejects \/ PreStepEnters
      PROVE  AnswersCount'
  <2>1. UNCHANGED log /\ pc' \notin {"tools", "returned"}
    BY <1>30 DEF PreStepRejects, PreStepEnters
  <2> QED
    BY <2>1, KeepsAnswers
<1>31. ASSUME Block
      PROVE  AnswersCount'
  <2>1. EndTurn("blocked") /\ pc' \notin {"tools", "returned"}
    BY <1>31 DEF Block
  <2> QED
    BY <2>1, EndsTurn DEF TurnEndKind
<1>32. ASSUME EnterAborted
      PROVE  AnswersCount'
  <2>1. Throw
    BY <1>32 DEF EnterAborted
  <2> QED
    BY <2>1, ThrowsOn
<1>33. ASSUME EndFailedTurn
      PROVE  AnswersCount'
  <2>1. EndTurn("error") /\ pc' \notin {"tools", "returned"}
    BY <1>33 DEF EndFailedTurn
  <2> QED
    BY <2>1, EndsTurn DEF TurnEndKind
<1>34. ASSUME EnterNothing
      PROVE  AnswersCount'
  <2>1. pc' \notin {"tools", "returned"} /\ \E k \in TurnEndKind : EndTurn(k)
    BY <1>34, <1>1 DEF EnterNothing, Break, TurnEndState, TurnEndKind
  <2> QED
    BY <2>1, EndsTurn
<1>35. ASSUME Stopping
      PROVE  AnswersCount'
  <2>1. pc' \notin {"tools", "returned"} /\ (UNCHANGED log \/ \E k \in TurnEndKind : EndTurn(k))
    BY <1>35, <1>1 DEF Stopping, MayStop, Break, NextStep, TurnEndState, TurnEndKind
  <2> QED
    BY <2>1, EndsTurn, KeepsAnswers
<1>36. ASSUME OpenTurnBoundary
      PROVE  AnswersCount'
  <2>1. TurnStart(turn + 1) \in Event /\ TurnStart(turn + 1).type \notin {"step/end", "tool/result"}
    BY <1>1, EventsAreEvents DEF TurnStart
  <2>2. Record(<<TurnStart(turn + 1)>>) /\ pc' \notin {"tools", "returned"}
    BY <1>36 DEF OpenTurnBoundary
  <2> QED
    BY <2>1, <2>2, RecordsQuietly
<1>37. ASSUME EnterStep
      PROVE  AnswersCount'
  <2>1. /\ StepStart(turn, step + 1) \in Event
        /\ StepStart(turn, step + 1).type \notin {"step/end", "tool/result"}
    BY <1>1, EventsAreEvents DEF StepStart
  <2>2. Record(<<StepStart(turn, step + 1)>>) /\ pc' \notin {"tools", "returned"}
    BY <1>37 DEF EnterStep
  <2> QED
    BY <2>1, <2>2, RecordsQuietly
<1>38. ASSUME StreamThrows
      PROVE  AnswersCount'
  <2>1. Attempt(turn, step) \in Event /\ Attempt(turn, step).type \notin {"step/end", "tool/result"}
    BY <1>1, EventsAreEvents DEF Attempt
  <2>2. Record(<<Attempt(turn, step)>>) /\ pc' \notin {"tools", "returned"}
    BY <1>38 DEF StreamThrows, StepThrows
  <2> QED
    BY <2>1, <2>2, RecordsQuietly
<1>39. ASSUME StreamFails
      PROVE  AnswersCount'
  <2>1. Attempt(turn, step) \in Event /\ Attempt(turn, step).type \notin {"step/end", "tool/result"}
    BY <1>1, EventsAreEvents DEF Attempt
  <2>2. Record(<<Attempt(turn, step)>>) /\ pc' \notin {"tools", "returned"}
    BY <1>39 DEF StreamFails
  <2> QED
    BY <2>1, <2>2, RecordsQuietly
<1>40. ASSUME StreamInterrupted
      PROVE  AnswersCount'
  <2>1. PICK e \in {Assistant(turn, step, "interrupted", 0), Attempt(turn, step)} :
          StepThrows(<<e>>)
    BY <1>40 DEF StreamInterrupted
  <2>2. /\ Assistant(turn, step, "interrupted", 0) \in Event
        /\ Attempt(turn, step) \in Event
    BY <1>1, EventsAreEvents DEF FinishKind
  <2>3. /\ Assistant(turn, step, "interrupted", 0).type = "assistant/message"
        /\ Attempt(turn, step).type = "assistant/attempt"
    BY DEF Assistant, Attempt
  <2>4. CASE e = Assistant(turn, step, "interrupted", 0)
    BY <2>1, <2>2, <2>3, <2>4, RecordsQuietly DEF StepThrows
  <2>5. CASE e = Attempt(turn, step)
    BY <2>1, <2>2, <2>3, <2>5, RecordsQuietly DEF StepThrows
  <2> QED
    BY <2>1, <2>4, <2>5
<1>41. ASSUME StreamCutOff
      PROVE  AnswersCount'
  <2>1. Record(<<Assistant(turn, step, "max-tokens", 0)>>) /\ pc' # "tools"
    BY <1>41 DEF StreamCutOff, StepReturns, StepThrows
  <2> QED
    BY <2>1, SettlesStep DEF FinishKind
<1>42. ASSUME StreamStops
      PROVE  AnswersCount'
  <2>1. Record(<<Assistant(turn, step, "stop", 0)>>) /\ pc' # "tools"
    BY <1>42 DEF StreamStops, StepReturns
  <2> QED
    BY <2>1, SettlesStep DEF FinishKind
<1>43. ASSUME NEW n \in CallIndex, StreamAsksForTools(n)
      PROVE  AnswersCount'
  BY <1>43, AsksForTools
<1>44. ASSUME Admit
      PROVE  AnswersCount'
  <2>1. UNCHANGED log /\ pc' \notin {"tools", "returned"}
    BY <1>44 DEF Admit
  <2> QED
    BY <2>1, KeepsAnswers
<1>45. ASSUME AdmitMessage
      PROVE  AnswersCount'
  <2> DEFINE e == UserMessage(turn, step, Head(claimed))
  <2>1. e \in Event /\ e.type \notin {"step/end", "tool/result"}
    <3>1. Head(claimed) \in Message
      BY <1>45 DEF AdmitMessage, Inv, TypeOK
    <3> QED
      BY <1>1, <3>1, EventsAreEvents DEF UserMessage
  <2>2. Record(<<e>>) /\ pc' \notin {"tools", "returned"}
    BY <1>45 DEF AdmitMessage, At
  <2> HIDE DEF e
  <2> QED
    BY <2>1, <2>2, RecordsQuietly
<1>46. ASSUME ToolStart
      PROVE  AnswersCount'
  BY <1>46, StartsCall
<1>47. ASSUME ToolCommit
      PROVE  AnswersCount'
  BY <1>47, CommitsResult
<1>48. ASSUME ToolSkip
      PROVE  AnswersCount'
  BY <1>48, SkipsCalls
<1>49. ASSUME ToolsFinish
      PROVE  AnswersCount'
  BY <1>49, FinishesTools
<1>50. ASSUME RecoverCall
      PROVE  AnswersCount'
  <2>1. RecoverNext /\ pc' \notin {"tools", "returned"}
    BY <1>50 DEF RecoverCall
  <2> QED
    BY <2>1, RecoversCall
<1>51. ASSUME CloseFailedStep
      PROVE  AnswersCount'
  <2>1. Record(<<StepEnd(turn, step)>>) /\ pc' \notin {"tools", "returned"} /\ Unanswered(log) = {}
    BY <1>51 DEF CloseFailedStep
  <2> QED
    BY <1>1, <2>1, ClosesRepaired
<1>52. ASSUME CloseStep
      PROVE  AnswersCount'
  <2>1. /\ Record(<<StepEnd(turn, step)>>) /\ pc' \notin {"tools", "returned"}
        /\ pc = "returned"
    BY <1>52 DEF CloseStep, At
  <2>2. log # << >>
    BY <2>1 DEF Inv, DriverFollowsLog, Position, LastIs
  <2>3. \A i \in 1 .. Len(log) : Asks(log, i) /\ SameStep(log[i], LastEvent(log)) =>
          AnsweredTo(log, i, log[i].calls)
    BY <2>1 DEF AnswersCount, ToolsFollowLog
  <2> QED
    BY <1>1, <2>1, <2>2, <2>3, ClosesStep
<1>53. ASSUME Repair
      PROVE  AnswersCount'
  <2>1. CASE RecoverNext /\ pc' \notin {"tools", "returned"}
    BY <2>1, RecoversCall
  <2>2. OpenTurn(log) \in Nat /\ OpenStep(log) \in Nat
    BY <1>1, CursorTypes
  <2>3. CASE /\ Record(<<StepEnd(OpenTurn(log), OpenStep(log))>>)
             /\ pc' \notin {"tools", "returned"} /\ Unanswered(log) = {}
    BY <2>2, <2>3, ClosesRepaired
  <2> DEFINE e == TurnEnd(OpenTurn(log), "interrupted", "none")
  <2>4. CASE Record(<<e>>) /\ pc' \notin {"tools", "returned"}
    <3>1. e \in Event /\ e.type = "turn/end"
      BY <2>2, EventsAreEvents DEF TurnEnd, TurnEndKind
    <3> QED
      BY <2>4, <3>1, RecordsQuietly
  <2> QED
    BY <1>53, <2>1, <2>3, <2>4 DEF Repair
<1>54. CASE Clients
  <2>1. ASSUME NEW m \in Message, NEW t \in InboxTarget,
               \/ \E w \in BOOLEAN : Send(m, t, w)
               \/ InboxPrepend(t, m)
               \/ \E i \in 1 .. Len(inbox[t]) : InboxReplace(t, i, m)
        PROVE  AnswersCount'
    BY <2>1, <1>2, <1>3, <1>4
  <2> QED
    BY <1>54, <2>1, <1>5, <1>6, <1>7 DEF Clients
<1>55. CASE Turn
  BY  <1>12, <1>17, <1>21, <1>22, <1>23, <1>24, <1>25, <1>30, <1>31, <1>32, <1>33,
     <1>34, <1>35, <1>36, <1>37, <1>55 DEF Turn
<1>56. CASE Step
  BY  <1>13, <1>14, <1>26, <1>27, <1>28, <1>38, <1>39, <1>40, <1>41, <1>42,
     <1>43, <1>44, <1>45, <1>50, <1>51, <1>52, <1>56 DEF Step
<1>57. CASE ToolPhase
  BY  <1>15, <1>29, <1>46, <1>47, <1>48, <1>49, <1>57 DEF ToolPhase
<1> QED
  BY  <1>8, <1>9, <1>10, <1>11, <1>16, <1>18, <1>19, <1>20, <1>53, <1>54,
     <1>55, <1>56, <1>57 DEF Next, Driver

LEMMA AnswersHold == Spec => []AnswersCount
<1>1. Init => AnswersCount
  <2> SUFFICES ASSUME Init
               PROVE  AnswersCount
    OBVIOUS
  <2>1. log = << >> /\ pc = "off" /\ Len(log) = 0
    BY DEF Init
  <2> QED
    BY <2>1 DEF AnswersCount, ToolsFollowLog, AnswersFit, InOrder, OneAnswer, Answering
<1>2. Inv /\ Inv' /\ AnswersCount /\ [Next]_vars => AnswersCount'
  BY StepsAnswer
<1> QED
  BY <1>1, <1>2, InvariantHolds, PTL DEF Spec

(* A closed step leaves no tool call dangling: each call its message asked for has
   exactly one result, in model order, whether the batch finished, was aborted,
   failed, or was cut off by the loss of the process.  (executeToolCalls, FailStep
   and openTurnClosers together.) *)
THEOREM CallsAreAnswered == Spec => []EveryCallAnswered
<1>1. Inv /\ AnswersCount => EveryCallAnswered
  BY FitIsAnswered DEF Inv, TypeOK, AnswersCount, EveryCallAnswered
<1> QED
  BY <1>1, AnswersHold, InvariantHolds, PTL

(* Losing the process after any event of a step, also between the events one step
   appends, leaves a log that openTurnClosers balances: its turn and step are
   closed and every request has exactly one result.  (openTurnClosers, resumeWith.) *)
THEOREM CrashesAreRepaired == Spec => RecoverableAtEveryPrefix
<1>1. Inv /\ Inv' /\ AnswersCount' => EveryPrefixRepaired
  <2> SUFFICES ASSUME Inv, Inv', AnswersCount', NEW n \in Len(log) + 1 .. Len(log')
               PROVE  Balanced(SubSeq(log', 1, n) \o Closers(SubSeq(log', 1, n)))
    BY DEF EveryPrefixRepaired
  <2>1. log \in Seq(Event) /\ log' \in Seq(Event) /\ WellFormed(log') /\ AnswersFit(log')
    BY DEF Inv, TypeOK, DriverFollowsLog, LogFits, AnswersCount
  <2>2. n \in 1 .. Len(log')
    BY <2>1
  <2> DEFINE l == SubSeq(log', 1, n)
  <2>3. l \in Seq(Event) /\ l # << >>
    BY <2>1, <2>2, PrefixLooks
  <2>4. LogFits(l) /\ AnswersFit(l)
    BY <2>1, <2>2, PrefixFits, PrefixAnswers
  <2> HIDE DEF l
  <2>5. Balanced(l \o Closers(l))
    BY <2>3, <2>4, ClosersBalance
  <2> QED
    BY <2>5 DEF l
<1>2. Spec => [][EveryPrefixRepaired]_vars
  BY <1>1, AnswersHold, InvariantHolds, PTL
<1> QED
  BY <1>2 DEF RecoverableAtEveryPrefix

-------------------------------------------------------------------------------
(* Input. A message sits in one place: a queue, what the driver claimed, or the
   log. Each step moves it on, or drops it, and a fresh one enters one place. *)

(* The messages of a queue, and that it holds each once. *)
Held(s) == {s[i] : i \in 1 .. Len(s)}
HeldOnce(s) == \A i, k \in 1 .. Len(s) : s[i] = s[k] => i = k

(* The same of the log. *)
Admissions(l) == {i \in 1 .. Len(l) : Is(l, i, {"user/message"})}
Told(l) == {l[i].message : i \in Admissions(l)}
ToldOnce(l) == \A i, k \in Admissions(l) : l[i].message = l[k].message => i = k

(* No message is in two of four places, and all of them were used. *)
Apart(A, B, C, D, used) ==
  /\ A \cap B = {} /\ A \cap C = {} /\ A \cap D = {}
  /\ B \cap C = {} /\ B \cap D = {} /\ C \cap D = {}
  /\ A \cup B \cup C \cup D \subseteq used

InputFits(next, now, c, l, used) ==
  /\ HeldOnce(next) /\ HeldOnce(now) /\ HeldOnce(c) /\ ToldOnce(l)
  /\ Apart(Held(next), Held(now), Held(c), Told(l), used)

InputCounts == InputFits(inbox["next-turn"], inbox["next-step"], claimed, log, sent)

LEMMA HeldNothing ==
  HeldOnce(<< >>) /\ Held(<< >>) = {}
  BY DEF HeldOnce, Held

LEMMA HeldConcat ==
  ASSUME NEW s \in Seq(Message), NEW u \in Seq(Message), HeldOnce(s), HeldOnce(u),
         Held(s) \cap Held(u) = {}
  PROVE  HeldOnce(s \o u) /\ Held(s \o u) = Held(s) \cup Held(u)
<1> DEFINE q == s \o u
<1>1. /\ Len(s) \in Nat /\ Len(u) \in Nat /\ Len(q) = Len(s) + Len(u)
      /\ \A i \in 1 .. Len(s) : q[i] = s[i]
      /\ \A i \in 1 .. Len(u) : q[Len(s) + i] = u[i]
  OBVIOUS
<1> HIDE DEF q
<1>2. ASSUME NEW i \in 1 .. Len(q)
      PROVE  \/ i \in 1 .. Len(s) /\ q[i] = s[i]
             \/ i - Len(s) \in 1 .. Len(u) /\ q[i] = u[i - Len(s)]
  <2>1. CASE i \in 1 .. Len(s)
    BY <1>1, <2>1
  <2>2. CASE i \notin 1 .. Len(s)
    <3>1. i - Len(s) \in 1 .. Len(u) /\ Len(s) + (i - Len(s)) = i
      BY <1>1, <2>2
    <3> QED
      BY <1>1, <3>1
  <2> QED
    BY <2>1, <2>2
<1>3. ASSUME NEW i \in 1 .. Len(q), NEW k \in 1 .. Len(q), q[i] = q[k]
      PROVE  i = k
  <2>1. CASE i \in 1 .. Len(s) /\ q[i] = s[i] /\ k \in 1 .. Len(s) /\ q[k] = s[k]
    BY <1>3, <2>1 DEF HeldOnce
  <2>2. CASE /\ i - Len(s) \in 1 .. Len(u) /\ q[i] = u[i - Len(s)]
             /\ k - Len(s) \in 1 .. Len(u) /\ q[k] = u[k - Len(s)]
    <3>1. i - Len(s) = k - Len(s)
      BY <1>3, <2>2 DEF HeldOnce
    <3> QED
      BY <1>1, <3>1
  <2>3. CASE /\ i \in 1 .. Len(s) /\ q[i] = s[i]
             /\ k - Len(s) \in 1 .. Len(u) /\ q[k] = u[k - Len(s)]
    BY <1>3, <2>3 DEF Held
  <2>4. CASE /\ k \in 1 .. Len(s) /\ q[k] = s[k]
             /\ i - Len(s) \in 1 .. Len(u) /\ q[i] = u[i - Len(s)]
    BY <1>3, <2>4 DEF Held
  <2> QED
    BY <1>2, <2>1, <2>2, <2>3, <2>4
<1>4. Held(q) \subseteq Held(s) \cup Held(u)
  BY <1>2 DEF Held
<1>5. ASSUME NEW i \in 1 .. Len(s)
      PROVE  s[i] \in Held(q)
  <2>1. i \in 1 .. Len(q) /\ q[i] = s[i]
    BY <1>1
  <2> QED
    BY <2>1 DEF Held
<1>6. ASSUME NEW i \in 1 .. Len(u)
      PROVE  u[i] \in Held(q)
  <2>1. Len(s) + i \in 1 .. Len(q) /\ q[Len(s) + i] = u[i]
    BY <1>1
  <2> QED
    BY <2>1 DEF Held
<1>7. Held(q) = Held(s) \cup Held(u)
  BY <1>4, <1>5, <1>6 DEF Held
<1> QED
  BY <1>3, <1>7 DEF HeldOnce, q

LEMMA HeldOne ==
  ASSUME NEW m \in Message
  PROVE  HeldOnce(<<m>>) /\ Held(<<m>>) = {m} /\ <<m>> \in Seq(Message)
  BY DEF HeldOnce, Held

LEMMA HeldAppend ==
  ASSUME NEW s \in Seq(Message), NEW m \in Message, HeldOnce(s), m \notin Held(s)
  PROVE  HeldOnce(Append(s, m)) /\ Held(Append(s, m)) = Held(s) \cup {m}
<1>1. Append(s, m) = s \o <<m>>
  OBVIOUS
<1>2. HeldOnce(<<m>>) /\ Held(<<m>>) = {m} /\ <<m>> \in Seq(Message)
  BY HeldOne
<1> DEFINE u == <<m>>
<1>3. u \in Seq(Message) /\ HeldOnce(u) /\ Held(u) = {m} /\ Held(s) \cap Held(u) = {}
  BY <1>2
<1> HIDE DEF u
<1>4. HeldOnce(s \o u) /\ Held(s \o u) = Held(s) \cup Held(u)
  BY <1>3, HeldConcat
<1> QED
  BY <1>1, <1>3, <1>4 DEF u

(* The front and the rest of a queue. *)
LEMMA HeldSplit ==
  ASSUME NEW s \in Seq(Message), HeldOnce(s), NEW a \in 0 .. Len(s), NEW b \in a .. Len(s)
  PROVE  LET front == SubSeq(s, 1, a)
             rest == SubSeq(s, b + 1, Len(s))
         IN  /\ front \in Seq(Message) /\ rest \in Seq(Message)
             /\ HeldOnce(front) /\ HeldOnce(rest) /\ Held(front) \cap Held(rest) = {}
             /\ Held(front) \subseteq Held(s) /\ Held(rest) \subseteq Held(s)
<1> DEFINE front == SubSeq(s, 1, a)
           rest == SubSeq(s, b + 1, Len(s))
<1>1. Len(s) \in Nat /\ a \in Nat /\ b \in Nat /\ a <= b /\ b <= Len(s)
  OBVIOUS
<1>2. /\ front \in Seq(Message) /\ Len(front) = a
      /\ \A i \in 1 .. a : i \in 1 .. Len(s) /\ front[i] = s[i]
  BY <1>1
<1>3. /\ rest \in Seq(Message) /\ Len(rest) = Len(s) - b
      /\ \A i \in 1 .. Len(s) - b : b + i \in 1 .. Len(s) /\ rest[i] = s[b + i]
  <2>1. rest \in Seq(Message) /\ Len(rest) = Len(s) - b
    BY <1>1
  <2>2. ASSUME NEW i \in 1 .. Len(s) - b
        PROVE  b + i \in 1 .. Len(s) /\ rest[i] = s[b + i]
    <3>1. b + i \in 1 .. Len(s) /\ rest[i] = s[(b + 1) + i - 1] /\ (b + 1) + i - 1 = b + i
      BY <1>1
    <3> QED
      BY <3>1
  <2> QED
    BY <2>1, <2>2
<1> HIDE DEF front, rest
<1>4. HeldOnce(front) /\ Held(front) \subseteq Held(s)
  BY <1>2 DEF HeldOnce, Held
<1>5. Held(rest) \subseteq Held(s)
  BY <1>3 DEF Held
<1>6. ASSUME NEW i \in 1 .. Len(rest), NEW k \in 1 .. Len(rest), rest[i] = rest[k]
      PROVE  i = k
  <2>1. b + i = b + k
    BY <1>3, <1>6 DEF HeldOnce
  <2> QED
    BY <1>1, <2>1
<1>7. ASSUME NEW i \in 1 .. Len(front), NEW k \in 1 .. Len(rest)
      PROVE  front[i] # rest[k]
  <2>1. i # b + k
    BY <1>1, <1>2
  <2> QED
    BY <1>2, <1>3, <2>1 DEF HeldOnce
<1>8. Held(front) \cap Held(rest) = {}
  BY <1>7 DEF Held
<1> QED
  BY <1>2, <1>3, <1>4, <1>5, <1>6, <1>8 DEF HeldOnce, front, rest

LEMMA HeldReplace ==
  ASSUME NEW s \in Seq(Message), HeldOnce(s), NEW i \in 1 .. Len(s), NEW m \in Message,
         m \notin Held(s)
  PROVE  LET q == [s EXCEPT ![i] = m]
         IN  HeldOnce(q) /\ Held(q) \subseteq Held(s) \cup {m}
<1> DEFINE q == [s EXCEPT ![i] = m]
<1>1. Len(q) = Len(s) /\ \A k \in 1 .. Len(s) : q[k] = IF k = i THEN m ELSE s[k]
  OBVIOUS
<1>2. \A k \in 1 .. Len(s) : s[k] # m
  BY DEF Held
<1> HIDE DEF q
<1> QED
  BY <1>1, <1>2 DEF HeldOnce, Held, q

(* A log that records no input, and one that records some. *)
Quiet ==
  /\ Len(log') >= Len(log)
  /\ \A i \in 1 .. Len(log) : log'[i] = log[i]
  /\ \A i \in Len(log) + 1 .. Len(log') : log'[i].type # "user/message"

LEMMA QuietTellsNothing ==
  ASSUME TypeOK, TypeOK', Quiet
  PROVE  Told(log') = Told(log) /\ (ToldOnce(log) => ToldOnce(log'))
<1>1. Len(log) \in Nat /\ Len(log') \in Nat /\ Len(log') >= Len(log)
  BY DEF TypeOK, Quiet
<1>2. Admissions(log') = Admissions(log)
  <2>1. ASSUME NEW i \in Admissions(log')
        PROVE  i \in Admissions(log)
    <3>1. i \in 1 .. Len(log') /\ log'[i].type = "user/message"
      BY DEF Admissions, Is
    <3>2. i \in 1 .. Len(log)
      BY <1>1, <3>1 DEF Quiet
    <3> QED
      BY <3>1, <3>2 DEF Admissions, Is, Quiet
  <2>2. ASSUME NEW i \in Admissions(log)
        PROVE  i \in Admissions(log')
    <3>1. i \in 1 .. Len(log) /\ i \in 1 .. Len(log') /\ log[i].type = "user/message"
      BY <1>1 DEF Admissions, Is
    <3> QED
      BY <3>1 DEF Admissions, Is, Quiet
  <2> QED
    BY <2>1, <2>2
<1>3. \A i \in Admissions(log) : log'[i] = log[i]
  BY DEF Admissions, Quiet
<1> QED
  BY <1>2, <1>3 DEF Told, ToldOnce

LEMMA AdmissionTells ==
  ASSUME NEW l \in Seq(Event), NEW c \in Seq(Message), NEW es \in Seq(Event),
         Len(es) = Len(c),
         \A i \in 1 .. Len(c) : es[i].type = "user/message" /\ es[i].message = c[i],
         ToldOnce(l), HeldOnce(c), Told(l) \cap Held(c) = {}
  PROVE  Told(l \o es) = Told(l) \cup Held(c) /\ ToldOnce(l \o es)
<1> DEFINE k == l \o es
<1>0. /\ Len(l) \in Nat /\ Len(es) \in Nat /\ Len(k) = Len(l) + Len(es)
      /\ \A i \in 1 .. Len(l) : k[i] = l[i]
      /\ \A i \in 1 .. Len(es) : k[Len(l) + i] = es[i]
  BY ONLY l \in Seq(Event), es \in Seq(Event)
<1> HIDE DEF k
<1>1. /\ Len(l) \in Nat /\ Len(c) \in Nat /\ Len(k) = Len(l) + Len(c)
      /\ \A i \in 1 .. Len(l) : k[i] = l[i]
      /\ \A i \in 1 .. Len(c) : k[Len(l) + i] = es[i]
  BY <1>0
<1>2. ASSUME NEW i \in Admissions(k)
      PROVE  \/ i \in Admissions(l) /\ k[i].message = l[i].message
             \/ i - Len(l) \in 1 .. Len(c) /\ k[i].message = c[i - Len(l)]
  <2>0. i \in 1 .. Len(k) /\ k[i].type = "user/message"
    BY DEF Admissions, Is
  <2>1. CASE i \in 1 .. Len(l)
    BY <1>1, <2>0, <2>1 DEF Admissions, Is
  <2>2. CASE i \notin 1 .. Len(l)
    <3>1. i - Len(l) \in 1 .. Len(c) /\ Len(l) + (i - Len(l)) = i
      BY <1>1, <2>0, <2>2
    <3> QED
      BY <1>1, <3>1
  <2> QED
    BY <2>1, <2>2
<1>3. ASSUME NEW i \in Admissions(k), NEW j \in Admissions(k), k[i].message = k[j].message
      PROVE  i = j
  <2>1. CASE /\ i \in Admissions(l) /\ k[i].message = l[i].message
             /\ j \in Admissions(l) /\ k[j].message = l[j].message
    BY <1>3, <2>1 DEF ToldOnce
  <2>2. CASE /\ i - Len(l) \in 1 .. Len(c) /\ k[i].message = c[i - Len(l)]
             /\ j - Len(l) \in 1 .. Len(c) /\ k[j].message = c[j - Len(l)]
    <3>1. i - Len(l) = j - Len(l)
      BY <1>3, <2>2 DEF HeldOnce
    <3>2. i \in Nat /\ j \in Nat
      BY <1>1 DEF Admissions
    <3> QED
      BY <1>1, <3>1, <3>2
  <2>3. CASE /\ i \in Admissions(l) /\ k[i].message = l[i].message
             /\ j - Len(l) \in 1 .. Len(c) /\ k[j].message = c[j - Len(l)]
    BY <1>3, <2>3 DEF Told, Held
  <2>4. CASE /\ j \in Admissions(l) /\ k[j].message = l[j].message
             /\ i - Len(l) \in 1 .. Len(c) /\ k[i].message = c[i - Len(l)]
    BY <1>3, <2>4 DEF Told, Held
  <2> QED
    BY <1>2, <2>1, <2>2, <2>3, <2>4
<1>4. Told(k) \subseteq Told(l) \cup Held(c)
  BY <1>2 DEF Told, Held
<1>5. ASSUME NEW i \in Admissions(l)
      PROVE  l[i].message \in Told(k)
  <2>1. i \in 1 .. Len(k) /\ k[i] = l[i] /\ k[i].type = "user/message"
    BY <1>1 DEF Admissions, Is
  <2> QED
    BY <2>1 DEF Told, Admissions, Is
<1>6. ASSUME NEW i \in 1 .. Len(c)
      PROVE  c[i] \in Told(k)
  <2>1. /\ Len(l) + i \in 1 .. Len(k) /\ k[Len(l) + i].type = "user/message"
        /\ k[Len(l) + i].message = c[i]
    BY <1>1
  <2> QED
    BY <2>1 DEF Told, Admissions, Is
<1>7. Told(k) = Told(l) \cup Held(c)
  <2>1. Told(l) \subseteq Told(k)
    <3> SUFFICES ASSUME NEW x \in Told(l)
                 PROVE  x \in Told(k)
      OBVIOUS
    <3>1. PICK i \in Admissions(l) : x = l[i].message
      BY DEF Told
    <3> QED
      BY <1>5, <3>1
  <2>2. Held(c) \subseteq Told(k)
    BY <1>6 DEF Held
  <2> QED
    BY <1>4, <2>1, <2>2
<1> QED
  BY <1>3, <1>7 DEF ToldOnce, k

(* What the steps that move input preserve. *)

\* Nothing moves; input may be dropped. (cancel, preStep, a crash)
Rests ==
  /\ sent' = sent
  /\ inbox' = inbox \/ inbox' = Empty
  /\ claimed' = claimed \/ claimed' = << >>

LEMMA InputRests ==
  ASSUME TypeOK, TypeOK', InputCounts, Quiet, Rests
  PROVE  InputCounts'
<1>0. sent' = sent
  BY DEF Rests
<1>1. Told(log') = Told(log) /\ ToldOnce(log')
  BY QuietTellsNothing DEF InputCounts, InputFits
<1>2. /\ inbox'["next-turn"] = inbox["next-turn"] \/ inbox'["next-turn"] = << >>
      /\ inbox'["next-step"] = inbox["next-step"] \/ inbox'["next-step"] = << >>
  BY DEF Rests, Empty, InboxTarget
<1>3. /\ HeldOnce(inbox'["next-turn"]) /\ HeldOnce(inbox'["next-step"])
      /\ Held(inbox'["next-turn"]) \subseteq Held(inbox["next-turn"])
      /\ Held(inbox'["next-step"]) \subseteq Held(inbox["next-step"])
      /\ HeldOnce(claimed') /\ Held(claimed') \subseteq Held(claimed)
  BY <1>2, HeldNothing DEF InputCounts, InputFits, Rests
<1>4. Apart(Held(inbox["next-turn"]), Held(inbox["next-step"]), Held(claimed), Told(log), sent)
  BY DEF InputCounts, InputFits
<1>5. Apart(Held(inbox'["next-turn"]), Held(inbox'["next-step"]), Held(claimed'),
            Told(log'), sent')
  BY ONLY <1>0, <1>1, <1>3, <1>4 DEF Apart
<1> QED
  BY <1>1, <1>3, <1>5 DEF InputCounts, InputFits

\* A queue loses messages and may gain one never used. (the inbox commands)
LEMMA QueueChanges ==
  ASSUME TypeOK, TypeOK', InputCounts, Quiet, NEW t \in InboxTarget, NEW q, NEW M,
         M \cap sent = {}, HeldOnce(q), Held(q) \subseteq Held(inbox[t]) \cup M,
         inbox' = [inbox EXCEPT ![t] = q], sent' = sent \cup M, claimed' = claimed
  PROVE  InputCounts'
<1>1. Told(log') = Told(log) /\ ToldOnce(log')
  BY QuietTellsNothing DEF InputCounts, InputFits
<1>2. Apart(Held(inbox["next-turn"]), Held(inbox["next-step"]), Held(claimed), Told(log), sent)
  BY DEF InputCounts, InputFits
<1>3. HeldOnce(claimed') /\ Held(claimed') = Held(claimed)
  BY DEF InputCounts, InputFits
<1>4. CASE t = "next-turn"
  <2>1. inbox'["next-turn"] = q /\ inbox'["next-step"] = inbox["next-step"]
    BY <1>4 DEF TypeOK, InboxTarget
  <2>2. /\ HeldOnce(inbox'["next-turn"]) /\ HeldOnce(inbox'["next-step"])
        /\ Held(inbox'["next-turn"]) \subseteq Held(inbox["next-turn"]) \cup M
        /\ Held(inbox'["next-step"]) = Held(inbox["next-step"])
    BY <1>4, <2>1 DEF InputCounts, InputFits
  <2>3. Apart(Held(inbox'["next-turn"]), Held(inbox'["next-step"]), Held(claimed'),
              Told(log'), sent')
    BY ONLY <1>1, <1>2, <1>3, <2>2, M \cap sent = {}, sent' = sent \cup M DEF Apart
  <2> QED
    BY <1>1, <1>3, <2>2, <2>3 DEF InputCounts, InputFits
<1>5. CASE t = "next-step"
  <2>1. inbox'["next-step"] = q /\ inbox'["next-turn"] = inbox["next-turn"]
    BY <1>5 DEF TypeOK, InboxTarget
  <2>2. /\ HeldOnce(inbox'["next-turn"]) /\ HeldOnce(inbox'["next-step"])
        /\ Held(inbox'["next-step"]) \subseteq Held(inbox["next-step"]) \cup M
        /\ Held(inbox'["next-turn"]) = Held(inbox["next-turn"])
    BY <1>5, <2>1 DEF InputCounts, InputFits
  <2>3. Apart(Held(inbox'["next-turn"]), Held(inbox'["next-step"]), Held(claimed'),
              Told(log'), sent')
    BY ONLY <1>1, <1>2, <1>3, <2>2, M \cap sent = {}, sent' = sent \cup M DEF Apart
  <2> QED
    BY <1>1, <1>3, <2>2, <2>3 DEF InputCounts, InputFits
<1> QED
  BY <1>4, <1>5 DEF InboxTarget

\* All next-step input and at most one prompt are claimed. (inbox.claim)
LEMMA ClaimMoves ==
  ASSUME TypeOK, TypeOK', InputCounts, Quiet, NEW target \in InboxTarget, Claim(target),
         sent' = sent
  PROVE  InputCounts'
<1> DEFINE queued == inbox["next-turn"]
           now == inbox["next-step"]
           prompts == IF target = "next-turn" /\ queued # << >> THEN 1 ELSE 0
           front == SubSeq(queued, 1, prompts)
           rest == SubSeq(queued, prompts + 1, Len(queued))
<1>1. Told(log') = Told(log) /\ ToldOnce(log')
  BY QuietTellsNothing DEF InputCounts, InputFits
<1>2. /\ Apart(Held(queued), Held(now), Held(claimed), Told(log), sent)
      /\ HeldOnce(queued) /\ HeldOnce(now)
  BY DEF InputCounts, InputFits
<1>3. /\ queued \in Seq(Message) /\ now \in Seq(Message)
      /\ prompts \in 0 .. Len(queued) /\ prompts \in prompts .. Len(queued)
  BY DEF TypeOK, InboxTarget
<1>4. /\ claimed' = now \o front
      /\ inbox' = [inbox EXCEPT !["next-step"] = << >>, !["next-turn"] = rest]
  BY DEF Claim
<1>5. inbox'["next-turn"] = rest /\ inbox'["next-step"] = << >>
  BY <1>4 DEF TypeOK, InboxTarget
<1> HIDE DEF prompts
<1>6. /\ front \in Seq(Message) /\ rest \in Seq(Message)
      /\ HeldOnce(front) /\ HeldOnce(rest) /\ Held(front) \cap Held(rest) = {}
      /\ Held(front) \subseteq Held(queued) /\ Held(rest) \subseteq Held(queued)
  BY <1>2, <1>3, HeldSplit
<1> HIDE DEF front, rest
<1>7. Held(now) \cap Held(front) = {}
  BY ONLY <1>2, <1>6 DEF Apart
<1>8. HeldOnce(claimed') /\ Held(claimed') = Held(now) \cup Held(front)
  BY <1>2, <1>3, <1>4, <1>6, <1>7, HeldConcat
<1>9. /\ HeldOnce(inbox'["next-turn"]) /\ Held(inbox'["next-turn"]) = Held(rest)
      /\ HeldOnce(inbox'["next-step"]) /\ Held(inbox'["next-step"]) = {}
  BY <1>5, <1>6, HeldNothing
<1>10. Apart(Held(inbox'["next-turn"]), Held(inbox'["next-step"]), Held(claimed'),
             Told(log'), sent')
  <2> DEFINE A == Held(queued)
             B == Held(now)
             F == Held(front)
             R == Held(rest)
  <2> HIDE DEF A, B, F, R
  <2>1. Apart(A, B, Held(claimed), Told(log), sent)
    BY <1>2 DEF A, B
  <2>2. F \cap R = {} /\ F \subseteq A /\ R \subseteq A
    BY <1>6 DEF A, F, R
  <2>3. Held(claimed') = B \cup F
    BY <1>8 DEF B, F
  <2>4. Held(inbox'["next-turn"]) = R /\ Held(inbox'["next-step"]) = {}
    BY <1>9 DEF R
  <2> QED
    BY ONLY <1>1, <2>1, <2>2, <2>3, <2>4, sent' = sent DEF Apart
<1> QED
  BY <1>1, <1>8, <1>9, <1>10 DEF InputCounts, InputFits

\* The first claimed message enters the log. (step)
LEMMA HeldTail ==
  ASSUME NEW s \in Seq(Message), s # << >>, HeldOnce(s)
  PROVE  /\ Head(s) \in Message /\ Tail(s) \in Seq(Message) /\ HeldOnce(Tail(s))
         /\ Held(Tail(s)) \subseteq Held(s) \ {Head(s)} /\ Head(s) \in Held(s)
<1>1. /\ Len(s) \in Nat \ {0} /\ Head(s) = s[1] /\ Tail(s) \in Seq(Message)
      /\ Len(Tail(s)) = Len(s) - 1
      /\ \A i \in 1 .. Len(Tail(s)) : Tail(s)[i] = s[i + 1]
  OBVIOUS
<1>2. 1 \in 1 .. Len(s) /\ \A i \in 1 .. Len(s) - 1 : i + 1 \in 1 .. Len(s) /\ i + 1 # 1
  BY <1>1
<1>3. HeldOnce(Tail(s))
  <2> SUFFICES ASSUME NEW i \in 1 .. Len(Tail(s)), NEW k \in 1 .. Len(Tail(s)),
                      Tail(s)[i] = Tail(s)[k]
               PROVE  i = k
    BY DEF HeldOnce
  <2>1. i + 1 = k + 1
    BY <1>1, <1>2 DEF HeldOnce
  <2> QED
    BY <2>1
<1>4. \A i \in 1 .. Len(Tail(s)) : Tail(s)[i] \in Held(s) /\ Tail(s)[i] # s[1]
  BY <1>1, <1>2 DEF HeldOnce, Held
<1> QED
  BY <1>1, <1>2, <1>3, <1>4 DEF Held

LEMMA AdmitMoves ==
  ASSUME TypeOK, TypeOK', InputCounts, AdmitMessage
  PROVE  InputCounts'
<1> DEFINE m == Head(claimed)
           es == <<UserMessage(turn, step, m)>>
           c == <<m>>
<1>1. /\ log' = log \o es /\ claimed' = Tail(claimed) /\ claimed # << >>
      /\ inbox' = inbox /\ sent' = sent
  BY DEF AdmitMessage, Record, inputVars
<1>2. /\ Apart(Held(inbox["next-turn"]), Held(inbox["next-step"]), Held(claimed), Told(log), sent)
      /\ HeldOnce(claimed) /\ ToldOnce(log) /\ log \in Seq(Event)
  BY DEF InputCounts, InputFits, TypeOK
<1>3. /\ m \in Message /\ HeldOnce(claimed') /\ m \in Held(claimed)
      /\ Held(claimed') \subseteq Held(claimed) \ {m}
  BY <1>1, <1>2, HeldTail DEF TypeOK
<1> HIDE DEF m
<1>4. c \in Seq(Message) /\ Len(c) = 1 /\ c[1] = m /\ HeldOnce(c) /\ Held(c) = {m}
  BY <1>3, HeldOne
<1>5. /\ es \in Seq(Event) /\ Len(es) = 1
      /\ \A i \in 1 .. 1 : es[i].type = "user/message" /\ es[i].message = c[i]
  <2>1. UserMessage(turn, step, m) \in Event
    BY <1>3, PhaseFields, EventsAreEvents
  <2> QED
    BY <2>1 DEF UserMessage
<1> HIDE DEF es, c
<1>6. Told(log) \cap Held(c) = {}
  BY <1>2, <1>3, <1>4 DEF Apart
<1>7. Told(log') = Told(log) \cup {m} /\ ToldOnce(log')
  BY <1>1, <1>2, <1>4, <1>5, <1>6, AdmissionTells
<1>8. Apart(Held(inbox["next-turn"]), Held(inbox["next-step"]), Held(claimed'), Told(log'), sent)
  BY ONLY <1>2, <1>3, <1>7 DEF Apart
<1> QED
  BY <1>1, <1>3, <1>7, <1>8 DEF InputCounts, InputFits

(* At most one message per place, and in at most one place. *)
LEMMA CountsOnce ==
  ASSUME TypeOK, InputCounts
  PROVE  InputDeliveredOnce
<1> SUFFICES ASSUME NEW m \in Message
             PROVE  Occurrences(m) <= IF m \in sent THEN 1 ELSE 0
  BY DEF InputDeliveredOnce
<1> DEFINE at(s) == {i \in DOMAIN s : s[i] = m}
           told == {i \in DOMAIN log : Is(log, i, {"user/message"}) /\ log[i].message = m}
           next == inbox["next-turn"]
           now == inbox["next-step"]
<1>1. ASSUME NEW S, \A i, k \in S : i = k
      PROVE  Cardinality(S) = IF S = {} THEN 0 ELSE 1
  <2>1. CASE S = {}
    BY <2>1, FS_EmptySet
  <2>2. CASE S # {}
    <3>1. PICK x : x \in S
      BY <2>2
    <3>2. S = {x}
      BY <1>1, <3>1
    <3> QED
      BY <2>2, <3>2, FS_Singleton
  <2> QED
    BY <2>1, <2>2
<1>2. ASSUME NEW s \in Seq(Message), HeldOnce(s)
      PROVE  Cardinality(at(s)) = IF m \in Held(s) THEN 1 ELSE 0
  <2>1. DOMAIN s = 1 .. Len(s)
    OBVIOUS
  <2>2. \A i, k \in at(s) : i = k
    BY <1>2, <2>1 DEF HeldOnce
  <2>3. at(s) = {} <=> m \notin Held(s)
    BY <2>1 DEF Held
  <2> HIDE DEF at
  <2> QED
    BY <1>1, <2>2, <2>3
<1>3. Cardinality(told) = IF m \in Told(log) THEN 1 ELSE 0
  <2>1. DOMAIN log = 1 .. Len(log) /\ ToldOnce(log)
    BY DEF TypeOK, InputCounts, InputFits
  <2>2. told = {i \in Admissions(log) : log[i].message = m}
    BY <2>1 DEF Admissions
  <2>3. \A i, k \in told : i = k
    BY <2>1, <2>2 DEF ToldOnce
  <2>4. told = {} <=> m \notin Told(log)
    BY <2>2 DEF Told
  <2> HIDE DEF told
  <2> QED
    BY <1>1, <2>3, <2>4
<1>4. /\ next \in Seq(Message) /\ now \in Seq(Message) /\ claimed \in Seq(Message)
      /\ HeldOnce(next) /\ HeldOnce(now) /\ HeldOnce(claimed)
      /\ Apart(Held(next), Held(now), Held(claimed), Told(log), sent)
  BY DEF TypeOK, InboxTarget, InputCounts, InputFits
<1>5. Occurrences(m) = Cardinality(at(next)) + Cardinality(at(now)) + Cardinality(at(claimed))
                         + Cardinality(told)
  BY DEF Occurrences
<1> HIDE DEF at, told
<1>6. /\ Cardinality(at(next)) = IF m \in Held(next) THEN 1 ELSE 0
      /\ Cardinality(at(now)) = IF m \in Held(now) THEN 1 ELSE 0
      /\ Cardinality(at(claimed)) = IF m \in Held(claimed) THEN 1 ELSE 0
  BY <1>2, <1>4
<1>7. /\ m \in Held(next) => m \in sent /\ m \notin Held(now) \cup Held(claimed) \cup Told(log)
      /\ m \in Held(now) => m \in sent /\ m \notin Held(claimed) \cup Told(log)
      /\ m \in Held(claimed) => m \in sent /\ m \notin Told(log)
      /\ m \in Told(log) => m \in sent
  BY <1>4 DEF Apart
<1> QED
  BY <1>3, <1>5, <1>6, <1>7

\* What is no input is recorded quietly: the end of a turn, an exception, a repair.
LEMMA AddsQuietly ==
  ASSUME NEW E, Adds(E), \A e \in E : e.type # "user/message"
  PROVE  Quiet
<1>1. \A i \in Len(log) + 1 .. Len(log') : log'[i] \in E
  BY DEF Adds, Appended
<1> QED
  BY <1>1 DEF Adds, Quiet

LEMMA RecordsNoInput ==
  ASSUME TypeOK, NEW e \in Event, e.type # "user/message", Record(<<e>>)
  PROVE  Quiet
  BY AddsOne, AddsQuietly

LEMMA NothingIsQuiet ==
  ASSUME TypeOK, log' = log
  PROVE  Quiet
  BY AddsNone, AddsQuietly

LEMMA EndsQuietly ==
  ASSUME TypeOK, NEW k \in TurnEndKind, EndTurn(k)
  PROVE  Quiet
<1> DEFINE e == TurnEnd(turn, k, IF k = "aborted" THEN phase.cause ELSE "none")
<1>1. e \in Event
  BY PhaseFields, CauseAssumption, EventsAreEvents DEF AgentCancelCause
<1>2. Record(<<e>>) /\ e.type = "turn/end"
  BY DEF EndTurn, TurnEnd
<1> HIDE DEF e
<1> QED
  BY <1>1, <1>2, RecordsNoInput

LEMMA ThrowsQuietly ==
  ASSUME TypeOK, Throw
  PROVE  Quiet
  BY EndsQuietly, NothingIsQuiet DEF Throw, TurnEndKind

LEMMA RecoversQuietly ==
  ASSUME TypeOK, RecoverNext
  PROVE  Quiet
<1>1. PICK r \in Unanswered(log) : Record(<<RecoveryResult(log, r[1], r[2])>>)
  BY DEF RecoverNext
<1> DEFINE e == RecoveryResult(log, r[1], r[2])
<1>2. e \in Event /\ e.type = "tool/result"
  BY RecoveryResultIsEvent DEF TypeOK, RecoveryResult, ToolResult
<1>3. Record(<<e>>)
  BY <1>1
<1> HIDE DEF e
<1> QED
  BY <1>2, <1>3, RecordsNoInput

\* The steps that move input one place on, or bring a fresh one in.
LEMMA SendDelivers ==
  ASSUME TypeOK, TypeOK', InputCounts,
         NEW m \in Message, NEW t \in InboxTarget, NEW w \in BOOLEAN, Send(m, t, w)
  PROVE  InputCounts'
<1>1. PICK r \in InboxTarget : inbox' = [inbox EXCEPT ![r] = Append(@, m)]
  BY DEF Send, InboxTarget
<1>2. m \notin sent /\ sent' = sent \cup {m} /\ claimed' = claimed /\ log' = log
  BY DEF Send, Fresh, stepVars
<1>3. inbox[r] \in Seq(Message) /\ HeldOnce(inbox[r]) /\ Held(inbox[r]) \subseteq sent
  BY DEF TypeOK, InboxTarget, InputCounts, InputFits, Apart
<1>4. m \notin Held(inbox[r])
  BY <1>2, <1>3
<1> DEFINE q == Append(inbox[r], m)
<1>5. HeldOnce(q) /\ Held(q) \subseteq Held(inbox[r]) \cup {m}
  BY <1>3, <1>4, HeldAppend
<1>6. inbox' = [inbox EXCEPT ![r] = q] /\ {m} \cap sent = {}
  BY <1>1, <1>2
<1>7. Quiet
  BY <1>2, NothingIsQuiet
<1> HIDE DEF q
<1> QED
  BY <1>2, <1>5, <1>6, <1>7, QueueChanges

LEMMA PrependDelivers ==
  ASSUME TypeOK, TypeOK', InputCounts,
         NEW t \in InboxTarget, NEW m \in Message, InboxPrepend(t, m)
  PROVE  InputCounts'
<1>1. /\ inbox' = [inbox EXCEPT ![t] = <<m>> \o @]
      /\ m \notin sent /\ sent' = sent \cup {m} /\ claimed' = claimed /\ log' = log
  BY DEF InboxPrepend, Fresh, stepVars
<1>2. inbox[t] \in Seq(Message) /\ HeldOnce(inbox[t]) /\ Held(inbox[t]) \subseteq sent
  BY DEF TypeOK, InboxTarget, InputCounts, InputFits, Apart
<1> DEFINE u == <<m>>
           q == u \o inbox[t]
<1>3. HeldOnce(u) /\ Held(u) = {m} /\ u \in Seq(Message)
  BY HeldOne
<1>4. inbox' = [inbox EXCEPT ![t] = q] /\ {m} \cap sent = {}
  BY <1>1
<1> HIDE DEF u
<1>5. Held(u) \cap Held(inbox[t]) = {}
  BY <1>1, <1>2, <1>3
<1>6. HeldOnce(q) /\ Held(q) = Held(u) \cup Held(inbox[t])
  BY <1>2, <1>3, <1>5, HeldConcat
<1>7. Held(q) \subseteq Held(inbox[t]) \cup {m}
  BY <1>3, <1>6
<1>8. Quiet
  BY <1>1, NothingIsQuiet
<1> HIDE DEF q
<1> QED
  BY <1>1, <1>4, <1>6, <1>7, <1>8, QueueChanges

LEMMA ReplaceDelivers ==
  ASSUME TypeOK, TypeOK', InputCounts, NEW t \in InboxTarget, NEW m \in Message,
         NEW i \in 1 .. Len(inbox[t]), InboxReplace(t, i, m)
  PROVE  InputCounts'
<1>1. /\ inbox' = [inbox EXCEPT ![t][i] = m]
      /\ m \notin sent /\ sent' = sent \cup {m} /\ claimed' = claimed /\ log' = log
  BY DEF InboxReplace, Fresh, stepVars
<1>2. inbox[t] \in Seq(Message) /\ HeldOnce(inbox[t]) /\ Held(inbox[t]) \subseteq sent
  BY DEF TypeOK, InboxTarget, InputCounts, InputFits, Apart
<1> DEFINE q == [inbox[t] EXCEPT ![i] = m]
<1>3. m \notin Held(inbox[t])
  BY <1>1, <1>2
<1>4. HeldOnce(q) /\ Held(q) \subseteq Held(inbox[t]) \cup {m}
  BY <1>2, <1>3, HeldReplace
<1>5. inbox' = [inbox EXCEPT ![t] = q] /\ {m} \cap sent = {}
  BY <1>1
<1>6. Quiet
  BY <1>1, NothingIsQuiet
<1> HIDE DEF q
<1> QED
  BY <1>1, <1>4, <1>5, <1>6, QueueChanges

LEMMA RemoveDelivers ==
  ASSUME TypeOK, TypeOK', InputCounts, NEW t \in InboxTarget,
         NEW i \in 1 .. Len(inbox[t]), InboxRemove(t, i)
  PROVE  InputCounts'
<1> DEFINE s == inbox[t]
           front == SubSeq(s, 1, i - 1)
           rest == SubSeq(s, i + 1, Len(s))
           q == front \o rest
<1>1. /\ inbox' = [inbox EXCEPT ![t] = q]
      /\ sent' = sent \cup {} /\ claimed' = claimed /\ log' = log
  BY DEF InboxRemove, stepVars
<1>2. s \in Seq(Message) /\ HeldOnce(s)
  BY DEF TypeOK, InboxTarget, InputCounts, InputFits
<1>3. i - 1 \in 0 .. Len(s) /\ i \in i - 1 .. Len(s)
  BY <1>2
<1>4. /\ front \in Seq(Message) /\ rest \in Seq(Message)
      /\ HeldOnce(front) /\ HeldOnce(rest) /\ Held(front) \cap Held(rest) = {}
      /\ Held(front) \subseteq Held(s) /\ Held(rest) \subseteq Held(s)
  BY <1>2, <1>3, HeldSplit
<1> HIDE DEF front, rest
<1>5. HeldOnce(q) /\ Held(q) = Held(front) \cup Held(rest)
  BY <1>4, HeldConcat
<1>6. Held(q) \subseteq Held(inbox[t]) \cup {} /\ {} \cap sent = {}
  BY <1>4, <1>5
<1>7. Quiet
  BY <1>1, NothingIsQuiet
<1> HIDE DEF q
<1> QED
  BY <1>1, <1>5, <1>6, <1>7, QueueChanges

LEMMA CommitDelivers ==
  ASSUME TypeOK, TypeOK', InputCounts, ToolCommit
  PROVE  InputCounts'
<1> DEFINE e == ToolResult(turn, step, batch.done + 1, "ok")
<1>1. e \in Event /\ e.type = "tool/result"
  <2>1. batch.done + 1 \in CallIndex
    BY BatchFields, MaxCallAssumption DEF ToolCommit, Tools!Commit, CallIndex
  <2> QED
    BY <2>1, PhaseFields, EventsAreEvents DEF ResultKind, ToolResult
<1>2. Record(<<e>>) /\ claimed' = claimed
  BY DEF ToolCommit
<1> HIDE DEF e
<1>3. Quiet
  BY <1>1, <1>2, RecordsNoInput
<1> DEFINE s == inbox["next-step"]
<1>4. PICK contexts \in {{}} \cup {{m} : m \in {n \in Message : Fresh(n)}} :
        /\ sent' = sent \cup contexts
        /\ inbox' = [inbox EXCEPT !["next-step"] =
                       IF contexts = {} THEN @ ELSE Append(@, CHOOSE m \in contexts : TRUE)]
  BY DEF ToolCommit
<1>5. /\ s \in Seq(Message) /\ HeldOnce(s) /\ Held(s) \subseteq sent
      /\ "next-step" \in InboxTarget
  BY DEF TypeOK, InboxTarget, InputCounts, InputFits, Apart
<1>6. CASE contexts = {}
  <2>1. inbox' = [inbox EXCEPT !["next-step"] = s] /\ sent' = sent \cup {}
    BY <1>4, <1>6
  <2>2. HeldOnce(s) /\ Held(s) \subseteq Held(s) \cup {} /\ {} \cap sent = {}
    BY <1>5
  <2> QED
    BY <1>2, <1>3, <1>5, <2>1, <2>2, QueueChanges
<1>7. CASE contexts # {}
  <2>1. PICK m \in Message : m \notin sent /\ contexts = {m}
    BY <1>4, <1>7 DEF Fresh
  <2> DEFINE q == Append(s, m)
  <2>2. inbox' = [inbox EXCEPT !["next-step"] = q] /\ sent' = sent \cup {m}
    BY <1>4, <2>1
  <2>3. HeldOnce(q) /\ Held(q) = Held(s) \cup {m}
    BY <1>5, <2>1, HeldAppend
  <2>4. {m} \cap sent = {}
    BY <2>1
  <2> HIDE DEF q
  <2> QED
    BY <1>2, <1>3, <1>5, <2>2, <2>3, <2>4, QueueChanges
<1> QED
  BY <1>6, <1>7

\* The answers of an aborted batch hold no input.
LEMMA SkipsQuietly ==
  ASSUME TypeOK, ToolSkip
  PROVE  Quiet
<1>1. Record(Skipped) /\ batch.started < batch.asked
  BY DEF ToolSkip, Tools!Skip
<1>2. Skipped \in Seq(Event) /\ Len(Skipped) = 2 * (batch.asked - batch.started)
  BY <1>1, SkippedAreEvents
<1>3. Adds({Skipped[i] : i \in 1 .. Len(Skipped)})
  BY <1>1, <1>2, RecordAdds
<1>4. \A i \in 1 .. Len(Skipped) : Skipped[i].type # "user/message"
  BY <1>2 DEF Skipped, ToolCall, ToolResult
<1> QED
  BY <1>3, <1>4, AddsQuietly

(* Every step leaves each message in one place. *)
LEMMA StepsDeliver ==
  ASSUME TypeOK, TypeOK', InputCounts, [Next]_vars
  PROVE  InputCounts'
<1>1. turn \in Nat /\ step \in Nat /\ turnEnds \in TurnEndState /\ log \in Seq(Event)
  BY PhaseFields DEF TypeOK
<1>2. ASSUME NEW m \in Message, NEW t \in InboxTarget, NEW w \in BOOLEAN, Send(m, t, w)
      PROVE  InputCounts'
  BY <1>2, SendDelivers
<1>3. ASSUME NEW t \in InboxTarget, NEW m \in Message, InboxPrepend(t, m)
      PROVE  InputCounts'
  BY <1>3, PrependDelivers
<1>4. ASSUME NEW t \in InboxTarget, NEW m \in Message, NEW i \in 1 .. Len(inbox[t]),
             InboxReplace(t, i, m)
      PROVE  InputCounts'
  BY <1>4, ReplaceDelivers
<1>5. ASSUME NEW t \in InboxTarget, NEW i \in 1 .. Len(inbox[t]), InboxRemove(t, i)
      PROVE  InputCounts'
  BY <1>5, RemoveDelivers
<1>6. ASSUME NEW c \in Cause, NEW k \in BOOLEAN, Cancel(c, k)
      PROVE  InputCounts'
  <2>1. Rests /\ UNCHANGED log
    BY <1>6 DEF Cancel, Rests, CancelEffect, stepVars
  <2> QED
    BY <2>1, NothingIsQuiet, InputRests
<1>7. ASSUME RunMaintenance
      PROVE  InputCounts'
  <2>1. Rests /\ UNCHANGED log
    BY <1>7 DEF RunMaintenance, Rests, inputVars, stepVars
  <2> QED
    BY <2>1, NothingIsQuiet, InputRests
<1>8. ASSUME FinishMaintenance
      PROVE  InputCounts'
  <2>1. Rests /\ UNCHANGED log
    BY <1>8 DEF FinishMaintenance, Rests, inputVars, stepVars
  <2> QED
    BY <2>1, NothingIsQuiet, InputRests
<1>9. ASSUME Dispose
      PROVE  InputCounts'
  <2>1. Rests /\ UNCHANGED log
    BY <1>9 DEF Dispose, Rests, CancelEffect, stepVars
  <2> QED
    BY <2>1, NothingIsQuiet, InputRests
<1>10. ASSUME Detach
      PROVE  InputCounts'
  <2>1. Rests /\ UNCHANGED log
    BY <1>10 DEF Detach, Rests, inputVars, stepVars
  <2> QED
    BY <2>1, NothingIsQuiet, InputRests
<1>11. ASSUME Crash
      PROVE  InputCounts'
  <2>1. Rests /\ UNCHANGED log
    BY <1>11 DEF Crash, Rests, inputVars
  <2> QED
    BY <2>1, NothingIsQuiet, InputRests
<1>12. ASSUME DropDriver
      PROVE  InputCounts'
  <2>1. Rests /\ UNCHANGED log
    BY <1>12 DEF DropDriver, Rests, inputVars, stepVars
  <2> QED
    BY <2>1, NothingIsQuiet, InputRests
<1>13. ASSUME StartStream
      PROVE  InputCounts'
  <2>1. Rests /\ UNCHANGED log
    BY <1>13 DEF StartStream, Rests, inputVars, stepVars
  <2> QED
    BY <2>1, NothingIsQuiet, InputRests
<1>14. ASSUME Retry
      PROVE  InputCounts'
  <2>1. Rests /\ UNCHANGED log
    BY <1>14 DEF Retry, Rests, inputVars, stepVars
  <2> QED
    BY <2>1, NothingIsQuiet, InputRests
<1>15. ASSUME ToolsFail
      PROVE  InputCounts'
  <2>1. Rests /\ UNCHANGED log
    BY <1>15 DEF ToolsFail, Rests, inputVars
  <2> QED
    BY <2>1, NothingIsQuiet, InputRests
<1>16. ASSUME Converge
      PROVE  InputCounts'
  <2>1. Rests /\ UNCHANGED log
    BY <1>16 DEF Converge, Rests, inputVars, stepVars
  <2> QED
    BY <2>1, NothingIsQuiet, InputRests
<1>17. ASSUME AfterTurn
      PROVE  InputCounts'
  <2>1. Rests /\ UNCHANGED log
    BY <1>17 DEF AfterTurn, Rests, inputVars, stepVars
  <2> QED
    BY <2>1, NothingIsQuiet, InputRests
<1>18. ASSUME SendWakes
      PROVE  InputCounts'
  <2>1. Rests /\ UNCHANGED log
    BY <1>18 DEF SendWakes, Rests, inputVars, stepVars
  <2> QED
    BY <2>1, NothingIsQuiet, InputRests
<1>19. ASSUME Replay
      PROVE  InputCounts'
  <2>1. Rests /\ UNCHANGED log
    BY <1>19 DEF Replay, Rests, inputVars, stepVars
  <2> QED
    BY <2>1, NothingIsQuiet, InputRests
<1>20. ASSUME UNCHANGED vars
      PROVE  InputCounts'
  <2>1. Rests /\ UNCHANGED log
    BY <1>20 DEF vars, Rests, stepVars
  <2> QED
    BY <2>1, NothingIsQuiet, InputRests
<1>21. ASSUME PreStepThrows
      PROVE  InputCounts'
  <2>1. Rests /\ Throw
    BY <1>21 DEF PreStepThrows, Rests, inputVars
  <2> QED
    BY <2>1, ThrowsQuietly, InputRests
<1>22. ASSUME StepFailed
      PROVE  InputCounts'
  <2>1. Rests /\ Throw
    BY <1>22 DEF StepFailed, Rests, inputVars, stepVars
  <2> QED
    BY <2>1, ThrowsQuietly, InputRests
<1>23. ASSUME StoppingThrows
      PROVE  InputCounts'
  <2>1. Rests /\ Throw
    BY <1>23 DEF StoppingThrows, Rests, inputVars, stepVars
  <2> QED
    BY <2>1, ThrowsQuietly, InputRests
<1>24. ASSUME ClaimTurn
      PROVE  InputCounts'
  <2>1. CASE Claim("next-turn") /\ UNCHANGED log
    <3>1. sent' = sent /\ "next-turn" \in InboxTarget
      BY <1>24 DEF ClaimTurn, InboxTarget
    <3> QED
      BY <2>1, <3>1, NothingIsQuiet, ClaimMoves
  <2>2. CASE Throw /\ UNCHANGED <<inbox, claimed>>
    <3>1. Rests
      BY <1>24, <2>2 DEF ClaimTurn, Rests
    <3> QED
      BY <2>2, <3>1, ThrowsQuietly, InputRests
  <2> QED
    BY <1>24, <2>1, <2>2 DEF ClaimTurn
<1>25. ASSUME AfterStep
      PROVE  InputCounts'
  <2>1. CASE Claim("next-step") /\ UNCHANGED log
    <3>1. sent' = sent /\ "next-step" \in InboxTarget
      BY <1>25 DEF AfterStep, InboxTarget
    <3> QED
      BY <2>1, <3>1, NothingIsQuiet, ClaimMoves
  <2>2. CASE (Throw \/ UNCHANGED log) /\ UNCHANGED <<inbox, claimed>>
    <3>1. Rests
      BY <1>25, <2>2 DEF AfterStep, Rests
    <3> QED
      BY <2>2, <3>1, ThrowsQuietly, NothingIsQuiet, InputRests
  <2> QED
    BY <1>25, <2>1, <2>2 DEF AfterStep, NextStep
<1>26. ASSUME Stopping
      PROVE  InputCounts'
  <2>1. CASE Claim("next-step") /\ UNCHANGED log
    <3>1. sent' = sent /\ "next-step" \in InboxTarget
      BY <1>26 DEF Stopping, InboxTarget
    <3> QED
      BY <2>1, <3>1, NothingIsQuiet, ClaimMoves
  <2>2. CASE MayStop /\ EndTurn(turnEnds) /\ UNCHANGED <<inbox, claimed>>
    <3>1. Rests /\ turnEnds \in TurnEndKind
      BY <1>1, <1>26, <2>2 DEF Stopping, Rests, MayStop, TurnEndState, TurnEndKind
    <3> QED
      BY <2>2, <3>1, EndsQuietly, InputRests
  <2> QED
    BY <1>26, <2>1, <2>2 DEF Stopping, NextStep, Break
<1>27. ASSUME PreStepRejects \/ PreStepEnters
      PROVE  InputCounts'
  <2>1. Rests /\ UNCHANGED log
    BY <1>27 DEF PreStepRejects, PreStepEnters, Rests, inputVars
  <2> QED
    BY <2>1, NothingIsQuiet, InputRests
<1>28. ASSUME Block
      PROVE  InputCounts'
  <2>1. Rests /\ EndTurn("blocked")
    BY <1>28 DEF Block, Rests, inputVars, stepVars
  <2> QED
    BY <2>1, EndsQuietly, InputRests DEF TurnEndKind
<1>29. ASSUME EnterAborted
      PROVE  InputCounts'
  <2>1. Rests /\ Throw
    BY <1>29 DEF EnterAborted, Rests, inputVars
  <2> QED
    BY <2>1, ThrowsQuietly, InputRests
<1>30. ASSUME EndFailedTurn
      PROVE  InputCounts'
  <2>1. Rests /\ EndTurn("error")
    BY <1>30 DEF EndFailedTurn, Rests, inputVars, stepVars
  <2> QED
    BY <2>1, EndsQuietly, InputRests DEF TurnEndKind
<1>31. ASSUME EnterNothing
      PROVE  InputCounts'
  <2>1. Rests /\ \E k \in TurnEndKind : EndTurn(k)
    BY <1>1, <1>31 DEF EnterNothing, Break, Rests, inputVars, stepVars, TurnEndState,
       TurnEndKind
  <2> QED
    BY <2>1, EndsQuietly, InputRests
<1>32. ASSUME PrepareFails
      PROVE  InputCounts'
  <2>1. Rests /\ Record(<< >>)
    BY <1>32 DEF PrepareFails, StepThrows, Rests, inputVars
  <2>2. UNCHANGED log
    BY <1>1, <2>1 DEF Record
  <2> QED
    BY <2>1, <2>2, NothingIsQuiet, InputRests
<1>33. ASSUME DispatchFails
      PROVE  InputCounts'
  <2>1. Rests /\ Record(<< >>)
    BY <1>33 DEF DispatchFails, StepThrows, Rests, inputVars, stepVars
  <2>2. UNCHANGED log
    BY <1>1, <2>1 DEF Record
  <2> QED
    BY <2>1, <2>2, NothingIsQuiet, InputRests
<1>34. ASSUME GiveUp
      PROVE  InputCounts'
  <2>1. Rests /\ Record(<< >>)
    BY <1>34 DEF GiveUp, StepThrows, Rests, inputVars, stepVars
  <2>2. UNCHANGED log
    BY <1>1, <2>1 DEF Record
  <2> QED
    BY <2>1, <2>2, NothingIsQuiet, InputRests
<1>35. ASSUME ToolsReject
      PROVE  InputCounts'
  <2>1. Rests /\ Record(<< >>)
    BY <1>35 DEF ToolsReject, StepThrows, Rests, inputVars
  <2>2. UNCHANGED log
    BY <1>1, <2>1 DEF Record
  <2> QED
    BY <2>1, <2>2, NothingIsQuiet, InputRests
<1>36. ASSUME OpenTurnBoundary
      PROVE  InputCounts'
  <2> DEFINE e == TurnStart(turn + 1)
  <2>1. e \in Event /\ e.type # "user/message"
    BY <1>1, EventsAreEvents DEF TurnStart
  <2>2. Rests /\ Record(<<e>>)
    BY <1>36 DEF OpenTurnBoundary, Rests, inputVars, stepVars
  <2> HIDE DEF e
  <2> QED
    BY <2>1, <2>2, RecordsNoInput, InputRests
<1>37. ASSUME EnterStep
      PROVE  InputCounts'
  <2> DEFINE e == StepStart(turn, step + 1)
  <2>1. e \in Event /\ e.type # "user/message"
    BY <1>1, EventsAreEvents DEF StepStart
  <2>2. Rests /\ Record(<<e>>)
    BY <1>37 DEF EnterStep, Rests, inputVars
  <2> HIDE DEF e
  <2> QED
    BY <2>1, <2>2, RecordsNoInput, InputRests
<1>38. ASSUME CloseFailedStep
      PROVE  InputCounts'
  <2> DEFINE e == StepEnd(turn, step)
  <2>1. e \in Event /\ e.type # "user/message"
    BY <1>1, EventsAreEvents DEF StepEnd
  <2>2. Rests /\ Record(<<e>>)
    BY <1>38 DEF CloseFailedStep, Rests, inputVars, stepVars
  <2> HIDE DEF e
  <2> QED
    BY <2>1, <2>2, RecordsNoInput, InputRests
<1>39. ASSUME CloseStep
      PROVE  InputCounts'
  <2> DEFINE e == StepEnd(turn, step)
  <2>1. e \in Event /\ e.type # "user/message"
    BY <1>1, EventsAreEvents DEF StepEnd
  <2>2. Rests /\ Record(<<e>>)
    BY <1>39 DEF CloseStep, Rests, inputVars, stepVars
  <2> HIDE DEF e
  <2> QED
    BY <2>1, <2>2, RecordsNoInput, InputRests
<1>40. ASSUME StreamThrows
      PROVE  InputCounts'
  <2> DEFINE e == Attempt(turn, step)
  <2>1. e \in Event /\ e.type # "user/message"
    BY <1>1, EventsAreEvents DEF Attempt
  <2>2. Rests /\ Record(<<e>>)
    BY <1>40 DEF StreamThrows, Rests, StepThrows, inputVars, stepVars
  <2> HIDE DEF e
  <2> QED
    BY <2>1, <2>2, RecordsNoInput, InputRests
<1>41. ASSUME StreamFails
      PROVE  InputCounts'
  <2> DEFINE e == Attempt(turn, step)
  <2>1. e \in Event /\ e.type # "user/message"
    BY <1>1, EventsAreEvents DEF Attempt
  <2>2. Rests /\ Record(<<e>>)
    BY <1>41 DEF StreamFails, Rests, inputVars, stepVars
  <2> HIDE DEF e
  <2> QED
    BY <2>1, <2>2, RecordsNoInput, InputRests
<1>42. ASSUME NEW n \in CallIndex, StreamAsksForTools(n)
      PROVE  InputCounts'
  <2> DEFINE e == Assistant(turn, step, "tool-calls", n)
  <2>1. e \in Event /\ e.type # "user/message"
    BY <1>1, EventsAreEvents DEF Assistant
  <2>2. Rests /\ Record(<<e>>)
    BY <1>42 DEF StreamAsksForTools, Rests, inputVars
  <2> HIDE DEF e
  <2> QED
    BY <2>1, <2>2, RecordsNoInput, InputRests
<1>43. ASSUME ToolStart
      PROVE  InputCounts'
  <2> DEFINE e == ToolCall(turn, step, batch.started + 1)
  <2>1. e \in Event /\ e.type # "user/message"
    <3>1. batch.started + 1 \in CallIndex
      BY <1>43, BatchFields, MaxCallAssumption DEF ToolStart, Tools!Start, CallIndex
    <3> QED
      BY <1>1, <3>1, EventsAreEvents DEF ToolCall
  <2>2. Rests /\ Record(<<e>>)
    BY <1>43 DEF ToolStart, Rests, inputVars
  <2> HIDE DEF e
  <2> QED
    BY <2>1, <2>2, RecordsNoInput, InputRests
<1>44. ASSUME RecoverCall
      PROVE  InputCounts'
  <2>1. Rests /\ RecoverNext
    BY <1>44 DEF RecoverCall, Rests, inputVars, stepVars
  <2> QED
    BY <2>1, RecoversQuietly, InputRests
<1>45. ASSUME StreamInterrupted
      PROVE  InputCounts'
  <2>1. PICK e \in {Assistant(turn, step, "interrupted", 0), Attempt(turn, step)} :
          Record(<<e>>)
    BY <1>45 DEF StreamInterrupted, StepThrows
  <2>2. /\ Assistant(turn, step, "interrupted", 0) \in Event
        /\ Assistant(turn, step, "interrupted", 0).type = "assistant/message"
        /\ Attempt(turn, step) \in Event /\ Attempt(turn, step).type = "assistant/attempt"
    BY <1>1, EventsAreEvents DEF FinishKind, Assistant, Attempt
  <2>3. e \in Event /\ e.type # "user/message"
    BY <2>1, <2>2
  <2>4. Rests
    BY <1>45 DEF StreamInterrupted, Rests, inputVars, stepVars
  <2> QED
    BY <2>1, <2>3, <2>4, RecordsNoInput, InputRests
<1>46. ASSUME StreamCutOff
      PROVE  InputCounts'
  <2> DEFINE a == Assistant(turn, step, "max-tokens", 0)
  <2>1. a \in Event /\ a.type # "user/message"
    BY <1>1, EventsAreEvents DEF FinishKind, Assistant
  <2>2. Rests /\ Record(<<a>>)
    BY <1>46 DEF StreamCutOff, StepReturns, StepThrows, Rests, inputVars, stepVars
  <2> HIDE DEF a
  <2> QED
    BY <2>1, <2>2, RecordsNoInput, InputRests
<1>47. ASSUME StreamStops
      PROVE  InputCounts'
  <2> DEFINE a == Assistant(turn, step, "stop", 0)
  <2>1. a \in Event /\ a.type # "user/message"
    BY <1>1, EventsAreEvents DEF FinishKind, Assistant
  <2>2. Rests /\ Record(<<a>>)
    BY <1>47 DEF StreamStops, StepReturns, Rests, inputVars, stepVars
  <2> HIDE DEF a
  <2> QED
    BY <2>1, <2>2, RecordsNoInput, InputRests
<1>48. ASSUME ToolsFinish
      PROVE  InputCounts'
  <2>1. Rests /\ UNCHANGED log
    BY <1>48, RecordNothing DEF ToolsFinish, StepReturns, Rests, inputVars
  <2> QED
    BY <2>1, NothingIsQuiet, InputRests
<1>49. ASSUME Admit
      PROVE  InputCounts'
  <2>1. Rests /\ UNCHANGED log
    BY <1>49 DEF Admit, Rests, inputVars
  <2> QED
    BY <2>1, NothingIsQuiet, InputRests
<1>50. ASSUME AdmitMessage
      PROVE  InputCounts'
  BY <1>50, AdmitMoves
<1>51. ASSUME ToolCommit
      PROVE  InputCounts'
  BY <1>51, CommitDelivers
<1>52. ASSUME ToolSkip
      PROVE  InputCounts'
  <2>1. Rests
    BY <1>52 DEF ToolSkip, Rests, inputVars
  <2> QED
    BY <1>52, <2>1, SkipsQuietly, InputRests
<1>53. ASSUME Repair
      PROVE  InputCounts'
  <2>1. Rests
    BY <1>53 DEF Repair, Rests, inputVars, stepVars
  <2>2. OpenTurn(log) \in Nat /\ OpenStep(log) \in Nat
    BY <1>1, CursorTypes
  <2> DEFINE e == StepEnd(OpenTurn(log), OpenStep(log))
             f == TurnEnd(OpenTurn(log), "interrupted", "none")
  <2>3. e \in Event /\ e.type = "step/end" /\ f \in Event /\ f.type = "turn/end"
    BY <2>2, EventsAreEvents DEF StepEnd, TurnEnd, TurnEndKind
  <2>4. RecoverNext \/ Record(<<e>>) \/ Record(<<f>>)
    BY <1>53 DEF Repair
  <2> HIDE DEF e, f
  <2>5. Quiet
    BY <2>3, <2>4, RecoversQuietly, RecordsNoInput
  <2> QED
    BY <2>1, <2>5, InputRests
<1>54. CASE Clients
  <2>1. ASSUME NEW m \in Message, NEW t \in InboxTarget,
               \/ \E w \in BOOLEAN : Send(m, t, w)
               \/ InboxPrepend(t, m)
               \/ \E i \in 1 .. Len(inbox[t]) : InboxReplace(t, i, m)
        PROVE  InputCounts'
    BY <2>1, <1>2, <1>3, <1>4
  <2> QED
    BY <1>54, <2>1, <1>5, <1>6, <1>7 DEF Clients
<1>55. CASE Turn
  BY <1>55, <1>36, <1>12, <1>24, <1>21, <1>27, <1>28, <1>29, <1>31, <1>37, <1>25, <1>22, <1>23,
     <1>26, <1>30, <1>17 DEF Turn
<1>56. CASE Step
  BY <1>56, <1>44, <1>38, <1>39, <1>32, <1>49, <1>50, <1>33, <1>13, <1>45, <1>40, <1>41,
     <1>14, <1>34, <1>46, <1>47, <1>42 DEF Step
<1>57. CASE ToolPhase
  BY <1>57, <1>43, <1>51, <1>52, <1>48, <1>15, <1>35 DEF ToolPhase
<1> QED
  BY <1>8, <1>9, <1>10, <1>11, <1>16, <1>18, <1>19, <1>20, <1>53,
     <1>54, <1>55, <1>56, <1>57 DEF Next, Driver

(* A message a client used is admitted at most once, and while it waits it waits in
   one place: nothing the driver does, no inbox command, no cancel and no loss of
   the process delivers an input twice.  (inbox.claim, step's admission and the
   inbox commands together.) *)
THEOREM InputIsDeliveredOnce == Spec => []InputDeliveredOnce
<1>1. Init => InputCounts
  <2> SUFFICES ASSUME Init
               PROVE  InputCounts
    OBVIOUS
  <2>1. /\ inbox["next-turn"] = << >> /\ inbox["next-step"] = << >>
        /\ claimed = << >> /\ log = << >>
    BY DEF Init, Empty, InboxTarget
  <2>2. Admissions(<< >>) = {}
    BY DEF Admissions
  <2>3. Told(log) = {} /\ ToldOnce(log)
    BY <2>1, <2>2 DEF Told, ToldOnce
  <2> QED
    BY <2>1, <2>3, HeldNothing DEF InputCounts, InputFits, Apart
<1>2. Inv /\ Inv' /\ InputCounts /\ [Next]_vars => InputCounts'
  BY StepsDeliver DEF Inv
<1>3. Inv /\ InputCounts => InputDeliveredOnce
  BY CountsOnce DEF Inv
<1> QED
  BY <1>1, <1>2, <1>3, InvariantHolds, PTL DEF Spec
===============================================================================
