------------------------------ MODULE SessionLog ------------------------------
(***************************************************************************)
(* The durable session log: the boundary, input, assistant and tool events *)
(* the agent loop appends, and the questions the code asks of a log when   *)
(* it repairs one (packages/core/session/src/repair.ts).                   *)
(*                                                                         *)
(* A log is a sequence of events.  Every event is a record with the fields *)
(* type, turn and step, so that a query can read them without first asking *)
(* which event it holds; a field an event does not carry is 0 or "none".   *)
(* Inbox splices, headers and the other log-only events move no boundary   *)
(* and request no tool (repair.ts, the two `default` arms): they are left  *)
(* out.                                                                    *)
(***************************************************************************)
EXTENDS Integers, Sequences, FiniteSets

CONSTANTS
  Message,     \* user messages: identities, content is never looked at
  MaxCall      \* bound: tool calls one assistant message may request

ASSUME MaxCallAssumption == MaxCall \in Nat

CallIndex == 1 .. MaxCall    \* a tool call, by its position in its message

(* Why a turn ended; `interrupted` is only written by crash repair. *)
TurnEndKind ==
  {"completed", "max-tokens", "blocked", "error", "aborted", "interrupted"}

AgentCancelCause == {"user", "parent", "hook", "disposed"}

(* How an assistant message came to be settled. *)
FinishKind == {"stop", "tool-calls", "max-tokens", "interrupted"}

(* What a tool result reports. *)
ResultKind == {"ok", "aborted", "not-started", "outcome-unknown"}

-------------------------------------------------------------------------------
(* Events. *)

TurnStart(t)         == [type |-> "turn/start", turn |-> t, step |-> 0]
TurnEnd(t, k, c)     == [type |-> "turn/end", turn |-> t, step |-> 0,
                         kind |-> k, cause |-> c]
StepStart(t, s)      == [type |-> "step/start", turn |-> t, step |-> s]
StepEnd(t, s)        == [type |-> "step/end", turn |-> t, step |-> s]
UserMessage(t, s, m) == [type |-> "user/message", turn |-> t, step |-> s,
                         message |-> m]
Assistant(t, s, f, n) == [type |-> "assistant/message", turn |-> t, step |-> s,
                          finish |-> f, calls |-> n]
Attempt(t, s)        == [type |-> "assistant/attempt", turn |-> t, step |-> s]
ToolCall(t, s, c)    == [type |-> "tool/call", turn |-> t, step |-> s,
                         call |-> c]
ToolResult(t, s, c, r) == [type |-> "tool/result", turn |-> t, step |-> s,
                           call |-> c, result |-> r]

Event ==
       [type : {"turn/start"}, turn : Nat, step : {0}]
  \cup [type : {"turn/end"}, turn : Nat, step : {0}, kind : TurnEndKind,
        cause : AgentCancelCause \cup {"none"}]
  \cup [type : {"step/start", "step/end", "assistant/attempt"},
        turn : Nat, step : Nat]
  \cup [type : {"user/message"}, turn : Nat, step : Nat, message : Message]
  \cup [type : {"assistant/message"}, turn : Nat, step : Nat,
        finish : {"tool-calls"}, calls : CallIndex]
  \cup [type : {"assistant/message"}, turn : Nat, step : Nat,
        finish : FinishKind \ {"tool-calls"}, calls : {0}]
  \cup [type : {"tool/call"}, turn : Nat, step : Nat, call : CallIndex]
  \cup [type : {"tool/result"}, turn : Nat, step : Nat, call : CallIndex,
        result : ResultKind]

-------------------------------------------------------------------------------
(* Queries.  `l` is a log, positions are 1 .. Len(l). *)

Is(l, i, types) == l[i].type \in types

(* No event of the given types follows position i. *)
NoneAfter(l, i, types) == \A j \in i + 1 .. Len(l) : ~Is(l, j, types)

(* What a scan of the log remembers of `types` events if `until` events make
   it forget them. *)
Latest(l, types, until) ==
  {i \in 1 .. Len(l) : Is(l, i, types) /\ NoneAfter(l, i, until)}

(* The boundary cursor of openTurnClosers: the turn whose start is the last
   turn boundary, and the step opened in it that nothing closed; 0 if none. *)
TurnBoundary == {"turn/start", "turn/end"}
StepBoundary == {"step/start", "step/end"} \cup TurnBoundary

OpenTurns(l) == Latest(l, {"turn/start"}, TurnBoundary)
OpenSteps(l) == Latest(l, {"step/start"}, StepBoundary)

(* Slip: the step cursor is not kept, so repair closes a turn around its step. *)
NoOpenStep(l) == 0

OpenTurn(l) == IF OpenTurns(l) = {} THEN 0 ELSE l[CHOOSE i \in OpenTurns(l) : TRUE].turn
OpenStep(l) == IF OpenSteps(l) = {} THEN 0 ELSE l[CHOOSE i \in OpenSteps(l) : TRUE].step

(* The requests ToolCallRecovery still tracks after observing l: asked by an
   assistant message that no later boundary discarded, and not answered. *)
RecoveryReset == {"turn/start", "turn/end", "step/end"}

PendingRequests(l) == Latest(l, {"assistant/message"}, RecoveryReset)

Answered(l, i, c) ==
  \E j \in i + 1 .. Len(l) : Is(l, j, {"tool/result"}) /\ l[j].call = c

CallRecorded(l, i, c) ==
  \E j \in i + 1 .. Len(l) : Is(l, j, {"tool/call"}) /\ l[j].call = c

(* The tool calls a message asked for that have no result yet.  A step holds
   at most one message with tool calls. *)
Unanswered(l) ==
  {r \in PendingRequests(l) \X CallIndex :
     r[2] <= l[r[1]].calls /\ ~Answered(l, r[1], r[2])}

(* ToolCallRecovery.results: the error result of one unanswered request ... *)
RecoveryResult(l, i, c) ==
  ToolResult(l[i].turn, l[i].step, c,
             IF CallRecorded(l, i, c) THEN "outcome-unknown" ELSE "not-started")

(* ... those of all of them, in assistant order ... *)
Before(q, r) == q[1] < r[1] \/ (q[1] = r[1] /\ q[2] < r[2])

Nth(open, k) ==
  CHOOSE r \in open : Cardinality({q \in open : Before(q, r)}) = k - 1

Recovery(l) ==
  LET open == Unanswered(l)
  IN [k \in 1 .. Cardinality(open) |-> RecoveryResult(l, Nth(open, k)[1], Nth(open, k)[2])]

(* ... and the one that comes first. *)
IsNextUnanswered(l, r) == r \in Unanswered(l) /\ \A q \in Unanswered(l) : ~Before(q, r)

(* Slip: boundaries are closed, requests are not answered. *)
BoundaryClosers(l) ==
  IF OpenTurn(l) = 0 THEN << >>
  ELSE (IF OpenStep(l) = 0 THEN << >> ELSE << StepEnd(OpenTurn(l), OpenStep(l)) >>)
       \o << TurnEnd(OpenTurn(l), "interrupted", "none") >>

(* openTurnClosers for an interrupted log. *)
Closers(l) ==
  IF OpenTurn(l) = 0 THEN << >>
  ELSE Recovery(l)
       \o (IF OpenStep(l) = 0 THEN << >> ELSE << StepEnd(OpenTurn(l), OpenStep(l)) >>)
       \o << TurnEnd(OpenTurn(l), "interrupted", "none") >>

(* The turnBoundary projection's lastTurn: the last turn the log opened. *)
LastTurns(l) == Latest(l, {"turn/start"}, {"turn/start"})
LastTurn(l) == IF LastTurns(l) = {} THEN 0 ELSE l[CHOOSE i \in LastTurns(l) : TRUE].turn

-------------------------------------------------------------------------------
(* Well-formed logs. *)

LastEvent(l) == l[Len(l)]

SameTurn(e, f) == e.turn = f.turn
SameStep(e, f) == e.turn = f.turn /\ e.step = f.step

InStep == {"step/start", "user/message", "assistant/attempt", "assistant/message",
           "tool/call", "tool/result"}
Asking(e) == e.type = "assistant/message" /\ e.finish = "tool-calls"

(* May event f directly follow event e?  Turns are opened one after the other,
   each closed before the next; steps lie inside a turn, numbered from 1; in a
   step input comes before the model's attempts, attempts before the settled
   message, and only a message that asked for tools is followed by tool
   events. *)
Follows(e, f) ==
  \/ f.type = "turn/start" /\ e.type = "turn/end" /\ f.turn = e.turn + 1
  \/ f.type = "turn/end" /\ e.type \in {"turn/start", "step/end"} /\ SameTurn(e, f)
  \/ /\ f.type = "step/start" /\ e.type \in {"turn/start", "step/end"}
     /\ SameTurn(e, f) /\ f.step = e.step + 1
  \/ f.type = "step/end" /\ e.type \in InStep /\ SameStep(e, f)
  \/ f.type = "user/message" /\ e.type \in {"step/start", "user/message"} /\ SameStep(e, f)
  \/ /\ f.type \in {"assistant/attempt", "assistant/message"}
     /\ e.type \in {"step/start", "user/message", "assistant/attempt"} /\ SameStep(e, f)
  \/ /\ f.type \in {"tool/call", "tool/result"}
     /\ Asking(e) \/ e.type \in {"tool/call", "tool/result"}
     /\ SameStep(e, f)

WellFormed(l) ==
  /\ Len(l) > 0 => l[1] = TurnStart(1)
  /\ \A i \in 1 .. Len(l) - 1 : Follows(l[i], l[i + 1])

(* The boundary cursor is where the last event is: the open turn is its turn
   unless it ended one, the open step its step if it lies in one. *)
CursorFits(l) ==
  /\ l = << >> => OpenTurn(l) = 0 /\ OpenStep(l) = 0 /\ LastTurn(l) = 0
  /\ l # << >> =>
       LET e == LastEvent(l)
       IN /\ e.turn # 0 /\ (e.type \in InStep => e.step # 0)
          /\ LastTurn(l) = e.turn
          /\ OpenTurn(l) = IF e.type = "turn/end" THEN 0 ELSE e.turn
          /\ OpenStep(l) = IF e.type \in InStep THEN e.step ELSE 0

ToolEvent == {"tool/call", "tool/result"}

(* Requests waiting for an answer are those of the step the last event is in,
   and tool events may follow. *)
PendingFits(l) ==
  \A i \in PendingRequests(l) :
    /\ SameStep(l[i], LastEvent(l))
    /\ l[i].calls > 0 => Asking(LastEvent(l)) \/ LastEvent(l).type \in ToolEvent

LogFits(l) == WellFormed(l) /\ CursorFits(l) /\ PendingFits(l)

ResultsOf(l, i, c) ==
  {j \in 1 .. Len(l) : Is(l, j, {"tool/result"}) /\ SameStep(l[j], l[i]) /\ l[j].call = c}

(* Where a step has closed, each tool call its assistant message requested
   has exactly one result, and the results are in model order. *)
CallsAnswered(l) ==
  \A i \in {i \in 1 .. Len(l) : Is(l, i, {"assistant/message"}) /\ l[i].calls > 0} :
    \A k \in {k \in i .. Len(l) : Is(l, k, {"step/end"}) /\ SameStep(l[i], l[k])} :
      \A c \in 1 .. l[i].calls :
        \E j \in i .. k :
          /\ ResultsOf(l, i, c) = {j}
          /\ \A d \in 1 .. c - 1 : \A g \in ResultsOf(l, i, d) : g < j

(* A log a later request may be derived from. *)
Balanced(l) == OpenTurns(l) = {} /\ WellFormed(l) /\ CallsAnswered(l)
===============================================================================
