--------------------------- MODULE SessionLogProofs ---------------------------
(***************************************************************************)
(* What appending to a session log does to the questions asked of it: the  *)
(* scans of repair.ts over a longer log, in terms of the shorter one, and  *)
(* the invariant that ties their answers to the log's last event; what     *)
(* keeps every call of a message answered while events are appended; and   *)
(* that repair balances a log cut off anywhere.                            *)
(***************************************************************************)
EXTENDS SessionLog, SequenceTheorems, FiniteSetTheorems, WellFoundedInduction, TLAPS

-------------------------------------------------------------------------------
(* Scans. *)

(* A scan of a log with one more event either forgets, or remembers the new
   event, or answers as before.  (The switch of observe and of the cursor
   loop, repair.ts.) *)
LEMMA LatestAppend ==
  ASSUME NEW S, NEW l \in Seq(S), NEW e, NEW T, NEW U
  PROVE  Latest(Append(l, e), T, U) =
           (IF e.type \in U THEN {} ELSE Latest(l, T, U))
           \cup (IF e.type \in T THEN {Len(l) + 1} ELSE {})
<1> DEFINE k == Append(l, e)
<1>1. Len(k) = Len(l) + 1 /\ Len(l) \in Nat /\ k[Len(l) + 1] = e
  OBVIOUS
<1>2. \A i \in 1 .. Len(l) : k[i] = l[i]
  OBVIOUS
<1> HIDE DEF k
<1>3. \A i \in 1 .. Len(l) : NoneAfter(k, i, U) <=> NoneAfter(l, i, U) /\ e.type \notin U
  BY <1>1, <1>2 DEF NoneAfter, Is
<1>4. NoneAfter(k, Len(l) + 1, U)
  BY <1>1 DEF NoneAfter
<1>5. ASSUME NEW i \in 1 .. Len(l)
      PROVE  i \in Latest(k, T, U) <=> i \in Latest(l, T, U) /\ e.type \notin U
  BY <1>1, <1>2, <1>3 DEF Latest, Is
<1>6. Len(l) + 1 \in Latest(k, T, U) <=> e.type \in T
  BY <1>1, <1>4 DEF Latest, Is
<1>7. Latest(k, T, U) \subseteq 1 .. Len(l) + 1 /\ Latest(l, T, U) \subseteq 1 .. Len(l)
  BY <1>1 DEF Latest
<1> QED
  BY <1>1, <1>5, <1>6, <1>7 DEF k

(* Events a scan looks for no more than it resets on leave its answer alone. *)
LEMMA LatestConcat ==
  ASSUME NEW S, NEW l \in Seq(S), NEW s \in Seq(S), NEW T, NEW U,
         \A i \in 1 .. Len(s) : s[i].type \notin T /\ s[i].type \notin U
  PROVE  Latest(l \o s, T, U) = Latest(l, T, U)
<1> DEFINE k == l \o s
<1>1. Len(k) = Len(l) + Len(s) /\ Len(l) \in Nat /\ Len(s) \in Nat
  OBVIOUS
<1>2. \A i \in 1 .. Len(l) : k[i] = l[i]
  OBVIOUS
<1>3. \A i \in Len(l) + 1 .. Len(k) : k[i].type \notin T /\ k[i].type \notin U
  <2> SUFFICES ASSUME NEW i \in Len(l) + 1 .. Len(k)
               PROVE  k[i].type \notin T /\ k[i].type \notin U
    OBVIOUS
  <2>1. k[i] = s[i - Len(l)] /\ i - Len(l) \in 1 .. Len(s)
    BY <1>1
  <2> QED
    BY <2>1
<1> HIDE DEF k
<1>4. \A i \in 1 .. Len(l) : NoneAfter(k, i, U) <=> NoneAfter(l, i, U)
  BY <1>1, <1>2, <1>3 DEF NoneAfter, Is
<1>5. \A i \in 1 .. Len(l) : i \in Latest(k, T, U) <=> i \in Latest(l, T, U)
  BY <1>1, <1>2, <1>4 DEF Latest, Is
<1>6. \A i \in Len(l) + 1 .. Len(k) : i \notin Latest(k, T, U)
  BY <1>3 DEF Latest, Is
<1>7. Latest(k, T, U) \subseteq 1 .. Len(k) /\ Latest(l, T, U) \subseteq 1 .. Len(l)
  BY DEF Latest
<1>8. Latest(k, T, U) \subseteq 1 .. Len(l)
  BY <1>1, <1>6, <1>7
<1>9. Latest(k, T, U) = Latest(l, T, U)
  BY <1>5, <1>7, <1>8
<1> QED
  BY <1>9 DEF k

(* The fields a scan reads are there. *)
LEMMA EventFields ==
  ASSUME NEW e \in Event
  PROVE  /\ e.turn \in Nat /\ e.step \in Nat
         /\ e.type \in StepBoundary \cup InStep
         /\ e.type \in TurnBoundary => e.step = 0
         /\ e.type = "assistant/message" => e.calls \in 0 .. MaxCall
         /\ e.type = "assistant/message" /\ e.calls > 0 => Asking(e)
  BY MaxCallAssumption
  DEF Event, StepBoundary, TurnBoundary, InStep, Asking, CallIndex

(* The events the driver and repair record. *)
LEMMA EventsAreEvents ==
  ASSUME NEW t \in Nat, NEW s \in Nat
  PROVE  /\ TurnStart(t) \in Event
         /\ \A k \in TurnEndKind, c \in AgentCancelCause \cup {"none"} : TurnEnd(t, k, c) \in Event
         /\ StepStart(t, s) \in Event /\ StepEnd(t, s) \in Event /\ Attempt(t, s) \in Event
         /\ \A m \in Message : UserMessage(t, s, m) \in Event
         /\ \A f \in FinishKind \ {"tool-calls"} : Assistant(t, s, f, 0) \in Event
         /\ \A n \in CallIndex : Assistant(t, s, "tool-calls", n) \in Event
         /\ \A c \in CallIndex : ToolCall(t, s, c) \in Event
         /\ \A c \in CallIndex, r \in ResultKind : ToolResult(t, s, c, r) \in Event
<1>1. TurnStart(t) \in Event
  BY DEF TurnStart, Event
<1>2. \A k \in TurnEndKind, c \in AgentCancelCause \cup {"none"} : TurnEnd(t, k, c) \in Event
  BY DEF TurnEnd, Event
<1>3. StepStart(t, s) \in Event /\ StepEnd(t, s) \in Event /\ Attempt(t, s) \in Event
  BY DEF StepStart, StepEnd, Attempt, Event
<1>4. \A m \in Message : UserMessage(t, s, m) \in Event
  BY DEF UserMessage, Event
<1>5. \A f \in FinishKind \ {"tool-calls"} : Assistant(t, s, f, 0) \in Event
  BY DEF Assistant, Event
<1>6. \A n \in CallIndex : Assistant(t, s, "tool-calls", n) \in Event
  BY DEF Assistant, Event
<1>7. \A c \in CallIndex : ToolCall(t, s, c) \in Event
  BY DEF ToolCall, Event
<1>8. \A c \in CallIndex, r \in ResultKind : ToolResult(t, s, c, r) \in Event
  BY DEF ToolResult, Event
<1> QED
  BY <1>1, <1>2, <1>3, <1>4, <1>5, <1>6, <1>7, <1>8

(* The result repair gives a request is an event of the request's step. *)
LEMMA RecoveryResultIsEvent ==
  ASSUME NEW l \in Seq(Event), NEW r \in Unanswered(l)
  PROVE  /\ r[1] \in PendingRequests(l) /\ r[1] \in 1 .. Len(l)
         /\ RecoveryResult(l, r[1], r[2]) \in Event
         /\ RecoveryResult(l, r[1], r[2]).type = "tool/result"
         /\ SameStep(l[r[1]], RecoveryResult(l, r[1], r[2]))
         /\ l[r[1]].calls > 0
<1>1. r[1] \in PendingRequests(l) /\ r[2] \in CallIndex /\ r[2] <= l[r[1]].calls
  BY DEF Unanswered
<1>2. r[1] \in 1 .. Len(l) /\ l[r[1]].type = "assistant/message"
  BY <1>1 DEF PendingRequests, Latest, Is
<1>3. l[r[1]] \in Event
  BY <1>2
<1>4. l[r[1]].turn \in Nat /\ l[r[1]].step \in Nat /\ l[r[1]].calls \in 0 .. MaxCall
  BY <1>2, <1>3, EventFields
<1>5. RecoveryResult(l, r[1], r[2]) \in Event
  BY <1>1, <1>4, EventsAreEvents DEF RecoveryResult, ResultKind
<1> QED
  BY <1>1, <1>2, <1>4, <1>5, MaxCallAssumption DEF RecoveryResult, ToolResult, SameStep, CallIndex

-------------------------------------------------------------------------------
(* The invariant of a log the agent loop writes: LogFits. *)

(* A log starts with its first turn. *)
LEMMA EmptyFits == LogFits(<< >>)
  BY DEF LogFits, WellFormed, CursorFits, PendingFits, OpenTurn, OpenStep, LastTurn,
         OpenTurns, OpenSteps, LastTurns, PendingRequests, Latest

(* So does the log of a first turn alone. *)
LEMMA FirstTurnFits == LogFits(<<TurnStart(1)>>)
<1> DEFINE l == <<TurnStart(1)>>
<1>1. Len(l) = 1 /\ l[1] = TurnStart(1) /\ LastEvent(l) = l[1]
  BY DEF LastEvent
<1>2. l[1].type = "turn/start" /\ l[1].turn = 1
  BY DEF TurnStart
<1> HIDE DEF l
<1>3. \A i \in 1 .. Len(l) : i = 1
  BY <1>1
<1>4. OpenTurns(l) = {1} /\ OpenSteps(l) = {} /\ LastTurns(l) = {1} /\ PendingRequests(l) = {}
  BY <1>1, <1>2, <1>3
  DEF OpenTurns, OpenSteps, LastTurns, PendingRequests, Latest, NoneAfter, Is
<1>5. OpenTurn(l) = 1 /\ OpenStep(l) = 0 /\ LastTurn(l) = 1
  BY <1>2, <1>4 DEF OpenTurn, OpenStep, LastTurn
<1>6. CursorFits(l)
  BY <1>1, <1>2, <1>5 DEF CursorFits, InStep
<1>7. WellFormed(l)
  BY <1>1 DEF WellFormed
<1> QED
  BY <1>4, <1>6, <1>7 DEF LogFits, PendingFits, l

(* Well-formedness is a matter of neighbours. *)
LEMMA WellFormedConcat ==
  ASSUME NEW l \in Seq(Event), NEW s \in Seq(Event), l # << >>, s # << >>,
         WellFormed(l), Follows(LastEvent(l), s[1]),
         \A i \in 1 .. Len(s) - 1 : Follows(s[i], s[i + 1])
  PROVE  WellFormed(l \o s)
<1> DEFINE k == l \o s
<1>1. Len(k) = Len(l) + Len(s) /\ Len(l) \in Nat \ {0} /\ Len(s) \in Nat \ {0}
  OBVIOUS
<1>2. \A i \in 1 .. Len(l) : k[i] = l[i]
  OBVIOUS
<1>3. \A i \in 1 .. Len(s) : k[Len(l) + i] = s[i]
  OBVIOUS
<1> HIDE DEF k
<1>4. k[1] = TurnStart(1)
  BY <1>1, <1>2 DEF WellFormed
<1>5. ASSUME NEW i \in 1 .. Len(k) - 1
      PROVE  Follows(k[i], k[i + 1])
  <2>1. CASE i < Len(l)
    <3>1. i \in 1 .. Len(l) - 1 /\ k[i] = l[i] /\ k[i + 1] = l[i + 1]
      BY <1>1, <1>2, <2>1
    <3> QED
      BY <3>1 DEF WellFormed
  <2>2. CASE i = Len(l)
    <3>1. k[i] = LastEvent(l) /\ k[i + 1] = s[1]
      BY <1>1, <1>2, <1>3, <2>2 DEF LastEvent
    <3> QED
      BY <3>1
  <2>3. CASE i > Len(l)
    <3> DEFINE j == i - Len(l)
    <3>1. j \in 1 .. Len(s) - 1 /\ j + 1 \in 1 .. Len(s) /\ j \in 1 .. Len(s)
      BY <1>1, <2>3
    <3>2. i = Len(l) + j /\ i + 1 = Len(l) + (j + 1)
      BY <1>1
    <3> HIDE DEF j
    <3>3. k[Len(l) + j] = s[j] /\ k[Len(l) + (j + 1)] = s[j + 1]
      BY <1>3, <3>1
    <3>4. k[i] = s[j] /\ k[i + 1] = s[j + 1]
      BY <3>2, <3>3
    <3> QED
      BY <3>1, <3>4
  <2> QED
    BY <1>1, <2>1, <2>2, <2>3
<1> QED
  BY <1>4, <1>5 DEF WellFormed, k

(* One more event the grammar allows keeps the log fit.  (Every append of the
   driver, and of repair.) *)
LEMMA AppendFits ==
  ASSUME NEW l \in Seq(Event), NEW e \in Event, l # << >>, LogFits(l),
         Follows(LastEvent(l), e)
  PROVE  LogFits(Append(l, e))
<1> DEFINE k == Append(l, e)
           d == LastEvent(l)
<1>1. k \in Seq(Event) /\ Len(k) = Len(l) + 1 /\ Len(l) \in Nat \ {0} /\ k # << >>
  OBVIOUS
<1>2. \A i \in 1 .. Len(l) : k[i] = l[i]
  OBVIOUS
<1>3. LastEvent(k) = e /\ k[Len(l) + 1] = e
  BY <1>1 DEF LastEvent
<1>4. d \in Event
  BY <1>1 DEF LastEvent
<1>5. WellFormed(k)
  <2> DEFINE s == <<e>>
  <2>1. k = l \o s /\ s \in Seq(Event) /\ s # << >> /\ Len(s) = 1 /\ s[1] = e
    OBVIOUS
  <2>2. WellFormed(l)
    BY DEF LogFits
  <2> HIDE DEF s, k
  <2>3. \A i \in 1 .. Len(s) - 1 : Follows(s[i], s[i + 1])
    BY <2>1
  <2> QED
    BY <2>1, <2>2, <2>3, WellFormedConcat
<1> HIDE DEF k
<1>6. /\ OpenTurns(k) = (IF e.type \in TurnBoundary THEN {} ELSE OpenTurns(l))
                        \cup (IF e.type = "turn/start" THEN {Len(l) + 1} ELSE {})
      /\ OpenSteps(k) = (IF e.type \in StepBoundary THEN {} ELSE OpenSteps(l))
                        \cup (IF e.type = "step/start" THEN {Len(l) + 1} ELSE {})
      /\ LastTurns(k) = IF e.type = "turn/start" THEN {Len(l) + 1} ELSE LastTurns(l)
      /\ PendingRequests(k) = (IF e.type \in RecoveryReset THEN {} ELSE PendingRequests(l))
                        \cup (IF e.type = "assistant/message" THEN {Len(l) + 1} ELSE {})
  <2>1. \A T, U : Latest(k, T, U) = (IF e.type \in U THEN {} ELSE Latest(l, T, U))
                                   \cup (IF e.type \in T THEN {Len(l) + 1} ELSE {})
    BY LatestAppend DEF k
  <2>2. OpenTurns(k) = (IF e.type \in TurnBoundary THEN {} ELSE OpenTurns(l))
                       \cup (IF e.type = "turn/start" THEN {Len(l) + 1} ELSE {})
    BY <2>1 DEF OpenTurns
  <2>3. OpenSteps(k) = (IF e.type \in StepBoundary THEN {} ELSE OpenSteps(l))
                       \cup (IF e.type = "step/start" THEN {Len(l) + 1} ELSE {})
    BY <2>1 DEF OpenSteps
  <2>4. LastTurns(k) = IF e.type = "turn/start" THEN {Len(l) + 1} ELSE LastTurns(l)
    <3>1. LastTurns(k) = (IF e.type \in {"turn/start"} THEN {} ELSE LastTurns(l))
                         \cup (IF e.type \in {"turn/start"} THEN {Len(l) + 1} ELSE {})
      BY <2>1 DEF LastTurns
    <3> QED
      BY <3>1
  <2>5. PendingRequests(k) = (IF e.type \in RecoveryReset THEN {} ELSE PendingRequests(l))
                        \cup (IF e.type = "assistant/message" THEN {Len(l) + 1} ELSE {})
    BY <2>1 DEF PendingRequests
  <2> QED
    BY <2>2, <2>3, <2>4, <2>5
<1>7. /\ OpenTurns(l) \subseteq 1 .. Len(l) /\ OpenSteps(l) \subseteq 1 .. Len(l)
      /\ LastTurns(l) \subseteq 1 .. Len(l) /\ PendingRequests(l) \subseteq 1 .. Len(l)
  BY DEF OpenTurns, OpenSteps, LastTurns, PendingRequests, Latest
<1>8. OpenTurn(k) = IF e.type = "turn/start" THEN e.turn
                    ELSE IF e.type = "turn/end" THEN 0 ELSE OpenTurn(l)
  <2>1. CASE e.type = "turn/start"
    BY <1>3, <1>6, <2>1 DEF OpenTurn, TurnBoundary
  <2>2. CASE e.type = "turn/end"
    BY <1>6, <2>2 DEF OpenTurn, TurnBoundary
  <2>3. CASE e.type \notin TurnBoundary
    <3>1. OpenTurns(k) = OpenTurns(l)
      BY <1>6, <2>3 DEF TurnBoundary
    <3>2. OpenTurns(l) # {} => (CHOOSE i \in OpenTurns(l) : TRUE) \in 1 .. Len(l)
      BY <1>7
    <3> QED
      BY <1>2, <2>3, <3>1, <3>2 DEF OpenTurn, TurnBoundary
  <2> QED
    BY <2>1, <2>2, <2>3 DEF TurnBoundary
<1>9. OpenStep(k) = IF e.type = "step/start" THEN e.step
                    ELSE IF e.type \in StepBoundary THEN 0 ELSE OpenStep(l)
  <2>1. CASE e.type = "step/start"
    BY <1>3, <1>6, <2>1 DEF OpenStep, StepBoundary
  <2>2. CASE e.type \in StepBoundary \ {"step/start"}
    BY <1>6, <2>2 DEF OpenStep
  <2>3. CASE e.type \notin StepBoundary
    <3>1. OpenSteps(k) = OpenSteps(l) /\ e.type # "step/start"
      BY <1>6, <2>3 DEF StepBoundary
    <3>2. OpenSteps(l) # {} => (CHOOSE i \in OpenSteps(l) : TRUE) \in 1 .. Len(l)
      BY <1>7
    <3> QED
      BY <1>2, <2>3, <3>1, <3>2 DEF OpenStep
  <2> QED
    BY <2>1, <2>2, <2>3
<1>10. LastTurn(k) = IF e.type = "turn/start" THEN e.turn ELSE LastTurn(l)
  <2>1. CASE e.type = "turn/start"
    BY <1>3, <1>6, <2>1 DEF LastTurn
  <2>2. CASE e.type # "turn/start"
    <3>1. LastTurns(l) # {} => (CHOOSE i \in LastTurns(l) : TRUE) \in 1 .. Len(l)
      BY <1>7
    <3> QED
      BY <1>2, <1>6, <2>2, <3>1 DEF LastTurn
  <2> QED
    BY <2>1, <2>2
<1>11. /\ d.turn # 0 /\ (d.type \in InStep => d.step # 0)
       /\ LastTurn(l) = d.turn
       /\ OpenTurn(l) = IF d.type = "turn/end" THEN 0 ELSE d.turn
       /\ OpenStep(l) = IF d.type \in InStep THEN d.step ELSE 0
  BY DEF LogFits, CursorFits
<1>12. CursorFits(k)
  BY <1>1, <1>3, <1>4, <1>8, <1>9, <1>10, <1>11, EventFields
  DEF CursorFits, Follows, SameTurn, SameStep, InStep, StepBoundary, TurnBoundary, Asking
<1>13. PendingFits(k)
  <2> SUFFICES ASSUME NEW i \in PendingRequests(k)
               PROVE  /\ SameStep(k[i], e)
                      /\ k[i].calls > 0 => Asking(e) \/ e.type \in ToolEvent
    BY <1>3 DEF PendingFits
  <2>1. CASE i = Len(l) + 1
    <3>1. e.type = "assistant/message" /\ k[i] = e
      BY <1>3, <1>6, <1>7, <2>1
    <3> QED
      BY <3>1, EventFields DEF SameStep
  <2>2. CASE i # Len(l) + 1
    <3>1. e.type \notin RecoveryReset /\ i \in PendingRequests(l) /\ k[i] = l[i]
      BY <1>2, <1>6, <1>7, <2>2
    <3>2. SameStep(l[i], d) /\ (l[i].calls > 0 => Asking(d) \/ d.type \in ToolEvent)
      BY <3>1 DEF LogFits, PendingFits
    <3>3. d.type \notin RecoveryReset
      <4>1. l[i].type = "assistant/message" /\ i \in 1 .. Len(l) /\ NoneAfter(l, i, RecoveryReset)
        BY <3>1 DEF PendingRequests, Latest, Is
      <4>2. CASE i = Len(l)
        BY <4>1, <4>2 DEF LastEvent, RecoveryReset
      <4>3. CASE i # Len(l)
        BY <1>1, <4>1, <4>3 DEF LastEvent, NoneAfter, Is
      <4> QED
        BY <4>2, <4>3
    <3>4. SameStep(d, e)
      BY <3>1, <3>3 DEF Follows, RecoveryReset, SameStep
    <3>5. Asking(d) \/ d.type \in ToolEvent => e.type \in ToolEvent
      BY <3>1, <3>3, <1>4, EventFields
      DEF Follows, RecoveryReset, Asking, ToolEvent, InStep
    <3> QED
      BY <3>1, <3>2, <3>4, <3>5 DEF SameStep
  <2> QED
    BY <2>1, <2>2
<1> QED
  BY <1>5, <1>12, <1>13 DEF LogFits, k

(* So does a run of input, or of tool events, of the step the log is in.
   (Admission of a claimed batch; the synthetic results of an abort.) *)
LEMMA ConcatFits ==
  ASSUME NEW l \in Seq(Event), NEW s \in Seq(Event), l # << >>, s # << >>, LogFits(l),
         Follows(LastEvent(l), s[1]),
         \A i \in 1 .. Len(s) - 1 : Follows(s[i], s[i + 1]),
         \A i \in 1 .. Len(s) : SameStep(s[i], LastEvent(l)),
         \/ \A i \in 1 .. Len(s) : s[i].type = "user/message"
         \/ \A i \in 1 .. Len(s) : s[i].type \in ToolEvent
  PROVE  LogFits(l \o s)
<1> DEFINE k == l \o s
           d == LastEvent(l)
           e == s[Len(s)]
<1>1. /\ Len(k) = Len(l) + Len(s) /\ Len(l) \in Nat \ {0} /\ Len(s) \in Nat \ {0}
      /\ k # << >>
  OBVIOUS
<1>2. \A i \in 1 .. Len(l) : k[i] = l[i]
  OBVIOUS
<1>3. LastEvent(k) = e /\ e \in Event
  BY <1>1 DEF LastEvent
<1>4. WellFormed(k)
  BY WellFormedConcat DEF LogFits
<1>5. \A i \in 1 .. Len(s) : s[i].type \notin StepBoundary \cup RecoveryReset \cup {"assistant/message"}
  BY DEF StepBoundary, TurnBoundary, RecoveryReset, ToolEvent
<1> HIDE DEF k
<1>6. \A T, U : T \cup U \subseteq StepBoundary \cup RecoveryReset \cup {"assistant/message"}
                 => Latest(k, T, U) = Latest(l, T, U)
  <2> SUFFICES ASSUME NEW T, NEW U,
                      T \cup U \subseteq StepBoundary \cup RecoveryReset \cup {"assistant/message"}
               PROVE  Latest(k, T, U) = Latest(l, T, U)
    OBVIOUS
  <2>1. \A i \in 1 .. Len(s) : s[i].type \notin T /\ s[i].type \notin U
    BY <1>5
  <2> QED
    BY <2>1, LatestConcat DEF k
<1>7. /\ OpenTurns(k) = OpenTurns(l)
      /\ OpenSteps(k) = OpenSteps(l)
      /\ LastTurns(k) = LastTurns(l)
      /\ PendingRequests(k) = PendingRequests(l)
  <2>1. OpenTurns(k) = OpenTurns(l)
    BY <1>6 DEF OpenTurns, StepBoundary, TurnBoundary
  <2>2. OpenSteps(k) = OpenSteps(l)
    BY <1>6 DEF OpenSteps, StepBoundary, TurnBoundary
  <2>3. LastTurns(k) = LastTurns(l)
    BY <1>6 DEF LastTurns, StepBoundary, TurnBoundary
  <2>4. PendingRequests(k) = PendingRequests(l)
    BY <1>6 DEF PendingRequests, RecoveryReset
  <2> QED
    BY <2>1, <2>2, <2>3, <2>4
<1>8. /\ OpenTurns(l) \subseteq 1 .. Len(l) /\ OpenSteps(l) \subseteq 1 .. Len(l)
      /\ LastTurns(l) \subseteq 1 .. Len(l) /\ PendingRequests(l) \subseteq 1 .. Len(l)
  BY DEF OpenTurns, OpenSteps, LastTurns, PendingRequests, Latest
<1>9. OpenTurn(k) = OpenTurn(l) /\ OpenStep(k) = OpenStep(l) /\ LastTurn(k) = LastTurn(l)
  <2>1. \A I \in SUBSET (1 .. Len(l)) : I # {} => (CHOOSE i \in I : TRUE) \in 1 .. Len(l)
    OBVIOUS
  <2>2. OpenTurn(k) = OpenTurn(l)
    BY <1>2, <1>7, <1>8, <2>1 DEF OpenTurn
  <2>3. OpenStep(k) = OpenStep(l)
    BY <1>2, <1>7, <1>8, <2>1 DEF OpenStep
  <2>4. LastTurn(k) = LastTurn(l)
    BY <1>2, <1>7, <1>8, <2>1 DEF LastTurn
  <2> QED
    BY <2>2, <2>3, <2>4
<1>10. SameStep(e, d) /\ e.type \in InStep /\ e.type # "turn/end" /\ e.type # "assistant/message"
  BY <1>1 DEF InStep, ToolEvent
<1>11. d.type \in InStep
  <2>1. s[1].type \in {"user/message"} \cup ToolEvent
    BY <1>1
  <2> QED
    BY <2>1 DEF Follows, InStep, Asking, ToolEvent
<1>12. CursorFits(k)
  BY <1>1, <1>3, <1>9, <1>10, <1>11 DEF LogFits, CursorFits, SameStep, InStep
<1>13. PendingFits(k)
  <2> SUFFICES ASSUME NEW i \in PendingRequests(l)
               PROVE  /\ SameStep(k[i], e)
                      /\ k[i].calls > 0 => Asking(e) \/ e.type \in ToolEvent
    BY <1>3, <1>7 DEF PendingFits
  <2>1. /\ k[i] = l[i] /\ SameStep(l[i], d)
        /\ l[i].calls > 0 => Asking(d) \/ d.type \in ToolEvent
    BY <1>2, <1>8 DEF LogFits, PendingFits
  <2>2. Asking(d) \/ d.type \in ToolEvent => s[1].type # "user/message"
    BY DEF Follows, Asking, ToolEvent
  <2>3. s[1].type # "user/message" => e.type \in ToolEvent
    BY <1>1
  <2> QED
    BY <1>10, <2>1, <2>2, <2>3 DEF SameStep
<1> QED
  BY <1>4, <1>12, <1>13 DEF LogFits, k

-------------------------------------------------------------------------------
(* The answers to tool calls. *)

(* May event f come after event e, at any distance?  Turns and steps are numbered
   in the order they are recorded in, and what has ended is over. *)
Precedes(e, f) ==
  \/ e.turn < f.turn
  \/ /\ e.turn = f.turn /\ e.type # "turn/end"
     /\ \/ f.type = "turn/end"
        \/ /\ f.type \notin {"turn/start", "turn/end"}
           /\ IF e.type = "step/end" THEN e.step < f.step ELSE e.step <= f.step

InOrder(l) == \A i \in 1 .. Len(l) : \A j \in i + 1 .. Len(l) : Precedes(l[i], l[j])

(* The messages that ask for tools. *)
Asks(l, i) == Is(l, i, {"assistant/message"}) /\ l[i].calls > 0

(* The first d calls of a message have their results, one each and in model order;
   the others have none. *)
AnsweredTo(l, i, d) ==
  /\ d \in 0 .. l[i].calls
  /\ \A c \in 1 .. d :
       \E j \in i + 1 .. Len(l) :
         /\ ResultsOf(l, i, c) = {j}
         /\ \A b \in 1 .. c - 1 : \A g \in ResultsOf(l, i, b) : g < j
  /\ \A c \in d + 1 .. l[i].calls : ResultsOf(l, i, c) = {}

(* A step that has no settled answer yet holds no request and no result; a step
   holds one message that asks for tools; a message is answered up to some call,
   and completely unless its step is still open. *)
Unsettled == {"step/start", "user/message", "assistant/attempt"}

OneAnswer(l) ==
  /\ \A i \in 1 .. Len(l) :
       LastEvent(l).type \in Unsettled /\ SameStep(l[i], LastEvent(l)) =>
         ~Is(l, i, {"assistant/message", "tool/result"})
  /\ \A i, j \in 1 .. Len(l) : Asks(l, i) /\ Asks(l, j) /\ SameStep(l[i], l[j]) => i = j

Answering(l) ==
  \A i \in 1 .. Len(l) : Asks(l, i) =>
    \E d \in 0 .. l[i].calls :
      /\ AnsweredTo(l, i, d)
      /\ d < l[i].calls => LastEvent(l).type \in InStep /\ SameStep(l[i], LastEvent(l))

AnswersFit(l) == InOrder(l) /\ OneAnswer(l) /\ Answering(l)

(* What follows the last event comes after everything before it. *)
LEMMA PrecedesTransitively ==
  ASSUME NEW e \in Event, NEW f \in Event, NEW g \in Event, Precedes(e, f), Precedes(f, g)
  PROVE  Precedes(e, g)
<1>1. /\ e.turn \in Nat /\ f.turn \in Nat /\ g.turn \in Nat
      /\ e.step \in Nat /\ f.step \in Nat /\ g.step \in Nat
  BY EventFields
<1>2. CASE e.turn < f.turn \/ f.turn < g.turn
  BY <1>1, <1>2 DEF Precedes
<1>3. CASE e.turn = f.turn /\ f.turn = g.turn
  BY <1>1, <1>3 DEF Precedes
<1> QED
  BY <1>1, <1>2, <1>3 DEF Precedes

LEMMA FollowsPrecedes ==
  ASSUME NEW e \in Event, NEW f \in Event, Follows(e, f)
  PROVE  Precedes(e, f)
<1>1. e.turn \in Nat /\ f.turn \in Nat /\ e.step \in Nat /\ f.step \in Nat
  BY EventFields
<1> QED
  BY <1>1 DEF Precedes, Follows, SameTurn, SameStep, InStep, Asking

(* The results of a call in a log with one more event. *)
LEMMA ResultsAppend ==
  ASSUME NEW l \in Seq(Event), NEW e \in Event, NEW i \in 1 .. Len(l), NEW c
  PROVE  ResultsOf(Append(l, e), i, c) =
           ResultsOf(l, i, c) \cup
           IF e.type = "tool/result" /\ SameStep(e, l[i]) /\ e.call = c THEN {Len(l) + 1} ELSE {}
<1> DEFINE k == Append(l, e)
<1>1. Len(k) = Len(l) + 1 /\ Len(l) \in Nat /\ k[Len(l) + 1] = e
  OBVIOUS
<1>2. \A j \in 1 .. Len(l) : k[j] = l[j]
  OBVIOUS
<1> HIDE DEF k
<1>3. \A j \in 1 .. Len(l) : j \in ResultsOf(k, i, c) <=> j \in ResultsOf(l, i, c)
  BY <1>1, <1>2 DEF ResultsOf, Is
<1>4. Len(l) + 1 \in ResultsOf(k, i, c)
        <=> e.type = "tool/result" /\ SameStep(e, l[i]) /\ e.call = c
  BY <1>1, <1>2 DEF ResultsOf, Is
<1>5. ResultsOf(k, i, c) \subseteq 1 .. Len(l) + 1 /\ ResultsOf(l, i, c) \subseteq 1 .. Len(l)
  BY <1>1 DEF ResultsOf
<1> QED
  BY <1>1, <1>3, <1>4, <1>5 DEF k

(* A log in order stays so. *)
LEMMA OrderAppend ==
  ASSUME NEW l \in Seq(Event), l # << >>, NEW e \in Event, InOrder(l), Follows(LastEvent(l), e)
  PROVE  /\ InOrder(Append(l, e))
         /\ \A i \in 1 .. Len(l) : Precedes(l[i], e)
<1> DEFINE k == Append(l, e)
<1>1. Len(k) = Len(l) + 1 /\ Len(l) \in Nat /\ k[Len(l) + 1] = e
  OBVIOUS
<1>2. \A j \in 1 .. Len(l) : k[j] = l[j] /\ l[j] \in Event
  OBVIOUS
<1>3. LastEvent(l) \in Event /\ LastEvent(l) = l[Len(l)] /\ Len(l) \in 1 .. Len(l)
  BY DEF LastEvent
<1> HIDE DEF k
<1>4. Precedes(LastEvent(l), e)
  BY <1>3, FollowsPrecedes
<1>5. ASSUME NEW i \in 1 .. Len(l)
      PROVE  Precedes(l[i], e)
  <2>1. CASE i = Len(l)
    BY <1>3, <1>4, <2>1
  <2>2. CASE i # Len(l)
    <3>1. Len(l) \in i + 1 .. Len(l)
      BY <1>1, <2>2
    <3>2. Precedes(l[i], LastEvent(l))
      BY <1>3, <3>1 DEF InOrder
    <3> QED
      BY <1>2, <1>3, <1>4, <3>2, PrecedesTransitively
  <2> QED
    BY <2>1, <2>2
<1>6. ASSUME NEW i \in 1 .. Len(k), NEW j \in i + 1 .. Len(k)
      PROVE  Precedes(k[i], k[j])
  <2>1. i \in 1 .. Len(l)
    BY <1>1
  <2>2. CASE j = Len(k)
    BY <1>1, <1>2, <1>5, <2>1, <2>2
  <2>3. CASE j # Len(k)
    <3>1. j \in i + 1 .. Len(l) /\ j \in 1 .. Len(l)
      BY <1>1, <2>3
    <3> QED
      BY <1>2, <2>1, <3>1 DEF InOrder
  <2> QED
    BY <2>2, <2>3
<1> QED
  BY <1>5, <1>6 DEF InOrder, k

(* The last event of a log and the rest of it. *)
LEMMA AppendLooks ==
  ASSUME NEW l \in Seq(Event), NEW e \in Event
  PROVE  /\ Append(l, e) \in Seq(Event) /\ Append(l, e) # << >>
         /\ Len(Append(l, e)) = Len(l) + 1 /\ Len(l) \in Nat
         /\ Append(l, e)[Len(l) + 1] = e
         /\ \A i \in 1 .. Len(l) : Append(l, e)[i] = l[i] /\ l[i] \in Event
         /\ LastEvent(Append(l, e)) = e
  BY DEF LastEvent

(* Events that are not results of its calls leave a message as it is answered. *)
LEMMA AnsweredStays ==
  ASSUME NEW l \in Seq(Event), NEW e \in Event, NEW i \in 1 .. Len(l), NEW d \in Nat,
         l[i].calls \in Nat, AnsweredTo(l, i, d),
         ~(e.type = "tool/result" /\ SameStep(e, l[i]) /\ e.call \in 1 .. l[i].calls)
  PROVE  AnsweredTo(Append(l, e), i, d)
<1> DEFINE k == Append(l, e)
<1>1. Len(k) = Len(l) + 1 /\ Len(l) \in Nat /\ k[i] = l[i]
  OBVIOUS
<1>2. ASSUME NEW c \in 1 .. l[i].calls
      PROVE  ResultsOf(k, i, c) = ResultsOf(l, i, c)
  <2>1. ResultsOf(k, i, c) = ResultsOf(l, i, c) \cup
          IF e.type = "tool/result" /\ SameStep(e, l[i]) /\ e.call = c THEN {Len(l) + 1} ELSE {}
    BY ResultsAppend
  <2> QED
    BY <2>1
<1> HIDE DEF k
<1>3. \A j \in i + 1 .. Len(l) : j \in i + 1 .. Len(k)
  BY <1>1
<1>4. d \in 0 .. k[i].calls
  BY <1>1 DEF AnsweredTo
<1>5. ASSUME NEW c \in 1 .. d
      PROVE  \E j \in i + 1 .. Len(k) :
               /\ ResultsOf(k, i, c) = {j}
               /\ \A b \in 1 .. c - 1 : \A g \in ResultsOf(k, i, b) : g < j
  <2>1. PICK j \in i + 1 .. Len(l) :
          /\ ResultsOf(l, i, c) = {j}
          /\ \A b \in 1 .. c - 1 : \A g \in ResultsOf(l, i, b) : g < j
    BY DEF AnsweredTo
  <2>2. c \in 1 .. l[i].calls /\ \A b \in 1 .. c - 1 : b \in 1 .. l[i].calls
    BY <1>1, <1>4
  <2> QED
    BY <1>2, <1>3, <2>1, <2>2
<1>6. ASSUME NEW c \in d + 1 .. k[i].calls
      PROVE  ResultsOf(k, i, c) = {}
  <2>1. c \in d + 1 .. l[i].calls /\ c \in 1 .. l[i].calls
    BY <1>1, <1>6
  <2> QED
    BY <1>2, <2>1 DEF AnsweredTo
<1>7. AnsweredTo(k, i, d)
  BY ONLY <1>4, <1>5, <1>6 DEF AnsweredTo
<1> QED
  BY <1>7 DEF k

(* The result of the next call answers it. *)
LEMMA AnsweredNext ==
  ASSUME NEW l \in Seq(Event), NEW e \in Event, NEW i \in 1 .. Len(l), l[i].calls \in Nat,
         e.type = "tool/result", SameStep(e, l[i]), e.call \in 1 .. l[i].calls,
         AnsweredTo(l, i, e.call - 1)
  PROVE  AnsweredTo(Append(l, e), i, e.call)
<1> DEFINE k == Append(l, e)
<1>1. Len(k) = Len(l) + 1 /\ Len(l) \in Nat /\ k[i] = l[i] /\ e.call \in Nat \ {0}
  OBVIOUS
<1>2. ASSUME NEW c, c # e.call
      PROVE  ResultsOf(k, i, c) = ResultsOf(l, i, c)
  <2>1. ResultsOf(k, i, c) = ResultsOf(l, i, c) \cup
          IF e.type = "tool/result" /\ SameStep(e, l[i]) /\ e.call = c THEN {Len(l) + 1} ELSE {}
    BY ResultsAppend
  <2> QED
    BY <1>2, <2>1
<1>3. ResultsOf(k, i, e.call) = ResultsOf(l, i, e.call) \cup {Len(l) + 1}
  BY ResultsAppend
<1> HIDE DEF k
<1>4. ResultsOf(l, i, e.call) = {}
  BY <1>1 DEF AnsweredTo
<1>5. \A c : ResultsOf(l, i, c) \subseteq 1 .. Len(l)
  BY DEF ResultsOf
<1>6. ASSUME NEW c \in 1 .. e.call
      PROVE  \E j \in i + 1 .. Len(k) :
               /\ ResultsOf(k, i, c) = {j}
               /\ \A b \in 1 .. c - 1 : \A g \in ResultsOf(k, i, b) : g < j
  <2>1. CASE c = e.call
    <3>1. Len(l) + 1 \in i + 1 .. Len(k) /\ ResultsOf(k, i, c) = {Len(l) + 1}
      BY <1>1, <1>3, <1>4, <2>1
    <3>2. ASSUME NEW b \in 1 .. c - 1, NEW g \in ResultsOf(k, i, b)
          PROVE  g < Len(l) + 1
      <4>1. g \in ResultsOf(l, i, b)
        BY <1>1, <1>2, <2>1, <3>2
      <4> QED
        BY <1>1, <1>5, <4>1
    <3> QED
      BY <3>1, <3>2
  <2>2. CASE c # e.call
    <3>1. c \in 1 .. e.call - 1
      BY <1>1, <2>2
    <3>2. PICK j \in i + 1 .. Len(l) :
            /\ ResultsOf(l, i, c) = {j}
            /\ \A b \in 1 .. c - 1 : \A g \in ResultsOf(l, i, b) : g < j
      BY <3>1 DEF AnsweredTo
    <3>3. j \in i + 1 .. Len(k) /\ ResultsOf(k, i, c) = {j}
      BY <1>1, <1>2, <2>2, <3>2
    <3>4. \A b \in 1 .. c - 1 : ResultsOf(k, i, b) = ResultsOf(l, i, b)
      BY <1>1, <1>2, <3>1
    <3> QED
      BY <3>2, <3>3, <3>4
  <2> QED
    BY <2>1, <2>2
<1>7. ASSUME NEW c \in e.call + 1 .. k[i].calls
      PROVE  ResultsOf(k, i, c) = {}
  <2>1. c # e.call /\ c \in (e.call - 1) + 1 .. l[i].calls
    BY <1>1, <1>7
  <2> QED
    BY <1>2, <2>1 DEF AnsweredTo
<1>8. e.call \in 0 .. k[i].calls
  BY <1>1
<1>9. AnsweredTo(k, i, e.call)
  BY ONLY <1>6, <1>7, <1>8 DEF AnsweredTo
<1> QED
  BY <1>9 DEF k

(* The first event of a log. *)
LEMMA FirstTurnAnswers == AnswersFit(<<TurnStart(1)>>)
<1> DEFINE l == <<TurnStart(1)>>
<1>1. Len(l) = 1 /\ l[1].type = "turn/start" /\ LastEvent(l) = l[1]
  BY DEF TurnStart, LastEvent
<1> HIDE DEF l
<1>2. \A i \in 1 .. Len(l) : i = 1 /\ ~Asks(l, i)
  BY <1>1 DEF Asks, Is
<1>3. InOrder(l)
  BY <1>1 DEF InOrder
<1> QED
  BY <1>1, <1>2, <1>3 DEF AnswersFit, OneAnswer, Answering, Unsettled, l

(* In an open step a message that asks for tools awaits, as repair sees it, exactly
   the calls that have no result. *)
LEMMA AwaitsUnanswered ==
  ASSUME NEW l \in Seq(Event), l # << >>, InOrder(l), LastEvent(l).type \in InStep,
         NEW i \in 1 .. Len(l), Asks(l, i), SameStep(l[i], LastEvent(l)),
         NEW d \in Nat, AnsweredTo(l, i, d)
  PROVE  \A c \in 1 .. l[i].calls : <<i, c>> \in Unanswered(l) <=> c > d
<1>1. /\ Len(l) \in Nat \ {0} /\ LastEvent(l) = l[Len(l)] /\ Len(l) \in 1 .. Len(l)
      /\ \A j \in 1 .. Len(l) : l[j] \in Event /\ l[j].turn \in Nat /\ l[j].step \in Nat
  BY EventFields DEF LastEvent
<1>2. l[i].type = "assistant/message" /\ l[i].calls \in 0 .. MaxCall
  BY <1>1, EventFields DEF Asks, Is
<1>3. ASSUME NEW j \in i + 1 .. Len(l)
      PROVE  SameStep(l[j], l[i]) /\ l[j].type \notin RecoveryReset
  <2>1. Precedes(l[i], l[j]) /\ j \in 1 .. Len(l)
    BY <1>1 DEF InOrder
  <2>2. CASE j = Len(l)
    BY <1>1, <2>2 DEF SameStep, RecoveryReset, InStep
  <2>3. CASE j # Len(l)
    <3>1. Len(l) \in j + 1 .. Len(l)
      BY <1>1, <2>3
    <3>2. Precedes(l[j], LastEvent(l))
      BY <1>1, <2>1, <3>1 DEF InOrder
    <3>3. l[j].turn = l[i].turn
      BY <1>1, <2>1, <3>2 DEF Precedes, SameStep
    <3>4. l[j].type \notin RecoveryReset /\ l[j].step = l[i].step
      BY <1>1, <1>2, <2>1, <3>2, <3>3 DEF Precedes, SameStep, RecoveryReset, InStep
    <3> QED
      BY <3>3, <3>4 DEF SameStep
  <2> QED
    BY <2>2, <2>3
<1>4. i \in PendingRequests(l)
  BY <1>2, <1>3 DEF PendingRequests, Latest, NoneAfter, Is
<1>5. ASSUME NEW c \in 1 .. l[i].calls
      PROVE  Answered(l, i, c) <=> c <= d
  <2>1. Answered(l, i, c) => ResultsOf(l, i, c) # {}
    BY <1>1, <1>3 DEF Answered, ResultsOf, Is
  <2>2. CASE c <= d
    <3>1. c \in 1 .. d
      BY <2>2
    <3>2. PICK j \in i + 1 .. Len(l) : ResultsOf(l, i, c) = {j}
      BY <3>1 DEF AnsweredTo
    <3> QED
      BY <2>2, <3>2 DEF Answered, ResultsOf
  <2>3. CASE ~(c <= d)
    <3>1. c \in d + 1 .. l[i].calls
      BY <1>2, <2>3
    <3> QED
      BY <2>1, <2>3, <3>1 DEF AnsweredTo
  <2> QED
    BY <2>2, <2>3
<1>6. \A c \in 1 .. l[i].calls : c \in CallIndex /\ c \in Nat /\ (c > d <=> ~(c <= d))
  BY <1>2, MaxCallAssumption DEF CallIndex
<1> QED
  BY <1>4, <1>5, <1>6 DEF Unanswered

(* A log that fits has no closed step with a call left unanswered. *)
LEMMA FitIsAnswered ==
  ASSUME NEW l \in Seq(Event), AnswersFit(l)
  PROVE  CallsAnswered(l)
<1>1. /\ Len(l) \in Nat /\ LastEvent(l) = l[Len(l)]
      /\ \A j \in 1 .. Len(l) : l[j] \in Event /\ l[j].turn \in Nat /\ l[j].step \in Nat
  BY EventFields DEF LastEvent
<1> SUFFICES ASSUME NEW i \in 1 .. Len(l), Asks(l, i),
                    NEW k \in i .. Len(l), Is(l, k, {"step/end"}), SameStep(l[i], l[k]),
                    NEW c \in 1 .. l[i].calls
             PROVE  \E j \in i .. k :
                      /\ ResultsOf(l, i, c) = {j}
                      /\ \A d \in 1 .. c - 1 : \A g \in ResultsOf(l, i, d) : g < j
  BY DEF CallsAnswered, Asks
<1>2. l[i].calls \in Nat
  BY <1>1, EventFields DEF Asks, Is
<1>3. ASSUME NEW j \in k + 1 .. Len(l)
      PROVE  ~SameStep(l[j], l[i]) \/ l[j].type = "turn/end"
  <2>1. Precedes(l[k], l[j]) /\ j \in 1 .. Len(l)
    BY <1>1 DEF InOrder, AnswersFit
  <2> QED
    BY <1>1, <2>1 DEF Precedes, SameStep, Is
<1>4. PICK d \in 0 .. l[i].calls :
        /\ AnsweredTo(l, i, d)
        /\ d < l[i].calls => LastEvent(l).type \in InStep /\ SameStep(l[i], LastEvent(l))
  BY DEF AnswersFit, Answering
<1>5. d = l[i].calls
  <2>1. CASE k = Len(l)
    BY <1>1, <1>2, <1>4, <2>1 DEF Is, InStep
  <2>2. CASE k # Len(l)
    <3>1. Len(l) \in k + 1 .. Len(l)
      BY <1>1, <2>2
    <3> QED
      BY <1>1, <1>2, <1>3, <1>4, <3>1 DEF InStep, SameStep
  <2> QED
    BY <2>1, <2>2
<1>6. PICK j \in i + 1 .. Len(l) :
        /\ ResultsOf(l, i, c) = {j}
        /\ \A b \in 1 .. c - 1 : \A g \in ResultsOf(l, i, b) : g < j
  BY <1>4, <1>5 DEF AnsweredTo
<1>7. SameStep(l[j], l[i]) /\ l[j].type = "tool/result"
  BY <1>6 DEF ResultsOf, Is
<1>8. j \in i .. k
  BY <1>1, <1>3, <1>7
<1> QED
  BY <1>6, <1>8

(* One more event keeps the answers fit, if a step closes only when its calls have
   their results, and results come in model order. *)
LEMMA AppendAnswers ==
  ASSUME NEW l \in Seq(Event), l # << >>, NEW e \in Event, AnswersFit(l),
         Follows(LastEvent(l), e),
         \A i \in 1 .. Len(l) : Asks(l, i) /\ SameStep(l[i], e) =>
           /\ e.type = "step/end" => AnsweredTo(l, i, l[i].calls)
           /\ e.type = "tool/result" /\ e.call \in 1 .. l[i].calls =>
                AnsweredTo(l, i, e.call - 1)
  PROVE  /\ AnswersFit(Append(l, e))
         /\ Asks(Append(l, e), Len(l) + 1) => AnsweredTo(Append(l, e), Len(l) + 1, 0)
<1> DEFINE k == Append(l, e)
<1>1. /\ Len(l) \in Nat \ {0} /\ LastEvent(l) = l[Len(l)] /\ Len(l) \in 1 .. Len(l)
      /\ LastEvent(l) \in Event
      /\ \A j \in 1 .. Len(l) : l[j] \in Event /\ l[j].turn \in Nat /\ l[j].step \in Nat
      /\ LastEvent(l).turn \in Nat /\ LastEvent(l).step \in Nat /\ e.step \in Nat
  BY EventFields DEF LastEvent
<1>2. /\ Len(k) = Len(l) + 1 /\ k[Len(l) + 1] = e /\ LastEvent(k) = e
      /\ \A i \in 1 .. Len(l) : k[i] = l[i]
      /\ \A i \in 1 .. Len(k) : i \in 1 .. Len(l) \/ i = Len(l) + 1
  BY AppendLooks
<1>3. InOrder(k) /\ \A i \in 1 .. Len(l) : Precedes(l[i], e)
  BY OrderAppend DEF AnswersFit
<1>4. \A i \in 1 .. Len(l) : Asks(l, i) => l[i].calls \in Nat
  BY <1>1, EventFields DEF Asks, Is
<1>5. ASSUME NEW i \in 1 .. Len(l), Asks(l, i), NEW d \in Nat, AnsweredTo(l, i, d),
             ~(e.type = "tool/result" /\ SameStep(e, l[i]) /\ e.call \in 1 .. l[i].calls)
      PROVE  AnsweredTo(k, i, d)
  BY <1>4, <1>5, AnsweredStays
<1>6. ASSUME NEW i \in 1 .. Len(l), Asks(l, i), e.type = "tool/result", SameStep(e, l[i]),
             e.call \in 1 .. l[i].calls
      PROVE  AnsweredTo(k, i, e.call)
  <2>1. SameStep(l[i], e)
    BY <1>6 DEF SameStep
  <2> QED
    BY <1>4, <1>6, <2>1, AnsweredNext
<1> HIDE DEF k
<1>7. \A i \in 1 .. Len(l) : Asks(k, i) <=> Asks(l, i)
  BY <1>2 DEF Asks, Is
(* A step without an answer has none to lose; a new step has nothing yet. *)
<1>8. ASSUME NEW i \in 1 .. Len(k), e.type \in Unsettled, SameStep(k[i], e)
      PROVE  ~Is(k, i, {"assistant/message", "tool/result"})
  <2>1. CASE i = Len(l) + 1
    BY <1>2, <1>8, <2>1 DEF Is, Unsettled
  <2>2. CASE i \in 1 .. Len(l) /\ e.type = "step/start"
    <3>1. k[i] = l[i] /\ SameTurn(LastEvent(l), e) /\ e.step = LastEvent(l).step + 1
      BY <1>2, <2>2 DEF Follows
    <3>2. l[i].type \in InStep => l[i].step <= LastEvent(l).step
      <4>1. CASE i = Len(l)
        BY <1>1, <4>1
      <4>2. CASE i # Len(l)
        <5>1. Precedes(l[i], LastEvent(l))
          BY <1>1, <2>2, <4>2 DEF AnswersFit, InOrder
        <5>2. l[i].turn = LastEvent(l).turn /\ LastEvent(l).type \in {"turn/start", "step/end"}
          BY <1>8, <2>2, <3>1 DEF SameStep, SameTurn, Follows
        <5> QED
          BY <1>1, <2>2, <5>1, <5>2 DEF Precedes, InStep
      <4> QED
        BY <4>1, <4>2
    <3>3. l[i].step = e.step
      BY <1>8, <3>1 DEF SameStep
    <3> QED
      BY <1>1, <2>2, <3>1, <3>2, <3>3 DEF Is, InStep
  <2>3. CASE i \in 1 .. Len(l) /\ e.type # "step/start"
    <3>1. k[i] = l[i] /\ LastEvent(l).type \in Unsettled /\ SameStep(LastEvent(l), e)
      BY <1>2, <1>8, <2>3 DEF Follows, Unsettled
    <3>2. SameStep(l[i], LastEvent(l))
      BY <1>8, <3>1 DEF SameStep
    <3> QED
      BY <2>3, <3>1, <3>2 DEF AnswersFit, OneAnswer, Is
  <2> QED
    BY <1>2, <2>1, <2>2, <2>3
(* A message that asks for tools is the first answer of its step. *)
<1>9. ASSUME Asks(k, Len(l) + 1), NEW i \in 1 .. Len(l), SameStep(l[i], e)
      PROVE  ~Is(l, i, {"assistant/message", "tool/result"})
  <2>1. e.type = "assistant/message"
    BY <1>2, <1>9 DEF Asks, Is
  <2>2. LastEvent(l).type \in Unsettled /\ SameStep(LastEvent(l), e)
    BY <2>1 DEF Follows, Unsettled
  <2>3. SameStep(l[i], LastEvent(l))
    BY <1>9, <2>2 DEF SameStep
  <2> QED
    BY <2>2, <2>3 DEF AnswersFit, OneAnswer
<1>10. ASSUME NEW i \in 1 .. Len(k), NEW j \in 1 .. Len(k),
              Asks(k, i), Asks(k, j), SameStep(k[i], k[j])
       PROVE  i = j
  <2>1. CASE i \in 1 .. Len(l) /\ j \in 1 .. Len(l)
    BY <1>2, <1>7, <1>10, <2>1 DEF AnswersFit, OneAnswer
  <2>2. CASE i \in 1 .. Len(l) /\ j = Len(l) + 1
    BY <1>2, <1>9, <1>10, <2>2 DEF Asks, Is
  <2>3. CASE i = Len(l) + 1 /\ j \in 1 .. Len(l)
    BY <1>2, <1>9, <1>10, <2>3 DEF Asks, Is, SameStep
  <2> QED
    BY <1>2, <2>1, <2>2, <2>3
<1>11. ASSUME Asks(k, Len(l) + 1)
       PROVE  e.type = "assistant/message" /\ AnsweredTo(k, Len(l) + 1, 0)
  <2>1. e.type = "assistant/message" /\ e.calls \in Nat
    BY <1>2, <1>11, EventFields DEF Asks, Is
  <2>2. ASSUME NEW c
        PROVE  ResultsOf(k, Len(l) + 1, c) = {}
    <3> SUFFICES ASSUME NEW j \in 1 .. Len(k), Is(k, j, {"tool/result"}), SameStep(k[j], e)
                 PROVE  FALSE
      BY <1>2 DEF ResultsOf
    <3>1. CASE j = Len(l) + 1
      BY <1>2, <2>1, <3>1 DEF Is
    <3>2. CASE j \in 1 .. Len(l)
      BY <1>2, <1>9, <1>11, <3>2 DEF Is
    <3> QED
      BY <1>2, <3>1, <3>2
  <2> QED
    BY <1>2, <2>1, <2>2 DEF AnsweredTo
<1>12. ASSUME NEW i \in 1 .. Len(k), Asks(k, i)
       PROVE  \E d \in 0 .. k[i].calls :
                /\ AnsweredTo(k, i, d)
                /\ d < k[i].calls => e.type \in InStep /\ SameStep(k[i], e)
  <2>1. CASE i = Len(l) + 1
    <3>1. e.type = "assistant/message" /\ AnsweredTo(k, i, 0) /\ k[i] = e
      BY <1>2, <1>11, <1>12, <2>1
    <3>2. 0 \in 0 .. k[i].calls
      BY <3>1 DEF AnsweredTo
    <3>3. e.type \in InStep /\ SameStep(k[i], e)
      BY <3>1 DEF InStep, SameStep
    <3> QED
      BY <3>1, <3>2, <3>3
  <2>2. CASE i \in 1 .. Len(l)
    <3>1. Asks(l, i) /\ k[i] = l[i] /\ l[i].calls \in Nat
      BY <1>2, <1>4, <1>7, <1>12, <2>2
    <3>2. PICK d \in 0 .. l[i].calls :
            /\ AnsweredTo(l, i, d)
            /\ d < l[i].calls => LastEvent(l).type \in InStep /\ SameStep(l[i], LastEvent(l))
      BY <2>2, <3>1 DEF AnswersFit, Answering
    <3>3. CASE e.type = "tool/result" /\ SameStep(e, l[i]) /\ e.call \in 1 .. l[i].calls
      <4>1. AnsweredTo(k, i, e.call) /\ e.call \in 0 .. k[i].calls
        BY <1>6, <2>2, <3>1, <3>3
      <4>2. e.type \in InStep /\ SameStep(k[i], e)
        BY <3>1, <3>3 DEF InStep, SameStep
      <4> QED
        BY <4>1, <4>2
    <3>4. CASE /\ ~(e.type = "tool/result" /\ SameStep(e, l[i]) /\ e.call \in 1 .. l[i].calls)
               /\ e.type \in InStep \ {"step/start"}
      <4>1. AnsweredTo(k, i, d)
        BY <1>5, <2>2, <3>1, <3>2, <3>4
      <4>2. SameStep(LastEvent(l), e)
        BY <3>4 DEF Follows, InStep
      <4>3. d < k[i].calls => e.type \in InStep /\ SameStep(k[i], e)
        BY <3>1, <3>2, <3>4, <4>2 DEF SameStep
      <4> QED
        BY <3>1, <4>1, <4>3
    <3>5. CASE e.type = "step/end"
      <4>1. AnsweredTo(l, i, l[i].calls)
        <5>1. CASE d = l[i].calls
          BY <3>2, <5>1
        <5>2. CASE d # l[i].calls
          <6>1. LastEvent(l).type \in InStep /\ SameStep(l[i], LastEvent(l))
            BY <3>1, <3>2, <5>2
          <6>2. SameStep(l[i], e)
            BY <3>5, <6>1 DEF Follows, SameStep
          <6> QED
            BY <2>2, <3>1, <3>5, <6>2
        <5> QED
          BY <5>1, <5>2
      <4>2. AnsweredTo(k, i, k[i].calls) /\ k[i].calls \in 0 .. k[i].calls
        BY <1>5, <2>2, <3>1, <3>5, <4>1
      <4> QED
        BY <3>1, <4>2
    <3>6. CASE e.type \in {"turn/start", "turn/end", "step/start"}
      <4>1. LastEvent(l).type \notin InStep
        BY <3>6 DEF Follows, InStep
      <4>2. d = l[i].calls
        BY <3>1, <3>2, <4>1
      <4>3. AnsweredTo(k, i, k[i].calls) /\ k[i].calls \in 0 .. k[i].calls
        BY <1>5, <2>2, <3>1, <3>2, <3>6, <4>2
      <4> QED
        BY <3>1, <4>3
    <3> QED
      BY <3>3, <3>4, <3>5, <3>6, EventFields DEF StepBoundary, TurnBoundary, InStep
  <2> QED
    BY <1>2, <2>1, <2>2
<1>13. OneAnswer(k)
  BY <1>2, <1>8, <1>10 DEF OneAnswer
<1>14. Answering(k)
  BY <1>2, <1>12 DEF Answering
<1> QED
  BY <1>3, <1>11, <1>13, <1>14 DEF AnswersFit, k

(* The results of a call in a log with several more events. *)
LEMMA ResultsConcat ==
  ASSUME NEW l \in Seq(Event), NEW s \in Seq(Event), NEW i \in 1 .. Len(l), NEW c
  PROVE  ResultsOf(l \o s, i, c) =
           ResultsOf(l, i, c) \cup
           {Len(l) + p : p \in {q \in 1 .. Len(s) : /\ s[q].type = "tool/result"
                                                   /\ SameStep(s[q], l[i]) /\ s[q].call = c}}
<1> DEFINE k == l \o s
           P == {q \in 1 .. Len(s) : /\ s[q].type = "tool/result"
                                     /\ SameStep(s[q], l[i]) /\ s[q].call = c}
<1>1. Len(k) = Len(l) + Len(s) /\ Len(l) \in Nat /\ Len(s) \in Nat
  OBVIOUS
<1>2. \A j \in 1 .. Len(l) : k[j] = l[j]
  OBVIOUS
<1>3. \A p \in 1 .. Len(s) : k[Len(l) + p] = s[p]
  OBVIOUS
<1> HIDE DEF k
<1>4. \A j \in 1 .. Len(l) : j \in ResultsOf(k, i, c) <=> j \in ResultsOf(l, i, c)
  BY <1>1, <1>2 DEF ResultsOf, Is
<1>5. \A p \in 1 .. Len(s) : Len(l) + p \in ResultsOf(k, i, c) <=> p \in P
  BY <1>1, <1>2, <1>3 DEF ResultsOf, Is
<1>6. ASSUME NEW j \in 1 .. Len(k), j \notin 1 .. Len(l)
      PROVE  j - Len(l) \in 1 .. Len(s) /\ j = Len(l) + (j - Len(l))
  BY <1>1, <1>6
<1>7. ResultsOf(k, i, c) \subseteq 1 .. Len(k) /\ ResultsOf(l, i, c) \subseteq 1 .. Len(l)
  BY DEF ResultsOf
<1> HIDE DEF P
<1>8. P \subseteq 1 .. Len(s)
  BY DEF P
<1>9. ASSUME NEW j \in ResultsOf(k, i, c)
      PROVE  j \in ResultsOf(l, i, c) \cup {Len(l) + p : p \in P}
  <2>1. CASE j \in 1 .. Len(l)
    BY <1>4, <1>9, <2>1
  <2>2. CASE j \notin 1 .. Len(l)
    <3>1. j - Len(l) \in 1 .. Len(s) /\ j = Len(l) + (j - Len(l))
      BY <1>6, <1>7, <1>9, <2>2
    <3>2. j - Len(l) \in P
      BY <1>5, <1>9, <3>1
    <3> QED
      BY <3>1, <3>2
  <2> QED
    BY <2>1, <2>2
<1>10. ResultsOf(l, i, c) \cup {Len(l) + p : p \in P} \subseteq ResultsOf(k, i, c)
  BY <1>4, <1>5, <1>7, <1>8
<1> QED
  BY <1>9, <1>10 DEF k, P

(* The results of all calls that have none, one by one, answer the message. *)
LEMMA AnsweredConcat ==
  ASSUME NEW l \in Seq(Event), NEW s \in Seq(Event), NEW i \in 1 .. Len(l), NEW d \in Nat,
         l[i].calls \in Nat, AnsweredTo(l, i, d),
         NEW at \in [d + 1 .. l[i].calls -> 1 .. Len(s)],
         \A c \in d + 1 .. l[i].calls :
           /\ s[at[c]].type = "tool/result" /\ SameStep(s[at[c]], l[i]) /\ s[at[c]].call = c
           /\ \A b \in d + 1 .. c - 1 : at[b] < at[c],
         \A p \in 1 .. Len(s) : s[p].type = "tool/result" =>
           \E c \in d + 1 .. l[i].calls : p = at[c]
  PROVE  AnsweredTo(l \o s, i, l[i].calls)
<1> DEFINE k == l \o s
           n == l[i].calls
<1>1. Len(k) = Len(l) + Len(s) /\ Len(l) \in Nat /\ Len(s) \in Nat /\ k[i] = l[i]
  OBVIOUS
<1>2. d <= n /\ n \in Nat
  BY DEF AnsweredTo
<1> DEFINE P(c) == {q \in 1 .. Len(s) : /\ s[q].type = "tool/result"
                                        /\ SameStep(s[q], l[i]) /\ s[q].call = c}
           Later(S) == {Len(l) + p : p \in S}
<1>3. ASSUME NEW c
       PROVE  ResultsOf(k, i, c) = ResultsOf(l, i, c) \cup Later(P(c))
  BY ResultsConcat
<1>4. Later({}) = {} /\ \A x : Later({x}) = {Len(l) + x}
  OBVIOUS
<1>5. ASSUME NEW c \in 1 .. d
       PROVE  P(c) = {}
  BY <1>5
<1>6. ASSUME NEW c \in d + 1 .. n
       PROVE  P(c) = {at[c]}
  BY <1>6
<1> HIDE DEF P, Later
<1>7. ASSUME NEW c \in 1 .. d
      PROVE  ResultsOf(k, i, c) = ResultsOf(l, i, c)
  BY <1>3, <1>4, <1>5, <1>7
<1>8. ASSUME NEW c \in d + 1 .. n
      PROVE  ResultsOf(k, i, c) = {Len(l) + at[c]}
  <2>1. ResultsOf(l, i, c) = {}
    BY <1>8 DEF AnsweredTo
  <2>2. ResultsOf(k, i, c) = ResultsOf(l, i, c) \cup Later({at[c]})
    BY <1>3, <1>6, <1>8
  <2> QED
    BY <1>4, <2>1, <2>2
<1>9. \A c : ResultsOf(l, i, c) \subseteq 1 .. Len(l)
  BY DEF ResultsOf
<1> HIDE DEF k, n
<1>10. ASSUME NEW c \in 1 .. n
      PROVE  \E j \in i + 1 .. Len(k) :
               /\ ResultsOf(k, i, c) = {j}
               /\ \A b \in 1 .. c - 1 : \A g \in ResultsOf(k, i, b) : g < j
  <2>1. CASE c \in 1 .. d
    <3>1. PICK j \in i + 1 .. Len(l) :
            /\ ResultsOf(l, i, c) = {j}
            /\ \A b \in 1 .. c - 1 : \A g \in ResultsOf(l, i, b) : g < j
      BY <2>1 DEF AnsweredTo
    <3>2. \A b \in 1 .. c - 1 : ResultsOf(k, i, b) = ResultsOf(l, i, b)
      BY <1>7, <2>1
    <3>3. j \in i + 1 .. Len(k)
      BY <1>1
    <3>4. ResultsOf(k, i, c) = {j}
      BY <1>7, <2>1, <3>1
    <3> QED
      BY <3>1, <3>2, <3>3, <3>4
  <2>2. CASE c \in d + 1 .. n
    <3>1. at[c] \in 1 .. Len(s) /\ ResultsOf(k, i, c) = {Len(l) + at[c]}
      BY <1>8, <2>2 DEF n
    <3>2. Len(l) + at[c] \in i + 1 .. Len(k)
      BY <1>1, <3>1
    <3>3. ASSUME NEW b \in 1 .. c - 1, NEW g \in ResultsOf(k, i, b)
          PROVE  g < Len(l) + at[c]
      <4>1. CASE b \in 1 .. d
        BY <1>1, <1>7, <1>9, <3>1, <3>3, <4>1
      <4>2. CASE b \in d + 1 .. c - 1
        <5>1. b \in d + 1 .. n
          BY <1>2, <2>2, <4>2
        <5>2. at[b] \in 1 .. Len(s) /\ at[b] < at[c] /\ g = Len(l) + at[b]
          BY <1>8, <2>2, <3>3, <4>2, <5>1 DEF n
        <5> QED
          BY <1>1, <3>1, <5>2
      <4> QED
        BY <1>2, <2>2, <4>1, <4>2
    <3> QED
      BY <3>1, <3>2, <3>3
  <2> QED
    BY <1>2, <2>1, <2>2
<1>11. k[i].calls = n
  BY <1>1 DEF n
<1>12. n \in 0 .. k[i].calls /\ n + 1 .. k[i].calls = {}
  BY <1>2, <1>11
<1>13. AnsweredTo(k, i, n)
  BY ONLY <1>10, <1>12 DEF AnsweredTo
<1> QED
  BY <1>13 DEF k, n

(* Input of a step, or the tool events that answer all its calls, keep the answers
   fit. *)
LEMMA ConcatAnswers ==
  ASSUME NEW l \in Seq(Event), l # << >>, NEW s \in Seq(Event), s # << >>, AnswersFit(l),
         LastEvent(l).type \in InStep,
         \A p \in 1 .. Len(s) : SameStep(s[p], LastEvent(l)),
         \/ /\ LastEvent(l).type \in Unsettled
            /\ \A p \in 1 .. Len(s) : s[p].type = "user/message"
         \/ \A p \in 1 .. Len(s) : s[p].type \in ToolEvent,
         \A i \in 1 .. Len(l) : Asks(l, i) /\ SameStep(l[i], LastEvent(l)) =>
           AnsweredTo(l \o s, i, l[i].calls)
  PROVE  AnswersFit(l \o s)
<1> DEFINE k == l \o s
           e == LastEvent(l)
<1>1. /\ Len(k) = Len(l) + Len(s) /\ Len(l) \in Nat \ {0} /\ Len(s) \in Nat \ {0}
      /\ LastEvent(k) = k[Len(k)] /\ e = l[Len(l)] /\ Len(l) \in 1 .. Len(l) /\ e \in Event
  BY DEF LastEvent
<1>2. \A i \in 1 .. Len(l) : k[i] = l[i] /\ l[i] \in Event
  OBVIOUS
<1>3. ASSUME NEW j \in Len(l) + 1 .. Len(k)
      PROVE  /\ j - Len(l) \in 1 .. Len(s) /\ k[j] = s[j - Len(l)] /\ k[j] \in Event
  BY <1>1
<1> HIDE DEF k
<1>4. ASSUME NEW j \in Len(l) + 1 .. Len(k)
      PROVE  /\ SameStep(k[j], e) /\ k[j] \in Event
             /\ k[j].type \in {"user/message"} \cup ToolEvent
             /\ k[j].type = "user/message" => e.type \in Unsettled
  BY <1>3 DEF ToolEvent
<1>5. Len(k) \in Len(l) + 1 .. Len(k) /\ LastEvent(k) = k[Len(k)]
  BY <1>1
<1>6. ASSUME NEW i \in 1 .. Len(k), i \notin 1 .. Len(l)
      PROVE  i \in Len(l) + 1 .. Len(k)
  BY <1>1, <1>6
<1> HIDE DEF e
<1>7. ASSUME NEW i \in Len(l) + 1 .. Len(k)
      PROVE  ~Asks(k, i)
  BY <1>4, <1>7 DEF Asks, Is, ToolEvent
<1>8. \A i \in 1 .. Len(l) : Asks(k, i) <=> Asks(l, i)
  BY <1>2 DEF Asks, Is
<1>9. ASSUME NEW i \in 1 .. Len(k), NEW j \in i + 1 .. Len(k)
      PROVE  Precedes(k[i], k[j])
  <2>1. CASE j \in 1 .. Len(l)
    <3>1. i \in 1 .. Len(l) /\ j \in i + 1 .. Len(l)
      BY <1>1, <2>1
    <3> QED
      BY <1>2, <2>1, <3>1 DEF AnswersFit, InOrder
  <2>2. CASE j \in Len(l) + 1 .. Len(k)
    <3>1. SameStep(k[j], e) /\ k[j] \in Event /\ k[j].type \in {"user/message"} \cup ToolEvent
      BY <1>4, <2>2
    <3>2. e.step \in Nat /\ e.turn \in Nat /\ e.type \in InStep
      BY <1>1, EventFields DEF e
    <3>3. Precedes(e, k[j])
      BY <3>1, <3>2 DEF Precedes, SameStep, ToolEvent, InStep
    <3>4. CASE i \in 1 .. Len(l)
      <4>1. CASE i = Len(l)
        BY <1>1, <1>2, <3>3, <4>1 DEF e
      <4>2. CASE i # Len(l)
        <5>1. Len(l) \in i + 1 .. Len(l)
          BY <1>1, <3>4, <4>2
        <5>2. Precedes(l[i], e)
          BY <1>1, <3>4, <5>1 DEF AnswersFit, InOrder, e
        <5> QED
          BY <1>1, <1>2, <3>1, <3>3, <3>4, <5>2, PrecedesTransitively DEF e
      <4> QED
        BY <4>1, <4>2
    <3>5. CASE i \in Len(l) + 1 .. Len(k)
      <4>1. SameStep(k[i], e) /\ k[i].type \in {"user/message"} \cup ToolEvent
        BY <1>4, <3>5
      <4> QED
        BY <3>1, <3>2, <4>1 DEF Precedes, SameStep, ToolEvent
    <3> QED
      BY <1>6, <3>4, <3>5
  <2> QED
    BY <1>1, <1>6, <2>1, <2>2
<1>10. ASSUME NEW i \in 1 .. Len(k), k[Len(k)].type \in Unsettled, SameStep(k[i], k[Len(k)])
       PROVE  ~Is(k, i, {"assistant/message", "tool/result"})
  <2>1. k[Len(k)].type = "user/message" /\ SameStep(k[i], e)
    BY <1>4, <1>5, <1>10 DEF SameStep, ToolEvent, Unsettled
  <2>2. e.type \in Unsettled /\ \A p \in 1 .. Len(s) : s[p].type = "user/message"
    <3>1. Len(s) \in 1 .. Len(s) /\ Len(k) - Len(l) = Len(s)
      BY <1>1
    <3>2. s[Len(s)].type = "user/message"
      BY <1>3, <1>5, <2>1, <3>1
    <3> QED
      BY <3>1, <3>2 DEF ToolEvent, e
  <2>3. CASE i \in 1 .. Len(l)
    BY <1>2, <2>1, <2>2, <2>3 DEF AnswersFit, OneAnswer, Is, e
  <2>4. CASE i \in Len(l) + 1 .. Len(k)
    BY <1>3, <2>2, <2>4 DEF Is
  <2> QED
    BY <1>6, <2>3, <2>4
<1>11. ASSUME NEW i \in 1 .. Len(k), NEW j \in 1 .. Len(k),
              Asks(k, i), Asks(k, j), SameStep(k[i], k[j])
       PROVE  i = j
  <2>1. i \in 1 .. Len(l) /\ j \in 1 .. Len(l)
    BY <1>6, <1>7, <1>11
  <2> QED
    BY <1>2, <1>8, <1>11, <2>1 DEF AnswersFit, OneAnswer
<1>12. ASSUME NEW i \in 1 .. Len(k), Asks(k, i)
       PROVE  \E d \in 0 .. k[i].calls :
                /\ AnsweredTo(k, i, d)
                /\ d < k[i].calls => k[Len(k)].type \in InStep /\ SameStep(k[i], k[Len(k)])
  <2>1. i \in 1 .. Len(l) /\ Asks(l, i) /\ k[i] = l[i]
    BY <1>2, <1>6, <1>7, <1>8, <1>12
  <2>2. l[i].calls \in Nat /\ l[i].calls \in 0 .. l[i].calls
    BY <1>2, <2>1, EventFields DEF Asks, Is
  <2>3. AnsweredTo(k, i, l[i].calls)
    <3>1. CASE SameStep(l[i], e)
      BY <2>1, <3>1 DEF k, e
    <3>2. CASE ~SameStep(l[i], e)
      <4>1. AnsweredTo(l, i, l[i].calls)
        BY <2>1, <2>2, <3>2 DEF AnswersFit, Answering, e
      <4>2. ASSUME NEW c
            PROVE  ResultsOf(k, i, c) = ResultsOf(l, i, c)
        <5>1. ASSUME NEW j \in Len(l) + 1 .. Len(k)
              PROVE  j \notin ResultsOf(k, i, c)
          BY <1>4, <2>1, <3>2, <5>1 DEF ResultsOf, SameStep
        <5>2. \A j \in 1 .. Len(l) : j \in ResultsOf(k, i, c) <=> j \in ResultsOf(l, i, c)
          BY <1>1, <1>2, <2>1 DEF ResultsOf, Is
        <5>3. ResultsOf(k, i, c) \subseteq 1 .. Len(k) /\ ResultsOf(l, i, c) \subseteq 1 .. Len(l)
          BY DEF ResultsOf
        <5> QED
          BY <1>6, <5>1, <5>2, <5>3
      <4>3. \A j \in i + 1 .. Len(l) : j \in i + 1 .. Len(k)
        BY <1>1
      <4>4. ASSUME NEW c \in 1 .. l[i].calls
            PROVE  \E j \in i + 1 .. Len(k) :
                     /\ ResultsOf(k, i, c) = {j}
                     /\ \A b \in 1 .. c - 1 : \A g \in ResultsOf(k, i, b) : g < j
        <5>1. PICK j \in i + 1 .. Len(l) :
                /\ ResultsOf(l, i, c) = {j}
                /\ \A b \in 1 .. c - 1 : \A g \in ResultsOf(l, i, b) : g < j
          BY <4>1, <4>4 DEF AnsweredTo
        <5> QED
          BY <4>2, <4>3, <5>1
      <4>5. \A c \in l[i].calls + 1 .. l[i].calls : ResultsOf(k, i, c) = {}
        BY <2>2
      <4> QED
        BY <2>1, <2>2, <4>4, <4>5 DEF AnsweredTo
    <3> QED
      BY <3>1, <3>2
  <2> QED
    BY <2>1, <2>2, <2>3
<1>13. InOrder(k)
  BY <1>9 DEF InOrder
<1>14. OneAnswer(k)
  BY <1>5, <1>10, <1>11 DEF OneAnswer
<1>15. Answering(k)
  BY <1>5, <1>12 DEF Answering
<1> QED
  BY <1>13, <1>14, <1>15 DEF AnswersFit, k

-------------------------------------------------------------------------------
(* Induction, for facts about every prefix of a log. *)

(* Natural numbers are well ordered. *)
LEMMA LeastNatural ==
  ASSUME NEW S \in SUBSET Nat, S # {}
  PROVE  \E n \in S : \A k \in S : n <= k
<1> DEFINE R == OpToRel(<, Nat)
<1>1. IsWellFoundedOn(R, Nat)
  BY NatLessThanWellFounded
<1>2. \A i, j \in Nat : i < j => <<i, j>> \in R
  BY DEF OpToRel
<1> HIDE DEF R
<1>3. PICK n \in S : \A k \in S : ~(<<k, n>> \in R)
  BY <1>1, WFMin
<1>4. ASSUME NEW k \in S
      PROVE  n <= k
  <2>1. ~(k < n)
    BY <1>2, <1>3
  <2> QED
    BY <2>1
<1> QED
  BY <1>4

(* A set that holds 0 and the successor of what it holds has every number. *)
LEMMA Induction ==
  ASSUME NEW S, 0 \in S, \A n \in Nat : n \in S => n + 1 \in S
  PROVE  \A n \in Nat : n \in S
<1> SUFFICES ASSUME NEW n \in Nat, n \notin S
             PROVE  FALSE
  OBVIOUS
<1>1. PICK k \in Nat \ S : \A j \in Nat \ S : k <= j
  BY LeastNatural
<1>2. k - 1 \in Nat /\ (k - 1) + 1 = k
  BY <1>1
<1>3. k - 1 \in S
  BY <1>1, <1>2
<1> QED
  BY <1>1, <1>2, <1>3

(* A longer prefix is a shorter one with one more event. *)
LEMMA PrefixLooks ==
  ASSUME NEW l \in Seq(Event), NEW n \in 1 .. Len(l)
  PROVE  /\ SubSeq(l, 1, n) \in Seq(Event) /\ Len(SubSeq(l, 1, n)) = n
         /\ SubSeq(l, 1, n) # << >> /\ LastEvent(SubSeq(l, 1, n)) = l[n]
         /\ \A i \in 1 .. n : SubSeq(l, 1, n)[i] = l[i]
         /\ n + 1 \in 1 .. Len(l) => SubSeq(l, 1, n + 1) = Append(SubSeq(l, 1, n), l[n + 1])
<1> DEFINE p == SubSeq(l, 1, n)
<1>1. p \in Seq(Event) /\ Len(p) = n /\ \A i \in 1 .. n : p[i] = l[i]
  OBVIOUS
<1>2. p # << >> /\ LastEvent(p) = l[n]
  BY <1>1 DEF LastEvent
<1>3. ASSUME n + 1 \in 1 .. Len(l)
      PROVE  SubSeq(l, 1, n + 1) = Append(p, l[n + 1])
  BY <1>3
<1> QED
  BY <1>1, <1>2, <1>3

LEMMA FirstPrefix ==
  ASSUME NEW l \in Seq(Event), l # << >>
  PROVE  SubSeq(l, 1, 1) = <<l[1]>>
<1> DEFINE p == SubSeq(l, 1, 1)
           q == <<l[1]>>
<1>1. Len(l) \in Nat \ {0} /\ l[1] \in Event
  OBVIOUS
<1>2. p \in Seq(Event) /\ Len(p) = 1 /\ p[1] = l[1]
  BY <1>1
<1>3. q \in Seq(Event) /\ Len(q) = 1 /\ q[1] = l[1]
  BY <1>1
<1> HIDE DEF p, q
<1>4. \A i \in 1 .. Len(p) : p[i] = q[i]
  BY <1>2, <1>3
<1>5. p = q
  BY <1>2, <1>3, <1>4, SeqEqual
<1> QED
  BY <1>5 DEF p, q

(* Grammar is all that LogFits asks for, of every prefix. *)
LEMMA PrefixFits ==
  ASSUME NEW l \in Seq(Event), WellFormed(l), NEW n \in 1 .. Len(l)
  PROVE  LogFits(SubSeq(l, 1, n))
<1> DEFINE P(k) == LogFits(SubSeq(l, 1, k))
           S == {k \in Nat : k + 1 \in 1 .. Len(l) => P(k + 1)}
<1>1. Len(l) \in Nat \ {0} /\ l[1] = TurnStart(1)
  BY DEF WellFormed
<1>2. 0 \in S
  <2>1. SubSeq(l, 1, 1) = <<TurnStart(1)>> /\ 0 + 1 = 1
    BY <1>1, FirstPrefix
  <2> QED
    BY <2>1, FirstTurnFits
<1>3. ASSUME NEW k \in 1 .. Len(l), P(k), k + 1 \in 1 .. Len(l)
      PROVE  P(k + 1)
  <2>1. Follows(l[k], l[k + 1]) /\ l[k + 1] \in Event
    BY <1>1, <1>3 DEF WellFormed
  <2> QED
    BY <1>3, <2>1, PrefixLooks, AppendFits
<1> HIDE DEF P
<1>4. ASSUME NEW k \in Nat, k \in S
      PROVE  k + 1 \in S
  BY <1>1, <1>3, <1>4
<1>5. \A k \in Nat : k \in S
  <2> HIDE DEF S
  <2> QED
    BY <1>2, <1>4, Induction
<1>6. n - 1 \in Nat /\ (n - 1) + 1 = n
  OBVIOUS
<1> QED
  BY <1>5, <1>6 DEF P

(* A message of a log whose answers fit is answered so, and fit, at any earlier
   point too. *)
LEMMA NextPrefixAnswers ==
  ASSUME NEW l \in Seq(Event), WellFormed(l), AnswersFit(l),
         NEW n \in 1 .. Len(l), n + 1 \in 1 .. Len(l), AnswersFit(SubSeq(l, 1, n))
  PROVE  AnswersFit(SubSeq(l, 1, n + 1))
<1> DEFINE p == SubSeq(l, 1, n)
           e == l[n + 1]
<1>1. /\ p \in Seq(Event) /\ Len(p) = n /\ p # << >> /\ LastEvent(p) = l[n]
      /\ \A i \in 1 .. n : p[i] = l[i]
      /\ SubSeq(l, 1, n + 1) = Append(p, e)
  BY PrefixLooks
<1>2. /\ Len(l) \in Nat /\ e \in Event /\ Follows(LastEvent(p), e)
      /\ \A j \in 1 .. Len(l) : l[j] \in Event /\ l[j].turn \in Nat /\ l[j].step \in Nat
      /\ LastEvent(l) = l[Len(l)]
  BY <1>1, EventFields DEF WellFormed, LastEvent
<1> HIDE DEF p
<1>3. ASSUME NEW i \in 1 .. n, NEW c
      PROVE  ResultsOf(p, i, c) = {j \in ResultsOf(l, i, c) : j <= n}
  BY <1>1, <1>2 DEF ResultsOf, Is
<1>4. ASSUME NEW i \in 1 .. n, Asks(p, i), SameStep(p[i], e)
      PROVE  /\ i \in 1 .. Len(l) /\ Asks(l, i) /\ SameStep(l[i], e) /\ p[i] = l[i]
             /\ l[i].calls \in Nat
  BY <1>1, <1>2, <1>4, EventFields DEF Asks, Is
<1>5. ASSUME NEW i \in 1 .. n, Asks(p, i), SameStep(p[i], e), e.type = "step/end"
      PROVE  AnsweredTo(p, i, p[i].calls)
  <2>1. PICK d \in 0 .. l[i].calls :
          /\ AnsweredTo(l, i, d)
          /\ d < l[i].calls => LastEvent(l).type \in InStep /\ SameStep(l[i], LastEvent(l))
    BY <1>4, <1>5 DEF AnswersFit, Answering
  <2>2. ASSUME NEW j \in n + 2 .. Len(l)
        PROVE  ~SameStep(l[j], l[i]) \/ l[j].type = "turn/end"
    <3>1. Precedes(e, l[j]) /\ j \in 1 .. Len(l)
      BY <1>2 DEF AnswersFit, InOrder
    <3> QED
      BY <1>2, <1>4, <1>5, <3>1 DEF Precedes, SameStep
  <2>3. d = l[i].calls
    <3>1. CASE Len(l) = n + 1
      BY <1>2, <1>4, <1>5, <2>1, <3>1 DEF InStep
    <3>2. CASE Len(l) # n + 1
      <4>1. Len(l) \in n + 2 .. Len(l)
        BY <1>2, <3>2
      <4>2. ~SameStep(LastEvent(l), l[i]) \/ LastEvent(l).type = "turn/end"
        BY <1>2, <2>2, <4>1
      <4>3. ~(d < l[i].calls)
        BY <2>1, <4>2 DEF InStep, SameStep
      <4> QED
        BY <1>4, <1>5, <4>3
    <3> QED
      BY <3>1, <3>2
  <2>4. ASSUME NEW c
        PROVE  ResultsOf(p, i, c) = ResultsOf(l, i, c)
    <3>1. ASSUME NEW j \in ResultsOf(l, i, c)
          PROVE  j <= n
      <4>1. j \in 1 .. Len(l) /\ l[j].type = "tool/result" /\ SameStep(l[j], l[i])
        BY DEF ResultsOf, Is
      <4>2. j # n + 1
        BY <1>5, <4>1
      <4>3. j \notin n + 2 .. Len(l)
        BY <2>2, <4>1
      <4> QED
        BY <1>2, <4>1, <4>2, <4>3
    <3> QED
      BY <1>3, <3>1
  <2>5. AnsweredTo(l, i, l[i].calls) /\ i + 1 \in Nat
    BY <2>1, <2>3
  <2>6. ASSUME NEW c \in 1 .. l[i].calls
        PROVE  \E j \in i + 1 .. n :
                 /\ ResultsOf(p, i, c) = {j}
                 /\ \A b \in 1 .. c - 1 : \A g \in ResultsOf(p, i, b) : g < j
    <3>1. PICK j \in i + 1 .. Len(l) :
            /\ ResultsOf(l, i, c) = {j}
            /\ \A b \in 1 .. c - 1 : \A g \in ResultsOf(l, i, b) : g < j
      BY <2>5 DEF AnsweredTo
    <3>2. j \in ResultsOf(p, i, c)
      BY <2>4, <3>1
    <3>3. j \in i + 1 .. n
      BY <1>3, <3>1, <3>2
    <3> QED
      BY <2>4, <3>1, <3>3
  <2>7. p[i].calls = l[i].calls /\ l[i].calls \in 0 .. l[i].calls
    BY <1>4, <1>5
  <2>8. l[i].calls + 1 .. l[i].calls = {}
    BY <1>4, <1>5
  <2> QED
    BY <1>1, <2>6, <2>7, <2>8 DEF AnsweredTo
<1>6. ASSUME NEW i \in 1 .. n, Asks(p, i), SameStep(p[i], e), e.type = "tool/result",
             e.call \in 1 .. p[i].calls
      PROVE  AnsweredTo(p, i, e.call - 1)
  <2>1. PICK d \in 0 .. l[i].calls : AnsweredTo(l, i, d)
    BY <1>4, <1>6 DEF AnswersFit, Answering
  <2>2. n + 1 \in ResultsOf(l, i, e.call)
    BY <1>4, <1>6 DEF ResultsOf, Is, SameStep
  <2>3. e.call \in 1 .. l[i].calls /\ l[i].calls \in Nat
    BY <1>4, <1>6
  <2>4. e.call \in 1 .. d
    <3>1. CASE e.call \in d + 1 .. l[i].calls
      BY <2>1, <2>2, <3>1 DEF AnsweredTo
    <3> QED
      BY <2>3, <3>1
  <2>5. ASSUME NEW c \in 1 .. d
        PROVE  \E j \in i + 1 .. Len(l) :
                 /\ ResultsOf(l, i, c) = {j}
                 /\ \A b \in 1 .. c - 1 : \A g \in ResultsOf(l, i, b) : g < j
    BY <2>1 DEF AnsweredTo
  <2>6. ResultsOf(l, i, e.call) = {n + 1} /\ \A b \in 1 .. e.call - 1 :
          \A g \in ResultsOf(l, i, b) : g < n + 1
    BY <2>2, <2>4, <2>5
  <2>7. ASSUME NEW c \in 1 .. e.call - 1
        PROVE  \E j \in i + 1 .. n :
                 /\ ResultsOf(p, i, c) = {j}
                 /\ \A b \in 1 .. c - 1 : \A g \in ResultsOf(p, i, b) : g < j
    <3>1. c \in 1 .. d
      BY <2>3, <2>4
    <3>2. PICK j \in i + 1 .. Len(l) :
            /\ ResultsOf(l, i, c) = {j}
            /\ \A b \in 1 .. c - 1 : \A g \in ResultsOf(l, i, b) : g < j
      BY <2>5, <3>1
    <3>3. j < n + 1
      BY <2>6, <3>2
    <3>4. j \in i + 1 .. n /\ j <= n
      BY <3>3
    <3>5. ResultsOf(p, i, c) = {j}
      BY <1>3, <3>2, <3>4
    <3>6. ASSUME NEW b \in 1 .. c - 1, NEW g \in ResultsOf(p, i, b)
          PROVE  g < j
      BY <1>3, <3>2
    <3> QED
      BY <3>4, <3>5, <3>6
  <2>8. ASSUME NEW c \in (e.call - 1) + 1 .. p[i].calls
        PROVE  ResultsOf(p, i, c) = {}
    <3>1. c \in e.call .. l[i].calls
      BY <1>4, <1>6, <2>3
    <3>2. CASE c = e.call
      <4>1. \A j \in ResultsOf(p, i, c) : j = n + 1 /\ j <= n
        BY <1>3, <2>6, <3>2
      <4> QED
        BY <4>1
    <3>3. CASE c # e.call /\ c <= d
      <4>1. c \in 1 .. d /\ e.call \in 1 .. c - 1
        BY <2>3, <3>1, <3>3
      <4>2. PICK j \in i + 1 .. Len(l) :
              /\ ResultsOf(l, i, c) = {j}
              /\ \A b \in 1 .. c - 1 : \A g \in ResultsOf(l, i, b) : g < j
        BY <2>5, <4>1
      <4>3. n + 1 < j
        BY <2>2, <4>1, <4>2
      <4>4. \A g \in ResultsOf(p, i, c) : g = j /\ g <= n
        BY <1>3, <4>2
      <4> QED
        BY <4>3, <4>4
    <3>4. CASE ~(c <= d)
      <4>1. c \in d + 1 .. l[i].calls
        BY <2>3, <3>1, <3>4
      <4>2. ResultsOf(l, i, c) = {}
        BY <2>1, <4>1 DEF AnsweredTo
      <4> QED
        BY <1>3, <4>2
    <3> QED
      BY <3>2, <3>3, <3>4
  <2>9. e.call - 1 \in 0 .. p[i].calls
    BY <1>4, <1>6, <2>3
  <2> QED
    BY ONLY <1>1, <2>7, <2>8, <2>9 DEF AnsweredTo
<1> HIDE DEF e
<1>7. ASSUME NEW i \in 1 .. Len(p), Asks(p, i), SameStep(p[i], e)
      PROVE  /\ e.type = "step/end" => AnsweredTo(p, i, p[i].calls)
             /\ e.type = "tool/result" /\ e.call \in 1 .. p[i].calls =>
                  AnsweredTo(p, i, e.call - 1)
  BY <1>1, <1>5, <1>6, <1>7
<1>8. AnswersFit(p)
  BY DEF p
<1>9. AnswersFit(Append(p, e))
  BY <1>1, <1>2, <1>7, <1>8, AppendAnswers
<1> QED
  BY <1>1, <1>9

(* Wherever a log whose answers fit is cut, they fit. *)
LEMMA PrefixAnswers ==
  ASSUME NEW l \in Seq(Event), WellFormed(l), AnswersFit(l), NEW n \in 1 .. Len(l)
  PROVE  AnswersFit(SubSeq(l, 1, n))
<1> DEFINE P(k) == AnswersFit(SubSeq(l, 1, k))
           S == {k \in Nat : k + 1 \in 1 .. Len(l) => P(k + 1)}
<1>1. Len(l) \in Nat \ {0} /\ l[1] = TurnStart(1)
  BY DEF WellFormed
<1>2. 0 \in S
  <2>1. SubSeq(l, 1, 1) = <<TurnStart(1)>> /\ 0 + 1 = 1
    BY <1>1, FirstPrefix
  <2> QED
    BY <2>1, FirstTurnAnswers
<1>3. ASSUME NEW k \in 1 .. Len(l), P(k), k + 1 \in 1 .. Len(l)
      PROVE  P(k + 1)
  BY <1>3, NextPrefixAnswers
<1> HIDE DEF P
<1>4. ASSUME NEW k \in Nat, k \in S
      PROVE  k + 1 \in S
  BY <1>1, <1>3, <1>4
<1>5. \A k \in Nat : k \in S
  <2> HIDE DEF S
  <2> QED
    BY <1>2, <1>4, Induction
<1>6. n - 1 \in Nat /\ (n - 1) + 1 = n
  OBVIOUS
<1> QED
  BY <1>5, <1>6 DEF P

-------------------------------------------------------------------------------
(* Repair. *)

(* As many pairs as second components. *)
LEMMA CountPairs ==
  ASSUME NEW i, NEW a \in Int, NEW b \in Int, NEW A,
         \A q \in A : q = <<i, q[2]>>,
         \A c : <<i, c>> \in A <=> c \in a .. b
  PROVE  Cardinality(A) = IF a > b THEN 0 ELSE b - a + 1
<1> DEFINE f == [c \in a .. b |-> <<i, c>>]
<1>1. f \in [a .. b -> A]
  OBVIOUS
<1>2. ASSUME NEW c \in a .. b, NEW d \in a .. b, f[c] = f[d]
      PROVE  c = d
  BY <1>2
<1>3. ASSUME NEW q \in A
      PROVE  \E c \in a .. b : f[c] = q
  <2>1. q = <<i, q[2]>> /\ q[2] \in a .. b
    OBVIOUS
  <2> QED
    BY <2>1
<1> HIDE DEF f
<1>4. f \in Injection(a .. b, A)
  BY <1>1, <1>2 DEF Injection, IsInjective
<1>5. f \in Surjection(a .. b, A)
  BY <1>1, <1>3 DEF Surjection
<1>6. ExistsBijection(a .. b, A)
  BY <1>4, <1>5 DEF ExistsBijection, Bijection
<1>7. IsFiniteSet(a .. b) /\ Cardinality(a .. b) = IF a > b THEN 0 ELSE b - a + 1
  BY FS_Interval
<1> QED
  BY <1>6, <1>7, FS_Bijection

(* The calls of one message behind its first d. *)
CallsBehind(open, i, d, n) ==
  /\ \A r \in open : r = <<i, r[2]>>
  /\ \A c : <<i, c>> \in open <=> c \in d + 1 .. n

(* The k-th of them is d + k. *)
LEMMA NthBehind ==
  ASSUME NEW i \in Nat, NEW d \in Nat, NEW n \in Nat, d <= n, NEW k \in 1 .. n - d, NEW open,
         CallsBehind(open, i, d, n)
  PROVE  Nth(open, k) = <<i, d + k>>
<1>1. /\ \A r \in open : r = <<i, r[2]>>
      /\ \A c : <<i, c>> \in open <=> c \in d + 1 .. n
  BY DEF CallsBehind
<1>2. ASSUME NEW c \in d + 1 .. n
      PROVE  Cardinality({q \in open : Before(q, <<i, c>>)}) = c - d - 1
  <2> DEFINE A == {q \in open : Before(q, <<i, c>>)}
  <2>1. ASSUME NEW b
        PROVE  <<i, b>> \in A <=> b \in d + 1 .. c - 1
    <3>1. Before(<<i, b>>, <<i, c>>) <=> b < c
      BY DEF Before
    <3> QED
      BY <1>1, <3>1
  <2>2. \A q \in A : q = <<i, q[2]>>
    BY <1>1
  <2> HIDE DEF A
  <2>3. Cardinality(A) = IF d + 1 > c - 1 THEN 0 ELSE (c - 1) - (d + 1) + 1
    <3>1. d + 1 \in Int /\ c - 1 \in Int
      OBVIOUS
    <3> QED
      BY <2>1, <2>2, <3>1, CountPairs
  <2> QED
    BY <2>3 DEF A
<1> DEFINE t == CHOOSE r \in open : Cardinality({q \in open : Before(q, r)}) = k - 1
<1>3. d + k \in d + 1 .. n /\ (d + k) - d - 1 = k - 1
  OBVIOUS
<1>4. <<i, d + k>> \in open /\ Cardinality({q \in open : Before(q, <<i, d + k>>)}) = k - 1
  BY <1>1, <1>2, <1>3
<1>5. t \in open /\ Cardinality({q \in open : Before(q, t)}) = k - 1
  BY <1>4
<1> HIDE DEF t
<1>6. t = <<i, t[2]>> /\ t[2] \in d + 1 .. n
  BY <1>1, <1>5
<1>7. t[2] - d - 1 = k - 1
  BY <1>2, <1>5, <1>6
<1>8. t[2] = d + k
  BY <1>6, <1>7
<1>9. t = <<i, d + k>>
  BY <1>6, <1>8
<1> QED
  BY <1>9 DEF t, Nth

(* In an open step the unanswered calls are those of one message, from the first
   that has no result to its last. *)
LEMMA UnansweredTail ==
  ASSUME NEW l \in Seq(Event), l # << >>, LogFits(l), AnswersFit(l),
         NEW i \in 1 .. Len(l), Asks(l, i), SameStep(l[i], LastEvent(l)),
         LastEvent(l).type \in InStep
  PROVE  \E d \in 0 .. l[i].calls :
           /\ l[i].calls \in Nat /\ AnsweredTo(l, i, d)
           /\ CallsBehind(Unanswered(l), i, d, l[i].calls)
<1>1. l[i].calls \in 0 .. MaxCall
  BY EventFields DEF Asks, Is
<1>2. PICK d \in 0 .. l[i].calls : AnsweredTo(l, i, d)
  BY DEF AnswersFit, Answering
<1>3. \A c \in 1 .. l[i].calls : <<i, c>> \in Unanswered(l) <=> c > d
  BY <1>2, AwaitsUnanswered DEF AnswersFit
<1>4. ASSUME NEW r \in Unanswered(l)
      PROVE  r = <<i, r[2]>> /\ r[2] \in 1 .. l[i].calls
  <2>1. /\ r = <<r[1], r[2]>> /\ r[1] \in PendingRequests(l) /\ r[2] \in CallIndex
        /\ r[2] <= l[r[1]].calls
    BY DEF Unanswered
  <2>2. r[1] \in 1 .. Len(l) /\ l[r[1]].type = "assistant/message"
    BY <2>1 DEF PendingRequests, Latest, Is
  <2>3. l[r[1]].calls \in Nat
    BY <2>2, EventFields
  <2>4. r[2] \in Nat /\ r[2] > 0 /\ l[r[1]].calls > 0
    BY <2>1, <2>3, MaxCallAssumption DEF CallIndex
  <2>5. Asks(l, r[1]) /\ SameStep(l[r[1]], l[i])
    BY <2>1, <2>2, <2>4 DEF Asks, Is, LogFits, PendingFits, SameStep
  <2>6. r[1] = i
    BY <2>2, <2>5 DEF AnswersFit, OneAnswer
  <2> QED
    BY <2>1, <2>3, <2>4, <2>6
<1>5. ASSUME NEW c
      PROVE  <<i, c>> \in Unanswered(l) <=> c \in d + 1 .. l[i].calls
  <2>1. <<i, c>> \in Unanswered(l) => c \in 1 .. l[i].calls
    BY <1>4
  <2>2. c \in d + 1 .. l[i].calls <=> c \in 1 .. l[i].calls /\ c > d
    BY <1>1, <1>2
  <2> QED
    BY <1>3, <2>1, <2>2
<1> QED
  BY <1>1, <1>2, <1>4, <1>5, MaxCallAssumption DEF CallsBehind

(* What repair records for the requests of a step, in assistant order. *)
LEMMA RecoveryLooks ==
  ASSUME NEW l \in Seq(Event), NEW i \in Nat, NEW n \in Nat, NEW d \in 0 .. n,
         CallsBehind(Unanswered(l), i, d, n)
  PROVE  /\ Recovery(l) \in Seq(Event) /\ Len(Recovery(l)) = n - d
         /\ \A k \in 1 .. n - d :
              /\ Recovery(l)[k].type = "tool/result" /\ Recovery(l)[k].call = d + k
              /\ SameStep(Recovery(l)[k], l[i])
<1> DEFINE s == [k \in 1 .. n - d |-> RecoveryResult(l, i, d + k)]
<1>1. Cardinality(Unanswered(l)) = n - d
  <2>1. d + 1 \in Int /\ n \in Int /\ d <= n
    OBVIOUS
  <2>2. Cardinality(Unanswered(l)) = IF d + 1 > n THEN 0 ELSE n - (d + 1) + 1
    BY <2>1, CountPairs DEF CallsBehind
  <2> QED
    BY <2>1, <2>2
<1>2. Recovery(l) = s
  <2> DEFINE nth(k) == Nth(Unanswered(l), k)
             f(k) == RecoveryResult(l, nth(k)[1], nth(k)[2])
  <2>1. Recovery(l) = [k \in 1 .. Cardinality(Unanswered(l)) |-> f(k)]
    BY DEF Recovery
  <2>2. ASSUME NEW k \in 1 .. n - d
        PROVE  nth(k) = <<i, d + k>>
    <3>1. d \in Nat /\ d <= n
      OBVIOUS
    <3> QED
      BY <3>1, NthBehind
  <2> HIDE DEF nth
  <2>3. \A k \in 1 .. n - d : f(k) = RecoveryResult(l, i, d + k)
    BY <2>2
  <2> HIDE DEF f
  <2> QED
    BY <1>1, <2>1, <2>3
<1>3. ASSUME NEW k \in 1 .. n - d
      PROVE  /\ s[k] = RecoveryResult(l, i, d + k) /\ s[k] \in Event
             /\ s[k].type = "tool/result" /\ s[k].call = d + k /\ SameStep(s[k], l[i])
  <2>1. <<i, d + k>> \in Unanswered(l)
    <3>1. d + k \in d + 1 .. n
      OBVIOUS
    <3> QED
      BY <3>1 DEF CallsBehind
  <2>2. <<i, d + k>>[1] = i /\ <<i, d + k>>[2] = d + k
    OBVIOUS
  <2>3. RecoveryResult(l, i, d + k) \in Event
    BY <2>1, <2>2, RecoveryResultIsEvent
  <2>4. s[k] = RecoveryResult(l, i, d + k)
    OBVIOUS
  <2> HIDE DEF s
  <2> QED
    BY <2>3, <2>4 DEF RecoveryResult, ToolResult, SameStep
<1>4. s \in [1 .. n - d -> Event] /\ n - d \in Nat
  BY <1>3
<1>5. s \in Seq(Event) /\ Len(s) = n - d
  BY <1>4
<1> HIDE DEF s
<1> QED
  BY <1>2, <1>3, <1>5

(* Repair answers every request of an open step, once and in order. *)
LEMMA RepairAnswers ==
  ASSUME NEW l \in Seq(Event), l # << >>, LogFits(l), AnswersFit(l),
         LastEvent(l).type \in InStep
  PROVE  LET k == l \o Recovery(l) IN
         /\ Recovery(l) \in Seq(Event)
         /\ k \in Seq(Event) /\ k # << >> /\ LogFits(k) /\ AnswersFit(k)
         /\ LastEvent(k).type \in InStep /\ SameStep(LastEvent(k), LastEvent(l))
         /\ \A i \in 1 .. Len(k) : Asks(k, i) /\ SameStep(k[i], LastEvent(l)) =>
              AnsweredTo(k, i, k[i].calls)
<1>1. Len(l) \in Nat \ {0} /\ LastEvent(l) \in Event
  BY DEF LastEvent
<1>2. CASE Unanswered(l) = {}
  <2>1. Recovery(l) = << >>
    <3>1. Cardinality(Unanswered(l)) = 0
      BY <1>2, FS_EmptySet
    <3>2. Recovery(l) \in Seq(Event) /\ Len(Recovery(l)) = 0
      BY <3>1 DEF Recovery
    <3> QED
      BY <3>2
  <2>2. l \o Recovery(l) = l /\ Recovery(l) \in Seq(Event)
    BY <2>1
  <2>3. ASSUME NEW i \in 1 .. Len(l), Asks(l, i), SameStep(l[i], LastEvent(l))
        PROVE  AnsweredTo(l, i, l[i].calls)
    <3>1. PICK d \in 0 .. l[i].calls :
            /\ l[i].calls \in Nat /\ AnsweredTo(l, i, d)
            /\ CallsBehind(Unanswered(l), i, d, l[i].calls)
      BY <2>3, UnansweredTail
    <3>2. d = l[i].calls
      <4>1. CASE d < l[i].calls
        <5>1. d + 1 \in d + 1 .. l[i].calls
          BY <3>1, <4>1
        <5> QED
          BY <1>2, <3>1, <5>1 DEF CallsBehind
      <4> QED
        BY <3>1, <4>1
    <3> QED
      BY <3>1, <3>2
  <2>4. SameStep(LastEvent(l), LastEvent(l))
    BY DEF SameStep
  <2> QED
    BY <2>2, <2>3, <2>4
<1>3. CASE Unanswered(l) # {}
  <2> DEFINE s == Recovery(l)
             k == l \o s
  <2>1. PICK r \in Unanswered(l) : TRUE
    BY <1>3
  <2> DEFINE i == r[1]
  <2>2. /\ i \in PendingRequests(l) /\ i \in 1 .. Len(l) /\ l[i].calls > 0
    BY <2>1, RecoveryResultIsEvent
  <2>3. Asks(l, i) /\ SameStep(l[i], LastEvent(l))
    BY <2>2 DEF PendingRequests, Latest, Asks, Is, LogFits, PendingFits
  <2>4. PICK d \in 0 .. l[i].calls :
           /\ l[i].calls \in Nat /\ AnsweredTo(l, i, d)
           /\ CallsBehind(Unanswered(l), i, d, l[i].calls)
    BY <2>2, <2>3, UnansweredTail
  <2> DEFINE n == l[i].calls
  <2>5. d + 1 \in d + 1 .. n /\ n - d \in Nat \ {0} /\ d \in Nat /\ n \in Nat
    <3>1. r[2] \in d + 1 .. n
      BY <2>1, <2>4 DEF CallsBehind
    <3> QED
      BY <2>4, <3>1
  <2>6. /\ s \in Seq(Event) /\ Len(s) = n - d
        /\ \A p \in 1 .. n - d : /\ s[p].type = "tool/result" /\ s[p].call = d + p
                                 /\ SameStep(s[p], l[i])
    <3>1. i \in Nat /\ n \in Nat /\ d \in 0 .. n
      BY <2>2, <2>4
    <3> HIDE DEF i
    <3> QED
      BY <2>4, <3>1, RecoveryLooks
  <2> HIDE DEF s, i
  <2>7. /\ s # << >> /\ Len(s) \in Nat \ {0}
        /\ \A p \in 1 .. Len(s) : /\ SameStep(s[p], LastEvent(l)) /\ s[p].type \in ToolEvent
                                  /\ SameStep(LastEvent(l), s[p])
    BY <2>3, <2>5, <2>6 DEF SameStep, ToolEvent
  <2>8. Follows(LastEvent(l), s[1])
    <3>1. Asking(LastEvent(l)) \/ LastEvent(l).type \in ToolEvent
      BY <2>2 DEF LogFits, PendingFits
    <3>2. 1 \in 1 .. Len(s)
      BY <2>7
    <3> QED
      BY <2>7, <3>1, <3>2 DEF Follows, ToolEvent
  <2>9. ASSUME NEW p \in 1 .. Len(s) - 1
        PROVE  Follows(s[p], s[p + 1])
    <3>1. p \in 1 .. Len(s) /\ p + 1 \in 1 .. Len(s)
      BY <2>7
    <3> QED
      BY <2>6, <2>7, <3>1 DEF Follows, ToolEvent, SameStep
  <2>10. LogFits(k)
    BY <2>6, <2>7, <2>8, <2>9, ConcatFits
  <2>11. AnsweredTo(k, i, n)
    <3> DEFINE at == [c \in d + 1 .. n |-> c - d]
    <3>1. \A c \in d + 1 .. n : c - d \in 1 .. n - d /\ at[c] = c - d /\ d + (c - d) = c
      BY <2>5
    <3>2. at \in [d + 1 .. n -> 1 .. Len(s)]
      BY <2>6, <3>1
    <3> HIDE DEF at
    <3>3. ASSUME NEW c \in d + 1 .. n
          PROVE  /\ s[at[c]].type = "tool/result" /\ SameStep(s[at[c]], l[i])
                 /\ s[at[c]].call = c
                 /\ \A b \in d + 1 .. c - 1 : at[b] < at[c]
      <4>1. \A b \in d + 1 .. c - 1 : b \in d + 1 .. n /\ b - d < c - d
        BY <2>5
      <4> QED
        BY <2>6, <3>1, <4>1
    <3>4. ASSUME NEW p \in 1 .. Len(s)
          PROVE  \E c \in d + 1 .. n : p = at[c]
      <4>1. d + p \in d + 1 .. n /\ (d + p) - d = p
        BY <2>5, <2>6
      <4> QED
        BY <3>1, <4>1
    <3>5. i \in 1 .. Len(l) /\ d \in Nat /\ n \in Nat /\ AnsweredTo(l, i, d)
      BY <2>2, <2>4, <2>5
    <3>6. AnsweredTo(l \o s, i, l[i].calls)
      BY <2>6, <3>2, <3>3, <3>4, <3>5, AnsweredConcat
    <3> QED
      BY <3>6
  <2>12. ASSUME NEW j \in 1 .. Len(l), Asks(l, j), SameStep(l[j], LastEvent(l))
         PROVE  j = i
    <3>1. SameStep(l[j], l[i]) /\ i \in 1 .. Len(l)
      BY <2>2, <2>3, <2>12 DEF SameStep, i
    <3> QED
      BY <2>3, <2>12, <3>1 DEF AnswersFit, OneAnswer
  <2>13. AnswersFit(k)
    BY <2>6, <2>7, <2>11, <2>12, ConcatAnswers
  <2>14. /\ k \in Seq(Event) /\ k # << >> /\ Len(k) = Len(l) + Len(s)
         /\ LastEvent(k) = s[Len(s)] /\ Len(s) \in 1 .. Len(s)
    <3>1. k \in Seq(Event) /\ Len(k) = Len(l) + Len(s) /\ Len(s) \in 1 .. Len(s)
      BY <2>6, <2>7
    <3>2. k[Len(k)] = s[Len(s)]
      <4>1. \A m \in 1 .. Len(s) : k[Len(l) + m] = s[m]
        BY <2>6
      <4> HIDE DEF k
      <4> QED
        BY <3>1, <4>1
    <3> QED
      BY <1>1, <2>7, <3>1, <3>2 DEF LastEvent
  <2>15. ASSUME NEW j \in 1 .. Len(k), Asks(k, j), SameStep(k[j], LastEvent(l))
         PROVE  AnsweredTo(k, j, k[j].calls)
    <3>1. CASE j \in 1 .. Len(l)
      <4>1. k[j] = l[j]
        BY <2>6, <3>1
      <4>2. j = i
        BY <2>12, <2>15, <3>1, <4>1 DEF Asks, Is
      <4> QED
        BY <2>11, <4>1, <4>2
    <3>2. CASE j \notin 1 .. Len(l)
      <4>1. j - Len(l) \in 1 .. Len(s) /\ j = Len(l) + (j - Len(l))
        BY <1>1, <2>7, <2>14, <3>2
      <4>2. k[j] = s[j - Len(l)]
        BY <1>1, <2>6, <4>1
      <4> QED
        BY <2>7, <2>15, <4>1, <4>2 DEF Asks, Is, ToolEvent
    <3> QED
      BY <3>1, <3>2
  <2>16. LastEvent(k).type \in InStep /\ SameStep(LastEvent(k), LastEvent(l))
    BY <2>7, <2>14 DEF ToolEvent, InStep
  <2> HIDE DEF k
  <2> QED
    BY <2>6, <2>10, <2>13, <2>14, <2>15, <2>16 DEF k, s
<1> QED
  BY <1>2, <1>3

(* After its end a turn is not open. *)
LEMMA EndedTurn ==
  ASSUME NEW l \in Seq(Event), l # << >>, LastEvent(l).type = "turn/end"
  PROVE  OpenTurns(l) = {}
<1> SUFFICES ASSUME NEW i \in 1 .. Len(l), Is(l, i, {"turn/start"}), NoneAfter(l, i, TurnBoundary)
             PROVE  FALSE
  BY DEF OpenTurns, Latest
<1>1. i # Len(l) /\ Len(l) \in Nat
  BY DEF LastEvent, Is
<1>2. Len(l) \in i + 1 .. Len(l)
  BY <1>1
<1> QED
  BY <1>2 DEF NoneAfter, Is, TurnBoundary, LastEvent

(* One event that closes a turn, and before it the event that closes its step. *)
LEMMA EndBalances ==
  ASSUME NEW l \in Seq(Event), l # << >>, LogFits(l), AnswersFit(l),
         LastEvent(l).type \in {"turn/start", "step/end"},
         NEW e \in Event, e.type = "turn/end", SameTurn(LastEvent(l), e)
  PROVE  Balanced(Append(l, e))
<1> DEFINE k == Append(l, e)
<1>1. k \in Seq(Event) /\ k # << >> /\ LastEvent(k) = e
  BY AppendLooks
<1>2. Follows(LastEvent(l), e)
  BY DEF Follows
<1>3. LogFits(k)
  BY <1>2, AppendFits
<1>4. AnswersFit(k)
  BY <1>2, AppendAnswers
<1> HIDE DEF k
<1>5. OpenTurns(k) = {} /\ WellFormed(k) /\ CallsAnswered(k)
  BY <1>1, <1>3, <1>4, EndedTurn, FitIsAnswered DEF LogFits
<1> QED
  BY <1>5 DEF Balanced, k

LEMMA StepEndAnswers ==
  ASSUME NEW l \in Seq(Event), l # << >>, LogFits(l), AnswersFit(l),
         LastEvent(l).type \in InStep,
         \A i \in 1 .. Len(l) : Asks(l, i) /\ SameStep(l[i], LastEvent(l)) =>
           AnsweredTo(l, i, l[i].calls),
         NEW e \in Event, e.type = "step/end", SameStep(LastEvent(l), e)
  PROVE  /\ Append(l, e) \in Seq(Event) /\ Append(l, e) # << >>
         /\ LogFits(Append(l, e)) /\ AnswersFit(Append(l, e)) /\ LastEvent(Append(l, e)) = e
<1>1. Follows(LastEvent(l), e)
  BY DEF Follows
<1>2. \A i \in 1 .. Len(l) : Asks(l, i) /\ SameStep(l[i], e) => AnsweredTo(l, i, l[i].calls)
  BY DEF SameStep
<1>3. LogFits(Append(l, e))
  BY <1>1, AppendFits
<1>4. AnswersFit(Append(l, e))
  BY <1>1, <1>2, AppendAnswers
<1> QED
  BY <1>3, <1>4, AppendLooks

(* Closing a log that fits, wherever it was cut off, balances it. *)
LEMMA ClosersBalance ==
  ASSUME NEW l \in Seq(Event), l # << >>, LogFits(l), AnswersFit(l)
  PROVE  Balanced(l \o Closers(l))
<1> DEFINE e == LastEvent(l)
           end == TurnEnd(e.turn, "interrupted", "none")
<1>1. e \in Event /\ e.turn \in Nat \ {0} /\ e.step \in Nat
  <2>1. Len(l) \in 1 .. Len(l)
    OBVIOUS
  <2> QED
    BY <2>1, EventFields DEF LastEvent, LogFits, CursorFits
<1>2. /\ OpenTurn(l) = IF e.type = "turn/end" THEN 0 ELSE e.turn
      /\ OpenStep(l) = IF e.type \in InStep THEN e.step ELSE 0
      /\ e.type \in InStep => e.step # 0
  BY DEF LogFits, CursorFits
<1>3. end \in Event /\ end.type = "turn/end" /\ end.turn = e.turn
  BY <1>1, EventsAreEvents DEF TurnEnd, TurnEndKind
<1> HIDE DEF e, end
<1>4. CASE e.type = "turn/end"
  <2>1. Closers(l) = << >>
    BY <1>2, <1>4 DEF Closers
  <2>2. l \o Closers(l) = l
    BY <2>1
  <2>3. OpenTurns(l) = {} /\ WellFormed(l) /\ CallsAnswered(l)
    BY <1>4, EndedTurn, FitIsAnswered DEF LogFits, e
  <2> QED
    BY <2>2, <2>3 DEF Balanced
<1>5. CASE e.type \in InStep
  <2> DEFINE s == Recovery(l)
             k == l \o s
             stop == StepEnd(e.turn, e.step)
             m == Append(k, stop)
  <2>1. Closers(l) = s \o <<stop>> \o <<end>>
    BY <1>1, <1>2, <1>5 DEF Closers, InStep, end
  <2>2. stop \in Event /\ stop.type = "step/end" /\ stop.turn = e.turn /\ stop.step = e.step
    BY <1>1, EventsAreEvents DEF StepEnd
  <2>4. /\ s \in Seq(Event)
        /\ k \in Seq(Event) /\ k # << >> /\ LogFits(k) /\ AnswersFit(k)
        /\ LastEvent(k).type \in InStep /\ SameStep(LastEvent(k), e)
        /\ \A i \in 1 .. Len(k) : Asks(k, i) /\ SameStep(k[i], e) => AnsweredTo(k, i, k[i].calls)
    BY <1>5, RepairAnswers DEF e
  <2> HIDE DEF stop, s
  <2>5. l \o Closers(l) = Append(m, end)
    <3>1. <<stop>> \in Seq(Event) /\ <<end>> \in Seq(Event) /\ s \o <<stop>> \in Seq(Event)
      BY <1>3, <2>2, <2>4
    <3>2. l \o ((s \o <<stop>>) \o <<end>>) = (l \o (s \o <<stop>>)) \o <<end>>
      BY <2>4, <3>1, ConcatAssociative
    <3>3. l \o (s \o <<stop>>) = k \o <<stop>>
      BY <2>4, <3>1, ConcatAssociative
    <3>4. k \o <<stop>> = m
      BY <2>2, <2>4
    <3>5. m \in Seq(Event)
      BY <2>2, <2>4
    <3> HIDE DEF m
    <3>6. m \o <<end>> = Append(m, end)
      BY <1>3, <3>5
    <3> QED
      BY <2>1, <3>2, <3>3, <3>4, <3>6
  <2> HIDE DEF k
  <2>6. SameStep(LastEvent(k), stop)
    BY <2>2, <2>4 DEF SameStep
  <2>7. \A i \in 1 .. Len(k) : Asks(k, i) /\ SameStep(k[i], LastEvent(k)) =>
          AnsweredTo(k, i, k[i].calls)
    BY <2>4 DEF SameStep
  <2>8. /\ m \in Seq(Event) /\ m # << >> /\ LogFits(m) /\ AnswersFit(m) /\ LastEvent(m) = stop
    BY <2>2, <2>4, <2>6, <2>7, StepEndAnswers
  <2> HIDE DEF m
  <2>9. SameTurn(LastEvent(m), end)
    BY <1>3, <2>2, <2>8 DEF SameTurn
  <2>10. Balanced(Append(m, end))
    BY <1>3, <2>2, <2>8, <2>9, EndBalances
  <2> QED
    BY <2>5, <2>10
<1>6. CASE e.type \in {"turn/start", "step/end"}
  <2>1. Unanswered(l) = {}
    <3> SUFFICES ASSUME NEW r \in Unanswered(l)
                 PROVE  FALSE
      OBVIOUS
    <3>1. r[1] \in PendingRequests(l) /\ l[r[1]].calls > 0
      BY RecoveryResultIsEvent
    <3>2. Asking(e) \/ e.type \in ToolEvent
      BY <3>1 DEF LogFits, PendingFits, e
    <3> QED
      BY <1>6, <3>2 DEF Asking, ToolEvent
  <2>2. Recovery(l) = << >>
    <3>1. Cardinality(Unanswered(l)) = 0
      BY <2>1, FS_EmptySet
    <3>2. Recovery(l) \in Seq(Event) /\ Len(Recovery(l)) = 0
      BY <3>1 DEF Recovery
    <3> QED
      BY <3>2
  <2>3. OpenTurn(l) = e.turn /\ OpenStep(l) = 0
    BY <1>2, <1>6 DEF InStep
  <2>4. Closers(l) = <<end>>
    BY <1>1, <2>2, <2>3 DEF Closers, end
  <2>5. l \o Closers(l) = Append(l, end)
    BY <1>3, <2>4
  <2>6. SameTurn(e, end)
    BY <1>3 DEF SameTurn
  <2> QED
    BY <1>3, <1>6, <2>5, <2>6, EndBalances DEF e
<1>7. e.type \in StepBoundary \cup InStep
  BY <1>1, EventFields
<1> QED
  BY <1>4, <1>5, <1>6, <1>7 DEF StepBoundary, TurnBoundary, InStep
===============================================================================
