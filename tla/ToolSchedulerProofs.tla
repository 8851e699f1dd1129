-------------------------- MODULE ToolSchedulerProofs --------------------------
(***************************************************************************)
(* What the scheduler of a batch of tool calls (tool-calls.ts) keeps,      *)
(* whatever the length of the batch and the size of the pool: its bodies   *)
(* stay in the group and in the pool, its events are in model order, and   *)
(* it implements ToolBatch, the batch its step sees.                       *)
(***************************************************************************)
EXTENDS ToolScheduler, FiniteSetTheorems, SequenceTheorems, TLAPS

-------------------------------------------------------------------------------
(* The invariant, in parts. *)

(* The group's calls: those before it are done with, none past its end starts,
   and none starts before the batch is handed over. *)
Bounds ==
  /\ committed <= started /\ started <= asked
  /\ pc # "idle" => asked >= 1
  /\ pc = "idle" => asked = 0 /\ first = 1

Between == {"idle", "classify", "skipping", "done"}    \* no group is running

GroupShape ==
  /\ pc \in Between \ {"skipping"} => first = started + 1
  /\ pc = "skipping" => first <= started + 1
  /\ pc \notin Between => first <= started /\ started <= GroupEnd(first, mode)

(* Nothing of a group is left when it has ended. *)
NothingPending ==
  /\ pc \in Between => inFlight = {} /\ bodies = {} /\ ~failure /\ committed = started
  /\ pc = "skipping" => aborted
  /\ pc = "failed" => bodies = {}
  /\ pc \in {"draining", "failed"} => failure

(* The pool: a body's call is in flight, a call in flight is of the group, and
   a call being prepared has a place kept for it. *)
Pool ==
  /\ bodies \subseteq inFlight
  /\ inFlight \subseteq first .. started
  /\ Cardinality(inFlight) <= MaxParallel
  /\ pc = "preparing" => /\ started \notin inFlight /\ committed < started
                         /\ Cardinality(inFlight) < MaxParallel
  /\ pc = "finalizing" => committed < started

(* While nothing has failed, a started call is in preparation, in flight or has
   its outcome: none is ever lost between the two. *)
Tracked ==
  ~failure =>
    /\ \A c \in committed + 1 .. started :
         slots[c] # "none" \/ c \in inFlight \/ (pc = "preparing" /\ c = started)
    /\ \A c \in inFlight \ bodies : slots[c] # "none"

(* n recorded events, e[1] to e[n], are those of s started and c committed calls,
   one each, in model order, a result after its call. *)
Record(e, n, s, c) ==
  /\ \A i \in 1 .. n : e[i][2] \in 1 .. (IF e[i][1] = "call" THEN s ELSE c)
  /\ \A m \in 1 .. s : \E i \in 1 .. n : e[i] = <<"call", m>>
  /\ \A m \in 1 .. c : \E i \in 1 .. n : e[i][1] # "call" /\ e[i][2] = m
  /\ \A i, j \in 1 .. n :
       i < j /\ (e[i][1] = "call" <=> e[j][1] = "call") => e[i][2] < e[j][2]
  /\ \A i \in 1 .. n : e[i][1] # "call" =>
       \E j \in 1 .. n : j < i /\ e[j] = <<"call", e[i][2]>>

Recorded == Record(events, Len(events), started, committed)

Scheduling == Bounds /\ GroupShape /\ NothingPending /\ Pool /\ Tracked

IInv == TypeOK /\ Scheduling /\ Recorded

-------------------------------------------------------------------------------
(* Lemmas. *)

(* Adding to a pool that has room keeps it within its size, and taking a call
   out does not make it larger. *)
LEMMA PoolSize ==
  ASSUME NEW S, S \subseteq Call, NEW c
  PROVE  /\ IsFiniteSet(S) /\ Cardinality(S) \in Nat
         /\ Cardinality(S \cup {c}) <= Cardinality(S) + 1
         /\ Cardinality(S \ {c}) <= Cardinality(S)
<1>1. IsFiniteSet(Call)
  BY FS_Interval, MaxCallAssumption DEF Call
<1>2. IsFiniteSet(S)
  BY <1>1, FS_Subset
<1>3. Cardinality(S) \in Nat
  BY <1>2, FS_CardinalityType
<1>4. Cardinality(S \cup {c}) \in {Cardinality(S), Cardinality(S) + 1}
  BY <1>2, FS_AddElement
<1>5. Cardinality(S \ {c}) \in {Cardinality(S), Cardinality(S) - 1}
  BY <1>2, FS_RemoveElement
<1> QED
  BY <1>2, <1>3, <1>4, <1>5

(* The events of skipped calls: a call and a synthetic result for each. *)
LEMMA Skipped ==
  ASSUME TypeOK, started <= asked
  PROVE  LET n == asked - started
             s == [i \in 1 .. 2 * n |->
                     <<IF i % 2 = 1 THEN "call" ELSE "aborted", started + (i + 1) \div 2>>]
         IN /\ n \in Nat
            /\ \A i \in 1 .. 2 * n : started + (i + 1) \div 2 \in started + 1 .. asked
            /\ s \in Seq({"call", "ok", "aborted"} \X Call) /\ Len(s) = 2 * n
<1> DEFINE n == asked - started
           s == [i \in 1 .. 2 * n |->
                  <<IF i % 2 = 1 THEN "call" ELSE "aborted", started + (i + 1) \div 2>>]
<1>1. n \in Nat /\ started \in Nat /\ asked \in Nat /\ asked <= MaxCall
  BY MaxCallAssumption DEF TypeOK
<1>2. \A i \in 1 .. 2 * n : started + (i + 1) \div 2 \in started + 1 .. asked
  BY <1>1
<1>3. \A i \in 1 .. 2 * n : s[i] \in {"call", "ok", "aborted"} \X Call
  BY <1>1, <1>2, MaxCallAssumption DEF Call
<1> QED
  BY <1>1, <1>2, <1>3

-------------------------------------------------------------------------------
(* Types and scheduling. *)

(* The scheduler's variables keep their types (executeToolCalls, runGroup): the
   cursors stay in the batch. *)
LEMMA TypeStep == TypeOK /\ Scheduling /\ [Next]_vars => TypeOK'
<1> SUFFICES ASSUME TypeOK, Scheduling, [Next]_vars PROVE TypeOK'
  OBVIOUS
<1> USE MaxCallAssumption
<1> USE DEF TypeOK, Call
<1>1. started \in Nat /\ committed \in Nat /\ asked \in Nat /\ first \in Nat
  OBVIOUS
<1>2. CASE Begin
  BY <1>2 DEF Begin, batchVars, poolVars
<1>3. ASSUME StartCall, started < asked
      PROVE  events' \in Seq({"call", "ok", "aborted"} \X Call) /\ started' \in 0 .. MaxCall
  BY <1>1, <1>3 DEF StartCall
<1>4. ASSUME CommitCall, committed < started
      PROVE  events' \in Seq({"call", "ok", "aborted"} \X Call) /\ committed' \in 0 .. MaxCall
  BY <1>1, <1>4 DEF CommitCall
<1>5. CASE EnterGroup
  <2>1. CASE aborted
    BY <1>5, <2>1 DEF EnterGroup, LeaveGroup, poolVars, Mode
  <2>2. CASE ~aborted
    <3>1. started < asked
      BY <1>5, <1>1 DEF EnterGroup, Scheduling, GroupShape, Between
    <3> QED
      BY <1>3, <1>5, <2>2, <3>1 DEF EnterGroup, StartCall, poolVars, Mode
  <2> QED
    BY <2>1, <2>2
<1>6. CASE Return
  BY <1>6 DEF Return, batchVars, poolVars
<1>7. CASE Prepared
  <2>1. started \in Call
    BY <1>7, <1>1 DEF Prepared, Scheduling, Pool
  <2>2. slots' \in [Call -> {"none", "post", "final"}]
    BY <1>7 DEF Prepared
  <2>3. inFlight' \subseteq Call /\ bodies' \subseteq Call
    BY <1>7, <2>1 DEF Prepared, poolVars
  <2> QED
    BY <1>7, <2>2, <2>3 DEF Prepared, batchVars
<1>8. CASE FinishReady
  BY <1>8, <1>1, <1>4 DEF FinishReady, CommitCall, Ready, batchVars, poolVars
<1>9. CASE Finalized
  BY <1>9, <1>1, <1>4 DEF Finalized, CommitCall, batchVars, poolVars, Scheduling, Pool
<1>10. CASE Advance
  <2>1. CASE MayFill /\ StartCall /\ UNCHANGED first
    <3>1. started < asked
      BY <1>1, <1>10, <2>1 DEF Advance, MayFill, GroupEnd, Scheduling, GroupShape, Bounds, Between
    <3> QED
      BY <1>3, <1>10, <2>1, <3>1 DEF Advance, StartCall, WaitOrLeave, LeaveGroup, poolVars
  <2>2. CASE ~(MayFill /\ StartCall /\ UNCHANGED first)
    BY <1>1, <1>10, <2>2 DEF Advance, WaitOrLeave, LeaveGroup, poolVars
  <2> QED
    BY <2>1, <2>2
<1>11. CASE Race
  BY <1>11 DEF Race, batchVars, poolVars
<1>12. CASE SkipRest
  BY <1>1, <1>12, Skipped, ConcatProperties DEF SkipRest, poolVars, Scheduling, Bounds
<1>13. CASE Drained
  BY <1>13 DEF Drained, batchVars, poolVars
<1>14. ASSUME NEW c \in Call, Settle(c) PROVE TypeOK'
  BY <1>14 DEF Settle, batchVars, poolVars
<1>15. CASE Abort
  BY <1>15 DEF Abort, batchVars, poolVars
<1>16. CASE UNCHANGED vars
  BY <1>16 DEF vars
<1> QED
  BY <1>2, <1>5, <1>6, <1>7, <1>8, <1>9, <1>10, <1>11, <1>12, <1>13, <1>14, <1>15, <1>16
     DEF Next, Scheduler

(* The scheduler keeps its groups, its pool and the outcomes it owes in order
   (runGroup, executeToolCalls): the invariant behind what follows. *)
LEMMA SchedulingStep == TypeOK /\ Scheduling /\ [Next]_vars => Scheduling'
<1> SUFFICES ASSUME TypeOK, Scheduling, [Next]_vars PROVE Scheduling'
  OBVIOUS
<1>1. /\ started \in 0 .. MaxCall /\ committed \in 0 .. MaxCall
      /\ asked \in 0 .. MaxCall /\ first \in 1 .. MaxCall + 1
      /\ MaxCall \in Nat /\ MaxParallel \in Nat \ {0}
  BY MaxCallAssumption, MaxParallelAssumption DEF TypeOK
<1>2. inFlight \subseteq Call /\ bodies \subseteq Call /\ mode \in Mode
  BY DEF TypeOK
<1>3. Cardinality(inFlight) \in Nat
  BY <1>2, PoolSize
<1>4. Cardinality({}) = 0
  BY FS_EmptySet
<1>5. Bounds /\ GroupShape /\ NothingPending /\ Pool /\ Tracked
  BY DEF Scheduling
<1> USE DEF Between
<1>6. CASE Begin
  <2>1. Bounds' /\ GroupShape'
    BY <1>1, <1>5, <1>6 DEF Begin, Bounds, GroupShape, batchVars, poolVars, Call
  <2>2. NothingPending' /\ Pool' /\ Tracked'
    BY <1>1, <1>5, <1>6 DEF Begin, NothingPending, Pool, Tracked, batchVars, poolVars
  <2> QED
    BY <2>1, <2>2 DEF Scheduling
<1>7. CASE EnterGroup
  <2>1. /\ inFlight = {} /\ bodies = {} /\ ~failure /\ committed = started
        /\ first = started + 1 /\ first <= asked
    BY <1>5, <1>7 DEF EnterGroup, NothingPending, GroupShape
  <2>2. CASE aborted
    <3>1. Bounds' /\ GroupShape'
      BY <1>1, <1>5, <1>7, <2>1, <2>2 DEF EnterGroup, LeaveGroup, Bounds, GroupShape, poolVars
    <3>2. NothingPending' /\ Pool' /\ Tracked'
      BY <1>1, <1>4, <2>1, <1>7, <2>2
         DEF EnterGroup, LeaveGroup, NothingPending, Pool, Tracked, poolVars
    <3> QED
      BY <3>1, <3>2 DEF Scheduling
  <2>3. CASE ~aborted
    <3>1. Bounds' /\ GroupShape'
      BY <1>1, <1>5, <1>7, <2>1, <2>3
         DEF EnterGroup, StartCall, Bounds, GroupShape, GroupEnd, poolVars
    <3>2. NothingPending' /\ Pool' /\ Tracked'
      BY <1>1, <1>4, <2>1, <1>7, <2>3
         DEF EnterGroup, StartCall, NothingPending, Pool, Tracked, poolVars
    <3> QED
      BY <3>1, <3>2 DEF Scheduling
  <2> QED
    BY <2>2, <2>3
<1>8. CASE Return
  <2>1. Bounds' /\ GroupShape'
    BY <1>1, <1>5, <1>8 DEF Return, Bounds, GroupShape, batchVars, poolVars
  <2>2. NothingPending' /\ Pool' /\ Tracked'
    BY <1>1, <1>5, <1>8 DEF Return, NothingPending, Pool, Tracked, batchVars, poolVars
  <2> QED
    BY <2>1, <2>2 DEF Scheduling
<1>9. CASE Prepared
  <2>1. started \notin inFlight /\ committed < started /\ Cardinality(inFlight) < MaxParallel
        /\ started \in Call
    BY <1>1, <1>5, <1>9 DEF Prepared, Pool, Call
  <2>2. Bounds' /\ GroupShape'
    BY <1>1, <1>5, <1>9 DEF Prepared, Bounds, GroupShape, GroupEnd, batchVars
  <2>3. NothingPending'
    BY <1>5, <1>9 DEF Prepared, NothingPending, batchVars
  <2>4. Pool'
    <3>1. inFlight' = inFlight \/ inFlight' = inFlight \cup {started}
      BY <1>9 DEF Prepared, poolVars
    <3>2. Cardinality(inFlight') <= MaxParallel
      <4>1. CASE inFlight' = inFlight
        BY <4>1, <1>5 DEF Pool
      <4>2. CASE inFlight' = inFlight \cup {started}
        <5>1. Cardinality(inFlight \cup {started}) <= Cardinality(inFlight) + 1
              /\ Cardinality(inFlight \cup {started}) \in Nat
          BY <1>2, <2>1, PoolSize
        <5> QED
          BY <1>1, <1>3, <2>1, <4>2, <5>1
      <4> QED
        BY <3>1, <4>1, <4>2
    <3>3. started \in first .. started
      BY <1>1, <1>5, <1>9 DEF Prepared, GroupShape
    <3> QED
      BY <1>1, <1>5, <1>9, <3>2, <3>3 DEF Prepared, Pool, batchVars, poolVars
  <2>5. Tracked'
    <3> SUFFICES ASSUME ~failure' PROVE Tracked'
      BY DEF Tracked
    <3>1. ~failure /\ UNCHANGED <<started, committed>> /\ pc = "preparing"
      BY <1>9 DEF Prepared, batchVars
    <3>2. CASE /\ inFlight' = inFlight \cup {started} /\ bodies' = bodies \cup {started}
               /\ UNCHANGED slots
      BY <1>5, <3>1, <3>2 DEF Tracked
    <3>3. CASE /\ slots' \in {[slots EXCEPT ![started] = kind] : kind \in {"post", "final"}}
               /\ UNCHANGED poolVars
      <4>1. slots'[started] # "none" /\ \A c \in Call \ {started} : slots'[c] = slots[c]
        BY <2>1, <3>3 DEF TypeOK
      <4>2. committed + 1 .. started \subseteq Call
        BY <1>1 DEF Call
      <4> QED
        BY <1>2, <1>5, <2>1, <3>1, <3>3, <4>1, <4>2 DEF Tracked, poolVars
    <3> QED
      BY <1>9, <3>1, <3>2, <3>3 DEF Prepared
  <2> QED
    BY <2>2, <2>3, <2>4, <2>5 DEF Scheduling
<1>10. CASE FinishReady
  <2>1. committed < started
    BY <1>1, <1>10 DEF FinishReady, Ready
  <2>2. Bounds' /\ GroupShape'
    BY <1>1, <1>5, <1>10, <2>1
       DEF FinishReady, CommitCall, Bounds, GroupShape, GroupEnd, batchVars
  <2>3. NothingPending' /\ Pool'
    BY <1>1, <1>5, <1>10, <2>1
       DEF FinishReady, CommitCall, NothingPending, Pool, batchVars, poolVars
  <2>4. Tracked'
    BY <1>1, <1>5, <1>10, <2>1 DEF FinishReady, CommitCall, Tracked, batchVars, poolVars
  <2> QED
    BY <2>2, <2>3, <2>4 DEF Scheduling
<1>11. CASE Finalized
  <2>1. committed < started
    BY <1>1, <1>5, <1>11 DEF Finalized, Pool
  <2>2. Bounds' /\ GroupShape'
    BY <1>1, <1>5, <1>11, <2>1
       DEF Finalized, CommitCall, Bounds, GroupShape, GroupEnd, batchVars
  <2>3. NothingPending' /\ Pool'
    BY <1>1, <1>5, <1>11, <2>1
       DEF Finalized, CommitCall, NothingPending, Pool, batchVars, poolVars
  <2>4. Tracked'
    BY <1>1, <1>5, <1>11, <2>1 DEF Finalized, CommitCall, Tracked, batchVars, poolVars
  <2> QED
    BY <2>2, <2>3, <2>4 DEF Scheduling
<1>12. CASE Advance
  <2>1. /\ pc = "committing" /\ ~Ready(committed + 1)
        /\ UNCHANGED <<aborted, asked, mode, committed, slots, inFlight, bodies, failure>>
    BY <1>12 DEF Advance, poolVars
  <2>2. CASE failure /\ pc' = "draining" /\ UNCHANGED <<first, started>>
    BY <1>1, <1>5, <2>1, <2>2
       DEF Scheduling, Bounds, GroupShape, GroupEnd, NothingPending, Pool, Tracked
  <2>3. CASE ~failure /\ MayFill /\ StartCall /\ UNCHANGED first
    <3>1. started' = started + 1 /\ started < asked /\ started < GroupEnd(first, mode)
          /\ pc' = "preparing" /\ Cardinality(inFlight) < MaxParallel
      BY <1>1, <1>5, <2>1, <2>3 DEF StartCall, MayFill, GroupShape, Bounds, GroupEnd
    <3>2. Bounds' /\ GroupShape'
      BY <1>1, <1>5, <2>1, <2>3, <3>1 DEF Bounds, GroupShape, GroupEnd
    <3>3. NothingPending' /\ Pool'
      BY <1>1, <1>5, <2>1, <2>3, <3>1 DEF NothingPending, Pool, Bounds
    <3>4. Tracked'
      BY <1>1, <1>5, <2>1, <2>3, <3>1 DEF Tracked
    <3> QED
      BY <3>2, <3>3, <3>4 DEF Scheduling
  <2>4. CASE ~failure /\ WaitOrLeave
    <3>1. CASE inFlight # {}
      <4>1. pc' = "waiting" /\ UNCHANGED <<first, started>>
        BY <2>4, <3>1 DEF WaitOrLeave
      <4> QED
        BY <1>1, <1>5, <2>1, <2>4, <4>1
           DEF Scheduling, Bounds, GroupShape, GroupEnd, NothingPending, Pool, Tracked
    <3>2. CASE inFlight = {}
      <4>1. committed = started /\ bodies = {}
        BY <1>1, <1>5, <2>1, <2>4, <3>2 DEF Tracked, Ready, Bounds, Pool
      <4>2. /\ UNCHANGED started
            /\ \/ aborted /\ pc' = "skipping" /\ UNCHANGED first
               \/ pc' = "classify" /\ first' = started + 1
        BY <2>4, <3>2 DEF WaitOrLeave, LeaveGroup
      <4>3. Bounds' /\ GroupShape'
        BY <1>1, <1>5, <2>1, <4>1, <4>2 DEF Bounds, GroupShape
      <4>4. NothingPending' /\ Pool' /\ Tracked'
        BY <1>1, <1>4, <1>5, <2>1, <2>4, <3>2, <4>1, <4>2
           DEF NothingPending, Pool, Tracked
      <4> QED
        BY <4>3, <4>4 DEF Scheduling
    <3> QED
      BY <3>1, <3>2
  <2> QED
    BY <1>12, <2>2, <2>3, <2>4 DEF Advance
<1>13. CASE Race
  <2>1. PICK c \in inFlight \ bodies : inFlight' = inFlight \ {c}
    BY <1>13 DEF Race
  <2>2. Cardinality(inFlight') \in Nat /\ Cardinality(inFlight') <= Cardinality(inFlight)
    <3>1. inFlight' \subseteq Call
      BY <1>2, <2>1
    <3> QED
      BY <1>2, <2>1, <3>1, PoolSize
  <2>3. Bounds' /\ GroupShape' /\ NothingPending'
    BY <1>1, <1>5, <1>13 DEF Race, Bounds, GroupShape, GroupEnd, NothingPending, batchVars
  <2>4. Pool'
    BY <1>1, <1>3, <1>5, <1>13, <2>1, <2>2 DEF Race, Pool, batchVars
  <2>5. Tracked'
    BY <1>1, <1>5, <1>13, <2>1 DEF Race, Tracked, batchVars
  <2> QED
    BY <2>3, <2>4, <2>5 DEF Scheduling
<1>14. CASE SkipRest
  <2>1. Bounds' /\ GroupShape'
    BY <1>1, <1>5, <1>14 DEF SkipRest, Bounds, GroupShape, poolVars
  <2>2. NothingPending' /\ Pool' /\ Tracked'
    BY <1>1, <1>4, <1>5, <1>14 DEF SkipRest, NothingPending, Pool, Tracked, poolVars
  <2> QED
    BY <2>1, <2>2 DEF Scheduling
<1>15. CASE Drained
  <2>1. Bounds' /\ GroupShape'
    BY <1>1, <1>5, <1>15 DEF Drained, Bounds, GroupShape, GroupEnd, batchVars
  <2>2. NothingPending' /\ Pool' /\ Tracked'
    BY <1>1, <1>5, <1>15 DEF Drained, NothingPending, Pool, Tracked, batchVars, poolVars
  <2> QED
    BY <2>1, <2>2 DEF Scheduling
<1>16. ASSUME NEW c \in Call, Settle(c) PROVE Scheduling'
  <2>1. /\ c \in bodies /\ bodies' = bodies \ {c}
        /\ UNCHANGED <<pc, asked, first, mode, started, committed, inFlight, aborted>>
    BY <1>16 DEF Settle, batchVars
  <2>2. pc \notin Between /\ pc # "failed"
    BY <1>5, <2>1 DEF NothingPending
  <2>3. Bounds' /\ GroupShape'
    BY <1>1, <1>5, <2>1 DEF Bounds, GroupShape, GroupEnd
  <2>4. NothingPending'
    BY <1>5, <1>16, <2>1, <2>2 DEF Settle, NothingPending
  <2>5. Pool'
    BY <1>1, <1>5, <2>1 DEF Pool
  <2>6. Tracked'
    <3> SUFFICES ASSUME ~failure' PROVE Tracked'
      BY DEF Tracked
    <3>1. slots'[c] # "none" /\ ~failure
          /\ \A d \in Call \ {c} : slots'[d] = slots[d]
      BY <1>16 DEF Settle, TypeOK
    <3>2. committed + 1 .. started \subseteq Call
      BY <1>1 DEF Call
    <3> QED
      BY <1>2, <1>5, <2>1, <3>1, <3>2 DEF Tracked
  <2> QED
    BY <2>3, <2>4, <2>5, <2>6 DEF Scheduling
<1>17. CASE Abort
  BY <1>5, <1>17 DEF Abort, Scheduling, Bounds, GroupShape, GroupEnd, NothingPending, Pool,
     Tracked, batchVars, poolVars
<1>18. CASE UNCHANGED vars
  BY <1>5, <1>18 DEF vars, Scheduling, Bounds, GroupShape, GroupEnd, NothingPending, Pool, Tracked
<1> QED
  BY <1>6, <1>7, <1>8, <1>9, <1>10, <1>11, <1>12, <1>13, <1>14, <1>15, <1>16, <1>17, <1>18
     DEF Next, Scheduler

(* The initial state satisfies both. *)
LEMMA SchedulingInit == Init => TypeOK /\ Scheduling
<1> SUFFICES ASSUME Init PROVE TypeOK /\ Scheduling
  OBVIOUS
<1>1. Cardinality({}) = 0
  BY FS_EmptySet
<1>2. TypeOK
  <2>1. events \in Seq({"call", "ok", "aborted"} \X Call)
    BY DEF Init
  <2>2. slots \in [Call -> {"none", "post", "final"}]
    BY DEF Init
  <2>3. aborted \in BOOLEAN /\ sawAbort \in BOOLEAN /\ failure \in BOOLEAN
    BY DEF Init
  <2> QED
    BY <2>1, <2>2, <2>3, MaxCallAssumption DEF Init, TypeOK, Mode
<1>3. Pool /\ Tracked
  BY <1>1, MaxParallelAssumption DEF Init, Pool, Tracked
<1>4. Bounds /\ GroupShape /\ NothingPending
  BY DEF Init, Bounds, GroupShape, NothingPending, Between
<1> QED
  BY <1>2, <1>3, <1>4 DEF Scheduling

(* Types and the scheduling invariant hold throughout a batch. *)
THEOREM SchedulingHolds == Spec => [](TypeOK /\ Scheduling)
<1>1. TypeOK /\ Scheduling /\ [Next]_vars => (TypeOK /\ Scheduling)'
  BY TypeStep, SchedulingStep
<1> QED
  BY <1>1, SchedulingInit, PTL DEF Spec

(* The scheduler's state stays well typed (executeToolCalls). *)
THEOREM SchedulerTypes == Spec => []TypeOK
  BY SchedulingHolds, PTL

(* Bodies stay in their group and their pool, an exclusive call runs alone,
   and none is left running when the batch ends (runGroup's pool and its
   drain). *)
THEOREM BodiesStayInGroup == Spec => []ExclusiveRunsAlone
<1>1. TypeOK /\ Scheduling => ExclusiveRunsAlone
  <2> SUFFICES ASSUME TypeOK, Scheduling PROVE ExclusiveRunsAlone
    OBVIOUS
  <2>1. inFlight \subseteq Call /\ bodies \subseteq inFlight
    BY DEF TypeOK, Scheduling, Pool
  <2>2. IsFiniteSet(inFlight) /\ Cardinality(inFlight) \in Nat
    BY <2>1, PoolSize
  <2>3. Cardinality(bodies) <= Cardinality(inFlight) /\ Cardinality(bodies) \in Nat
    BY <2>1, <2>2, FS_Subset, FS_CardinalityType
  <2>4. Cardinality(bodies) <= MaxParallel
    BY <2>2, <2>3, MaxParallelAssumption DEF Scheduling, Pool
  <2>5. mode = "exclusive" /\ pc # "idle" => bodies \subseteq {first}
    <3>1. CASE pc \in Between \cup {"failed"}
      BY <3>1 DEF Scheduling, NothingPending
    <3>2. CASE pc \notin Between \cup {"failed"}
      BY <2>1, <3>2, MaxCallAssumption
         DEF TypeOK, Scheduling, GroupShape, GroupEnd, Pool
    <3> QED
      BY <3>1, <3>2
  <2>6. pc \in {"classify", "skipping", "done", "failed"} => bodies = {}
    BY DEF Scheduling, NothingPending, Between
  <2> QED
    BY <2>4, <2>5, <2>6 DEF ExclusiveRunsAlone
<1> QED
  BY <1>1, SchedulingHolds, PTL

-------------------------------------------------------------------------------
(* The events of a batch. *)

(* Where the elements of a concatenation come from. *)
LEMMA Joined ==
  ASSUME NEW S, NEW a \in Seq(S), NEW b \in Seq(S)
  PROVE  /\ Len(a \o b) = Len(a) + Len(b)
         /\ \A i \in 1 .. Len(a) : (a \o b)[i] = a[i]
         /\ \A i \in 1 .. Len(b) : (a \o b)[Len(a) + i] = b[i]
<1>1. Len(a) \in Nat /\ Len(b) \in Nat
  OBVIOUS
<1>2. ASSUME NEW i \in 1 .. Len(b) PROVE (a \o b)[Len(a) + i] = b[i]
  OBVIOUS
<1> QED
  BY <1>1, <1>2

(* One more call event, or one more result of a started call, keeps the record. *)
LEMMA OneMore ==
  ASSUME NEW e, NEW d, NEW n \in Nat, NEW s \in Nat, NEW c \in Nat, Record(e, n, s, c),
         NEW kind \in {"call", "ok"}, kind = "ok" => c < s,
         \A i \in 1 .. n : d[i] = e[i],
         d[n + 1] = <<kind, IF kind = "call" THEN s + 1 ELSE c + 1>>
  PROVE  IF kind = "call" THEN Record(d, n + 1, s + 1, c) ELSE Record(d, n + 1, s, c + 1)
<1> DEFINE S == IF kind = "call" THEN s + 1 ELSE s
           C == IF kind = "call" THEN c ELSE c + 1
           new == IF kind = "call" THEN s + 1 ELSE c + 1
<1>1. S \in Nat /\ C \in Nat /\ new \in Nat /\ s <= S /\ c <= C
  OBVIOUS
<1>2. d[n + 1][1] = kind /\ d[n + 1][2] = new
  OBVIOUS
<1>3. \A i \in 1 .. n + 1 : i \in 1 .. n \/ i = n + 1
  OBVIOUS
<1>4. \A i \in 1 .. n + 1 : d[i][2] \in 1 .. (IF d[i][1] = "call" THEN S ELSE C)
  <2> SUFFICES ASSUME NEW i \in 1 .. n + 1
               PROVE  d[i][2] \in 1 .. (IF d[i][1] = "call" THEN S ELSE C)
    OBVIOUS
  <2>1. CASE i \in 1 .. n
    <3>1. d[i] = e[i] /\ e[i][2] \in 1 .. (IF e[i][1] = "call" THEN s ELSE c)
      BY <2>1 DEF Record
    <3> QED
      BY <1>1, <3>1
  <2>2. CASE i = n + 1
    BY <1>2, <2>2
  <2> QED
    BY <1>3, <2>1, <2>2
<1>5. \A m \in 1 .. S : \E i \in 1 .. n + 1 : d[i] = <<"call", m>>
  <2> SUFFICES ASSUME NEW m \in 1 .. S PROVE \E i \in 1 .. n + 1 : d[i] = <<"call", m>>
    OBVIOUS
  <2>1. CASE m \in 1 .. s
    <3>1. PICK i \in 1 .. n : e[i] = <<"call", m>>
      BY <2>1 DEF Record
    <3>2. i \in 1 .. n + 1 /\ d[i] = <<"call", m>>
      BY <3>1
    <3> QED
      BY <3>2
  <2>2. CASE m \notin 1 .. s
    <3>1. kind = "call" /\ m = s + 1
      BY <2>2
    <3>2. n + 1 \in 1 .. n + 1 /\ d[n + 1] = <<"call", m>>
      BY <3>1
    <3> QED
      BY <3>2
  <2> QED
    BY <2>1, <2>2
<1>6. \A m \in 1 .. C : \E i \in 1 .. n + 1 : d[i][1] # "call" /\ d[i][2] = m
  <2> SUFFICES ASSUME NEW m \in 1 .. C
               PROVE  \E i \in 1 .. n + 1 : d[i][1] # "call" /\ d[i][2] = m
    OBVIOUS
  <2>1. CASE m \in 1 .. c
    <3>1. PICK i \in 1 .. n : e[i][1] # "call" /\ e[i][2] = m
      BY <2>1 DEF Record
    <3>2. i \in 1 .. n + 1 /\ d[i][1] # "call" /\ d[i][2] = m
      BY <3>1
    <3> QED
      BY <3>2
  <2>2. CASE m \notin 1 .. c
    <3>1. kind = "ok" /\ m = c + 1
      BY <2>2
    <3>2. n + 1 \in 1 .. n + 1 /\ d[n + 1][1] # "call" /\ d[n + 1][2] = m
      BY <1>2, <3>1
    <3> QED
      BY <3>2
  <2> QED
    BY <2>1, <2>2
<1>7. ASSUME NEW i \in 1 .. n + 1, NEW j \in 1 .. n + 1, i < j,
             d[i][1] = "call" <=> d[j][1] = "call"
      PROVE  d[i][2] < d[j][2]
  <2>1. i \in 1 .. n /\ d[i] = e[i]
    BY <1>7
  <2>2. CASE j \in 1 .. n
    <3>1. d[j] = e[j]
      BY <2>2
    <3> QED
      BY <1>7, <2>1, <2>2, <3>1 DEF Record
  <2>3. CASE j = n + 1
    <3>1. d[i][2] \in 1 .. (IF d[i][1] = "call" THEN s ELSE c)
      BY <2>1 DEF Record
    <3> QED
      BY <1>2, <1>7, <2>3, <3>1
  <2> QED
    BY <1>3, <2>2, <2>3
<1>8. ASSUME NEW i \in 1 .. n + 1, d[i][1] # "call"
      PROVE  \E j \in 1 .. n + 1 : j < i /\ d[j] = <<"call", d[i][2]>>
  <2>1. CASE i \in 1 .. n
    <3>1. d[i] = e[i]
      BY <2>1
    <3>2. PICK j \in 1 .. n : j < i /\ e[j] = <<"call", e[i][2]>>
      BY <1>8, <2>1, <3>1 DEF Record
    <3>3. j \in 1 .. n + 1 /\ j < i /\ d[j] = <<"call", d[i][2]>>
      BY <3>1, <3>2
    <3> QED
      BY <3>3
  <2>2. CASE i = n + 1
    <3>1. kind = "ok" /\ c + 1 \in 1 .. s /\ d[i][2] = c + 1
      BY <1>2, <1>8, <2>2
    <3>2. PICK j \in 1 .. n : e[j] = <<"call", c + 1>>
      BY <3>1 DEF Record
    <3>3. j \in 1 .. n + 1 /\ j < i /\ d[j] = <<"call", d[i][2]>>
      BY <2>2, <3>1, <3>2
    <3> QED
      BY <3>3
  <2> QED
    BY <1>3, <2>1, <2>2
<1>9. Record(d, n + 1, S, C)
  <2> HIDE DEF S, C
  <2> QED
    BY <1>4, <1>5, <1>6, <1>7, <1>8 DEF Record
<1> QED
  BY <1>9

(* A call event and a synthetic result for each of the next k calls keep the
   record, when every started call is committed. *)
LEMMA ManySkipped ==
  ASSUME NEW e, NEW d, NEW n \in Nat, NEW s \in Nat, NEW k \in Nat, Record(e, n, s, s),
         \A i \in 1 .. n : d[i] = e[i],
         \A i \in 1 .. 2 * k :
           d[n + i] = <<IF i % 2 = 1 THEN "call" ELSE "aborted", s + (i + 1) \div 2>>
  PROVE  Record(d, n + 2 * k, s + k, s + k)
<1> DEFINE call(i) == i % 2 = 1
           of(i) == s + (i + 1) \div 2
           N == n + 2 * k
           R == s + k
<1>1. N \in Nat /\ R \in Nat /\ s <= R /\ n <= N
  OBVIOUS
<1>2. \A i \in 1 .. 2 * k : (d[n + i][1] = "call" <=> call(i)) /\ d[n + i][2] = of(i)
  OBVIOUS
<1>3. \A i \in 1 .. 2 * k : call(i) => d[n + i] = <<"call", of(i)>>
  OBVIOUS
<1>4. \A i \in 1 .. 2 * k : of(i) \in s + 1 .. R
  OBVIOUS
<1>5. \A m \in s + 1 .. R :
        /\ 2 * (m - s) - 1 \in 1 .. 2 * k /\ call(2 * (m - s) - 1) /\ of(2 * (m - s) - 1) = m
        /\ 2 * (m - s) \in 1 .. 2 * k /\ ~call(2 * (m - s)) /\ of(2 * (m - s)) = m
  OBVIOUS
<1>6. \A i, j \in 1 .. 2 * k : i < j /\ (call(i) <=> call(j)) => of(i) < of(j)
  OBVIOUS
<1>7. \A i \in 1 .. 2 * k : ~call(i) => i - 1 \in 1 .. 2 * k /\ call(i - 1) /\ of(i - 1) = of(i)
  OBVIOUS
<1>8. ASSUME NEW i \in 1 .. N, i \notin 1 .. n
      PROVE  i - n \in 1 .. 2 * k /\ i = n + (i - n)
  BY <1>8
<1>9. \A m \in 1 .. 2 * k : n + m \in 1 .. N
  OBVIOUS
<1>10. \A i \in 1 .. n : e[i][2] \in 1 .. s
  BY DEF Record
<1> HIDE DEF call, of, N, R
<1>11. ASSUME NEW i \in 1 .. N PROVE d[i][2] \in 1 .. (IF d[i][1] = "call" THEN R ELSE R)
  <2>1. CASE i \in 1 .. n
    BY <1>1, <1>10, <2>1
  <2>2. CASE i \notin 1 .. n
    <3>1. d[i][2] \in s + 1 .. R
      BY <1>2, <1>4, <1>8, <2>2
    <3> QED
      BY <1>1, <3>1
  <2> QED
    BY <2>1, <2>2
<1>12. ASSUME NEW m \in 1 .. R PROVE \E i \in 1 .. N : d[i] = <<"call", m>>
  <2>1. CASE m \in 1 .. s
    <3>1. PICK i \in 1 .. n : e[i] = <<"call", m>>
      BY <2>1 DEF Record
    <3>2. i \in 1 .. N /\ d[i] = <<"call", m>>
      BY <1>1, <3>1
    <3> QED
      BY <3>2
  <2>2. CASE m \notin 1 .. s
    <3>1. m \in s + 1 .. R
      BY <1>1, <2>2
    <3>2. PICK p \in 1 .. 2 * k : call(p) /\ of(p) = m
      BY <1>5, <3>1
    <3>3. n + p \in 1 .. N /\ d[n + p] = <<"call", m>>
      BY <1>3, <1>9, <3>2
    <3> QED
      BY <3>3
  <2> QED
    BY <2>1, <2>2
<1>13. ASSUME NEW m \in 1 .. R PROVE \E i \in 1 .. N : d[i][1] # "call" /\ d[i][2] = m
  <2>1. CASE m \in 1 .. s
    <3>1. PICK i \in 1 .. n : e[i][1] # "call" /\ e[i][2] = m
      BY <2>1 DEF Record
    <3>2. i \in 1 .. N /\ d[i][1] # "call" /\ d[i][2] = m
      BY <1>1, <3>1
    <3> QED
      BY <3>2
  <2>2. CASE m \notin 1 .. s
    <3>1. m \in s + 1 .. R
      BY <1>1, <2>2
    <3>2. PICK p \in 1 .. 2 * k : ~call(p) /\ of(p) = m
      BY <1>5, <3>1
    <3>3. n + p \in 1 .. N /\ d[n + p][1] # "call" /\ d[n + p][2] = m
      BY <1>2, <1>9, <3>2
    <3> QED
      BY <3>3
  <2> QED
    BY <2>1, <2>2
<1>14. ASSUME NEW i \in 1 .. N, NEW j \in 1 .. N, i < j,
              d[i][1] = "call" <=> d[j][1] = "call"
       PROVE  d[i][2] < d[j][2]
  <2>1. CASE i \in 1 .. n /\ j \in 1 .. n
    BY <1>14, <2>1 DEF Record
  <2>2. CASE i \in 1 .. n /\ j \notin 1 .. n
    <3>1. d[j][2] \in s + 1 .. R /\ d[i][2] \in 1 .. s
      BY <1>2, <1>4, <1>8, <1>10, <2>2
    <3> QED
      BY <1>1, <3>1
  <2>3. CASE i \notin 1 .. n /\ j \notin 1 .. n
    <3>1. /\ i - n \in 1 .. 2 * k /\ j - n \in 1 .. 2 * k /\ i - n < j - n
          /\ i = n + (i - n) /\ j = n + (j - n)
      BY <1>1, <1>8, <1>14, <2>3
    <3>2. call(i - n) <=> call(j - n)
      BY <1>2, <1>14, <3>1
    <3>3. of(i - n) < of(j - n)
      BY <1>6, <3>1, <3>2
    <3> QED
      BY <1>2, <3>1, <3>3
  <2>4. i \in 1 .. n \/ j \notin 1 .. n
    BY <1>1, <1>14
  <2> QED
    BY <2>1, <2>2, <2>3, <2>4
<1>15. ASSUME NEW i \in 1 .. N, d[i][1] # "call"
       PROVE  \E j \in 1 .. N : j < i /\ d[j] = <<"call", d[i][2]>>
  <2>1. CASE i \in 1 .. n
    <3>1. d[i] = e[i]
      BY <2>1
    <3>2. PICK j \in 1 .. n : j < i /\ e[j] = <<"call", e[i][2]>>
      BY <1>15, <2>1, <3>1 DEF Record
    <3>3. j \in 1 .. N /\ j < i /\ d[j] = <<"call", d[i][2]>>
      BY <1>1, <3>1, <3>2
    <3> QED
      BY <3>3
  <2>2. CASE i \notin 1 .. n
    <3>1. i - n \in 1 .. 2 * k /\ i = n + (i - n) /\ ~call(i - n) /\ d[i][2] = of(i - n)
      BY <1>2, <1>8, <1>15, <2>2
    <3>2. (i - n) - 1 \in 1 .. 2 * k /\ call((i - n) - 1) /\ of((i - n) - 1) = of(i - n)
      BY <1>7, <3>1
    <3>3. n + ((i - n) - 1) \in 1 .. N /\ d[n + ((i - n) - 1)] = <<"call", d[i][2]>>
      BY <1>3, <1>9, <3>1, <3>2
    <3>4. n + ((i - n) - 1) < i
      BY <1>1
    <3> QED
      BY <3>3, <3>4
  <2> QED
    BY <2>1, <2>2
<1>16. Record(d, N, R, R)
  BY <1>11, <1>12, <1>13, <1>14, <1>15 DEF Record
<1> QED
  BY <1>16 DEF N, R

(* The events recorded stay those of the calls started and committed. *)
LEMMA RecordedStep == TypeOK /\ Scheduling /\ Recorded /\ [Next]_vars => Recorded'
<1> SUFFICES ASSUME TypeOK, Scheduling, Recorded, [Next]_vars PROVE Recorded'
  OBVIOUS
<1>1. ASSUME UNCHANGED <<events, started, committed>> PROVE Recorded'
  BY <1>1 DEF Recorded, Record
<1> DEFINE n == Len(events)
<1>0. n \in Nat /\ started \in Nat /\ committed \in Nat /\ asked \in Nat
  BY MaxCallAssumption DEF TypeOK
<1>2. ASSUME StartCall, UNCHANGED committed PROVE Recorded'
  <2>1. Len(events') = n + 1 /\ events'[n + 1] = <<"call", started + 1>>
        /\ \A i \in 1 .. n : events'[i] = events[i]
    BY <1>2 DEF StartCall, TypeOK
  <2>2. Record(events', n + 1, started + 1, committed)
    BY ZenonT(60), <1>0, <2>1, OneMore DEF Recorded
  <2> QED
    BY <1>2, <2>1, <2>2 DEF StartCall, Recorded
<1>3. ASSUME CommitCall, UNCHANGED started, committed < started PROVE Recorded'
  <2>1. Len(events') = n + 1 /\ events'[n + 1] = <<"ok", committed + 1>>
        /\ \A i \in 1 .. n : events'[i] = events[i]
    BY <1>3 DEF CommitCall, TypeOK
  <2>2. Record(events', n + 1, started, committed + 1)
    BY <1>0, <1>3, <2>1, OneMore DEF Recorded
  <2> QED
    BY <1>3, <2>1, <2>2 DEF CommitCall, Recorded
<1>4. CASE Begin
  BY <1>1, <1>4 DEF Begin
<1>5. CASE EnterGroup
  BY <1>1, <1>2, <1>5 DEF EnterGroup, LeaveGroup
<1>6. CASE Return
  BY <1>1, <1>6 DEF Return
<1>7. CASE Prepared
  BY <1>1, <1>7 DEF Prepared
<1>8. CASE FinishReady
  <2>1. committed < started
    BY <1>8, MaxCallAssumption DEF FinishReady, Ready, TypeOK
  <2> QED
    BY <1>1, <1>3, <1>8, <2>1 DEF FinishReady
<1>9. CASE Finalized
  <2>1. committed < started
    BY <1>9 DEF Finalized, Scheduling, Pool
  <2> QED
    BY <1>1, <1>3, <1>9, <2>1 DEF Finalized
<1>10. CASE Advance
  BY <1>1, <1>2, <1>10 DEF Advance, WaitOrLeave, LeaveGroup
<1>11. CASE Race
  BY <1>1, <1>11 DEF Race
<1>12. CASE SkipRest
  <2>1. committed = started /\ started <= asked
    BY <1>12 DEF SkipRest, Scheduling, NothingPending, Bounds, Between
  <2> DEFINE k == asked - started
             s == [i \in 1 .. 2 * k |->
                    <<IF i % 2 = 1 THEN "call" ELSE "aborted", started + (i + 1) \div 2>>]
  <2>2. k \in Nat /\ s \in Seq({"call", "ok", "aborted"} \X Call) /\ Len(s) = 2 * k
    BY <2>1, Skipped
  <2>3. events' = events \o s /\ started' = asked /\ committed' = asked
    BY <1>12 DEF SkipRest
  <2>4. /\ Len(events') = n + 2 * k
        /\ \A i \in 1 .. n : events'[i] = events[i]
        /\ \A i \in 1 .. 2 * k : events'[n + i] = s[i]
    <3> DEFINE T == {"call", "ok", "aborted"} \X Call
    <3> HIDE DEF k, s, n, T
    <3>1. events \in Seq(T) /\ s \in Seq(T)
      BY <2>2 DEF TypeOK, T
    <3>2. /\ Len(events \o s) = Len(events) + Len(s)
          /\ \A i \in 1 .. Len(events) : (events \o s)[i] = events[i]
          /\ \A i \in 1 .. Len(s) : (events \o s)[Len(events) + i] = s[i]
      BY <3>1, Joined
    <3> QED
      BY <2>2, <2>3, <3>2 DEF n
  <2>5. Record(events', n + 2 * k, started + k, started + k)
    BY <1>0, <2>1, <2>2, <2>4, ManySkipped DEF Recorded
  <2>6. started + k = asked
    BY <1>0
  <2> QED
    BY <2>3, <2>4, <2>5, <2>6 DEF Recorded
<1>13. CASE Drained
  BY <1>1, <1>13 DEF Drained
<1>14. ASSUME NEW c \in Call, Settle(c) PROVE Recorded'
  BY <1>1, <1>14 DEF Settle
<1>15. CASE Abort
  BY <1>1, <1>15 DEF Abort
<1>16. CASE UNCHANGED vars
  BY <1>1, <1>16 DEF vars
<1> QED
  BY <1>4, <1>5, <1>6, <1>7, <1>8, <1>9, <1>10, <1>11, <1>12, <1>13, <1>14, <1>15, <1>16
     DEF Next, Scheduler

(* The tool events of a batch are in model order, without a gap, each result
   after its call (tool-calls.ts: ordered commits over a concurrent pool). *)
THEOREM EventsInModelOrder == Spec => []ResultsInModelOrder
<1>1. Init => Recorded
  <2> SUFFICES ASSUME Init PROVE Recorded
    OBVIOUS
  <2>1. Len(events) = 0 /\ started = 0 /\ committed = 0
    BY DEF Init
  <2> QED
    BY <2>1 DEF Recorded, Record
<1>2. IInv /\ [Next]_vars => IInv'
  BY TypeStep, SchedulingStep, RecordedStep DEF IInv
<1>3. IInv => ResultsInModelOrder
  <2> SUFFICES ASSUME IInv PROVE ResultsInModelOrder
    OBVIOUS
  <2> DEFINE n == Len(events)
  <2>1. Record(events, n, started, committed) /\ n \in Nat /\ started \in Nat /\ committed \in Nat
    BY MaxCallAssumption DEF IInv, TypeOK, Recorded
  <2> HIDE DEF n
  <2>2. ASSUME NEW i \in 1 .. n PROVE NoGapBefore(i)
    <3> SUFFICES ASSUME NEW c \in 1 .. events[i][2] - 1
                 PROVE \E j \in 1 .. i - 1 : (IsCall(j) <=> IsCall(i)) /\ events[j][2] = c
      BY DEF NoGapBefore
    <3>1. events[i][2] \in 1 .. (IF IsCall(i) THEN started ELSE committed)
      BY <2>1 DEF Record, IsCall
    <3>2. c \in 1 .. (IF IsCall(i) THEN started ELSE committed) /\ c < events[i][2]
      BY <2>1, <3>1
    <3>3. PICK j \in 1 .. n : (IsCall(j) <=> IsCall(i)) /\ events[j][2] = c
      <4>1. CASE IsCall(i)
        <5>1. PICK j \in 1 .. n : events[j] = <<"call", c>>
          BY <2>1, <3>2, <4>1 DEF Record
        <5> QED
          BY <4>1, <5>1 DEF IsCall
      <4>2. CASE ~IsCall(i)
        <5>1. PICK j \in 1 .. n : events[j][1] # "call" /\ events[j][2] = c
          BY <2>1, <3>2, <4>2 DEF Record
        <5> QED
          BY <4>2, <5>1 DEF IsCall
      <4> QED
        BY <4>1, <4>2
    <3>4. ~(i < j) /\ i # j
      BY <2>1, <3>1, <3>2, <3>3 DEF Record, IsCall
    <3>5. j \in 1 .. i - 1
      BY <2>1, <3>4
    <3> QED
      BY <3>3, <3>5
  <2>3. ASSUME NEW i \in 1 .. n PROVE AfterItsCall(i)
    <3> SUFFICES ASSUME events[i][1] # "call"
                 PROVE  \E j \in 1 .. i - 1 : events[j] = <<"call", events[i][2]>>
      BY DEF AfterItsCall, IsCall
    <3>1. PICK j \in 1 .. n : j < i /\ events[j] = <<"call", events[i][2]>>
      BY <2>1 DEF Record
    <3>2. j \in 1 .. i - 1
      BY <2>1, <3>1
    <3> QED
      BY <3>1, <3>2
  <2>4. \A i, j \in 1 .. n : SuccessiveEvents(i, j)
    BY <2>1 DEF Record, SuccessiveEvents, IsCall
  <2> QED
    BY <2>2, <2>3, <2>4 DEF ResultsInModelOrder, n
<1> QED
  BY <1>1, <1>2, <1>3, SchedulingInit, PTL DEF Spec, IInv

-------------------------------------------------------------------------------
(* Refinement. *)

(* Every step of the scheduler is a step of ToolBatch or changes nothing the
   step sees (executeToolCalls against what its caller relies on). *)
LEMMA BatchStep ==
  TypeOK /\ Scheduling /\ [Next]_vars
    => [Batch!Next]_<<aborted, IF BatchState.state = "idle"
                               THEN [state |-> "idle", asked |-> 0, started |-> 0, done |-> 0]
                               ELSE BatchState>>
<1> DEFINE b == IF BatchState.state = "idle"
                THEN [state |-> "idle", asked |-> 0, started |-> 0, done |-> 0] ELSE BatchState
           none == [state |-> "idle", asked |-> 0, started |-> 0, done |-> 0]
           Running == {"classify", "preparing", "committing", "finalizing", "waiting", "skipping"}
           run(n, s, c) == [state |-> "running", asked |-> n, started |-> s, done |-> c]
           fail(n, s, c) == [state |-> "failed", asked |-> n, started |-> s, done |-> c]
<1> SUFFICES ASSUME TypeOK, Scheduling, [Next]_vars
             PROVE  Batch!Next \/ UNCHANGED <<aborted, b>>
  OBVIOUS
<1>1. /\ pc \in {"idle", "done", "failed"} => b = none
      /\ pc \in Running => b = run(asked, started, committed)
      /\ pc = "draining" => b = fail(asked, started, committed)
  BY DEF BatchState
<1>2. /\ pc' \in {"idle", "done", "failed"} => b' = none
      /\ pc' \in Running => b' = run(asked', started', committed')
      /\ pc' = "draining" => b' = fail(asked', started', committed')
  BY DEF BatchState
<1>3. /\ started \in Nat /\ committed \in Nat /\ asked \in Nat /\ asked <= MaxCall
      /\ first \in Nat /\ committed <= started /\ started <= asked
  BY MaxCallAssumption DEF TypeOK, Scheduling, Bounds
<1> HIDE DEF b
<1>4. ASSUME UNCHANGED aborted, b = none, NEW n \in 1 .. MaxCall, b' = run(n, 0, 0)
      PROVE  Batch!Next
  BY <1>4 DEF Batch!Next, Batch!Begin, b
<1>5. ASSUME UNCHANGED aborted, ~aborted, started < asked, b = run(asked, started, committed),
             b' = run(asked, started + 1, committed)
      PROVE  Batch!Next
  BY <1>5 DEF Batch!Next, Batch!Start, b
<1>6. ASSUME UNCHANGED aborted, committed < started, b = run(asked, started, committed),
             b' = run(asked, started, committed + 1)
      PROVE  Batch!Next
  BY <1>6 DEF Batch!Next, Batch!Commit, b
<1>7. ASSUME UNCHANGED aborted, b = run(asked, started, committed),
             b' = fail(asked, started, committed)
      PROVE  Batch!Next
  BY <1>7 DEF Batch!Next, Batch!Fail, b
<1>8. ASSUME UNCHANGED <<aborted, asked, started, committed>>, pc \in Running, pc' \in Running
      PROVE  UNCHANGED <<aborted, b>>
  BY <1>1, <1>2, <1>8
<1>9. CASE Begin
  <2>1. started = 0 /\ committed = 0
    BY <1>3, <1>9 DEF Begin, Scheduling, Bounds
  <2>2. asked' \in 1 .. MaxCall /\ b = none /\ b' = run(asked', 0, 0)
    BY <1>1, <1>2, <1>9, <2>1 DEF Begin, Call
  <2> QED
    BY <1>4, <1>9, <2>2 DEF Begin
<1>10. ASSUME StartCall, UNCHANGED <<aborted, asked, committed>>, ~aborted, started < asked,
              pc \in Running
       PROVE  Batch!Next
  BY <1>1, <1>2, <1>5, <1>10 DEF StartCall
<1>11. ASSUME CommitCall, UNCHANGED <<aborted, asked, started>>, committed < started,
              pc \in Running
       PROVE  Batch!Next
  BY <1>1, <1>2, <1>6, <1>11 DEF CommitCall
<1>12. ASSUME pc' = "draining", UNCHANGED <<aborted, asked, started, committed>>, pc \in Running
       PROVE  Batch!Next
  BY <1>1, <1>2, <1>7, <1>12
<1>13. CASE EnterGroup
  <2>1. started < asked
    BY <1>3, <1>13 DEF EnterGroup, Scheduling, GroupShape, Between
  <2> QED
    BY <1>8, <1>10, <1>13, <2>1 DEF EnterGroup, LeaveGroup
<1>14. CASE Return
  <2>1. committed = started /\ started = asked
    BY <1>3, <1>14 DEF Return, Scheduling, GroupShape, NothingPending, Between
  <2>2. b = run(asked, started, committed) /\ b' = none /\ UNCHANGED aborted
    BY <1>1, <1>2, <1>14 DEF Return
  <2> QED
    BY <2>1, <2>2 DEF Batch!Next, Batch!Finish, Batch!Idle, b
<1>15. CASE Prepared
  BY <1>8, <1>12, <1>15 DEF Prepared, batchVars
<1>16. CASE FinishReady
  <2>1. committed < started
    BY <1>3, <1>16 DEF FinishReady, Ready
  <2> QED
    BY <1>8, <1>11, <1>16, <2>1 DEF FinishReady, batchVars
<1>17. CASE Finalized
  <2>1. committed < started
    BY <1>17 DEF Finalized, Scheduling, Pool
  <2> QED
    BY <1>11, <1>12, <1>17, <2>1 DEF Finalized, batchVars
<1>18. CASE Advance
  <2>1. pc \in Running /\ UNCHANGED <<aborted, asked, committed>>
    BY <1>18 DEF Advance
  <2>2. CASE pc' = "draining" /\ UNCHANGED started
    BY <1>12, <2>1, <2>2
  <2>3. CASE MayFill /\ StartCall
    <3>1. started < asked /\ ~aborted
      BY <1>3, <1>18, <2>3
         DEF Advance, MayFill, GroupEnd, Scheduling, GroupShape, Between
    <3> QED
      BY <1>10, <2>1, <2>3, <3>1
  <2>4. CASE WaitOrLeave
    BY <1>8, <2>1, <2>4 DEF WaitOrLeave, LeaveGroup
  <2> QED
    BY <1>18, <2>2, <2>3, <2>4 DEF Advance
<1>19. CASE Race
  BY <1>8, <1>12, <1>19 DEF Race, batchVars
<1>20. CASE SkipRest
  <2>1. aborted /\ committed = started /\ pc \in Running /\ pc' \in Running
        /\ started' = asked /\ committed' = asked /\ UNCHANGED <<aborted, asked>>
    BY <1>20 DEF SkipRest, Scheduling, NothingPending, Between
  <2>2. CASE started = asked
    BY <1>8, <2>1, <2>2
  <2>3. CASE started < asked
    <3>1. b = run(asked, started, committed) /\ b' = run(asked, asked, asked)
      BY <1>1, <1>2, <2>1
    <3>2. b' = [b EXCEPT !.started = b.asked, !.done = b.asked]
      <4> DEFINE r == run(asked, started, committed)
                 g == [r EXCEPT !.started = asked, !.done = asked]
      <4>1. g = [i \in {"state", "asked", "started", "done"} |-> g[i]]
        OBVIOUS
      <4>2. g.state = "running" /\ g.asked = asked /\ g.started = asked /\ g.done = asked
        OBVIOUS
      <4>3. b = r /\ b.asked = asked /\ b' = run(asked, asked, asked)
        BY <3>1
      <4>4. g = run(asked, asked, asked)
        <5> HIDE DEF g
        <5> QED
          BY <4>1, <4>2
      <4> QED
        BY <4>3, <4>4, Zenon
    <3>3. b.state = "running" /\ b.done = b.started /\ b.started < b.asked
      BY <2>1, <2>3, <3>1
    <3>4. Batch!Skip
      BY <2>1, <3>2, <3>3 DEF Batch!Skip, b
    <3> QED
      BY <2>1, <3>4 DEF Batch!Next
  <2> QED
    BY <1>3, <2>2, <2>3
<1>21. CASE Drained
  <2>1. b = fail(asked, started, committed) /\ b' = none /\ UNCHANGED aborted
    BY <1>1, <1>2, <1>21 DEF Drained
  <2> QED
    BY <2>1 DEF Batch!Next, Batch!Reject, Batch!Idle, b
<1>22. ASSUME UNCHANGED <<pc, asked, started, committed>> PROVE UNCHANGED b
  BY <1>22 DEF b, BatchState
<1>23. ASSUME NEW c \in Call, Settle(c) PROVE UNCHANGED <<aborted, b>>
  BY <1>22, <1>23 DEF Settle, batchVars
<1>24. CASE Abort
  BY <1>22, <1>24 DEF Abort, batchVars, Batch!Next, Batch!Abort, b
<1>25. CASE UNCHANGED vars
  BY <1>22, <1>25 DEF vars
<1> QED
  BY <1>9, <1>13, <1>14, <1>15, <1>16, <1>17, <1>18, <1>19, <1>20, <1>21, <1>23, <1>24, <1>25
     DEF Next, Scheduler

(* The scheduler implements the ordered batch, for every number of calls and
   every size of the pool: what AgentDriver takes for its tool phase is what
   executeToolCalls does. *)
THEOREM SchedulerImplementsBatch == Spec => ImplementsToolBatch
<1>1. Init => Batch!Init
  BY DEF Init, Batch!Init, Batch!Idle, BatchState
<1> QED
  BY <1>1, BatchStep, SchedulingHolds, PTL DEF Spec, ImplementsToolBatch, Batch!Spec
===============================================================================
