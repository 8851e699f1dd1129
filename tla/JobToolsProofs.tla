--------------------------- MODULE JobToolsProofs ---------------------------
(***************************************************************************)
(* What is proved of the job tools for every set of jobs, owners and       *)
(* callers: their types, that no teardown leaves a job or a waiting caller *)
(* behind, and that no job whose id the model knows ends unreported.       *)
(*                                                                         *)
(* The invariant relates four tables that the code keeps apart: the        *)
(* records, the resolvers registered on them, the wait each caller is in   *)
(* and the call it serves; and what owners and the registry collected for  *)
(* their teardown.                                                         *)
(***************************************************************************)
EXTENDS JobTools, TLAPS

\* A job that runs is listed; one that never started is not. No tool writes
\* output. (start, settle, remove)
Jobs ==
    \A j \in Job :
        /\ IsLive(j) => job[j].stored
        /\ job[j].stored => job[j].status # "absent"
        /\ job[j].status # "absent" => job[j].owner \in Owner
        /\ job[j].ring = EmptyRing /\ job[j].source = 0 /\ job[j].cursor = 0

\* A caller of wait is registered on the job it waits for and on no other,
\* and nobody waits on a job that has settled. (waitJob, settle, onAbort)
Waits ==
    /\ \A w \in Waiter, j \in Job :
          w \in resolvers[j] <=> wait[w].state = "waiting" /\ wait[w].job = j
    /\ \A w \in Waiter, j \in Job : w \in resolvers[j] => IsLive(j)

\* A wait is part of a tool call and is on the job the call is about.
Calls ==
    \A w \in Waiter :
        \/ call[w] = NoCall /\ wait[w] = NoWait
        \/ /\ call[w].op # "idle" /\ wait[w].state # "free"
           /\ call[w].job \in Job /\ wait[w].job = call[w].job

\* Whoever owns a job has a cleanup, or has collected it to drop it; nothing
\* starts behind that look. (ensureOwnerCleanup, disposeOwned)
Owners ==
    \A o \in Owner, j \in Job :
        /\ owner[o].cleanup => owner[o].state \in {"live", "unloading"}
        /\ job[j].stored /\ job[j].owner = o =>
              \/ owner[o].cleanup
              \/ owner[o].state = "draining" /\ j \in owner[o].jobs
        /\ j \in owner[o].jobs => job[j].owner = o /\ job[j].status # "absent"

\* The registry's own teardown: everything listed was collected. (disposeAll)
Service ==
    \A j \in Job : job[j].stored =>
        \/ service.state = "live"
        \/ service.state = "draining" /\ j \in service.jobs

\* Ends the model was told of, or no reader is left for.
Told(j) ==
    \/ job[j].cause = "teardown"
    \/ owner[job[j].owner].state = "gone"
    \/ service.state # "live"
    \/ j \in noticed \cup heard \cup lost

\* An end the model was not told of is carried by a call whose wait it ended;
\* and the job the model killed was reported as it was killed.
Reports ==
    /\ \A j \in Job : IsTerminal(j) =>
          \/ Told(j)
          \/ job[j].stored /\ \E w \in Waiter : call[w].job = j /\ wait[w].state = "settled"
    /\ killedByModel \subseteq heard \cup lost

IInv == TypeOK /\ Jobs /\ Waits /\ Calls /\ Owners /\ Service /\ Reports

-----------------------------------------------------------------------------
(* Records. No tool writes output, so the ring of every record is empty.   *)

Plain(r) == r \in Record /\ r.ring = EmptyRing /\ r.source = 0 /\ r.cursor = 0

\* Trimming an empty ring leaves it empty.
LEMMA EmptyTrim ==
    ASSUME NEW cap \in Nat
    PROVE  Trim(EmptyRing, cap) = EmptyRing
<1>1. EmptyRing.starts = << >> /\ EmptyRing.total = 0
  BY DEF EmptyRing
<1>2. Retained(EmptyRing) = 0
  BY <1>1 DEF Retained, Earliest
<1> QED
  BY <1>2 DEF Trim

\* What a kill does to a record.
LEMMA KilledRecord ==
    ASSUME NEW r, Plain(r)
    PROVE  /\ Plain(Killed(r)) /\ Killed(r).status = "stopping" /\ Killed(r).cause = "kill"
           /\ Killed(r).stored = r.stored /\ Killed(r).owner = r.owner
  BY DEF Plain, Record, Killed, Live, Cause

\* What a settlement does to the record of a live job.
LEMMA SettledRecord ==
    ASSUME NEW r, Plain(r), r.status \notin Terminal,
           NEW status \in Terminal, NEW cause \in Cause
    PROVE  LET s == Settled(r, status, cause)
           IN  /\ Plain(s) /\ s.status = status /\ s.cause = cause
               /\ s.stored = r.stored /\ s.owner = r.owner
<1> DEFINE unread == r.ring.total - r.cursor
           cap == IF unread > SettledRetainBytes THEN unread ELSE SettledRetainBytes
<1>1. r.ring = EmptyRing /\ r.cursor = 0 /\ EmptyRing.total = 0
  BY DEF Plain, EmptyRing
<1>2. cap = SettledRetainBytes
  BY <1>1, JobConstants
<1>3. Trim(r.ring, cap) = r.ring
  BY <1>1, <1>2, JobConstants, EmptyTrim
<1> HIDE DEF cap
<1>4. Settled(r, status, cause)
         = [r EXCEPT !.status = status, !.cause = cause, !.progress = FALSE,
                     !.ring = Trim(@, cap)]
  BY DEF Settled, cap
<1> DEFINE s == Settled(r, status, cause)
<1>5. /\ DOMAIN s = DOMAIN r /\ s.status = status /\ s.cause = cause /\ s.progress = FALSE
      /\ s.ring = r.ring /\ s.stored = r.stored /\ s.owner = r.owner /\ s.source = r.source
      /\ s.cursor = r.cursor /\ s.cancelled = r.cancelled /\ s.done = r.done
  BY <1>3, <1>4 DEF Plain, Record
<1>6. s \in Record
  BY <1>3, <1>4 DEF Plain, Record
<1> QED
  BY <1>5, <1>6 DEF Plain

\* What a teardown's cancellation does to the record of a live job.
LEMMA TornDownRecord ==
    ASSUME NEW r, Plain(r), r.status \in Live, NEW throws \in BOOLEAN
    PROVE  LET s == TornDown(r, throws)
           IN  /\ Plain(s) /\ s.cause = "teardown"
               /\ s.status = IF throws THEN "failed" ELSE "stopping"
               /\ s.stored = r.stored /\ s.owner = r.owner
<1> DEFINE t == [r EXCEPT !.cause = "teardown"]
<1>1. Plain(t) /\ t.status = r.status /\ t.stored = r.stored /\ t.owner = r.owner
  BY DEF Plain, Record, Cause
<1>2. t.status \notin Terminal /\ "failed" \in Terminal /\ "teardown" \in Cause
  BY <1>1 DEF Live, Terminal, Cause
<1>3. CASE throws
  <2> HIDE DEF t
  <2>1. LET s == Settled(t, "failed", "teardown")
        IN  /\ Plain(s) /\ s.status = "failed" /\ s.cause = "teardown"
            /\ s.stored = t.stored /\ s.owner = t.owner
    BY <1>1, <1>2, SettledRecord
  <2>2. TornDown(r, throws) = Settled(t, "failed", "teardown")
    BY <1>3 DEF TornDown, t
  <2> QED
    BY <1>1, <1>3, <2>1, <2>2
<1>4. CASE ~throws
  BY <1>4 DEF TornDown, Plain, Record, Live, Cause
<1> QED
  BY <1>3, <1>4

\* A read of a record without output only moves nothing.
LEMMA ConsumedRecord ==
    ASSUME NEW r, Plain(r)
    PROVE  LET s == Consumed(r)
           IN  /\ Plain(s) /\ s.status = r.status /\ s.cause = r.cause
               /\ s.stored = r.stored /\ s.owner = r.owner
<1>1. r.ring = EmptyRing /\ r.cursor = 0 /\ EmptyRing.total = 0
  BY DEF Plain, EmptyRing
<1>2. Trim(r.ring, SettledRetainBytes) = r.ring
  BY <1>1, JobConstants, EmptyTrim
<1> DEFINE read == [r EXCEPT !.cursor = r.ring.total]
<1>3. Plain(read) /\ read.status = r.status /\ read.cause = r.cause
      /\ read.stored = r.stored /\ read.owner = r.owner /\ read.ring = r.ring
  BY <1>1 DEF Plain, Record
<1> HIDE DEF read
<1>4. CASE r.status \in Terminal
  <2>1. Consumed(r) = [read EXCEPT !.ring = Trim(@, SettledRetainBytes)]
    BY <1>4 DEF Consumed, read
  <2> QED
    BY <1>2, <1>3, <2>1 DEF Plain, Record
<1>5. CASE r.status \notin Terminal
  BY <1>3, <1>5 DEF Consumed, read
<1> QED
  BY <1>4, <1>5

\* Nor does the pump's last drain.
LEMMA PumpedRecord ==
    ASSUME NEW r, Plain(r)
    PROVE  LET s == [Pumped(r) EXCEPT !.done = "settle"]
           IN  /\ Plain(s) /\ s.status = r.status /\ s.cause = r.cause
               /\ s.stored = r.stored /\ s.owner = r.owner
<1>1. Appended(r, r.source) = r
  <2>1. RingAppend(r.ring, r.source, RetainBytes) = r.ring
    BY DEF Plain, RingAppend
  <2> QED
    BY <2>1 DEF Appended, Plain, Record
<1>2. Pumped(r) = [r EXCEPT !.source = 0]
  BY <1>1 DEF Pumped
<1> QED
  BY <1>2 DEF Plain, Record

\* Nor does leaving the table.
LEMMA DroppedRecord ==
    ASSUME NEW r, Plain(r)
    PROVE  LET s == [r EXCEPT !.stored = FALSE]
           IN  /\ Plain(s) /\ s.stored = FALSE /\ s.status = r.status /\ s.cause = r.cause
               /\ s.owner = r.owner
  BY DEF Plain, Record

\* The record of a new job.
LEMMA StartedRecord ==
    ASSUME NEW o \in Owner
    PROVE  LET s == [Absent EXCEPT !.status = "running", !.stored = TRUE, !.owner = o]
           IN  /\ Plain(s) /\ s.status = "running" /\ s.cause = "none"
               /\ s.stored /\ s.owner = o
<1>1. EmptyRing \in [starts : Seq(Nat), total : Nat]
  BY DEF EmptyRing
<1>2. Absent \in Record
  BY <1>1 DEF Absent, Record, Live, Terminal, Cause
<1>3. Absent.ring = EmptyRing /\ Absent.source = 0 /\ Absent.cursor = 0 /\ Absent.cause = "none"
  BY DEF Absent
<1> QED
  BY <1>2, <1>3 DEF Plain, Record, Live

-----------------------------------------------------------------------------
(* What a step may do to the records, whichever operation it belongs to:   *)
(* jobs settle, are dropped once they have settled, or start.              *)

Moves(settled, dropped, started) ==
    /\ job' \in [Job -> Record]
    /\ \A j \in Job :
          /\ Plain(job'[j])
          /\ j \in started => /\ job[j].status = "absent"
                              /\ job'[j].status = "running"
                              /\ job'[j].stored /\ job'[j].owner \in Owner
          /\ j \in settled => IsLive(j) /\ job'[j].status \in Terminal
          /\ j \notin settled \cup started =>
                /\ job'[j].status \in Terminal <=> IsTerminal(j)
                /\ job'[j].status \in Live <=> IsLive(j)
          /\ j \in dropped => IsTerminal(j) /\ ~job'[j].stored
          /\ j \notin dropped \cup started => job'[j].stored = job[j].stored
          /\ j \notin started => job'[j].owner = job[j].owner
          /\ IsTerminal(j) => job'[j].cause = job[j].cause

\* A status is absent, live or terminal, and one of them only.
LEMMA Statuses ==
    ASSUME NEW r \in Record
    PROVE  /\ (r.status = "absent") <=> ~(r.status \in Live \/ r.status \in Terminal)
           /\ ~(r.status \in Live /\ r.status \in Terminal)
  BY DEF Record, Live, Terminal

\* What such a step keeps of the records.
LEMMA JobsKept ==
    ASSUME IInv, NEW S, NEW D, NEW T, Moves(S, D, T)
    PROVE  Jobs'
<1> SUFFICES ASSUME NEW j \in Job
             PROVE  /\ job'[j].status \in Live => job'[j].stored
                    /\ job'[j].stored => job'[j].status # "absent"
                    /\ job'[j].status # "absent" => job'[j].owner \in Owner
                    /\ job'[j].ring = EmptyRing /\ job'[j].source = 0 /\ job'[j].cursor = 0
  BY DEF Jobs, IsLive
<1>1. job[j] \in Record /\ job'[j] \in Record
  BY DEF IInv, TypeOK, RegTypeOK, Moves
<1>2. /\ (job[j].status = "absent") <=> ~(IsLive(j) \/ IsTerminal(j))
      /\ ~(IsLive(j) /\ IsTerminal(j))
      /\ (job'[j].status = "absent") <=> ~(job'[j].status \in Live \/ job'[j].status \in Terminal)
      /\ ~(job'[j].status \in Live /\ job'[j].status \in Terminal)
  BY <1>1, Statuses DEF IsLive, IsTerminal
<1>3. job'[j].ring = EmptyRing /\ job'[j].source = 0 /\ job'[j].cursor = 0
  BY DEF Moves, Plain
<1>4. /\ IsLive(j) => job[j].stored
      /\ job[j].stored => job[j].status # "absent"
      /\ job[j].status # "absent" => job[j].owner \in Owner
  BY DEF IInv, Jobs
<1>5. CASE j \in T
  <2>1. job'[j].status = "running" /\ job'[j].stored /\ job'[j].owner \in Owner
    BY <1>5 DEF Moves
  <2> QED
    BY <1>3, <2>1
<1>6. CASE j \notin T
  <2>1. /\ job'[j].owner = job[j].owner
        /\ j \in S => IsLive(j) /\ job'[j].status \in Terminal
        /\ j \notin S => /\ job'[j].status \in Terminal <=> IsTerminal(j)
                         /\ job'[j].status \in Live <=> IsLive(j)
        /\ j \in D => IsTerminal(j) /\ ~job'[j].stored
        /\ j \notin D => job'[j].stored = job[j].stored
    BY <1>6 DEF Moves
  <2> QED
    BY <1>2, <1>3, <1>4, <2>1
<1> QED
  BY <1>5, <1>6

\* Nothing starts once the registry's teardown looked at the table.
LEMMA ServiceKept ==
    ASSUME IInv, NEW S, NEW D, NEW T, Moves(S, D, T), service' = service,
           T = {} \/ service.state = "live"
    PROVE  Service'
<1> SUFFICES ASSUME NEW j \in Job, job'[j].stored
             PROVE  \/ service.state = "live"
                    \/ service.state = "draining" /\ j \in service.jobs
  BY DEF Service
<1>1. CASE j \in T
  BY <1>1
<1>2. CASE j \notin T
  <2>1. job[j].stored
    BY <1>2 DEF Moves
  <2> QED
    BY <2>1 DEF IInv, Service
<1> QED
  BY <1>1, <1>2

\* Nor once the owner's teardown did.
LEMMA OwnersKept ==
    ASSUME IInv, NEW S, NEW D, Moves(S, D, {}), owner' = owner
    PROVE  Owners'
<1>1. ASSUME NEW j \in Job
      PROVE  /\ job'[j].stored => job[j].stored
             /\ job'[j].owner = job[j].owner
             /\ job[j].status # "absent" => job'[j].status # "absent"
  <2>1. job[j] \in Record /\ job'[j] \in Record
    BY DEF IInv, TypeOK, RegTypeOK, Moves
  <2>2. /\ (job[j].status = "absent") <=> ~(IsLive(j) \/ IsTerminal(j))
        /\ (job'[j].status = "absent") <=>
              ~(job'[j].status \in Live \/ job'[j].status \in Terminal)
    BY <2>1, Statuses DEF IsLive, IsTerminal
  <2> QED
    BY <2>2 DEF Moves
<1> QED
  BY <1>1 DEF IInv, Owners

\* Waits, when the step answers none and settles nothing.
LEMMA WaitsKept ==
    ASSUME IInv, NEW D, NEW T, Moves({}, D, T), UNCHANGED <<wait, resolvers>>
    PROVE  Waits'
<1>1. \A j \in Job : IsLive(j) => job'[j].status \in Live
  BY DEF Moves, Live
<1> QED
  BY <1>1 DEF IInv, Waits, IsLive

\* What the callers and the listener do in a step.
Answers(settled, dropped) ==
    /\ Listener
    /\ heard \subseteq heard' /\ lost \subseteq lost'
    /\ \A o \in Owner : owner[o].state = "gone" => owner'[o].state = "gone"
    /\ service.state # "live" => service'.state # "live"
    /\ \A w \in Waiter, j \in Job : call[w].job = j /\ wait[w].state = "settled" =>
          \/ call'[w].job = j /\ wait'[w].state = "settled"
          \/ job[j].stored /\ IsTerminal(j) => j \in heard' \cup lost'
    /\ \A w \in Waiter, j \in settled : w \in resolvers[j] =>
          call'[w].job = j /\ wait'[w].state = "settled"
    /\ \A j \in dropped : Told(j)'
    /\ killedByModel' \subseteq heard' \cup lost'

\* No end goes unreported in a step of that form.
LEMMA ReportsKept ==
    ASSUME IInv, NEW S \in SUBSET Job, NEW D \in SUBSET Job, NEW T, Moves(S, D, T),
           Answers(S, D)
    PROVE  Reports'
<1> SUFFICES ASSUME NEW j \in Job, job'[j].status \in Terminal
             PROVE  \/ Told(j)'
                    \/ /\ job'[j].stored
                       /\ \E w \in Waiter : call'[w].job = j /\ wait'[w].state = "settled"
  BY DEF Answers, Reports, IsTerminal
<1>0. job[j] \in Record /\ job'[j] \in Record
  BY DEF IInv, TypeOK, RegTypeOK, Moves
<1>1. j \notin T
  BY <1>0 DEF Moves, Terminal
<1>2. job'[j].owner = job[j].owner
  BY <1>1 DEF Moves
<1>3. noticed' = noticed \cup {i \in Settling : Announced(i)}
  BY DEF Answers, Listener
<1>4. /\ heard \subseteq heard' /\ lost \subseteq lost'
      /\ service.state # "live" => service'.state # "live"
      /\ \A o \in Owner : owner[o].state = "gone" => owner'[o].state = "gone"
  BY DEF Answers
<1>5. CASE IsTerminal(j)
  <2>1. job[j].status # "absent" /\ job[j].owner \in Owner
    BY <1>0, <1>5 DEF IInv, Jobs, IsTerminal, Terminal
  <2>2. CASE Told(j)
    <3>1. job'[j].cause = job[j].cause
      BY <1>5 DEF Moves
    <3>2. Told(j)'
      BY <1>2, <1>3, <1>4, <2>1, <2>2, <3>1 DEF Told
    <3> QED
      BY <3>2
  <2>3. CASE j \in D
    BY <2>3 DEF Answers
  <2>4. CASE ~Told(j) /\ j \notin D
    <3>1. job'[j].stored = job[j].stored
      BY <1>1, <2>4 DEF Moves
    <3>2. job[j].stored
      BY <1>5, <2>4 DEF IInv, Reports
    <3>3. PICK w \in Waiter : call[w].job = j /\ wait[w].state = "settled"
      BY <1>5, <2>4 DEF IInv, Reports
    <3>4. \/ call'[w].job = j /\ wait'[w].state = "settled"
          \/ j \in heard' \cup lost'
      BY <1>5, <3>2, <3>3 DEF Answers
    <3>5. CASE j \in heard' \cup lost'
      BY <3>5 DEF Told
    <3> QED
      BY <3>1, <3>2, <3>4, <3>5
  <2> QED
    BY <2>2, <2>3, <2>4
<1>6. CASE ~IsTerminal(j)
  <2>1. j \in S
    BY <1>1, <1>6 DEF Moves
  <2>2. IsLive(j) /\ j \in Settling
    BY <2>1 DEF Moves, Settling
  <2>3. job[j].stored /\ job[j].owner \in Owner
    BY <1>0, <2>2 DEF IInv, Jobs, IsLive, Live
  <2>4. job[j].owner # NoOwner
    BY <2>3, JobConstants
  <2>5. job'[j].stored
    <3>1. j \notin D
      BY <1>6 DEF Moves
    <3> QED
      BY <1>1, <2>3, <3>1 DEF Moves
  <2>6. CASE resolvers[j] # {}
    <3>1. PICK w \in resolvers[j] : TRUE
      BY <2>6
    <3>2. w \in Waiter
      BY <3>1 DEF IInv, TypeOK, RegTypeOK
    <3>3. call'[w].job = j /\ wait'[w].state = "settled"
      BY <2>1, <3>1, <3>2 DEF Answers
    <3> QED
      BY <2>5, <3>2, <3>3
  <2>7. CASE resolvers[j] = {} /\ ~Announced(j)
    <3>1. \/ j \in killedByModel
          \/ job'[j].cause = "teardown"
          \/ owner[job[j].owner].state = "gone"
          \/ service.state # "live"
      BY <2>4, <2>7 DEF Announced
    <3>2. j \in killedByModel => j \in heard' \cup lost'
      BY <1>4 DEF IInv, Reports
    <3>3. Told(j)'
      BY <1>2, <1>4, <2>3, <3>1, <3>2 DEF Told
    <3> QED
      BY <3>3
  <2>8. CASE Announced(j)
    <3>1. j \in noticed'
      BY <1>3, <2>2, <2>8
    <3> QED
      BY <3>1 DEF Told
  <2> QED
    BY <2>6, <2>7, <2>8
<1> QED
  BY <1>5, <1>6

-----------------------------------------------------------------------------
(* The forms the steps give to the table of records.                       *)

\* Every record of a reachable table is plain.
LEMMA PlainRecords ==
    ASSUME IInv
    PROVE  /\ job \in [Job -> Record]
           /\ \A j \in Job : Plain(job[j])
  BY DEF IInv, TypeOK, RegTypeOK, Jobs, Plain

\* A step that leaves the records alone.
LEMMA NoMoves ==
    ASSUME IInv, UNCHANGED job
    PROVE  Moves({}, {}, {})
  BY PlainRecords DEF Moves, IsLive, IsTerminal

\* A step on one record that neither settles nor drops it.
LEMMA OneMoves ==
    ASSUME IInv, NEW j \in Job, NEW r, Plain(r), job' = [job EXCEPT ![j] = r],
           r.stored = job[j].stored, r.owner = job[j].owner,
           IsTerminal(j) => r.cause = job[j].cause,
           r.status \in Terminal <=> IsTerminal(j), r.status \in Live <=> IsLive(j)
    PROVE  Moves({}, {}, {})
<1>1. job' \in [Job -> Record]
  BY PlainRecords DEF Plain
<1>2. \A i \in Job : job'[i] = IF i = j THEN r ELSE job[i]
  BY PlainRecords
<1>3. ASSUME NEW i \in Job
      PROVE  /\ Plain(job'[i]) /\ job'[i].stored = job[i].stored
             /\ job'[i].owner = job[i].owner
             /\ IsTerminal(i) => job'[i].cause = job[i].cause
             /\ job'[i].status \in Terminal <=> IsTerminal(i)
             /\ job'[i].status \in Live <=> IsLive(i)
  <2>1. CASE i = j
    BY <1>2, <2>1
  <2>2. CASE i # j
    BY <1>2, <2>2, PlainRecords DEF IsTerminal, IsLive
  <2> QED
    BY <2>1, <2>2
<1> QED
  BY <1>1, <1>3 DEF Moves

\* A step that drops settled jobs.
LEMMA DropMoves ==
    ASSUME IInv, NEW D \in SUBSET Job, \A j \in D : IsTerminal(j), Drop(D)
    PROVE  Moves({}, D, {})
<1>1. ASSUME NEW j \in Job
      PROVE  /\ j \in D => job'[j] = [job[j] EXCEPT !.stored = FALSE]
             /\ j \notin D => job'[j] = job[j]
  BY DEF Drop
<1>2. ASSUME NEW j \in Job
      PROVE  /\ Plain(job'[j]) /\ job'[j].status = job[j].status
             /\ job'[j].cause = job[j].cause /\ job'[j].owner = job[j].owner
             /\ j \in D => ~job'[j].stored
             /\ j \notin D => job'[j].stored = job[j].stored
  <2>1. Plain(job[j])
    BY PlainRecords
  <2>2. CASE j \in D
    <3> DEFINE s == [job[j] EXCEPT !.stored = FALSE]
    <3>1. job'[j] = s
      BY <1>1, <2>2
    <3>2. /\ Plain(s) /\ s.stored = FALSE /\ s.status = job[j].status
          /\ s.cause = job[j].cause /\ s.owner = job[j].owner
      BY <2>1, DroppedRecord
    <3> HIDE DEF s
    <3> QED
      BY <2>2, <3>1, <3>2
  <2>3. CASE j \notin D
    BY <1>1, <2>1, <2>3
  <2> QED
    BY <2>2, <2>3
<1>3. job' \in [Job -> Record]
  <2>1. job' = [j \in Job |-> job'[j]]
    BY DEF Drop
  <2>2. \A j \in Job : job'[j] \in Record
    BY <1>2 DEF Plain
  <2> QED
    BY <2>1, <2>2
<1> QED
  BY <1>2, <1>3 DEF Moves, IsTerminal, IsLive

\* A step that starts a job.
LEMMA StartMoves ==
    ASSUME IInv, NEW j \in Job, NEW o \in Owner, Start(j, o)
    PROVE  Moves({}, {}, {j})
<1> DEFINE r == [Absent EXCEPT !.status = "running", !.stored = TRUE, !.owner = o]
<1>1. Plain(r) /\ r.status = "running" /\ r.stored /\ r.owner = o
  BY StartedRecord
<1>2. job' = [job EXCEPT ![j] = r] /\ job[j].status = "absent"
  BY DEF Start
<1> HIDE DEF r
<1>3. job' \in [Job -> Record]
  BY <1>1, <1>2, PlainRecords DEF Plain
<1>4. \A i \in Job : job'[i] = IF i = j THEN r ELSE job[i]
  BY <1>2, PlainRecords
<1>5. ASSUME NEW i \in Job, i # j
      PROVE  Plain(job'[i]) /\ job'[i] = job[i]
  BY <1>4, <1>5, PlainRecords
<1>6. ~IsTerminal(j)
  BY <1>2 DEF IsTerminal, Terminal
<1> QED
  BY <1>1, <1>2, <1>3, <1>4, <1>5, <1>6 DEF Moves, IsTerminal, IsLive

\* A step that settles one job.
LEMMA SettleMoves ==
    ASSUME IInv, NEW j \in Job, Settle(j)
    PROVE  Moves({j}, {}, {})
<1> DEFINE cause == IF job[j].cause = "none" THEN "producer" ELSE job[j].cause
<1>1. PICK status \in Terminal : job' = [job EXCEPT ![j] = Settled(@, status, cause)]
  BY DEF Settle
<1> DEFINE r == Settled(job[j], status, cause)
<1>2. Plain(job[j]) /\ IsLive(j)
  BY PlainRecords DEF Settle
<1>3. cause \in Cause /\ job[j].status \notin Terminal
  BY <1>2 DEF Plain, Record, Cause, IsLive, Live, Terminal
<1>4. job' = [job EXCEPT ![j] = r]
  BY <1>1
<1> HIDE DEF cause
<1>5. Plain(r) /\ r.status = status /\ r.stored = job[j].stored /\ r.owner = job[j].owner
  BY <1>2, <1>3, SettledRecord
<1> HIDE DEF r
<1>6. job' \in [Job -> Record]
  BY <1>4, <1>5, PlainRecords DEF Plain
<1>7. \A i \in Job : job'[i] = IF i = j THEN r ELSE job[i]
  BY <1>4, PlainRecords
<1>8. ASSUME NEW i \in Job, i # j
      PROVE  Plain(job'[i]) /\ job'[i] = job[i]
  BY <1>7, <1>8, PlainRecords
<1>9. ~IsTerminal(j)
  BY <1>3 DEF IsTerminal
<1> QED
  BY <1>2, <1>5, <1>6, <1>7, <1>8, <1>9 DEF Moves, IsTerminal, IsLive

\* A teardown's cancellation: it settles those whose cancel threw.
LEMMA TeardownMoves ==
    ASSUME IInv, NEW jobs \in SUBSET Job, CancelForTeardown(jobs)
    PROVE  \E forced \in SUBSET Job :
              /\ Moves(forced, {}, {}) /\ ReleaseWaits(forced)
              /\ \A j \in forced : job'[j].cause = "teardown"
<1> DEFINE live == {j \in jobs : IsLive(j)}
<1>1. PICK forced \in SUBSET (live \cap CancelThrows) :
           /\ job' = [j \in Job |-> IF j \in live THEN TornDown(job[j], j \in forced)
                                    ELSE job[j]]
           /\ ReleaseWaits(forced)
  BY DEF CancelForTeardown
<1>2. forced \subseteq live /\ live \subseteq Job
  BY <1>1
<1>3. ASSUME NEW j \in Job, j \in live
      PROVE  /\ Plain(job'[j]) /\ job'[j].cause = "teardown"
             /\ job'[j].status = IF j \in forced THEN "failed" ELSE "stopping"
             /\ job'[j].stored = job[j].stored /\ job'[j].owner = job[j].owner
  <2>1. Plain(job[j]) /\ job[j].status \in Live
    BY <1>3, PlainRecords DEF IsLive
  <2>2. job'[j] = TornDown(job[j], j \in forced)
    BY <1>1, <1>3
  <2>3. CASE j \in forced
    <3>1. job'[j] = TornDown(job[j], TRUE)
      BY <2>2, <2>3 DEF TornDown
    <3> QED
      BY ZenonT(60), <2>1, <2>3, <3>1, TornDownRecord
  <2>4. CASE j \notin forced
    <3>1. job'[j] = TornDown(job[j], FALSE)
      BY <2>2, <2>4 DEF TornDown
    <3> QED
      BY ZenonT(60), <2>1, <2>4, <3>1, TornDownRecord
  <2> QED
    BY <2>3, <2>4
<1>4. ASSUME NEW j \in Job, j \notin live
      PROVE  Plain(job'[j]) /\ job'[j] = job[j]
  BY <1>1, <1>4, PlainRecords
<1>5. \A j \in live : IsLive(j) /\ ~IsTerminal(j)
  BY DEF IsLive, IsTerminal, Live, Terminal
<1> HIDE DEF live
<1>6. job' \in [Job -> Record]
  <2>1. \A j \in Job : job'[j] \in Record
    BY <1>3, <1>4 DEF Plain
  <2>2. job' = [j \in Job |-> job'[j]]
    BY <1>1
  <2> QED
    BY <2>1, <2>2
<1>7. Moves(forced, {}, {})
  <2>1. ASSUME NEW j \in Job
        PROVE  /\ Plain(job'[j]) /\ job'[j].stored = job[j].stored
               /\ job'[j].owner = job[j].owner
               /\ j \in forced => IsLive(j) /\ job'[j].status \in Terminal
               /\ j \notin forced => /\ job'[j].status \in Terminal <=> IsTerminal(j)
                                     /\ job'[j].status \in Live <=> IsLive(j)
               /\ IsTerminal(j) => job'[j].cause = job[j].cause
    <3>1. CASE j \in live
      BY <1>2, <1>3, <1>5, <3>1 DEF Live, Terminal
    <3>2. CASE j \notin live
      BY <1>2, <1>4, <3>2 DEF IsLive, IsTerminal
    <3> QED
      BY <3>1, <3>2
  <2> QED
    BY <1>6, <2>1 DEF Moves
<1>8. \A j \in forced : job'[j].cause = "teardown"
  BY <1>2, <1>3
<1> QED
  BY <1>1, <1>2, <1>7, <1>8

-----------------------------------------------------------------------------
(* Waits and calls.                                                        *)

WaitType == [state : {"free", "waiting", "settled", "timeout", "aborted"},
             job   : Job \cup {NoJob}]

CallType == [op : {"idle", "bash", "stop", "output"}, owner : Owner \cup {NoOwner},
             job : Job \cup {NoJob}]

WaitsTyped == resolvers \in [Job -> SUBSET Waiter] /\ wait \in [Waiter -> WaitType]

\* The waits of the jobs a step settles are answered, and only those.
LEMMA WaitsReleased ==
    ASSUME IInv, NEW S \in SUBSET Job, Moves(S, {}, {}), ReleaseWaits(S), call' = call
    PROVE  /\ WaitsTyped' /\ Waits' /\ Calls'
           /\ \A w \in Waiter, j \in S : w \in resolvers[j] =>
                 wait'[w].state = "settled" /\ call[w].job = j
           /\ \A w \in Waiter : wait[w].state = "settled" => wait'[w] = wait[w]
<1> DEFINE released == UNION {resolvers[j] : j \in S}
<1>1. /\ resolvers' = [j \in Job |-> IF j \in S THEN {} ELSE resolvers[j]]
      /\ wait' = [w \in Waiter |->
                     IF w \in released /\ wait[w].state = "waiting"
                     THEN [wait[w] EXCEPT !.state = "settled"] ELSE wait[w]]
  BY DEF ReleaseWaits
<1>2. \A w \in Waiter : w \in released <=> \E j \in S : w \in resolvers[j]
  OBVIOUS
<1> HIDE DEF released
<1>3. WaitsTyped
  BY DEF WaitsTyped, WaitType, IInv, TypeOK, RegTypeOK
<1>4. /\ \A w \in Waiter, j \in Job :
            w \in resolvers[j] <=> wait[w].state = "waiting" /\ wait[w].job = j
      /\ \A w \in Waiter, j \in Job : w \in resolvers[j] => IsLive(j)
  BY DEF IInv, Waits
<1>5. ASSUME NEW w \in Waiter
      PROVE  /\ w \in released => /\ wait[w].state = "waiting"
                                  /\ wait'[w] = [wait[w] EXCEPT !.state = "settled"]
                                  /\ wait'[w].state = "settled" /\ wait'[w].job = wait[w].job
                                  /\ wait[w].job \in S
             /\ w \notin released => /\ wait'[w] = wait[w]
                                     /\ wait[w].state = "waiting" => wait[w].job \notin S
             /\ wait'[w] \in WaitType
  <2>1. wait[w] \in WaitType
    BY <1>3 DEF WaitsTyped
  <2>2. CASE w \in released
    BY <1>1, <1>2, <1>4, <2>1, <2>2 DEF WaitType
  <2>3. CASE w \notin released
    <3>1. wait'[w] = wait[w]
      BY <1>1, <2>3
    <3>2. wait[w].state = "waiting" => wait[w].job \notin S
      BY <1>2, <1>4, <2>3
    <3> QED
      BY <2>1, <2>3, <3>1, <3>2
  <2> QED
    BY <2>2, <2>3
<1>6. WaitsTyped'
  <2>1. wait' = [w \in Waiter |-> wait'[w]]
    BY <1>1
  <2>2. wait' \in [Waiter -> WaitType]
    BY <1>5, <2>1
  <2>3. resolvers' \in [Job -> SUBSET Waiter]
    BY <1>1, <1>3 DEF WaitsTyped
  <2> QED
    BY <2>2, <2>3 DEF WaitsTyped, WaitType
<1>7. Waits'
  <2>1. ASSUME NEW w \in Waiter, NEW j \in Job
        PROVE  w \in resolvers'[j] <=> wait'[w].state = "waiting" /\ wait'[w].job = j
    <3>1. w \in resolvers'[j] <=> j \notin S /\ w \in resolvers[j]
      BY <1>1
    <3>2. w \in resolvers[j] <=> wait[w].state = "waiting" /\ wait[w].job = j
      BY <1>4
    <3>3. CASE w \in released
      <4>1. wait'[w].state = "settled" /\ wait[w].job \in S
        BY <1>5, <3>3
      <4> QED
        BY <3>1, <3>2, <4>1
    <3>4. CASE w \notin released
      <4>1. wait'[w] = wait[w] /\ (wait[w].state = "waiting" => wait[w].job \notin S)
        BY <1>5, <3>4
      <4> QED
        BY <3>1, <3>2, <4>1
    <3> QED
      BY <3>3, <3>4
  <2>2. ASSUME NEW w \in Waiter, NEW j \in Job, w \in resolvers'[j]
        PROVE  job'[j].status \in Live
    <3>1. j \notin S /\ IsLive(j)
      BY <1>1, <1>4, <2>2
    <3> QED
      BY <3>1 DEF Moves
  <2> QED
    BY <2>1, <2>2 DEF Waits, IsLive
<1>8. Calls'
  <2>1. ASSUME NEW w \in Waiter
        PROVE  \/ call'[w] = NoCall /\ wait'[w] = NoWait
               \/ /\ call'[w].op # "idle" /\ wait'[w].state # "free"
                  /\ call'[w].job \in Job /\ wait'[w].job = call'[w].job
    <3>1. \/ call[w] = NoCall /\ wait[w] = NoWait
          \/ /\ call[w].op # "idle" /\ wait[w].state # "free"
             /\ call[w].job \in Job /\ wait[w].job = call[w].job
      BY DEF IInv, Calls
    <3>2. NoWait.state # "waiting"
      BY DEF NoWait
    <3> QED
      BY <1>5, <3>1, <3>2
  <2> QED
    BY <2>1 DEF Calls
<1>9. ASSUME NEW w \in Waiter, NEW j \in S, w \in resolvers[j]
      PROVE  wait'[w].state = "settled" /\ call[w].job = j
  <2>1. w \in released /\ wait[w].state = "waiting" /\ wait[w].job = j
    BY <1>2, <1>4, <1>9
  <2>2. wait[w] # NoWait
    BY <2>1 DEF NoWait
  <2>3. call[w].job = j
    BY <2>1, <2>2 DEF IInv, Calls
  <2> QED
    BY <1>5, <2>1, <2>3
<1>10. \A w \in Waiter : wait[w].state = "settled" => wait'[w] = wait[w]
  BY <1>5
<1> QED
  BY <1>6, <1>7, <1>8, <1>9, <1>10

\* The deadline or the caller's signal ends one wait.
LEMMA WaitEnds ==
    ASSUME IInv, NEW w \in Waiter, NEW how \in {"timeout", "aborted"}, EndWait(w, how),
           call' = call
    PROVE  /\ WaitsTyped' /\ Waits' /\ Calls'
           /\ \A v \in Waiter : wait[v].state = "settled" => wait'[v] = wait[v]
<1> DEFINE k == wait[w].job
<1>1. /\ wait[w].state = "waiting" /\ UNCHANGED job
      /\ resolvers' = [resolvers EXCEPT ![k] = @ \ {w}]
      /\ wait' = [wait EXCEPT ![w].state = how]
  BY DEF EndWait
<1>2. WaitsTyped
  BY DEF WaitsTyped, WaitType, IInv, TypeOK, RegTypeOK
<1>3. call[w].op # "idle" /\ k \in Job /\ k = call[w].job
  BY <1>1 DEF IInv, Calls, NoWait
<1> HIDE DEF k
<1>4. /\ wait'[w].state = how /\ wait'[w].job = wait[w].job /\ wait'[w] \in WaitType
      /\ \A v \in Waiter : v # w => wait'[v] = wait[v]
      /\ wait' \in [Waiter -> WaitType]
  BY <1>1, <1>2 DEF WaitsTyped, WaitType
<1>5. /\ resolvers' \in [Job -> SUBSET Waiter]
      /\ \A j \in Job, v \in Waiter : v # w => (v \in resolvers'[j] <=> v \in resolvers[j])
      /\ \A j \in Job : j # k => resolvers'[j] = resolvers[j]
      /\ w \notin resolvers'[k]
  BY <1>1, <1>2, <1>3 DEF WaitsTyped
<1>6. WaitsTyped'
  BY <1>4, <1>5 DEF WaitsTyped, WaitType
<1>7. Waits'
  <2>1. ASSUME NEW v \in Waiter, NEW j \in Job
        PROVE  /\ v \in resolvers'[j] <=> wait'[v].state = "waiting" /\ wait'[v].job = j
               /\ v \in resolvers'[j] => v \in resolvers[j]
    <3>1. v \in resolvers[j] <=> wait[v].state = "waiting" /\ wait[v].job = j
      BY DEF IInv, Waits
    <3>2. CASE v # w
      BY <1>4, <1>5, <3>1, <3>2
    <3>3. CASE v = w
      <4>1. v \notin resolvers'[j]
        BY <1>1, <1>5, <3>1, <3>3 DEF k
      <4> QED
        BY <1>4, <3>3, <4>1
    <3> QED
      BY <3>2, <3>3
  <2>2. \A v \in Waiter, j \in Job : v \in resolvers[j] => IsLive(j)
    BY DEF IInv, Waits
  <2> QED
    BY <1>1, <2>1, <2>2 DEF Waits, IsLive
<1>8. Calls'
  <2>1. ASSUME NEW v \in Waiter
        PROVE  \/ call'[v] = NoCall /\ wait'[v] = NoWait
               \/ /\ call'[v].op # "idle" /\ wait'[v].state # "free"
                  /\ call'[v].job \in Job /\ wait'[v].job = call'[v].job
    <3>1. CASE v = w
      BY <1>3, <1>4, <3>1 DEF k
    <3>2. CASE v # w
      BY <1>4, <3>2 DEF IInv, Calls
    <3> QED
      BY <3>1, <3>2
  <2> QED
    BY <2>1 DEF Calls
<1> QED
  BY <1>1, <1>4, <1>6, <1>7, <1>8

\* A call begins a wait, its first or the one after a stop.
LEMMA WaitBegins ==
    ASSUME IInv, NEW T, Moves({}, {}, T), NEW w \in Waiter, NEW j \in Job,
           wait[w].state # "waiting", BeginWait(w, j),
           call'[w].op # "idle", call'[w].job = j,
           \A v \in Waiter : v # w => call'[v] = call[v]
    PROVE  /\ WaitsTyped' /\ Waits' /\ Calls'
           /\ \A v \in Waiter : v # w => wait'[v] = wait[v]
<1>1. WaitsTyped
  BY DEF WaitsTyped, WaitType, IInv, TypeOK, RegTypeOK
<1>2. /\ wait'[w].job = j /\ wait'[w].state \in {"waiting", "settled"}
      /\ wait'[w].state = "waiting" <=> job'[j].status \in Live
      /\ \A v \in Waiter : v # w => wait'[v] = wait[v]
      /\ wait' \in [Waiter -> WaitType]
  BY <1>1 DEF BeginWait, WaitsTyped, WaitType
<1>3. /\ resolvers' \in [Job -> SUBSET Waiter]
      /\ \A i \in Job, v \in Waiter :
            v \in resolvers'[i] <=> \/ v \in resolvers[i]
                                    \/ v = w /\ i = j /\ job'[j].status \in Live
  BY <1>1 DEF BeginWait, WaitsTyped
<1>4. WaitsTyped'
  BY <1>2, <1>3 DEF WaitsTyped, WaitType
<1>5. Waits'
  <2>1. ASSUME NEW v \in Waiter, NEW i \in Job
        PROVE  v \in resolvers'[i] <=> wait'[v].state = "waiting" /\ wait'[v].job = i
    <3>1. v \in resolvers[i] <=> wait[v].state = "waiting" /\ wait[v].job = i
      BY DEF IInv, Waits
    <3>2. v \in resolvers'[i] <=> \/ v \in resolvers[i]
                                  \/ v = w /\ i = j /\ job'[j].status \in Live
      BY <1>3
    <3>3. CASE v = w
      BY <1>2, <3>1, <3>2, <3>3
    <3>4. CASE v # w
      BY <1>2, <3>1, <3>2, <3>4
    <3> QED
      BY <3>3, <3>4
  <2>2. ASSUME NEW v \in Waiter, NEW i \in Job, v \in resolvers'[i]
        PROVE  job'[i].status \in Live
    <3>1. CASE v \in resolvers[i]
      <4>1. IsLive(i)
        BY <3>1 DEF IInv, Waits
      <4>2. i \in T => job'[i].status \in Live
        BY DEF Moves, Live
      <4> QED
        BY <4>1, <4>2 DEF Moves
    <3>2. CASE v \notin resolvers[i]
      BY <1>3, <2>2, <3>2
    <3> QED
      BY <3>1, <3>2
  <2> QED
    BY <2>1, <2>2 DEF Waits, IsLive
<1>6. Calls'
  <2>1. ASSUME NEW v \in Waiter
        PROVE  \/ call'[v] = NoCall /\ wait'[v] = NoWait
               \/ /\ call'[v].op # "idle" /\ wait'[v].state # "free"
                  /\ call'[v].job \in Job /\ wait'[v].job = call'[v].job
    <3>1. CASE v = w
      BY <1>2, <3>1
    <3>2. CASE v # w
      <4>1. call'[v] = call[v] /\ wait'[v] = wait[v]
        BY <1>2, <3>2
      <4> QED
        BY <4>1 DEF IInv, Calls
    <3> QED
      BY <3>1, <3>2
  <2> QED
    BY <2>1 DEF Calls
<1> QED
  BY <1>2, <1>4, <1>5, <1>6

\* A call whose wait is over returns.
LEMMA CallEnds ==
    ASSUME IInv, NEW D, Moves({}, D, {}), NEW w \in Waiter, wait[w].state # "waiting",
           EndCall(w), UNCHANGED resolvers
    PROVE  /\ WaitsTyped' /\ Waits' /\ Calls' /\ call' \in [Waiter -> CallType]
           /\ \A v \in Waiter : v # w => wait'[v] = wait[v] /\ call'[v] = call[v]
<1>1. WaitsTyped /\ call \in [Waiter -> CallType]
  BY DEF WaitsTyped, WaitType, CallType, IInv, TypeOK, RegTypeOK
<1>2. NoWait \in WaitType /\ NoWait.state # "waiting" /\ NoCall \in CallType
  BY DEF NoWait, WaitType, NoCall, CallType
<1>3. /\ wait'[w] = NoWait /\ call'[w] = NoCall
      /\ \A v \in Waiter : v # w => wait'[v] = wait[v] /\ call'[v] = call[v]
      /\ wait' \in [Waiter -> WaitType] /\ call' \in [Waiter -> CallType]
  BY <1>1, <1>2 DEF EndCall, WaitsTyped
<1>4. WaitsTyped'
  BY <1>1, <1>3 DEF WaitsTyped, WaitType
<1>5. Waits'
  <2>1. ASSUME NEW v \in Waiter, NEW i \in Job
        PROVE  v \in resolvers[i] <=> wait'[v].state = "waiting" /\ wait'[v].job = i
    <3>1. v \in resolvers[i] <=> wait[v].state = "waiting" /\ wait[v].job = i
      BY DEF IInv, Waits
    <3> QED
      BY <1>2, <1>3, <3>1
  <2>2. \A i \in Job : IsLive(i) => job'[i].status \in Live
    BY DEF Moves
  <2>3. \A v \in Waiter, i \in Job : v \in resolvers[i] => IsLive(i)
    BY DEF IInv, Waits
  <2> QED
    BY <2>1, <2>2, <2>3 DEF Waits, IsLive
<1>6. Calls'
  <2>1. ASSUME NEW v \in Waiter
        PROVE  \/ call'[v] = NoCall /\ wait'[v] = NoWait
               \/ /\ call'[v].op # "idle" /\ wait'[v].state # "free"
                  /\ call'[v].job \in Job /\ wait'[v].job = call'[v].job
    <3>1. CASE v # w
      <4>1. call'[v] = call[v] /\ wait'[v] = wait[v]
        BY <1>3, <3>1
      <4> QED
        BY <4>1 DEF IInv, Calls
    <3> QED
      BY <1>3, <3>1
  <2> QED
    BY <2>1 DEF Calls
<1> QED
  BY <1>3, <1>4, <1>5, <1>6

-----------------------------------------------------------------------------
(* Steps of the registry alone, and steps of a call.                       *)

OwnerType == [state : {"live", "unloading", "draining", "gone"}, cleanup : BOOLEAN,
              jobs : SUBSET Job]

ServiceType == [state : {"live", "draining", "gone"}, jobs : SUBSET Job]

\* The invariant from its parts.
LEMMA Assembled ==
    ASSUME IInv, NEW S \in SUBSET Job, NEW D \in SUBSET Job, NEW T, Moves(S, D, T),
           Answers(S, D), WaitsTyped', Waits', Calls', Owners', Service',
           owner' \in [Owner -> OwnerType], service' \in ServiceType,
           call' \in [Waiter -> CallType], known' \subseteq Job,
           heard' \subseteq Job, lost' \subseteq Job, killedByModel' \subseteq Job
    PROVE  IInv'
<1>1. noticed' \subseteq Job
  BY DEF Answers, Listener, Settling, IInv, TypeOK
<1>2. job' \in [Job -> Record]
  BY DEF Moves
<1>3. RegTypeOK'
  BY <1>2 DEF RegTypeOK, WaitsTyped, WaitType, OwnerType, ServiceType
<1>4. TypeOK'
  BY <1>1, <1>3 DEF TypeOK, CallType
<1>5. Jobs' /\ Reports'
  BY JobsKept, ReportsKept
<1> QED
  BY <1>4, <1>5 DEF IInv

\* Owners only get further in their teardown, and so does the registry.
OnwardOnly ==
    /\ owner' \in [Owner -> OwnerType] /\ service' \in ServiceType
    /\ \A o \in Owner : owner[o].state = "gone" => owner'[o].state = "gone"
    /\ service.state # "live" => service'.state # "live"

\* ... as when they stay where they are.
LEMMA Staying ==
    ASSUME IInv, owner' = owner, service' = service
    PROVE  OnwardOnly
  BY DEF IInv, TypeOK, RegTypeOK, OnwardOnly, OwnerType, ServiceType

\* A step of the registry that no tool call makes.
LEMMA QuietStep ==
    ASSUME IInv, NEW S \in SUBSET Job, NEW D \in SUBSET Job, NEW T, Moves(S, D, T), Quiet,
           WaitsTyped', Waits', Calls', Owners', Service', OnwardOnly,
           \A w \in Waiter : wait[w].state = "settled" => wait'[w] = wait[w],
           \A w \in Waiter, j \in S : w \in resolvers[j] =>
              wait'[w].state = "settled" /\ call[w].job = j,
           \A j \in D : Told(j)'
    PROVE  IInv'
<1>1. Listener /\ UNCHANGED <<call, known, heard, lost>> /\ killedByModel' \subseteq killedByModel
  BY DEF Quiet
<1>2. Answers(S, D)
  BY <1>1 DEF Answers, OnwardOnly, IInv, Reports
<1>3. /\ call' \in [Waiter -> CallType] /\ known' \subseteq Job
      /\ heard' \subseteq Job /\ lost' \subseteq Job /\ killedByModel' \subseteq Job
  BY <1>1 DEF IInv, TypeOK, CallType
<1>4. owner' \in [Owner -> OwnerType] /\ service' \in ServiceType
  BY DEF OnwardOnly
<1> QED
  BY <1>2, <1>3, <1>4, Assembled

\* ... that leaves the waits alone as well.
LEMMA QuietJobStep ==
    ASSUME IInv, NEW D \in SUBSET Job, NEW T, Moves({}, D, T), Quiet,
           UNCHANGED <<wait, resolvers>>, Owners', Service', OnwardOnly,
           \A j \in D : Told(j)'
    PROVE  IInv'
<1>1. WaitsTyped'
  BY DEF IInv, TypeOK, RegTypeOK, WaitsTyped, WaitType
<1>2. Waits'
  BY WaitsKept
<1>3. Calls'
  <2>1. call' = call /\ wait' = wait
    BY DEF Quiet
  <2> QED
    BY <2>1 DEF IInv, Calls
<1> QED
  BY <1>1, <1>2, <1>3, QuietStep

\* What a result, or the abort that replaced it, leaves behind.
LEMMA ResultStep ==
    ASSUME IInv, NEW ids \in SUBSET Job, NEW ends \in SUBSET Job, Result(ids, ends)
    PROVE  /\ Listener
           /\ heard \subseteq heard' /\ lost \subseteq lost' /\ ends \subseteq heard' \cup lost'
           /\ known' \subseteq Job /\ heard' \subseteq Job /\ lost' \subseteq Job
  BY DEF Result, IInv, TypeOK

\* A step of a call that begins no wait and ends none.
LEMMA CallJobStep ==
    ASSUME IInv, NEW T, Moves({}, {}, T), UNCHANGED <<wait, resolvers, call>>,
           Owners', Service', OnwardOnly, Listener,
           heard \subseteq heard', lost \subseteq lost', known' \subseteq Job,
           heard' \subseteq Job, lost' \subseteq Job,
           killedByModel' \subseteq Job, killedByModel' \subseteq heard' \cup lost'
    PROVE  IInv'
<1>1. WaitsTyped'
  BY DEF IInv, TypeOK, RegTypeOK, WaitsTyped, WaitType
<1>2. Waits'
  BY WaitsKept
<1>3. Calls'
  BY DEF IInv, Calls
<1>4. Answers({}, {})
  BY DEF Answers, OnwardOnly
<1>5. call' \in [Waiter -> CallType]
  BY DEF IInv, TypeOK, CallType
<1>6. owner' \in [Owner -> OwnerType] /\ service' \in ServiceType
  BY DEF OnwardOnly
<1> QED
  BY <1>1, <1>2, <1>3, <1>4, <1>5, <1>6, Assembled

\* A step in which a call begins a wait.
LEMMA WaitingStep ==
    ASSUME IInv, NEW T, Moves({}, {}, T), NEW w \in Waiter, NEW j \in Job,
           wait[w].state \notin {"waiting", "settled"}, BeginWait(w, j),
           call' \in [Waiter -> CallType], call'[w].op # "idle", call'[w].job = j,
           \A v \in Waiter : v # w => call'[v] = call[v],
           Owners', Service', OnwardOnly, NoResult, UNCHANGED killedByModel
    PROVE  IInv'
<1>1. /\ WaitsTyped' /\ Waits' /\ Calls'
      /\ \A v \in Waiter : v # w => wait'[v] = wait[v]
  BY WaitBegins
<1>2. Listener /\ UNCHANGED <<known, heard, lost>>
  BY DEF NoResult
<1>3. Answers({}, {})
  <2>1. ASSUME NEW v \in Waiter, wait[v].state = "settled"
        PROVE  call'[v] = call[v] /\ wait'[v] = wait[v]
    BY <1>1, <2>1
  <2>2. killedByModel' \subseteq heard' \cup lost'
    BY <1>2 DEF IInv, Reports
  <2> QED
    BY <1>2, <2>1, <2>2 DEF Answers, OnwardOnly
<1>4. /\ known' \subseteq Job /\ heard' \subseteq Job /\ lost' \subseteq Job
      /\ killedByModel' \subseteq Job
  BY <1>2 DEF IInv, TypeOK
<1>5. owner' \in [Owner -> OwnerType] /\ service' \in ServiceType
  BY DEF OnwardOnly
<1> QED
  BY <1>1, <1>3, <1>4, <1>5, Assembled

\* A step in which a call returns. The end of the job it waited for, and that
\* of a job it drops, is in a result, or an abort replaced the result.
Returns(w, D) ==
    /\ Moves({}, D, {})
    /\ wait[w].state # "waiting" /\ EndCall(w) /\ UNCHANGED <<resolvers, owner, service>>
    /\ Listener /\ heard \subseteq heard' /\ lost \subseteq lost'
    /\ known' \subseteq Job /\ heard' \subseteq Job /\ lost' \subseteq Job
    /\ killedByModel' \subseteq killedByModel
    /\ D \subseteq heard' \cup lost'
    /\ \A j \in Job :
          call[w].job = j /\ wait[w].state = "settled" /\ job[j].stored /\ IsTerminal(j)
             => j \in heard' \cup lost'

\* No end goes unreported by it.
LEMMA ReturningStep ==
    ASSUME IInv, NEW w \in Waiter, NEW D \in SUBSET Job, Returns(w, D)
    PROVE  IInv'
<1> USE DEF Returns
<1>1. /\ WaitsTyped' /\ Waits' /\ Calls' /\ call' \in [Waiter -> CallType]
      /\ \A v \in Waiter : v # w => wait'[v] = wait[v] /\ call'[v] = call[v]
  BY CallEnds
<1>2. OnwardOnly
  BY Staying
<1>3. Answers({}, D)
  <2>1. ASSUME NEW v \in Waiter, NEW j \in Job, call[v].job = j, wait[v].state = "settled"
        PROVE  \/ call'[v].job = j /\ wait'[v].state = "settled"
               \/ job[j].stored /\ IsTerminal(j) => j \in heard' \cup lost'
    BY <1>1, <2>1
  <2>2. \A j \in D : Told(j)'
    BY DEF Told
  <2>3. killedByModel' \subseteq heard' \cup lost'
    BY DEF IInv, Reports
  <2> QED
    BY <1>2, <2>1, <2>2, <2>3 DEF Answers, OnwardOnly
<1>4. Owners' /\ Service'
  BY OwnersKept, ServiceKept
<1>5. killedByModel' \subseteq Job
  BY DEF IInv, TypeOK
<1>6. owner' \in [Owner -> OwnerType] /\ service' \in ServiceType
  BY <1>2 DEF OnwardOnly
<1> QED
  BY <1>1, <1>3, <1>4, <1>5, <1>6, Assembled

\* A start attaches the owner's cleanup, or finds it attached.
LEMMA Started ==
    ASSUME IInv, NEW j \in Job, NEW o \in Owner, Start(j, o)
    PROVE  Owners' /\ Service' /\ OnwardOnly
<1>1. Moves({}, {}, {j})
  BY StartMoves
<1>2. /\ owner[o].cleanup \/ owner[o].state = "live"
      /\ service.state = "live" /\ UNCHANGED service /\ job[j].status = "absent"
      /\ owner' = [p \in Owner |-> IF p = o THEN [owner[p] EXCEPT !.cleanup = TRUE]
                                   ELSE owner[p]]
  BY JobConstants DEF Start, CleanupHeld
<1>3. owner \in [Owner -> OwnerType] /\ service \in ServiceType
  BY DEF IInv, TypeOK, RegTypeOK, OwnerType, ServiceType
<1>4. /\ owner'[o].cleanup = TRUE /\ owner'[o].state = owner[o].state
      /\ owner'[o].jobs = owner[o].jobs /\ owner'[o] \in OwnerType
      /\ \A p \in Owner : p # o => owner'[p] = owner[p]
      /\ owner' \in [Owner -> OwnerType]
  BY <1>2, <1>3 DEF OwnerType
<1>5. OnwardOnly
  BY <1>2, <1>3, <1>4 DEF OnwardOnly
<1>6. Service'
  BY <1>1, <1>2, ServiceKept
<1>7. Owners'
  <2>1. job' = [job EXCEPT ![j] = [Absent EXCEPT !.status = "running",
                                                 !.stored = TRUE, !.owner = o]]
    BY DEF Start
  <2>2. job'[j].owner = o /\ \A i \in Job : i # j => job'[i] = job[i]
    BY <2>1, PlainRecords DEF Absent
  <2>3. \A p \in Owner : j \notin owner[p].jobs
    BY <1>2 DEF IInv, Owners
  <2>4. ASSUME NEW p \in Owner, NEW i \in Job
        PROVE  /\ owner'[p].cleanup => owner'[p].state \in {"live", "unloading"}
               /\ job'[i].stored /\ job'[i].owner = p =>
                     \/ owner'[p].cleanup
                     \/ owner'[p].state = "draining" /\ i \in owner'[p].jobs
               /\ i \in owner'[p].jobs => job'[i].owner = p /\ job'[i].status # "absent"
    <3>1. /\ owner[p].cleanup => owner[p].state \in {"live", "unloading"}
          /\ job[i].stored /\ job[i].owner = p =>
                \/ owner[p].cleanup
                \/ owner[p].state = "draining" /\ i \in owner[p].jobs
          /\ i \in owner[p].jobs => job[i].owner = p /\ job[i].status # "absent"
      BY DEF IInv, Owners
    <3>2. CASE p = o
      BY <1>2, <1>4, <2>2, <2>3, <3>1, <3>2
    <3>3. CASE p # o
      BY <1>4, <2>2, <2>3, <3>1, <3>3
    <3> QED
      BY <3>2, <3>3
  <2> QED
    BY <2>4 DEF Owners
<1> QED
  BY <1>5, <1>6, <1>7

-----------------------------------------------------------------------------
(* The registry's steps, one by one.                                       *)

\* The producer settles its promise and the pump drains a last time.
LEMMA PumpStep ==
    ASSUME IInv, NEW j \in Job, ProducerDone(j) \/ FinalDrain(j), Quiet
    PROVE  IInv'
<1>1. /\ Owners' /\ Service' /\ OnwardOnly
      /\ UNCHANGED <<wait, resolvers>> /\ Moves({}, {}, {})
  <2>1. UNCHANGED <<wait, resolvers, owner, service>>
    BY DEF ProducerDone, FinalDrain
  <2>2. Plain(job[j])
    BY PlainRecords
  <2>3. Moves({}, {}, {})
    <3>1. CASE ProducerDone(j)
      <4> DEFINE r == [job[j] EXCEPT !.done = "drain"]
      <4>1. /\ Plain(r) /\ r.status = job[j].status /\ r.cause = job[j].cause
            /\ r.stored = job[j].stored /\ r.owner = job[j].owner
        BY <2>2 DEF Plain, Record
      <4>2. job' = [job EXCEPT ![j] = r]
        BY <3>1, PlainRecords DEF ProducerDone
      <4> HIDE DEF r
      <4> QED
        BY <4>1, <4>2, OneMoves DEF IsTerminal, IsLive
    <3>2. CASE FinalDrain(j)
      <4> DEFINE r == [Pumped(job[j]) EXCEPT !.done = "settle"]
      <4>1. /\ Plain(r) /\ r.status = job[j].status /\ r.cause = job[j].cause
            /\ r.stored = job[j].stored /\ r.owner = job[j].owner
        BY <2>2, PumpedRecord
      <4>2. job' = [job EXCEPT ![j] = r]
        BY <3>2 DEF FinalDrain
      <4> HIDE DEF r
      <4> QED
        BY <4>1, <4>2, OneMoves DEF IsTerminal, IsLive
    <3> QED
      BY <3>1, <3>2
  <2> QED
    BY <2>1, <2>3, OwnersKept, ServiceKept, Staying
<1> QED
  BY <1>1, QuietJobStep

\* The producer's outcome settles the job and answers its waits.
LEMMA SettleStep ==
    ASSUME IInv, NEW j \in Job, Settle(j), Quiet
    PROVE  IInv'
<1>1. Moves({j}, {}, {}) /\ ReleaseWaits({j}) /\ UNCHANGED <<owner, service>> /\ call' = call
  BY SettleMoves DEF Settle, Quiet
<1>2. Owners' /\ Service' /\ OnwardOnly
  BY <1>1, OwnersKept, ServiceKept, Staying
<1>3. /\ WaitsTyped' /\ Waits' /\ Calls'
      /\ \A w \in Waiter, i \in {j} : w \in resolvers[i] =>
            wait'[w].state = "settled" /\ call[w].job = i
      /\ \A w \in Waiter : wait[w].state = "settled" => wait'[w] = wait[w]
  BY <1>1, WaitsReleased
<1> QED
  BY <1>1, <1>2, <1>3, QuietStep

\* What a kill whose cancel returns does to the table.
LEMMA KillMoves ==
    ASSUME IInv, NEW j \in Job, IsLive(j), job' = [job EXCEPT ![j] = Killed(@)]
    PROVE  Moves({}, {}, {})
<1> DEFINE r == Killed(job[j])
<1>1. /\ Plain(r) /\ r.status = "stopping"
      /\ r.stored = job[j].stored /\ r.owner = job[j].owner
  BY PlainRecords, KilledRecord
<1>2. job' = [job EXCEPT ![j] = r]
  OBVIOUS
<1> HIDE DEF r
<1> QED
  BY <1>1, <1>2, OneMoves DEF IsTerminal, IsLive, Live, Terminal

\* A human kills a job.
LEMMA KillStep ==
    ASSUME IInv, NEW j \in Job, HumanKill(j)
    PROVE  IInv'
<1>1. Quiet /\ Moves({}, {}, {}) /\ UNCHANGED <<resolvers, wait, owner, service>>
  BY KillMoves DEF HumanKill, Kill
<1> QED
  BY <1>1, OwnersKept, ServiceKept, Staying, QuietJobStep

\* A job of another producer starts.
LEMMA OtherStartStep ==
    ASSUME IInv, NEW j \in Job, NEW o \in Owner, OtherStart(o, j)
    PROVE  IInv'
<1>1. Start(j, o) /\ UNCHANGED <<resolvers, wait>> /\ Quiet
  BY DEF OtherStart
<1>2. Moves({}, {}, {j})
  BY <1>1, StartMoves
<1>3. Owners' /\ Service' /\ OnwardOnly
  BY <1>1, Started
<1> QED
  BY <1>1, <1>2, <1>3, QuietJobStep

\* A wait times out, or its caller aborts it.
LEMMA WaitOverStep ==
    ASSUME IInv, NEW w \in Waiter, WaitTimeout(w) \/ WaitAbort(w), Quiet
    PROVE  IInv'
<1>1. PICK how \in {"timeout", "aborted"} : EndWait(w, how)
  BY DEF WaitTimeout, WaitAbort
<1>2. UNCHANGED <<job, owner, service>> /\ call' = call
  BY <1>1 DEF EndWait, Quiet
<1>3. Moves({}, {}, {})
  BY <1>2, NoMoves
<1>4. Owners' /\ Service' /\ OnwardOnly
  BY <1>2, <1>3, OwnersKept, ServiceKept, Staying
<1>5. /\ WaitsTyped' /\ Waits' /\ Calls'
      /\ \A v \in Waiter : wait[v].state = "settled" => wait'[v] = wait[v]
  BY <1>1, <1>2, WaitEnds
<1> QED
  BY <1>3, <1>4, <1>5, QuietStep

\* An owner's scope starts to unload.
LEMMA UnloadStep ==
    ASSUME IInv, NEW o \in Owner, UnloadOwner(o), Quiet
    PROVE  IInv'
<1>1. /\ UNCHANGED <<job, resolvers, wait, service>>
      /\ owner[o].state = "live" /\ owner' = [owner EXCEPT ![o].state = "unloading"]
  BY DEF UnloadOwner
<1>2. Moves({}, {}, {})
  BY <1>1, NoMoves
<1>3. owner \in [Owner -> OwnerType] /\ service \in ServiceType
  BY DEF IInv, TypeOK, RegTypeOK, OwnerType, ServiceType
<1>4. /\ owner'[o].state = "unloading" /\ owner'[o].cleanup = owner[o].cleanup
      /\ owner'[o].jobs = owner[o].jobs
      /\ \A p \in Owner : p # o => owner'[p] = owner[p]
      /\ owner' \in [Owner -> OwnerType]
  BY <1>1, <1>3 DEF OwnerType
<1>5. OnwardOnly
  BY <1>1, <1>3, <1>4 DEF OnwardOnly
<1>6. Owners'
  <2>1. ASSUME NEW p \in Owner, NEW j \in Job
        PROVE  /\ owner'[p].cleanup => owner'[p].state \in {"live", "unloading"}
               /\ job'[j].stored /\ job'[j].owner = p =>
                     \/ owner'[p].cleanup
                     \/ owner'[p].state = "draining" /\ j \in owner'[p].jobs
               /\ j \in owner'[p].jobs => job'[j].owner = p /\ job'[j].status # "absent"
    BY <1>1, <1>4 DEF IInv, Owners
  <2> QED
    BY <2>1 DEF Owners
<1>7. Service'
  BY <1>1, <1>2, ServiceKept
<1> QED
  BY <1>1, <1>2, <1>5, <1>6, <1>7, QuietJobStep

\* The owner's cleanup collects its jobs and cancels the live ones.
LEMMA CleanupStep ==
    ASSUME IInv, NEW o \in Owner, OwnerCleanup(o), Quiet
    PROVE  IInv'
<1> DEFINE jobs == IF owner[o].cleanup THEN Stored(o) ELSE {}
<1>1. /\ owner[o].state = "unloading" /\ UNCHANGED service /\ call' = call
      /\ owner' = [owner EXCEPT ![o] = [state |-> "draining", cleanup |-> FALSE,
                                        jobs |-> jobs]]
  BY DEF OwnerCleanup, Quiet
<1>2. jobs \subseteq Stored(o) /\ Stored(o) \subseteq Job
      /\ (owner[o].cleanup => jobs = Stored(o))
  BY DEF Stored
<1> HIDE DEF jobs
<1>3. owner \in [Owner -> OwnerType] /\ service \in ServiceType
  BY DEF IInv, TypeOK, RegTypeOK, OwnerType, ServiceType
<1>4. /\ owner'[o].state = "draining" /\ owner'[o].cleanup = FALSE /\ owner'[o].jobs = jobs
      /\ \A p \in Owner : p # o => owner'[p] = owner[p]
      /\ owner' \in [Owner -> OwnerType]
  BY <1>1, <1>2, <1>3 DEF OwnerType
<1>5. OnwardOnly
  BY <1>1, <1>3, <1>4 DEF OnwardOnly
<1>6. ASSUME NEW S, Moves(S, {}, {})
      PROVE  Owners' /\ Service'
  <2>1. ASSUME NEW j \in Job
        PROVE  /\ job'[j].stored = job[j].stored /\ job'[j].owner = job[j].owner
               /\ job[j].status # "absent" => job'[j].status # "absent"
    <3>1. job[j] \in Record /\ job'[j] \in Record
      BY <1>6 DEF IInv, TypeOK, RegTypeOK, Moves
    <3>2. /\ (job[j].status = "absent") <=> ~(IsLive(j) \/ IsTerminal(j))
          /\ (job'[j].status = "absent") <=>
                ~(job'[j].status \in Live \/ job'[j].status \in Terminal)
      BY <3>1, Statuses DEF IsLive, IsTerminal
    <3> QED
      BY <1>6, <3>2 DEF Moves
  <2>2. ASSUME NEW p \in Owner, NEW j \in Job
        PROVE  /\ owner'[p].cleanup => owner'[p].state \in {"live", "unloading"}
               /\ job'[j].stored /\ job'[j].owner = p =>
                     \/ owner'[p].cleanup
                     \/ owner'[p].state = "draining" /\ j \in owner'[p].jobs
               /\ j \in owner'[p].jobs => job'[j].owner = p /\ job'[j].status # "absent"
    <3>1. /\ owner[p].cleanup => owner[p].state \in {"live", "unloading"}
          /\ job[j].stored /\ job[j].owner = p =>
                \/ owner[p].cleanup
                \/ owner[p].state = "draining" /\ j \in owner[p].jobs
          /\ j \in owner[p].jobs => job[j].owner = p /\ job[j].status # "absent"
          /\ job[j].stored => job[j].status # "absent"
      BY DEF IInv, Owners, Jobs
    <3>2. CASE p # o
      BY <1>4, <2>1, <3>1, <3>2
    <3>3. CASE p = o
      <4>1. j \in Stored(o) <=> job[j].stored /\ job[j].owner = o
        BY DEF Stored
      <4> QED
        BY <1>1, <1>2, <1>4, <2>1, <3>1, <3>3, <4>1
    <3> QED
      BY <3>2, <3>3
  <2>3. Owners'
    BY <2>2 DEF Owners
  <2> QED
    BY <1>1, <1>6, <2>3, ServiceKept
<1>7. CASE owner[o].cleanup
  <2>1. CancelForTeardown(Stored(o))
    BY <1>7 DEF OwnerCleanup
  <2>2. PICK forced \in SUBSET Job : Moves(forced, {}, {}) /\ ReleaseWaits(forced)
    BY <1>2, <2>1, TeardownMoves
  <2>3. /\ WaitsTyped' /\ Waits' /\ Calls'
        /\ \A w \in Waiter, i \in forced : w \in resolvers[i] =>
              wait'[w].state = "settled" /\ call[w].job = i
        /\ \A w \in Waiter : wait[w].state = "settled" => wait'[w] = wait[w]
    BY <1>1, <2>2, WaitsReleased
  <2> QED
    BY <1>5, <1>6, <2>2, <2>3, QuietStep
<1>8. CASE ~owner[o].cleanup
  <2>1. UNCHANGED <<job, resolvers, wait>>
    BY <1>8 DEF OwnerCleanup
  <2> QED
    BY <1>5, <1>6, <2>1, NoMoves, QuietJobStep
<1> QED
  BY <1>7, <1>8

\* The owner's teardown drops what it collected; the agent is gone.
LEMMA OwnerDroppedStep ==
    ASSUME IInv, NEW o \in Owner, OwnerDropped(o), Quiet
    PROVE  IInv'
<1> DEFINE D == owner[o].jobs
<1>1. /\ owner[o].state = "draining" /\ UNCHANGED <<resolvers, wait, service>>
      /\ \A j \in D : IsTerminal(j)
      /\ Drop(D) /\ owner' = [owner EXCEPT ![o].state = "gone", ![o].jobs = {}]
  BY DEF OwnerDropped
<1>2. owner \in [Owner -> OwnerType] /\ service \in ServiceType
  BY DEF IInv, TypeOK, RegTypeOK, OwnerType, ServiceType
<1>3. D \in SUBSET Job
  BY <1>2 DEF OwnerType
<1>4. \A j \in Job : j \in D => job[j].owner = o
  BY DEF IInv, Owners
<1>5. \A j \in Job : job[j].stored /\ job[j].owner = o => j \in D
  BY <1>1 DEF IInv, Owners
<1> HIDE DEF D
<1>6. Moves({}, D, {})
  BY <1>1, <1>3, DropMoves
<1>7. /\ owner'[o].state = "gone" /\ owner'[o].jobs = {}
      /\ owner'[o].cleanup = owner[o].cleanup
      /\ \A p \in Owner : p # o => owner'[p] = owner[p]
      /\ owner' \in [Owner -> OwnerType]
  BY <1>1, <1>2 DEF OwnerType
<1>8. OnwardOnly
  BY <1>1, <1>2, <1>7 DEF OnwardOnly
<1>9. Owners'
  <2>1. ASSUME NEW j \in Job
        PROVE  /\ job'[j].owner = job[j].owner
               /\ job'[j].stored => job[j].stored /\ j \notin D
               /\ job[j].status # "absent" => job'[j].status # "absent"
    <3>1. job[j] \in Record /\ job'[j] \in Record
      BY <1>6 DEF IInv, TypeOK, RegTypeOK, Moves
    <3>2. /\ (job[j].status = "absent") <=> ~(IsLive(j) \/ IsTerminal(j))
          /\ (job'[j].status = "absent") <=>
                ~(job'[j].status \in Live \/ job'[j].status \in Terminal)
      BY <3>1, Statuses DEF IsLive, IsTerminal
    <3> QED
      BY <1>6, <3>2 DEF Moves
  <2>2. ASSUME NEW p \in Owner, NEW j \in Job
        PROVE  /\ owner'[p].cleanup => owner'[p].state \in {"live", "unloading"}
               /\ job'[j].stored /\ job'[j].owner = p =>
                     \/ owner'[p].cleanup
                     \/ owner'[p].state = "draining" /\ j \in owner'[p].jobs
               /\ j \in owner'[p].jobs => job'[j].owner = p /\ job'[j].status # "absent"
    <3>1. /\ owner[p].cleanup => owner[p].state \in {"live", "unloading"}
          /\ job[j].stored /\ job[j].owner = p =>
                \/ owner[p].cleanup
                \/ owner[p].state = "draining" /\ j \in owner[p].jobs
          /\ j \in owner[p].jobs => job[j].owner = p /\ job[j].status # "absent"
      BY DEF IInv, Owners
    <3>2. CASE p # o
      BY <1>7, <2>1, <3>1, <3>2
    <3>3. CASE p = o
      BY <1>1, <1>5, <1>7, <2>1, <3>1, <3>3
    <3> QED
      BY <3>2, <3>3
  <2> QED
    BY <2>2 DEF Owners
<1>10. Service'
  BY <1>1, <1>6, ServiceKept
<1>11. \A j \in D : Told(j)'
  <2>1. ASSUME NEW j \in D
        PROVE  owner'[job'[j].owner].state = "gone"
    BY <1>3, <1>4, <1>6, <1>7 DEF Moves
  <2> QED
    BY <2>1 DEF Told
<1> QED
  BY <1>1, <1>3, <1>6, <1>8, <1>9, <1>10, <1>11, QuietJobStep

\* The registry's teardown collects every job and cancels the live ones.
LEMMA UnloadServiceStep ==
    ASSUME IInv, UnloadService, Quiet
    PROVE  IInv'
<1> DEFINE all == {j \in Job : job[j].stored}
<1>1. /\ CancelForTeardown(all) /\ owner' = owner /\ call' = call
      /\ service' = [state |-> "draining", jobs |-> all]
  BY DEF UnloadService, Quiet
<1>2. all \in SUBSET Job
  OBVIOUS
<1>3. PICK forced \in SUBSET Job : Moves(forced, {}, {}) /\ ReleaseWaits(forced)
  BY <1>1, <1>2, TeardownMoves
<1>4. owner \in [Owner -> OwnerType]
  BY DEF IInv, TypeOK, RegTypeOK, OwnerType
<1>5. /\ WaitsTyped' /\ Waits' /\ Calls'
      /\ \A w \in Waiter, i \in forced : w \in resolvers[i] =>
            wait'[w].state = "settled" /\ call[w].job = i
      /\ \A w \in Waiter : wait[w].state = "settled" => wait'[w] = wait[w]
  BY <1>1, <1>3, WaitsReleased
<1>6. Owners'
  BY <1>1, <1>3, OwnersKept
<1>7. \A j \in Job : job'[j].stored => j \in all
  BY <1>3 DEF Moves
<1> HIDE DEF all
<1>8. Service'
  BY <1>1, <1>7 DEF Service
<1>9. OnwardOnly
  BY <1>1, <1>2, <1>4 DEF OnwardOnly, ServiceType
<1> QED
  BY <1>3, <1>5, <1>6, <1>8, <1>9, QuietStep

\* The registry drops them and detaches the owners' cleanups.
LEMMA ServiceDroppedStep ==
    ASSUME IInv, ServiceDropped, Quiet
    PROVE  IInv'
<1> DEFINE D == service.jobs
<1>1. /\ service.state = "draining" /\ UNCHANGED <<resolvers, wait>>
      /\ \A j \in D : IsTerminal(j)
      /\ Drop(D) /\ owner' = [o \in Owner |-> [owner[o] EXCEPT !.cleanup = FALSE]]
      /\ service' = [service EXCEPT !.state = "gone", !.jobs = {}]
  BY DEF ServiceDropped
<1>2. owner \in [Owner -> OwnerType] /\ service \in ServiceType
  BY DEF IInv, TypeOK, RegTypeOK, OwnerType, ServiceType
<1>3. D \in SUBSET Job
  BY <1>2 DEF ServiceType
<1>4. \A j \in Job : job[j].stored => j \in D
  BY <1>1 DEF IInv, Service
<1>5. Moves({}, D, {})
  BY <1>1, <1>3, DropMoves
<1>6. service'.state = "gone" /\ service' \in ServiceType
  BY <1>1, <1>2 DEF ServiceType
<1>7. /\ \A o \in Owner : /\ owner'[o].cleanup = FALSE /\ owner'[o].state = owner[o].state
                          /\ owner'[o].jobs = owner[o].jobs /\ owner'[o] \in OwnerType
      /\ owner' \in [Owner -> OwnerType]
  <2>1. ASSUME NEW o \in Owner
        PROVE  /\ owner'[o].cleanup = FALSE /\ owner'[o].state = owner[o].state
               /\ owner'[o].jobs = owner[o].jobs /\ owner'[o] \in OwnerType
    <3>1. owner'[o] = [owner[o] EXCEPT !.cleanup = FALSE] /\ owner[o] \in OwnerType
      BY <1>1, <1>2
    <3> QED
      BY <3>1 DEF OwnerType
  <2>2. owner' = [o \in Owner |-> owner'[o]]
    BY <1>1
  <2> QED
    BY <2>1, <2>2
<1> HIDE DEF D
<1>8. OnwardOnly
  BY <1>6, <1>7 DEF OnwardOnly
<1>9. \A j \in Job : job'[j].stored = FALSE
  <2>1. ASSUME NEW j \in Job
        PROVE  job'[j].stored = FALSE
    <3>1. job'[j] \in Record
      BY <1>5 DEF Moves
    <3>2. CASE j \in D
      BY <1>5, <3>1, <3>2 DEF Moves, Record
    <3>3. CASE j \notin D
      BY <1>4, <1>5, <3>1, <3>3 DEF Moves, Record
    <3> QED
      BY <3>2, <3>3
  <2> QED
    BY <2>1
<1>10. Service'
  BY <1>9 DEF Service
<1>11. Owners'
  <2>1. ASSUME NEW j \in Job
        PROVE  /\ job'[j].owner = job[j].owner
               /\ job[j].status # "absent" => job'[j].status # "absent"
    <3>1. job[j] \in Record /\ job'[j] \in Record
      BY <1>5 DEF IInv, TypeOK, RegTypeOK, Moves
    <3>2. /\ (job[j].status = "absent") <=> ~(IsLive(j) \/ IsTerminal(j))
          /\ (job'[j].status = "absent") <=>
                ~(job'[j].status \in Live \/ job'[j].status \in Terminal)
      BY <3>1, Statuses DEF IsLive, IsTerminal
    <3> QED
      BY <1>5, <3>2 DEF Moves
  <2>2. \A o \in Owner, j \in Job :
           j \in owner[o].jobs => job[j].owner = o /\ job[j].status # "absent"
    BY DEF IInv, Owners
  <2> QED
    BY <1>7, <1>9, <2>1, <2>2 DEF Owners
<1>12. \A j \in D : Told(j)'
  BY <1>6 DEF Told
<1> QED
  BY <1>1, <1>3, <1>5, <1>8, <1>10, <1>11, <1>12, QuietJobStep

-----------------------------------------------------------------------------
(* The tools' steps, one by one.                                           *)

\* A command goes to the background at once.
LEMMA BackgroundStep ==
    ASSUME IInv, NEW o \in Owner, NEW j \in Job, BashBackground(o, j)
    PROVE  IInv'
<1>1. /\ Start(j, o) /\ UNCHANGED <<resolvers, wait, call, killedByModel>>
      /\ Result({j}, {})
  BY DEF BashBackground
<1>2. Moves({}, {}, {j})
  BY <1>1, StartMoves
<1>3. Owners' /\ Service' /\ OnwardOnly
  BY <1>1, Started
<1>4. /\ Listener /\ heard \subseteq heard' /\ lost \subseteq lost'
      /\ known' \subseteq Job /\ heard' \subseteq Job /\ lost' \subseteq Job
  BY <1>1, ResultStep
<1>5. killedByModel' \subseteq Job /\ killedByModel' \subseteq heard' \cup lost'
  BY <1>1, <1>4 DEF IInv, TypeOK, Reports
<1> QED
  BY <1>1, <1>2, <1>3, <1>4, <1>5, CallJobStep

\* A foreground command starts its job and waits on it.
LEMMA ForegroundStep ==
    ASSUME IInv, NEW w \in Waiter, NEW o \in Owner, NEW j \in Job, BashForeground(w, o, j)
    PROVE  IInv'
<1>1. /\ Start(j, o) /\ BeginWait(w, j) /\ call[w].op = "idle"
      /\ call' = [call EXCEPT ![w] = [op |-> "bash", owner |-> o, job |-> j]]
      /\ UNCHANGED killedByModel /\ NoResult
  BY DEF BashForeground
<1>2. Moves({}, {}, {j})
  BY <1>1, StartMoves
<1>3. Owners' /\ Service' /\ OnwardOnly
  BY <1>1, Started
<1>4. call \in [Waiter -> CallType]
  BY DEF IInv, TypeOK, CallType
<1>5. /\ call' \in [Waiter -> CallType] /\ call'[w].op # "idle" /\ call'[w].job = j
      /\ \A v \in Waiter : v # w => call'[v] = call[v]
  BY <1>1, <1>4 DEF CallType
<1>6. wait[w].state \notin {"waiting", "settled"}
  BY <1>1 DEF IInv, Calls, NoWait
<1> QED
  BY <1>1, <1>2, <1>3, <1>5, <1>6, WaitingStep

\* job_output waits first.
LEMMA OutputWaitStep ==
    ASSUME IInv, NEW w \in Waiter, NEW o \in Owner, NEW j \in Job, JobOutputWait(w, o, j)
    PROVE  IInv'
<1>1. /\ BeginWait(w, j) /\ call[w].op = "idle" /\ UNCHANGED <<job, owner, service>>
      /\ call' = [call EXCEPT ![w] = [op |-> "output", owner |-> o, job |-> j]]
      /\ UNCHANGED killedByModel /\ NoResult
  BY DEF JobOutputWait
<1>2. Moves({}, {}, {})
  BY <1>1, NoMoves
<1>3. Owners' /\ Service' /\ OnwardOnly
  BY <1>1, <1>2, OwnersKept, ServiceKept, Staying
<1>4. call \in [Waiter -> CallType]
  BY DEF IInv, TypeOK, CallType
<1>5. /\ call' \in [Waiter -> CallType] /\ call'[w].op # "idle" /\ call'[w].job = j
      /\ \A v \in Waiter : v # w => call'[v] = call[v]
  BY <1>1, <1>4 DEF CallType
<1>6. wait[w].state \notin {"waiting", "settled"}
  BY <1>1 DEF IInv, Calls, NoWait
<1> QED
  BY <1>1, <1>2, <1>3, <1>5, <1>6, WaitingStep

\* job_list, job_output without a wait, and job_kill.
LEMMA JobToolStep ==
    ASSUME IInv, NEW o \in Owner,
           JobList(o) \/ \E j \in Job : JobOutput(o, j) \/ JobKill(o, j)
    PROVE  IInv'
<1> SUFFICES ASSUME NEW ids \in SUBSET Job, NEW ends \in SUBSET Job, Result(ids, ends),
                    Moves({}, {}, {}), UNCHANGED <<wait, resolvers, call, owner, service>>,
                    killedByModel' \subseteq killedByModel \cup ends
             PROVE  IInv'
  <2>1. CASE JobList(o)
    <3>1. UNCHANGED <<regVars, call, killedByModel>>
      BY <2>1 DEF JobList
    <3>2. Moves({}, {}, {})
      BY <3>1, NoMoves DEF regVars
    <3> QED
      BY <2>1, <3>1, <3>2 DEF JobList, regVars
  <2>2. ASSUME NEW j \in Job, JobOutput(o, j)
        PROVE  IInv'
    <3>1. /\ UNCHANGED <<resolvers, wait, owner, service, call, killedByModel>>
          /\ job' = [job EXCEPT ![j] = Consumed(@)]
          /\ Result({j}, {j} \cap {k \in Job : IsTerminal(k)})
      BY <2>2 DEF JobOutput, Collect
    <3> DEFINE r == Consumed(job[j])
    <3>2. /\ Plain(r) /\ r.status = job[j].status /\ r.cause = job[j].cause
          /\ r.stored = job[j].stored /\ r.owner = job[j].owner
      BY PlainRecords, ConsumedRecord
    <3>3. job' = [job EXCEPT ![j] = r]
      BY <3>1
    <3> HIDE DEF r
    <3>4. Moves({}, {}, {})
      BY <3>2, <3>3, OneMoves DEF IsTerminal, IsLive
    <3> QED
      BY <3>1, <3>4
  <2>3. ASSUME NEW j \in Job, JobKill(o, j)
        PROVE  IInv'
    <3>1. UNCHANGED call /\ Result({j}, {j}) /\ killedByModel' \subseteq killedByModel \cup {j}
      BY <2>3 DEF JobKill
    <3>2. CASE Kill(j)
      <4>1. Moves({}, {}, {}) /\ UNCHANGED <<resolvers, wait, owner, service>>
        BY <3>2, KillMoves DEF Kill
      <4> QED
        BY <3>1, <4>1
    <3>3. CASE ~Kill(j)
      <4>1. UNCHANGED regVars
        BY <2>3, <3>3 DEF JobKill
      <4>2. Moves({}, {}, {})
        BY <4>1, NoMoves DEF regVars
      <4> QED
        BY <3>1, <4>1, <4>2 DEF regVars
    <3> QED
      BY <3>2, <3>3
  <2> QED
    BY <2>1, <2>2, <2>3
<1>1. Owners' /\ Service' /\ OnwardOnly
  BY OwnersKept, ServiceKept, Staying
<1>2. /\ Listener /\ heard \subseteq heard' /\ lost \subseteq lost'
      /\ ends \subseteq heard' \cup lost'
      /\ known' \subseteq Job /\ heard' \subseteq Job /\ lost' \subseteq Job
  BY ResultStep
<1>3. killedByModel' \subseteq Job /\ killedByModel' \subseteq heard' \cup lost'
  BY <1>2 DEF IInv, TypeOK, Reports
<1> QED
  BY <1>1, <1>2, <1>3, CallJobStep

\* A foreground command returns its outcome and leaves the table.
LEMMA BashSettledStep ==
    ASSUME IInv, NEW w \in Waiter, BashSettled(w)
    PROVE  IInv'
<1> DEFINE j == call[w].job
           D == {j} \cap {k \in Job : job[k].stored}
<1>1. /\ call[w].op = "bash" /\ wait[w].state \in {"settled", "timeout"}
      /\ IsTerminal(j) /\ Drop(D) /\ EndCall(w)
      /\ killedByModel' = killedByModel \ {j}
      /\ UNCHANGED <<resolvers, owner, service>> /\ Result({}, {j})
  BY DEF BashSettled, Returned
<1>2. j \in Job
  BY <1>1 DEF IInv, Calls, NoCall
<1>3. D \in SUBSET Job /\ D \subseteq {j}
  BY <1>2
<1> HIDE DEF D
<1>4. Moves({}, D, {})
  BY <1>1, <1>3, DropMoves
<1>5. /\ Listener /\ heard \subseteq heard' /\ lost \subseteq lost' /\ j \in heard' \cup lost'
      /\ known' \subseteq Job /\ heard' \subseteq Job /\ lost' \subseteq Job
  <2>1. {} \in SUBSET Job /\ {j} \in SUBSET Job
    BY <1>2
  <2> QED
    BY <1>1, <2>1, ResultStep
<1>6. D \subseteq heard' \cup lost' /\ killedByModel' \subseteq killedByModel
  BY <1>1, <1>3, <1>5
<1>7. Returns(w, D)
  BY <1>1, <1>3, <1>4, <1>5, <1>6 DEF Returns
<1> QED
  BY <1>3, <1>7, ReturningStep

\* Its wait timed out: the job moves to the background.
LEMMA BashPromotedStep ==
    ASSUME IInv, NEW w \in Waiter, BashPromoted(w)
    PROVE  IInv'
<1> DEFINE j == call[w].job
<1>1. /\ call[w].op = "bash" /\ wait[w].state = "timeout"
      /\ job' = [job EXCEPT ![j] = Consumed(@)] /\ EndCall(w)
      /\ UNCHANGED <<resolvers, owner, service, killedByModel>> /\ Result({j}, {})
  BY DEF BashPromoted, Returned
<1>2. j \in Job
  BY <1>1 DEF IInv, Calls, NoCall
<1> DEFINE r == Consumed(job[j])
<1>3. /\ Plain(r) /\ r.status = job[j].status /\ r.cause = job[j].cause
      /\ r.stored = job[j].stored /\ r.owner = job[j].owner
  BY <1>2, PlainRecords, ConsumedRecord
<1>4. job' = [job EXCEPT ![j] = r]
  BY <1>1
<1> HIDE DEF r
<1>5. Moves({}, {}, {})
  BY <1>2, <1>3, <1>4, OneMoves DEF IsTerminal, IsLive
<1>6. /\ Listener /\ heard \subseteq heard' /\ lost \subseteq lost'
      /\ known' \subseteq Job /\ heard' \subseteq Job /\ lost' \subseteq Job
  <2>1. {} \in SUBSET Job /\ {j} \in SUBSET Job
    BY <1>2
  <2> QED
    BY <1>1, <2>1, ResultStep
<1>7. Returns(w, {})
  BY <1>1, <1>5, <1>6 DEF Returns
<1> QED
  BY <1>7, ReturningStep

\* An aborted command is stopped: killed and waited for once more, or given up.
LEMMA BashStopStep ==
    ASSUME IInv, NEW w \in Waiter, BashStop(w)
    PROVE  IInv'
<1> DEFINE j == call[w].job
<1>1. /\ call[w].op = "bash" /\ wait[w].state \in {"aborted", "timeout"}
      /\ UNCHANGED <<owner, service, killedByModel>> /\ NoResult
  BY DEF BashStop, Returned
<1>2. j \in Job
  BY <1>1 DEF IInv, Calls, NoCall
<1>3. CASE /\ job' = IF IsLive(j) THEN [job EXCEPT ![j] = Killed(@)] ELSE job
           /\ BeginWait(w, j) /\ call' = [call EXCEPT ![w].op = "stop"]
  <2>1. Moves({}, {}, {})
    <3>1. CASE IsLive(j)
      <4>1. job' = [job EXCEPT ![j] = Killed(@)]
        BY <1>3, <3>1
      <4> QED
        BY <1>2, <3>1, <4>1, KillMoves
    <3>2. CASE ~IsLive(j)
      BY <1>3, <3>2, NoMoves
    <3> QED
      BY <3>1, <3>2
  <2>2. Owners' /\ Service' /\ OnwardOnly
    BY <1>1, <2>1, OwnersKept, ServiceKept, Staying
  <2>3. call \in [Waiter -> CallType]
    BY DEF IInv, TypeOK, CallType
  <2>4. /\ call' \in [Waiter -> CallType] /\ call'[w].op # "idle" /\ call'[w].job = j
        /\ \A v \in Waiter : v # w => call'[v] = call[v]
    BY <1>3, <2>3 DEF CallType
  <2>5. wait[w].state \notin {"waiting", "settled"} /\ BeginWait(w, j)
    BY <1>1, <1>3
  <2> HIDE DEF j
  <2> QED
    BY <1>1, <1>2, <2>1, <2>2, <2>4, <2>5, WaitingStep
<1>4. CASE EndCall(w) /\ UNCHANGED <<job, resolvers>>
  <2>1. Moves({}, {}, {})
    BY <1>4, NoMoves
  <2>2. Listener /\ UNCHANGED <<known, heard, lost>>
    BY <1>1 DEF NoResult
  <2>3. known \subseteq Job /\ heard \subseteq Job /\ lost \subseteq Job
    BY DEF IInv, TypeOK
  <2>4. Returns(w, {})
    BY <1>1, <1>4, <2>1, <2>2, <2>3 DEF Returns
  <2> QED
    BY <2>4, ReturningStep
<1> QED
  BY <1>3, <1>4 DEF BashStop

\* The second wait is over: a settled job is removed with the result.
LEMMA BashStoppedStep ==
    ASSUME IInv, NEW w \in Waiter, BashStopped(w)
    PROVE  IInv'
<1> DEFINE j == call[w].job
           D == {k \in {j} : job[k].stored /\ IsTerminal(k)}
<1>1. /\ call[w].op = "stop" /\ wait[w].state \in {"settled", "timeout"}
      /\ Drop(D) /\ EndCall(w) /\ killedByModel' = killedByModel \ Removed
      /\ heard' = heard \cup {k \in {j} : IsTerminal(k)}
      /\ UNCHANGED <<resolvers, owner, service, known, lost>> /\ Listener
  BY DEF BashStopped, Returned
<1>2. j \in Job
  BY <1>1 DEF IInv, Calls, NoCall
<1>3. /\ D \in SUBSET Job /\ \A k \in D : IsTerminal(k)
      /\ D \subseteq heard'
      /\ \A k \in Job : call[w].job = k /\ IsTerminal(k) => k \in heard'
  BY <1>1, <1>2
<1>4. heard \subseteq heard' /\ lost' = lost /\ known' \subseteq Job /\ heard' \subseteq Job
      /\ lost' \subseteq Job /\ killedByModel' \subseteq killedByModel
  BY <1>1, <1>2 DEF IInv, TypeOK
<1> HIDE DEF D
<1>5. Moves({}, D, {})
  BY <1>1, <1>3, DropMoves
<1>6. Returns(w, D)
  BY <1>1, <1>3, <1>4, <1>5 DEF Returns
<1> QED
  BY <1>3, <1>6, ReturningStep

\* job_output reads after its wait, or fails.
LEMMA OutputReturnStep ==
    ASSUME IInv, NEW w \in Waiter, JobOutputRead(w) \/ JobOutputFails(w)
    PROVE  IInv'
<1> DEFINE j == call[w].job
<1>1. /\ call[w].op = "output" /\ wait[w].state \in {"settled", "timeout", "aborted"}
      /\ EndCall(w) /\ UNCHANGED <<resolvers, owner, service, killedByModel>>
  BY DEF JobOutputRead, JobOutputFails, Returned
<1>2. j \in Job
  BY <1>1 DEF IInv, Calls, NoCall
<1>3. CASE JobOutputRead(w)
  <2> DEFINE r == Consumed(job[j])
             ends == {j} \cap {k \in Job : IsTerminal(k)}
  <2>1. job' = [job EXCEPT ![j] = Consumed(@)] /\ Result({j}, ends)
    BY <1>3 DEF JobOutputRead, Collect
  <2>2. /\ Plain(r) /\ r.status = job[j].status /\ r.cause = job[j].cause
        /\ r.stored = job[j].stored /\ r.owner = job[j].owner
    BY <1>2, PlainRecords, ConsumedRecord
  <2>3. job' = [job EXCEPT ![j] = r]
    BY <2>1
  <2> HIDE DEF r
  <2>4. Moves({}, {}, {})
    BY <1>2, <2>2, <2>3, OneMoves DEF IsTerminal, IsLive
  <2>5. /\ ends \in SUBSET Job /\ {j} \in SUBSET Job
        /\ \A k \in Job : call[w].job = k /\ IsTerminal(k) => k \in ends
    BY <1>2
  <2> HIDE DEF ends
  <2>6. /\ Listener /\ heard \subseteq heard' /\ lost \subseteq lost'
        /\ ends \subseteq heard' \cup lost'
        /\ known' \subseteq Job /\ heard' \subseteq Job /\ lost' \subseteq Job
    BY <2>1, <2>5, ResultStep
  <2>7. Returns(w, {})
    BY <1>1, <2>4, <2>5, <2>6 DEF Returns
  <2> QED
    BY <2>7, ReturningStep
<1>4. CASE JobOutputFails(w)
  <2>1. /\ UNCHANGED job /\ NoResult
        /\ wait[w].state = "settled" => ~job[j].stored
    BY <1>4 DEF JobOutputFails
  <2>2. Moves({}, {}, {})
    BY <2>1, NoMoves
  <2>3. Listener /\ UNCHANGED <<known, heard, lost>>
    BY <2>1 DEF NoResult
  <2>4. known \subseteq Job /\ heard \subseteq Job /\ lost \subseteq Job
    BY DEF IInv, TypeOK
  <2>5. Returns(w, {})
    BY <1>1, <2>1, <2>2, <2>3, <2>4 DEF Returns
  <2> QED
    BY <2>5, ReturningStep
<1> QED
  BY <1>3, <1>4

-----------------------------------------------------------------------------
(* Theorems.                                                               *)

\* A registry without jobs and tools without calls.
LEMMA ToolsInit ==
    ASSUME Init
    PROVE  IInv
<1>1. Absent \in Record /\ Absent.status = "absent" /\ ~Absent.stored
      /\ Absent.ring = EmptyRing /\ Absent.source = 0 /\ Absent.cursor = 0
  <2>1. EmptyRing \in [starts : Seq(Nat), total : Nat]
    BY DEF EmptyRing
  <2> QED
    BY <2>1 DEF Absent, Record, Live, Terminal, Cause
<1>2. TypeOK
  <2>1. NoWait \in WaitType /\ NoCall \in CallType
    BY DEF NoWait, WaitType, NoCall, CallType
  <2>2. [state |-> "live", cleanup |-> FALSE, jobs |-> {}] \in OwnerType
        /\ [state |-> "live", jobs |-> {}] \in ServiceType
    BY DEF OwnerType, ServiceType
  <2>3. RegTypeOK
    BY <1>1, <2>1, <2>2 DEF Init, RegInit, RegTypeOK, WaitType, OwnerType, ServiceType
  <2> QED
    BY <2>1, <2>3 DEF Init, TypeOK, CallType
<1>3. \A j \in Job : ~IsLive(j) /\ ~IsTerminal(j) /\ ~job[j].stored
  BY <1>1 DEF Init, RegInit, IsLive, IsTerminal, Live, Terminal
<1>4. Jobs
  BY <1>1, <1>3 DEF Jobs, Init, RegInit
<1>5. Waits /\ Calls
  <2>1. NoWait.state = "free"
    BY DEF NoWait
  <2> QED
    BY <2>1 DEF Waits, Calls, Init, RegInit
<1>6. Owners /\ Service
  BY <1>3 DEF Owners, Service, Init, RegInit
<1>7. Reports
  BY <1>3 DEF Reports, Init
<1> QED
  BY <1>2, <1>4, <1>5, <1>6, <1>7 DEF IInv

\* Every step of the tools and the registry preserves the invariant.
LEMMA ToolsStep ==
    ASSUME IInv, [Next]_vars
    PROVE  IInv'
<1>1. CASE UNCHANGED vars
  BY <1>1 DEF vars, regVars, IInv, TypeOK, RegTypeOK, Jobs, Waits, Calls, Owners, Service,
              Reports, Told, IsLive, IsTerminal
<1>2. ASSUME NEW o \in Owner, JobList(o) PROVE IInv'
  BY <1>2, JobToolStep
<1>3. ASSUME NEW o \in Owner, NEW j \in Job, CallStep(o, j) PROVE IInv'
  BY <1>3, BackgroundStep, OtherStartStep, JobToolStep, ForegroundStep, OutputWaitStep
     DEF CallStep
<1>4. ASSUME NEW w \in Waiter, CallReturns(w) PROVE IInv'
  BY <1>4, BashSettledStep, BashPromotedStep, BashStopStep, BashStoppedStep, OutputReturnStep
     DEF CallReturns, BashStep
<1>5. ASSUME NEW w \in Waiter, Deadline(w) PROVE IInv'
  BY <1>5, WaitOverStep DEF Deadline
<1>6. ASSUME NEW j \in Job, HumanKill(j) PROVE IInv'
  BY <1>6, KillStep
<1>7. CASE RegistryStep /\ Quiet
  <2>1. ASSUME NEW j \in Job, Runs(j) PROVE IInv'
    BY <1>7, <2>1, PumpStep, SettleStep DEF Runs
  <2>2. ASSUME NEW o \in Owner, Unload(o) \/ OwnerCleanup(o) \/ OwnerDropped(o) PROVE IInv'
    BY <1>7, <2>2, UnloadStep, CleanupStep, OwnerDroppedStep DEF Unload
  <2>3. CASE UnloadService \/ ServiceDropped
    BY <1>7, <2>3, UnloadServiceStep, ServiceDroppedStep
  <2>4. ASSUME NEW w \in Waiter, WaitAbort(w) PROVE IInv'
    BY <1>7, <2>4, WaitOverStep
  <2> QED
    BY <1>7, <2>1, <2>2, <2>3, <2>4 DEF RegistryStep
<1> QED
  BY <1>1, <1>2, <1>3, <1>4, <1>5, <1>6, <1>7 DEF Next

(* The inductive invariant holds in every reachable state.                 *)
THEOREM ToolsInvariant == Spec => []IInv
<1>1. Init => IInv
  BY ToolsInit
<1>2. IInv /\ [Next]_vars => IInv'
  BY ToolsStep
<1> QED
  BY <1>1, <1>2, PTL DEF Spec

(* The variables of the registry and of the tools keep their types.        *)
THEOREM ToolsTypes == Spec => []TypeOK
<1>1. IInv => TypeOK
  BY DEF IInv
<1> QED
  BY <1>1, ToolsInvariant, PTL

(* No teardown leaves a job behind, or a caller of wait: what an owner's   *)
(* cleanup or the registry's did not collect can no longer start.          *)
(* (ensureOwnerCleanup, disposeOwned, disposeAll)                          *)
THEOREM TeardownIsComplete == Spec => []TeardownLeavesNothing
<1>1. ASSUME IInv PROVE TeardownLeavesNothing
  <2>1. ASSUME NEW o \in Owner, owner[o].state = "gone" PROVE Stored(o) = {}
    BY <1>1, <2>1 DEF IInv, Owners, Stored
  <2>2. ASSUME service.state = "gone", NEW j \in Job PROVE ~job[j].stored
    BY <1>1, <2>2 DEF IInv, Service
  <2>3. ASSUME service.state = "gone", NEW w \in Waiter, wait[w].state = "waiting" PROVE FALSE
    <3>1. wait[w].job \in Job
      BY <1>1, <2>3 DEF IInv, Calls, NoWait
    <3>2. job[wait[w].job].stored
      BY <1>1, <2>3, <3>1 DEF IInv, Waits, Jobs
    <3> QED
      BY <2>2, <2>3, <3>1, <3>2
  <2> QED
    BY <2>1, <2>2, <2>3 DEF TeardownLeavesNothing
<1> QED
  BY <1>1, ToolsInvariant, PTL

(* The end of a job whose id the model was given is accounted for: by a    *)
(* notice, by a result that told of it or of a kill, by a call about to    *)
(* return, or by an abort that replaced the result - whoever waited for    *)
(* it, killed it or aborted. Ends forced by a teardown are not covered.    *)
(* (the listener of tool-jobs, settle's awaited flag)                      *)
THEOREM CompletionsAreTold == Spec => []NoSilentCompletion
<1>1. ASSUME IInv PROVE NoSilentCompletion
  <2>1. ASSUME NEW j \in known, Unreported(j) PROVE j \in lost
    <3>1. j \in Job
      BY <1>1 DEF IInv, TypeOK
    <3>2. /\ IsTerminal(j) /\ job[j].cause # "teardown"
          /\ owner[job[j].owner].state # "gone" /\ service.state = "live"
          /\ j \notin noticed \cup heard
          /\ ~\E w \in Waiter : call[w].job = j
      BY <2>1 DEF Unreported
    <3>3. Told(j)
      BY <1>1, <3>1, <3>2 DEF IInv, Reports
    <3> QED
      BY <3>2, <3>3 DEF Told
  <2> QED
    BY <2>1 DEF NoSilentCompletion
<1> QED
  BY <1>1, ToolsInvariant, PTL
=============================================================================
