------------------------- MODULE SessionHandleProofs -------------------------
(***************************************************************************)
(* What is proved of the write handles of a session, for every number of   *)
(* handles, instances, events, failures and crashes.                       *)
(*                                                                         *)
(* The invariant speaks of one handle's chain and events, of what its      *)
(* holder of the lock knows of the file, and of what callers were told.    *)
(* The last two need that nothing runs on once a close frees the lock, and *)
(* that a failed append leaves nothing of its batch: those theorems assume *)
(* LateTimer, LateProducer and LeftBytes away. The code has all three, and *)
(* a run shows what the first does.                                        *)
(***************************************************************************)
EXTENDS SessionHandle, SequenceTheorems, TLAPS

-----------------------------------------------------------------------------
(* The invariant, in parts.                                                *)

\* A handle as a record. TypeOK says which values the fields have, not that
\* they are the fields.
HandleRecord ==
  [phase : {"unused", "creating", "claimed", "locked", "open", "closed", "dead"},
   home : Instance \cup {None},
   memory : Log, view : Log,
   life : {"setup", "storing", "live", "failed"},
   materialized : BOOLEAN,
   torn : BOOLEAN, tornAt : 0 .. MaxEvent, tail : Log,
   lease : {"none", "held", "released"},
   queue : Seq(Op), stage : {"idle", "lease", "truncate", "tail", "batch"},
   buffered : Log, timer : BOOLEAN, paused : BOOLEAN, draining : BOOLEAN,
   closing : {"no", "draining", "settling", "last", "releasing", "freed"},
   await : 0 .. 3, failed : BOOLEAN,
   barrier : {"none", "draining", "flushing"}, mark : 0 .. MaxEvent]

\* The chain holds the suffix of a setup, or a flush, or the one drain, or both.
\* What waits in the buffer has a drain; a close that waits for the chain waits
\* for an operation that is no drain.
Chain(r) ==
  /\ Len(r.queue) <= 2
  /\ Len(r.queue) = 2 => r.queue[1].kind = "flush" /\ r.queue[2].kind = "drain"
  /\ r.draining <=> r.queue # <<>> /\ r.queue[Len(r.queue)].kind = "drain"
  /\ r.barrier = "flushing" <=> r.queue # <<>> /\ r.queue[1].kind = "flush"
  /\ r.life = "storing" <=> r.queue # <<>> /\ r.queue[1].kind = "append"
  /\ r.life # "live" => r.buffered = <<>> /\ ~r.draining /\ r.barrier = "none"
  /\ r.stage # "idle" => r.queue # <<>>
  /\ r.barrier = "draining" => r.draining

Closing(r) ==
  /\ r.closing = "draining" => r.draining
  /\ r.closing = "settling" => r.await = 1 /\ r.queue # <<>> /\ r.queue[1].kind # "drain"
  /\ r.closing # "settling" => r.await = 0
  /\ r.closing # "last"

\* A handle that is not open yet, or is lost, has done nothing.
Unopened(r) ==
  r.phase \notin {"open", "closed"} =>
    /\ r.queue = <<>> /\ r.stage = "idle" /\ r.closing = "no" /\ r.life = "setup"
    /\ r.memory = <<>> /\ r.view = <<>> /\ r.buffered = <<>>

Started(r) == r.stage # "idle" /\ Head(r.queue).kind = "drain"

\* Operations as they are queued, and as the first one is once it has started.
Batches(r) ==
  /\ \A n \in 1 .. Len(r.queue) :
        LET op == r.queue[n]
        IN  /\ op.kind = "flush" => op.batch = <<>>
            /\ op.kind = "drain" /\ (n = 1 => r.stage = "idle") => op.batch = <<>>
            /\ op.kind = "append" => op.batch # <<>>
            /\ op.last => op.kind = "append"
  /\ r.draining /\ ~Started(r) => r.buffered # <<>>
  /\ Started(r) => Head(r.queue).batch # <<>>

Chained(r) == Chain(r) /\ Closing(r) /\ Unopened(r) /\ Batches(r)

\* The log as a reader takes it: every event in its place.
Numbered(s) == \A n \in 1 .. Len(s) : s[n].seq = n

\* s holds the events of m from position n + 1 on.
Slice(s, m, n) == n + Len(s) <= Len(m) /\ \A k \in 1 .. Len(s) : s[k] = m[n + k]

\* The last events of m.
Ending(s, m) == Len(s) <= Len(m) /\ Slice(s, m, Len(m) - Len(s))

\* The operation passed the check of its cursor.
InWrite(r) == r.stage \in {"truncate", "tail", "batch"}

\* The events a drain has taken out of the buffer; none while it is only queued.
Carried(r) ==
  IF r.queue # <<>> /\ Head(r.queue).kind = "drain" THEN Head(r.queue).batch ELSE <<>>

\* The pieces a session's events are in: stored, taken by a drain, buffered.
\* An operation that passed the check of its cursor continues what is stored.
Pieces(r) ==
  /\ Numbered(r.memory)
  /\ Slice(r.view, r.memory, 0)
  /\ Ending(Carried(r) \o r.buffered, r.memory)
  /\ r.queue # <<>> /\ Head(r.queue).kind = "append" =>
        Slice(Head(r.queue).batch, r.memory, Len(r.view))
  /\ InWrite(r) /\ Head(r.queue).kind # "flush" =>
        Slice(Head(r.queue).batch, r.memory, Len(r.view))

\* No event of a live session is missing, and a flush covers what is stored.
Held(r) ==
  /\ r.life = "live" => Len(r.memory) = Len(r.view) + Len(Carried(r) \o r.buffered)
  /\ r.queue # <<>> /\ Head(r.queue).last =>
        Len(r.memory) = Len(r.view) + Len(Head(r.queue).batch)
  /\ r.barrier = "flushing" => r.mark <= Len(r.view)
  /\ r.barrier = "draining" => r.mark <= Len(r.memory)

\* A handle as the steps leave it.
Good(r) ==
  r \in HandleRecord /\ Chained(r) /\ Pieces(r) /\ (~SetupRace => Held(r))

\* What a handle holds of the file belongs to how far it is.
Leased(r) ==
  /\ r.phase \in {"unused", "creating", "claimed", "dead"} => r.lease = "none"
  /\ r.phase = "locked" => r.lease = "held" /\ ~r.materialized
  /\ r.closing = "releasing" => r.lease = "held"
  /\ r.closing = "freed" => r.lease # "held"
  /\ r.phase = "closed" => r.closing = "freed"
  /\ r.lease = "released" => r.closing = "freed"
  /\ r.materialized => r.lease # "none"
  /\ ~r.materialized => r.view = <<>> /\ r.tail = <<>> /\ ~r.torn

\* Once a close frees the lock nothing runs on.
Quiet(r) ==
  r.closing \in {"releasing", "freed"} =>
    /\ r.queue = <<>> /\ r.stage = "idle"
    /\ r.life = "live" /\ ~r.failed => r.buffered = <<>>

\* What the holder of the lock knows of the file d: the log it has read is the
\* file's, and what it has still to repair.
Knows(r, d) ==
  /\ r.phase = "open" /\ r.lease = "held" /\ r.materialized =>
        /\ r.view = d.log \o r.tail
        /\ d.torn => r.torn /\ r.tail = d.rest
        /\ r.torn \/ r.tail # <<>> => r.tornAt = Len(d.log)
  /\ r.materialized \/ r.phase = "locked" => d.exists

\* Where the first operation of the chain may be.
Placed(r) ==
  /\ r.stage = "lease" => r.lease = "none"
  /\ InWrite(r) => r.phase = "open" /\ r.lease = "held"
  /\ r.stage = "truncate" => r.torn
  /\ r.stage = "tail" => ~r.torn /\ r.materialized
  /\ r.stage = "batch" => ~r.torn /\ r.tail = <<>>
  /\ r.stage # "idle" /\ Head(r.queue).kind = "flush" => ~r.materialized

\* The file: nothing before it exists, no records of a tail that is not torn, and
\* for a reader every event in its place.
File(d) ==
  /\ ~d.exists => d.log = <<>> /\ ~d.torn
  /\ ~d.torn => d.rest = <<>>
  /\ Numbered(d.log \o d.rest)

\* What a handle may do to the file is safe.
Between(r, d) == Leased(r) /\ Quiet(r) /\ Knows(r, d)
Sound(r, d) == Between(r, d) /\ Placed(r)

\* The records the holder of the lock has cut from the file and not written again.
Owed(r, d) == IF r.lease = "held" /\ ~d.torn THEN r.tail ELSE <<>>

\* A holder that has some is not done: its session has events that are not stored.
Unmended(r, d) == Owed(r, d) # <<>> => Len(r.view) < Len(r.memory)

\* The stored log with the records the holder of the lock has to write again.
Whole == Stored \o Mending

\* What callers were told is the beginning of it.
Promised == Slice(acked, Whole, 0)

\* Claims go to handles; the file is a record of its fields.
Claims == claim \in [Instance -> Handle \cup {None}]
Disk == disk \in [exists : BOOLEAN, log : Log, torn : BOOLEAN, rest : Log]

Types ==
  /\ Claims /\ Disk
  /\ lock \in Handle \cup {None}
  /\ acked \in Log
  /\ failures \in 0 .. MaxFailure /\ crashes \in 0 .. MaxCrash

\* No mark lies beyond the session's events.
Marked(r) == r.mark <= Len(r.memory) /\ r.tornAt <= Len(r.memory)

Local ==
  /\ Types /\ handle \in [Handle -> HandleRecord]
  /\ \A h \in Handle : Good(handle[h]) /\ Marked(handle[h])

Mended == \A h \in Handle : Unmended(handle[h], disk)

Exclusive ==
  /\ File(disk)
  /\ \A h \in Handle : Sound(handle[h], disk) /\ (lock = h <=> handle[h].lease = "held")

-----------------------------------------------------------------------------
Keeps(r, s) ==
  /\ s.phase = r.phase /\ s.home = r.home /\ s.memory = r.memory /\ s.view = r.view
  /\ s.materialized = r.materialized /\ s.torn = r.torn /\ s.tornAt = r.tornAt
  /\ s.tail = r.tail /\ s.lease = r.lease

\* One field of a handle changes.
LEMMA OneField ==
    ASSUME NEW r \in HandleRecord
    PROVE  /\ \A v \in BOOLEAN : /\ [r EXCEPT !.timer = v] \in HandleRecord
                                 /\ [r EXCEPT !.paused = v] \in HandleRecord
                                 /\ [r EXCEPT !.draining = v] \in HandleRecord
                                 /\ [r EXCEPT !.failed = v] \in HandleRecord
                                 /\ [r EXCEPT !.torn = v] \in HandleRecord
                                 /\ [r EXCEPT !.materialized = v] \in HandleRecord
           /\ \A v \in Log : /\ [r EXCEPT !.memory = v] \in HandleRecord
                             /\ [r EXCEPT !.view = v] \in HandleRecord
                             /\ [r EXCEPT !.tail = v] \in HandleRecord
                             /\ [r EXCEPT !.buffered = v] \in HandleRecord
           /\ \A v \in Seq(Op) : [r EXCEPT !.queue = v] \in HandleRecord
           /\ \A v \in {"idle", "lease", "truncate", "tail", "batch"} :
                 [r EXCEPT !.stage = v] \in HandleRecord
           /\ \A v \in {"no", "draining", "settling", "last", "releasing", "freed"} :
                 [r EXCEPT !.closing = v] \in HandleRecord
           /\ \A v \in {"none", "held", "released"} : [r EXCEPT !.lease = v] \in HandleRecord
           /\ \A v \in {"setup", "storing", "live", "failed"} :
                 [r EXCEPT !.life = v] \in HandleRecord
           /\ \A v \in {"none", "draining", "flushing"} :
                 [r EXCEPT !.barrier = v] \in HandleRecord
           /\ \A v \in 0 .. 3 : [r EXCEPT !.await = v] \in HandleRecord
           /\ \A v \in 0 .. MaxEvent : /\ [r EXCEPT !.mark = v] \in HandleRecord
                                       /\ [r EXCEPT !.tornAt = v] \in HandleRecord
           /\ \A v \in {"open", "closed", "locked"} : [r EXCEPT !.phase = v] \in HandleRecord
<1>1. \A v \in BOOLEAN : [r EXCEPT !.timer = v] \in HandleRecord
  BY Zenon DEF HandleRecord
<1>2. \A v \in BOOLEAN : [r EXCEPT !.paused = v] \in HandleRecord
  BY Zenon DEF HandleRecord
<1>3. \A v \in BOOLEAN : [r EXCEPT !.draining = v] \in HandleRecord
  BY Zenon DEF HandleRecord
<1>4. \A v \in BOOLEAN : [r EXCEPT !.failed = v] \in HandleRecord
  BY Zenon DEF HandleRecord
<1>5. \A v \in BOOLEAN : [r EXCEPT !.torn = v] \in HandleRecord
  BY Zenon DEF HandleRecord
<1>6. \A v \in BOOLEAN : [r EXCEPT !.materialized = v] \in HandleRecord
  BY Zenon DEF HandleRecord
<1>7. \A v \in Log : [r EXCEPT !.memory = v] \in HandleRecord
  BY Zenon DEF HandleRecord
<1>8. \A v \in Log : [r EXCEPT !.view = v] \in HandleRecord
  BY Zenon DEF HandleRecord
<1>9. \A v \in Log : [r EXCEPT !.tail = v] \in HandleRecord
  BY Zenon DEF HandleRecord
<1>10. \A v \in Log : [r EXCEPT !.buffered = v] \in HandleRecord
  BY Zenon DEF HandleRecord
<1>11. \A v \in Seq(Op) : [r EXCEPT !.queue = v] \in HandleRecord
  BY Zenon DEF HandleRecord
<1>12. \A v \in {"idle", "lease", "truncate", "tail", "batch"} :
         [r EXCEPT !.stage = v] \in HandleRecord
  BY Zenon DEF HandleRecord
<1>13. \A v \in {"no", "draining", "settling", "last", "releasing", "freed"} :
         [r EXCEPT !.closing = v] \in HandleRecord
  BY Zenon DEF HandleRecord
<1>14. \A v \in {"none", "held", "released"} : [r EXCEPT !.lease = v] \in HandleRecord
  BY Zenon DEF HandleRecord
<1>15. \A v \in {"setup", "storing", "live", "failed"} : [r EXCEPT !.life = v] \in HandleRecord
  BY Zenon DEF HandleRecord
<1>16. \A v \in {"none", "draining", "flushing"} : [r EXCEPT !.barrier = v] \in HandleRecord
  BY Zenon DEF HandleRecord
<1>17. \A v \in 0 .. 3 : [r EXCEPT !.await = v] \in HandleRecord
  BY Zenon DEF HandleRecord
<1>18. \A v \in 0 .. MaxEvent : [r EXCEPT !.mark = v] \in HandleRecord
  BY Zenon DEF HandleRecord
<1>19. \A v \in 0 .. MaxEvent : [r EXCEPT !.tornAt = v] \in HandleRecord
  BY Zenon DEF HandleRecord
<1>20. \A v \in {"open", "closed", "locked"} : [r EXCEPT !.phase = v] \in HandleRecord
  BY Zenon DEF HandleRecord
<1> QED
  BY Zenon, <1>1, <1>2, <1>3, <1>4, <1>5, <1>6, <1>7, <1>8, <1>9, <1>10,
     <1>11, <1>12, <1>13, <1>14, <1>15, <1>16, <1>17, <1>18, <1>19, <1>20

\* The chain of a handle.
LEMMA ChainFields ==
    ASSUME NEW r \in HandleRecord
    PROVE  /\ r.queue \in Seq(Op) /\ Len(r.queue) \in Nat /\ r.await \in 0 .. 3
           /\ r.draining \in BOOLEAN /\ r.failed \in BOOLEAN
           /\ r.buffered \in Log /\ r.buffered \in Seq(Event)
<1>1. /\ r.queue \in Seq(Op) /\ r.await \in 0 .. 3 /\ r.buffered \in Log
      /\ r.draining \in BOOLEAN /\ r.failed \in BOOLEAN
  BY Zenon DEF HandleRecord
<1> QED
  BY <1>1 DEF Log

\* The events of a handle.
LEMMA EventFields ==
    ASSUME NEW r \in HandleRecord
    PROVE  /\ r.memory \in Log /\ r.view \in Log /\ r.tail \in Log /\ r.buffered \in Log
           /\ r.memory \in Seq(Event) /\ r.view \in Seq(Event) /\ r.buffered \in Seq(Event)
           /\ r.tail \in Seq(Event)
           /\ r.mark \in 0 .. MaxEvent /\ r.tornAt \in 0 .. MaxEvent
<1>1. /\ r.memory \in Log /\ r.view \in Log /\ r.tail \in Log /\ r.buffered \in Log
      /\ r.mark \in 0 .. MaxEvent /\ r.tornAt \in 0 .. MaxEvent
  BY Zenon DEF HandleRecord
<1> QED
  BY <1>1 DEF Log

\* How far a handle is.
LEMMA StateFields ==
    ASSUME NEW r \in HandleRecord
    PROVE  /\ r.closing \in {"no", "draining", "settling", "last", "releasing", "freed"}
           /\ r.barrier \in {"none", "draining", "flushing"}
           /\ r.life \in {"setup", "storing", "live", "failed"}
           /\ r.lease \in {"none", "held", "released"}
           /\ r.stage \in {"idle", "lease", "truncate", "tail", "batch"}
           /\ r.phase \in {"unused", "creating", "claimed", "locked", "open", "closed", "dead"}
           /\ r.home \in Instance \cup {None}
           /\ r.materialized \in BOOLEAN /\ r.torn \in BOOLEAN
           /\ r.timer \in BOOLEAN /\ r.paused \in BOOLEAN
  BY Zenon DEF HandleRecord

\* A chain is short enough to wait for.
LEMMA Awaited == \A n \in Nat : n <= 2 => n \in 0 .. 3
  OBVIOUS

\* The two operations the chain makes of itself.
LEMMA Operations ==
    /\ Drain \in Op /\ Drain.kind = "drain" /\ Drain.batch = <<>> /\ ~Drain.last
    /\ Flush \in Op /\ Flush.kind = "flush" /\ Flush.batch = <<>> /\ ~Flush.last
    /\ \A op \in Op : /\ op.kind \in {"append", "flush", "drain"}
                      /\ op.batch \in Log /\ op.batch \in Seq(Event) /\ op.last \in BOOLEAN
  BY DEF Drain, Flush, Operation, Op, Log

\* drainLive starts a drain of what is buffered, unless one is running.
LEMMA DrainLiveFields ==
    ASSUME NEW r \in HandleRecord
    PROVE  LET d == DrainLive(r)
           IN  /\ d \in HandleRecord /\ Keeps(r, d)
               /\ d.life = r.life /\ d.stage = r.stage /\ d.buffered = r.buffered
               /\ d.closing = r.closing /\ d.await = r.await /\ d.failed = r.failed
               /\ d.barrier = r.barrier /\ d.mark = r.mark
               /\ d.draining <=> r.draining \/ r.buffered # <<>>
               /\ d.queue = IF r.draining \/ r.buffered = <<>> THEN r.queue
                            ELSE Append(r.queue, Drain)
<1> DEFINE q == IF r.buffered = <<>> THEN r.queue ELSE Append(r.queue, Drain)
           b == r.buffered # <<>>
           d == DrainLive(r)
<1>1. q \in Seq(Op) /\ b \in BOOLEAN
  BY Operations, ChainFields
<1>2. CASE r.draining
  BY <1>2 DEF DrainLive, Keeps
<1>3. CASE ~r.draining
  <2>1. q = (IF r.draining \/ r.buffered = <<>> THEN r.queue ELSE Append(r.queue, Drain))
    BY <1>3
  <2>2. b <=> r.buffered # <<>>
    OBVIOUS
  <2>3. d = [r EXCEPT !.timer = FALSE, !.paused = FALSE, !.draining = b, !.queue = q]
    BY Zenon, <1>3 DEF DrainLive
  <2> HIDE DEF q, b, d
  <2>4. d \in HandleRecord
    <3>1. [r EXCEPT !.timer = FALSE] \in HandleRecord
      BY OneField
    <3>2. [r EXCEPT !.timer = FALSE, !.paused = FALSE] \in HandleRecord
      BY <3>1, OneField
    <3>3. [r EXCEPT !.timer = FALSE, !.paused = FALSE, !.draining = b] \in HandleRecord
      BY <1>1, <3>2, OneField
    <3> QED
      BY <1>1, <2>3, <3>3, OneField
  <2>5. /\ Keeps(r, d)
        /\ d.life = r.life /\ d.stage = r.stage /\ d.buffered = r.buffered
        /\ d.closing = r.closing /\ d.await = r.await /\ d.failed = r.failed
        /\ d.barrier = r.barrier /\ d.mark = r.mark /\ d.queue = q /\ d.draining = b
    BY ZenonT(60), <2>3 DEF Keeps, HandleRecord
  <2>6. d = DrainLive(r)
    BY DEF d
  <2> QED
    BY <1>3, <2>1, <2>2, <2>4, <2>5, <2>6
<1> QED
  BY <1>2, <1>3

\* What Resume, the await of a drain, leaves in the handle.
LEMMA ResumeFields ==
    ASSUME NEW r \in HandleRecord, NEW ok \in BOOLEAN, ~r.draining, Len(r.queue) <= 2
    PROVE  LET d == Resume(r, ok)
               toFlush == r.barrier = "draining" /\ ok /\ r.closing = "no"
           IN  /\ d \in HandleRecord /\ Keeps(r, d)
               /\ d.life = r.life /\ d.stage = r.stage /\ d.buffered = r.buffered
               /\ d.draining = r.draining /\ d.mark = r.mark
               /\ d.queue = (IF toFlush THEN Append(r.queue, Flush) ELSE r.queue)
               /\ d.barrier = (IF r.barrier # "draining" THEN r.barrier
                               ELSE IF toFlush THEN "flushing" ELSE "none")
               /\ r.closing # "draining" =>
                     d.closing = r.closing /\ d.await = r.await /\ d.failed = r.failed
               /\ r.closing = "draining" =>
                     /\ d.closing = (IF ok THEN "settling" ELSE "last")
                     /\ d.await = Len(r.queue) /\ (~ok => d.failed)
                     /\ (ok => d.failed = r.failed)
<1> DEFINE toClose == r.closing = "draining"
           toFlush == r.barrier = "draining" /\ ok /\ r.closing = "no"
           a == IF toClose THEN Len(r.queue) ELSE r.await
           f == r.failed \/ (toClose /\ ~ok)
           c == IF toClose THEN (IF ok THEN "settling" ELSE "last") ELSE r.closing
           q == IF toFlush THEN Append(r.queue, Flush) ELSE r.queue
           b == IF r.barrier # "draining" THEN r.barrier
                ELSE IF toFlush THEN "flushing" ELSE "none"
<1>1. Flush \in Op
  BY Operations
<1>2. /\ a \in 0 .. 3 /\ q \in Seq(Op)
      /\ c \in {"no", "draining", "settling", "last", "releasing", "freed"}
      /\ b \in {"none", "draining", "flushing"}
  <2>1. a \in 0 .. 3 /\ q \in Seq(Op)
    <3>1. Len(r.queue) \in Nat /\ r.await \in 0 .. 3 /\ r.queue \in Seq(Op)
      BY ChainFields
    <3>2. Len(r.queue) \in 0 .. 3
      BY Zenon, <3>1, Awaited
    <3> HIDE DEF toClose
    <3> QED
      BY Zenon, <1>1, <3>1, <3>2, AppendProperties
  <2>2. /\ c \in {"no", "draining", "settling", "last", "releasing", "freed"}
        /\ b \in {"none", "draining", "flushing"}
    BY StateFields
  <2> QED
    BY <2>1, <2>2
<1>3. f \in BOOLEAN
  BY ChainFields
<1>4. Resume(r, ok) = [r EXCEPT !.await = a, !.failed = f, !.closing = c, !.queue = q,
                                !.barrier = b]
  BY Zenon DEF Resume
<1>5. /\ r.closing # "draining" => c = r.closing /\ a = r.await /\ (f <=> r.failed)
      /\ r.closing = "draining" =>
            /\ c = (IF ok THEN "settling" ELSE "last")
            /\ a = Len(r.queue) /\ (~ok => f) /\ (ok => (f <=> r.failed))
  OBVIOUS
<1>6. f = r.failed \/ ~(f <=> r.failed)
  BY <1>3 DEF HandleRecord
<1>7. q = (IF toFlush THEN Append(r.queue, Flush) ELSE r.queue)
  OBVIOUS
<1>8. b = (IF r.barrier # "draining" THEN r.barrier
           ELSE IF toFlush THEN "flushing" ELSE "none")
  OBVIOUS
<1> HIDE DEF a, f, c, q, b
<1> DEFINE d == Resume(r, ok)
<1>9. d \in HandleRecord
  <2>1. [r EXCEPT !.await = a] \in HandleRecord
    BY <1>2, OneField
  <2>2. [r EXCEPT !.await = a, !.failed = f] \in HandleRecord
    BY <1>3, <2>1, OneField
  <2>3. [r EXCEPT !.await = a, !.failed = f, !.closing = c] \in HandleRecord
    BY <1>2, <2>2, OneField
  <2>4. [r EXCEPT !.await = a, !.failed = f, !.closing = c, !.queue = q] \in HandleRecord
    BY <1>2, <2>3, OneField
  <2> QED
    BY <1>2, <1>4, <2>4, OneField
<1>10. d = Resume(r, ok)
  OBVIOUS
<1>11. d = [r EXCEPT !.await = a, !.failed = f, !.closing = c, !.queue = q, !.barrier = b]
  BY <1>4
<1> HIDE DEF d
<1>12. /\ Keeps(r, d) /\ d.life = r.life /\ d.stage = r.stage
       /\ d.buffered = r.buffered /\ d.draining = r.draining
       /\ d.mark = r.mark /\ d.queue = q /\ d.barrier = b /\ d.closing = c
       /\ d.await = a /\ d.failed = f
  <2>1. Keeps(r, d)
    BY ZenonT(60), <1>11 DEF Keeps, HandleRecord
  <2>2. d.life = r.life /\ d.stage = r.stage /\ d.buffered = r.buffered /\ d.draining = r.draining
    BY ZenonT(60), <1>11 DEF HandleRecord
  <2>3. d.mark = r.mark /\ d.queue = q /\ d.barrier = b /\ d.closing = c
    BY ZenonT(60), <1>11 DEF HandleRecord
  <2>4. d.await = a /\ d.failed = f
    BY ZenonT(60), <1>11 DEF HandleRecord
  <2> QED
    BY <2>1, <2>2, <2>3, <2>4
<1> QED
  BY <1>5, <1>6, <1>7, <1>8, <1>9, <1>10, <1>12

\* The closing stage that frees the lock, once the chain is done.
Freeing(r) == IF r.lease = "held" THEN "releasing" ELSE "freed"

\* The loop in close moves on to a stage and counts what it waits for.
LEMMA TwoStages ==
    ASSUME NEW r \in HandleRecord, NEW n \in 0 .. 3,
           NEW c \in {"no", "draining", "settling", "last", "releasing", "freed"}
    PROVE  [r EXCEPT !.closing = c, !.await = n] \in HandleRecord
<1>1. [r EXCEPT !.closing = c] \in HandleRecord
  BY OneField
<1> QED
  BY <1>1, OneField

\* What CloseLoop, the loop in close, leaves in the handle.
LEMMA CloseLoopFields ==
    ASSUME NEW r \in HandleRecord, Len(r.queue) <= 2
    PROVE  LET d == CloseLoop(r)
               waited == r.closing = "settling" /\ r.await = 0
               again == waited /\ r.buffered # <<>>
               over == \/ waited /\ r.buffered = <<>> /\ Len(r.queue) = 0
                       \/ r.closing = "last" /\ r.await = 0
           IN  /\ d \in HandleRecord /\ Keeps(r, d)
               /\ d.life = r.life /\ d.stage = r.stage /\ d.buffered = r.buffered
               /\ d.mark = r.mark /\ d.barrier = r.barrier /\ d.failed = r.failed
               /\ again => /\ d.closing = "draining" /\ d.draining /\ d.await = 0
                           /\ d.queue = IF r.draining THEN r.queue ELSE Append(r.queue, Drain)
               /\ ~again => d.queue = r.queue /\ d.draining = r.draining
               /\ over => d.closing = Freeing(r) /\ d.await = 0
               /\ ~again /\ ~over => \/ d.closing = r.closing /\ d.await = r.await /\ ~waited
                                     \/ d.closing = "last" /\ d.await = Len(r.queue) /\ waited
<1> DEFINE f == Freeing(r)
           last == [r EXCEPT !.closing = "last", !.await = Len(r.queue)]
           drain == [r EXCEPT !.closing = "draining"]
<1>1. f \in {"no", "draining", "settling", "last", "releasing", "freed"}
  BY DEF Freeing
<1>2. /\ drain \in HandleRecord /\ Keeps(r, drain)
      /\ drain.life = r.life /\ drain.stage = r.stage /\ drain.buffered = r.buffered
      /\ drain.mark = r.mark /\ drain.barrier = r.barrier /\ drain.failed = r.failed
      /\ drain.queue = r.queue /\ drain.draining = r.draining /\ drain.await = r.await
      /\ drain.closing = "draining"
  <2>1. drain \in HandleRecord
    BY OneField
  <2>2. Keeps(r, drain)
    BY ZenonT(60) DEF HandleRecord, Keeps
  <2>3. /\ drain.life = r.life /\ drain.stage = r.stage
        /\ drain.buffered = r.buffered /\ drain.mark = r.mark
    BY ZenonT(60) DEF HandleRecord
  <2>4. /\ drain.barrier = r.barrier /\ drain.failed = r.failed
        /\ drain.queue = r.queue /\ drain.draining = r.draining
    BY ZenonT(60) DEF HandleRecord
  <2>5. drain.await = r.await /\ drain.closing = "draining"
    BY ZenonT(60) DEF HandleRecord
  <2> QED
    BY <2>1, <2>2, <2>3, <2>4, <2>5
<1>3. CASE r.closing = "settling" /\ r.await = 0 /\ r.buffered # <<>>
  <2>1. CloseLoop(r) = DrainLive(drain)
    <3>1. DrainLive(drain).closing = "draining"
      BY <1>2, DrainLiveFields
    <3> HIDE DEF drain
    <3>2. CloseLoop(r) = LET checked == DrainLive(drain)
                         IN IF checked.closing # "last" \/ checked.await > 0 THEN checked
                            ELSE [checked EXCEPT !.closing =
                                    IF r.lease = "held" THEN "releasing" ELSE "freed"]
      BY <1>3 DEF CloseLoop, drain
    <3> QED
      BY <3>1, <3>2
  <2> DEFINE d == DrainLive(drain)
  <2> HIDE DEF drain
  <2>2. /\ d \in HandleRecord /\ Keeps(drain, d)
        /\ d.life = drain.life /\ d.stage = drain.stage /\ d.buffered = drain.buffered
        /\ d.closing = drain.closing /\ d.await = drain.await /\ d.failed = drain.failed
        /\ d.barrier = drain.barrier /\ d.mark = drain.mark
        /\ d.draining
        /\ d.queue = IF r.draining THEN r.queue ELSE Append(r.queue, Drain)
    BY <1>2, <1>3, DrainLiveFields
  <2> HIDE DEF d
  <2>3. CloseLoop(r) = d
    BY <2>1 DEF d
  <2> QED
    BY <1>2, <1>3, <2>2, <2>3 DEF Keeps
<1>4. CASE r.closing = "settling" /\ r.await = 0 /\ r.buffered = <<>>
  <2> DEFINE n == Len(r.queue)
  <2>1. n \in 0 .. 3 /\ n = Len(r.queue)
    <3>1. Len(r.queue) \in Nat
      BY ChainFields
    <3> QED
      BY Zenon, <3>1, Awaited
  <2>2. CASE n > 0
    <3>1. CloseLoop(r) = [r EXCEPT !.closing = "last", !.await = n]
      BY <1>4, <2>2 DEF CloseLoop
    <3> HIDE DEF n
    <3>2. /\ CloseLoop(r) \in HandleRecord /\ Keeps(r, CloseLoop(r))
          /\ CloseLoop(r).life = r.life /\ CloseLoop(r).stage = r.stage
          /\ CloseLoop(r).buffered = r.buffered /\ CloseLoop(r).mark = r.mark
          /\ CloseLoop(r).barrier = r.barrier /\ CloseLoop(r).failed = r.failed
          /\ CloseLoop(r).queue = r.queue /\ CloseLoop(r).draining = r.draining
          /\ CloseLoop(r).await = n /\ CloseLoop(r).closing = "last"
      <4>1. CloseLoop(r) \in HandleRecord
        BY <2>1, <3>1, TwoStages
      <4>2. Keeps(r, CloseLoop(r))
        BY ZenonT(60), <2>1, <3>1 DEF HandleRecord, Keeps
      <4>3. /\ CloseLoop(r).life = r.life /\ CloseLoop(r).stage = r.stage
            /\ CloseLoop(r).buffered = r.buffered /\ CloseLoop(r).mark = r.mark
        BY ZenonT(60), <2>1, <3>1 DEF HandleRecord
      <4>4. /\ CloseLoop(r).barrier = r.barrier /\ CloseLoop(r).failed = r.failed
            /\ CloseLoop(r).queue = r.queue /\ CloseLoop(r).draining = r.draining
        BY ZenonT(60), <2>1, <3>1 DEF HandleRecord
      <4>5. CloseLoop(r).await = n /\ CloseLoop(r).closing = "last"
        BY ZenonT(60), <2>1, <3>1 DEF HandleRecord
      <4> QED
        BY <4>1, <4>2, <4>3, <4>4, <4>5
    <3>3. n = Len(r.queue)
      BY DEF n
    <3> QED
      BY <1>4, <2>2, <3>2, <3>3
  <2>3. CASE n = 0
    <3>1. CloseLoop(r) = [[r EXCEPT !.closing = "last", !.await = n] EXCEPT !.closing = f]
      <4> DEFINE checked == [r EXCEPT !.closing = "last", !.await = Len(r.queue)]
      <4>1. CloseLoop(r) = IF checked.closing # "last" \/ checked.await > 0 THEN checked
                           ELSE [checked EXCEPT !.closing = f]
        BY <1>4 DEF CloseLoop, Freeing
      <4>2. checked.closing = "last" /\ checked.await = Len(r.queue)
        BY Zenon DEF HandleRecord
      <4> QED
        BY <2>3, <4>1, <4>2
    <3>2. n = Len(r.queue)
      BY DEF n
    <3>4. f = Freeing(r)
      OBVIOUS
    <3> HIDE DEF n, f
    <3>3. /\ CloseLoop(r) \in HandleRecord /\ Keeps(r, CloseLoop(r))
          /\ CloseLoop(r).life = r.life /\ CloseLoop(r).stage = r.stage
          /\ CloseLoop(r).buffered = r.buffered /\ CloseLoop(r).mark = r.mark
          /\ CloseLoop(r).barrier = r.barrier /\ CloseLoop(r).failed = r.failed
          /\ CloseLoop(r).queue = r.queue /\ CloseLoop(r).draining = r.draining
          /\ CloseLoop(r).await = n /\ CloseLoop(r).closing = f
      <4>1. CloseLoop(r) \in HandleRecord
        <5>1. [r EXCEPT !.closing = f, !.await = n] \in HandleRecord
          BY Zenon, <1>1, <2>1, TwoStages
        <5> QED
          BY Zenon, <3>1, <5>1
      <4>2. Keeps(r, CloseLoop(r))
        BY ZenonT(60), <1>1, <2>1, <3>1 DEF HandleRecord, Keeps
      <4>3. /\ CloseLoop(r).life = r.life /\ CloseLoop(r).stage = r.stage
            /\ CloseLoop(r).buffered = r.buffered /\ CloseLoop(r).mark = r.mark
        BY ZenonT(60), <1>1, <2>1, <3>1 DEF HandleRecord
      <4>4. /\ CloseLoop(r).barrier = r.barrier /\ CloseLoop(r).failed = r.failed
            /\ CloseLoop(r).queue = r.queue /\ CloseLoop(r).draining = r.draining
        BY ZenonT(60), <1>1, <2>1, <3>1 DEF HandleRecord
      <4>5. CloseLoop(r).await = n /\ CloseLoop(r).closing = f
        BY ZenonT(60), <1>1, <2>1, <3>1 DEF HandleRecord
      <4> QED
        BY <4>1, <4>2, <4>3, <4>4, <4>5
    <3> QED
      BY <1>4, <2>3, <3>2, <3>3, <3>4
  <2> QED
    BY <2>1, <2>2, <2>3
<1>5. CASE r.closing = "last" /\ r.await = 0
  <2>1. CloseLoop(r) = [r EXCEPT !.closing = f]
    BY <1>5 DEF CloseLoop, Freeing
  <2>4. f = Freeing(r)
    OBVIOUS
  <2> HIDE DEF f
  <2>3. /\ CloseLoop(r) \in HandleRecord /\ Keeps(r, CloseLoop(r))
        /\ CloseLoop(r).life = r.life /\ CloseLoop(r).stage = r.stage
        /\ CloseLoop(r).buffered = r.buffered /\ CloseLoop(r).mark = r.mark
        /\ CloseLoop(r).barrier = r.barrier /\ CloseLoop(r).failed = r.failed
        /\ CloseLoop(r).queue = r.queue /\ CloseLoop(r).draining = r.draining
        /\ CloseLoop(r).await = r.await /\ CloseLoop(r).closing = f
    <3>1. CloseLoop(r) \in HandleRecord
      <4>1. [r EXCEPT !.closing = f] \in HandleRecord
        BY Zenon, <1>1, OneField
      <4> QED
        BY Zenon, <2>1, <4>1
    <3>2. Keeps(r, CloseLoop(r))
      BY ZenonT(60), <1>1, <2>1 DEF HandleRecord, Keeps
    <3>3. /\ CloseLoop(r).life = r.life /\ CloseLoop(r).stage = r.stage
          /\ CloseLoop(r).buffered = r.buffered /\ CloseLoop(r).mark = r.mark
      BY ZenonT(60), <1>1, <2>1 DEF HandleRecord
    <3>4. /\ CloseLoop(r).barrier = r.barrier /\ CloseLoop(r).failed = r.failed
          /\ CloseLoop(r).queue = r.queue /\ CloseLoop(r).draining = r.draining
      BY ZenonT(60), <1>1, <2>1 DEF HandleRecord
    <3>5. CloseLoop(r).await = r.await /\ CloseLoop(r).closing = f
      BY ZenonT(60), <1>1, <2>1 DEF HandleRecord
    <3> QED
      BY <3>1, <3>2, <3>3, <3>4, <3>5
  <2> QED
    BY <1>5, <2>3, <2>4
<1>6. CASE /\ ~(r.closing = "settling" /\ r.await = 0)
           /\ ~(r.closing = "last" /\ r.await = 0)
  <2>1. r.await \in 0 .. 3
    BY ChainFields
  <2>2. CloseLoop(r) = r
    BY <1>6, <2>1 DEF CloseLoop
  <2> QED
    BY <1>6, <2>2 DEF Keeps
<1> QED
  BY <1>3, <1>4, <1>5, <1>6

-----------------------------------------------------------------------------
(* A handle whose first operation has settled.                             *)

\* Nothing is being written: what may be queued is a drain, or a flush.
Resting(r) ==
  /\ r.stage = "idle" /\ r.queue \in {<<>>, <<Drain>>, <<Flush>>}
  /\ r.draining <=> r.queue = <<Drain>>
  /\ r.barrier = "flushing" <=> r.queue = <<Flush>>
  /\ r.life # "storing"
  /\ r.life # "live" => r.buffered = <<>> /\ r.barrier = "none"
  /\ r.barrier = "draining" => r.draining
  /\ r.draining => r.buffered # <<>>

\* A close as it stands when it may run on.
Halfway(r) ==
  /\ r.await = 0
  /\ r.closing = "draining" => r.draining
  /\ r.closing = "settling" => r.queue # <<Flush>>
  /\ r.closing = "last" => r.queue = <<>>

\* The chains of one operation.
LEMMA Singles ==
    /\ <<Drain>> # <<>> /\ <<Flush>> # <<>> /\ <<Drain>> # <<Flush>>
    /\ Append(<<>>, Drain) = <<Drain>> /\ Append(<<>>, Flush) = <<Flush>>
    /\ Len(<<Drain>>) = 1 /\ Len(<<Flush>>) = 1 /\ Len(<<>>) = 0
    /\ <<Drain>>[1] = Drain /\ <<Flush>>[1] = Flush
    /\ <<Drain>> \in Seq(Op) /\ <<Flush>> \in Seq(Op) /\ <<>> \in Seq(Op)
<1>1. Drain # Flush
  BY Operations
<1> QED
  BY <1>1, Operations

\* A chain of one or two operations, when the first has settled.
LEMMA ShortQueues ==
    ASSUME NEW q \in Seq(Op), q # <<>>, Len(q) <= 2
    PROVE  /\ q[1] \in Op /\ Head(q) = q[1] /\ Tail(q) \in Seq(Op) /\ Len(q) \in {1, 2}
           /\ Len(q) = 1 => Tail(q) = <<>>
           /\ Len(q) = 2 => Tail(q) = <<q[2]>>
<1>1. Len(q) \in Nat /\ Head(q) = q[1] /\ Head(q) \in Op /\ Tail(q) \in Seq(Op)
  BY HeadTailProperties, LenProperties
<1>0. Len(q) \in {1, 2} /\ Len(Tail(q)) = Len(q) - 1
  <2>1. Len(q) # 0
    BY EmptySeq
  <2>2. Len(Tail(q)) = Len(q) - 1
    BY HeadTailProperties
  <2> QED
    BY <1>1, <2>1, <2>2
<1>2. CASE Len(q) = 1
  <2>1. Len(Tail(q)) = 0
    BY <1>0, <1>2
  <2>2. Tail(q) = <<>>
    BY <1>1, <2>1, EmptySeq
  <2> QED
    BY <1>0, <1>1, <1>2, <2>2
<1>3. CASE Len(q) = 2
  <2>1. Len(Tail(q)) = 1 /\ Tail(q)[1] = q[2]
    BY <1>0, <1>3, HeadTailProperties
  <2>2. q[2] \in Op
    BY <1>3, ElementOfSeq
  <2>3. /\ <<q[2]>> \in Seq(Op) /\ Len(<<q[2]>>) = 1 /\ <<q[2]>>[1] = q[2]
    BY <2>2
  <2>4. \A i \in 1 .. Len(Tail(q)) : Tail(q)[i] = <<q[2]>>[i]
    BY <2>1, <2>3
  <2>5. Tail(q) = <<q[2]>>
    BY <1>1, <2>1, <2>3, <2>4, SeqEqual
  <2> QED
    BY <1>0, <1>1, <1>3, <2>5
<1> QED
  BY <1>0, <1>2, <1>3

\* A handle at rest has the chain it should have.
LEMMA RestingChain ==
    ASSUME NEW r \in HandleRecord, Resting(r)
    PROVE  Chain(r) /\ Batches(r) /\ Len(r.queue) <= 1
<1>1. Len(r.queue) <= 1
  <2>1. r.queue \in {<<>>, <<Drain>>, <<Flush>>}
    BY DEF Resting
  <2> DEFINE n == Len(r.queue)
  <2>2. n = 0 \/ n = 1
    BY Zenon, <2>1, Singles
  <2> HIDE DEF n
  <2>3. n <= 1
    BY <2>2
  <2> QED
    BY Zenon, <2>3 DEF n
<1>2. CASE r.queue = <<>>
  BY <1>2, Singles, ChainFields DEF Resting, Chain, Batches, Started
<1>3. CASE r.queue = <<Drain>>
  BY <1>3, Singles, Operations, ChainFields DEF Resting, Chain, Batches, Started
<1>4. CASE r.queue = <<Flush>>
  BY <1>4, Singles, Operations, ChainFields DEF Resting, Chain, Batches, Started
<1> QED
  BY <1>1, <1>2, <1>3, <1>4 DEF Resting

\* What a close runs on to leaves the handle at rest, or frees the lock.
LEMMA CloseLoopRests ==
    ASSUME NEW r \in HandleRecord, Resting(r), Halfway(r)
    PROVE  LET d == CloseLoop(r)
           IN  /\ d \in HandleRecord /\ Keeps(r, d) /\ Resting(d) /\ Closing(d)
               /\ d.life = r.life /\ d.buffered = r.buffered /\ d.mark = r.mark
               /\ d.barrier = r.barrier /\ d.failed = r.failed
               /\ r.closing \in {"no", "draining", "releasing", "freed"} =>
                     d.closing = r.closing /\ d.queue = r.queue
               /\ r.closing \in {"settling", "last"} =>
                     \/ d.closing = "draining"
                     \/ /\ d.closing = Freeing(r) /\ d.queue = <<>>
                        /\ r.closing = "settling" => r.buffered = <<>>
<1> DEFINE d == CloseLoop(r)
<1>1. /\ Len(r.queue) <= 2 /\ r.await = 0
      /\ r.closing \in {"no", "draining", "settling", "last", "releasing", "freed"}
  BY RestingChain, StateFields, ChainFields DEF Halfway
<1>2. d \in HandleRecord /\ Keeps(r, d)
  BY <1>1, CloseLoopFields
<1>3. /\ d.life = r.life /\ d.stage = r.stage /\ d.buffered = r.buffered
      /\ d.mark = r.mark /\ d.barrier = r.barrier /\ d.failed = r.failed
  BY <1>1, CloseLoopFields
<1>4. CASE r.closing = "settling" /\ r.buffered # <<>>
  <2>1. /\ d.closing = "draining" /\ d.draining /\ d.await = 0
        /\ d.queue = IF r.draining THEN r.queue ELSE Append(r.queue, Drain)
    BY <1>1, <1>4, CloseLoopFields
  <2>2. d.queue = <<Drain>>
    BY <1>4, <2>1, Singles DEF Resting, Halfway
  <2>3. r.barrier # "flushing" /\ r.life = "live"
    BY <1>4 DEF Resting, Halfway
  <2>4. Resting(d) /\ Closing(d)
    BY <1>3, <1>4, <2>1, <2>2, <2>3, Singles DEF Resting, Closing
  <2> HIDE DEF d
  <2> QED
    BY <1>2, <1>3, <1>4, <2>1, <2>4 DEF d
<1>5. CASE r.closing = "last" \/ (r.closing = "settling" /\ r.buffered = <<>>)
  <2>1. r.queue = <<>>
    BY <1>5 DEF Resting, Halfway
  <2>2. d.queue = r.queue /\ d.draining = r.draining /\ d.closing = Freeing(r) /\ d.await = 0
    BY <1>1, <1>5, <2>1, Singles, CloseLoopFields
  <2>3. Freeing(r) \in {"releasing", "freed"}
    BY DEF Freeing
  <2>4. Resting(d) /\ Closing(d)
    BY <1>3, <2>1, <2>2, <2>3 DEF Resting, Closing
  <2> HIDE DEF d
  <2> QED
    BY <1>2, <1>3, <1>5, <2>1, <2>2, <2>4 DEF d
<1>6. CASE r.closing \in {"no", "draining", "releasing", "freed"}
  <2>1. /\ d.queue = r.queue /\ d.draining = r.draining /\ d.closing = r.closing
        /\ d.await = r.await
    BY <1>1, <1>6, CloseLoopFields
  <2>2. Resting(d) /\ Closing(d)
    BY <1>3, <1>6, <2>1 DEF Resting, Closing, Halfway
  <2> HIDE DEF d
  <2> QED
    BY <1>2, <1>3, <1>6, <2>1, <2>2 DEF d
<1> QED
  BY <1>1, <1>4, <1>5, <1>6

\* A handle whose first operation may settle.
Waits(r) ==
  /\ r.queue # <<>> /\ Chain(r) /\ Closing(r)
  /\ Len(r.queue) = 2 => r.queue[2] = Drain /\ r.buffered # <<>>

\* How the session goes on when the operation was the suffix of its setup.
LifeAfter(r, ok) ==
  IF Head(r.queue).kind # "append" THEN r.life
  ELSE IF ~ok THEN "failed" ELSE IF Head(r.queue).last THEN "live" ELSE "setup"

\* What is buffered then: the batch of a drain that failed is put back.
BufferedAfter(r, ok) ==
  IF Head(r.queue).kind = "drain" /\ ~ok THEN Head(r.queue).batch \o r.buffered
  ELSE r.buffered

\* A handle s that was r before its first operation settled.
SettledTo(r, s, ok) ==
  /\ s \in HandleRecord /\ Keeps(r, s) /\ Resting(s) /\ Closing(s)
  /\ s.life = LifeAfter(r, ok) /\ s.buffered = BufferedAfter(r, ok) /\ s.mark = r.mark
  /\ s.barrier = "draining" => r.barrier = "draining"
  /\ s.barrier = "flushing" => /\ r.barrier = "draining" /\ ok /\ r.buffered = <<>>
                               /\ Head(r.queue).kind = "drain"
  /\ r.closing \in {"no", "releasing", "freed"} => s.closing = r.closing
  /\ s.closing \in {"no", "releasing", "freed"} =>
        \/ s.closing = r.closing
        \/ s.closing = Freeing(r) /\ s.queue = <<>> /\ (s.failed \/ s.buffered = <<>>)

\* The chain is one operation shorter.
Shorter(r) == [r EXCEPT !.queue = Tail(@), !.stage = "idle", !.await = Counted(@)]

\* What is left in the handle when the operation at the head of its chain is done.
LEMMA ShorterFields ==
    ASSUME NEW r \in HandleRecord, Waits(r)
    PROVE  LET b == Shorter(r)
           IN  /\ b \in HandleRecord /\ Keeps(r, b)
               /\ b.stage = "idle" /\ b.await = 0
               /\ b.queue = IF r.draining /\ Head(r.queue).kind # "drain" THEN <<Drain>> ELSE <<>>
               /\ b.life = r.life /\ b.buffered = r.buffered /\ b.mark = r.mark
               /\ b.draining = r.draining /\ b.closing = r.closing /\ b.barrier = r.barrier
               /\ b.failed = r.failed
<1> DEFINE q == r.queue
           t == Tail(q)
           w == Counted(r.await)
           b == Shorter(r)
<1>1. q \in Seq(Op) /\ q # <<>> /\ Len(q) <= 2
  BY ChainFields DEF Waits, Chain
<1>2. /\ Head(q) = q[1] /\ t \in Seq(Op) /\ Len(q) \in {1, 2}
      /\ Len(q) = 1 => t = <<>>
      /\ Len(q) = 2 => t = <<q[2]>>
  BY <1>1, ShortQueues
<1>3. w = 0
  <2>1. r.await = 0 \/ r.await = 1
    BY StateFields DEF Waits, Closing
  <2> QED
    BY <2>1 DEF Counted
<1>4. t = IF r.draining /\ Head(r.queue).kind # "drain" THEN <<Drain>> ELSE <<>>
  <2>1. CASE Len(q) = 1
    <3>1. r.draining <=> q[1].kind = "drain"
      BY <1>1, <2>1 DEF Waits, Chain
    <3> QED
      BY <1>2, <2>1, <3>1
  <2>2. CASE Len(q) = 2
    <3>1. q[2] = Drain /\ q[1].kind = "flush" /\ q[2].kind = "drain"
      BY <2>2 DEF Waits, Chain
    <3>2. r.draining
      BY <1>1, <2>2, <3>1 DEF Waits, Chain
    <3> QED
      BY <1>2, <2>2, <3>1, <3>2
  <2> QED
    BY <1>2, <2>1, <2>2
<1>5. b = [r EXCEPT !.queue = t, !.stage = "idle", !.await = w]
  BY DEF Shorter
<1> HIDE DEF q, t, w, b
<1>6. b \in HandleRecord
  <2>1. [r EXCEPT !.queue = t] \in HandleRecord
    BY <1>2, OneField
  <2>2. [r EXCEPT !.queue = t, !.stage = "idle"] \in HandleRecord
    BY <2>1, OneField
  <2>3. w \in 0 .. 3
    BY <1>3
  <2> QED
    BY <1>5, <2>2, <2>3, OneField
<1>7. /\ Keeps(r, b) /\ b.stage = "idle" /\ b.await = w /\ b.queue = t
      /\ b.life = r.life /\ b.buffered = r.buffered /\ b.mark = r.mark
      /\ b.draining = r.draining /\ b.closing = r.closing /\ b.barrier = r.barrier
      /\ b.failed = r.failed
  BY ZenonT(60), <1>5 DEF HandleRecord, Keeps
<1> QED
  BY <1>3, <1>4, <1>6, <1>7 DEF b

\* What the chain of a handle says of the operation that settles.
LEMMA FirstOperation ==
    ASSUME NEW r \in HandleRecord, Waits(r)
    PROVE  /\ Head(r.queue) \in Op /\ Head(r.queue) = r.queue[1]
           /\ r.draining /\ Head(r.queue).kind # "drain" => r.buffered # <<>>
           /\ r.barrier = "flushing" <=> Head(r.queue).kind = "flush"
           /\ r.life = "storing" <=> Head(r.queue).kind = "append"
           /\ Head(r.queue).kind = "drain" => r.draining
           /\ r.life # "live" => r.buffered = <<>> /\ ~r.draining /\ r.barrier = "none"
           /\ r.barrier = "draining" => r.draining
           /\ r.closing = "draining" => r.draining
           /\ r.closing = "settling" => Head(r.queue).kind # "drain"
           /\ r.closing # "last"
<1>1. r.queue \in Seq(Op) /\ r.queue # <<>> /\ Len(r.queue) <= 2
  BY ChainFields DEF Waits, Chain
<1>2. /\ Head(r.queue) = r.queue[1] /\ Head(r.queue) \in Op
      /\ Len(r.queue) = 1 \/ Len(r.queue) = 2
  BY <1>1, ShortQueues
<1>3. CASE Len(r.queue) = 1
  BY <1>1, <1>2, <1>3 DEF Waits, Chain, Closing
<1>4. CASE Len(r.queue) = 2
  BY <1>1, <1>2, <1>4 DEF Waits, Chain, Closing
<1> QED
  BY <1>2, <1>3, <1>4

\* What every case of settling hands to the loop of close.
Handed(r, x, ok) ==
  /\ x \in HandleRecord /\ Keeps(r, x) /\ Resting(x) /\ Halfway(x)
  /\ x.life = LifeAfter(r, ok) /\ x.buffered = BufferedAfter(r, ok) /\ x.mark = r.mark
  /\ x.barrier = "draining" => r.barrier = "draining"
  /\ x.barrier = "flushing" => /\ r.barrier = "draining" /\ ok /\ r.buffered = <<>>
                               /\ Head(r.queue).kind = "drain"
  /\ \/ x.closing = r.closing
     \/ r.closing = "draining" /\ x.closing \in {"settling", "last"}
  /\ x.closing = "last" => x.failed

\* The loop of close does the rest.
LEMMA HandedSettles ==
    ASSUME NEW r \in HandleRecord, NEW ok \in BOOLEAN, NEW x, Handed(r, x, ok)
    PROVE  SettledTo(r, CloseLoop(x), ok)
<1> DEFINE d == CloseLoop(x)
<1>1. /\ d \in HandleRecord /\ Keeps(x, d) /\ Resting(d) /\ Closing(d)
      /\ d.life = x.life /\ d.buffered = x.buffered /\ d.mark = x.mark
      /\ d.barrier = x.barrier /\ d.failed = x.failed
  BY CloseLoopRests DEF Handed
<1>2. /\ x.closing \in {"no", "draining", "releasing", "freed"} => d.closing = x.closing
      /\ x.closing \in {"settling", "last"} =>
            \/ d.closing = "draining"
            \/ /\ d.closing = Freeing(x) /\ d.queue = <<>>
               /\ x.closing = "settling" => x.buffered = <<>>
  BY CloseLoopRests DEF Handed
<1>3. x.closing \in {"no", "draining", "settling", "last", "releasing", "freed"}
  BY StateFields DEF Handed
<1> HIDE DEF d
<1>4. Keeps(r, d) /\ Freeing(x) = Freeing(r)
  BY <1>1 DEF Handed, Keeps, Freeing
<1>5. /\ r.closing \in {"no", "releasing", "freed"} => d.closing = r.closing
      /\ d.closing \in {"no", "releasing", "freed"} =>
            \/ d.closing = r.closing
            \/ d.closing = Freeing(r) /\ d.queue = <<>> /\ (d.failed \/ d.buffered = <<>>)
  BY <1>1, <1>2, <1>3, <1>4 DEF Handed
<1>6. SettledTo(r, d, ok)
  BY <1>1, <1>4, <1>5 DEF SettledTo, Handed
<1> QED
  BY <1>6 DEF d

\* A suffix of the setup settles.
LEMMA AppendSettles ==
    ASSUME NEW r \in HandleRecord, NEW ok \in BOOLEAN, Waits(r), Head(r.queue).kind = "append"
    PROVE  SettledTo(r, Settle(r, ok), ok)
<1> DEFINE b == Shorter(r)
           v == LifeAfter(r, ok)
           x == [b EXCEPT !.life = v]
<1>1. Head(r.queue) \in Op /\ ~r.draining /\ r.buffered = <<>> /\ r.barrier = "none"
  BY FirstOperation
<1>2. /\ b \in HandleRecord /\ Keeps(r, b) /\ b.stage = "idle" /\ b.await = 0 /\ b.queue = <<>>
      /\ b.buffered = <<>> /\ b.mark = r.mark /\ ~b.draining
      /\ b.closing = r.closing /\ b.barrier = "none" /\ b.failed = r.failed
  BY <1>1, ShorterFields
<1>3. v = (IF ~ok THEN "failed" ELSE IF Head(r.queue).last THEN "live" ELSE "setup")
  BY DEF LifeAfter
<1>4. Settle(r, ok) = CloseLoop(x)
  BY <1>3 DEF Settle, Shorter
<1>5. v \in {"failed", "live", "setup"}
  BY <1>3
<1>6. r.closing # "draining" /\ r.closing # "last" /\ BufferedAfter(r, ok) = r.buffered
  BY <1>1, FirstOperation DEF BufferedAfter
<1> HIDE DEF b, v
<1>7. x \in HandleRecord
  BY <1>2, <1>5, OneField
<1>8. /\ Keeps(b, x) /\ x.stage = b.stage /\ x.await = b.await /\ x.queue = b.queue
      /\ x.buffered = b.buffered /\ x.mark = b.mark /\ x.draining = b.draining
      /\ x.closing = b.closing /\ x.barrier = b.barrier /\ x.failed = b.failed /\ x.life = v
  <2>1. Keeps(b, x)
    BY <1>2, ZenonT(60) DEF HandleRecord, Keeps
  <2>2. x.stage = b.stage /\ x.await = b.await /\ x.queue = b.queue /\ x.buffered = b.buffered
    BY <1>2, ZenonT(60) DEF HandleRecord
  <2>3. x.mark = b.mark /\ x.draining = b.draining /\ x.closing = b.closing /\ x.barrier = b.barrier
    BY <1>2, ZenonT(60) DEF HandleRecord
  <2>4. x.failed = b.failed /\ x.life = v
    BY <1>2, ZenonT(60) DEF HandleRecord
  <2> QED
    BY <2>1, <2>2, <2>3, <2>4
<1> HIDE DEF x
<1>9. Resting(x) /\ Halfway(x)
  BY <1>1, <1>2, <1>5, <1>6, <1>8, Singles DEF Resting, Halfway
<1>10. Keeps(r, x)
  BY <1>2, <1>8 DEF Keeps
<1>11. Handed(r, x, ok)
  BY <1>1, <1>2, <1>6, <1>7, <1>8, <1>9, <1>10 DEF Handed, v
<1> QED
  BY <1>4, <1>11, HandedSettles

\* A flush settles.
LEMMA FlushSettles ==
    ASSUME NEW r \in HandleRecord, NEW ok \in BOOLEAN, Waits(r), Head(r.queue).kind = "flush"
    PROVE  SettledTo(r, Settle(r, ok), ok)
<1> DEFINE b == Shorter(r)
           x == [b EXCEPT !.barrier = "none"]
<1>1. /\ Head(r.queue) \in Op
      /\ r.draining => r.buffered # <<>>
      /\ r.life = "live" /\ r.closing # "last"
      /\ r.closing = "draining" => r.draining
  BY FirstOperation
<1>2. /\ b \in HandleRecord /\ Keeps(r, b) /\ b.stage = "idle" /\ b.await = 0
      /\ b.queue = IF r.draining THEN <<Drain>> ELSE <<>>
      /\ b.buffered = r.buffered /\ b.mark = r.mark /\ b.draining = r.draining
      /\ b.closing = r.closing /\ b.failed = r.failed /\ b.life = r.life
  BY <1>1, ShorterFields
<1>4. Settle(r, ok) = CloseLoop(x)
  BY DEF Settle, Shorter
<1>6. BufferedAfter(r, ok) = r.buffered /\ LifeAfter(r, ok) = r.life
  BY DEF BufferedAfter, LifeAfter
<1> HIDE DEF b
<1>7. x \in HandleRecord
  BY <1>2, OneField
<1>8. /\ Keeps(b, x) /\ x.stage = b.stage /\ x.await = b.await /\ x.queue = b.queue
      /\ x.buffered = b.buffered /\ x.mark = b.mark /\ x.draining = b.draining
      /\ x.closing = b.closing /\ x.barrier = "none" /\ x.failed = b.failed /\ x.life = b.life
  <2>0. b \in HandleRecord
    BY <1>2
  <2>1. Keeps(b, x)
    BY <2>0, ZenonT(60) DEF HandleRecord, Keeps
  <2>2. x.stage = b.stage /\ x.await = b.await /\ x.queue = b.queue /\ x.buffered = b.buffered
    BY <2>0, ZenonT(60) DEF HandleRecord
  <2>3. x.mark = b.mark /\ x.draining = b.draining /\ x.closing = b.closing
    BY <2>0, ZenonT(60) DEF HandleRecord
  <2>4. x.barrier = "none" /\ x.failed = b.failed /\ x.life = b.life
    BY <2>0, ZenonT(60) DEF HandleRecord
  <2> QED
    BY <2>1, <2>2, <2>3, <2>4
<1> HIDE DEF x
<1>9. Resting(x) /\ Halfway(x)
  <2>1. CASE r.draining
    <3>0. b.queue = <<Drain>> /\ r.buffered # <<>>
      BY <1>1, <1>2, <2>1
    <3>1. x.queue = <<Drain>> /\ x.draining /\ x.buffered # <<>> /\ x.life = "live"
      BY Zenon, <1>1, <1>2, <1>8, <2>1, <3>0
    <3> QED
      BY <1>1, <1>2, <1>8, <3>1, Singles DEF Resting, Halfway
  <2>2. CASE ~r.draining
    <3>1. x.queue = <<>> /\ ~x.draining /\ x.life = "live"
      BY <1>1, <1>2, <1>8, <2>2
    <3> QED
      BY <1>1, <1>2, <1>8, <2>2, <3>1, Singles DEF Resting, Halfway
  <2> QED
    BY <2>1, <2>2
<1>10. Keeps(r, x)
  BY <1>2, <1>8 DEF Keeps
<1>11. Handed(r, x, ok)
  BY <1>1, <1>2, <1>6, <1>7, <1>8, <1>9, <1>10 DEF Handed
<1> QED
  BY <1>4, <1>11, HandedSettles

\* A drain settles that did not empty the buffer: it goes round again.
LEMMA DrainGoesRound ==
    ASSUME NEW r \in HandleRecord, Waits(r), Head(r.queue).kind = "drain", r.buffered # <<>>
    PROVE  SettledTo(r, Settle(r, TRUE), TRUE)
<1> DEFINE b == Shorter(r)
           q == Append(b.queue, Drain)
           x == [b EXCEPT !.queue = q]
<1>1. /\ Head(r.queue) \in Op /\ r.draining /\ r.life = "live" /\ r.barrier # "flushing"
      /\ r.closing # "last" /\ r.closing # "settling"
  BY FirstOperation
<1>2. /\ b \in HandleRecord /\ Keeps(r, b) /\ b.stage = "idle" /\ b.await = 0 /\ b.queue = <<>>
      /\ b.buffered = r.buffered /\ b.mark = r.mark /\ b.draining
      /\ b.closing = r.closing /\ b.failed = r.failed /\ b.life = r.life
      /\ b.barrier = r.barrier
  BY <1>1, ShorterFields
<1>3. q = <<Drain>> /\ q \in Seq(Op)
  BY <1>2, Singles
<1>4. Settle(r, TRUE) = CloseLoop(x)
  BY DEF Settle, Shorter
<1>5. BufferedAfter(r, TRUE) = r.buffered /\ LifeAfter(r, TRUE) = r.life
  BY DEF BufferedAfter, LifeAfter
<1> HIDE DEF b, q
<1>6. x \in HandleRecord
  BY <1>2, <1>3, OneField
<1>7. /\ Keeps(b, x) /\ x.stage = b.stage /\ x.await = b.await /\ x.queue = q
      /\ x.buffered = b.buffered /\ x.mark = b.mark /\ x.draining = b.draining
      /\ x.closing = b.closing /\ x.barrier = b.barrier /\ x.failed = b.failed /\ x.life = b.life
  <2>1. Keeps(b, x)
    BY <1>2, ZenonT(60) DEF HandleRecord, Keeps
  <2>2. x.stage = b.stage /\ x.await = b.await /\ x.queue = q /\ x.buffered = b.buffered
    BY <1>2, ZenonT(60) DEF HandleRecord
  <2>3. x.mark = b.mark /\ x.draining = b.draining /\ x.closing = b.closing /\ x.barrier = b.barrier
    BY <1>2, ZenonT(60) DEF HandleRecord
  <2>4. x.failed = b.failed /\ x.life = b.life
    BY <1>2, ZenonT(60) DEF HandleRecord
  <2> QED
    BY <2>1, <2>2, <2>3, <2>4
<1> HIDE DEF x
<1>8. Resting(x) /\ Halfway(x)
  BY <1>1, <1>2, <1>3, <1>7, Singles DEF Resting, Halfway
<1>9. Keeps(r, x)
  BY <1>2, <1>7 DEF Keeps
<1>10. Handed(r, x, TRUE)
  BY <1>1, <1>2, <1>5, <1>6, <1>7, <1>8, <1>9 DEF Handed
<1> QED
  BY <1>4, <1>10, HandedSettles

\* A drain is over: its callers run on.
LEMMA DrainEnds ==
    ASSUME NEW r \in HandleRecord, NEW ok \in BOOLEAN, Waits(r), Head(r.queue).kind = "drain",
           ok => r.buffered = <<>>,
           NEW y \in HandleRecord, Keeps(r, y), y.stage = "idle", y.await = 0, y.queue = <<>>,
           ~y.draining, y.buffered = BufferedAfter(r, ok), y.life = r.life, y.mark = r.mark,
           y.closing = r.closing, y.barrier = r.barrier, y.failed = r.failed
    PROVE  SettledTo(r, CloseLoop(Resume(y, ok)), ok)
<1> DEFINE x == Resume(y, ok)
           toFlush == y.barrier = "draining" /\ ok /\ y.closing = "no"
<1>1. /\ Head(r.queue) \in Op /\ r.draining /\ r.life = "live" /\ r.barrier # "flushing"
      /\ r.closing # "last" /\ r.closing # "settling"
  BY FirstOperation
<1>2. Len(y.queue) <= 2 /\ Len(y.queue) = 0
  BY Singles
<1>3. /\ x \in HandleRecord /\ Keeps(y, x)
      /\ x.life = y.life /\ x.stage = y.stage /\ x.buffered = y.buffered
      /\ x.draining = y.draining /\ x.mark = y.mark
  BY <1>2, ResumeFields
<1>4. /\ x.queue = (IF toFlush THEN Append(y.queue, Flush) ELSE y.queue)
      /\ x.barrier = (IF y.barrier # "draining" THEN y.barrier
                      ELSE IF toFlush THEN "flushing" ELSE "none")
  <2>1. y \in HandleRecord /\ ok \in BOOLEAN /\ ~y.draining /\ Len(y.queue) <= 2
    BY <1>2
  <2>2. x.queue = IF toFlush THEN Append(y.queue, Flush) ELSE y.queue
    BY ZenonT(60), <2>1, ResumeFields
  <2>3. x.barrier = IF y.barrier # "draining" THEN y.barrier
                    ELSE IF toFlush THEN "flushing" ELSE "none"
    BY ZenonT(60), <2>1, ResumeFields
  <2> QED
    BY Zenon, <2>2, <2>3
<1>5. /\ y.closing # "draining" =>
            x.closing = y.closing /\ x.await = y.await /\ x.failed = y.failed
      /\ y.closing = "draining" =>
            /\ x.closing = (IF ok THEN "settling" ELSE "last")
            /\ x.await = 0 /\ (~ok => x.failed)
  BY <1>2, ResumeFields
<1> HIDE DEF x
<1>6. /\ x.queue = IF toFlush THEN <<Flush>> ELSE <<>>
  BY <1>4, Singles
<1>7. /\ x.await = 0 /\ x.life = "live" /\ x.stage = "idle" /\ ~x.draining
      /\ x.barrier = IF toFlush THEN "flushing" ELSE "none"
      /\ x.closing = "last" => x.failed /\ ~toFlush
      /\ x.closing = "settling" => ~toFlush
      /\ x.closing # "draining"
  <2>1. y.barrier \in {"none", "draining", "flushing"} /\ y.barrier # "flushing"
    BY <1>1, StateFields
  <2> QED
    BY <1>1, <1>3, <1>4, <1>5, <2>1
<1>8. Resting(x)
  BY <1>6, <1>7, Singles DEF Resting
<1>9. Halfway(x)
  BY <1>6, <1>7, Singles DEF Halfway
<1>10. Keeps(r, x) /\ LifeAfter(r, ok) = r.life
  BY <1>3 DEF Keeps, LifeAfter
<1>11. \/ x.closing = r.closing
       \/ r.closing = "draining" /\ x.closing \in {"settling", "last"}
  BY <1>5
<1>12. Handed(r, x, ok)
  BY <1>3, <1>7, <1>8, <1>9, <1>10, <1>11 DEF Handed
<1> QED
  BY <1>12, HandedSettles DEF x

\* A drain settles that leaves nothing to drain, or fails.
LEMMA DrainSettles ==
    ASSUME NEW r \in HandleRecord, NEW ok \in BOOLEAN, Waits(r), Head(r.queue).kind = "drain",
           ok => r.buffered = <<>>
    PROVE  SettledTo(r, Settle(r, ok), ok)
<1> DEFINE b == Shorter(r)
<1>1. Head(r.queue) \in Op
  BY FirstOperation
<1>2. /\ b \in HandleRecord /\ Keeps(r, b) /\ b.stage = "idle" /\ b.await = 0 /\ b.queue = <<>>
      /\ b.buffered = r.buffered /\ b.mark = r.mark
      /\ b.closing = r.closing /\ b.failed = r.failed /\ b.life = r.life
      /\ b.barrier = r.barrier
  BY <1>1, ShorterFields
<1>3. CASE ok
  <2> DEFINE y == DrainOver(b)
  <2>1. Settle(r, ok) = CloseLoop(Resume(y, ok))
    BY <1>3 DEF Settle, Shorter
  <2>2. BufferedAfter(r, ok) = r.buffered
    BY <1>3 DEF BufferedAfter
  <2> HIDE DEF b
  <2>3. y = [b EXCEPT !.draining = FALSE]
    BY DEF DrainOver
  <2>4. y \in HandleRecord
    BY <1>2, <2>3, OneField
  <2> HIDE DEF y
  <2>5. /\ Keeps(b, y) /\ y.stage = b.stage /\ y.await = b.await /\ y.queue = b.queue
        /\ y.buffered = b.buffered /\ y.mark = b.mark /\ ~y.draining
        /\ y.closing = b.closing /\ y.barrier = b.barrier /\ y.failed = b.failed
        /\ y.life = b.life
    <3>1. Keeps(b, y)
      BY <1>2, <2>3, ZenonT(60) DEF HandleRecord, Keeps
    <3>2. y.stage = b.stage /\ y.await = b.await /\ y.queue = b.queue /\ y.buffered = b.buffered
      BY <1>2, <2>3, ZenonT(60) DEF HandleRecord
    <3>3. y.mark = b.mark /\ ~y.draining /\ y.closing = b.closing /\ y.barrier = b.barrier
      BY <1>2, <2>3, ZenonT(60) DEF HandleRecord
    <3>4. y.failed = b.failed /\ y.life = b.life
      BY <1>2, <2>3, ZenonT(60) DEF HandleRecord
    <3> QED
      BY <3>1, <3>2, <3>3, <3>4
  <2>6. Keeps(r, y)
    BY <1>2, <2>5 DEF Keeps
  <2> QED
    BY <1>2, <2>1, <2>2, <2>4, <2>5, <2>6, DrainEnds
<1>4. CASE ~ok
  <2> DEFINE v == PutBack(Head(r.queue).batch, b.buffered)
             z == [b EXCEPT !.buffered = v, !.paused = TRUE]
             y == DrainOver(z)
  <2>1. Settle(r, ok) = CloseLoop(Resume(y, ok))
    BY <1>4 DEF Settle, Shorter
  <2>2. v = BufferedAfter(r, ok)
    BY <1>2, <1>4 DEF BufferedAfter, PutBack
  <2>3. v \in Log
    BY <1>1, <1>2, Operations, ChainFields, ConcatProperties DEF PutBack, Log
  <2> HIDE DEF b, v
  <2>4. y = [b EXCEPT !.buffered = v, !.paused = TRUE, !.draining = FALSE]
    BY DEF DrainOver
  <2>5. y \in HandleRecord
    <3>1. [b EXCEPT !.buffered = v] \in HandleRecord
      BY <1>2, <2>3, OneField
    <3>2. [b EXCEPT !.buffered = v, !.paused = TRUE] \in HandleRecord
      BY <3>1, OneField
    <3> QED
      BY <2>4, <3>2, OneField
  <2> HIDE DEF y
  <2>6. /\ Keeps(b, y) /\ y.stage = b.stage /\ y.await = b.await /\ y.queue = b.queue
        /\ y.buffered = v /\ y.mark = b.mark /\ ~y.draining
        /\ y.closing = b.closing /\ y.barrier = b.barrier /\ y.failed = b.failed
        /\ y.life = b.life
    <3>1. Keeps(b, y)
      BY <1>2, <2>4, ZenonT(60) DEF HandleRecord, Keeps
    <3>2. y.stage = b.stage /\ y.await = b.await /\ y.queue = b.queue /\ y.buffered = v
      BY <1>2, <2>4, ZenonT(60) DEF HandleRecord
    <3>3. y.mark = b.mark /\ ~y.draining /\ y.closing = b.closing /\ y.barrier = b.barrier
      BY <1>2, <2>4, ZenonT(60) DEF HandleRecord
    <3>4. y.failed = b.failed /\ y.life = b.life
      BY <1>2, <2>4, ZenonT(60) DEF HandleRecord
    <3> QED
      BY <3>1, <3>2, <3>3, <3>4
  <2>7. Keeps(r, y)
    BY <1>2, <2>6 DEF Keeps
  <2> QED
    BY <1>2, <1>4, <2>1, <2>2, <2>5, <2>6, <2>7, DrainEnds
<1> QED
  BY <1>3, <1>4

\* The first operation of a chain settles.
LEMMA SettleFields ==
    ASSUME NEW r \in HandleRecord, NEW ok \in BOOLEAN, Waits(r)
    PROVE  SettledTo(r, Settle(r, ok), ok)
<1>1. Head(r.queue).kind \in {"append", "flush", "drain"}
  BY FirstOperation, Operations
<1>2. CASE Head(r.queue).kind = "append"
  BY <1>2, AppendSettles
<1>3. CASE Head(r.queue).kind = "flush"
  BY <1>3, FlushSettles
<1>4. CASE Head(r.queue).kind = "drain" /\ ok /\ r.buffered # <<>>
  BY <1>4, DrainGoesRound
<1>5. CASE Head(r.queue).kind = "drain" /\ (ok => r.buffered = <<>>)
  BY <1>5, DrainSettles
<1> QED
  BY <1>1, <1>2, <1>3, <1>4, <1>5

-----------------------------------------------------------------------------
(* Slices of a log.                                                        *)

\* A slice is a slice of what the log grows to.
LEMMA SliceGrows ==
    ASSUME NEW S, NEW s \in Seq(S), NEW m \in Seq(S), NEW e \in S, NEW n \in Nat, Slice(s, m, n)
    PROVE  Slice(s, Append(m, e), n)
<1> DEFINE a == Append(m, e)
<1>1. Len(a) = Len(m) + 1 /\ \A k \in 1 .. Len(m) : a[k] = m[k]
  BY AppendProperties
<1>2. Len(s) \in Nat /\ Len(m) \in Nat
  BY LenProperties
<1> HIDE DEF a
<1>3. n + Len(s) <= Len(a)
  BY <1>1, <1>2 DEF Slice
<1>4. ASSUME NEW k \in 1 .. Len(s) PROVE s[k] = a[n + k]
  <2>1. n + k \in 1 .. Len(m)
    BY <1>2 DEF Slice
  <2>2. s[k] = m[n + k]
    BY DEF Slice
  <2> QED
    BY <1>1, <2>1, <2>2
<1> QED
  BY <1>3, <1>4 DEF Slice, a

\* The end of a log, when the log and its end grow by one event.
LEMMA EndingGrows ==
    ASSUME NEW S, NEW s \in Seq(S), NEW m \in Seq(S), NEW e \in S, Ending(s, m)
    PROVE  Ending(Append(s, e), Append(m, e))
<1> DEFINE a == Append(m, e)
           b == Append(s, e)
<1>1. Len(a) = Len(m) + 1 /\ (\A k \in 1 .. Len(m) : a[k] = m[k]) /\ a[Len(m) + 1] = e
  BY AppendProperties
<1>2. Len(b) = Len(s) + 1 /\ (\A k \in 1 .. Len(s) : b[k] = s[k]) /\ b[Len(s) + 1] = e
  BY AppendProperties
<1>3. Len(s) \in Nat /\ Len(m) \in Nat /\ Len(s) <= Len(m)
  BY LenProperties DEF Ending
<1> HIDE DEF a, b
<1>4. ASSUME NEW k \in 1 .. Len(b) PROVE b[k] = a[(Len(a) - Len(b)) + k]
  <2>1. Len(a) - Len(b) = Len(m) - Len(s)
    BY <1>1, <1>2, <1>3
  <2>2. CASE k \in 1 .. Len(s)
    <3>1. s[k] = m[(Len(m) - Len(s)) + k]
      BY <2>2 DEF Ending, Slice
    <3>2. (Len(m) - Len(s)) + k \in 1 .. Len(m)
      BY <1>3, <2>2
    <3> QED
      BY <1>1, <1>2, <2>1, <2>2, <3>1, <3>2
  <2>3. CASE k = Len(s) + 1
    BY <1>1, <1>2, <1>3, <2>1, <2>3
  <2> QED
    BY <1>2, <1>3, <2>2, <2>3
<1>5. Len(b) <= Len(a) /\ (Len(a) - Len(b)) + Len(b) <= Len(a)
  BY <1>1, <1>2, <1>3
<1>6. Ending(b, a)
  BY <1>4, <1>5 DEF Ending, Slice
<1> QED
  BY <1>6 DEF a, b

\* Two slices in a row are a slice.
LEMMA SliceJoin ==
    ASSUME NEW S, NEW s \in Seq(S), NEW t \in Seq(S), NEW m \in Seq(S), NEW n \in Nat,
           Slice(s, m, n), Slice(t, m, n + Len(s))
    PROVE  Slice(s \o t, m, n)
<1> DEFINE c == s \o t
<1>1. /\ Len(c) = Len(s) + Len(t)
      /\ \A i \in 1 .. Len(s) + Len(t) : c[i] = IF i <= Len(s) THEN s[i] ELSE t[i - Len(s)]
  BY ConcatProperties
<1>2. Len(s) \in Nat /\ Len(t) \in Nat /\ Len(m) \in Nat
  BY LenProperties
<1> HIDE DEF c
<1>3. n + Len(c) <= Len(m)
  BY <1>1, <1>2 DEF Slice
<1>4. ASSUME NEW k \in 1 .. Len(c) PROVE c[k] = m[n + k]
  <2>1. CASE k <= Len(s)
    BY <1>1, <1>2, <2>1 DEF Slice
  <2>2. CASE k > Len(s)
    <3>1. k - Len(s) \in 1 .. Len(t)
      BY <1>1, <1>2, <2>2
    <3>2. t[k - Len(s)] = m[(n + Len(s)) + (k - Len(s))]
      BY <3>1 DEF Slice
    <3>3. (n + Len(s)) + (k - Len(s)) = n + k
      BY <1>2
    <3> QED
      BY <1>1, <1>2, <2>2, <3>2, <3>3
  <2> QED
    BY <1>2, <2>1, <2>2
<1> QED
  BY <1>3, <1>4 DEF Slice, c

\* The end of a log joined to what comes before.
LEMMA EndingPart ==
    ASSUME NEW S, NEW s \in Seq(S), NEW t \in Seq(S), NEW m \in Seq(S), Ending(s \o t, m)
    PROVE  /\ Ending(t, m) /\ Slice(s, m, Len(m) - Len(s) - Len(t))
           /\ Len(s) + Len(t) <= Len(m)
<1> DEFINE c == s \o t
<1>1. /\ Len(c) = Len(s) + Len(t)
      /\ \A i \in 1 .. Len(s) + Len(t) : c[i] = IF i <= Len(s) THEN s[i] ELSE t[i - Len(s)]
  BY ConcatProperties
<1>2. Len(s) \in Nat /\ Len(t) \in Nat /\ Len(m) \in Nat
  BY LenProperties
<1>3. Ending(c, m)
  OBVIOUS
<1> HIDE DEF c
<1>4. Len(s) + Len(t) <= Len(m)
  BY <1>1, <1>3 DEF Ending
<1>5. \A i \in 1 .. Len(s) + Len(t) : c[i] = m[(Len(m) - Len(c)) + i]
  BY <1>1, <1>3 DEF Ending, Slice
<1>6. ASSUME NEW k \in 1 .. Len(t) PROVE t[k] = m[(Len(m) - Len(t)) + k]
  <2>1. Len(s) + k \in 1 .. Len(s) + Len(t) /\ ~(Len(s) + k <= Len(s))
    BY <1>2
  <2>2. c[Len(s) + k] = t[k]
    BY <1>1, <1>2, <2>1
  <2>3. c[Len(s) + k] = m[(Len(m) - Len(c)) + (Len(s) + k)]
    BY <1>5, <2>1
  <2>4. (Len(m) - Len(c)) + (Len(s) + k) = (Len(m) - Len(t)) + k
    BY <1>1, <1>2
  <2> QED
    BY <2>2, <2>3, <2>4
<1>7. ASSUME NEW k \in 1 .. Len(s) PROVE s[k] = m[(Len(m) - Len(s) - Len(t)) + k]
  <2>1. k \in 1 .. Len(s) + Len(t) /\ k <= Len(s)
    BY <1>2
  <2>2. Len(m) - Len(c) = Len(m) - Len(s) - Len(t)
    BY <1>1, <1>2
  <2> QED
    BY <1>1, <1>5, <2>1, <2>2
<1> QED
  BY <1>2, <1>4, <1>6, <1>7 DEF Ending, Slice

\* What a log lacks of a longer one.
LEMMA SuffixSlice ==
    ASSUME NEW S, NEW m \in Seq(S), NEW n \in Nat, n <= Len(m)
    PROVE  /\ SubSeq(m, n + 1, Len(m)) \in Seq(S)
           /\ Slice(SubSeq(m, n + 1, Len(m)), m, n)
           /\ Len(SubSeq(m, n + 1, Len(m))) = Len(m) - n
<1>1. Len(m) \in Nat
  BY LenProperties
<1>2. \A i \in n + 1 .. Len(m) : m[i] \in S
  <2> TAKE i \in n + 1 .. Len(m)
  <2>1. i \in 1 .. Len(m)
    BY <1>1
  <2> QED
    BY <2>1, ElementOfSeq
<1> DEFINE t == SubSeq(m, n + 1, Len(m))
<1>3. n + 1 \in Int /\ Len(m) \in Int
  BY <1>1
<1>4. /\ t \in Seq(S) /\ Len(t) = (IF n + 1 <= Len(m) THEN Len(m) - (n + 1) + 1 ELSE 0)
      /\ \A i \in 1 .. Len(m) - (n + 1) + 1 : t[i] = m[(n + 1) + i - 1]
  BY <1>2, <1>3, SubSeqProperties
<1> HIDE DEF t
<1>5. Len(t) = Len(m) - n
  BY <1>1, <1>4
<1>6. ASSUME NEW k \in 1 .. Len(t) PROVE t[k] = m[n + k]
  <2>1. k \in 1 .. Len(m) - (n + 1) + 1 /\ (n + 1) + k - 1 = n + k
    BY <1>1, <1>5
  <2> QED
    BY <1>4, <2>1
<1> QED
  BY <1>1, <1>4, <1>5, <1>6 DEF Slice, t

\* The first events of a log.
LEMMA PrefixSlice ==
    ASSUME NEW S, NEW m \in Seq(S), NEW n \in Nat, n <= Len(m)
    PROVE  /\ SubSeq(m, 1, n) \in Seq(S) /\ Slice(SubSeq(m, 1, n), m, 0)
           /\ Len(SubSeq(m, 1, n)) = n
<1>1. Len(m) \in Nat
  BY LenProperties
<1>2. \A i \in 1 .. n : m[i] \in S
  <2> TAKE i \in 1 .. n
  <2>1. i \in 1 .. Len(m)
    BY <1>1
  <2> QED
    BY <2>1, ElementOfSeq
<1> DEFINE t == SubSeq(m, 1, n)
<1>3. /\ t \in Seq(S) /\ Len(t) = (IF 1 <= n THEN n - 1 + 1 ELSE 0)
      /\ \A i \in 1 .. n - 1 + 1 : t[i] = m[1 + i - 1]
  BY <1>2, SubSeqProperties
<1> HIDE DEF t
<1>4. Len(t) = n
  BY <1>3
<1>5. ASSUME NEW k \in 1 .. Len(t) PROVE t[k] = m[0 + k]
  <2>1. k \in 1 .. n - 1 + 1 /\ 1 + k - 1 = k /\ 0 + k = k
    BY <1>4
  <2> QED
    BY <1>3, <2>1
<1> QED
  BY <1>1, <1>3, <1>4, <1>5 DEF Slice, t

\* A prefix of a prefix; a prefix of full length; a shorter prefix of two.
LEMMA PrefixOfPrefix ==
    ASSUME NEW S, NEW s \in Seq(S), NEW t \in Seq(S), NEW m \in Seq(S), Slice(t, m, 0)
    PROVE  /\ Slice(s, t, 0) => Slice(s, m, 0)
           /\ Slice(s, m, 0) /\ Len(s) <= Len(t) => Slice(s, t, 0)
           /\ Slice(s, m, 0) /\ Len(s) = Len(t) => s = t
           /\ Len(t) = Len(m) => t = m
           /\ Slice(s, s, 0)
<1>1. Len(s) \in Nat /\ Len(t) \in Nat /\ Len(m) \in Nat
  BY Zenon, LenProperties
<1>2. Slice(s, t, 0) => Slice(s, m, 0)
  BY <1>1 DEF Slice
<1>3. Slice(s, m, 0) /\ Len(s) <= Len(t) => Slice(s, t, 0)
  BY <1>1 DEF Slice
<1>4. Slice(s, m, 0) /\ Len(s) = Len(t) => s = t
  <2> HAVE Slice(s, m, 0) /\ Len(s) = Len(t)
  <2>1. \A i \in 1 .. Len(s) : s[i] = t[i]
    BY <1>1 DEF Slice
  <2> QED
    BY <2>1, SeqEqual
<1>5. Len(t) = Len(m) => t = m
  <2> HAVE Len(t) = Len(m)
  <2>1. \A i \in 1 .. Len(t) : t[i] = m[i]
    BY <1>1 DEF Slice
  <2> QED
    BY <2>1, SeqEqual
<1>6. Slice(s, s, 0)
  BY <1>1 DEF Slice
<1> QED
  BY <1>2, <1>3, <1>4, <1>5, <1>6

-----------------------------------------------------------------------------
(* A handle at an operation, and after it.                                 *)

\* A handle whose first operation has its batch.
Loaded(r) ==
  /\ r \in HandleRecord /\ Waits(r) /\ r.phase \in {"open", "closed"}
  /\ Pieces(r) /\ (~SetupRace => Held(r))
  /\ Head(r.queue).kind = "flush" => Head(r.queue).batch = <<>>
  /\ Head(r.queue).kind # "flush" => Head(r.queue).batch # <<>>
  /\ Head(r.queue).last => Head(r.queue).kind = "append"

\* A chain with an operation waits for it.
LEMMA GoodWaits ==
    ASSUME NEW r, Good(r), r.queue # <<>>
    PROVE  /\ Waits(r) /\ r.phase \in {"open", "closed"} /\ Head(r.queue) = r.queue[1]
           /\ Head(r.queue).last => Head(r.queue).kind = "append"
           /\ Head(r.queue).kind = "flush" => Head(r.queue).batch = <<>>
           /\ Head(r.queue).kind = "append" => Head(r.queue).batch # <<>>
<1>1. r \in HandleRecord /\ Chain(r) /\ Closing(r) /\ Unopened(r) /\ Batches(r)
  BY DEF Good, Chained
<1>2. r.queue \in Seq(Op) /\ Len(r.queue) <= 2
  BY <1>1, ChainFields DEF Chain
<1>3. /\ Head(r.queue) = r.queue[1] /\ r.queue[1] \in Op
      /\ Len(r.queue) = 1 \/ Len(r.queue) = 2
  BY <1>2, ShortQueues
<1>4. 1 \in 1 .. Len(r.queue)
  BY <1>3
<1>5. /\ Head(r.queue).last => Head(r.queue).kind = "append"
      /\ Head(r.queue).kind = "flush" => Head(r.queue).batch = <<>>
      /\ Head(r.queue).kind = "append" => Head(r.queue).batch # <<>>
  BY <1>1, <1>3, <1>4 DEF Batches
<1>6. ASSUME Len(r.queue) = 2 PROVE r.queue[2] = Drain /\ r.buffered # <<>>
  <2>1. r.queue[1].kind = "flush" /\ r.queue[2].kind = "drain"
    BY <1>1, <1>6 DEF Chain
  <2>2. 2 \in 1 .. Len(r.queue)
    BY <1>6
  <2>3. r.queue[2].batch = <<>> /\ (r.queue[2].last => r.queue[2].kind = "append")
    BY <1>1, <2>1, <2>2 DEF Batches
  <2>4. r.queue[2] \in Op
    BY <1>2, <2>2, ElementOfSeq
  <2>5. r.queue[2] = Drain
    BY <2>1, <2>3, <2>4 DEF Drain, Operation, Op
  <2>6. r.draining /\ ~Started(r)
    BY <1>1, <1>3, <1>6, <2>1 DEF Chain, Started
  <2> QED
    BY <1>1, <2>5, <2>6 DEF Batches
<1>7. r.phase \in {"open", "closed"}
  BY <1>1 DEF Unopened
<1> QED
  BY <1>1, <1>3, <1>5, <1>6, <1>7 DEF Waits

\* An operation that has started has its batch.
LEMMA StartedLoaded ==
    ASSUME NEW r, Good(r), r.stage # "idle"
    PROVE  Loaded(r)
<1>1. r.queue # <<>>
  BY DEF Good, Chained, Chain
<1>2. /\ Waits(r) /\ r.phase \in {"open", "closed"}
      /\ Head(r.queue).last => Head(r.queue).kind = "append"
      /\ Head(r.queue).kind = "flush" => Head(r.queue).batch = <<>>
      /\ Head(r.queue).kind = "append" => Head(r.queue).batch # <<>>
  BY <1>1, GoodWaits
<1>3. r \in HandleRecord /\ Pieces(r) /\ (~SetupRace => Held(r)) /\ Batches(r)
  BY DEF Good, Chained
<1>4. Head(r.queue).kind \in {"append", "flush", "drain"}
  BY <1>2, <1>3, FirstOperation, Operations
<1>5. Head(r.queue).kind = "drain" => Head(r.queue).batch # <<>>
  BY <1>3 DEF Batches, Started
<1> QED
  BY <1>2, <1>3, <1>4, <1>5 DEF Loaded

\* The handle at the start of an operation: a drain takes the buffer.
TakenFrom(r) ==
  IF Head(r.queue).kind # "drain" THEN r
  ELSE [r EXCEPT !.queue[1].batch = r.buffered, !.buffered = <<>>]

\* What its drain has taken is all that was buffered.
LEMMA TakenFields ==
    ASSUME NEW r, Good(r), r.stage = "idle", r.queue # <<>>, Head(r.queue).kind = "drain"
    PROVE  LET t == TakenFrom(r)
           IN  /\ t \in HandleRecord /\ Keeps(r, t) /\ t.buffered = <<>>
               /\ t.life = r.life /\ t.stage = r.stage /\ t.draining = r.draining
               /\ t.closing = r.closing /\ t.await = r.await /\ t.failed = r.failed
               /\ t.barrier = r.barrier /\ t.mark = r.mark
               /\ Len(r.queue) = 1 /\ Len(t.queue) = 1 /\ t.queue # <<>>
               /\ Head(t.queue) = t.queue[1] /\ t.queue[1] \in Op
               /\ t.queue[1].kind = "drain" /\ t.queue[1].batch = r.buffered
               /\ ~t.queue[1].last /\ r.buffered # <<>> /\ r.queue[1].batch = <<>>
<1> DEFINE q == [r.queue EXCEPT ![1].batch = r.buffered]
           t == TakenFrom(r)
<1>1. /\ r \in HandleRecord /\ Chain(r) /\ Batches(r) /\ Waits(r)
      /\ Head(r.queue) = r.queue[1] /\ (Head(r.queue).last => Head(r.queue).kind = "append")
  BY GoodWaits DEF Good, Chained
<1>2. r.queue \in Seq(Op) /\ r.queue[1] \in Op /\ (Len(r.queue) = 1 \/ Len(r.queue) = 2)
  BY <1>1, ChainFields, ShortQueues DEF Chain
<1>3. Len(r.queue) = 1
  BY <1>1, <1>2 DEF Chain
<1>4. 1 \in 1 .. Len(r.queue) /\ r.buffered \in Log
  BY <1>1, <1>3, ChainFields
<1>5. r.queue[1].batch = <<>> /\ r.buffered # <<>>
  <2>1. r.draining /\ ~Started(r)
    BY <1>1, FirstOperation DEF Started
  <2> QED
    BY <1>1, <1>4, <2>1 DEF Batches
<1>6. /\ [r.queue[1] EXCEPT !.batch = r.buffered] \in Op
      /\ [r.queue[1] EXCEPT !.batch = r.buffered].kind = "drain"
      /\ [r.queue[1] EXCEPT !.batch = r.buffered].batch = r.buffered
      /\ ~[r.queue[1] EXCEPT !.batch = r.buffered].last
  BY <1>1, <1>2, <1>4 DEF Op
<1> DEFINE e == [r.queue[1] EXCEPT !.batch = r.buffered]
<1>7. q = [r.queue EXCEPT ![1] = e]
  OBVIOUS
<1>8. e \in Op /\ e.kind = "drain" /\ e.batch = r.buffered /\ ~e.last
  BY <1>6
<1> HIDE DEF e
<1>9. q \in Seq(Op) /\ Len(q) = 1 /\ q[1] = e
  BY <1>2, <1>3, <1>4, <1>7, <1>8, ExceptSeq
<1>10. t = [r EXCEPT !.queue = q, !.buffered = <<>>]
  BY DEF TakenFrom
<1>11. q # <<>> /\ Head(q) = q[1]
  BY <1>9, Singles
<1> HIDE DEF q, t
<1>12. t \in HandleRecord
  <2>1. [r EXCEPT !.queue = q] \in HandleRecord
    BY <1>1, <1>9, OneField
  <2>2. <<>> \in Log
    BY DEF Log
  <2> QED
    BY <1>10, <2>1, <2>2, OneField
<1>13. /\ Keeps(r, t) /\ t.buffered = <<>> /\ t.queue = q
       /\ t.life = r.life /\ t.stage = r.stage /\ t.draining = r.draining
       /\ t.closing = r.closing /\ t.await = r.await /\ t.failed = r.failed
       /\ t.barrier = r.barrier /\ t.mark = r.mark
  BY <1>1, <1>10, ZenonT(60) DEF HandleRecord, Keeps
<1> QED
  BY <1>3, <1>5, <1>8, <1>9, <1>11, <1>12, <1>13 DEF t

\* Nothing comes before or after nothing.
LEMMA NoEvents ==
    ASSUME NEW S, NEW s \in Seq(S)
    PROVE  <<>> \o s = s /\ s \o <<>> = s
  BY ConcatEmptySeq

\* What is carried and buffered are events of the session.
LEMMA CarriedEvents ==
    ASSUME NEW r \in HandleRecord, r.queue # <<>> => Head(r.queue) \in Op
    PROVE  Carried(r) \in Seq(Event) /\ r.buffered \in Seq(Event)
<1>1. <<>> \in Seq(Event)
  OBVIOUS
<1> QED
  BY <1>1, ChainFields, Operations DEF Carried

\* The handle at the start of an operation has its batch.
LEMMA TakenLoaded ==
    ASSUME NEW r, Good(r), r.stage = "idle", r.queue # <<>>
    PROVE  Loaded(TakenFrom(r))
<1>1. /\ Waits(r) /\ r.phase \in {"open", "closed"} /\ Head(r.queue) = r.queue[1]
      /\ Head(r.queue).last => Head(r.queue).kind = "append"
      /\ Head(r.queue).kind = "flush" => Head(r.queue).batch = <<>>
      /\ Head(r.queue).kind = "append" => Head(r.queue).batch # <<>>
  BY GoodWaits
<1>2. r \in HandleRecord /\ Pieces(r) /\ (~SetupRace => Held(r))
  BY DEF Good
<1>3. Head(r.queue) \in Op /\ Head(r.queue).kind \in {"append", "flush", "drain"}
  BY <1>1, <1>2, FirstOperation, Operations
<1>4. CASE Head(r.queue).kind # "drain"
  BY <1>1, <1>2, <1>3, <1>4 DEF Loaded, TakenFrom
<1>5. CASE Head(r.queue).kind = "drain"
  <2> DEFINE t == TakenFrom(r)
  <2>1. /\ t \in HandleRecord /\ Keeps(r, t) /\ t.buffered = <<>>
        /\ t.life = r.life /\ t.stage = r.stage /\ t.draining = r.draining
        /\ t.closing = r.closing /\ t.await = r.await /\ t.failed = r.failed
        /\ t.barrier = r.barrier /\ t.mark = r.mark
        /\ Len(r.queue) = 1 /\ Len(t.queue) = 1 /\ t.queue # <<>>
        /\ Head(t.queue) = t.queue[1] /\ t.queue[1] \in Op
        /\ t.queue[1].kind = "drain" /\ t.queue[1].batch = r.buffered
        /\ ~t.queue[1].last /\ r.buffered # <<>> /\ r.queue[1].batch = <<>>
    BY <1>5, TakenFields
  <2> HIDE DEF t
  <2>2. Chain(r) /\ Closing(r) /\ r.queue[1].kind = "drain" /\ r.life = "live"
    BY <1>1, <1>2, <1>5, FirstOperation DEF Waits
  <2>3. Chain(t)
    BY <1>1, <2>1, <2>2 DEF Chain, Keeps
  <2>4. Closing(t)
    BY <1>1, <2>1, <2>2 DEF Closing
  <2>5. Waits(t)
    BY <2>1, <2>3, <2>4 DEF Waits
  <2>6. Carried(t) = r.buffered /\ Carried(r) = <<>>
    BY <1>1, <1>5, <2>1 DEF Carried
  <2>7. Carried(t) \o t.buffered = r.buffered /\ Carried(r) \o r.buffered = r.buffered
    <3>1. r.buffered \in Seq(Event)
      BY <1>2, ChainFields
    <3> QED
      BY <2>1, <2>6, <3>1, NoEvents
  <2>8. t.memory = r.memory /\ t.view = r.view /\ t.phase = r.phase
    BY <2>1 DEF Keeps
  <2>9. ~InWrite(t)
    BY <2>1 DEF InWrite
  <2>10. Pieces(t)
    BY <1>2, <2>1, <2>7, <2>8, <2>9 DEF Pieces
  <2>11. Held(r) => Held(t)
    BY <2>1, <2>7, <2>8 DEF Held
  <2>12. Loaded(t)
    BY <1>1, <1>2, <2>1, <2>5, <2>8, <2>10, <2>11 DEF Loaded
  <2> QED
    BY <2>12 DEF t
<1> QED
  BY <1>4, <1>5

\* A batch that passes the check of the cursor continues what is stored.
LEMMA CursorSlice ==
    ASSUME NEW r, Loaded(r), Head(r.queue).kind # "flush",
           Head(Head(r.queue).batch).seq = Len(r.view) + 1
    PROVE  Slice(Head(r.queue).batch, r.memory, Len(r.view))
<1>1. r \in HandleRecord /\ Waits(r) /\ Pieces(r) /\ r.queue # <<>>
  BY DEF Loaded, Waits
<1>2. Head(r.queue) \in Op /\ Head(r.queue).kind \in {"append", "flush", "drain"}
  BY <1>1, FirstOperation, Operations
<1>3. CASE Head(r.queue).kind = "append"
  BY <1>1, <1>3 DEF Pieces
<1>4. CASE Head(r.queue).kind = "drain"
  <2> DEFINE b == Head(r.queue).batch
             m == r.memory
             c == r.buffered
             n == Len(m) - Len(b) - Len(c)
             v == Len(r.view)
  <2>1. b \in Seq(Event) /\ m \in Seq(Event) /\ c \in Seq(Event) /\ b # <<>>
    BY <1>1, <1>2, <1>4, Operations, EventFields DEF Loaded
  <2>2. Carried(r) = b
    BY <1>1, <1>4 DEF Carried
  <2>3. Ending(b \o c, m) /\ Numbered(m)
    BY <1>1, <2>2 DEF Pieces
  <2>4. v \in Nat /\ Head(b).seq = v + 1 /\ Head(b) = b[1]
    <3>1. v \in Nat
      BY <1>1, EventFields, LenProperties
    <3> QED
      BY <2>1, <3>1
  <2>5. Len(b) \in Nat /\ Len(c) \in Nat /\ Len(m) \in Nat /\ Len(b) # 0
    BY <2>1, LenProperties, EmptySeq
  <2> HIDE DEF b, m, c, v
  <2>6. Slice(b, m, n) /\ Len(b) + Len(c) <= Len(m)
    BY <2>1, <2>3, EndingPart
  <2>7. b[1] = m[n + 1] /\ n + 1 \in 1 .. Len(m)
    <3>1. 1 \in 1 .. Len(b) /\ n + 1 \in 1 .. Len(m)
      BY <2>5, <2>6
    <3> QED
      BY <2>6, <3>1 DEF Slice
  <2>8. m[n + 1].seq = n + 1
    BY <2>3, <2>7 DEF Numbered
  <2>9. n = v
    BY <2>4, <2>5, <2>7, <2>8
  <2> QED
    BY <2>6, <2>9 DEF b, m, v
<1> QED
  BY <1>2, <1>3, <1>4

\* An operation goes on: its batch, once it passed the check, continues the log.
LEMMA AdvancedGood ==
    ASSUME NEW r, Loaded(r), NEW s \in HandleRecord,
           s.phase = r.phase, s.memory = r.memory, s.view = r.view, s.life = r.life,
           s.queue = r.queue, s.buffered = r.buffered, s.draining = r.draining,
           s.closing = r.closing, s.await = r.await, s.barrier = r.barrier, s.mark = r.mark,
           s.stage # "idle",
           InWrite(s) /\ Head(r.queue).kind # "flush" =>
              Slice(Head(r.queue).batch, r.memory, Len(r.view))
    PROVE  Good(s)
<1>1. /\ r \in HandleRecord /\ Waits(r) /\ Pieces(r) /\ (~SetupRace => Held(r))
      /\ r.queue # <<>> /\ Chain(r) /\ Closing(r) /\ r.phase \in {"open", "closed"}
  BY DEF Loaded, Waits
<1>2. r.queue \in Seq(Op) /\ Len(r.queue) <= 2
  BY <1>1, ChainFields DEF Chain
<1>3. Head(r.queue) = r.queue[1] /\ (Len(r.queue) = 1 \/ Len(r.queue) = 2)
  BY <1>1, <1>2, ShortQueues
<1>4. Chain(s)
  BY <1>1 DEF Chain
<1>5. Closing(s) /\ Unopened(s)
  BY <1>1 DEF Closing, Unopened
<1>6. Head(r.queue).kind \in {"append", "flush", "drain"}
  BY <1>1, FirstOperation, Operations
<1>7. ASSUME NEW n \in 1 .. Len(r.queue)
      PROVE  LET op == r.queue[n]
             IN  /\ op.kind = "flush" => op.batch = <<>>
                 /\ op.kind = "drain" /\ (n = 1 => s.stage = "idle") => op.batch = <<>>
                 /\ op.kind = "append" => op.batch # <<>>
                 /\ op.last => op.kind = "append"
  <2>1. CASE n = 1
    BY <1>3, <1>6, <2>1 DEF Loaded
  <2>2. CASE n = 2 /\ Len(r.queue) = 2
    <3>1. r.queue[2] = Drain
      BY <1>1, <2>2 DEF Waits
    <3> QED
      BY <2>2, <3>1, Operations
  <2> QED
    BY <1>3, <2>1, <2>2
<1>8. Started(s) => Head(s.queue).batch # <<>>
  BY DEF Loaded, Started
<1>9. s.draining /\ ~Started(s) => s.buffered # <<>>
  BY <1>1, FirstOperation DEF Started
<1>10. Batches(s)
  BY <1>7, <1>8, <1>9 DEF Batches
<1>11. Carried(s) = Carried(r)
  BY DEF Carried
<1>12. Pieces(s)
  BY <1>1, <1>11 DEF Pieces
<1>13. Held(r) => Held(s)
  BY <1>11 DEF Held
<1> QED
  BY <1>1, <1>4, <1>5, <1>10, <1>12, <1>13 DEF Good, Chained

\* A handle at rest is as the steps leave it, when its events are in place.
LEMMA SettledGood ==
    ASSUME NEW r \in HandleRecord, NEW ok \in BOOLEAN, Waits(r), r.phase \in {"open", "closed"},
           NEW s, SettledTo(r, s, ok),
           Numbered(r.memory), Slice(r.view, r.memory, 0), Ending(BufferedAfter(r, ok), r.memory),
           ~SetupRace =>
              /\ LifeAfter(r, ok) = "live" =>
                    Len(r.memory) = Len(r.view) + Len(BufferedAfter(r, ok))
              /\ r.barrier = "draining" => r.mark <= Len(r.memory)
    PROVE  Good(s)
<1>1. /\ s \in HandleRecord /\ Resting(s) /\ Closing(s)
      /\ s.life = LifeAfter(r, ok) /\ s.buffered = BufferedAfter(r, ok) /\ s.mark = r.mark
      /\ s.barrier = "draining" => r.barrier = "draining"
      /\ s.barrier = "flushing" => /\ r.barrier = "draining" /\ ok /\ r.buffered = <<>>
                                   /\ Head(r.queue).kind = "drain"
  BY DEF SettledTo
<1>2. s.phase = r.phase /\ s.memory = r.memory /\ s.view = r.view
  BY DEF SettledTo, Keeps
<1>3. Chain(s) /\ Batches(s) /\ Unopened(s)
  BY <1>1, <1>2, RestingChain DEF Unopened
<1>4. s.stage = "idle" /\ s.queue \in {<<>>, <<Drain>>, <<Flush>>}
  BY <1>1 DEF Resting
<1>5. s.queue # <<>> => Head(s.queue) \in {Drain, Flush}
  BY <1>4, Singles
<1>6. Carried(s) = <<>>
  BY <1>5, Operations DEF Carried
<1>7. Carried(s) \o s.buffered = BufferedAfter(r, ok)
  <2>1. s.buffered \in Seq(Event)
    BY <1>1, ChainFields
  <2> QED
    BY <1>1, <1>6, <2>1, NoEvents
<1>8. ~InWrite(s)
  BY <1>4 DEF InWrite
<1>9. Pieces(s)
  BY <1>2, <1>5, <1>7, <1>8, Operations DEF Pieces
<1>10. ASSUME ~SetupRace PROVE Held(s)
  <2>1. s.life = "live" => Len(s.memory) = Len(s.view) + Len(Carried(s) \o s.buffered)
    BY <1>1, <1>2, <1>7, <1>10
  <2>2. ~(s.queue # <<>> /\ Head(s.queue).last)
    BY <1>5, Operations
  <2>3. s.barrier = "draining" => s.mark <= Len(s.memory)
    BY <1>1, <1>2, <1>10
  <2>4. ASSUME s.barrier = "flushing" PROVE s.mark <= Len(s.view)
    <3>1. r.draining /\ r.life = "live" /\ r.barrier = "draining"
      BY <1>1, <2>4, FirstOperation
    <3>2. LifeAfter(r, ok) = "live" /\ BufferedAfter(r, ok) = <<>>
      BY <1>1, <2>4, <3>1 DEF LifeAfter, BufferedAfter
    <3>3. Len(r.memory) = Len(r.view) + Len(BufferedAfter(r, ok)) /\ r.mark <= Len(r.memory)
      BY <1>10, <3>1, <3>2
    <3>4. Len(BufferedAfter(r, ok)) = 0
      BY Zenon, <3>2, Singles
    <3>5. Len(r.view) \in Nat
      BY EventFields, LenProperties
    <3>6. Len(r.memory) = Len(r.view)
      BY <3>3, <3>4, <3>5
    <3> QED
      BY <1>1, <1>2, <3>3, <3>6
  <2> QED
    BY <2>1, <2>2, <2>3, <2>4 DEF Held
<1> QED
  BY <1>1, <1>3, <1>9, <1>10 DEF Good, Chained

\* A handle at an operation whose batch is all there, in the terms of the above.
LEMMA LoadedEvents ==
    ASSUME NEW r, Loaded(r)
    PROVE  /\ r \in HandleRecord /\ Waits(r) /\ r.phase \in {"open", "closed"}
           /\ Numbered(r.memory) /\ Slice(r.view, r.memory, 0)
           /\ Ending(Carried(r) \o r.buffered, r.memory)
           /\ Head(r.queue) \in Op /\ Head(r.queue).batch \in Seq(Event)
           /\ Carried(r) \in Seq(Event) /\ r.buffered \in Seq(Event)
           /\ r.memory \in Seq(Event) /\ r.view \in Seq(Event)
           /\ Head(r.queue).kind = "drain" => Carried(r) = Head(r.queue).batch
           /\ Head(r.queue).kind # "drain" => Carried(r) = <<>>
           /\ r.queue # <<>>
<1>1. /\ r \in HandleRecord /\ Waits(r) /\ r.phase \in {"open", "closed"}
      /\ Pieces(r) /\ r.queue # <<>>
  BY DEF Loaded, Waits
<1>2. Head(r.queue) \in Op /\ Head(r.queue).batch \in Seq(Event)
  BY <1>1, FirstOperation, Operations
<1>3. Carried(r) \in Seq(Event) /\ r.buffered \in Seq(Event)
  BY <1>1, <1>2, CarriedEvents
<1>4. /\ Head(r.queue).kind = "drain" => Carried(r) = Head(r.queue).batch
      /\ Head(r.queue).kind # "drain" => Carried(r) = <<>>
  BY <1>1 DEF Carried
<1> QED
  BY <1>1, <1>2, <1>3, <1>4, EventFields DEF Pieces

\* An operation that failed, or a flush that is done, changes no event.
LEMMA UnwrittenGood ==
    ASSUME NEW r, Loaded(r), NEW ok \in BOOLEAN, ok => Head(r.queue).kind = "flush",
           NEW s, SettledTo(r, s, ok)
    PROVE  Good(s)
<1>1. /\ r \in HandleRecord /\ Waits(r) /\ r.phase \in {"open", "closed"}
      /\ Numbered(r.memory) /\ Slice(r.view, r.memory, 0)
      /\ Ending(Carried(r) \o r.buffered, r.memory)
      /\ Head(r.queue) \in Op
      /\ Carried(r) \in Seq(Event) /\ r.buffered \in Seq(Event)
      /\ Head(r.queue).kind = "drain" => Carried(r) = Head(r.queue).batch
      /\ Head(r.queue).kind # "drain" => Carried(r) = <<>>
  BY LoadedEvents
<1>2. BufferedAfter(r, ok) = Carried(r) \o r.buffered
  <2>1. CASE Head(r.queue).kind = "drain"
    BY <1>1, <2>1 DEF BufferedAfter
  <2>2. CASE Head(r.queue).kind # "drain"
    BY <1>1, <2>2, NoEvents DEF BufferedAfter
  <2> QED
    BY <2>1, <2>2
<1>3. LifeAfter(r, ok) = "live" => r.life = "live"
  BY DEF LifeAfter
<1>4. ASSUME ~SetupRace
      PROVE  /\ LifeAfter(r, ok) = "live" =>
                    Len(r.memory) = Len(r.view) + Len(BufferedAfter(r, ok))
             /\ r.barrier = "draining" => r.mark <= Len(r.memory)
  BY <1>2, <1>3, <1>4 DEF Loaded, Held
<1> QED
  BY <1>1, <1>2, <1>4, SettledGood

\* Lengths add up.
LEMMA SumOfLengths == \A i, j, k \in Nat : i + (j + k) = (i + j) + k
  OBVIOUS

\* A batch that was written continues the log as the handle knows it.
LEMMA WrittenGood ==
    ASSUME NEW r, Loaded(r), InWrite(r),
           NEW w \in HandleRecord,
           w.view = r.view \o Head(r.queue).batch,
           w.phase = r.phase, w.memory = r.memory, w.life = r.life,
           w.queue = r.queue, w.buffered = r.buffered, w.draining = r.draining,
           w.closing = r.closing, w.await = r.await, w.barrier = r.barrier, w.mark = r.mark,
           NEW s, Waits(w), SettledTo(w, s, TRUE)
    PROVE  Good(s)
<1> DEFINE b == Head(r.queue).batch
<1>1. /\ r \in HandleRecord /\ Waits(r) /\ r.phase \in {"open", "closed"}
      /\ Numbered(r.memory) /\ Slice(r.view, r.memory, 0)
      /\ Ending(Carried(r) \o r.buffered, r.memory)
      /\ Head(r.queue) \in Op /\ b \in Seq(Event)
      /\ Carried(r) \in Seq(Event) /\ r.buffered \in Seq(Event)
      /\ r.memory \in Seq(Event) /\ r.view \in Seq(Event)
      /\ Head(r.queue).kind = "drain" => Carried(r) = b
      /\ Head(r.queue).kind # "drain" => Carried(r) = <<>>
  BY LoadedEvents
<1>2. r.queue # <<>> /\ Head(r.queue).kind \in {"append", "flush", "drain"}
  BY <1>1, Operations DEF Waits
<1>3. /\ Head(r.queue).kind # "flush" => Slice(b, r.memory, Len(r.view))
      /\ Head(r.queue).kind = "flush" => b = <<>>
  BY DEF Loaded, Pieces
<1>4. Len(r.view) \in Nat /\ Len(b) \in Nat /\ Len(r.buffered) \in Nat
      /\ Len(r.memory) \in Nat /\ Len(Carried(r)) \in Nat
  BY <1>1, LenProperties
<1>5. Len(w.view) = Len(r.view) + Len(b)
  BY <1>1, ConcatProperties
<1>6. Slice(w.view, w.memory, 0)
  <2>1. CASE Head(r.queue).kind # "flush"
    <3>1. Slice(b, r.memory, 0 + Len(r.view))
      BY <1>3, <1>4, <2>1
    <3> HIDE DEF b
    <3>2. Slice(r.view \o b, r.memory, 0)
      BY <1>1, <3>1, SliceJoin
    <3> QED
      BY <3>2 DEF b
  <2>2. CASE Head(r.queue).kind = "flush"
    BY <1>1, <1>3, <2>2, NoEvents
  <2> QED
    BY <2>1, <2>2
<1>7. BufferedAfter(w, TRUE) = r.buffered
  BY DEF BufferedAfter
<1>8. /\ Ending(r.buffered, r.memory)
      /\ Len(Carried(r) \o r.buffered) = Len(Carried(r)) + Len(r.buffered)
  BY <1>1, EndingPart, ConcatProperties
<1>9. ASSUME ~SetupRace
      PROVE  /\ LifeAfter(w, TRUE) = "live" =>
                    Len(w.memory) = Len(w.view) + Len(BufferedAfter(w, TRUE))
             /\ w.barrier = "draining" => w.mark <= Len(w.memory)
  <2>1. Held(r)
    BY <1>9 DEF Loaded
  <2>2. w.barrier = "draining" => w.mark <= Len(w.memory)
    BY <2>1 DEF Held
  <2>3. ASSUME LifeAfter(w, TRUE) = "live"
        PROVE  Len(r.memory) = Len(w.view) + Len(r.buffered)
    <3>1. CASE Head(r.queue).kind = "append"
      <4>1. Head(r.queue).last
        BY <2>3, <3>1 DEF LifeAfter
      <4>2. Len(r.memory) = Len(r.view) + Len(b)
        BY <1>2, <2>1, <4>1 DEF Held
      <4>3. r.life = "storing" /\ r.buffered = <<>>
        BY <1>1, <3>1, FirstOperation
      <4>4. Len(r.buffered) = 0
        BY Zenon, <4>3, Singles
      <4> QED
        BY <1>4, <1>5, <4>2, <4>4
    <3>2. CASE Head(r.queue).kind # "append"
      <4>1. r.life = "live"
        BY <2>3, <3>2 DEF LifeAfter
      <4>2. Len(r.memory) = Len(r.view) + (Len(Carried(r)) + Len(r.buffered))
        BY <1>8, <2>1, <4>1 DEF Held
      <4>3. Carried(r) = b
        BY <1>1, <1>2, <1>3, <3>2
      <4>4. Len(r.memory) = Len(r.view) + (Len(b) + Len(r.buffered))
        BY Zenon, <4>2, <4>3
      <4>5. Len(r.view) + (Len(b) + Len(r.buffered)) = (Len(r.view) + Len(b)) + Len(r.buffered)
        BY ZenonT(60), <1>4, SumOfLengths
      <4> QED
        BY Zenon, <1>5, <4>4, <4>5
    <3> QED
      BY <3>1, <3>2
  <2> QED
    BY <1>7, <2>2, <2>3
<1> QED
  BY <1>1, <1>6, <1>7, <1>8, <1>9, SettledGood

-----------------------------------------------------------------------------
(* What the steps do to the handle that takes them.                        *)

\* A step that puts a handle changes no other.
LEMMA PutOne ==
    ASSUME handle \in [Handle -> HandleRecord], NEW h \in Handle, NEW s, Put(h, s)
    PROVE  /\ handle'[h] = s /\ \A g \in Handle : g # h => handle'[g] = handle[g]
           /\ s \in HandleRecord => handle' \in [Handle -> HandleRecord]
  BY DEF Put

\* A handle whose operation goes on: what changes is its stage.
Staged(r, s) ==
  /\ s \in HandleRecord /\ Keeps(r, s)
  /\ s.life = r.life /\ s.queue = r.queue /\ s.buffered = r.buffered
  /\ s.draining = r.draining /\ s.closing = r.closing /\ s.await = r.await
  /\ s.barrier = r.barrier /\ s.mark = r.mark /\ s.failed = r.failed

\* One stage changes nothing else.
LEMMA StagedFields ==
    ASSUME NEW r \in HandleRecord, NEW v \in {"idle", "lease", "truncate", "tail", "batch"}
    PROVE  LET s == [r EXCEPT !.stage = v] IN Staged(r, s) /\ s.stage = v
<1> DEFINE s == [r EXCEPT !.stage = v]
<1>1. s \in HandleRecord
  BY OneField
<1>2. /\ Keeps(r, s) /\ s.stage = v
      /\ s.life = r.life /\ s.queue = r.queue /\ s.buffered = r.buffered
      /\ s.draining = r.draining /\ s.closing = r.closing /\ s.await = r.await
      /\ s.barrier = r.barrier /\ s.mark = r.mark /\ s.failed = r.failed
  BY ZenonT(60) DEF HandleRecord, Keeps
<1> QED
  BY <1>1, <1>2 DEF Staged

\* What becomes of an operation once the lock is held: its batch does not continue
\* the log and it fails, or it writes.
Proceeded(r, s) ==
  \/ SettledTo(r, s, FALSE)
  \/ /\ Staged(r, s)
     /\ Head(r.queue).kind = "flush" => s.stage = "batch"
     /\ Head(r.queue).kind # "flush" =>
           /\ Slice(Head(r.queue).batch, r.memory, Len(r.view))
           /\ s.stage = IF r.torn THEN "truncate" ELSE IF r.tail # <<>> THEN "tail" ELSE "batch"

\* persistContiguous.
LEMMA ProceedEffect ==
    ASSUME NEW r, Loaded(r)
    PROVE  Proceeded(r, Proceed(r))
<1>1. r \in HandleRecord /\ Waits(r)
  BY DEF Loaded
<1>2. CASE Head(r.queue).kind = "flush"
  <2>1. Proceed(r) = [r EXCEPT !.stage = "batch"]
    BY <1>2 DEF Proceed
  <2> QED
    BY <1>1, <1>2, <2>1, StagedFields DEF Proceeded
<1>3. CASE /\ Head(r.queue).kind # "flush"
           /\ Head(Head(r.queue).batch).seq # Len(r.view) + 1
  <2>1. Proceed(r) = Settle(r, FALSE)
    BY <1>3 DEF Proceed
  <2> QED
    BY <1>1, <2>1, SettleFields DEF Proceeded
<1>4. CASE /\ Head(r.queue).kind # "flush"
           /\ Head(Head(r.queue).batch).seq = Len(r.view) + 1
  <2> DEFINE v == IF r.torn THEN "truncate" ELSE IF r.tail # <<>> THEN "tail" ELSE "batch"
  <2>1. Proceed(r) = [r EXCEPT !.stage = v]
    BY <1>4 DEF Proceed
  <2>2. v \in {"idle", "lease", "truncate", "tail", "batch"}
    OBVIOUS
  <2>3. Slice(Head(r.queue).batch, r.memory, Len(r.view))
    BY <1>4, CursorSlice
  <2>4. v = IF r.torn THEN "truncate" ELSE IF r.tail # <<>> THEN "tail" ELSE "batch"
    OBVIOUS
  <2> HIDE DEF v
  <2>5. Staged(r, Proceed(r)) /\ Proceed(r).stage = v
    <3>1. r \in HandleRecord
      BY <1>1
    <3>2. Staged(r, [r EXCEPT !.stage = v]) /\ [r EXCEPT !.stage = v].stage = v
      BY Zenon, <3>1, <2>2, StagedFields
    <3> QED
      BY Zenon, <2>1, <3>2
  <2>6. Proceed(r).stage =
          IF r.torn THEN "truncate" ELSE IF r.tail # <<>> THEN "tail" ELSE "batch"
    BY Zenon, <2>4, <2>5
  <2> QED
    BY Zenon, <1>4, <2>3, <2>5, <2>6 DEF Proceeded
<1> QED
  BY <1>2, <1>3, <1>4

\* A handle whose operation goes on is as the steps leave it.
LEMMA StagedGood ==
    ASSUME NEW r, Loaded(r), NEW s, Staged(r, s), s.stage # "idle",
           InWrite(s) /\ Head(r.queue).kind # "flush" =>
              Slice(Head(r.queue).batch, r.memory, Len(r.view))
    PROVE  Good(s)
<1>1. /\ s \in HandleRecord /\ s.phase = r.phase /\ s.memory = r.memory /\ s.view = r.view
      /\ s.life = r.life
      /\ s.queue = r.queue /\ s.buffered = r.buffered /\ s.draining = r.draining
      /\ s.closing = r.closing /\ s.await = r.await /\ s.barrier = r.barrier /\ s.mark = r.mark
  BY DEF Staged, Keeps
<1> QED
  BY <1>1, AdvancedGood

\* So is one that proceeded.
LEMMA ProceededGood ==
    ASSUME NEW r, Loaded(r), NEW s, Proceeded(r, s)
    PROVE  Good(s)
<1>1. CASE SettledTo(r, s, FALSE)
  BY <1>1, UnwrittenGood
<1>2. CASE ~SettledTo(r, s, FALSE)
  <2>1. /\ Staged(r, s)
        /\ Head(r.queue).kind = "flush" => s.stage = "batch"
        /\ Head(r.queue).kind # "flush" =>
              /\ Slice(Head(r.queue).batch, r.memory, Len(r.view))
              /\ s.stage = IF r.torn THEN "truncate" ELSE IF r.tail # <<>> THEN "tail" ELSE "batch"
    BY <1>2 DEF Proceeded
  <2>2. s.stage # "idle"
    BY <2>1
  <2> QED
    BY <2>1, <2>2, StagedGood
<1> QED
  BY <1>1, <1>2

\* How an operation starts. It is refused because the handle is closing; or a flush
\* of a stored session is done; or it waits for the lock; or it has it and goes on.
Begun(r, s) ==
  \/ Head(r.queue).kind # "drain" /\ SettledTo(r, s, FALSE) /\ UNCHANGED acked
  \/ /\ Head(r.queue).kind = "flush" /\ r.closing = "no" /\ r.materialized
     /\ SettledTo(r, s, TRUE) /\ Tell(Told(r))
  \/ /\ UNCHANGED acked
     /\ Head(r.queue).kind = "flush" => ~r.materialized
     /\ \/ r.lease = "none" /\ Staged(TakenFrom(r), s) /\ s.stage = "lease"
        \/ r.lease # "none" /\ Proceeded(TakenFrom(r), s)

\* The next operation of a chain starts.
LEMMA StartEffect ==
    ASSUME handle \in [Handle -> HandleRecord], NEW h \in Handle, Good(handle[h]),
           StartOperation(h)
    PROVE  LET r == handle[h]
               s == handle'[h]
           IN  /\ r.stage = "idle" /\ r.queue # <<>> /\ Loaded(TakenFrom(r))
               /\ Begun(r, s)
               /\ UNCHANGED <<claim, lock, disk, failures, crashes>>
               /\ \A g \in Handle : g # h => handle'[g] = handle[g]
<1> DEFINE r == handle[h]
           s == handle'[h]
           t == TakenFrom(r)
           op == Head(r.queue)
<1>1. r.stage = "idle" /\ r.queue # <<>> /\ UNCHANGED <<claim, lock, disk, failures, crashes>>
  BY DEF StartOperation
<1>2. Loaded(t) /\ Waits(r) /\ r \in HandleRecord
  BY <1>1, TakenLoaded, GoodWaits DEF Good
<1>3. \/ op.kind # "drain" /\ r.closing # "no" /\ Put(h, Settle(r, FALSE)) /\ UNCHANGED acked
      \/ /\ op.kind = "flush" /\ r.closing = "no" /\ r.materialized
         /\ Put(h, Settle(r, TRUE)) /\ Tell(Told(r))
      \/ /\ ~(op.kind # "drain" /\ r.closing # "no")
         /\ ~(op.kind = "flush" /\ r.closing = "no" /\ r.materialized)
         /\ Put(h, IF r.lease = "none" THEN [t EXCEPT !.stage = "lease"] ELSE Proceed(t))
         /\ UNCHANGED acked
  BY Zenon DEF StartOperation, TakenFrom
<1> HIDE DEF r, t
<1>4. CASE op.kind # "drain" /\ r.closing # "no" /\ Put(h, Settle(r, FALSE)) /\ UNCHANGED acked
  <2>1. s = Settle(r, FALSE) /\ \A g \in Handle : g # h => handle'[g] = handle[g]
    BY <1>4, PutOne
  <2>2. SettledTo(r, s, FALSE)
    BY <1>2, <2>1, SettleFields
  <2> QED
    BY <1>1, <1>2, <1>4, <2>1, <2>2 DEF Begun, r, t
<1>5. CASE /\ op.kind = "flush" /\ r.closing = "no" /\ r.materialized
           /\ Put(h, Settle(r, TRUE)) /\ Tell(Told(r))
  <2>1. s = Settle(r, TRUE) /\ \A g \in Handle : g # h => handle'[g] = handle[g]
    BY <1>5, PutOne
  <2>2. SettledTo(r, s, TRUE)
    BY <1>2, <2>1, SettleFields
  <2> QED
    BY <1>1, <1>2, <1>5, <2>1, <2>2 DEF Begun, r, t
<1>6. CASE /\ ~(op.kind # "drain" /\ r.closing # "no")
           /\ ~(op.kind = "flush" /\ r.closing = "no" /\ r.materialized)
           /\ Put(h, IF r.lease = "none" THEN [t EXCEPT !.stage = "lease"] ELSE Proceed(t))
           /\ UNCHANGED acked
  <2>1. /\ s = IF r.lease = "none" THEN [t EXCEPT !.stage = "lease"] ELSE Proceed(t)
        /\ \A g \in Handle : g # h => handle'[g] = handle[g]
    BY <1>6, PutOne
  <2>2. CASE r.lease = "none"
    <3>1. Staged(t, s) /\ s.stage = "lease"
      BY ZenonT(60), <1>2, <2>1, <2>2, StagedFields DEF Loaded
    <3> QED
      BY <1>1, <1>2, <1>6, <2>1, <2>2, <3>1 DEF Begun, r, t
  <2>3. CASE r.lease # "none"
    <3>1. Proceeded(t, s)
      BY <1>2, <2>1, <2>3, ProceedEffect
    <3> QED
      BY <1>1, <1>2, <1>6, <2>1, <2>3, <3>1 DEF Begun, r, t
  <2> QED
    BY <2>2, <2>3
<1> QED
  BY <1>3, <1>4, <1>5, <1>6

\* The fields of a handle that its chain and its events are about.
SameChain(r, s) ==
  /\ s.phase = r.phase /\ s.memory = r.memory /\ s.view = r.view /\ s.life = r.life
  /\ s.queue = r.queue /\ s.buffered = r.buffered /\ s.draining = r.draining
  /\ s.closing = r.closing /\ s.await = r.await /\ s.barrier = r.barrier /\ s.mark = r.mark
  /\ s.failed = r.failed

\* A chain waits whatever the handle knows of the file.
LEMMA SameWaits ==
    ASSUME NEW r, Waits(r), NEW s, s.queue = r.queue, s.buffered = r.buffered,
           s.draining = r.draining, s.closing = r.closing, s.await = r.await,
           s.barrier = r.barrier, s.life = r.life
    PROVE  Waits(s)
<1>1. Chain(s)
  BY DEF Waits, Chain
<1>2. Closing(s)
  BY DEF Waits, Closing
<1> QED
  BY <1>1, <1>2 DEF Waits

\* An operation keeps its batch whatever the handle learns of the file.
LEMMA SameLoaded ==
    ASSUME NEW r, Loaded(r), NEW s \in HandleRecord, SameChain(r, s), InWrite(s) => InWrite(r)
    PROVE  Loaded(s)
<1>1. Waits(s)
  BY SameWaits DEF Loaded, SameChain
<1>2. Carried(s) = Carried(r)
  BY DEF Carried, SameChain
<1>3. Pieces(s)
  BY <1>2 DEF Loaded, Pieces, SameChain
<1>4. Held(r) => Held(s)
  BY <1>2 DEF Held, SameChain
<1> QED
  BY <1>1, <1>3, <1>4 DEF Loaded, SameChain

\* ensureLease.
LEMMA LeaseEffect ==
    ASSUME handle \in [Handle -> HandleRecord], NEW h \in Handle, Good(handle[h]),
           EnsureLease(h)
    PROVE  LET r == handle[h]
               s == handle'[h]
               x == [r EXCEPT !.lease = "held"]
           IN  /\ r.stage = "lease" /\ Loaded(r) /\ r.queue # <<>>
               /\ UNCHANGED <<claim, disk, acked, failures, crashes>>
               /\ \A g \in Handle : g # h => handle'[g] = handle[g]
               /\ \/ lock = None /\ lock' = h /\ Loaded(x) /\ Proceeded(x, s)
                  \/ lock # None /\ lock' = lock /\ SettledTo(r, s, FALSE)
               /\ x \in HandleRecord /\ SameChain(r, x) /\ x.home = r.home /\ x.tail = r.tail
               /\ x.materialized = r.materialized /\ x.torn = r.torn /\ x.tornAt = r.tornAt
               /\ x.stage = r.stage /\ x.lease = "held"
<1> DEFINE r == handle[h]
           s == handle'[h]
           x == [r EXCEPT !.lease = "held"]
<1>1. /\ r.stage = "lease" /\ UNCHANGED <<claim, disk, acked, failures, crashes>>
      /\ \/ lock = None /\ lock' = h /\ Put(h, Proceed(x))
         \/ lock # None /\ lock' = lock /\ Put(h, Settle(r, FALSE))
  BY DEF EnsureLease
<1>2. Loaded(r) /\ r \in HandleRecord /\ Waits(r) /\ r.queue # <<>>
  BY <1>1, StartedLoaded DEF Good, Loaded, Waits
<1> HIDE DEF r
<1>3. x \in HandleRecord
  BY <1>2, OneField
<1>4. /\ SameChain(r, x) /\ x.home = r.home /\ x.tail = r.tail
      /\ x.materialized = r.materialized /\ x.torn = r.torn /\ x.tornAt = r.tornAt
      /\ x.stage = r.stage /\ x.lease = "held"
  BY <1>2, ZenonT(60) DEF HandleRecord, SameChain
<1> HIDE DEF x
<1>5. Loaded(x)
  BY <1>2, <1>3, <1>4, SameLoaded DEF InWrite
<1>6. CASE lock = None /\ lock' = h /\ Put(h, Proceed(x))
  <2>1. s = Proceed(x) /\ \A g \in Handle : g # h => handle'[g] = handle[g]
    BY <1>6, PutOne
  <2>2. Proceeded(x, s)
    BY <1>5, <2>1, ProceedEffect
  <2> QED
    BY <1>1, <1>2, <1>3, <1>4, <1>5, <1>6, <2>1, <2>2 DEF r, x
<1>7. CASE lock # None /\ lock' = lock /\ Put(h, Settle(r, FALSE))
  <2>1. s = Settle(r, FALSE) /\ \A g \in Handle : g # h => handle'[g] = handle[g]
    BY <1>7, PutOne
  <2>2. SettledTo(r, s, FALSE)
    BY <1>2, <2>1, SettleFields
  <2> QED
    BY <1>1, <1>2, <1>3, <1>4, <1>7, <2>1, <2>2 DEF r, x
<1> QED
  BY <1>1, <1>6, <1>7

\* truncateTornTail: the handle.
LEMMA TruncateEffect ==
    ASSUME handle \in [Handle -> HandleRecord], NEW h \in Handle, Good(handle[h]),
           TruncateTornTail(h)
    PROVE  LET r == handle[h]
               s == handle'[h]
           IN  /\ r.stage = "truncate" /\ Loaded(r) /\ r.queue # <<>> /\ Good(s)
               /\ UNCHANGED <<claim, lock, acked, failures, crashes>> /\ disk' = Cut(r.tornAt)
               /\ \A g \in Handle : g # h => handle'[g] = handle[g]
               /\ SameChain(r, s) /\ s.tail = r.tail /\ s.materialized = r.materialized
               /\ s.tornAt = r.tornAt /\ s.lease = r.lease /\ ~s.torn
               /\ s.stage = (IF r.tail # <<>> THEN "tail" ELSE "batch")
<1> DEFINE r == handle[h]
           s == handle'[h]
           v == IF r.tail # <<>> THEN "tail" ELSE "batch"
<1>1. /\ r.stage = "truncate" /\ UNCHANGED <<claim, lock, acked, failures, crashes>>
      /\ disk' = Cut(r.tornAt) /\ Put(h, [r EXCEPT !.torn = FALSE, !.stage = v])
  BY DEF TruncateTornTail
<1>2. Loaded(r) /\ r \in HandleRecord /\ r.queue # <<>> /\ Pieces(r)
  BY <1>1, StartedLoaded DEF Good, Loaded, Waits
<1>3. /\ s = [r EXCEPT !.torn = FALSE, !.stage = v]
      /\ \A g \in Handle : g # h => handle'[g] = handle[g]
  BY <1>1, PutOne
<1>4. v \in {"tail", "batch"} /\ v = (IF r.tail # <<>> THEN "tail" ELSE "batch")
  OBVIOUS
<1> HIDE DEF r, v, s
<1>5. s \in HandleRecord
  <2>1. [r EXCEPT !.torn = FALSE] \in HandleRecord
    BY <1>2, OneField
  <2> QED
    BY <1>3, <1>4, <2>1, OneField
<1>6. /\ SameChain(r, s) /\ s.tail = r.tail /\ s.materialized = r.materialized
      /\ s.tornAt = r.tornAt /\ s.lease = r.lease /\ ~s.torn /\ s.stage = v
  BY <1>2, <1>3, ZenonT(60) DEF HandleRecord, SameChain
<1>7. Head(r.queue).kind # "flush" => Slice(Head(r.queue).batch, r.memory, Len(r.view))
  BY <1>1, <1>2 DEF Pieces, InWrite
<1>8. Good(s)
  BY <1>2, <1>4, <1>5, <1>6, <1>7, AdvancedGood DEF SameChain
<1> QED
  BY <1>1, <1>2, <1>3, <1>4, <1>6, <1>8 DEF r, s

\* The rewriting of the recovered tail: the handle.
LEMMA RewriteEffect ==
    ASSUME handle \in [Handle -> HandleRecord], NEW h \in Handle, Good(handle[h]),
           RewriteTail(h)
    PROVE  LET r == handle[h]
               s == handle'[h]
           IN  /\ r.stage = "tail" /\ Loaded(r) /\ r.queue # <<>> /\ Good(s)
               /\ UNCHANGED <<claim, lock, acked, failures, crashes>> /\ disk' = Landed(r.tail)
               /\ \A g \in Handle : g # h => handle'[g] = handle[g]
               /\ SameChain(r, s) /\ s.tail = <<>> /\ s.materialized = r.materialized
               /\ s.tornAt = r.tornAt /\ s.lease = r.lease /\ s.torn = r.torn
               /\ s.stage = "batch"
<1> DEFINE r == handle[h]
           s == handle'[h]
<1>1. /\ r.stage = "tail" /\ UNCHANGED <<claim, lock, acked, failures, crashes>>
      /\ disk' = Landed(r.tail) /\ Put(h, [r EXCEPT !.tail = <<>>, !.stage = "batch"])
  BY DEF RewriteTail
<1>2. Loaded(r) /\ r \in HandleRecord /\ r.queue # <<>> /\ Pieces(r)
  BY <1>1, StartedLoaded DEF Good, Loaded, Waits
<1>3. /\ s = [r EXCEPT !.tail = <<>>, !.stage = "batch"]
      /\ \A g \in Handle : g # h => handle'[g] = handle[g]
  BY <1>1, PutOne
<1> HIDE DEF r, s
<1>4. s \in HandleRecord
  <2>1. <<>> \in Log
    BY DEF Log
  <2>2. [r EXCEPT !.tail = <<>>] \in HandleRecord
    BY <1>2, <2>1, OneField
  <2> QED
    BY <1>3, <2>2, OneField
<1>5. /\ SameChain(r, s) /\ s.tail = <<>> /\ s.materialized = r.materialized
      /\ s.tornAt = r.tornAt /\ s.lease = r.lease /\ s.torn = r.torn /\ s.stage = "batch"
  BY <1>2, <1>3, ZenonT(60) DEF HandleRecord, SameChain
<1>6. Head(r.queue).kind # "flush" => Slice(Head(r.queue).batch, r.memory, Len(r.view))
  BY <1>1, <1>2 DEF Pieces, InWrite
<1>7. Good(s)
  BY <1>2, <1>4, <1>5, <1>6, AdvancedGood DEF SameChain
<1> QED
  BY <1>1, <1>2, <1>3, <1>5, <1>7 DEF r, s

\* The handle as it is when its batch has landed.
WithBatch(r) == [r EXCEPT !.materialized = TRUE, !.view = @ \o Head(r.queue).batch]

\* persistBatch: the handle.
LEMMA PersistEffect ==
    ASSUME handle \in [Handle -> HandleRecord], NEW h \in Handle, Good(handle[h]),
           PersistBatch(h)
    PROVE  LET r == handle[h]
               s == handle'[h]
               w == WithBatch(r)
               b == Head(r.queue).batch
           IN  /\ r.stage = "batch" /\ Loaded(r) /\ r.queue # <<>> /\ Good(s)
               /\ UNCHANGED <<claim, lock, failures, crashes>>
               /\ \A g \in Handle : g # h => handle'[g] = handle[g]
               /\ \/ /\ r.materialized \/ ~disk.exists
                     /\ disk' = Landed(b) /\ SettledTo(w, s, TRUE) /\ Tell(Told(r))
                  \/ SettledTo(r, s, FALSE) /\ UNCHANGED <<disk, acked>>
               /\ w \in HandleRecord /\ w.materialized /\ w.view = r.view \o b
               /\ w.phase = r.phase /\ w.home = r.home /\ w.memory = r.memory
               /\ w.torn = r.torn /\ w.tornAt = r.tornAt /\ w.tail = r.tail /\ w.lease = r.lease
               /\ w.life = r.life /\ w.queue = r.queue /\ w.buffered = r.buffered
               /\ w.closing = r.closing /\ w.stage = r.stage /\ w.failed = r.failed
<1> DEFINE r == handle[h]
           s == handle'[h]
           w == WithBatch(r)
           b == Head(r.queue).batch
           v == r.view \o b
<1>1. /\ r.stage = "batch" /\ UNCHANGED <<claim, lock, failures, crashes>>
      /\ \/ /\ r.materialized \/ ~disk.exists
            /\ disk' = Landed(b) /\ Put(h, Settle(w, TRUE)) /\ Tell(Told(r))
         \/ Put(h, Settle(r, FALSE)) /\ UNCHANGED <<disk, acked>>
  BY DEF PersistBatch, WithBatch
<1>2. Loaded(r) /\ r \in HandleRecord /\ r.queue # <<>> /\ Waits(r) /\ InWrite(r)
  BY <1>1, StartedLoaded DEF Good, Loaded, Waits, InWrite
<1>3. v \in Log
  <2>1. r.view \in Seq(Event) /\ b \in Seq(Event)
    BY <1>2, LoadedEvents
  <2> QED
    BY <2>1, ConcatProperties DEF Log
<1>4. w = [r EXCEPT !.materialized = TRUE, !.view = v]
  BY DEF WithBatch
<1> HIDE DEF r, s, v, w
<1>5. w \in HandleRecord
  <2>1. [r EXCEPT !.materialized = TRUE] \in HandleRecord
    BY <1>2, OneField
  <2> QED
    BY <1>3, <1>4, <2>1, OneField
<1>6. /\ w.materialized /\ w.view = v
      /\ w.phase = r.phase /\ w.home = r.home /\ w.memory = r.memory
      /\ w.torn = r.torn /\ w.tornAt = r.tornAt /\ w.tail = r.tail /\ w.lease = r.lease
      /\ w.life = r.life /\ w.queue = r.queue /\ w.buffered = r.buffered
      /\ w.closing = r.closing /\ w.stage = r.stage /\ w.failed = r.failed
      /\ w.draining = r.draining /\ w.await = r.await /\ w.barrier = r.barrier
      /\ w.mark = r.mark
  BY <1>2, <1>4, ZenonT(60) DEF HandleRecord
<1>7. Waits(w)
  BY <1>2, <1>6, SameWaits
<1>8. CASE /\ r.materialized \/ ~disk.exists
           /\ disk' = Landed(b) /\ Put(h, Settle(w, TRUE)) /\ Tell(Told(r))
  <2>1. s = Settle(w, TRUE) /\ \A g \in Handle : g # h => handle'[g] = handle[g]
    BY <1>8, PutOne DEF s
  <2>2. SettledTo(w, s, TRUE)
    BY <1>5, <1>7, <2>1, SettleFields
  <2>3. w.view = r.view \o Head(r.queue).batch
    BY <1>6 DEF v
  <2>4. Good(s)
    BY <1>2, <1>5, <1>6, <1>7, <2>2, <2>3, WrittenGood
  <2> QED
    BY <1>1, <1>2, <1>5, <1>6, <1>8, <2>1, <2>2, <2>3, <2>4 DEF r, s, w
<1>9. CASE Put(h, Settle(r, FALSE)) /\ UNCHANGED <<disk, acked>>
  <2>1. s = Settle(r, FALSE) /\ \A g \in Handle : g # h => handle'[g] = handle[g]
    BY <1>9, PutOne DEF s
  <2>2. SettledTo(r, s, FALSE)
    BY <1>2, <2>1, SettleFields
  <2>3. Good(s)
    BY <1>2, <2>2, UnwrittenGood
  <2>4. w.view = r.view \o Head(r.queue).batch
    BY <1>6 DEF v
  <2> QED
    BY <1>1, <1>2, <1>5, <1>6, <1>9, <2>1, <2>2, <2>3, <2>4 DEF r, s, w
<1> QED
  BY <1>1, <1>8, <1>9

\* An operation whose I/O rejects.
LEMMA FailEffect ==
    ASSUME handle \in [Handle -> HandleRecord], NEW h \in Handle, Good(handle[h]),
           FailOperation(h)
    PROVE  LET r == handle[h]
               s == handle'[h]
           IN  /\ r.stage # "idle" /\ Loaded(r) /\ r.queue # <<>> /\ Good(s)
               /\ UNCHANGED <<claim, lock, acked, crashes>>
               /\ failures < MaxFailure /\ failures' = failures + 1
               /\ \A g \in Handle : g # h => handle'[g] = handle[g]
               /\ SettledTo(r, s, FALSE)
               /\ \/ UNCHANGED disk
                  \/ r.stage = "truncate" /\ disk' = Cut(r.tornAt)
                  \/ /\ r.stage = "batch" /\ ~r.materialized /\ ~disk.exists
                     /\ disk' = Landed(Head(r.queue).batch)
                  \/ LeftBytes /\ r.stage \in {"tail", "batch"} /\ LeftBehind(h)
<1> DEFINE r == handle[h]
           s == handle'[h]
<1>1. /\ r.stage # "idle" /\ UNCHANGED <<claim, lock, acked, crashes>>
      /\ failures < MaxFailure /\ failures' = failures + 1 /\ Put(h, Settle(r, FALSE))
      /\ \/ UNCHANGED disk
         \/ r.stage = "truncate" /\ disk' = Cut(r.tornAt)
         \/ /\ r.stage = "batch" /\ ~r.materialized /\ ~disk.exists
            /\ disk' = Landed(Head(r.queue).batch)
         \/ LeftBytes /\ r.stage \in {"tail", "batch"} /\ LeftBehind(h)
  BY DEF FailOperation
<1>2. Loaded(r) /\ r \in HandleRecord /\ r.queue # <<>> /\ Waits(r)
  BY <1>1, StartedLoaded DEF Good, Loaded, Waits
<1> HIDE DEF r
<1>3. s = Settle(r, FALSE) /\ \A g \in Handle : g # h => handle'[g] = handle[g]
  BY <1>1, PutOne
<1>4. SettledTo(r, s, FALSE)
  BY <1>2, <1>3, SettleFields
<1>5. Good(s)
  BY <1>2, <1>4, UnwrittenGood
<1> QED
  BY <1>1, <1>2, <1>3, <1>4, <1>5 DEF r

-----------------------------------------------------------------------------
(* What the session, the timer and a close do to a handle.                 *)

\* What a chain without a drain is, while the session is live or in setup.
LEMMA Undrained ==
    ASSUME NEW r, Good(r), ~r.draining
    PROVE  /\ \/ r.queue = <<>>
              \/ Len(r.queue) = 1 /\ r.queue[1].kind \in {"append", "flush"}
           /\ r.life = "live" => r.queue = <<>> \/ r.queue[1].kind = "flush"
           /\ r.life = "setup" => r.queue = <<>> /\ r.buffered = <<>>
           /\ r.queue = <<>> =>
                  r.stage = "idle" /\ r.closing \notin {"draining", "settling", "last"}
           /\ r.barrier # "draining" /\ r.closing # "draining"
           /\ r.barrier = "none" /\ r.life = "live" => r.queue = <<>>
<1>1. r \in HandleRecord /\ Chain(r) /\ Closing(r)
  BY DEF Good, Chained
<1>2. CASE r.queue = <<>>
  BY <1>1, <1>2 DEF Chain, Closing
<1>3. CASE r.queue # <<>>
  <2>1. /\ Waits(r) /\ Head(r.queue) = r.queue[1]
    BY <1>3, GoodWaits
  <2>2. r.queue[1] \in Op /\ (Len(r.queue) = 1 \/ Len(r.queue) = 2)
    BY <1>1, <1>3, ChainFields, ShortQueues DEF Chain
  <2>3. Len(r.queue) = 1
    BY <1>1, <1>3, <2>2 DEF Chain
  <2>4. r.queue[1].kind \in {"append", "flush"}
    BY <1>1, <1>3, <2>2, <2>3, Operations DEF Chain
  <2>5. /\ r.barrier = "flushing" <=> r.queue[1].kind = "flush"
        /\ r.life = "storing" <=> r.queue[1].kind = "append"
        /\ r.life # "live" => r.barrier = "none"
        /\ r.barrier # "draining" /\ r.closing # "draining"
    BY <1>1, <1>3 DEF Chain, Closing
  <2> QED
    BY <1>3, <2>3, <2>4, <2>5
<1> QED
  BY <1>2, <1>3

\* A drain added to a chain without one.
LEMMA AddedDrain ==
    ASSUME NEW r, Good(r), ~r.draining, r.life = "live"
    PROVE  LET q == Append(r.queue, Drain)
           IN  /\ q \in Seq(Op) /\ q # <<>>
               /\ \/ r.queue = <<>> /\ q = <<Drain>>
                  \/ /\ Len(r.queue) = 1 /\ r.queue[1].kind = "flush" /\ r.queue # <<>>
                     /\ Len(q) = 2 /\ q[1] = r.queue[1] /\ q[2] = Drain
<1>1. r.queue \in Seq(Op) /\ Drain \in Op
  BY ChainFields, Operations DEF Good
<1>2. /\ Append(r.queue, Drain) \in Seq(Op) /\ Append(r.queue, Drain) # <<>>
      /\ Len(Append(r.queue, Drain)) = Len(r.queue) + 1
      /\ \A i \in 1 .. Len(r.queue) : Append(r.queue, Drain)[i] = r.queue[i]
      /\ Append(r.queue, Drain)[Len(r.queue) + 1] = Drain
  BY <1>1, AppendProperties
<1>3. \/ r.queue = <<>>
      \/ Len(r.queue) = 1 /\ r.queue[1].kind = "flush" /\ r.queue # <<>>
  BY Undrained
<1>4. CASE r.queue = <<>>
  BY <1>2, <1>4, Singles
<1>5. CASE Len(r.queue) = 1 /\ r.queue[1].kind = "flush" /\ r.queue # <<>>
  BY <1>2, <1>5
<1> QED
  BY <1>3, <1>4, <1>5

\* A chain that is left alone, or gets a drain or a flush.
QueueKept(r, s) ==
  \/ s.queue = r.queue
  \/ r.queue = <<>> /\ s.queue \in {<<Drain>>, <<Flush>>}
  \/ /\ Len(r.queue) = 1 /\ r.queue[1].kind = "flush" /\ r.queue # <<>>
     /\ Len(s.queue) = 2 /\ s.queue[1] = r.queue[1] /\ s.queue[2] = Drain /\ s.queue # <<>>

\* A handle whose chain is tended is as the steps leave it.
LEMMA TendedGood ==
    ASSUME NEW r, Good(r), NEW s \in HandleRecord, Keeps(r, s), r.phase \in {"open", "closed"},
           s.stage = r.stage, s.life = r.life, s.buffered = r.buffered,
           Chain(s), Closing(s), QueueKept(r, s), s.draining /\ ~r.draining => s.buffered # <<>>,
           ~SetupRace => /\ s.barrier = "flushing" => s.mark <= Len(r.view)
                         /\ s.barrier = "draining" => s.mark <= Len(r.memory)
    PROVE  Good(s)
<1>1. r \in HandleRecord /\ Chain(r) /\ Batches(r) /\ Pieces(r) /\ (~SetupRace => Held(r))
  BY DEF Good, Chained
<1>2. s.phase = r.phase /\ s.memory = r.memory /\ s.view = r.view
  BY DEF Keeps
<1>3. r.queue \in Seq(Op) /\ s.queue \in Seq(Op)
  BY <1>1, ChainFields
<1>4. CASE s.queue = r.queue
  <2>1. Carried(s) = Carried(r)
    BY <1>4 DEF Carried
  <2>2. Started(s) <=> Started(r)
    BY <1>4 DEF Started
  <2>3. s.draining <=> r.draining
    BY <1>1, <1>4 DEF Chain
  <2>4. Batches(s)
    BY <1>1, <1>4, <2>2, <2>3 DEF Batches
  <2>5. Pieces(s)
    BY <1>1, <1>2, <1>4, <2>1 DEF Pieces, InWrite
  <2>6. ~SetupRace => Held(s)
    BY <1>1, <1>2, <1>4, <2>1 DEF Held
  <2> QED
    BY <1>2, <2>4, <2>5, <2>6 DEF Good, Chained, Unopened
<1>5. CASE r.queue = <<>> /\ s.queue \in {<<Drain>>, <<Flush>>}
  <2>1. s.stage = "idle" /\ ~r.draining
    BY <1>1, <1>5 DEF Chain
  <2>2. Len(s.queue) = 1 /\ s.queue[1] \in {Drain, Flush} /\ Head(s.queue) \in {Drain, Flush}
    BY <1>5, Singles
  <2>3. Carried(s) = <<>> /\ Carried(r) = <<>> /\ ~Started(s)
    BY <1>5, <2>1, <2>2, Operations DEF Carried, Started
  <2>4. Batches(s)
    BY <2>1, <2>2, <2>3, Operations DEF Batches
  <2>5. Pieces(s)
    BY <1>1, <1>2, <2>1, <2>2, <2>3, Operations DEF Pieces, InWrite
  <2>6. ~SetupRace => Held(s)
    BY <1>1, <1>2, <2>2, <2>3, Operations DEF Held
  <2> QED
    BY <1>2, <2>4, <2>5, <2>6 DEF Good, Chained, Unopened
<1>6. CASE /\ Len(r.queue) = 1 /\ r.queue[1].kind = "flush" /\ r.queue # <<>>
           /\ Len(s.queue) = 2 /\ s.queue[1] = r.queue[1] /\ s.queue[2] = Drain /\ s.queue # <<>>
  <2>1. Head(s.queue) = s.queue[1] /\ Head(r.queue) = r.queue[1]
    BY <1>3, <1>6
  <2>2. Carried(s) = <<>> /\ Carried(r) = <<>> /\ ~Started(s) /\ ~r.draining
    BY <1>1, <1>6, <2>1 DEF Carried, Started, Chain
  <2>3. s.draining /\ s.buffered # <<>>
    BY <1>6, <2>2, Operations DEF Chain
  <2>4. 1 \in 1 .. Len(r.queue)
    BY <1>6
  <2>5. s.queue[1].batch = <<>> /\ ~s.queue[1].last
    <3>1. s.queue[1] \in Op
      BY <1>3, <1>6, <2>4, ElementOfSeq
    <3> QED
      BY <1>1, <1>6, <2>4, <3>1, Operations DEF Batches
  <2>6. Batches(s)
    <3>1. \A n \in 1 .. Len(s.queue) : n = 1 \/ n = 2
      BY <1>6
    <3>2. \A n \in 1 .. Len(s.queue) :
             LET op == s.queue[n]
             IN  /\ op.kind = "flush" => op.batch = <<>>
                 /\ op.kind = "drain" /\ (n = 1 => s.stage = "idle") => op.batch = <<>>
                 /\ op.kind = "append" => op.batch # <<>>
                 /\ op.last => op.kind = "append"
      BY <1>6, <2>5, <3>1, Operations
    <3> QED
      BY <2>2, <2>3, <3>2 DEF Batches
  <2>7. Pieces(s)
    BY <1>1, <1>2, <1>6, <2>1, <2>2 DEF Pieces, InWrite
  <2>8. ~SetupRace => Held(s)
    BY <1>1, <1>2, <1>6, <2>1, <2>2, <2>5 DEF Held
  <2> QED
    BY <1>2, <2>6, <2>7, <2>8 DEF Good, Chained, Unopened
<1> QED
  BY <1>4, <1>5, <1>6 DEF QueueKept

\* A log with every event in its place, and the next event.
LEMMA NumberedGrows ==
    ASSUME NEW m \in Seq(Event), Numbered(m), NEW e \in Event, e.seq = Len(m) + 1
    PROVE  Numbered(Append(m, e))
<1>1. /\ Len(Append(m, e)) = Len(m) + 1 /\ Append(m, e)[Len(m) + 1] = e
      /\ \A i \in 1 .. Len(m) : Append(m, e)[i] = m[i]
  BY AppendProperties
<1> QED
  BY <1>1 DEF Numbered

\* An event that joins the second sequence joins the two.
LEMMA AppendsLast ==
    ASSUME NEW S, NEW s \in Seq(S), NEW t \in Seq(S), NEW e \in S
    PROVE  s \o Append(t, e) = Append(s \o t, e)
<1>1. Append(t, e) = t \o <<e>> /\ <<e>> \in Seq(S) /\ s \o t \in Seq(S)
  BY AppendIsConcat, ConcatProperties
<1>2. s \o (t \o <<e>>) = (s \o t) \o <<e>>
  BY <1>1, ConcatAssociative
<1>3. Append(s \o t, e) = (s \o t) \o <<e>>
  BY <1>1, AppendIsConcat
<1> QED
  BY <1>1, <1>2, <1>3

\* The session gained an event: in setup it is only in memory, later it is buffered.
LEMMA GrownGood ==
    ASSUME NEW r, Good(r), r.phase = "open", NEW e \in Event, e.seq = Len(r.memory) + 1,
           NEW s \in HandleRecord, s.memory = Append(r.memory, e),
           s.phase = r.phase, s.view = r.view, s.life = r.life, s.queue = r.queue,
           s.stage = r.stage, s.draining = r.draining, s.closing = r.closing,
           s.await = r.await, s.barrier = r.barrier, s.mark = r.mark,
           \/ /\ r.life # "live" /\ s.buffered = r.buffered
              /\ ~SetupRace => (r.queue # <<>> => ~Head(r.queue).last)
           \/ r.life = "live" /\ s.buffered = Append(r.buffered, e)
    PROVE  Good(s)
<1>1. /\ r \in HandleRecord /\ Chain(r) /\ Closing(r) /\ Batches(r) /\ Pieces(r)
      /\ ~SetupRace => Held(r)
  BY DEF Good, Chained
<1>2. /\ r.memory \in Seq(Event) /\ r.view \in Seq(Event) /\ r.buffered \in Seq(Event)
      /\ r.queue \in Seq(Op) /\ Len(r.view) \in Nat /\ Len(r.memory) \in Nat
      /\ r.mark \in 0 .. MaxEvent
  BY <1>1, ChainFields, EventFields, LenProperties
<1>3. r.queue # <<>> => Head(r.queue) \in Op /\ Head(r.queue).batch \in Seq(Event)
  BY <1>2, Operations
<1>4. /\ s.buffered # <<>> \/ s.buffered = r.buffered
      /\ s.life # "live" => s.buffered = r.buffered
  BY <1>2, AppendProperties
<1>5. Chain(s)
  BY <1>1, <1>4 DEF Chain
<1>6. Closing(s)
  BY <1>1 DEF Closing
<1>7. Started(s) <=> Started(r)
  BY DEF Started
<1>8. Batches(s)
  BY <1>1, <1>4, <1>7 DEF Batches
<1>9. Carried(s) = Carried(r)
  BY DEF Carried
<1>10. Carried(r) \in Seq(Event)
  BY <1>1, <1>3, CarriedEvents
<1>11. /\ Ending(Carried(s) \o s.buffered, s.memory)
       /\ r.life = "live" => Len(Carried(s) \o s.buffered) = Len(Carried(r) \o r.buffered) + 1
  <2>1. CASE r.life # "live"
    <3>1. r.buffered = <<>> /\ Carried(r) = <<>>
      <4>1. r.buffered = <<>> /\ ~r.draining
        BY <1>1, <2>1 DEF Chain
      <4>2. r.queue # <<>> => Head(r.queue).kind # "drain"
        BY <1>1, <4>1, GoodWaits, FirstOperation
      <4> QED
        BY <4>1, <4>2 DEF Carried
    <3>2. Carried(s) \o s.buffered = <<>>
      BY <1>9, <2>1, <3>1, NoEvents
    <3>3. Len(s.memory) \in Nat
      BY EventFields, LenProperties
    <3>4. Ending(<<>>, s.memory)
      <4> DEFINE m == s.memory
      <4>1. Len(m) \in Nat
        BY <3>3
      <4> HIDE DEF m
      <4>2. Ending(<<>>, m)
        BY <4>1 DEF Ending, Slice
      <4> QED
        BY <4>2 DEF m
    <3> QED
      BY Zenon, <2>1, <3>2, <3>4
  <2>2. CASE r.life = "live"
    <3> DEFINE c == Carried(r) \o r.buffered
    <3>1. s.buffered = Append(r.buffered, e)
      BY <2>2
    <3>2. Carried(r) \o Append(r.buffered, e) = Append(c, e)
      <4>1. Carried(r) \in Seq(Event) /\ r.buffered \in Seq(Event) /\ e \in Event
        BY <1>2, <1>10
      <4> QED
        BY <4>1, AppendsLast
    <3>3. c \in Seq(Event) /\ Ending(c, r.memory)
      BY <1>1, <1>2, <1>10, ConcatProperties DEF Pieces
    <3> HIDE DEF c
    <3>4. Ending(Append(c, e), Append(r.memory, e))
      BY <1>2, <3>3, EndingGrows
    <3>5. Len(Append(c, e)) = Len(c) + 1
      BY <3>3, AppendProperties
    <3> QED
      BY <1>9, <3>1, <3>2, <3>4, <3>5 DEF c
  <2> QED
    BY <2>1, <2>2
<1>12. Pieces(s)
  <2>1. Numbered(s.memory)
    BY <1>1, <1>2, NumberedGrows DEF Pieces
  <2>2. Slice(s.view, s.memory, 0)
    BY <1>1, <1>2, SliceGrows DEF Pieces
  <2>3. \A b \in Seq(Event) : Slice(b, r.memory, Len(r.view)) => Slice(b, s.memory, Len(s.view))
    BY <1>2, SliceGrows
  <2>4. s.queue # <<>> /\ Head(s.queue).kind = "append" =>
          Slice(Head(s.queue).batch, s.memory, Len(s.view))
    BY <1>1, <1>3, <2>3 DEF Pieces
  <2>5. InWrite(s) /\ Head(s.queue).kind # "flush" =>
          Slice(Head(s.queue).batch, s.memory, Len(s.view))
    <3>1. InWrite(s) => r.queue # <<>> /\ InWrite(r)
      BY <1>1 DEF InWrite, Chain
    <3> QED
      BY <1>1, <1>3, <2>3, <3>1 DEF Pieces
  <2> QED
    BY <1>11, <2>1, <2>2, <2>4, <2>5 DEF Pieces
<1>13. ASSUME ~SetupRace PROVE Held(s)
  <2>1. Len(s.memory) = Len(r.memory) + 1
    BY <1>2, AppendProperties
  <2>2. s.life = "live" => Len(s.memory) = Len(s.view) + Len(Carried(s) \o s.buffered)
    <3> DEFINE k == Len(Carried(r) \o r.buffered)
               v == Len(r.view)
    <3>1. k \in Nat /\ v \in Nat
      BY <1>2, <1>10, ConcatProperties, LenProperties
    <3>2. r.life = "live" => Len(r.memory) = v + k
      BY <1>1, <1>13 DEF Held
    <3>3. r.life = "live" => Len(Carried(s) \o s.buffered) = k + 1
      BY <1>11
    <3>4. Len(s.view) = v
      OBVIOUS
    <3> HIDE DEF k, v
    <3>5. (v + k) + 1 = v + (k + 1)
      BY <3>1
    <3> QED
      BY <2>1, <3>2, <3>3, <3>4, <3>5
  <2>3. s.queue # <<>> => ~Head(s.queue).last
    <3>1. CASE r.life # "live"
      BY <1>13, <3>1
    <3>2. CASE r.life = "live"
      <4>1. r.queue # <<>> => Waits(r) /\ (Head(r.queue).last => Head(r.queue).kind = "append")
        BY GoodWaits
      <4>2. r.queue # <<>> => Head(r.queue).kind # "append"
        BY <1>1, <3>2, <4>1, FirstOperation
      <4> QED
        BY <4>1, <4>2
    <3> QED
      BY <3>1, <3>2
  <2>4. /\ s.barrier = "flushing" => s.mark <= Len(s.view)
        /\ s.barrier = "draining" => s.mark <= Len(s.memory)
    BY <1>1, <1>2, <1>13, <2>1 DEF Held
  <2> QED
    BY <2>2, <2>3, <2>4 DEF Held
<1> QED
  BY <1>5, <1>6, <1>8, <1>12, <1>13 DEF Good, Chained, Unopened

\* What the lock and the file see of a handle.
SameFile(r, s) ==
  /\ s.phase = r.phase /\ s.view = r.view /\ s.materialized = r.materialized
  /\ s.torn = r.torn /\ s.tornAt = r.tornAt /\ s.tail = r.tail /\ s.lease = r.lease

\* A close goes on, or it comes to free the lock of a handle with nothing left to do.
Closes(r, s) ==
  /\ r.closing \in {"releasing", "freed"} => s.closing = r.closing
  /\ s.closing \in {"releasing", "freed"} =>
        \/ s.closing = r.closing
        \/ s.closing = Freeing(r) /\ s.queue = <<>> /\ (s.failed \/ s.buffered = <<>>)

\* What the session, the timer and a caller of close may do to a handle.
Tended(r, s) ==
  /\ Good(s) /\ r.phase \in {"open", "closed"} /\ SameFile(r, s) /\ s.stage = r.stage
  /\ Closes(r, s)
  /\ r.stage # "idle" => Head(s.queue) = Head(r.queue)
  /\ r.closing \in {"releasing", "freed"} => LateProducer \/ LateTimer
  /\ s.memory = r.memory \/ Len(s.memory) = Len(r.memory) + 1
  /\ s.mark = r.mark \/ s.mark = Len(r.memory)

\* An event is appended.
LEMMA EmitEffect ==
    ASSUME handle \in [Handle -> HandleRecord], NEW h \in Handle, Good(handle[h]), Emit(h)
    PROVE  /\ UNCHANGED <<claim, lock, disk, acked, failures, crashes>>
           /\ \A g \in Handle : g # h => handle'[g] = handle[g]
           /\ Tended(handle[h], handle'[h])
<1> DEFINE r == handle[h]
           s == handle'[h]
           e == [seq |-> Len(r.memory) + 1, by |-> h]
           m == Append(r.memory, e)
           b == Append(r.buffered, e)
           v == r.timer \/ ~r.paused
<1>1. /\ r.phase = "open" /\ Len(r.memory) < MaxEvent /\ Listening(r)
      /\ UNCHANGED <<claim, lock, disk, acked, failures, crashes>>
      /\ \/ /\ r.life \in {"setup", "storing"}
            /\ (\E n \in DOMAIN r.queue : r.queue[n].last) => SetupRace
            /\ Put(h, [r EXCEPT !.memory = m])
         \/ r.life = "live" /\ Put(h, [r EXCEPT !.memory = m, !.buffered = b, !.timer = v])
  BY DEF Emit, Open
<1>2. /\ r \in HandleRecord /\ Good(r) /\ Chain(r)
      /\ r.memory \in Seq(Event) /\ r.buffered \in Seq(Event) /\ r.queue \in Seq(Op)
      /\ v \in BOOLEAN
  BY EventFields, ChainFields, StateFields DEF Good, Chained
<1>3. e \in Event /\ e.seq = Len(r.memory) + 1
  <2> DEFINE n == Len(r.memory)
  <2>1. n \in Nat /\ n < MaxEvent
    BY <1>1, <1>2, LenProperties
  <2> HIDE DEF n
  <2>2. n + 1 \in 1 .. MaxEvent
    BY <2>1, BoundAssumption
  <2>3. Len(r.memory) + 1 \in 1 .. MaxEvent
    BY <2>2 DEF n
  <2> QED
    BY <2>3 DEF Event
<1>4. m \in Log /\ b \in Log
  BY <1>2, <1>3, AppendProperties DEF Log
<1>5. r.closing \in {"releasing", "freed"} => LateProducer \/ LateTimer
  BY <1>1 DEF Listening
<1>6. /\ m = Append(r.memory, e) /\ b = Append(r.buffered, e)
      /\ Len(m) = Len(r.memory) + 1
  BY <1>2, <1>3, AppendProperties
<1> HIDE DEF r, s, e, m, b, v
<1>7. CASE /\ r.life \in {"setup", "storing"}
           /\ (\E n \in DOMAIN r.queue : r.queue[n].last) => SetupRace
           /\ Put(h, [r EXCEPT !.memory = m])
  <2>1. /\ s = [r EXCEPT !.memory = m]
        /\ \A g \in Handle : g # h => handle'[g] = handle[g]
    BY <1>7, PutOne DEF s
  <2>2. s \in HandleRecord
    BY <1>2, <1>4, <2>1, OneField
  <2>3. /\ SameFile(r, s) /\ s.memory = m /\ s.life = r.life /\ s.queue = r.queue
        /\ s.stage = r.stage /\ s.draining = r.draining /\ s.closing = r.closing
        /\ s.await = r.await /\ s.barrier = r.barrier /\ s.mark = r.mark
        /\ s.buffered = r.buffered
    BY <1>2, <2>1, ZenonT(60) DEF HandleRecord, SameFile
  <2>4. ~SetupRace => (r.queue # <<>> => ~Head(r.queue).last)
    BY <1>2, <1>7
  <2>5. Good(s)
    BY <1>1, <1>2, <1>3, <1>6, <1>7, <2>2, <2>3, <2>4, GrownGood DEF SameFile
  <2> QED
    BY <1>1, <1>5, <1>6, <2>1, <2>3, <2>5 DEF Tended, Closes, r, s
<1>8. CASE r.life = "live" /\ Put(h, [r EXCEPT !.memory = m, !.buffered = b, !.timer = v])
  <2>1. /\ s = [r EXCEPT !.memory = m, !.buffered = b, !.timer = v]
        /\ \A g \in Handle : g # h => handle'[g] = handle[g]
    BY <1>8, PutOne DEF s
  <2>2. s \in HandleRecord
    <3>1. [r EXCEPT !.memory = m] \in HandleRecord
      BY <1>2, <1>4, OneField
    <3>2. [r EXCEPT !.memory = m, !.buffered = b] \in HandleRecord
      BY <1>4, <3>1, OneField
    <3> QED
      BY <1>2, <2>1, <3>2, OneField
  <2>3. /\ SameFile(r, s) /\ s.memory = m /\ s.life = r.life /\ s.queue = r.queue
        /\ s.stage = r.stage /\ s.draining = r.draining /\ s.closing = r.closing
        /\ s.await = r.await /\ s.barrier = r.barrier /\ s.mark = r.mark
        /\ s.buffered = b
    BY <1>2, <2>1, ZenonT(60) DEF HandleRecord, SameFile
  <2>4. Good(s)
    BY <1>1, <1>2, <1>3, <1>6, <1>8, <2>2, <2>3, GrownGood DEF SameFile
  <2> QED
    BY <1>1, <1>5, <1>6, <2>1, <2>3, <2>4 DEF Tended, Closes, r, s
<1> QED
  BY <1>1, <1>7, <1>8

\* The session becomes live, or its suffix is queued.
LEMMA SuffixGood ==
    ASSUME NEW r, Good(r), r.life = "setup", r.closing = "no", r.phase = "open",
           NEW s \in HandleRecord, s.memory = r.memory, s.phase = r.phase, s.view = r.view,
           s.stage = r.stage, s.draining = r.draining, s.closing = r.closing,
           s.buffered = r.buffered,
           s.await = r.await, s.barrier = r.barrier, s.mark = r.mark,
           NEW x \in Seq(Event), Slice(x, r.memory, Len(r.view)),
           Len(r.memory) = Len(r.view) + Len(x), NEW op \in Op, op.kind = "append", op.batch = x,
           \/ x = <<>> /\ s.life = "live" /\ s.queue = r.queue
           \/ x # <<>> /\ s.life = "storing" /\ s.queue = <<op>>
    PROVE  Good(s) /\ r.queue = <<>> /\ r.stage = "idle"
<1>1. /\ r \in HandleRecord /\ Chain(r) /\ Closing(r) /\ Pieces(r)
      /\ r.buffered = <<>> /\ ~r.draining /\ r.barrier = "none" /\ r.queue = <<>>
      /\ r.stage = "idle"
  <2>1. r \in HandleRecord /\ Chain(r) /\ Closing(r) /\ Pieces(r)
    BY DEF Good, Chained
  <2>2. ~r.draining /\ r.barrier = "none" /\ r.buffered = <<>>
    BY <2>1 DEF Chain
  <2>3. r.queue = <<>> /\ r.stage = "idle"
    BY <2>2, Undrained
  <2> QED
    BY <2>1, <2>2, <2>3
<1>2. /\ Len(<<op>>) = 1 /\ <<op>>[1] = op /\ Head(<<op>>) = op /\ <<op>> # <<>>
      /\ Len(<<>>) = 0 /\ <<>> \o <<>> = <<>>
  OBVIOUS
<1>3. Chain(s)
  <2>1. CASE x = <<>>
    BY <1>1, <2>1 DEF Chain
  <2>2. CASE x # <<>>
    <3>1. s.queue = <<op>> /\ Len(s.queue) = 1 /\ s.queue[1] = op /\ s.queue # <<>>
      BY <1>2, <2>2
    <3>2. s.life = "storing"
      BY <2>2
    <3> QED
      BY <1>1, <3>1, <3>2 DEF Chain
  <2> QED
    BY <2>1, <2>2
<1>4. Closing(s)
  BY <1>1 DEF Closing
<1>5. ~Started(s) /\ ~InWrite(s)
  BY <1>1 DEF Started, InWrite
<1>6. Batches(s)
  <2>1. CASE s.queue = <<>>
    BY <1>1, <1>5, <2>1 DEF Batches
  <2>2. CASE x # <<>> /\ s.queue = <<op>>
    <3>1. \A n \in 1 .. Len(s.queue) : s.queue[n] = op
      BY <1>2, <2>2
    <3> QED
      BY <1>1, <1>5, <2>2, <3>1 DEF Batches
  <2> QED
    BY <1>1, <2>1, <2>2
<1>7. Carried(s) = <<>> /\ Carried(s) \o s.buffered = <<>>
  BY <1>1, <1>2 DEF Carried
<1>8. Pieces(s)
  <2>1. Ending(<<>>, r.memory)
    BY <1>1, EventFields, LenProperties DEF Ending, Slice
  <2>2. s.queue # <<>> => Head(s.queue).batch = x
    BY <1>1, <1>2
  <2> QED
    BY <1>1, <1>5, <1>7, <2>1, <2>2 DEF Pieces
<1>9. Held(s)
  <2>1. s.life = "live" => Len(s.memory) = Len(s.view) + Len(Carried(s) \o s.buffered)
    <3>1. CASE x = <<>>
      BY <1>2, <1>7, <3>1
    <3>2. CASE x # <<>>
      BY <3>2
    <3> QED
      BY <3>1, <3>2
  <2>2. s.queue # <<>> => Head(s.queue).batch = x
    BY <1>1, <1>2
  <2> QED
    BY <1>1, <2>1, <2>2 DEF Held
<1> QED
  BY <1>1, <1>3, <1>4, <1>6, <1>8, <1>9 DEF Good, Chained, Unopened

\* appendUnstoredSuffix.
LEMMA AppendEffect ==
    ASSUME handle \in [Handle -> HandleRecord], NEW h \in Handle, Good(handle[h]),
           NEW last \in BOOLEAN, AppendSuffix(h, last)
    PROVE  /\ UNCHANGED <<claim, lock, disk, acked, failures, crashes>>
           /\ \A g \in Handle : g # h => handle'[g] = handle[g]
           /\ Tended(handle[h], handle'[h])
<1> DEFINE r == handle[h]
           s == handle'[h]
           x == SubSeq(r.memory, Len(r.view) + 1, Len(r.memory))
           op == Operation("append", x, last)
           q == Append(r.queue, op)
<1>1. /\ r.phase = "open" /\ r.life = "setup" /\ r.closing = "no"
      /\ UNCHANGED <<claim, lock, disk, acked, failures, crashes>>
      /\ \/ x = <<>> /\ Put(h, [r EXCEPT !.life = "live"])
         \/ x # <<>> /\ Put(h, [r EXCEPT !.life = "storing", !.queue = q])
  BY DEF AppendSuffix, Open
<1>2. /\ r \in HandleRecord /\ Good(r) /\ Pieces(r) /\ Chain(r)
      /\ r.memory \in Seq(Event) /\ r.view \in Seq(Event) /\ r.queue \in Seq(Op)
      /\ Len(r.view) \in Nat /\ Len(r.memory) \in Nat
  BY EventFields, ChainFields, LenProperties DEF Good, Chained
<1>3. /\ x \in Seq(Event) /\ Slice(x, r.memory, Len(r.view))
      /\ Len(r.memory) = Len(r.view) + Len(x)
  <2>1. Len(r.view) <= Len(r.memory)
    BY <1>2 DEF Pieces, Slice
  <2>2. /\ x \in Seq(Event) /\ Slice(x, r.memory, Len(r.view))
        /\ Len(x) = Len(r.memory) - Len(r.view)
    BY <1>2, <2>1, SuffixSlice
  <2> DEFINE i == Len(r.memory)
             j == Len(r.view)
             k == Len(x)
  <2>3. i \in Nat /\ j \in Nat /\ k = i - j
    BY <1>2, <2>2
  <2> HIDE DEF i, j, k
  <2>4. i = j + k
    BY <2>3
  <2> QED
    BY <2>2, <2>4 DEF i, j, k
<1>4. op \in Op /\ op.kind = "append" /\ op.batch = x
  BY <1>3 DEF Operation, Op, Log
<1>5. r.queue = <<>> /\ q = <<op>> /\ q \in Seq(Op)
  <2>1. ~r.draining
    BY <1>1, <1>2 DEF Chain
  <2>2. r.queue = <<>>
    BY <1>1, <1>2, <2>1, Undrained
  <2> QED
    BY <1>4, <2>2
<1> HIDE DEF r, s, x, op, q
<1>6. CASE x = <<>> /\ Put(h, [r EXCEPT !.life = "live"])
  <2>1. /\ s = [r EXCEPT !.life = "live"]
        /\ \A g \in Handle : g # h => handle'[g] = handle[g]
    BY <1>6, PutOne DEF s
  <2>2. s \in HandleRecord
    BY <1>2, <2>1, OneField
  <2>3. /\ SameFile(r, s) /\ s.memory = r.memory /\ s.life = "live" /\ s.queue = r.queue
        /\ s.stage = r.stage /\ s.draining = r.draining /\ s.closing = r.closing
        /\ s.await = r.await /\ s.barrier = r.barrier /\ s.mark = r.mark
        /\ s.buffered = r.buffered
    BY <1>2, <2>1, ZenonT(60) DEF HandleRecord, SameFile
  <2>4. Good(s) /\ r.stage = "idle"
    BY <1>1, <1>2, <1>3, <1>4, <1>6, <2>2, <2>3, SuffixGood DEF SameFile
  <2> QED
    BY <1>1, <2>1, <2>3, <2>4 DEF Tended, Closes, r, s
<1>7. CASE x # <<>> /\ Put(h, [r EXCEPT !.life = "storing", !.queue = q])
  <2>1. /\ s = [r EXCEPT !.life = "storing", !.queue = q]
        /\ \A g \in Handle : g # h => handle'[g] = handle[g]
    BY <1>7, PutOne DEF s
  <2>2. s \in HandleRecord
    <3>1. [r EXCEPT !.life = "storing"] \in HandleRecord
      BY <1>2, OneField
    <3> QED
      BY <1>5, <2>1, <3>1, OneField
  <2>3. /\ SameFile(r, s) /\ s.memory = r.memory /\ s.life = "storing" /\ s.queue = q
        /\ s.stage = r.stage /\ s.draining = r.draining /\ s.closing = r.closing
        /\ s.await = r.await /\ s.barrier = r.barrier /\ s.mark = r.mark
        /\ s.buffered = r.buffered
    BY <1>2, <2>1, ZenonT(60) DEF HandleRecord, SameFile
  <2>4. Good(s) /\ r.stage = "idle"
    BY <1>1, <1>2, <1>3, <1>4, <1>5, <1>7, <2>2, <2>3, SuffixGood DEF SameFile
  <2> QED
    BY <1>1, <2>1, <2>3, <2>4 DEF Tended, Closes, r, s
<1> QED
  BY <1>1, <1>6, <1>7

\* drainLive leaves the chain as it was, or adds a drain.
LEMMA DrainLiveKept ==
    ASSUME NEW r, Good(r),
           NEW p \in HandleRecord, p.buffered = r.buffered, p.queue = r.queue,
           p.draining = r.draining
    PROVE  LET d == DrainLive(p)
           IN  /\ QueueKept(r, d) /\ d.queue \in Seq(Op) /\ Len(d.queue) <= 2
               /\ d.draining <=> r.draining \/ r.buffered # <<>>
               /\ r.draining \/ r.buffered = <<>> => d.queue = r.queue
               /\ ~r.draining /\ r.buffered # <<>> =>
                     /\ r.queue = <<>> => d.queue = <<Drain>>
                     /\ r.queue # <<>> => /\ Len(d.queue) = 2 /\ d.queue # <<>>
                                          /\ d.queue[1] = r.queue[1] /\ d.queue[2] = Drain
<1> DEFINE d == DrainLive(p)
<1>1. /\ d.queue = IF r.draining \/ r.buffered = <<>> THEN r.queue ELSE Append(r.queue, Drain)
  BY DrainLiveFields
<1>2. d.draining <=> r.draining \/ r.buffered # <<>>
  BY DrainLiveFields
<1>3. /\ r.queue \in Seq(Op) /\ Len(r.queue) <= 2 /\ Chain(r)
  BY ChainFields DEF Good, Chained, Chain
<1> HIDE DEF d
<1>4. CASE r.draining \/ r.buffered = <<>>
  BY <1>1, <1>2, <1>3, <1>4 DEF QueueKept, d
<1>5. CASE ~r.draining /\ r.buffered # <<>>
  <2>1. d.queue = Append(r.queue, Drain) /\ r.life = "live"
    BY <1>1, <1>3, <1>5 DEF Chain
  <2>2. /\ d.queue \in Seq(Op) /\ d.queue # <<>>
        /\ \/ r.queue = <<>> /\ d.queue = <<Drain>>
           \/ /\ Len(r.queue) = 1 /\ r.queue[1].kind = "flush" /\ r.queue # <<>>
              /\ Len(d.queue) = 2 /\ d.queue[1] = r.queue[1] /\ d.queue[2] = Drain
    BY <1>5, <2>1, AddedDrain
  <2>3. CASE r.queue = <<>> /\ d.queue = <<Drain>>
    BY <1>2, <1>5, <2>2, <2>3, Singles DEF QueueKept, d
  <2>4. CASE /\ Len(r.queue) = 1 /\ r.queue[1].kind = "flush" /\ r.queue # <<>>
             /\ Len(d.queue) = 2 /\ d.queue[1] = r.queue[1] /\ d.queue[2] = Drain
    BY <1>2, <1>5, <2>2, <2>4 DEF QueueKept, d
  <2> QED
    BY <2>2, <2>3, <2>4
<1> QED
  BY <1>4, <1>5

\* A chain that at most got a drain is a chain, and a close waits for it as before.
LEMMA DrainedChain ==
    ASSUME NEW r, Good(r), NEW s \in HandleRecord,
           s.life = r.life, s.stage = r.stage, s.buffered = r.buffered,
           s.draining <=> r.draining \/ r.buffered # <<>>,
           s.barrier = "flushing" <=> r.barrier = "flushing",
           s.barrier = "draining" => s.draining,
           s.life # "live" => s.barrier = "none",
           r.draining \/ r.buffered = <<>> => s.queue = r.queue,
           ~r.draining /\ r.buffered # <<>> =>
              /\ r.queue = <<>> => s.queue = <<Drain>>
              /\ r.queue # <<>> => /\ Len(s.queue) = 2 /\ s.queue # <<>>
                                   /\ s.queue[1] = r.queue[1] /\ s.queue[2] = Drain
    PROVE  /\ Chain(s)
           /\ s.closing = r.closing /\ s.await = r.await => Closing(s)
           /\ r.stage # "idle" => Head(s.queue) = Head(r.queue)
<1>1. r \in HandleRecord /\ Chain(r) /\ Closing(r) /\ r.queue \in Seq(Op) /\ s.queue \in Seq(Op)
  BY ChainFields DEF Good, Chained
<1>2. CASE r.draining \/ r.buffered = <<>>
  <2>1. s.queue = r.queue /\ (s.draining <=> r.draining)
    BY <1>2
  <2>2. Chain(s)
    BY <1>1, <1>2, <2>1 DEF Chain
  <2> QED
    BY <1>1, <2>1, <2>2 DEF Closing
<1>3. CASE ~r.draining /\ r.buffered # <<>>
  <2>1. r.life = "live" /\ s.draining /\ s.life = "live"
    BY <1>1, <1>3 DEF Chain
  <2>2. r.queue # <<>> => r.queue[1].kind = "flush"
    BY <1>3, <2>1, Undrained
  <2>3. r.barrier = "flushing" <=> r.queue # <<>>
    BY <1>1, <2>2 DEF Chain
  <2>4. CASE r.queue = <<>>
    <3>1. s.queue = <<Drain>>
      BY <1>3, <2>4
    <3>2. s.stage = "idle" /\ r.closing # "settling"
      BY <1>1, <2>4 DEF Chain, Closing
    <3> QED
      BY <1>1, <2>1, <2>3, <2>4, <3>1, <3>2, Singles, Operations DEF Chain, Closing
  <2>5. CASE r.queue # <<>>
    <3>1. /\ s.queue # <<>> /\ Len(s.queue) = 2 /\ s.queue[1] = r.queue[1] /\ s.queue[2] = Drain
      BY <1>3, <2>5
    <3>2. Chain(s)
      BY <2>1, <2>2, <2>3, <2>5, <3>1, Operations DEF Chain
    <3>3. Head(s.queue) = Head(r.queue)
      BY <1>1, <2>5, <3>1
    <3> QED
      BY <1>1, <2>1, <2>5, <3>1, <3>2, <3>3 DEF Closing
  <2> QED
    BY <2>4, <2>5
<1> QED
  BY <1>2, <1>3

\* The batching deadline.
LEMMA TimerEffect ==
    ASSUME handle \in [Handle -> HandleRecord], NEW h \in Handle, Good(handle[h]), TimerFires(h)
    PROVE  /\ UNCHANGED <<claim, lock, disk, acked, failures, crashes>>
           /\ \A g \in Handle : g # h => handle'[g] = handle[g]
           /\ Tended(handle[h], handle'[h])
<1> DEFINE r == handle[h]
           s == handle'[h]
           p == [r EXCEPT !.timer = FALSE]
<1>1. /\ r.phase \in {"open", "closed"}
      /\ r.closing \in {"last", "releasing", "freed"} => LateTimer
      /\ UNCHANGED <<claim, lock, disk, acked, failures, crashes>> /\ Put(h, DrainLive(p))
  BY DEF TimerFires
<1>2. /\ r \in HandleRecord /\ Good(r) /\ Chain(r) /\ Closing(r) /\ (~SetupRace => Held(r))
  BY DEF Good, Chained
<1> HIDE DEF r
<1>3. p \in HandleRecord
  BY <1>2, OneField
<1>4. /\ Keeps(r, p) /\ p.life = r.life /\ p.stage = r.stage /\ p.buffered = r.buffered
      /\ p.closing = r.closing /\ p.await = r.await /\ p.failed = r.failed
      /\ p.barrier = r.barrier /\ p.mark = r.mark /\ p.queue = r.queue
      /\ p.draining = r.draining
  BY <1>2, ZenonT(60) DEF HandleRecord, Keeps
<1> HIDE DEF p
<1>5. s = DrainLive(p) /\ \A g \in Handle : g # h => handle'[g] = handle[g]
  BY <1>1, PutOne
<1> HIDE DEF s
<1>6. /\ s \in HandleRecord /\ Keeps(p, s) /\ s.life = r.life /\ s.stage = r.stage
      /\ s.buffered = r.buffered /\ s.closing = r.closing /\ s.await = r.await
      /\ s.failed = r.failed /\ s.barrier = r.barrier /\ s.mark = r.mark
  BY <1>3, <1>4, <1>5, DrainLiveFields
<1>7. /\ QueueKept(r, s)
      /\ s.draining <=> r.draining \/ r.buffered # <<>>
      /\ r.draining \/ r.buffered = <<>> => s.queue = r.queue
      /\ ~r.draining /\ r.buffered # <<>> =>
            /\ r.queue = <<>> => s.queue = <<Drain>>
            /\ r.queue # <<>> => /\ Len(s.queue) = 2 /\ s.queue # <<>>
                                 /\ s.queue[1] = r.queue[1] /\ s.queue[2] = Drain
  BY <1>2, <1>3, <1>4, <1>5, DrainLiveKept
<1>8. /\ Chain(s) /\ Closing(s)
      /\ r.stage # "idle" => Head(s.queue) = Head(r.queue)
  <2>1. /\ s.barrier = "draining" => s.draining
        /\ s.life # "live" => s.barrier = "none"
    BY <1>2, <1>6, <1>7 DEF Chain
  <2> QED
    BY <1>2, <1>6, <1>7, <2>1, DrainedChain
<1>9. Keeps(r, s) /\ SameFile(r, s)
  BY <1>4, <1>6 DEF Keeps, SameFile
<1>10. ~SetupRace => /\ s.barrier = "flushing" => s.mark <= Len(r.view)
                     /\ s.barrier = "draining" => s.mark <= Len(r.memory)
  BY <1>2, <1>6 DEF Held
<1>11. Good(s)
  BY <1>1, <1>2, <1>6, <1>7, <1>8, <1>9, <1>10, TendedGood
<1> QED
  BY <1>1, <1>5, <1>6, <1>8, <1>9, <1>11 DEF Keeps, Tended, Closes, r, s

\* session/flush.
LEMMA BarrierEffect ==
    ASSUME handle \in [Handle -> HandleRecord], NEW h \in Handle, Good(handle[h]), SessionFlush(h)
    PROVE  /\ UNCHANGED <<claim, lock, disk, acked, failures, crashes>>
           /\ \A g \in Handle : g # h => handle'[g] = handle[g]
           /\ Tended(handle[h], handle'[h])
<1> DEFINE r == handle[h]
           s == handle'[h]
           n == Len(r.memory)
           p == [r EXCEPT !.barrier = "draining", !.mark = n]
           d == DrainLive(p)
<1>1. /\ r.phase = "open" /\ r.life = "live" /\ r.barrier = "none" /\ Listening(r)
      /\ UNCHANGED <<claim, lock, disk, acked, failures, crashes>> /\ Put(h, Resume(d, TRUE))
  BY DEF SessionFlush, Open
<1>2. /\ r \in HandleRecord /\ Good(r) /\ Chain(r) /\ Closing(r) /\ (~SetupRace => Held(r))
      /\ Numbered(r.memory)
  BY DEF Good, Chained, Pieces
<1>3. n \in 0 .. MaxEvent
  <2>1. r.memory \in Seq(Event) /\ n \in Nat
    BY <1>2, EventFields, LenProperties
  <2>2. CASE n = 0
    BY <2>2, BoundAssumption
  <2>3. CASE n # 0
    <3>1. n \in 1 .. n
      BY <2>1, <2>3
    <3>2. r.memory[n] \in Event /\ r.memory[n].seq = n
      BY <1>2, <2>1, <3>1, ElementOfSeq DEF Numbered
    <3>3. n \in 1 .. MaxEvent
      BY <3>2 DEF Event
    <3> QED
      BY <3>3
  <2> QED
    BY <2>2, <2>3
<1>4. n = Len(r.memory)
  OBVIOUS
<1> HIDE DEF r, n
<1>5. p \in HandleRecord
  <2>1. [r EXCEPT !.barrier = "draining"] \in HandleRecord
    BY <1>2, OneField
  <2> QED
    BY <1>3, <2>1, OneField
<1>6. /\ Keeps(r, p) /\ p.life = r.life /\ p.stage = r.stage /\ p.buffered = r.buffered
      /\ p.closing = r.closing /\ p.await = r.await /\ p.failed = r.failed
      /\ p.barrier = "draining" /\ p.mark = n /\ p.queue = r.queue
      /\ p.draining = r.draining
  BY <1>2, ZenonT(60) DEF HandleRecord, Keeps
<1> HIDE DEF p
<1>7. s = Resume(d, TRUE) /\ \A g \in Handle : g # h => handle'[g] = handle[g]
  BY <1>1, PutOne
<1>8. /\ d \in HandleRecord /\ Keeps(p, d) /\ d.life = r.life /\ d.stage = r.stage
      /\ d.buffered = r.buffered /\ d.closing = r.closing /\ d.await = r.await
      /\ d.failed = r.failed /\ d.barrier = "draining" /\ d.mark = n
  BY <1>5, <1>6, DrainLiveFields
<1>9. /\ QueueKept(r, d) /\ Len(d.queue) <= 2
      /\ d.draining <=> r.draining \/ r.buffered # <<>>
      /\ r.draining \/ r.buffered = <<>> => d.queue = r.queue
      /\ ~r.draining /\ r.buffered # <<>> =>
            /\ r.queue = <<>> => d.queue = <<Drain>>
            /\ r.queue # <<>> => /\ Len(d.queue) = 2 /\ d.queue # <<>>
                                 /\ d.queue[1] = r.queue[1] /\ d.queue[2] = Drain
  BY <1>2, <1>5, <1>6, DrainLiveKept
<1>10. Keeps(r, d)
  BY <1>6, <1>8 DEF Keeps
<1> HIDE DEF d, s
<1>11. CASE d.draining
  <2>1. s = d
    BY <1>7, <1>11 DEF Resume
  <2>2. /\ Chain(s) /\ Closing(s)
        /\ r.stage # "idle" => Head(s.queue) = Head(r.queue)
    BY <1>1, <1>2, <1>8, <1>9, <1>11, <2>1, DrainedChain
  <2>3. ~SetupRace => /\ s.barrier = "flushing" => s.mark <= Len(r.view)
                      /\ s.barrier = "draining" => s.mark <= Len(r.memory)
    BY <1>3, <1>4, <1>8, <2>1
  <2>4. Good(s)
    BY <1>1, <1>2, <1>8, <1>9, <1>10, <2>1, <2>2, <2>3, TendedGood
  <2>5. SameFile(r, s)
    BY <1>10, <2>1 DEF Keeps, SameFile
  <2> QED
    BY <1>1, <1>4, <1>7, <1>8, <1>10, <2>1, <2>2, <2>4, <2>5
     DEF Keeps, Tended, Closes, Listening, r, s
<1>12. CASE ~d.draining
  <2>1. ~r.draining /\ r.buffered = <<>> /\ d.queue = r.queue
    BY <1>9, <1>12
  <2>2. r.queue = <<>> /\ r.stage = "idle" /\ r.closing \notin {"draining", "settling", "last"}
    BY <1>1, <1>2, <2>1, Undrained
  <2>3. /\ s \in HandleRecord /\ Keeps(d, s)
        /\ s.life = r.life /\ s.stage = r.stage /\ s.buffered = r.buffered
        /\ ~s.draining /\ s.mark = n
        /\ s.queue = (IF r.closing = "no" THEN Append(<<>>, Flush) ELSE <<>>)
        /\ s.barrier = (IF r.closing = "no" THEN "flushing" ELSE "none")
        /\ s.closing = r.closing /\ s.await = r.await /\ s.failed = r.failed
    <3> DEFINE f == d.barrier = "draining" /\ TRUE /\ d.closing = "no"
               e == Resume(d, TRUE)
    <3>1. /\ e \in HandleRecord /\ Keeps(d, e)
          /\ e.life = d.life /\ e.stage = d.stage /\ e.buffered = d.buffered
          /\ e.draining = d.draining /\ e.mark = d.mark
          /\ e.queue = (IF f THEN Append(d.queue, Flush) ELSE d.queue)
          /\ e.barrier = (IF d.barrier # "draining" THEN d.barrier
                          ELSE IF f THEN "flushing" ELSE "none")
          /\ d.closing # "draining" =>
                e.closing = d.closing /\ e.await = d.await /\ e.failed = d.failed
      BY <1>8, <1>9, <1>12, ResumeFields
    <3>2. s = e
      BY <1>7
    <3> HIDE DEF e
    <3> QED
      BY <1>8, <1>12, <2>1, <2>2, <3>1, <3>2
  <2>4. Keeps(r, s) /\ SameFile(r, s)
    BY <1>10, <2>3 DEF Keeps, SameFile
  <2>5. /\ s.queue = <<>> \/ s.queue = <<Flush>>
        /\ s.barrier = "flushing" <=> s.queue = <<Flush>>
        /\ s.barrier \in {"none", "flushing"}
    BY <2>3, Singles
  <2>6. Chain(s)
    <3>1. CASE s.queue = <<>>
      <4>1. s.barrier = "none" /\ s.stage = "idle" /\ s.life = "live"
        BY <1>1, <2>2, <2>3, <2>5, <3>1, Singles
      <4> QED
        BY <2>3, <3>1, <4>1, Singles DEF Chain
    <3>2. CASE s.queue = <<Flush>>
      BY <1>1, <2>2, <2>3, <2>5, <3>2, Singles, Operations DEF Chain
    <3> QED
      BY <2>5, <3>1, <3>2
  <2>7. Closing(s)
    BY <1>2, <2>2, <2>3 DEF Closing
  <2>8. QueueKept(r, s)
    BY <2>2, <2>5 DEF QueueKept
  <2>9. ~SetupRace => /\ s.barrier = "flushing" => s.mark <= Len(r.view)
                      /\ s.barrier = "draining" => s.mark <= Len(r.memory)
    <3>1. Carried(r) \o r.buffered = <<>>
      BY <2>1, <2>2, NoEvents DEF Carried
    <3>2. ~SetupRace => n = Len(r.view) + 0
      BY <1>1, <1>2, <1>4, <3>1 DEF Held
    <3>3. Len(r.view) \in Nat
      BY <1>2, EventFields, LenProperties
    <3>4. \A i \in Nat : i + 0 <= i
      OBVIOUS
    <3> QED
      BY <2>3, <2>5, <3>2, <3>3, <3>4, Zenon
  <2>10. Good(s)
    BY <1>1, <1>2, <2>1, <2>3, <2>4, <2>6, <2>7, <2>8, <2>9, TendedGood
  <2> QED
    BY <1>1, <1>4, <1>7, <2>2, <2>3, <2>4, <2>10 DEF Keeps, Tended, Closes, Listening, r, s
<1> QED
  BY <1>8, <1>11, <1>12, ChainFields

\* The loop of a close that has still to wait runs on to nothing.
LEMMA UnwaitedLoop ==
    ASSUME NEW r \in HandleRecord, Len(r.queue) <= 2, r.closing # "last",
           ~(r.closing = "settling" /\ r.await = 0)
    PROVE  LET d == CloseLoop(r)
           IN  /\ d \in HandleRecord /\ Keeps(r, d)
               /\ d.life = r.life /\ d.stage = r.stage /\ d.buffered = r.buffered
               /\ d.mark = r.mark /\ d.barrier = r.barrier /\ d.failed = r.failed
               /\ d.queue = r.queue /\ d.draining = r.draining
               /\ d.closing = r.closing /\ d.await = r.await
  BY CloseLoopFields

\* That of a close that finds nothing to wait for frees the lock.
LEMMA WaitedLoop ==
    ASSUME NEW r \in HandleRecord, Len(r.queue) = 0, r.closing = "settling", r.await = 0,
           r.buffered = <<>>
    PROVE  LET d == CloseLoop(r)
           IN  /\ d \in HandleRecord /\ Keeps(r, d)
               /\ d.life = r.life /\ d.stage = r.stage /\ d.buffered = r.buffered
               /\ d.mark = r.mark /\ d.barrier = r.barrier /\ d.failed = r.failed
               /\ d.queue = r.queue /\ d.draining = r.draining
               /\ d.closing = Freeing(r) /\ d.await = 0
  BY CloseLoopFields

\* close.
LEMMA CloseEffect ==
    ASSUME handle \in [Handle -> HandleRecord], NEW h \in Handle, Good(handle[h]), Close(h)
    PROVE  /\ UNCHANGED <<claim, lock, disk, acked, failures, crashes>>
           /\ \A g \in Handle : g # h => handle'[g] = handle[g]
           /\ Tended(handle[h], handle'[h])
<1> DEFINE r == handle[h]
           s == handle'[h]
           p == [r EXCEPT !.closing = "draining"]
           d == DrainLive(p)
           e == Resume(d, TRUE)
<1>1. /\ r.phase = "open" /\ r.closing = "no"
      /\ UNCHANGED <<claim, lock, disk, acked, failures, crashes>> /\ Put(h, CloseLoop(e))
  BY DEF Close, Open
<1>2. /\ r \in HandleRecord /\ Good(r) /\ Chain(r) /\ Closing(r) /\ (~SetupRace => Held(r))
  BY DEF Good, Chained
<1> HIDE DEF r
<1>3. p \in HandleRecord
  BY <1>2, OneField
<1>4. /\ Keeps(r, p) /\ p.life = r.life /\ p.stage = r.stage /\ p.buffered = r.buffered
      /\ p.closing = "draining" /\ p.await = r.await /\ p.failed = r.failed
      /\ p.barrier = r.barrier /\ p.mark = r.mark /\ p.queue = r.queue
      /\ p.draining = r.draining
  BY <1>2, ZenonT(60) DEF HandleRecord, Keeps
<1> HIDE DEF p
<1>5. s = CloseLoop(e) /\ \A g \in Handle : g # h => handle'[g] = handle[g]
  BY <1>1, PutOne
<1>6. /\ d \in HandleRecord /\ Keeps(p, d) /\ d.life = r.life /\ d.stage = r.stage
      /\ d.buffered = r.buffered /\ d.closing = "draining" /\ d.await = r.await
      /\ d.failed = r.failed /\ d.barrier = r.barrier /\ d.mark = r.mark
  BY <1>3, <1>4, DrainLiveFields
<1>7. /\ QueueKept(r, d) /\ Len(d.queue) <= 2
      /\ d.draining <=> r.draining \/ r.buffered # <<>>
      /\ r.draining \/ r.buffered = <<>> => d.queue = r.queue
      /\ ~r.draining /\ r.buffered # <<>> =>
            /\ r.queue = <<>> => d.queue = <<Drain>>
            /\ r.queue # <<>> => /\ Len(d.queue) = 2 /\ d.queue # <<>>
                                 /\ d.queue[1] = r.queue[1] /\ d.queue[2] = Drain
  BY <1>2, <1>3, <1>4, DrainLiveKept
<1>8. Keeps(r, d) /\ r.await = 0
  BY <1>1, <1>2, <1>4, <1>6 DEF Keeps, Closing
<1>9. ~SetupRace => /\ r.barrier = "flushing" => r.mark <= Len(r.view)
                    /\ r.barrier = "draining" => r.mark <= Len(r.memory)
  BY <1>2 DEF Held
<1> HIDE DEF d, s
<1>10. CASE d.draining
  <2>1. e = d
    BY <1>10 DEF Resume
  <2>2. /\ s \in HandleRecord /\ Keeps(d, s)
        /\ s.life = r.life /\ s.stage = r.stage /\ s.buffered = r.buffered
        /\ s.mark = r.mark /\ s.barrier = r.barrier /\ s.failed = r.failed
        /\ s.queue = d.queue /\ s.draining = d.draining
        /\ s.closing = "draining" /\ s.await = 0
    <3>1. ~(d.closing = "settling") /\ ~(d.closing = "last")
      BY <1>6
    <3> QED
      <4>1. s = CloseLoop(d)
        BY <1>5, <2>1 DEF s
      <4>2. d \in HandleRecord /\ Len(d.queue) <= 2
        BY <1>6, <1>7
      <4>3. LET c == CloseLoop(d)
            IN  /\ c \in HandleRecord /\ Keeps(d, c)
                /\ c.life = d.life /\ c.stage = d.stage /\ c.buffered = d.buffered
                /\ c.mark = d.mark /\ c.barrier = d.barrier /\ c.failed = d.failed
                /\ c.queue = d.queue /\ c.draining = d.draining
                /\ c.closing = d.closing /\ c.await = d.await
        BY <3>1, <4>2, UnwaitedLoop
      <4> QED
        BY <1>6, <1>8, <4>1, <4>3, Zenon
  <2>3. Keeps(r, s) /\ SameFile(r, s)
    BY <1>8, <2>2 DEF Keeps, SameFile
  <2>4. /\ Chain(s)
        /\ r.stage # "idle" => Head(s.queue) = Head(r.queue)
    <3>1. /\ s.barrier = "draining" => s.draining
          /\ s.life # "live" => s.barrier = "none"
      BY <1>2, <1>10, <2>2 DEF Chain
    <3> QED
      BY <1>2, <1>7, <2>2, <3>1, DrainedChain
  <2>5. Closing(s)
    BY <1>10, <2>2 DEF Closing
  <2>6. QueueKept(r, s)
    BY <1>7, <2>2 DEF QueueKept
  <2>7. s.draining /\ ~r.draining => s.buffered # <<>>
    BY <1>7, <2>2
  <2>8. Good(s)
    BY <1>1, <1>2, <1>9, <2>2, <2>3, <2>4, <2>5, <2>6, <2>7, TendedGood
  <2> QED
    BY <1>1, <1>5, <2>2, <2>3, <2>4, <2>8 DEF Keeps, Tended, Closes, r, s
<1>11. CASE ~d.draining
  <2>1. ~r.draining /\ r.buffered = <<>> /\ d.queue = r.queue
    BY <1>7, <1>11
  <2>2. /\ r.barrier # "draining"
        /\ \/ r.queue = <<>> /\ r.stage = "idle"
           \/ Len(r.queue) = 1 /\ r.queue[1].kind \in {"append", "flush"}
    BY <1>2, <2>1, Undrained
  <2>3. /\ e \in HandleRecord /\ Keeps(d, e)
        /\ e.life = r.life /\ e.stage = r.stage /\ e.buffered = <<>>
        /\ ~e.draining /\ e.mark = r.mark /\ e.queue = r.queue /\ e.barrier = r.barrier
        /\ e.closing = "settling" /\ e.await = Len(r.queue) /\ e.failed = r.failed
    <3> DEFINE f == d.barrier = "draining" /\ TRUE /\ d.closing = "no"
    <3>1. /\ e \in HandleRecord /\ Keeps(d, e)
          /\ e.life = d.life /\ e.stage = d.stage /\ e.buffered = d.buffered
          /\ e.draining = d.draining /\ e.mark = d.mark
          /\ e.queue = (IF f THEN Append(d.queue, Flush) ELSE d.queue)
          /\ e.barrier = (IF d.barrier # "draining" THEN d.barrier
                          ELSE IF f THEN "flushing" ELSE "none")
          /\ d.closing = "draining" =>
                /\ e.closing = "settling" /\ e.await = Len(d.queue)
                /\ TRUE => e.failed = d.failed
      BY <1>6, <1>7, <1>11, ResumeFields
    <3> HIDE DEF e
    <3> QED
      BY <1>6, <1>11, <2>1, <2>2, <3>1
  <2> HIDE DEF e
  <2>4. /\ s \in HandleRecord /\ Keeps(e, s)
        /\ s.life = r.life /\ s.stage = r.stage /\ s.buffered = r.buffered
        /\ s.mark = r.mark /\ s.barrier = r.barrier /\ s.failed = r.failed
        /\ s.queue = r.queue /\ s.draining = r.draining
        /\ \/ r.queue = <<>> /\ s.closing = Freeing(e) /\ s.await = 0
           \/ Len(r.queue) = 1 /\ s.closing = "settling" /\ s.await = 1
    <3>1. Len(e.queue) <= 2 /\ ~(e.closing = "last")
      BY <1>7, <2>1, <2>3
    <3>2. CASE r.queue = <<>>
      <4>1. Len(r.queue) = 0
        BY <3>2
      <4>2. /\ e.closing = "settling" /\ e.await = 0 /\ e.buffered = <<>> /\ Len(e.queue) = 0
        BY <2>3, <4>1
      <4> QED
        <5>1. LET c == CloseLoop(e)
              IN  /\ c \in HandleRecord /\ Keeps(e, c)
                  /\ c.life = e.life /\ c.stage = e.stage /\ c.buffered = e.buffered
                  /\ c.mark = e.mark /\ c.barrier = e.barrier /\ c.failed = e.failed
                  /\ c.queue = e.queue /\ c.draining = e.draining
                  /\ c.closing = Freeing(e) /\ c.await = 0
          BY <2>3, <4>2, WaitedLoop
        <5>2. /\ s \in HandleRecord /\ Keeps(e, s)
              /\ s.life = e.life /\ s.stage = e.stage /\ s.buffered = e.buffered
              /\ s.mark = e.mark /\ s.barrier = e.barrier /\ s.failed = e.failed
              /\ s.queue = e.queue /\ s.draining = e.draining
              /\ s.closing = Freeing(e) /\ s.await = 0
          BY <1>5, <5>1, Zenon
        <5>3. ~r.draining /\ ~s.draining /\ r.draining \in BOOLEAN /\ s.draining \in BOOLEAN
          BY <1>2, <2>1, <2>3, <5>2, ChainFields
        <5> QED
          BY <2>1, <2>3, <3>2, <5>2, <5>3
    <3>3. CASE Len(r.queue) = 1
      <4>1. e.await = 1
        BY <2>3, <3>3
      <4>2. ~(e.await = 0)
        BY <4>1
      <4> QED
        <5>1. LET c == CloseLoop(e)
              IN  /\ c \in HandleRecord /\ Keeps(e, c)
                  /\ c.life = e.life /\ c.stage = e.stage /\ c.buffered = e.buffered
                  /\ c.mark = e.mark /\ c.barrier = e.barrier /\ c.failed = e.failed
                  /\ c.queue = e.queue /\ c.draining = e.draining
                  /\ c.closing = e.closing /\ c.await = e.await
          BY <2>3, <3>1, <4>2, UnwaitedLoop
        <5>2. /\ s \in HandleRecord /\ Keeps(e, s)
              /\ s.life = e.life /\ s.stage = e.stage /\ s.buffered = e.buffered
              /\ s.mark = e.mark /\ s.barrier = e.barrier /\ s.failed = e.failed
              /\ s.queue = e.queue /\ s.draining = e.draining
              /\ s.closing = e.closing /\ s.await = e.await
          BY <1>5, <5>1, Zenon
        <5>3. ~r.draining /\ ~s.draining /\ r.draining \in BOOLEAN /\ s.draining \in BOOLEAN
          BY <1>2, <2>1, <2>3, <5>2, ChainFields
        <5> QED
          BY <2>1, <2>3, <3>3, <4>1, <5>2, <5>3
    <3> QED
      BY <2>2, <3>2, <3>3
  <2>5. Keeps(r, s) /\ SameFile(r, s) /\ Freeing(e) = Freeing(r)
    BY <1>8, <2>3, <2>4 DEF Keeps, SameFile, Freeing
  <2>6. Chain(s)
    BY <1>2, <2>4 DEF Chain
  <2>7. Closing(s)
    <3>1. CASE r.queue = <<>> /\ s.closing = Freeing(e) /\ s.await = 0
      BY <3>1 DEF Closing, Freeing
    <3>2. CASE Len(r.queue) = 1 /\ s.closing = "settling" /\ s.await = 1
      <4>1. r.queue # <<>> /\ r.queue[1].kind # "drain"
        BY <2>2, <3>2
      <4> QED
        BY <2>4, <3>2, <4>1 DEF Closing
    <3> QED
      BY <2>4, <3>1, <3>2
  <2>8. QueueKept(r, s)
    BY <2>4 DEF QueueKept
  <2>9. Good(s)
    BY <1>1, <1>2, <1>9, <2>4, <2>5, <2>6, <2>7, <2>8, TendedGood
  <2>10. Closes(r, s)
    <3>1. CASE r.queue = <<>> /\ s.closing = Freeing(e) /\ s.await = 0
      BY <1>1, <2>1, <2>4, <2>5, <3>1 DEF Closes
    <3>2. CASE Len(r.queue) = 1 /\ s.closing = "settling" /\ s.await = 1
      BY <1>1, <3>2 DEF Closes
    <3> QED
      BY <2>4, <3>1, <3>2
  <2> QED
    BY <1>1, <1>5, <2>4, <2>5, <2>9, <2>10 DEF Keeps, Tended, r, s
<1> QED
  BY <1>6, <1>10, <1>11, ChainFields

-----------------------------------------------------------------------------
(* What opening, closing and losing a handle do to it.                     *)

\* A handle as its constructor leaves it.
LEMMA FreshFields ==
    ASSUME NEW phase \in {"unused", "creating", "claimed", "locked", "open", "closed", "dead"},
           NEW home \in Instance \cup {None}, NEW log \in Log
    PROVE  LET s == Fresh(phase, home, log)
           IN  /\ s \in HandleRecord /\ s.phase = phase /\ s.home = home
               /\ s.memory = log /\ s.view = log /\ s.life = "setup"
               /\ ~s.materialized /\ ~s.torn /\ s.tornAt = 0 /\ s.tail = <<>>
               /\ s.lease = "none" /\ s.queue = <<>> /\ s.stage = "idle" /\ s.buffered = <<>>
               /\ ~s.draining /\ s.closing = "no" /\ s.await = 0 /\ ~s.failed
               /\ s.barrier = "none" /\ s.mark = 0
<1>1. <<>> \in Log /\ <<>> \in Seq(Op) /\ 0 \in 0 .. MaxEvent /\ 0 \in 0 .. 3
  BY BoundAssumption DEF Log
<1>2. Fresh(phase, home, log) \in HandleRecord
  BY <1>1, ZenonT(60) DEF Fresh, HandleRecord
<1> QED
  BY <1>2, ZenonT(60) DEF Fresh

\* A handle that has done nothing is as the steps leave it.
LEMMA RestGood ==
    ASSUME NEW r \in HandleRecord, r.queue = <<>>, r.stage = "idle", r.buffered = <<>>,
           ~r.draining, r.closing = "no", r.await = 0, r.barrier = "none", r.life = "setup",
           r.view = r.memory, Numbered(r.memory), r.memory = <<>> \/ r.phase = "open"
    PROVE  Good(r)
<1>1. r.memory \in Seq(Event) /\ Len(r.memory) \in Nat
  BY EventFields, LenProperties
<1>2. Chain(r) /\ Closing(r) /\ Unopened(r)
  BY Singles DEF Chain, Closing, Unopened
<1>3. Batches(r)
  BY Singles DEF Batches, Started
<1>4. Carried(r) \o r.buffered = <<>>
  BY NoEvents DEF Carried
<1>5. Slice(r.view, r.memory, 0)
  BY <1>1 DEF Slice
<1>6. Ending(<<>>, r.memory)
  BY <1>1 DEF Ending, Slice
<1>7. Pieces(r)
  BY <1>4, <1>5, <1>6 DEF Pieces, InWrite
<1>8. Held(r)
  BY DEF Held
<1> QED
  BY <1>2, <1>3, <1>7, <1>8 DEF Good, Chained

\* A handle that starts afresh.
New(s) ==
  /\ Good(s) /\ Marked(s) /\ s.phase \in {"unused", "creating", "claimed", "open", "dead"}
  /\ s.lease = "none" /\ ~s.materialized /\ s.view = <<>> /\ s.tail = <<>> /\ ~s.torn
  /\ s.closing = "no" /\ s.stage = "idle"

\* A handle with an empty log, as the store makes it, is new.
LEMMA FreshNew ==
    ASSUME NEW phase \in {"unused", "creating", "claimed", "open", "dead"},
           NEW home \in Instance \cup {None}
    PROVE  New(Fresh(phase, home, <<>>)) /\ Fresh(phase, home, <<>>).phase = phase
<1> DEFINE s == Fresh(phase, home, <<>>)
<1>1. <<>> \in Log /\ Numbered(<<>>)
  BY DEF Log, Numbered
<1>2. /\ s \in HandleRecord /\ s.phase = phase
      /\ s.memory = <<>> /\ s.view = <<>> /\ s.life = "setup"
      /\ ~s.materialized /\ ~s.torn /\ s.tornAt = 0 /\ s.tail = <<>>
      /\ s.lease = "none" /\ s.queue = <<>> /\ s.stage = "idle" /\ s.buffered = <<>>
      /\ ~s.draining /\ s.closing = "no" /\ s.await = 0
      /\ s.barrier = "none" /\ s.mark = 0
  BY <1>1, FreshFields
<1> HIDE DEF s
<1>3. Good(s)
  BY <1>1, <1>2, RestGood
<1>4. Marked(s)
  BY <1>2 DEF Marked
<1> QED
  BY <1>2, <1>3, <1>4 DEF New, s

\* create, registerCreated, the claim of an open, and an open that is rolled back.
LEMMA AfreshEffect ==
    ASSUME handle \in [Handle -> HandleRecord], Claims, NEW h \in Handle, Good(handle[h]),
           \/ \E i \in Instance : BeginCreate(h, i) \/ ClaimWrite(h, i)
           \/ RegisterCreated(h)
           \/ RollBackOpen(h)
    PROVE  /\ New(handle'[h]) /\ UNCHANGED <<disk, acked, crashes>> /\ Claims'
           /\ \A g \in Handle : g # h => handle'[g] = handle[g]
           /\ \/ handle[h].phase \in {"unused", "creating"} /\ lock' = lock
              \/ /\ handle[h].phase \in {"claimed", "locked"}
                 /\ lock' = IF handle[h].lease = "held" THEN None ELSE lock
           /\ \/ failures' = failures
              \/ failures < MaxFailure /\ failures' = failures + 1
           /\ handle[h].phase \in {"unused", "creating", "claimed", "locked"}
<1> DEFINE r == handle[h]
<1>1. r \in HandleRecord /\ r.home \in Instance \cup {None}
  BY StateFields DEF Good
<1>2. ASSUME NEW i \in Instance, BeginCreate(h, i)
      PROVE  /\ New(handle'[h]) /\ UNCHANGED <<claim, lock, disk, acked, failures, crashes>>
             /\ \A g \in Handle : g # h => handle'[g] = handle[g]
             /\ r.phase = "unused"
  <2>1. /\ r.phase = "unused" /\ Put(h, Fresh("creating", i, <<>>))
        /\ UNCHANGED <<claim, lock, disk, acked, failures, crashes>>
    BY <1>2 DEF BeginCreate
  <2>2. New(Fresh("creating", i, <<>>))
    BY FreshNew
  <2> QED
    BY <2>1, <2>2, PutOne
<1>3. ASSUME NEW i \in Instance, ClaimWrite(h, i)
      PROVE  /\ New(handle'[h]) /\ UNCHANGED <<lock, disk, acked, failures, crashes>>
             /\ \A g \in Handle : g # h => handle'[g] = handle[g]
             /\ r.phase = "unused" /\ Claims'
  <2>1. /\ r.phase = "unused" /\ Put(h, Fresh("claimed", i, <<>>))
        /\ claim' = [claim EXCEPT ![i] = h]
        /\ UNCHANGED <<lock, disk, acked, failures, crashes>>
    BY <1>3 DEF ClaimWrite
  <2>2. New(Fresh("claimed", i, <<>>))
    BY FreshNew
  <2>3. Claims'
    BY <2>1 DEF Claims
  <2> QED
    BY <2>1, <2>2, <2>3, PutOne
<1>4. ASSUME RegisterCreated(h)
      PROVE  /\ New(handle'[h]) /\ UNCHANGED <<lock, disk, acked, failures, crashes>>
             /\ \A g \in Handle : g # h => handle'[g] = handle[g]
             /\ r.phase = "creating" /\ Claims'
  <2>1. /\ r.phase = "creating" /\ UNCHANGED <<lock, disk, acked, failures, crashes>>
        /\ \/ claim' = [claim EXCEPT ![r.home] = h] /\ Put(h, Fresh("open", r.home, <<>>))
           \/ UNCHANGED claim /\ Put(h, Unused)
    BY <1>4 DEF RegisterCreated
  <2>2. New(Fresh("open", r.home, <<>>)) /\ New(Unused)
    BY <1>1, FreshNew DEF Unused
  <2>3. Claims'
    BY <2>1 DEF Claims
  <2> QED
    BY <2>1, <2>2, <2>3, PutOne
<1>5. ASSUME RollBackOpen(h)
      PROVE  /\ New(handle'[h]) /\ UNCHANGED <<disk, acked, crashes>>
             /\ \A g \in Handle : g # h => handle'[g] = handle[g]
             /\ r.phase \in {"claimed", "locked"} /\ Claims'
             /\ lock' = IF r.lease = "held" THEN None ELSE lock
             /\ \/ failures' = failures
                \/ failures < MaxFailure /\ failures' = failures + 1
  <2>1. /\ r.phase \in {"claimed", "locked"} /\ UNCHANGED <<disk, acked, crashes>>
        /\ lock' = IF r.lease = "held" THEN None ELSE lock
        /\ claim' = [claim EXCEPT ![r.home] = None] /\ Put(h, Unused)
        /\ \/ failures' = failures
           \/ failures < MaxFailure /\ failures' = failures + 1
    BY <1>5 DEF RollBackOpen
  <2>2. New(Unused)
    BY FreshNew DEF Unused
  <2>3. Claims'
    BY <2>1 DEF Claims
  <2> QED
    BY <2>1, <2>2, <2>3, PutOne
<1> QED
  BY <1>2, <1>3, <1>4, <1>5 DEF Claims

\* The kernel lock of an open.
LEMMA LockEffect ==
    ASSUME handle \in [Handle -> HandleRecord], NEW h \in Handle, Good(handle[h]),
           LockForOpen(h)
    PROVE  LET r == handle[h]
               s == handle'[h]
           IN  /\ UNCHANGED <<claim, disk, acked, failures, crashes>>
               /\ lock = None /\ lock' = h /\ disk.exists
               /\ \A g \in Handle : g # h => handle'[g] = handle[g]
               /\ Good(s) /\ r.phase = "claimed" /\ s.phase = "locked" /\ s.lease = "held"
               /\ s.memory = r.memory /\ s.view = r.view /\ s.tail = r.tail
               /\ s.torn = r.torn /\ s.tornAt = r.tornAt /\ s.materialized = r.materialized
               /\ s.closing = "no" /\ s.stage = "idle" /\ s.queue = <<>> /\ s.mark = r.mark
<1> DEFINE r == handle[h]
           s == handle'[h]
<1>1. /\ r.phase = "claimed" /\ disk.exists /\ lock = None /\ lock' = h
      /\ UNCHANGED <<claim, disk, acked, failures, crashes>>
      /\ Put(h, [r EXCEPT !.phase = "locked", !.lease = "held"])
  BY DEF LockForOpen
<1>2. /\ r \in HandleRecord /\ Good(r) /\ Chain(r) /\ Closing(r) /\ Unopened(r)
      /\ Batches(r) /\ Pieces(r) /\ (~SetupRace => Held(r))
  BY DEF Good, Chained
<1> HIDE DEF r
<1>3. /\ s = [r EXCEPT !.phase = "locked", !.lease = "held"]
      /\ \A g \in Handle : g # h => handle'[g] = handle[g]
  BY <1>1, PutOne
<1> HIDE DEF s
<1>4. s \in HandleRecord
  <2>1. [r EXCEPT !.phase = "locked"] \in HandleRecord
    BY <1>2, OneField
  <2> QED
    BY <1>3, <2>1, OneField
<1>5. /\ s.phase = "locked" /\ s.lease = "held"
      /\ s.memory = r.memory /\ s.view = r.view /\ s.tail = r.tail
      /\ s.torn = r.torn /\ s.tornAt = r.tornAt /\ s.materialized = r.materialized
      /\ s.closing = r.closing /\ s.stage = r.stage /\ s.queue = r.queue /\ s.mark = r.mark
      /\ s.life = r.life /\ s.buffered = r.buffered /\ s.draining = r.draining
      /\ s.await = r.await /\ s.barrier = r.barrier
  BY <1>2, <1>3, ZenonT(60) DEF HandleRecord
<1>6. /\ r.queue = <<>> /\ r.stage = "idle" /\ r.closing = "no" /\ r.life = "setup"
      /\ r.memory = <<>> /\ r.view = <<>> /\ r.buffered = <<>>
  BY <1>1, <1>2 DEF Unopened
<1>7. r.await = 0 /\ r.barrier = "none" /\ ~r.draining /\ Numbered(r.memory)
  BY <1>2, <1>6 DEF Chain, Closing, Pieces
<1>8. Good(s)
  BY <1>4, <1>5, <1>6, <1>7, RestGood
<1> QED
  BY <1>1, <1>3, <1>5, <1>6, <1>8 DEF r, s

\* A log with every event in its place is no longer than there are events.
LEMMA NumberedLength ==
    ASSUME NEW s \in Seq(Event), Numbered(s)
    PROVE  Len(s) \in 0 .. MaxEvent
<1> DEFINE n == Len(s)
<1>1. n \in Nat
  BY LenProperties
<1>2. CASE n = 0
  BY <1>2, BoundAssumption
<1>3. CASE n # 0
  <2>1. n \in 1 .. n
    BY <1>1, <1>3
  <2>2. s[n] \in Event /\ s[n].seq = n
    BY <2>1, ElementOfSeq DEF Numbered
  <2>3. n \in 1 .. MaxEvent
    BY <2>2 DEF Event
  <2> QED
    BY <2>3
<1> QED
  BY <1>2, <1>3

\* The log of an open.
LEMMA ReadEffect ==
    ASSUME handle \in [Handle -> HandleRecord], Disk, NEW h \in Handle, Good(handle[h]),
           ReadForOpen(h)
    PROVE  LET r == handle[h]
               s == handle'[h]
           IN  /\ UNCHANGED <<claim, lock, disk, acked, failures, crashes>>
               /\ \A g \in Handle : g # h => handle'[g] = handle[g]
               /\ Good(s) /\ Marked(s) /\ r.phase = "locked" /\ s.phase = "open"
               /\ s.lease = "held" /\ s.materialized /\ s.view = disk.log \o disk.rest
               /\ s.torn = disk.torn /\ s.tornAt = Len(disk.log) /\ s.tail = disk.rest
               /\ s.closing = "no" /\ s.stage = "idle"
<1> DEFINE r == handle[h]
           s == handle'[h]
           l == disk.log \o disk.rest
           f == Fresh("open", r.home, l)
           t == disk.torn
           n == Len(disk.log)
           e == disk.rest
<1>1. /\ r.phase = "locked" /\ Numbered(l)
      /\ UNCHANGED <<claim, lock, disk, acked, failures, crashes>>
      /\ Put(h, [f EXCEPT !.materialized = TRUE, !.lease = "held", !.torn = t,
                          !.tornAt = n, !.tail = e])
  BY DEF ReadForOpen, Stored, Numbered
<1>2. r.home \in Instance \cup {None}
  BY StateFields DEF Good
<1>3. t \in BOOLEAN /\ disk.log \in Seq(Event) /\ e \in Seq(Event) /\ e \in Log
  BY DEF Disk, Log
<1>4. /\ l \in Seq(Event) /\ l \in Log /\ n \in Nat /\ Len(l) = n + Len(e) /\ Len(e) \in Nat
  BY <1>3, ConcatProperties, LenProperties DEF Log
<1>5. n \in 0 .. MaxEvent /\ n <= Len(l)
  <2>1. Len(l) \in 0 .. MaxEvent
    BY <1>1, <1>4, NumberedLength
  <2> DEFINE i == Len(l)
             j == Len(e)
  <2>2. i \in 0 .. MaxEvent /\ j \in Nat /\ n \in Nat /\ i = n + j
    BY <1>4, <2>1
  <2> HIDE DEF n, i, j
  <2>3. n \in 0 .. MaxEvent /\ n <= i
    BY <2>2, BoundAssumption
  <2> QED
    BY <2>3 DEF i
<1>6. /\ f \in HandleRecord /\ f.phase = "open" /\ f.memory = l /\ f.view = l
      /\ f.life = "setup" /\ f.queue = <<>> /\ f.stage = "idle" /\ f.buffered = <<>>
      /\ ~f.draining /\ f.closing = "no" /\ f.await = 0 /\ f.barrier = "none" /\ f.mark = 0
  <2> DEFINE home == r.home
  <2>1. home \in Instance \cup {None} /\ f = Fresh("open", home, l)
    BY <1>2
  <2> HIDE DEF l, home, f
  <2>2. LET x == Fresh("open", home, l)
        IN  /\ x \in HandleRecord /\ x.phase = "open" /\ x.home = home
            /\ x.memory = l /\ x.view = l /\ x.life = "setup"
            /\ ~x.materialized /\ ~x.torn /\ x.tornAt = 0 /\ x.tail = <<>>
            /\ x.lease = "none" /\ x.queue = <<>> /\ x.stage = "idle" /\ x.buffered = <<>>
            /\ ~x.draining /\ x.closing = "no" /\ x.await = 0 /\ ~x.failed
            /\ x.barrier = "none" /\ x.mark = 0
    <3>1. home \in Instance \cup {None} /\ l \in Log
      BY <1>4, <2>1
    <3> QED
      BY <3>1, FreshFields
  <2> QED
    BY <2>1, <2>2
<1>7. l = disk.log \o disk.rest /\ n = Len(disk.log) /\ e = disk.rest /\ t = disk.torn
  OBVIOUS
<1> HIDE DEF r, s, l, f, t, n, e
<1>8. /\ s = [f EXCEPT !.materialized = TRUE, !.lease = "held", !.torn = t,
                       !.tornAt = n, !.tail = e]
      /\ \A g \in Handle : g # h => handle'[g] = handle[g]
  BY <1>1, PutOne DEF s
<1>9. s \in HandleRecord
  <2>1. [f EXCEPT !.materialized = TRUE] \in HandleRecord
    BY <1>6, OneField
  <2>2. [f EXCEPT !.materialized = TRUE, !.lease = "held"] \in HandleRecord
    BY <2>1, OneField
  <2>3. [f EXCEPT !.materialized = TRUE, !.lease = "held", !.torn = t] \in HandleRecord
    BY <1>3, <2>2, OneField
  <2>4. [f EXCEPT !.materialized = TRUE, !.lease = "held", !.torn = t, !.tornAt = n]
           \in HandleRecord
    BY <1>5, <2>3, OneField
  <2> QED
    BY <1>3, <1>8, <2>4, OneField
<1>10. /\ s.phase = f.phase /\ s.memory = f.memory /\ s.view = f.view /\ s.life = f.life
       /\ s.queue = f.queue /\ s.stage = f.stage /\ s.buffered = f.buffered
       /\ s.draining = f.draining /\ s.closing = f.closing /\ s.await = f.await
       /\ s.barrier = f.barrier /\ s.mark = f.mark
       /\ s.materialized /\ s.lease = "held" /\ s.torn = t /\ s.tornAt = n /\ s.tail = e
  BY <1>6, <1>8, ZenonT(60) DEF HandleRecord
<1>11. Good(s)
  BY <1>1, <1>6, <1>9, <1>10, RestGood
<1>12. Marked(s)
  BY <1>4, <1>5, <1>6, <1>10, LenProperties DEF Marked
<1>13. /\ s.phase = "open" /\ s.view = disk.log \o disk.rest /\ s.torn = disk.torn
       /\ s.tornAt = Len(disk.log) /\ s.tail = disk.rest
       /\ s.closing = "no" /\ s.stage = "idle"
  BY <1>6, <1>7, <1>10, Zenon
<1> QED
  BY <1>1, <1>8, <1>10, <1>11, <1>12, <1>13, Zenon DEF r, s

\* The lock is free.
LEMMA FreeEffect ==
    ASSUME handle \in [Handle -> HandleRecord], NEW h \in Handle, Good(handle[h]), FreeLock(h)
    PROVE  LET r == handle[h]
               s == handle'[h]
           IN  /\ UNCHANGED <<claim, disk, failures, crashes>> /\ lock' = None
               /\ Keep(IF r.life = "live" /\ ~r.failed THEN Longer(r.memory) ELSE acked)
               /\ \A g \in Handle : g # h => handle'[g] = handle[g]
               /\ Good(s) /\ s.mark = r.mark /\ s.memory = r.memory
               /\ r.phase = "open" /\ r.closing = "releasing"
               /\ s.closing = "freed" /\ s.lease = "released"
               /\ s.phase = r.phase /\ s.view = r.view /\ s.materialized = r.materialized
               /\ s.torn = r.torn /\ s.tornAt = r.tornAt /\ s.tail = r.tail
               /\ s.queue = r.queue /\ s.stage = r.stage /\ s.buffered = r.buffered
               /\ s.life = r.life /\ s.failed = r.failed
<1> DEFINE r == handle[h]
           s == handle'[h]
<1>1. /\ r.phase = "open" /\ r.closing = "releasing" /\ lock' = None
      /\ UNCHANGED <<claim, disk, failures, crashes>>
      /\ Keep(IF r.life = "live" /\ ~r.failed THEN Longer(r.memory) ELSE acked)
      /\ Put(h, [r EXCEPT !.closing = "freed", !.lease = "released"])
  BY DEF FreeLock, Open
<1>2. /\ r \in HandleRecord /\ Good(r) /\ Chain(r) /\ Closing(r) /\ Unopened(r)
      /\ Batches(r) /\ Pieces(r) /\ (~SetupRace => Held(r))
  BY DEF Good, Chained
<1> HIDE DEF r
<1>3. /\ s = [r EXCEPT !.closing = "freed", !.lease = "released"]
      /\ \A g \in Handle : g # h => handle'[g] = handle[g]
  BY <1>1, PutOne
<1> HIDE DEF s
<1>4. s \in HandleRecord
  <2>1. [r EXCEPT !.closing = "freed"] \in HandleRecord
    BY <1>2, OneField
  <2> QED
    BY <1>3, <2>1, OneField
<1>5. /\ s.closing = "freed" /\ s.lease = "released"
      /\ s.phase = r.phase /\ s.memory = r.memory /\ s.view = r.view /\ s.life = r.life
      /\ s.materialized = r.materialized /\ s.torn = r.torn /\ s.tornAt = r.tornAt
      /\ s.tail = r.tail /\ s.queue = r.queue /\ s.stage = r.stage /\ s.failed = r.failed
      /\ s.buffered = r.buffered /\ s.draining = r.draining /\ s.await = r.await
      /\ s.barrier = r.barrier /\ s.mark = r.mark
  BY <1>2, <1>3, ZenonT(60) DEF HandleRecord
<1>6. Chain(s)
  BY <1>2, <1>5 DEF Chain
<1>7. Closing(s)
  BY <1>1, <1>2, <1>5 DEF Closing
<1>8. Batches(s)
  BY <1>2, <1>5 DEF Batches, Started
<1>9. Carried(s) = Carried(r)
  BY <1>5 DEF Carried
<1>10. Pieces(s)
  BY <1>2, <1>5, <1>9 DEF Pieces, InWrite
<1>11. Held(r) => Held(s)
  BY <1>5, <1>9 DEF Held
<1>12. Good(s)
  BY <1>1, <1>2, <1>4, <1>5, <1>6, <1>7, <1>8, <1>10, <1>11 DEF Good, Chained, Unopened
<1> QED
  BY <1>1, <1>3, <1>5, <1>12 DEF r, s

\* The claim is given back, and the close settles.
LEMMA ReleaseEffect ==
    ASSUME handle \in [Handle -> HandleRecord], Claims, NEW h \in Handle, Good(handle[h]),
           ReleaseHandle(h)
    PROVE  LET r == handle[h]
               s == handle'[h]
           IN  /\ UNCHANGED <<lock, disk, acked, failures, crashes>> /\ Claims'
               /\ \A g \in Handle : g # h => handle'[g] = handle[g]
               /\ Good(s) /\ s.mark = r.mark /\ s.memory = r.memory
               /\ r.phase = "open" /\ r.closing = "freed" /\ s.phase = "closed"
               /\ s.closing = r.closing /\ s.lease = r.lease
               /\ s.view = r.view /\ s.materialized = r.materialized
               /\ s.torn = r.torn /\ s.tornAt = r.tornAt /\ s.tail = r.tail
               /\ s.queue = r.queue /\ s.stage = r.stage /\ s.buffered = r.buffered
               /\ s.life = r.life /\ s.failed = r.failed
<1> DEFINE r == handle[h]
           s == handle'[h]
<1>1. /\ r.phase = "open" /\ r.closing = "freed"
      /\ claim' = [claim EXCEPT ![r.home] = None]
      /\ UNCHANGED <<lock, disk, acked, failures, crashes>>
      /\ Put(h, [r EXCEPT !.phase = "closed"])
  BY DEF ReleaseHandle, Open
<1>2. /\ r \in HandleRecord /\ Good(r) /\ Chain(r) /\ Closing(r) /\ Unopened(r)
      /\ Batches(r) /\ Pieces(r) /\ (~SetupRace => Held(r))
  BY DEF Good, Chained
<1>0. Claims'
  BY <1>1 DEF Claims
<1> HIDE DEF r
<1>3. /\ s = [r EXCEPT !.phase = "closed"]
      /\ \A g \in Handle : g # h => handle'[g] = handle[g]
  BY <1>1, PutOne
<1> HIDE DEF s
<1>4. s \in HandleRecord
  BY <1>2, <1>3, OneField
<1>5. /\ s.phase = "closed"
      /\ s.closing = r.closing /\ s.lease = r.lease
      /\ s.memory = r.memory /\ s.view = r.view /\ s.life = r.life
      /\ s.materialized = r.materialized /\ s.torn = r.torn /\ s.tornAt = r.tornAt
      /\ s.tail = r.tail /\ s.queue = r.queue /\ s.stage = r.stage /\ s.failed = r.failed
      /\ s.buffered = r.buffered /\ s.draining = r.draining /\ s.await = r.await
      /\ s.barrier = r.barrier /\ s.mark = r.mark
  BY <1>2, <1>3, ZenonT(60) DEF HandleRecord
<1>6. Chain(s)
  BY <1>2, <1>5 DEF Chain
<1>7. Closing(s)
  BY <1>1, <1>2, <1>5 DEF Closing
<1>8. Batches(s)
  BY <1>2, <1>5 DEF Batches, Started
<1>9. Carried(s) = Carried(r)
  BY <1>5 DEF Carried
<1>10. Pieces(s)
  BY <1>2, <1>5, <1>9 DEF Pieces, InWrite
<1>11. Held(r) => Held(s)
  BY <1>5, <1>9 DEF Held
<1>12. Good(s)
  BY <1>1, <1>2, <1>4, <1>5, <1>6, <1>7, <1>8, <1>10, <1>11 DEF Good, Chained, Unopened
<1> QED
  BY <1>0, <1>1, <1>3, <1>5, <1>12 DEF r, s

\* An instance is lost: its handles start afresh, and what its writer had in flight
\* is left in the file, or not.
LEMMA CrashEffect ==
    ASSUME handle \in [Handle -> HandleRecord], Claims, NEW i \in Instance, Crash(i)
    PROVE  /\ handle' \in [Handle -> HandleRecord] /\ Claims'
           /\ Keep(acked) /\ UNCHANGED failures /\ crashes < MaxCrash /\ crashes' = crashes + 1
           /\ lock' \in {lock, None}
           /\ \A g \in Handle : \/ handle'[g] = handle[g] /\ (lock' = g <=> lock = g)
                                \/ New(handle'[g]) /\ lock' # g
           /\ \/ UNCHANGED disk
              \/ \E w \in Handle : /\ handle[w].stage \in {"tail", "batch"} /\ New(handle'[w])
                                   /\ LeftBehind(w)
<1> DEFINE lost == {h \in Handle : handle[h].home = i /\ handle[h].phase # "unused"}
           f == Fresh("dead", i, <<>>)
<1>1. /\ crashes < MaxCrash /\ crashes' = crashes + 1
      /\ handle' = [h \in Handle |-> IF h \in lost THEN f ELSE handle[h]]
      /\ claim' = [claim EXCEPT ![i] = None]
      /\ lock' = (IF lock \in lost THEN None ELSE lock)
      /\ Keep(acked) /\ UNCHANGED failures
      /\ \/ UNCHANGED disk
         \/ \E w \in lost : handle[w].stage \in {"tail", "batch"} /\ LeftBehind(w)
  BY DEF Crash
<1>2. New(f) /\ f \in HandleRecord
  BY FreshNew DEF New, Good
<1>3. lost \subseteq Handle
  OBVIOUS
<1>4. Claims'
  BY <1>1 DEF Claims
<1> HIDE DEF f, lost
<1>5. handle' \in [Handle -> HandleRecord]
  BY <1>1, <1>2
<1>6. /\ \A g \in lost : handle'[g] = f
      /\ \A g \in Handle : g \notin lost => handle'[g] = handle[g]
  BY <1>1, <1>3
<1>7. \A g \in Handle : g # None
  BY NoneAssumption
<1>8. ASSUME NEW g \in Handle
      PROVE  \/ handle'[g] = handle[g] /\ (lock' = g <=> lock = g)
             \/ New(handle'[g]) /\ lock' # g
  BY <1>1, <1>2, <1>6, <1>7, <1>8
<1>9. \A w \in lost : New(handle'[w])
  BY <1>2, <1>6
<1> QED
  BY <1>1, <1>3, <1>4, <1>5, <1>8, <1>9

-----------------------------------------------------------------------------
(* One handle's chain and events, at every step.                           *)

\* The last event of a slice.
LEMMA LastOfSlice ==
    ASSUME NEW m \in Seq(Event), Numbered(m), NEW b \in Seq(Event), b # <<>>, NEW n \in Nat,
           Slice(b, m, n)
    PROVE  Last(b).seq = n + Len(b) /\ n + Len(b) <= Len(m) /\ n + Len(b) \in Nat
<1> DEFINE k == Len(b)
           l == Len(m)
<1>1. k \in Nat /\ k # 0 /\ l \in Nat /\ n + k <= l
  BY LenProperties, EmptySeq DEF Slice
<1> HIDE DEF k, l
<1>2. k \in 1 .. k /\ n + k \in 1 .. l
  BY <1>1
<1>3. b[k] = m[n + k]
  BY <1>2 DEF Slice, k
<1>4. m[n + k].seq = n + k
  BY <1>2 DEF Numbered, l
<1>5. Last(b) = b[k]
  BY DEF Last, k
<1> QED
  BY <1>1, <1>3, <1>4, <1>5 DEF k, l

\* What the caller of an operation that is done is told: nothing, or the session's
\* first n events, for n the last it wrote or what a flush covers.
Covers(r) ==
  IF Head(r.queue).kind = "append" THEN Len(r.view) + Len(Head(r.queue).batch) ELSE r.mark

\* What the settlement of an operation tells is a prefix of the session's events.
LEMMA ToldEvents ==
    ASSUME NEW r, Loaded(r), InWrite(r) \/ Head(r.queue).kind # "append", Marked(r)
    PROVE  /\ Covers(r) \in Nat /\ Covers(r) <= Len(r.memory)
           /\ \/ Told(r) = <<>>
              \/ Head(r.queue).kind # "drain" /\ Told(r) = SubSeq(r.memory, 1, Covers(r))
<1>1. /\ r \in HandleRecord /\ Numbered(r.memory) /\ Head(r.queue) \in Op
      /\ Head(r.queue).batch \in Seq(Event) /\ r.memory \in Seq(Event) /\ r.view \in Seq(Event)
      /\ Len(r.view) \in Nat /\ r.mark \in Nat
  BY LoadedEvents, EventFields, LenProperties
<1>2. Head(r.queue).kind \in {"append", "flush", "drain"}
  BY <1>1, Operations
<1>3. CASE Head(r.queue).kind = "append"
  <2>1. Head(r.queue).batch # <<>> /\ Slice(Head(r.queue).batch, r.memory, Len(r.view))
    BY <1>3 DEF Loaded, Pieces
  <2>2. /\ Last(Head(r.queue).batch).seq = Covers(r) /\ Covers(r) <= Len(r.memory)
        /\ Covers(r) \in Nat
    BY <1>1, <1>3, <2>1, LastOfSlice DEF Covers
  <2> QED
    BY <1>3, <2>2 DEF Told
<1>4. CASE Head(r.queue).kind = "flush"
  BY <1>1, <1>4 DEF Told, Covers, Marked
<1>5. CASE Head(r.queue).kind = "drain"
  BY <1>1, <1>5 DEF Told, Covers, Marked
<1> QED
  BY <1>2, <1>3, <1>4, <1>5

\* What callers were told stays a log.
LEMMA TellTyped ==
    ASSUME acked \in Log, NEW r, Loaded(r), InWrite(r) \/ Head(r.queue).kind # "append",
           Marked(r), Tell(Told(r))
    PROVE  acked' \in Log
<1>1. Told(r) \in Seq(Event)
  <2>1. r \in HandleRecord /\ <<>> \in Seq(Event) /\ r.memory \in Seq(Event)
    BY EventFields DEF Loaded
  <2> QED
    BY <2>1, ToldEvents, PrefixSlice
<1> QED
  BY <1>1 DEF Tell, Longer, Log

\* So it does when records are lost.
LEMMA KeepTyped ==
    ASSUME Disk', lock' = None \/ (lock' \in Handle /\ handle'[lock'] \in HandleRecord),
           NEW told \in Log, Keep(told)
    PROVE  acked' \in Log
<1>1. /\ disk'.log \in Seq(Event) /\ disk'.rest \in Seq(Event)
      /\ lock' \in Handle => handle'[lock'].tail \in Seq(Event)
  BY EventFields, NoneAssumption DEF Disk, Log
<1>2. Stored' \in Seq(Event)
  BY <1>1, ConcatProperties DEF Stored
<1>3. Mending' \in Seq(Event)
  BY <1>1 DEF Mending
<1>4. Stored' \o Mending' \in Log
  BY <1>2, <1>3, ConcatProperties DEF Log
<1> QED
  BY <1>4 DEF Keep

\* The file stays a record of its fields.
LEMMA DiskKept ==
    ASSUME Disk
    PROVE  /\ \A b \in Seq(Event) : disk' = Landed(b) => Disk'
           /\ \A n \in Nat : disk' = Cut(n) => Disk'
           /\ UNCHANGED disk => Disk'
<1>1. disk.log \in Seq(Event) /\ disk.rest \in Seq(Event) /\ Len(disk.log) \in Nat
  BY LenProperties DEF Disk, Log
<1>2. ASSUME NEW b \in Seq(Event), disk' = Landed(b) PROVE Disk'
  <2>1. disk.log \o b \in Log
    BY <1>1, ConcatProperties DEF Log
  <2> QED
    BY <1>2, <2>1 DEF Disk, Landed
<1>3. ASSUME NEW n \in Nat, disk' = Cut(n) PROVE Disk'
  <2>1. CASE n > Len(disk.log)
    <3>1. <<>> \in Log
      BY DEF Log
    <3> QED
      BY <1>3, <2>1, <3>1 DEF Disk, Cut
  <2>2. CASE ~(n > Len(disk.log))
    <3>1. n <= Len(disk.log)
      BY <1>1, <2>2
    <3>2. SubSeq(disk.log, 1, n) \in Log /\ <<>> \in Log
      BY <1>1, <3>1, PrefixSlice DEF Log
    <3> QED
      BY <1>3, <2>2, <3>2 DEF Disk, Cut
  <2> QED
    BY <2>1, <2>2
<1>4. UNCHANGED disk => Disk'
  BY DEF Disk
<1> QED
  BY <1>2, <1>3, <1>4

\* So it does when a writer is lost.
LEMMA LeftDisk ==
    ASSUME Disk, handle \in [Handle -> HandleRecord], NEW h \in Handle, Good(handle[h]),
           handle[h].stage \in {"tail", "batch"}, LeftBehind(h)
    PROVE  Disk'
<1> DEFINE r == handle[h]
           b == Bytes(h)
<1>1. b \in Seq(Event)
  <2>1. r.tail \in Seq(Event) /\ r \in HandleRecord
    BY EventFields DEF Good
  <2>2. Head(r.queue).batch \in Seq(Event)
    BY StartedLoaded, LoadedEvents
  <2> QED
    BY <2>1, <2>2 DEF Bytes
<1>2. /\ disk.log \in Seq(Event) /\ disk.rest \in Seq(Event)
  BY DEF Disk, Log
<1>3. Len(b) \in Nat
  BY <1>1, LenProperties
<1> HIDE DEF b
<1>4. \A n \in 0 .. Len(b) : SubSeq(b, 1, n) \in Seq(Event)
  BY <1>1, <1>3, PrefixSlice
<1>5. ASSUME NEW e \in Encoding, NEW n \in 0 .. Len(b), disk' = Torn(e, SubSeq(b, 1, n))
      PROVE  Disk'
  <2> DEFINE x == SubSeq(b, 1, n)
  <2>1. x \in Log /\ disk.log \o x \in Log
    BY <1>2, <1>4, ConcatProperties DEF Log
  <2>2. \/ disk' = [disk EXCEPT !.torn = TRUE, !.rest = x]
        \/ disk' = [disk EXCEPT !.torn = TRUE, !.log = disk.log \o x]
    BY <1>5 DEF Torn
  <2> HIDE DEF x
  <2> QED
    BY <2>1, <2>2 DEF Disk
<1>6. \/ UNCHANGED disk
      \/ disk' = Landed(b)
      \/ \E e \in Encoding, n \in 0 .. Len(b) : disk' = Torn(e, SubSeq(b, 1, n))
  BY DEF LeftBehind, b
<1> QED
  BY <1>1, <1>5, <1>6, DiskKept

\* Every step of a handle puts that handle.
LEMMA StepPuts ==
    ASSUME NEW h \in Handle, Storage(h) \/ TimerFires(h) \/ Clients(h) \/ Faults(h)
    PROVE  \E s : Put(h, s)
<1>1. StartOperation(h) => \E s : Put(h, s)
  BY Zenon DEF StartOperation
<1>2. EnsureLease(h) => \E s : Put(h, s)
  BY DEF EnsureLease
<1>3. TruncateTornTail(h) => \E s : Put(h, s)
  BY DEF TruncateTornTail
<1>4. RewriteTail(h) => \E s : Put(h, s)
  BY DEF RewriteTail
<1>5. PersistBatch(h) => \E s : Put(h, s)
  BY DEF PersistBatch
<1>6. FreeLock(h) => \E s : Put(h, s)
  BY DEF FreeLock
<1>7. ReleaseHandle(h) => \E s : Put(h, s)
  BY DEF ReleaseHandle
<1>8. LockForOpen(h) => \E s : Put(h, s)
  BY DEF LockForOpen
<1>9. ReadForOpen(h) => \E s : Put(h, s)
  BY DEF ReadForOpen
<1>10. TimerFires(h) => \E s : Put(h, s)
  BY DEF TimerFires
<1>11. Emit(h) => \E s : Put(h, s)
  BY DEF Emit
<1>12. SessionFlush(h) => \E s : Put(h, s)
  BY DEF SessionFlush
<1>13. Close(h) => \E s : Put(h, s)
  BY DEF Close
<1>14. RegisterCreated(h) => \E s : Put(h, s)
  BY DEF RegisterCreated
<1>15. \A last \in BOOLEAN : AppendSuffix(h, last) => \E s : Put(h, s)
  BY DEF AppendSuffix
<1>16. \A i \in Instance : BeginCreate(h, i) => \E s : Put(h, s)
  BY DEF BeginCreate
<1>17. \A i \in Instance : ClaimWrite(h, i) => \E s : Put(h, s)
  BY DEF ClaimWrite
<1>18. RollBackOpen(h) => \E s : Put(h, s)
  BY DEF RollBackOpen
<1>19. FailOperation(h) => \E s : Put(h, s)
  BY DEF FailOperation
<1> QED
  BY <1>1, <1>2, <1>3, <1>4, <1>5, <1>6, <1>7, <1>8, <1>9, <1>10, <1>11, <1>12, <1>13, <1>14,
     <1>15, <1>16, <1>17, <1>18, <1>19 DEF Storage, Clients, Faults

\* What a step of a handle has to keep of that handle, and of what all share.
Kept(h) ==
  /\ Good(handle'[h]) /\ Marked(handle'[h]) /\ Types'
  /\ \A g \in Handle : g # h => handle'[g] = handle[g]

\* A step of one handle that keeps that handle keeps what holds of every handle.
LEMMA KeptLocal ==
    ASSUME Local, NEW h \in Handle, Storage(h) \/ TimerFires(h) \/ Clients(h) \/ Faults(h), Kept(h)
    PROVE  Local'
<1>1. PICK s : Put(h, s)
  BY StepPuts
<1>2. handle' = [handle EXCEPT ![h] = s] /\ handle'[h] = s
  BY <1>1 DEF Local, Put
<1>3. s \in HandleRecord
  BY <1>2 DEF Kept, Good
<1>4. handle' \in [Handle -> HandleRecord]
  BY <1>2, <1>3 DEF Local
<1> QED
  BY <1>4 DEF Kept, Local

\* A step that leaves the session's events alone leaves the marks where they are.
LEMMA MarkedKept ==
    ASSUME NEW r, Marked(r), NEW s, s.memory = r.memory, s.tornAt = r.tornAt, s.mark = r.mark
    PROVE  Marked(s)
  BY DEF Marked

\* The same of an operation that settles or goes on.
LEMMA SettledMarked ==
    ASSUME NEW r, Marked(r), NEW s
    PROVE  /\ Staged(r, s) => Marked(s)
           /\ \A ok \in BOOLEAN : SettledTo(r, s, ok) => Marked(s)
           /\ Proceeded(r, s) => Marked(s)
<1>1. Staged(r, s) => Marked(s)
  BY MarkedKept DEF Staged, Keeps
<1>2. \A ok \in BOOLEAN : SettledTo(r, s, ok) => Marked(s)
  BY MarkedKept DEF SettledTo, Keeps
<1> QED
  BY <1>1, <1>2 DEF Proceeded

\* A handle that a drain took the buffer of.
LEMMA TakenMarked ==
    ASSUME NEW r, Good(r), r.stage = "idle", r.queue # <<>>, Marked(r)
    PROVE  /\ Marked(TakenFrom(r))
           /\ Head(r.queue).kind # "drain" => TakenFrom(r) = r
<1>1. Head(r.queue).kind # "drain" => TakenFrom(r) = r
  BY DEF TakenFrom
<1>2. CASE Head(r.queue).kind = "drain"
  <2>1. Keeps(r, TakenFrom(r)) /\ TakenFrom(r).mark = r.mark
    BY <1>2, TakenFields
  <2> QED
    BY <1>1, <1>2, <2>1, MarkedKept DEF Keeps
<1> QED
  BY <1>1, <1>2

\* The chain starts an operation.
LEMMA StartLocal ==
    ASSUME Local, NEW h \in Handle, StartOperation(h)
    PROVE  Kept(h)
<1> DEFINE r == handle[h]
           s == handle'[h]
           t == TakenFrom(r)
<1>1. Good(r) /\ Marked(r) /\ Types /\ handle \in [Handle -> HandleRecord]
  BY DEF Local
<1>2. /\ r.stage = "idle" /\ r.queue # <<>> /\ Loaded(t) /\ Begun(r, s)
      /\ UNCHANGED <<claim, lock, disk, failures, crashes>>
      /\ \A g \in Handle : g # h => handle'[g] = handle[g]
  BY <1>1, StartEffect
<1>3. Marked(t) /\ (Head(r.queue).kind # "drain" => t = r)
  BY <1>1, <1>2, TakenMarked
<1> HIDE DEF r, s, t
<1>4. Good(s) /\ Marked(s) /\ acked' \in Log
  <2>1. CASE Head(r.queue).kind # "drain" /\ SettledTo(r, s, FALSE) /\ UNCHANGED acked
    <3>1. Loaded(r)
      BY <1>2, <1>3, <2>1
    <3>2. Good(s)
      BY <2>1, <3>1, UnwrittenGood
    <3> QED
      BY <1>1, <2>1, <3>2, SettledMarked DEF Types
  <2>2. CASE Head(r.queue).kind = "flush" /\ SettledTo(r, s, TRUE) /\ Tell(Told(r))
    <3>1. Loaded(r)
      BY <1>2, <1>3, <2>2
    <3>2. Good(s)
      BY <2>2, <3>1, UnwrittenGood
    <3>3. acked' \in Log
      BY <1>1, <2>2, <3>1, TellTyped DEF Types
    <3> QED
      BY <1>1, <2>2, <3>2, <3>3, SettledMarked
  <2>3. CASE UNCHANGED acked /\ Staged(t, s) /\ s.stage = "lease"
    <3>1. s.stage # "idle" /\ ~InWrite(s)
      BY <2>3 DEF InWrite
    <3>2. Good(s)
      BY <1>2, <2>3, <3>1, StagedGood
    <3> QED
      BY <1>1, <1>3, <2>3, <3>2, SettledMarked DEF Types
  <2>4. CASE UNCHANGED acked /\ Proceeded(t, s)
    <3>1. Good(s)
      BY <1>2, <2>4, ProceededGood
    <3> QED
      BY <1>1, <1>3, <2>4, <3>1, SettledMarked DEF Types
  <2> QED
    BY <1>2, <2>1, <2>2, <2>3, <2>4 DEF Begun, t
<1> QED
  BY <1>1, <1>2, <1>4 DEF Kept, Types, Claims, Disk, s

\* It waits for the lock.
LEMMA LeaseLocal ==
    ASSUME Local, NEW h \in Handle, EnsureLease(h)
    PROVE  Kept(h)
<1> DEFINE r == handle[h]
           s == handle'[h]
           x == [r EXCEPT !.lease = "held"]
<1>1. Good(r) /\ Marked(r) /\ Types /\ handle \in [Handle -> HandleRecord]
  BY DEF Local
<1>2. /\ Loaded(r)
      /\ UNCHANGED <<claim, disk, acked, failures, crashes>>
      /\ \A g \in Handle : g # h => handle'[g] = handle[g]
      /\ \/ lock' = h /\ Loaded(x) /\ Proceeded(x, s)
         \/ lock' = lock /\ SettledTo(r, s, FALSE)
      /\ SameChain(r, x) /\ x.tornAt = r.tornAt
  BY <1>1, LeaseEffect
<1> HIDE DEF r, s, x
<1>3. Marked(x)
  BY <1>1, <1>2, MarkedKept DEF SameChain
<1>4. Good(s) /\ Marked(s)
  <2>1. CASE Loaded(x) /\ Proceeded(x, s)
    BY <1>3, <2>1, ProceededGood, SettledMarked
  <2>2. CASE SettledTo(r, s, FALSE)
    BY <1>1, <1>2, <2>2, UnwrittenGood, SettledMarked
  <2> QED
    BY <1>2, <2>1, <2>2
<1> QED
  BY <1>1, <1>2, <1>4 DEF Kept, Types, Claims, Disk, s

\* It repairs the file.
LEMMA RepairLocal ==
    ASSUME Local, NEW h \in Handle, TruncateTornTail(h) \/ RewriteTail(h)
    PROVE  Kept(h)
<1> DEFINE r == handle[h]
           s == handle'[h]
<1>1. Good(r) /\ Marked(r) /\ Types /\ handle \in [Handle -> HandleRecord]
  BY DEF Local
<1>2. r.tornAt \in Nat /\ r.tail \in Seq(Event)
  BY <1>1, EventFields DEF Good
<1>3. CASE TruncateTornTail(h)
  <2>1. /\ Good(s) /\ UNCHANGED <<claim, lock, acked, failures, crashes>>
        /\ disk' = Cut(r.tornAt)
        /\ \A g \in Handle : g # h => handle'[g] = handle[g]
        /\ SameChain(r, s) /\ s.tornAt = r.tornAt
    BY <1>1, <1>3, TruncateEffect
  <2>2. Marked(s)
    BY <1>1, <2>1, MarkedKept DEF SameChain
  <2>3. Disk'
    BY <1>1, <1>2, <2>1, DiskKept DEF Types
  <2> QED
    BY <1>1, <2>1, <2>2, <2>3 DEF Kept, Types, Claims
<1>4. CASE RewriteTail(h)
  <2>1. /\ Good(s) /\ UNCHANGED <<claim, lock, acked, failures, crashes>>
        /\ disk' = Landed(r.tail)
        /\ \A g \in Handle : g # h => handle'[g] = handle[g]
        /\ SameChain(r, s) /\ s.tornAt = r.tornAt
    BY <1>1, <1>4, RewriteEffect
  <2>2. Marked(s)
    BY <1>1, <2>1, MarkedKept DEF SameChain
  <2>3. Disk'
    BY <1>1, <1>2, <2>1, DiskKept DEF Types
  <2> QED
    BY <1>1, <2>1, <2>2, <2>3 DEF Kept, Types, Claims
<1> QED
  BY <1>3, <1>4

\* It writes its batch, or its I/O rejects.
LEMMA WriteLocal ==
    ASSUME Local, NEW h \in Handle, PersistBatch(h) \/ FailOperation(h)
    PROVE  Kept(h)
<1> DEFINE r == handle[h]
           s == handle'[h]
           b == Head(r.queue).batch
<1>1. Good(r) /\ Marked(r) /\ Types /\ handle \in [Handle -> HandleRecord]
  BY DEF Local
<1>2. r.tornAt \in Nat
  BY <1>1, EventFields DEF Good
<1>3. CASE PersistBatch(h)
  <2> DEFINE w == WithBatch(r)
  <2>1. /\ r.stage = "batch" /\ Loaded(r) /\ Good(s)
        /\ UNCHANGED <<claim, lock, failures, crashes>>
        /\ \A g \in Handle : g # h => handle'[g] = handle[g]
        /\ \/ disk' = Landed(b) /\ SettledTo(w, s, TRUE) /\ Tell(Told(r))
           \/ SettledTo(r, s, FALSE) /\ UNCHANGED <<disk, acked>>
        /\ w.memory = r.memory /\ w.tornAt = r.tornAt /\ w \in HandleRecord
    BY <1>1, <1>3, PersistEffect
  <2>2. w.mark = r.mark
    BY <1>1, ZenonT(60) DEF WithBatch, Good, HandleRecord
  <2>3. b \in Seq(Event) /\ InWrite(r)
    BY <2>1, LoadedEvents DEF InWrite
  <2> HIDE DEF w, b
  <2>4. Marked(w)
    BY <1>1, <2>1, <2>2, MarkedKept
  <2>5. CASE disk' = Landed(b) /\ SettledTo(w, s, TRUE) /\ Tell(Told(r))
    <3>1. acked' \in Log
      BY <1>1, <2>1, <2>3, <2>5, TellTyped DEF Types
    <3>2. Disk'
      BY <1>1, <2>3, <2>5, DiskKept DEF Types
    <3>3. Marked(s)
      BY <2>4, <2>5, SettledMarked
    <3> QED
      BY <1>1, <2>1, <3>1, <3>2, <3>3 DEF Kept, Types, Claims
  <2>6. CASE SettledTo(r, s, FALSE) /\ UNCHANGED <<disk, acked>>
    <3>1. Marked(s)
      BY <1>1, <2>6, SettledMarked
    <3> QED
      BY <1>1, <2>1, <2>6, <3>1 DEF Kept, Types, Claims, Disk
  <2> QED
    BY <2>1, <2>5, <2>6
<1>4. CASE FailOperation(h)
  <2>1. /\ Loaded(r) /\ Good(s) /\ UNCHANGED <<claim, lock, acked, crashes>>
        /\ failures < MaxFailure /\ failures' = failures + 1
        /\ \A g \in Handle : g # h => handle'[g] = handle[g]
        /\ SettledTo(r, s, FALSE)
        /\ \/ UNCHANGED disk \/ disk' = Cut(r.tornAt) \/ disk' = Landed(b)
           \/ r.stage \in {"tail", "batch"} /\ LeftBehind(h)
    BY <1>1, <1>4, FailEffect
  <2>2. Marked(s)
    BY <1>1, <2>1, SettledMarked
  <2>3. b \in Seq(Event)
    BY <2>1, LoadedEvents
  <2>4. Disk'
    BY <1>1, <1>2, <2>1, <2>3, DiskKept, LeftDisk DEF Types
  <2>5. failures' \in 0 .. MaxFailure
    BY <1>1, <2>1, BoundAssumption DEF Types
  <2> QED
    BY <1>1, <2>1, <2>2, <2>4, <2>5 DEF Kept, Types, Claims
<1> QED
  BY <1>3, <1>4

\* A step of the session, of the timer or of a caller of close.
LEMMA TendedLocal ==
    ASSUME Local, NEW h \in Handle,
           \/ Emit(h) \/ SessionFlush(h) \/ Close(h) \/ TimerFires(h)
           \/ \E last \in BOOLEAN : AppendSuffix(h, last)
    PROVE  /\ Kept(h) /\ UNCHANGED <<claim, lock, disk, acked, failures, crashes>>
           /\ Tended(handle[h], handle'[h])
<1> DEFINE r == handle[h]
           s == handle'[h]
<1>1. Good(r) /\ Marked(r) /\ Types /\ handle \in [Handle -> HandleRecord]
  BY DEF Local
<1>2. /\ UNCHANGED <<claim, lock, disk, acked, failures, crashes>>
      /\ \A g \in Handle : g # h => handle'[g] = handle[g]
      /\ Tended(r, s)
  BY <1>1, EmitEffect, BarrierEffect, CloseEffect, TimerEffect, AppendEffect
<1>3. Good(s) /\ s.tornAt = r.tornAt /\ s \in HandleRecord /\ r \in HandleRecord
  BY <1>1, <1>2 DEF Tended, SameFile, Good
<1>4. Marked(s)
  <2> DEFINE i == Len(r.memory)
             j == Len(s.memory)
  <2>1. i \in Nat /\ r.mark \in Nat /\ r.tornAt \in Nat
    BY <1>3, EventFields, LenProperties
  <2>2. /\ j = i \/ j = i + 1
        /\ s.mark = r.mark \/ s.mark = i
    BY <1>2 DEF Tended
  <2>3. r.mark <= i /\ r.tornAt <= i
    BY <1>1 DEF Marked
  <2> HIDE DEF i, j, r, s
  <2>4. s.mark <= j /\ r.tornAt <= j
    BY <2>1, <2>2, <2>3
  <2> QED
    BY <1>3, <2>4 DEF Marked, j
<1> QED
  BY <1>1, <1>2, <1>3, <1>4 DEF Kept, Types, Claims, Disk

\* A handle that starts afresh, or gets the lock and the log of an open.
LEMMA OpenLocal ==
    ASSUME Local, NEW h \in Handle,
           \/ \E i \in Instance : BeginCreate(h, i) \/ ClaimWrite(h, i)
           \/ RegisterCreated(h) \/ RollBackOpen(h) \/ LockForOpen(h) \/ ReadForOpen(h)
    PROVE  Kept(h)
<1> DEFINE r == handle[h]
           s == handle'[h]
<1>1. Good(r) /\ Marked(r) /\ Types /\ Claims /\ Disk /\ handle \in [Handle -> HandleRecord]
  BY DEF Local, Types
<1>2. CASE \/ \E i \in Instance : BeginCreate(h, i) \/ ClaimWrite(h, i)
           \/ RegisterCreated(h) \/ RollBackOpen(h)
  <2>1. /\ New(s) /\ UNCHANGED <<disk, acked, crashes>> /\ Claims'
        /\ \A g \in Handle : g # h => handle'[g] = handle[g]
        /\ lock' = lock \/ lock' = None
        /\ \/ failures' = failures
           \/ failures < MaxFailure /\ failures' = failures + 1
    BY <1>1, <1>2, AfreshEffect
  <2>2. failures' \in 0 .. MaxFailure
    BY <1>1, <2>1, BoundAssumption DEF Types
  <2> QED
    BY <1>1, <2>1, <2>2 DEF Kept, Types, Disk, New
<1>3. CASE LockForOpen(h)
  <2>1. /\ UNCHANGED <<claim, disk, acked, failures, crashes>> /\ lock' = h
        /\ \A g \in Handle : g # h => handle'[g] = handle[g]
        /\ Good(s) /\ s.memory = r.memory /\ s.tornAt = r.tornAt /\ s.mark = r.mark
    BY <1>1, <1>3, LockEffect
  <2>2. Marked(s)
    BY <1>1, <2>1, MarkedKept
  <2> QED
    BY <1>1, <2>1, <2>2 DEF Kept, Types, Claims, Disk
<1>4. CASE ReadForOpen(h)
  <2>1. /\ UNCHANGED <<claim, lock, disk, acked, failures, crashes>>
        /\ \A g \in Handle : g # h => handle'[g] = handle[g]
        /\ Good(s) /\ Marked(s)
    BY <1>1, <1>4, ReadEffect
  <2> QED
    BY <1>1, <2>1 DEF Kept, Types, Claims, Disk
<1> QED
  BY <1>2, <1>3, <1>4

\* The last steps of a close.
LEMMA ReleaseLocal ==
    ASSUME Local, NEW h \in Handle, FreeLock(h) \/ ReleaseHandle(h)
    PROVE  Kept(h)
<1> DEFINE r == handle[h]
           s == handle'[h]
<1>1. /\ Good(r) /\ Marked(r) /\ Types /\ Claims /\ Disk /\ handle \in [Handle -> HandleRecord]
      /\ r \in HandleRecord
  BY DEF Local, Types, Good
<1>2. CASE FreeLock(h)
  <2>1. /\ UNCHANGED <<claim, disk, failures, crashes>> /\ lock' = None
        /\ \A g \in Handle : g # h => handle'[g] = handle[g]
        /\ Good(s) /\ s.mark = r.mark /\ s.memory = r.memory /\ s.tornAt = r.tornAt
        /\ Keep(IF r.life = "live" /\ ~r.failed THEN Longer(r.memory) ELSE acked)
    BY <1>1, <1>2, FreeEffect
  <2>2. Marked(s)
    BY <1>1, <2>1, MarkedKept
  <2>3. Disk'
    BY <1>1, <2>1 DEF Disk
  <2>4. (IF r.life = "live" /\ ~r.failed THEN Longer(r.memory) ELSE acked) \in Log
    BY <1>1, EventFields DEF Types, Longer
  <2>5. acked' \in Log
    BY <2>1, <2>3, <2>4, KeepTyped
  <2> QED
    BY <1>1, <2>1, <2>2, <2>3, <2>5 DEF Kept, Types, Claims
<1>3. CASE ReleaseHandle(h)
  <2>1. /\ UNCHANGED <<lock, disk, acked, failures, crashes>> /\ Claims'
        /\ \A g \in Handle : g # h => handle'[g] = handle[g]
        /\ Good(s) /\ s.mark = r.mark /\ s.memory = r.memory /\ s.tornAt = r.tornAt
    BY <1>1, <1>3, ReleaseEffect
  <2>2. Marked(s)
    BY <1>1, <2>1, MarkedKept
  <2> QED
    BY <1>1, <2>1, <2>2 DEF Kept, Types, Disk
<1> QED
  BY <1>2, <1>3

\* An instance is lost.
LEMMA CrashLocal ==
    ASSUME Local, NEW i \in Instance, Crash(i)
    PROVE  Local'
<1>1. /\ Types /\ Claims /\ Disk /\ handle \in [Handle -> HandleRecord]
      /\ \A g \in Handle : Good(handle[g]) /\ Marked(handle[g])
  BY DEF Local, Types
<1>2. /\ handle' \in [Handle -> HandleRecord] /\ Claims'
      /\ Keep(acked) /\ UNCHANGED failures /\ crashes < MaxCrash /\ crashes' = crashes + 1
      /\ lock' \in {lock, None}
      /\ \A g \in Handle : handle'[g] = handle[g] \/ New(handle'[g])
      /\ \/ UNCHANGED disk
         \/ \E w \in Handle : handle[w].stage \in {"tail", "batch"} /\ LeftBehind(w)
  BY <1>1, CrashEffect
<1>3. \A g \in Handle : Good(handle'[g]) /\ Marked(handle'[g])
  BY <1>1, <1>2 DEF New
<1>4. Disk'
  BY <1>1, <1>2, LeftDisk, DiskKept
<1>5. crashes' \in 0 .. MaxCrash
  BY <1>1, <1>2, BoundAssumption DEF Types
<1>6. acked' \in Log
  <2>1. lock' = None \/ (lock' \in Handle /\ handle'[lock'] \in HandleRecord)
    BY <1>1, <1>2 DEF Types
  <2> QED
    BY <1>1, <1>2, <1>4, <2>1, KeepTyped DEF Types
<1> QED
  BY <1>1, <1>2, <1>3, <1>4, <1>5, <1>6 DEF Local, Types

\* The invariant of each handle holds at the start.
LEMMA LocalInit == Init => Local
<1> SUFFICES ASSUME Init PROVE Local
  OBVIOUS
<1>1. /\ handle = [h \in Handle |-> Unused]
      /\ claim = [i \in Instance |-> None] /\ lock = None
      /\ disk = [exists |-> FALSE, log |-> <<>>, torn |-> FALSE, rest |-> <<>>]
      /\ acked = <<>> /\ failures = 0 /\ crashes = 0
  BY DEF Init
<1>2. <<>> \in Log
  BY DEF Log
<1>3. New(Unused)
  BY FreshNew DEF Unused
<1>4. \A h \in Handle : handle[h] = Unused
  BY <1>1
<1>5. Good(Unused) /\ Marked(Unused) /\ Unused \in HandleRecord
  BY <1>3 DEF New, Good
<1>6. Types
  BY <1>1, <1>2, BoundAssumption DEF Types, Claims, Disk
<1> QED
  BY <1>1, <1>4, <1>5, <1>6 DEF Local

\* Every step of a handle, and the loss of an instance, keeps it.
LEMMA LocalStep == Local /\ [Next]_vars => Local'
<1> SUFFICES ASSUME Local, [Next]_vars PROVE Local'
  OBVIOUS
<1>1. ASSUME NEW h \in Handle, Storage(h) \/ TimerFires(h) \/ Clients(h) \/ Faults(h)
      PROVE  Local'
  <2>1. Kept(h)
    <3>1. CASE Storage(h)
      BY <3>1, StartLocal, LeaseLocal, RepairLocal, WriteLocal, OpenLocal, ReleaseLocal
         DEF Storage
    <3>2. CASE TimerFires(h)
      BY <3>2, TendedLocal
    <3>3. CASE Clients(h)
      BY <3>3, TendedLocal, OpenLocal DEF Clients
    <3>4. CASE Faults(h)
      BY <3>4, WriteLocal, OpenLocal DEF Faults
    <3> QED
      BY <1>1, <3>1, <3>2, <3>3, <3>4
  <2> QED
    BY <1>1, <2>1, KeptLocal
<1>2. ASSUME NEW i \in Instance, Crash(i) PROVE Local'
  BY <1>2, CrashLocal
<1>3. CASE UNCHANGED vars
  BY <1>3 DEF vars, Local, Types, Claims, Disk
<1> QED
  BY <1>1, <1>2, <1>3 DEF Next

-----------------------------------------------------------------------------
(* Types, and the events of a live session.                                *)

\* Every variable keeps its type, with late producers, racing setups and late
\* timers too; no chain is longer than what close may wait for.
THEOREM HandleTypes == Spec => []TypeOK
<1>1. Local => TypeOK
  <2> SUFFICES ASSUME Local PROVE TypeOK
    OBVIOUS
  <2>1. Types
    BY DEF Local
  <2>2. ASSUME NEW h \in Handle
        PROVE  LET r == handle[h] IN
               /\ r.phase \in {"unused", "creating", "claimed", "locked", "open", "closed", "dead"}
               /\ r.home \in Instance \cup {None}
               /\ r.memory \in Log /\ r.view \in Log /\ r.tail \in Log /\ r.buffered \in Log
               /\ r.life \in {"setup", "storing", "live", "failed"}
               /\ {r.materialized, r.torn, r.timer, r.paused, r.draining, r.failed}
                     \subseteq BOOLEAN
               /\ r.tornAt \in 0 .. MaxEvent
               /\ r.lease \in {"none", "held", "released"}
               /\ r.queue \in Seq(Op) /\ Len(r.queue) <= 3
               /\ r.stage \in {"idle", "lease", "truncate", "tail", "batch"}
               /\ r.closing \in {"no", "draining", "settling", "last", "releasing", "freed"}
               /\ r.await \in 0 .. 3 /\ r.mark \in 0 .. MaxEvent
               /\ r.barrier \in {"none", "draining", "flushing"}
    <3> DEFINE r == handle[h]
    <3>1. r \in HandleRecord /\ Len(r.queue) <= 2
      BY DEF Local, Good, Chained, Chain
    <3> HIDE DEF r
    <3>2. /\ r.queue \in Seq(Op) /\ Len(r.queue) \in Nat /\ r.await \in 0 .. 3
          /\ r.draining \in BOOLEAN /\ r.failed \in BOOLEAN
      BY <3>1, ChainFields
    <3>3. /\ r.memory \in Log /\ r.view \in Log /\ r.tail \in Log /\ r.buffered \in Log
          /\ r.mark \in 0 .. MaxEvent /\ r.tornAt \in 0 .. MaxEvent
      BY <3>1, EventFields
    <3>4. /\ r.closing \in {"no", "draining", "settling", "last", "releasing", "freed"}
          /\ r.barrier \in {"none", "draining", "flushing"}
          /\ r.life \in {"setup", "storing", "live", "failed"}
          /\ r.lease \in {"none", "held", "released"}
          /\ r.stage \in {"idle", "lease", "truncate", "tail", "batch"}
          /\ r.phase \in {"unused", "creating", "claimed", "locked", "open", "closed", "dead"}
          /\ r.home \in Instance \cup {None}
          /\ r.materialized \in BOOLEAN /\ r.torn \in BOOLEAN
          /\ r.timer \in BOOLEAN /\ r.paused \in BOOLEAN
      BY <3>1, StateFields
    <3>5. Len(r.queue) <= 3
      BY <3>1, <3>2
    <3>6. {r.materialized, r.torn, r.timer, r.paused, r.draining, r.failed} \subseteq BOOLEAN
      BY <3>2, <3>4
    <3> QED
      BY <3>2, <3>3, <3>4, <3>5, <3>6, Zenon DEF r
  <2> QED
    BY <2>1, <2>2, Zenon DEF TypeOK, Types, Claims, Disk
<1> QED
  BY LocalInit, LocalStep, <1>1, PTL DEF Spec

\* What a drain has taken is what it carries: a queued one carries nothing.
LEMMA TakenCarried ==
    ASSUME NEW r, Good(r)
    PROVE  Taken(r) = Carried(r) /\ Carried(r) \in Seq(Event)
<1>1. CASE r.queue = <<>>
  <2>1. r.stage = "idle"
    BY <1>1 DEF Good, Chained, Chain
  <2> QED
    BY <1>1, <2>1 DEF Taken, Carried
<1>2. CASE r.queue # <<>>
  <2>1. /\ Head(r.queue) = r.queue[1] /\ r.queue \in Seq(Op) /\ Waits(r) /\ r \in HandleRecord
    BY <1>2, GoodWaits, ChainFields DEF Good
  <2>2. 1 \in 1 .. Len(r.queue) /\ Head(r.queue) \in Op
    BY <1>2, <2>1, FirstOperation, LenProperties, EmptySeq
  <2>3. Head(r.queue).kind = "drain" /\ r.stage = "idle" => Head(r.queue).batch = <<>>
    BY <2>1, <2>2 DEF Good, Chained, Batches
  <2>4. Carried(r) \in Seq(Event)
    BY <2>1, <2>2, CarriedEvents
  <2>5. Taken(r) = Carried(r)
    BY <1>2, <2>3, Zenon DEF Taken, Carried
  <2> QED
    BY <2>4, <2>5
<1> QED
  BY <1>1, <1>2

\* Where no event races the suffix of a setup, every event of a live session is
\* stored, taken by a drain or buffered, once and in order.
THEOREM EventsAreHeld ==
    ASSUME ~SetupRace
    PROVE  Spec => []EveryEventHeld
<1>1. Local => EveryEventHeld
  <2> SUFFICES ASSUME Local, NEW h \in Handle, handle[h].life = "live"
               PROVE  handle[h].memory = handle[h].view \o Taken(handle[h]) \o handle[h].buffered
    BY DEF EveryEventHeld
  <2> DEFINE r == handle[h]
             c == Carried(r)
             m == r.memory
             v == r.view
             b == r.buffered
  <2>1. Good(r) /\ Pieces(r) /\ Held(r) /\ r \in HandleRecord
    BY DEF Local, Good
  <2>2. m \in Seq(Event) /\ v \in Seq(Event) /\ b \in Seq(Event)
    BY <2>1, EventFields
  <2>3. Taken(r) = c /\ c \in Seq(Event)
    BY <2>1, TakenCarried
  <2>4. /\ Slice(v, m, 0) /\ Ending(c \o b, m) /\ Len(m) = Len(v) + Len(c \o b)
    BY <2>1 DEF Pieces, Held
  <2> HIDE DEF r, c, m, v, b
  <2> DEFINE x == c \o b
             i == Len(v)
             j == Len(x)
             k == Len(m)
  <2>5. x \in Seq(Event) /\ i \in Nat /\ j \in Nat /\ k \in Nat /\ k = i + j
    BY <2>2, <2>3, <2>4, ConcatProperties, LenProperties
  <2>6. Slice(x, m, k - j)
    BY <2>4 DEF Ending
  <2> HIDE DEF x, i, j, k
  <2>7. k - j = i
    BY <2>5
  <2>8. Slice(x, m, 0 + Len(v))
    BY <2>5, <2>6, <2>7 DEF i
  <2>9. Slice(v \o x, m, 0)
    BY <2>2, <2>4, <2>5, <2>8, SliceJoin
  <2>10. v \o x \in Seq(Event) /\ Len(v \o x) = Len(m)
    BY <2>2, <2>5, ConcatProperties DEF i, j, k
  <2>11. v \o x = m
    BY <2>2, <2>9, <2>10, PrefixOfPrefix
  <2>12. (v \o c) \o b = v \o x
    BY <2>2, <2>3, ConcatAssociative DEF x
  <2> QED
    BY <2>3, <2>11, <2>12 DEF r, m, v, b
<1> QED
  BY LocalInit, LocalStep, <1>1, PTL DEF Spec

-----------------------------------------------------------------------------
(* The holder of the lock and the file.  From here on nothing runs on once a *)
(* close frees the lock.                                                     *)

\* A handle whose chain is not empty is open, and its close has not freed the lock.
LEMMA BusyOpen ==
    ASSUME NEW r, NEW d, Between(r, d), r.queue # <<>>, r.phase \in {"open", "closed"}
    PROVE  /\ r.phase = "open" /\ r.closing \notin {"releasing", "freed"}
           /\ r.lease # "released"
  BY DEF Between, Quiet, Leased

\* An operation that settles leaves the handle between operations.
LEMMA SettledSound ==
    ASSUME NEW r \in HandleRecord, NEW d, Between(r, d), r.queue # <<>>,
           r.phase \in {"open", "closed"}, NEW ok \in BOOLEAN, NEW s, SettledTo(r, s, ok)
    PROVE  Sound(s, d) /\ s.lease = r.lease /\ s.lease # "released"
<1>1. /\ r.phase = "open" /\ r.closing \notin {"releasing", "freed"} /\ r.lease # "released"
      /\ Leased(r) /\ Knows(r, d)
  BY BusyOpen DEF Between
<1>2. /\ Keeps(r, s) /\ s.stage = "idle"
      /\ s.closing \in {"releasing", "freed"} =>
            s.closing = Freeing(r) /\ s.queue = <<>> /\ (s.failed \/ s.buffered = <<>>)
  BY <1>1 DEF SettledTo, Resting
<1>3. Leased(s)
  BY <1>1, <1>2 DEF Leased, Keeps, Freeing
<1>4. Quiet(s)
  BY <1>2 DEF Quiet
<1>5. Knows(s, d)
  BY <1>1, <1>2 DEF Knows, Keeps
<1>6. Placed(s)
  BY <1>2 DEF Placed, InWrite
<1> QED
  BY <1>1, <1>2, <1>3, <1>4, <1>5, <1>6 DEF Sound, Between, Keeps

\* One that goes on, where it may be.
LEMMA StagedSound ==
    ASSUME NEW r \in HandleRecord, NEW d, Between(r, d), r.queue # <<>>,
           r.phase \in {"open", "closed"}, NEW s, Staged(r, s), Placed(s)
    PROVE  Sound(s, d) /\ s.lease = r.lease /\ s.lease # "released"
<1>1. /\ r.phase = "open" /\ r.closing \notin {"releasing", "freed"} /\ r.lease # "released"
      /\ Leased(r) /\ Knows(r, d)
  BY BusyOpen DEF Between
<1>2. Keeps(r, s) /\ s.closing = r.closing
  BY DEF Staged
<1>3. Leased(s)
  BY <1>1, <1>2 DEF Leased, Keeps
<1>4. Quiet(s)
  BY <1>1, <1>2 DEF Quiet
<1>5. Knows(s, d)
  BY <1>1, <1>2 DEF Knows, Keeps
<1> QED
  BY <1>1, <1>2, <1>3, <1>4, <1>5 DEF Sound, Between, Keeps

\* One that holds the lock and checks its cursor.
LEMMA ProceededSound ==
    ASSUME NEW r, Loaded(r), NEW d, Between(r, d), r.lease = "held",
           Head(r.queue).kind = "flush" => ~r.materialized,
           NEW s, Proceeded(r, s)
    PROVE  Sound(s, d) /\ s.lease = r.lease /\ s.lease # "released"
<1>1. /\ r \in HandleRecord /\ r.queue # <<>> /\ r.phase \in {"open", "closed"}
  BY LoadedEvents
<1>2. CASE SettledTo(r, s, FALSE)
  BY <1>1, <1>2, SettledSound
<1>3. CASE /\ Staged(r, s)
           /\ Head(r.queue).kind = "flush" => s.stage = "batch"
           /\ Head(r.queue).kind # "flush" =>
                 s.stage = IF r.torn THEN "truncate" ELSE IF r.tail # <<>> THEN "tail" ELSE "batch"
  <2>1. /\ Keeps(r, s) /\ s.queue = r.queue /\ r.phase = "open" /\ Leased(r)
    BY <1>1, <1>3, BusyOpen DEF Staged, Between
  <2>2. Placed(s)
    BY <1>3, <2>1 DEF Placed, Keeps, Leased, InWrite
  <2> QED
    BY <1>1, <1>3, <2>2, StagedSound
<1> QED
  BY <1>2, <1>3 DEF Proceeded

\* A step of the session, of the timer or of a caller of close.
LEMMA TendedSound ==
    ASSUME ~LateTimer, ~LateProducer, NEW r, Good(r), NEW d, Sound(r, d), NEW s, Tended(r, s)
    PROVE  Sound(s, d) /\ s.lease = r.lease /\ s.lease # "released"
<1>1. /\ Leased(r) /\ Quiet(r) /\ Knows(r, d) /\ Placed(r)
      /\ Good(s) /\ r.phase \in {"open", "closed"} /\ SameFile(r, s) /\ s.stage = r.stage
      /\ Closes(r, s) /\ r.closing \notin {"releasing", "freed"}
      /\ r.stage # "idle" => Head(s.queue) = Head(r.queue)
  BY DEF Sound, Between, Tended
<1>2. r.phase = "open" /\ r.lease # "released"
  BY <1>1 DEF Leased
<1>3. s.closing \in {"releasing", "freed"} =>
         s.closing = Freeing(r) /\ s.queue = <<>> /\ (s.failed \/ s.buffered = <<>>)
  BY <1>1 DEF Closes
<1>4. s.queue = <<>> => s.stage = "idle"
  BY <1>1 DEF Good, Chained, Chain
<1>5. Leased(s)
  BY <1>1, <1>2, <1>3 DEF Leased, SameFile, Freeing
<1>6. Quiet(s)
  BY <1>3, <1>4 DEF Quiet
<1>7. Knows(s, d)
  BY <1>1 DEF Knows, SameFile
<1>8. Placed(s)
  BY <1>1 DEF Placed, InWrite, SameFile
<1> QED
  BY <1>1, <1>2, <1>5, <1>6, <1>7, <1>8 DEF Sound, Between, SameFile

\* A handle that starts afresh.
LEMMA NewSound ==
    ASSUME NEW s, New(s), NEW d
    PROVE  Sound(s, d) /\ s.lease = "none"
<1>1. Leased(s) /\ Quiet(s) /\ Knows(s, d) /\ Placed(s)
  BY DEF New, Leased, Quiet, Knows, Placed, InWrite
<1> QED
  BY <1>1 DEF New, Sound, Between

\* A handle that does not hold the lock knows no more than that the file exists.
LEMMA OtherSound ==
    ASSUME NEW r, NEW d, Sound(r, d), r.lease # "held", NEW e, d.exists => e.exists
    PROVE  Sound(r, e)
  BY DEF Sound, Between, Knows

\* What is part of a log with every event in its place has them so too.
LEMMA SliceNumbered ==
    ASSUME NEW s, NEW m, Numbered(m), Slice(s, m, 0), Len(s) \in Nat, Len(m) \in Nat
    PROVE  Numbered(s)
<1> SUFFICES ASSUME NEW n \in 1 .. Len(s) PROVE s[n].seq = n
  BY DEF Numbered
<1>1. s[n] = m[0 + n]
  BY DEF Slice
<1>2. 0 + n = n /\ n \in 1 .. Len(m)
  BY DEF Slice
<1> QED
  BY <1>1, <1>2 DEF Numbered

\* What a handle is writing continues the file, where it is not refused: file and
\* bytes are the first events of its session.
LEMMA WritesOn ==
    ASSUME NEW r, Good(r), Disk, File(disk), Sound(r, disk), r.stage \in {"tail", "batch"},
           r.materialized \/ ~disk.exists,
           NEW b, b = IF r.stage = "tail" THEN r.tail ELSE Head(r.queue).batch
    PROVE  /\ ~disk.torn /\ disk.rest = <<>> /\ disk.log \in Seq(Event) /\ b \in Seq(Event)
           /\ r.phase = "open" /\ r.lease = "held" /\ r.queue # <<>>
           /\ r.view = IF r.stage = "tail" THEN disk.log \o b ELSE disk.log
           /\ Slice(disk.log \o b, r.memory, 0) /\ Numbered(disk.log \o b)
           /\ r.stage = "tail" => b # <<>> \/ disk.log \o b = disk.log
<1>1. /\ Leased(r) /\ Knows(r, disk) /\ Placed(r) /\ Loaded(r) /\ InWrite(r)
      /\ r.phase = "open" /\ r.lease = "held"
  BY StartedLoaded DEF Sound, Between, Placed, InWrite
<1>2. /\ r \in HandleRecord /\ Numbered(r.memory) /\ Slice(r.view, r.memory, 0)
      /\ Head(r.queue) \in Op /\ Head(r.queue).batch \in Seq(Event)
      /\ r.memory \in Seq(Event) /\ r.view \in Seq(Event) /\ r.queue # <<>>
  BY <1>1, LoadedEvents
<1>3. r.tail \in Seq(Event) /\ b \in Seq(Event) /\ disk.log \in Seq(Event)
  BY <1>2, EventFields DEF Disk, Log
<1>4. disk.log \o b \in Seq(Event) /\ <<>> \in Seq(Event)
  BY <1>3, ConcatProperties
<1>5. /\ ~disk.torn /\ disk.rest = <<>>
      /\ r.view = IF r.stage = "tail" THEN disk.log \o b ELSE disk.log
  <2>1. CASE r.materialized
    <3>1. /\ r.view = disk.log \o r.tail /\ (disk.torn => r.torn)
      BY <1>1, <2>1 DEF Knows
    <3>2. ~r.torn /\ (r.stage = "batch" => r.tail = <<>>)
      BY <1>1 DEF Placed
    <3>3. disk.log \o <<>> = disk.log
      BY <1>3, NoEvents
    <3> QED
      BY <3>1, <3>2, <3>3 DEF File
  <2>2. CASE ~r.materialized
    <3>1. r.view = <<>> /\ r.stage = "batch"
      BY <1>1, <2>2 DEF Leased, Placed
    <3>2. disk.log = <<>> /\ ~disk.torn /\ disk.rest = <<>>
      BY <2>2 DEF File
    <3> QED
      BY <3>1, <3>2
  <2> QED
    BY <2>1, <2>2
<1>6. Slice(disk.log \o b, r.memory, 0)
  <2>1. CASE r.stage = "tail"
    BY <1>2, <1>5, <2>1
  <2>2. CASE r.stage = "batch"
    <3> DEFINE m == r.memory
               l == disk.log
    <3>1. r.view = l /\ Slice(l, m, 0) /\ l \in Seq(Event) /\ m \in Seq(Event)
      BY <1>2, <1>3, <1>5, <2>2
    <3>2. CASE Head(r.queue).kind = "flush"
      <4>1. b = <<>> /\ l \o <<>> = l
        BY <1>1, <3>1, <3>2, <2>2, NoEvents DEF Loaded
      <4> QED
        BY <3>1, <4>1
    <3>3. CASE Head(r.queue).kind # "flush"
      <4>1. Slice(b, m, Len(l))
        BY <1>1, <2>2, <3>1, <3>3 DEF Loaded, Pieces
      <4>2. 0 + Len(l) = Len(l)
        BY <3>1, LenProperties
      <4> HIDE DEF l, m
      <4>3. Slice(l \o b, m, 0)
        BY <1>3, <3>1, <4>1, <4>2, SliceJoin
      <4> QED
        BY <4>3 DEF l, m
    <3> QED
      BY <3>2, <3>3
  <2> QED
    BY <2>1, <2>2
<1>7. Numbered(disk.log \o b)
  BY <1>2, <1>4, <1>6, SliceNumbered, LenProperties
<1>8. b # <<>> \/ disk.log \o b = disk.log
  BY <1>3, NoEvents
<1> QED
  BY <1>1, <1>2, <1>3, <1>5, <1>6, <1>7, <1>8

\* A file that was written is a log again.
LEMMA LandedFile ==
    ASSUME Disk, ~disk.torn, disk.rest = <<>>, NEW b \in Seq(Event), Numbered(disk.log \o b),
           disk' = Landed(b)
    PROVE  /\ File(disk)' /\ disk'.log = disk.log \o b /\ ~disk'.torn /\ disk'.rest = <<>>
           /\ disk'.exists
<1>1. /\ disk'.log = disk.log \o b /\ ~disk'.torn /\ disk'.rest = <<>> /\ disk'.exists
  BY DEF Landed, Disk
<1>2. disk.log \o b \in Seq(Event)
  BY ConcatProperties DEF Disk, Log
<1>3. disk'.log \o disk'.rest = disk.log \o b
  BY <1>1, <1>2, NoEvents
<1> QED
  BY <1>1, <1>3 DEF File

\* A log is the first part of what continues it.
LEMMA StartOfConcat ==
    ASSUME NEW S, NEW s \in Seq(S), NEW t \in Seq(S)
    PROVE  Slice(s, s \o t, 0)
<1> DEFINE x == s \o t
           i == Len(s)
           j == Len(t)
<1>1. \A n \in 1 .. Len(s) + Len(t) : (s \o t)[n] = IF n <= Len(s) THEN s[n] ELSE t[n - Len(s)]
  BY ConcatProperties
<1>2. i \in Nat /\ j \in Nat /\ Len(x) = i + j
  BY ConcatProperties, LenProperties
<1>3. \A n \in 1 .. i + j : x[n] = IF n <= i THEN s[n] ELSE t[n - i]
  BY <1>1
<1> HIDE DEF i, j, x
<1>4. \A n \in 1 .. i : n \in 1 .. i + j /\ n <= i /\ 0 + n = n
  BY <1>2
<1>5. 0 + i <= Len(x)
  BY <1>2
<1> QED
  BY <1>3, <1>4, <1>5 DEF Slice, i, x

\* The complete events of a log are a log.
LEMMA PartNumbered ==
    ASSUME NEW s \in Seq(Event), NEW t \in Seq(Event), Numbered(s \o t)
    PROVE  Numbered(s)
<1>1. Slice(s, s \o t, 0) /\ s \o t \in Seq(Event)
  BY StartOfConcat, ConcatProperties
<1> QED
  BY <1>1, SliceNumbered, LenProperties

\* A cut where the torn tail starts leaves the complete events.
LEMMA CutFile ==
    ASSUME Disk, File(disk), disk.exists, disk' = Cut(Len(disk.log))
    PROVE  /\ File(disk)' /\ disk'.log = disk.log /\ ~disk'.torn /\ disk'.rest = <<>>
           /\ disk'.exists
<1> DEFINE l == disk.log
<1>1. l \in Seq(Event) /\ disk.rest \in Seq(Event) /\ Len(l) \in Nat /\ Len(disk.rest) \in Nat
  BY LenProperties DEF Disk, Log
<1>2. SubSeq(l, 1, Len(l)) = l
  <2>1. Len(l) <= Len(l)
    BY <1>1
  <2>2. /\ SubSeq(l, 1, Len(l)) \in Seq(Event) /\ Slice(SubSeq(l, 1, Len(l)), l, 0)
        /\ Len(SubSeq(l, 1, Len(l))) = Len(l)
    BY <1>1, <2>1, PrefixSlice
  <2> QED
    BY <1>1, <2>2, PrefixOfPrefix
<1>3. disk'.log = l /\ ~disk'.torn /\ disk'.rest = <<>> /\ disk'.exists
  BY <1>1, <1>2 DEF Cut, Disk
<1>4. Numbered(l)
  BY <1>1, PartNumbered DEF File
<1>5. l \o <<>> = l
  BY <1>1, NoEvents
<1> QED
  BY <1>3, <1>4, <1>5 DEF File

\* A step that lets handle h go on, and does not touch what the others hold.
Safe(h) ==
  /\ File(disk)' /\ Sound(handle[h], disk)' /\ (lock = h <=> handle[h].lease = "held")'
  /\ \A g \in Handle : g # h => handle'[g] = handle[g] /\ (lock' = g <=> lock = g)
  /\ UNCHANGED disk \/ (handle[h].lease = "held" /\ (disk.exists => disk'.exists))

\* Such a step keeps the file and every handle sound.
LEMMA SafeExclusive ==
    ASSUME Exclusive, NEW h \in Handle, Safe(h)
    PROVE  Exclusive'
<1>1. /\ File(disk)'
      /\ Sound(handle[h], disk)' /\ (lock = h <=> handle[h].lease = "held")'
  BY DEF Safe
<1>2. ASSUME NEW g \in Handle, g # h
      PROVE  Sound(handle'[g], disk') /\ (lock' = g <=> handle'[g].lease = "held")
  <2>1. /\ handle'[g] = handle[g] /\ (lock' = g <=> lock = g)
        /\ Sound(handle[g], disk) /\ (lock = g <=> handle[g].lease = "held")
        /\ lock = h <=> handle[h].lease = "held"
    BY <1>2 DEF Safe, Exclusive
  <2>2. CASE UNCHANGED disk
    BY <2>1, <2>2
  <2>3. CASE handle[h].lease = "held" /\ (disk.exists => disk'.exists)
    <3>1. handle[g].lease # "held"
      BY <1>2, <2>1, <2>3
    <3> QED
      BY <2>1, <2>3, <3>1, OtherSound
  <2> QED
    BY <2>2, <2>3 DEF Safe
<1> QED
  BY <1>1, <1>2 DEF Exclusive

\* What the invariant says of one handle.
LEMMA OneHandle ==
    ASSUME Local, Exclusive, NEW h \in Handle
    PROVE  /\ Good(handle[h]) /\ Marked(handle[h]) /\ handle \in [Handle -> HandleRecord]
           /\ handle[h] \in HandleRecord /\ Claims /\ Disk /\ Types
           /\ File(disk) /\ Sound(handle[h], disk) /\ Between(handle[h], disk)
           /\ lock = h <=> handle[h].lease = "held"
           /\ h # None
           /\ UNCHANGED disk => File(disk)'
  BY NoneAssumption DEF Local, Exclusive, Good, Types, Sound

\* A step that leaves the file and the lock alone.
LEMMA StillSafe ==
    ASSUME Local, Exclusive, NEW h \in Handle, UNCHANGED <<lock, disk>>,
           \A g \in Handle : g # h => handle'[g] = handle[g],
           Sound(handle'[h], disk), handle'[h].lease = handle[h].lease
    PROVE  Safe(h)
<1>1. /\ File(disk)' /\ (lock = h <=> handle[h].lease = "held")
  BY OneHandle
<1>2. Sound(handle[h], disk)' /\ (lock = h <=> handle[h].lease = "held")'
  BY <1>1
<1> QED
  BY <1>1, <1>2 DEF Safe

\* The chain starts an operation.
LEMMA StartSafe ==
    ASSUME Local, Exclusive, NEW h \in Handle, StartOperation(h)
    PROVE  Safe(h)
<1> DEFINE r == handle[h]
           s == handle'[h]
           t == TakenFrom(r)
<1>1. Good(r) /\ Between(r, disk) /\ handle \in [Handle -> HandleRecord] /\ r \in HandleRecord
  BY OneHandle
<1>2. /\ r.stage = "idle" /\ r.queue # <<>> /\ Loaded(t) /\ Begun(r, s)
      /\ UNCHANGED <<claim, lock, disk, failures, crashes>>
      /\ \A g \in Handle : g # h => handle'[g] = handle[g]
  BY <1>1, StartEffect
<1>3. r.phase \in {"open", "closed"}
  BY <1>1, <1>2, GoodWaits
<1>4. r.lease # "released"
  BY <1>1, <1>2, <1>3, BusyOpen
<1>5. r.lease \in {"none", "held", "released"}
  BY <1>1, StateFields
<1>6. /\ Between(t, disk) /\ t \in HandleRecord /\ t.queue # <<>> /\ t.phase = r.phase
      /\ t.lease = r.lease /\ t.materialized = r.materialized
      /\ Head(t.queue).kind = Head(r.queue).kind
  <2>1. CASE Head(r.queue).kind = "drain"
    <3>1. /\ t \in HandleRecord /\ Keeps(r, t) /\ t.closing = r.closing /\ t.queue # <<>>
          /\ Head(t.queue).kind = "drain"
      BY <1>1, <1>2, <2>1, TakenFields
    <3>2. r.closing \notin {"releasing", "freed"} /\ Leased(r) /\ Knows(r, disk)
      BY <1>1, <1>2, <1>3, BusyOpen DEF Between
    <3>3. Leased(t) /\ Quiet(t) /\ Knows(t, disk)
      BY <3>1, <3>2 DEF Leased, Quiet, Knows, Keeps
    <3> QED
      BY <2>1, <3>1, <3>3 DEF Between, Keeps
  <2>2. CASE Head(r.queue).kind # "drain"
    <3>1. t = r
      BY <2>2 DEF TakenFrom
    <3> QED
      BY <1>1, <1>2, <3>1
  <2> QED
    BY <2>1, <2>2
<1> HIDE DEF r, s, t
<1>7. Sound(s, disk) /\ s.lease = r.lease /\ s.lease # "released"
  <2>1. CASE SettledTo(r, s, FALSE) \/ SettledTo(r, s, TRUE)
    BY <1>1, <1>2, <1>3, <2>1, SettledSound
  <2>2. CASE /\ Head(r.queue).kind = "flush" => ~r.materialized
             /\ r.lease = "none" /\ Staged(t, s) /\ s.stage = "lease"
    <3>1. Keeps(t, s) /\ s.queue = t.queue
      BY <2>2 DEF Staged
    <3>2. Placed(s)
      BY <1>6, <2>2, <3>1 DEF Placed, InWrite, Keeps
    <3> QED
      BY <1>3, <1>6, <2>2, <3>2, StagedSound
  <2>3. CASE /\ Head(r.queue).kind = "flush" => ~r.materialized
             /\ r.lease # "none" /\ Proceeded(t, s)
    <3>1. t.lease = "held"
      BY <1>4, <1>5, <1>6, <2>3
    <3> QED
      BY <1>2, <1>6, <2>3, <3>1, ProceededSound
  <2> QED
    BY <1>2, <2>1, <2>2, <2>3 DEF Begun, t
<1> QED
  BY <1>2, <1>7, StillSafe DEF r, s

\* It takes the lock, or another holder keeps it.
LEMMA LeaseSafe ==
    ASSUME Local, Exclusive, NEW h \in Handle, EnsureLease(h)
    PROVE  Safe(h)
<1> DEFINE r == handle[h]
           s == handle'[h]
           x == [r EXCEPT !.lease = "held"]
<1>1. /\ Good(r) /\ Between(r, disk) /\ Placed(r) /\ handle \in [Handle -> HandleRecord]
      /\ r \in HandleRecord /\ (lock = h <=> r.lease = "held") /\ h # None
  BY OneHandle DEF Sound
<1>2. /\ r.stage = "lease" /\ Loaded(r) /\ r.queue # <<>>
      /\ UNCHANGED <<claim, disk, acked, failures, crashes>>
      /\ \A g \in Handle : g # h => handle'[g] = handle[g]
      /\ \/ lock = None /\ lock' = h /\ Loaded(x) /\ Proceeded(x, s)
         \/ lock # None /\ lock' = lock /\ SettledTo(r, s, FALSE)
      /\ x \in HandleRecord /\ SameChain(r, x) /\ x.home = r.home /\ x.tail = r.tail
      /\ x.materialized = r.materialized /\ x.torn = r.torn /\ x.tornAt = r.tornAt
      /\ x.stage = r.stage /\ x.lease = "held"
  BY <1>1, LeaseEffect
<1>3. r.phase \in {"open", "closed"}
  BY <1>2, LoadedEvents
<1>4. r.phase = "open" /\ r.closing \notin {"releasing", "freed"} /\ r.lease = "none"
  BY <1>1, <1>2, <1>3, BusyOpen DEF Placed
<1> HIDE DEF r, s, x
<1>5. CASE lock # None /\ lock' = lock /\ SettledTo(r, s, FALSE)
  <2>1. Sound(s, disk) /\ s.lease = r.lease /\ s.lease # "released"
    BY <1>1, <1>2, <1>3, <1>5, SettledSound
  <2> QED
    BY <1>2, <1>5, <2>1, StillSafe DEF r, s
<1>6. CASE lock = None /\ lock' = h /\ Loaded(x) /\ Proceeded(x, s)
  <2>1. Leased(r) /\ Knows(r, disk) /\ ~r.materialized
    BY <1>1, <1>4 DEF Between, Leased
  <2>2. Leased(x)
    BY <1>2, <1>4, <2>1 DEF Leased, SameChain
  <2>3. Quiet(x)
    BY <1>2, <1>4 DEF Quiet, SameChain
  <2>4. Knows(x, disk)
    BY <1>2, <1>4, <2>1 DEF Knows, SameChain
  <2>5. Between(x, disk) /\ ~x.materialized
    BY <1>2, <2>1, <2>2, <2>3, <2>4 DEF Between
  <2>6. Sound(s, disk) /\ s.lease = "held"
    BY <1>2, <1>6, <2>5, ProceededSound
  <2>7. File(disk)'
    BY <1>2, OneHandle
  <2>8. \A g \in Handle : g # h => g # None /\ (lock' = g <=> lock = g)
    BY <1>6, NoneAssumption
  <2>9. Sound(handle[h], disk)' /\ (lock = h <=> handle[h].lease = "held")'
    BY <1>2, <1>6, <2>6 DEF s
  <2> QED
    BY <1>2, <2>6, <2>7, <2>8, <2>9 DEF Safe, s
<1> QED
  BY <1>2, <1>5, <1>6

\* A step that writes to the file, by the holder of the lock.
LEMMA WriteSafe ==
    ASSUME Local, Exclusive, NEW h \in Handle, UNCHANGED lock,
           \A g \in Handle : g # h => handle'[g] = handle[g],
           handle[h].lease = "held", disk.exists => disk'.exists, File(disk)',
           Sound(handle'[h], disk'), handle'[h].lease = handle[h].lease
    PROVE  Safe(h)
<1>1. lock = h <=> handle[h].lease = "held"
  BY OneHandle
<1>2. Sound(handle[h], disk)' /\ (lock = h <=> handle[h].lease = "held")'
  BY <1>1
<1> QED
  BY <1>2 DEF Safe

\* A handle that is about to cut the file knows where its torn tail starts.
LEMMA CutsRight ==
    ASSUME NEW r, Good(r), Sound(r, disk), r.stage = "truncate"
    PROVE  /\ r.torn /\ r.materialized /\ r.phase = "open" /\ r.lease = "held" /\ disk.exists
           /\ r.tornAt = Len(disk.log) /\ r.view = disk.log \o r.tail
           /\ r.closing \notin {"releasing", "freed"}
<1>1. /\ Leased(r) /\ Knows(r, disk) /\ Placed(r) /\ Loaded(r) /\ InWrite(r) /\ Between(r, disk)
      /\ r.phase = "open" /\ r.lease = "held" /\ r.torn
  BY StartedLoaded DEF Sound, Between, Placed, InWrite
<1>2. r.materialized
  BY <1>1 DEF Leased
<1>3. r.queue # <<>>
  BY <1>1, LoadedEvents
<1> QED
  BY <1>1, <1>2, <1>3, BusyOpen DEF Knows

\* The torn tail is cut off, and its records are written again.
LEMMA RepairSafe ==
    ASSUME Local, Exclusive, NEW h \in Handle, TruncateTornTail(h) \/ RewriteTail(h)
    PROVE  Safe(h)
<1> DEFINE r == handle[h]
           s == handle'[h]
<1>1. /\ Good(r) /\ Sound(r, disk) /\ Leased(r) /\ Knows(r, disk) /\ Placed(r)
      /\ handle \in [Handle -> HandleRecord] /\ Disk /\ File(disk)
  BY OneHandle DEF Sound, Between
<1>2. CASE TruncateTornTail(h)
  <2>1. /\ r.stage = "truncate" /\ Loaded(r)
        /\ UNCHANGED <<claim, lock, acked, failures, crashes>> /\ disk' = Cut(r.tornAt)
        /\ \A g \in Handle : g # h => handle'[g] = handle[g]
        /\ SameChain(r, s) /\ s.tail = r.tail /\ s.materialized = r.materialized
        /\ s.tornAt = r.tornAt /\ s.lease = r.lease /\ ~s.torn
        /\ s.stage = (IF r.tail # <<>> THEN "tail" ELSE "batch")
    BY <1>1, <1>2, TruncateEffect
  <2>2. /\ r.torn /\ r.materialized /\ r.phase = "open" /\ r.lease = "held" /\ disk.exists
        /\ r.tornAt = Len(disk.log) /\ r.view = disk.log \o r.tail
        /\ r.closing \notin {"releasing", "freed"}
    BY <1>1, <2>1, CutsRight
  <2>3. /\ File(disk)' /\ disk'.log = disk.log /\ ~disk'.torn /\ disk'.rest = <<>>
        /\ disk'.exists
    BY <1>1, <2>1, <2>2, CutFile
  <2> HIDE DEF r, s
  <2>4. Leased(s)
    BY <1>1, <2>1, <2>2 DEF Leased, SameChain
  <2>5. Quiet(s)
    BY <2>1, <2>2 DEF Quiet, SameChain
  <2>6. Knows(s, disk')
    BY <2>1, <2>2, <2>3 DEF Knows, SameChain
  <2>7. Placed(s)
    BY <1>1, <2>1, <2>2 DEF Placed, SameChain, InWrite
  <2>8. Sound(s, disk')
    BY <2>4, <2>5, <2>6, <2>7 DEF Sound, Between
  <2> QED
    BY <2>1, <2>2, <2>3, <2>8, WriteSafe DEF r, s
<1>3. CASE RewriteTail(h)
  <2> DEFINE b == r.tail
  <2>1. /\ r.stage = "tail" /\ Loaded(r)
        /\ UNCHANGED <<claim, lock, acked, failures, crashes>> /\ disk' = Landed(b)
        /\ \A g \in Handle : g # h => handle'[g] = handle[g]
        /\ SameChain(r, s) /\ s.tail = <<>> /\ s.materialized = r.materialized
        /\ s.tornAt = r.tornAt /\ s.lease = r.lease /\ s.torn = r.torn
        /\ s.stage = "batch"
    BY <1>1, <1>3, RewriteEffect
  <2>2. ~r.torn /\ r.materialized
    BY <1>1, <2>1 DEF Placed
  <2>3. /\ ~disk.torn /\ disk.rest = <<>> /\ disk.log \in Seq(Event) /\ b \in Seq(Event)
        /\ r.phase = "open" /\ r.lease = "held" /\ r.queue # <<>>
        /\ r.view = disk.log \o b /\ Numbered(disk.log \o b)
    <3>1. r.stage = "tail" /\ r.stage \in {"tail", "batch"} /\ (r.materialized \/ ~disk.exists)
      BY <2>1, <2>2
    <3>2. b = IF r.stage = "tail" THEN r.tail ELSE Head(r.queue).batch
      BY <3>1
    <3>3. Good(r) /\ Disk /\ File(disk) /\ Sound(r, disk)
      BY <1>1
    <3> HIDE DEF b
    <3> QED
      BY Zenon, <3>1, <3>2, <3>3, WritesOn
  <2>4. /\ File(disk)' /\ disk'.log = disk.log \o b /\ ~disk'.torn /\ disk'.rest = <<>>
        /\ disk'.exists
    BY <1>1, <2>1, <2>3, LandedFile
  <2>5. r.closing \notin {"releasing", "freed"}
    BY <1>1, <2>3, BusyOpen DEF Sound
  <2>6. r.view = disk'.log \o <<>>
    <3>1. disk.log \o b \in Seq(Event)
      BY <2>3, ConcatProperties
    <3> QED
      BY <2>3, <2>4, <3>1, NoEvents
  <2> HIDE DEF r, s, b
  <2>7. Leased(s)
    BY <1>1, <2>1, <2>2, <2>3, <2>5 DEF Leased, SameChain
  <2>8. Quiet(s)
    BY <2>1, <2>5 DEF Quiet, SameChain
  <2>9. Knows(s, disk')
    BY <2>1, <2>2, <2>4, <2>6 DEF Knows, SameChain
  <2>10. Placed(s)
    BY <1>1, <2>1, <2>2, <2>3 DEF Placed, SameChain, InWrite
  <2>11. Sound(s, disk')
    BY <2>7, <2>8, <2>9, <2>10 DEF Sound, Between
  <2> QED
    BY <2>1, <2>3, <2>4, <2>11, WriteSafe DEF r, s
<1> QED
  BY <1>2, <1>3

\* A batch is written behind what is stored.
LEMMA PersistSafe ==
    ASSUME Local, Exclusive, NEW h \in Handle, PersistBatch(h)
    PROVE  Safe(h)
<1> DEFINE r == handle[h]
           s == handle'[h]
           w == WithBatch(r)
           b == Head(r.queue).batch
<1>1. /\ Good(r) /\ Sound(r, disk) /\ Leased(r) /\ Knows(r, disk) /\ Placed(r) /\ Quiet(r)
      /\ handle \in [Handle -> HandleRecord] /\ Disk /\ File(disk) /\ r \in HandleRecord
      /\ Between(r, disk)
  BY OneHandle DEF Sound, Between
<1>2. /\ r.stage = "batch" /\ Loaded(r) /\ r.queue # <<>>
      /\ UNCHANGED <<claim, lock, failures, crashes>>
      /\ \A g \in Handle : g # h => handle'[g] = handle[g]
      /\ \/ /\ r.materialized \/ ~disk.exists
            /\ disk' = Landed(b) /\ SettledTo(w, s, TRUE)
         \/ SettledTo(r, s, FALSE) /\ UNCHANGED <<disk, acked>>
      /\ w \in HandleRecord /\ w.materialized /\ w.view = r.view \o b
      /\ w.phase = r.phase /\ w.torn = r.torn /\ w.tornAt = r.tornAt /\ w.tail = r.tail
      /\ w.lease = r.lease /\ w.queue = r.queue /\ w.closing = r.closing
      /\ w.stage = r.stage
  BY <1>1, PersistEffect
<1>3. /\ r.phase \in {"open", "closed"} /\ r.lease = "held" /\ r.phase = "open"
      /\ ~r.torn /\ r.tail = <<>>
  BY <1>1, <1>2 DEF Placed, InWrite
<1>4. CASE SettledTo(r, s, FALSE) /\ UNCHANGED <<disk, acked>>
  <2> HIDE DEF r, s
  <2>1. Sound(s, disk) /\ s.lease = r.lease /\ s.lease # "released"
    BY <1>1, <1>2, <1>3, <1>4, SettledSound
  <2> QED
    BY <1>2, <1>4, <2>1, StillSafe DEF r, s
<1>5. CASE (r.materialized \/ ~disk.exists) /\ disk' = Landed(b) /\ SettledTo(w, s, TRUE)
  <2>1. /\ ~disk.torn /\ disk.rest = <<>> /\ disk.log \in Seq(Event) /\ b \in Seq(Event)
        /\ r.view = disk.log /\ Numbered(disk.log \o b)
    <3>1. b = (IF r.stage = "tail" THEN r.tail ELSE Head(r.queue).batch)
      BY <1>2
    <3> HIDE DEF b, s, w
    <3> QED
      BY <1>1, <1>2, <1>5, <3>1, WritesOn
  <2> HIDE DEF r, s, w, b
  <2>2. /\ File(disk)' /\ disk'.log = disk.log \o b /\ ~disk'.torn /\ disk'.rest = <<>>
        /\ disk'.exists
    BY <1>1, <1>5, <2>1, LandedFile
  <2>3. r.closing \notin {"releasing", "freed"}
    BY <1>1, <1>2, <1>3, BusyOpen
  <2>4. w.view = disk'.log \o <<>>
    <3>1. disk.log \o b \in Seq(Event)
      BY <2>1, ConcatProperties
    <3> QED
      BY <1>2, <2>1, <2>2, <3>1, NoEvents
  <2>5. Leased(w)
    BY <1>1, <1>2, <1>3, <2>3 DEF Leased
  <2>6. Quiet(w)
    BY <1>2, <2>3 DEF Quiet
  <2>7. Knows(w, disk')
    BY <1>2, <1>3, <2>2, <2>4 DEF Knows
  <2>8. Between(w, disk')
    BY <2>5, <2>6, <2>7 DEF Between
  <2>9. Sound(s, disk') /\ s.lease = w.lease
    BY <1>2, <1>3, <1>5, <2>8, SettledSound
  <2> QED
    BY <1>2, <1>3, <2>2, <2>9, WriteSafe DEF r, s
<1> QED
  BY <1>2, <1>4, <1>5

\* An operation's I/O rejects.
LEMMA FailSafe ==
    ASSUME ~LeftBytes, Local, Exclusive, NEW h \in Handle, FailOperation(h)
    PROVE  Safe(h)
<1> DEFINE r == handle[h]
           s == handle'[h]
           b == Head(r.queue).batch
<1>1. /\ Good(r) /\ Sound(r, disk) /\ Leased(r) /\ Knows(r, disk) /\ Placed(r) /\ Quiet(r)
      /\ handle \in [Handle -> HandleRecord] /\ Disk /\ File(disk) /\ r \in HandleRecord
      /\ Between(r, disk)
  BY OneHandle DEF Sound, Between
<1>2. /\ r.stage # "idle" /\ Loaded(r) /\ r.queue # <<>>
      /\ UNCHANGED <<claim, lock, acked, crashes>>
      /\ \A g \in Handle : g # h => handle'[g] = handle[g]
      /\ SettledTo(r, s, FALSE)
      /\ \/ UNCHANGED disk
         \/ r.stage = "truncate" /\ disk' = Cut(r.tornAt)
         \/ r.stage = "batch" /\ ~r.materialized /\ ~disk.exists /\ disk' = Landed(b)
  BY <1>1, FailEffect
<1>3. r.phase \in {"open", "closed"}
  BY <1>2, LoadedEvents
<1>4. CASE UNCHANGED disk
  <2> HIDE DEF r, s
  <2>1. Sound(s, disk) /\ s.lease = r.lease /\ s.lease # "released"
    BY <1>1, <1>2, <1>3, SettledSound
  <2> QED
    BY <1>2, <1>4, <2>1, StillSafe DEF r, s
<1>5. CASE r.stage = "truncate" /\ disk' = Cut(r.tornAt)
  <2>1. /\ r.torn /\ r.materialized /\ r.phase = "open" /\ r.lease = "held" /\ disk.exists
        /\ r.tornAt = Len(disk.log) /\ r.view = disk.log \o r.tail
    BY <1>1, <1>5, CutsRight
  <2>2. /\ File(disk)' /\ disk'.log = disk.log /\ ~disk'.torn /\ disk'.rest = <<>>
        /\ disk'.exists
    BY <1>1, <1>5, <2>1, CutFile
  <2> HIDE DEF r, s, b
  <2>3. Knows(r, disk')
    BY <2>1, <2>2 DEF Knows
  <2>4. Between(r, disk')
    BY <1>1, <2>3 DEF Between
  <2>5. Sound(s, disk') /\ s.lease = r.lease
    BY <1>1, <1>2, <1>3, <2>4, SettledSound
  <2> QED
    BY <1>2, <2>1, <2>2, <2>5, WriteSafe DEF r, s
<1>6. CASE r.stage = "batch" /\ ~r.materialized /\ ~disk.exists /\ disk' = Landed(b)
  <2>1. /\ ~disk.torn /\ disk.rest = <<>> /\ disk.log \in Seq(Event) /\ b \in Seq(Event)
        /\ Numbered(disk.log \o b) /\ r.phase = "open" /\ r.lease = "held"
    <3>1. b = (IF r.stage = "tail" THEN r.tail ELSE Head(r.queue).batch)
      BY <1>6
    <3> HIDE DEF b, s
    <3> QED
      BY <1>1, <1>6, <3>1, WritesOn
  <2> HIDE DEF r, s, b
  <2>2. /\ File(disk)' /\ disk'.log = disk.log \o b /\ ~disk'.torn /\ disk'.rest = <<>>
        /\ disk'.exists
    BY <1>1, <1>6, <2>1, LandedFile
  <2>3. Knows(r, disk')
    BY <1>6, <2>1 DEF Knows
  <2>4. Between(r, disk')
    BY <1>1, <2>3 DEF Between
  <2>5. Sound(s, disk') /\ s.lease = r.lease
    BY <1>1, <1>2, <1>3, <2>4, SettledSound
  <2> QED
    BY <1>2, <2>1, <2>2, <2>5, WriteSafe DEF r, s
<1> QED
  BY <1>2, <1>4, <1>5, <1>6

\* A step of the session, of the timer or of a caller of close.
LEMMA TendedSafe ==
    ASSUME ~LateTimer, ~LateProducer, Local, Exclusive, NEW h \in Handle,
           \/ Emit(h) \/ SessionFlush(h) \/ Close(h) \/ TimerFires(h)
           \/ \E last \in BOOLEAN : AppendSuffix(h, last)
    PROVE  Safe(h)
<1>1. /\ UNCHANGED <<claim, lock, disk, acked, failures, crashes>>
      /\ Tended(handle[h], handle'[h]) /\ \A g \in Handle : g # h => handle'[g] = handle[g]
  BY TendedLocal DEF Kept
<1>2. Good(handle[h]) /\ Sound(handle[h], disk)
  BY OneHandle
<1>3. /\ Sound(handle'[h], disk) /\ handle'[h].lease = handle[h].lease
      /\ handle'[h].lease # "released"
  BY <1>1, <1>2, TendedSound
<1> QED
  BY <1>1, <1>3, StillSafe

\* A handle is created, claimed or given back; it gets the lock, and the log.
LEMMA OpenSafe ==
    ASSUME Local, Exclusive, NEW h \in Handle,
           \/ \E i \in Instance : BeginCreate(h, i) \/ ClaimWrite(h, i)
           \/ RegisterCreated(h) \/ RollBackOpen(h) \/ LockForOpen(h) \/ ReadForOpen(h)
    PROVE  Safe(h)
<1> DEFINE r == handle[h]
           s == handle'[h]
<1>1. /\ Good(r) /\ Sound(r, disk) /\ Leased(r) /\ Knows(r, disk)
      /\ handle \in [Handle -> HandleRecord] /\ Disk /\ File(disk) /\ Claims
      /\ (lock = h <=> r.lease = "held") /\ h # None
      /\ UNCHANGED disk => File(disk)'
  BY OneHandle DEF Sound, Between
<1>2. CASE \/ \E i \in Instance : BeginCreate(h, i) \/ ClaimWrite(h, i)
           \/ RegisterCreated(h) \/ RollBackOpen(h)
  <2>1. /\ New(s) /\ UNCHANGED disk
        /\ \A g \in Handle : g # h => handle'[g] = handle[g]
        /\ \/ r.phase \in {"unused", "creating"} /\ lock' = lock
           \/ lock' = IF r.lease = "held" THEN None ELSE lock
    BY <1>1, <1>2, AfreshEffect
  <2>2. Sound(s, disk') /\ s.lease = "none"
    BY <2>1, NewSound
  <2>3. r.phase \in {"unused", "creating"} => r.lease # "held"
    BY <1>1 DEF Leased
  <2>4. lock' # h
    BY <1>1, <2>1, <2>3
  <2>5. \A g \in Handle : g # h => (lock' = g <=> lock = g)
    BY <1>1, <2>1, NoneAssumption
  <2>6. Sound(handle[h], disk)' /\ (lock = h <=> handle[h].lease = "held")'
    BY <2>2, <2>4
  <2> QED
    BY <1>1, <2>1, <2>2, <2>5, <2>6 DEF Safe
<1>3. CASE LockForOpen(h)
  <2>1. /\ UNCHANGED <<claim, disk, acked, failures, crashes>>
        /\ lock = None /\ lock' = h /\ disk.exists
        /\ \A g \in Handle : g # h => handle'[g] = handle[g]
        /\ r.phase = "claimed" /\ s.phase = "locked" /\ s.lease = "held"
        /\ s.view = r.view /\ s.tail = r.tail
        /\ s.torn = r.torn /\ s.tornAt = r.tornAt /\ s.materialized = r.materialized
        /\ s.closing = "no" /\ s.stage = "idle"
    BY <1>1, <1>3, LockEffect
  <2> HIDE DEF r, s
  <2>2. Leased(s) /\ Quiet(s) /\ Knows(s, disk') /\ Placed(s)
    <3>1. ~r.materialized
      BY <1>1, <2>1 DEF Leased
    <3>2. Leased(s)
      BY <1>1, <2>1, <3>1 DEF Leased
    <3> QED
      BY <2>1, <3>2 DEF Quiet, Knows, Placed, InWrite
  <2>3. Sound(handle[h], disk)' /\ (lock = h <=> handle[h].lease = "held")'
    BY <2>1, <2>2 DEF Sound, Between, s
  <2>4. \A g \in Handle : g # h => (lock' = g <=> lock = g)
    BY <2>1, NoneAssumption
  <2> QED
    BY <1>1, <2>1, <2>3, <2>4 DEF Safe, s
<1>4. CASE ReadForOpen(h)
  <2>1. /\ UNCHANGED <<claim, lock, disk, acked, failures, crashes>>
        /\ \A g \in Handle : g # h => handle'[g] = handle[g]
        /\ r.phase = "locked" /\ s.phase = "open"
        /\ s.lease = "held" /\ s.materialized /\ s.view = disk.log \o disk.rest
        /\ s.torn = disk.torn /\ s.tornAt = Len(disk.log) /\ s.tail = disk.rest
        /\ s.closing = "no" /\ s.stage = "idle"
    BY <1>1, <1>4, ReadEffect
  <2>2. r.lease = "held" /\ disk.exists
    BY <1>1, <2>1 DEF Leased, Knows
  <2> HIDE DEF r, s
  <2>3. Leased(s)
    BY <2>1 DEF Leased
  <2>4. Quiet(s) /\ Placed(s)
    BY <2>1 DEF Quiet, Placed, InWrite
  <2>5. Knows(s, disk)
    BY <2>1, <2>2 DEF Knows
  <2>6. Sound(s, disk) /\ s.lease = r.lease
    BY <2>1, <2>2, <2>3, <2>4, <2>5 DEF Sound, Between
  <2> QED
    BY <2>1, <2>6, StillSafe DEF r, s
<1> QED
  BY <1>2, <1>3, <1>4

\* A close frees the lock, and settles.
LEMMA ReleaseSafe ==
    ASSUME Local, Exclusive, NEW h \in Handle, FreeLock(h) \/ ReleaseHandle(h)
    PROVE  Safe(h)
<1> DEFINE r == handle[h]
           s == handle'[h]
<1>1. /\ Good(r) /\ Leased(r) /\ Knows(r, disk) /\ Quiet(r)
      /\ handle \in [Handle -> HandleRecord] /\ Disk /\ File(disk) /\ Claims
      /\ (lock = h <=> r.lease = "held") /\ h # None
      /\ UNCHANGED disk => File(disk)'
  BY OneHandle DEF Between
<1>2. CASE FreeLock(h)
  <2>1. /\ UNCHANGED <<claim, disk, failures, crashes>> /\ lock' = None
        /\ \A g \in Handle : g # h => handle'[g] = handle[g]
        /\ r.phase = "open" /\ r.closing = "releasing"
        /\ s.closing = "freed" /\ s.lease = "released"
        /\ s.phase = r.phase /\ s.view = r.view /\ s.materialized = r.materialized
        /\ s.torn = r.torn /\ s.tornAt = r.tornAt /\ s.tail = r.tail
        /\ s.queue = r.queue /\ s.stage = r.stage /\ s.buffered = r.buffered
        /\ s.life = r.life /\ s.failed = r.failed
    BY <1>1, <1>2, FreeEffect
  <2>2. lock = h
    BY <1>1, <2>1 DEF Leased
  <2> HIDE DEF r, s
  <2>3. Leased(s)
    BY <1>1, <2>1 DEF Leased
  <2>4. Quiet(s)
    BY <1>1, <2>1 DEF Quiet
  <2>5. Knows(s, disk')
    BY <1>1, <2>1 DEF Knows
  <2>6. Placed(s)
    BY <1>1, <2>1 DEF Quiet, Placed, InWrite
  <2>7. Sound(handle[h], disk)' /\ (lock = h <=> handle[h].lease = "held")'
    BY <1>1, <2>1, <2>3, <2>4, <2>5, <2>6 DEF Sound, Between, s
  <2>8. \A g \in Handle : g # h => (lock' = g <=> lock = g)
    BY <2>1, <2>2, NoneAssumption
  <2> QED
    BY <1>1, <1>2, <2>1, <2>7, <2>8 DEF Safe
<1>3. CASE ReleaseHandle(h)
  <2>1. /\ UNCHANGED <<lock, disk, failures, crashes>>
        /\ \A g \in Handle : g # h => handle'[g] = handle[g]
        /\ r.phase = "open" /\ r.closing = "freed" /\ s.phase = "closed"
        /\ s.closing = r.closing /\ s.lease = r.lease
        /\ s.view = r.view /\ s.materialized = r.materialized
        /\ s.torn = r.torn /\ s.tornAt = r.tornAt /\ s.tail = r.tail
        /\ s.queue = r.queue /\ s.stage = r.stage /\ s.buffered = r.buffered
        /\ s.life = r.life /\ s.failed = r.failed
    BY <1>1, <1>3, ReleaseEffect
  <2> HIDE DEF r, s
  <2>2. Leased(s)
    BY <1>1, <2>1 DEF Leased
  <2>3. Quiet(s)
    BY <1>1, <2>1 DEF Quiet
  <2>4. Knows(s, disk)
    BY <1>1, <2>1 DEF Knows
  <2>5. Placed(s)
    BY <1>1, <2>1 DEF Quiet, Placed, InWrite
  <2>6. Sound(s, disk)
    BY <2>2, <2>3, <2>4, <2>5 DEF Sound, Between
  <2> QED
    BY <2>1, <2>6, StillSafe DEF r, s
<1> QED
  BY <1>2, <1>3

\* Every step of a handle.
LEMMA HandleSafe ==
    ASSUME ~LateTimer, ~LateProducer, ~LeftBytes, Local, Exclusive, NEW h \in Handle,
           Storage(h) \/ TimerFires(h) \/ Clients(h) \/ Faults(h)
    PROVE  Safe(h)
<1>1. CASE Storage(h)
  BY <1>1, StartSafe, LeaseSafe, RepairSafe, PersistSafe, OpenSafe, ReleaseSafe DEF Storage
<1>2. CASE TimerFires(h)
  BY <1>2, TendedSafe
<1>3. CASE Clients(h)
  BY <1>3, TendedSafe, OpenSafe DEF Clients
<1>4. CASE Faults(h)
  BY <1>4, FailSafe, OpenSafe DEF Faults
<1> QED
  BY <1>1, <1>2, <1>3, <1>4

\* A first part of a sequence of pieces is one of the whole.
LEMMA PartOfConcat ==
    ASSUME NEW l \in Seq(Event), NEW b \in Seq(Event), NEW n \in Nat, n <= Len(b)
    PROVE  LET x == SubSeq(b, 1, n)
           IN  x \in Seq(Event) /\ l \o x \in Seq(Event) /\ Slice(l \o x, l \o b, 0)
<1> DEFINE x == SubSeq(b, 1, n)
           i == Len(l)
           y == l \o x
           z == l \o b
<1>1. x \in Seq(Event) /\ Slice(x, b, 0) /\ Len(x) = n
  BY PrefixSlice
<1>2. /\ y \in Seq(Event) /\ Len(y) = i + n /\ i \in Nat /\ Len(z) = i + Len(b) /\ Len(b) \in Nat
  BY <1>1, ConcatProperties, LenProperties
<1>3. \A k \in 1 .. i + n : y[k] = IF k <= i THEN l[k] ELSE x[k - i]
  <2> HIDE DEF x
  <2>1. \A k \in 1 .. Len(l) + Len(x) : (l \o x)[k] = IF k <= Len(l) THEN l[k] ELSE x[k - Len(l)]
    BY <1>1, ConcatProperties
  <2> QED
    BY <1>1, <2>1
<1>4. \A k \in 1 .. i + Len(b) : z[k] = IF k <= i THEN l[k] ELSE b[k - i]
  BY ConcatProperties
<1>5. \A k \in 1 .. n : x[k] = b[k]
  <2>1. \A k \in 1 .. n : x[k] = b[0 + k] /\ 0 + k = k
    BY <1>1 DEF Slice
  <2> QED
    BY <2>1
<1> DEFINE j == Len(b)
<1>6. j \in Nat /\ n <= j /\ i \in Nat
  BY <1>2
<1> HIDE DEF x, i, y, z, j
<1>7. \A k \in 1 .. i + n : k \in 1 .. i + j /\ (~(k <= i) => k - i \in 1 .. n)
  BY <1>6
<1>8. \A k \in 1 .. i + n : y[k] = z[k]
  BY <1>3, <1>4, <1>5, <1>7 DEF j
<1>9. 0 + (i + n) <= i + j /\ \A k \in 1 .. i + n : 0 + k = k
  BY <1>6
<1>10. Slice(y, z, 0)
  BY <1>2, <1>8, <1>9 DEF Slice, j
<1> QED
  BY <1>1, <1>2, <1>10 DEF y, z, x

\* What the loss of its writer leaves is the file and a first part of the bytes.
LEMMA LeftFile ==
    ASSUME Disk, File(disk), NEW w \in Handle, Good(handle[w]), Sound(handle[w], disk),
           handle[w].stage \in {"tail", "batch"}, LeftBehind(w)
    PROVE  /\ File(disk)' /\ (disk.exists => disk'.exists) /\ handle[w].lease = "held"
           /\ \/ UNCHANGED disk
              \/ /\ ~disk.torn /\ disk.rest = <<>>
                 /\ Slice(disk.log, Stored', 0) /\ Slice(Stored', disk.log \o Bytes(w), 0)
<1> DEFINE r == handle[w]
           b == Bytes(w)
           l == disk.log
<1>1. b = (IF r.stage = "tail" THEN r.tail ELSE Head(r.queue).batch)
  BY DEF Bytes
<1>2. /\ Knows(r, disk) /\ r.lease = "held" /\ r.phase = "open"
  BY DEF Sound, Between, Placed, InWrite
<1> HIDE DEF b
<1>3. r.materialized \/ ~disk.exists =>
         /\ ~disk.torn /\ disk.rest = <<>> /\ l \in Seq(Event) /\ b \in Seq(Event)
         /\ Numbered(l \o b)
  BY <1>1, WritesOn
<1>4. CASE UNCHANGED disk
  BY <1>2, <1>4
<1>5. CASE (r.materialized \/ ~disk.exists) /\ disk' = Landed(b)
  <2>1. File(disk)' /\ disk'.log = l \o b /\ disk'.rest = <<>> /\ disk'.exists
    BY <1>3, <1>5, LandedFile
  <2>2. l \o b \in Seq(Event)
    BY <1>3, <1>5, ConcatProperties
  <2>3. Stored' = l \o b
    BY <2>1, <2>2, NoEvents DEF Stored
  <2>4. Slice(l, l \o b, 0)
    BY <1>3, <1>5, StartOfConcat
  <2>5. Slice(l \o b, l \o b, 0)
    <3> DEFINE z == l \o b
    <3>1. z \in Seq(Event) /\ Slice(l, z, 0) /\ l \in Seq(Event)
      BY <1>3, <1>5, <2>2, <2>4
    <3> HIDE DEF z, l
    <3>2. Slice(z, z, 0)
      BY <3>1, PrefixOfPrefix
    <3> QED
      BY <3>2 DEF z
  <2>6. /\ ~disk.torn /\ disk.rest = <<>>
        /\ Slice(disk.log, Stored', 0) /\ Slice(Stored', disk.log \o Bytes(w), 0)
    BY <1>3, <1>5, <2>3, <2>4, <2>5 DEF b
  <2> QED
    BY <1>2, <2>1, <2>6
<1>6. CASE /\ r.materialized /\ ~disk.torn
           /\ \E e \in Encoding, n \in 0 .. Len(b) : disk' = Torn(e, SubSeq(b, 1, n))
  <2>1. PICK e \in Encoding, n \in 0 .. Len(b) : disk' = Torn(e, SubSeq(b, 1, n))
    BY <1>6
  <2> DEFINE x == SubSeq(b, 1, n)
  <2>2. n \in Nat /\ n <= Len(b)
    BY <1>3, <1>6, LenProperties
  <2>3. x \in Seq(Event) /\ l \o x \in Seq(Event) /\ Slice(l \o x, l \o b, 0)
    BY <1>3, <1>6, <2>2, PartOfConcat
  <2>4. Numbered(l \o x)
    <3>1. l \o b \in Seq(Event) /\ Numbered(l \o b)
      BY <1>3, <1>6, ConcatProperties
    <3> QED
      BY <2>3, <3>1, SliceNumbered, LenProperties
  <2>5. /\ disk'.torn /\ disk'.exists /\ disk.exists
        /\ \/ disk'.log = l /\ disk'.rest = x
           \/ disk'.log = l \o x /\ disk'.rest = <<>>
    BY <1>2, <1>3, <1>6, <2>1 DEF Torn, Disk, Knows
  <2> HIDE DEF x
  <2>6. (l \o x) \o <<>> = l \o x
    BY <2>3, NoEvents
  <2>7. File(disk)' /\ Stored' = l \o x
    BY <2>4, <2>5, <2>6 DEF File, Stored
  <2>8. Slice(l, l \o x, 0)
    BY <1>3, <1>6, <2>3, StartOfConcat
  <2> QED
    BY <1>2, <1>3, <1>6, <2>3, <2>5, <2>7, <2>8 DEF b
<1> QED
  BY <1>4, <1>5, <1>6 DEF LeftBehind, b

\* An instance is lost.
LEMMA CrashExclusive ==
    ASSUME Local, Exclusive, NEW i \in Instance, Crash(i)
    PROVE  Exclusive'
<1>1. /\ Claims /\ Disk /\ handle \in [Handle -> HandleRecord] /\ File(disk)
      /\ \A g \in Handle : Good(handle[g])
      /\ \A g \in Handle : Sound(handle[g], disk) /\ (lock = g <=> handle[g].lease = "held")
  BY DEF Local, Types, Exclusive
<1>2. /\ \A g \in Handle : \/ handle'[g] = handle[g] /\ (lock' = g <=> lock = g)
                           \/ New(handle'[g]) /\ lock' # g
      /\ \/ UNCHANGED disk
         \/ \E w \in Handle : /\ handle[w].stage \in {"tail", "batch"} /\ New(handle'[w])
                              /\ LeftBehind(w)
  BY <1>1, CrashEffect
<1>3. ASSUME NEW g \in Handle, New(handle'[g]), lock' # g
      PROVE  Sound(handle'[g], disk') /\ (lock' = g <=> handle'[g].lease = "held")
  BY <1>3, NewSound
<1>4. CASE UNCHANGED disk
  <2>1. File(disk)'
    BY <1>1, <1>4
  <2>2. ASSUME NEW g \in Handle
        PROVE  Sound(handle'[g], disk') /\ (lock' = g <=> handle'[g].lease = "held")
    BY <1>1, <1>2, <1>3, <1>4
  <2> QED
    BY <2>1, <2>2 DEF Exclusive
<1>5. ASSUME NEW w \in Handle, handle[w].stage \in {"tail", "batch"}, New(handle'[w]),
             LeftBehind(w)
      PROVE  Exclusive'
  <2>1. File(disk)' /\ (disk.exists => disk'.exists) /\ lock = w
    BY <1>1, <1>5, LeftFile
  <2>2. ASSUME NEW g \in Handle, handle'[g] = handle[g], lock' = g <=> lock = g
        PROVE  Sound(handle'[g], disk') /\ (lock' = g <=> handle'[g].lease = "held")
    <3>1. g # w
      BY <1>5, <2>2 DEF New
    <3>2. handle[g].lease # "held" /\ Sound(handle[g], disk)
      BY <1>1, <2>1, <3>1
    <3> QED
      BY <1>1, <2>1, <2>2, <3>2, OtherSound
  <2>3. \A g \in Handle : Sound(handle'[g], disk') /\ (lock' = g <=> handle'[g].lease = "held")
    BY <1>2, <1>3, <2>2
  <2> QED
    BY <2>1, <2>3 DEF Exclusive
<1> QED
  BY <1>2, <1>4, <1>5

\* The invariant of the file and its holder holds at the start.
LEMMA ExclusiveInit == Init => Exclusive
<1> SUFFICES ASSUME Init PROVE Exclusive
  OBVIOUS
<1>1. /\ handle = [h \in Handle |-> Unused] /\ lock = None
      /\ disk = [exists |-> FALSE, log |-> <<>>, torn |-> FALSE, rest |-> <<>>]
  BY DEF Init
<1>2. New(Unused)
  BY FreshNew DEF Unused
<1>3. ASSUME NEW h \in Handle
      PROVE  Sound(handle[h], disk) /\ (lock = h <=> handle[h].lease = "held")
  <2>1. handle[h] = Unused /\ lock # h
    BY <1>1, NoneAssumption
  <2> QED
    BY <1>2, <2>1, NewSound
<1>4. File(disk)
  <2>1. /\ ~disk.exists /\ disk.log = <<>> /\ ~disk.torn /\ disk.rest = <<>>
    BY <1>1
  <2>2. <<>> \o <<>> = <<>> /\ Len(<<>>) = 0
    BY NoEvents, EmptySeq
  <2> QED
    BY <2>1, <2>2 DEF File, Numbered
<1> QED
  BY <1>3, <1>4 DEF Exclusive

\* Every step keeps it, where nothing runs on once a close frees the lock and a failed
\* append leaves nothing.
LEMMA ExclusiveStep ==
    ASSUME ~LateTimer, ~LateProducer, ~LeftBytes
    PROVE  Local /\ Exclusive /\ [Next]_vars => Exclusive'
<1> SUFFICES ASSUME Local, Exclusive, [Next]_vars PROVE Exclusive'
  OBVIOUS
<1>1. ASSUME NEW h \in Handle, Storage(h) \/ TimerFires(h) \/ Clients(h) \/ Faults(h)
      PROVE  Exclusive'
  BY <1>1, HandleSafe, SafeExclusive
<1>2. ASSUME NEW i \in Instance, Crash(i) PROVE Exclusive'
  BY <1>2, CrashExclusive
<1>3. CASE UNCHANGED vars
  BY <1>3 DEF vars, Exclusive
<1> QED
  BY <1>1, <1>2, <1>3 DEF Next

-----------------------------------------------------------------------------
(* The log of a session, and its one writer.                               *)

\* The stored log is the sequence 1, 2, 3 ... : no event is stored twice, out of
\* order or after a gap, whichever handle, crash, repair or retry wrote it.
THEOREM LogIsContiguous ==
    ASSUME ~LateTimer, ~LateProducer, ~LeftBytes
    PROVE  Spec => []StoredContiguous
<1>1. Exclusive => StoredContiguous
  BY DEF Exclusive, File, Numbered, StoredContiguous, Stored
<1>2. Local /\ Exclusive /\ [Next]_vars => Exclusive'
  BY ExclusiveStep
<1> QED
  BY LocalInit, LocalStep, ExclusiveInit, <1>1, <1>2, PTL DEF Spec

\* Only the holder of the kernel lock cuts or extends the file, and its idea of the
\* log is the log.
THEOREM WriterIsExclusive ==
    ASSUME ~LateTimer, ~LateProducer, ~LeftBytes
    PROVE  Spec => []WriterKnowsLog
<1>1. Local /\ Exclusive => WriterKnowsLog
  <2> SUFFICES ASSUME Local, Exclusive, NEW h \in Handle
               PROVE  LET r == handle[h]
                      IN  /\ Writing(h) => lock = h
                          /\ Open(h) /\ lock = h /\ r.materialized =>
                               r.view = IF disk.torn THEN Stored ELSE disk.log \o r.tail
    BY DEF WriterKnowsLog
  <2> DEFINE r == handle[h]
  <2>1. Knows(r, disk) /\ Placed(r) /\ (lock = h <=> r.lease = "held")
    BY OneHandle DEF Sound, Between
  <2>2. Writing(h) => lock = h
    BY <2>1 DEF Writing, Placed, InWrite
  <2>3. ASSUME Open(h), lock = h, r.materialized
        PROVE  r.view = IF disk.torn THEN Stored ELSE disk.log \o r.tail
    BY <2>1, <2>3 DEF Knows, Open, Stored
  <2> QED
    BY <2>2, <2>3
<1>2. Local /\ Exclusive /\ [Next]_vars => Exclusive'
  BY ExclusiveStep
<1> QED
  BY LocalInit, LocalStep, ExclusiveInit, <1>1, <1>2, PTL DEF Spec

-----------------------------------------------------------------------------
(* What callers are told is stored for good, but for what a lost repair takes *)
(* back.  From here on no event races the suffix of a setup either.           *)

\* To be told of no event is to be told what is stored.
LEMMA NothingStored ==
    ASSUME NEW l \in Seq(Event)
    PROVE  Slice(<<>>, l, 0)
<1>1. Len(l) \in Nat /\ Len(<<>>) = 0
  BY LenProperties, EmptySeq
<1> QED
  BY <1>1 DEF Slice

\* A first part is a prefix, and no other is.
LEMMA SliceIsPrefix ==
    ASSUME NEW S, NEW s \in Seq(S), NEW t \in Seq(S), Slice(s, t, 0)
    PROVE  IsPrefix(s, t)
<1> DEFINE n == Len(s)
           x == SubSeq(s, 1, n)
           y == SubSeq(t, 1, n)
<1>1. n \in Nat /\ n <= Len(s) /\ n <= Len(t)
  BY LenProperties DEF Slice
<1>2. x \in Seq(S) /\ Slice(x, s, 0) /\ Len(x) = n
  BY <1>1, PrefixSlice
<1>3. y \in Seq(S) /\ Slice(y, t, 0) /\ Len(y) = n
  BY <1>1, PrefixSlice
<1> HIDE DEF x, y
<1>4. x = s
  BY <1>2, PrefixOfPrefix
<1>5. y = s
  BY <1>3, PrefixOfPrefix
<1> QED
  BY <1>1, <1>4, <1>5 DEF IsPrefix, x, y

\* The first n events of a session are among those of l, its first ones, if l has as many.
LEMMA FirstEvents ==
    ASSUME NEW m \in Seq(Event), NEW l \in Seq(Event), Slice(l, m, 0),
           NEW n \in Nat, n <= Len(m), n <= Len(l)
    PROVE  SubSeq(m, 1, n) \in Seq(Event) /\ Slice(SubSeq(m, 1, n), l, 0)
<1> DEFINE x == SubSeq(m, 1, n)
<1>1. x \in Seq(Event) /\ Slice(x, m, 0) /\ Len(x) = n
  BY PrefixSlice
<1> HIDE DEF x
<1>2. Len(x) <= Len(l)
  BY <1>1
<1>3. Slice(x, l, 0)
  BY <1>1, <1>2, PrefixOfPrefix
<1> QED
  BY <1>1, <1>3 DEF x

\* The stored log, the records to be written again and the acknowledged log.
Logs == Stored \in Seq(Event) /\ Mending \in Seq(Event) /\ acked \in Seq(Event)

\* They are logs.
LEMMA LogsTyped == Local => Logs
<1> SUFFICES ASSUME Local PROVE Logs
  OBVIOUS
<1>1. /\ Disk /\ lock \in Handle \cup {None} /\ acked \in Log
      /\ handle \in [Handle -> HandleRecord]
  BY DEF Local, Types
<1>2. disk.log \in Seq(Event) /\ disk.rest \in Seq(Event) /\ acked \in Seq(Event)
  BY <1>1 DEF Disk, Log
<1>3. Stored \in Seq(Event)
  BY <1>2, ConcatProperties DEF Stored
<1>4. Mending \in Seq(Event)
  <2>1. ASSUME lock # None PROVE handle[lock].tail \in Seq(Event)
    BY <1>1, <2>1, EventFields
  <2>2. <<>> \in Seq(Event)
    OBVIOUS
  <2> QED
    BY <2>1, <2>2 DEF Mending
<1> QED
  BY <1>2, <1>3, <1>4 DEF Logs

\* So they stay.
LEMMA LogsTypedNext == Local' => Logs'
  BY LogsTyped, PTL

\* A step of the durable log.
LogStep == [D!Next]_<<Stored, Mending, acked>>

\* The longer of two first parts of a log has the other as its first part.
LEMMA LongerStarts ==
    ASSUME acked \in Seq(Event), NEW told \in Seq(Event), NEW m \in Seq(Event),
           Slice(acked, m, 0), Slice(told, m, 0)
    PROVE  /\ Longer(told) \in Seq(Event) /\ Slice(Longer(told), m, 0)
           /\ Slice(acked, Longer(told), 0)
<1>1. CASE Len(told) > Len(acked)
  <2>1. Longer(told) = told
    BY <1>1 DEF Longer
  <2>2. Len(acked) <= Len(told)
    BY <1>1, LenProperties
  <2>3. Slice(acked, told, 0)
    BY <2>2, PrefixOfPrefix
  <2> QED
    BY <2>1, <2>3
<1>2. CASE ~(Len(told) > Len(acked))
  <2>1. Longer(told) = acked
    BY <1>2 DEF Longer
  <2>2. Slice(acked, acked, 0)
    BY PrefixOfPrefix
  <2> QED
    BY <2>1, <2>2
<1> QED
  BY <1>1, <1>2

\* To tell of no event is to tell nothing.
LEMMA NothingTold ==
    ASSUME acked \in Seq(Event)
    PROVE  Longer(<<>>) = acked
<1>1. Len(acked) \in Nat /\ Len(<<>>) = 0
  BY LenProperties, EmptySeq
<1> QED
  BY <1>1 DEF Longer

\* A step that leaves the log and the callers alone.
LEMMA StillFollows ==
    ASSUME Promised, UNCHANGED <<Stored, Mending, acked>>
    PROVE  Promised' /\ LogStep
<1>1. Whole' = Whole
  BY DEF Whole
<1> QED
  BY <1>1 DEF Promised, LogStep

\* What follows a log is told apart by the whole.
LEMMA SameEnd ==
    ASSUME NEW S, NEW s \in Seq(S), NEW t \in Seq(S), NEW v \in Seq(S), s \o t = s \o v
    PROVE  t = v
<1>1. \A x, y, z \in Seq(S) : x \o y = x \o z => y = z
  BY ConcatSimplifications, Zenon
<1> QED
  BY <1>1

\* Records are cut to be written again, or written again.
LEMMA MendFollows ==
    ASSUME Logs, Logs', Promised, UNCHANGED acked, Whole' = Whole
    PROVE  Promised' /\ LogStep
<1>1. Promised'
  BY DEF Promised
<1>2. CASE Stored' = Stored
  <2>1. /\ Stored \in Seq(Event) /\ Mending \in Seq(Event) /\ Mending' \in Seq(Event)
        /\ Stored \o Mending' = Stored \o Mending
    BY <1>2 DEF Logs, Whole
  <2>2. Mending' = Mending
    BY <2>1, SameEnd
  <2> QED
    BY <1>2, <2>2, StillFollows
<1>3. CASE Stored' # Stored
  <2>1. D!Mend
    BY <1>3 DEF D!Mend, Whole
  <2> QED
    BY <1>1, <2>1 DEF LogStep, D!Next
<1> QED
  BY <1>2, <1>3

\* A caller is told of what is stored, or can be written again.
LEMMA TellFollows ==
    ASSUME Logs, Logs', Promised, UNCHANGED <<Stored, Mending>>,
           NEW told \in Seq(Event), Slice(told, Whole, 0), acked' = Longer(told)
    PROVE  Promised' /\ LogStep
<1>1. Whole' = Whole /\ Whole \in Seq(Event) /\ acked \in Seq(Event) /\ Slice(acked, Whole, 0)
  BY ConcatProperties DEF Whole, Logs, Promised
<1>2. acked' \in Seq(Event) /\ Slice(acked', Whole, 0) /\ Slice(acked, acked', 0)
  BY <1>1, LongerStarts
<1>3. Promised'
  BY <1>1, <1>2 DEF Promised
<1>4. CASE acked' = acked
  BY <1>4, StillFollows
<1>5. CASE acked' # acked
  <2>1. IsPrefix(acked, acked') /\ IsPrefix(acked', Whole)
    BY <1>1, <1>2, SliceIsPrefix
  <2>2. D!Acknowledge
    BY <1>5, <2>1 DEF D!Acknowledge, D!Tell, D!IsPrefix, IsPrefix, Whole
  <2> QED
    BY <1>3, <2>2 DEF LogStep, D!Next
<1> QED
  BY <1>4, <1>5

\* A batch lands behind a whole log.
LEMMA CommitFollows ==
    ASSUME Logs, Logs', Promised, Mending = <<>>, Mending' = <<>>, Slice(Stored, Stored', 0),
           NEW told \in Seq(Event), Slice(told, Stored', 0), acked' = Longer(told)
    PROVE  Promised' /\ LogStep
<1>1. /\ Stored \in Seq(Event) /\ Stored' \in Seq(Event) /\ acked \in Seq(Event)
  BY DEF Logs
<1>2. Whole = Stored /\ Whole' = Stored'
  BY <1>1, NoEvents DEF Whole
<1>3. Slice(acked, Stored', 0)
  <2>1. Slice(acked, Stored, 0)
    BY <1>2 DEF Promised
  <2> QED
    BY <1>1, <2>1, PrefixOfPrefix
<1>4. acked' \in Seq(Event) /\ Slice(acked', Stored', 0) /\ Slice(acked, acked', 0)
  BY <1>1, <1>3, LongerStarts
<1>5. CASE Stored' = Stored
  <2>1. UNCHANGED <<Stored, Mending>> /\ Slice(told, Whole, 0)
    BY <1>2, <1>5
  <2> QED
    BY <2>1, TellFollows
<1>6. CASE Stored' # Stored
  <2>1. IsPrefix(Stored, Stored') /\ IsPrefix(acked, acked') /\ IsPrefix(acked', Stored')
    BY <1>1, <1>4, SliceIsPrefix
  <2>2. Stored' \o Mending = Stored'
    BY <1>1, NoEvents
  <2>3. D!Commit
    BY <1>6, <2>1, <2>2 DEF D!Commit, D!Tell, D!IsPrefix, IsPrefix
  <2> QED
    BY <1>2, <1>4, <2>3 DEF LogStep, D!Next, Promised
<1> QED
  BY <1>5, <1>6

\* The writer is lost, and what it had not written again of the log with it.
LEMMA LapseFollows ==
    ASSUME Logs, Logs', Promised, Mending' = <<>>, Slice(Stored, Stored', 0),
           Slice(Stored', Whole, 0), Keep(acked)
    PROVE  Promised' /\ LogStep
<1>1. /\ Stored \in Seq(Event) /\ Stored' \in Seq(Event) /\ acked \in Seq(Event)
      /\ Mending \in Seq(Event)
  BY DEF Logs
<1>2. Whole' = Stored' /\ Stored' \o Mending' = Stored' /\ Whole \in Seq(Event)
  BY <1>1, NoEvents, ConcatProperties DEF Whole
<1>3. acked' = IF Len(acked) > Len(Stored') THEN Stored' ELSE acked
  BY <1>2 DEF Keep
<1>4. Len(acked) \in Nat /\ Len(Stored') \in Nat
  BY <1>1, LenProperties
<1>5. Len(acked) <= Len(Stored') => Slice(acked, Stored', 0)
  BY <1>1, <1>2, PrefixOfPrefix DEF Promised
<1>6. Slice(Stored', Stored', 0)
  BY <1>1, <1>2, PrefixOfPrefix
<1>7. Promised'
  BY <1>2, <1>3, <1>4, <1>5, <1>6 DEF Promised
<1>8. CASE Mending = <<>>
  <2>1. Whole = Stored
    BY <1>1, <1>8, NoEvents DEF Whole
  <2>2. Stored' = Stored
    <3>1. Len(Stored) <= Len(Stored') /\ Len(Stored') <= Len(Stored)
      BY <1>1, <2>1, LenProperties DEF Slice
    <3>2. Len(Stored) = Len(Stored')
      BY <1>1, <3>1, LenProperties
    <3> QED
      BY <1>1, <1>6, <3>2, PrefixOfPrefix
  <2>3. Slice(acked, Stored, 0)
    BY <2>1 DEF Promised
  <2>4. acked' = acked
    BY <1>1, <1>3, <1>4, <2>2, <2>3 DEF Slice
  <2> QED
    BY <1>8, <2>2, <2>4, StillFollows
<1>9. CASE Mending # <<>>
  <2>1. IsPrefix(Stored, Stored') /\ IsPrefix(Stored', Stored \o Mending)
    BY <1>1, <1>2, SliceIsPrefix DEF Whole
  <2>2. acked' = IF IsPrefix(acked, Stored') THEN acked ELSE Stored'
    <3>1. CASE Len(acked) <= Len(Stored')
      <4>1. IsPrefix(acked, Stored')
        BY <1>1, <1>5, <3>1, SliceIsPrefix
      <4> QED
        BY <1>3, <1>4, <3>1, <4>1
    <3>2. CASE ~(Len(acked) <= Len(Stored'))
      <4>1. ~IsPrefix(acked, Stored')
        BY <3>2 DEF IsPrefix
      <4> QED
        BY <1>3, <1>4, <3>2, <4>1
    <3> QED
      BY <3>1, <3>2
  <2>3. D!Lapse
    BY <1>9, <2>1, <2>2 DEF D!Lapse, D!IsPrefix, IsPrefix
  <2> QED
    BY <1>7, <2>3 DEF LogStep, D!Next
<1> QED
  BY <1>8, <1>9

-----------------------------------------------------------------------------
(* What a step of one handle does to the log.                              *)

\* What the steps keep of the promise, and what they do to the log.
Follows == Mended' /\ Promised' /\ LogStep

\* What the holder of the lock knows is the log.
LEMMA HolderKnows ==
    ASSUME Local, Exclusive, NEW h \in Handle, handle[h].lease = "held"
    PROVE  /\ Mending = Owed(handle[h], disk)
           /\ ~disk.torn => Stored = disk.log
           /\ handle[h].phase = "open" /\ handle[h].materialized => handle[h].view = Whole
           /\ handle[h].phase = "open" => Slice(handle[h].view, Whole, 0)
<1> DEFINE r == handle[h]
<1>1. /\ lock = h /\ h # None /\ File(disk) /\ Disk /\ Leased(r) /\ Knows(r, disk)
      /\ r \in HandleRecord
  BY OneHandle DEF Sound, Between
<1>2. Mending = Owed(r, disk)
  BY <1>1 DEF Mending, Owed
<1>3. disk.log \in Seq(Event) /\ disk.rest \in Seq(Event) /\ Stored \in Seq(Event)
  BY <1>1, LogsTyped DEF Disk, Log, Logs
<1>4. ~disk.torn => Stored = disk.log
  BY <1>1, <1>3, NoEvents DEF File, Stored
<1>5. Whole \in Seq(Event)
  BY LogsTyped, ConcatProperties DEF Logs, Whole
<1>6. ASSUME r.phase = "open", r.materialized PROVE r.view = Whole
  <2>1. r.view = disk.log \o r.tail /\ (disk.torn => r.tail = disk.rest)
    BY <1>1, <1>6 DEF Knows
  <2>2. CASE disk.torn
    <3>1. r.view = Stored /\ Mending = <<>>
      BY <1>1, <1>2, <2>1, <2>2 DEF Stored, Owed
    <3> QED
      BY <1>3, <3>1, NoEvents DEF Whole
  <2>3. CASE ~disk.torn
    <3>1. Mending = r.tail
      BY <1>1, <1>2, <2>3 DEF Owed
    <3> QED
      BY <1>4, <2>1, <2>3, <3>1 DEF Whole
  <2> QED
    BY <2>2, <2>3
<1>7. ASSUME r.phase = "open" PROVE Slice(r.view, Whole, 0)
  <2>1. CASE r.materialized
    <3>1. r.view = Whole
      BY <1>6, <1>7, <2>1
    <3>2. Slice(<<>>, Whole, 0) /\ <<>> \in Seq(Event)
      BY <1>5, NothingStored
    <3>3. Slice(Whole, Whole, 0)
      BY <1>5, <3>2, PrefixOfPrefix
    <3> QED
      BY <3>1, <3>3
  <2>2. CASE ~r.materialized
    <3>1. r.view = <<>>
      BY <1>1, <2>2 DEF Leased
    <3> QED
      BY <1>5, <3>1, NothingStored
  <2> QED
    BY <2>1, <2>2
<1> QED
  BY <1>2, <1>4, <1>6, <1>7

\* A step of a handle that owes what it owed leaves the records to be written alone.
LEMMA MendingSame ==
    ASSUME Local, Exclusive, Local', NEW h \in Handle, Safe(h), disk'.torn = disk.torn,
           Owed(handle'[h], disk') = Owed(handle[h], disk)
    PROVE  Mending' = Mending
<1>1. /\ lock \in Handle \cup {None} /\ lock' \in Handle \cup {None} /\ h # None
      /\ lock = h <=> handle[h].lease = "held"
      /\ lock' = h <=> handle'[h].lease = "held"
      /\ \A g \in Handle : g # h => handle'[g] = handle[g] /\ (lock' = g <=> lock = g)
  BY OneHandle DEF Local, Types, Safe
<1>2. CASE lock = h \/ lock = None
  <2>1. lock' = h \/ lock' = None
    BY <1>1, <1>2, NoneAssumption
  <2>2. Mending = Owed(handle[h], disk)
    BY <1>1, <1>2 DEF Mending, Owed
  <2>3. Mending' = Owed(handle'[h], disk')
    BY <1>1, <2>1 DEF Mending, Owed
  <2> QED
    BY <2>2, <2>3
<1>3. CASE lock # h /\ lock # None
  <2>1. lock' = lock /\ handle'[lock] = handle[lock]
    BY <1>1, <1>3
  <2> QED
    BY <2>1 DEF Mending
<1> QED
  BY <1>2, <1>3

\* A step of a handle that is not done if it owes records.
LEMMA MendedSafe ==
    ASSUME Local, Exclusive, Mended, NEW h \in Handle, Safe(h), Unmended(handle'[h], disk')
    PROVE  Mended'
<1>1. ASSUME NEW g \in Handle, g # h PROVE Unmended(handle'[g], disk')
  <2>1. /\ handle'[g] = handle[g] /\ Unmended(handle[g], disk)
        /\ lock = g <=> handle[g].lease = "held"
        /\ lock = h <=> handle[h].lease = "held"
        /\ UNCHANGED disk \/ handle[h].lease = "held"
    BY <1>1 DEF Safe, Mended, Exclusive
  <2>2. CASE UNCHANGED disk
    BY <2>1, <2>2
  <2>3. CASE handle[h].lease = "held"
    <3>1. handle[g].lease # "held"
      BY <1>1, <2>1, <2>3
    <3> QED
      BY <2>1, <3>1 DEF Unmended, Owed
  <2> QED
    BY <2>1, <2>2, <2>3
<1> QED
  BY <1>1 DEF Mended

\* A step that leaves the file and the callers alone.
LEMMA QuietStep ==
    ASSUME Local, Exclusive, Mended, Promised, Local', NEW h \in Handle, Safe(h),
           UNCHANGED <<disk, acked>>, Owed(handle'[h], disk) = Owed(handle[h], disk),
           \/ Owed(handle[h], disk) = <<>>
           \/ /\ handle'[h].view = handle[h].view
              /\ \/ handle'[h].memory = handle[h].memory
                 \/ Len(handle'[h].memory) = Len(handle[h].memory) + 1
    PROVE  Follows
<1>1. Mending' = Mending
  BY MendingSame
<1>2. Stored' = Stored
  BY DEF Stored
<1>3. Promised' /\ LogStep
  BY <1>1, <1>2, StillFollows
<1>4. Unmended(handle'[h], disk')
  <2>1. CASE Owed(handle[h], disk) = <<>>
    BY <2>1 DEF Unmended
  <2>2. CASE Owed(handle[h], disk) # <<>>
    <3> DEFINE i == Len(handle[h].view)
               j == Len(handle[h].memory)
               k == Len(handle'[h].memory)
    <3>1. i < j
      BY <2>2 DEF Unmended, Mended
    <3>2. i \in Nat /\ j \in Nat
      BY OneHandle, EventFields, LenProperties
    <3>3. k = j \/ k = j + 1
      BY <2>2
    <3>4. Len(handle'[h].view) = i
      BY <2>2
    <3> HIDE DEF i, j, k
    <3>5. i < k
      BY <3>1, <3>2, <3>3
    <3> QED
      BY <3>4, <3>5 DEF Unmended, k
  <2> QED
    BY <2>1, <2>2
<1>5. Mended'
  BY <1>4, MendedSafe
<1> QED
  BY <1>3, <1>5 DEF Follows

\* Once it holds the lock, or has it no more, what a handle owes is what it held.
LEMMA SameOwed ==
    ASSUME NEW r, NEW s, NEW d, s.tail = r.tail,
           s.lease = r.lease \/ r.tail = <<>>
    PROVE  Owed(s, d) = Owed(r, d)
  BY DEF Owed

\* The next operation starts: a flush of a stored session may be told so.
LEMMA StartFollows ==
    ASSUME ~SetupRace, Local, Exclusive, Mended, Promised, Local', NEW h \in Handle,
           StartOperation(h), Safe(h)
    PROVE  Follows
<1> DEFINE r == handle[h]
           s == handle'[h]
           t == TakenFrom(r)
<1>1. /\ Good(r) /\ Marked(r) /\ Between(r, disk) /\ handle \in [Handle -> HandleRecord]
      /\ r \in HandleRecord
  BY OneHandle
<1>2. /\ r.stage = "idle" /\ r.queue # <<>> /\ Loaded(t) /\ Begun(r, s) /\ UNCHANGED disk
      /\ Head(r.queue).kind # "drain" => t = r
  BY <1>1, StartEffect, TakenMarked
<1>3. Keeps(r, t)
  <2>1. CASE Head(r.queue).kind = "drain"
    BY <1>1, <1>2, <2>1, TakenFields
  <2>2. CASE Head(r.queue).kind # "drain"
    BY <1>2, <2>2 DEF Keeps
  <2> QED
    BY <2>1, <2>2
<1>4. Keeps(r, s)
  <2> HIDE DEF r, s, t
  <2>1. \/ SettledTo(r, s, FALSE) \/ SettledTo(r, s, TRUE) \/ Staged(t, s)
        \/ SettledTo(t, s, FALSE)
    BY <1>2 DEF Begun, Proceeded, t
  <2> QED
    BY <1>3, <2>1 DEF SettledTo, Staged, Keeps
<1>5. Owed(s, disk) = Owed(r, disk) /\ s.view = r.view /\ s.memory = r.memory
  BY <1>4, SameOwed DEF Keeps
<1>6. CASE UNCHANGED acked
  BY <1>2, <1>5, <1>6, QuietStep
<1>7. CASE Head(r.queue).kind = "flush" /\ r.materialized /\ Tell(Told(r))
  <2>1. Loaded(r)
    BY <1>2, <1>7
  <2>2. r.phase \in {"open", "closed"} /\ r.lease \in {"none", "held", "released"}
    BY <1>1, <2>1, LoadedEvents, StateFields
  <2>3. r.phase = "open" /\ r.lease = "held"
    BY <1>1, <1>2, <1>7, <2>2, BusyOpen DEF Between, Leased
  <2>4. r.view = Whole
    BY <1>7, <2>3, HolderKnows
  <2>5. /\ r.view \in Seq(Event) /\ r.memory \in Seq(Event) /\ r.mark \in Nat
        /\ Slice(r.view, r.memory, 0) /\ r.mark <= Len(r.memory)
    BY <1>1, <2>1, EventFields, LoadedEvents DEF Marked
  <2>6. r.mark <= Len(r.view)
    <3>1. Held(r) /\ r.barrier = "flushing"
      BY <1>1, <1>7, <2>1, FirstOperation DEF Loaded
    <3> QED
      BY <3>1 DEF Held
  <2>7. Told(r) \in Seq(Event) /\ Slice(Told(r), Whole, 0)
    <3>1. Told(r) = SubSeq(r.memory, 1, r.mark)
      BY <1>7 DEF Told
    <3> HIDE DEF r
    <3> QED
      BY <2>4, <2>5, <2>6, <3>1, FirstEvents
  <2>8. Stored' = Stored /\ Mending' = Mending
    BY <1>2, <1>5, MendingSame DEF Stored
  <2>9. Logs /\ Logs'
    BY LogsTyped, LogsTypedNext
  <2>10. Promised' /\ LogStep
    <3>1. acked' = Longer(Told(r))
      BY <1>7 DEF Tell
    <3> HIDE DEF r
    <3> QED
      BY <2>7, <2>8, <2>9, <3>1, TellFollows
  <2>11. Mended'
    <3>1. Unmended(r, disk)
      BY DEF Mended
    <3>2. Unmended(s, disk')
      BY <1>2, <1>5, <3>1 DEF Unmended
    <3> QED
      BY <3>2, MendedSafe
  <2> QED
    BY <2>10, <2>11 DEF Follows
<1> QED
  BY <1>2, <1>6, <1>7 DEF Begun

\* It takes the lock, or another holder keeps it.
LEMMA LeaseFollows ==
    ASSUME Local, Exclusive, Mended, Promised, Local', NEW h \in Handle, EnsureLease(h), Safe(h)
    PROVE  Follows
<1> DEFINE r == handle[h]
           s == handle'[h]
           x == [r EXCEPT !.lease = "held"]
<1>1. /\ Good(r) /\ Leased(r) /\ Placed(r) /\ handle \in [Handle -> HandleRecord]
      /\ r \in HandleRecord
  BY OneHandle DEF Sound, Between
<1>2. /\ r.stage = "lease" /\ UNCHANGED <<disk, acked>>
      /\ Proceeded(x, s) \/ SettledTo(r, s, FALSE)
      /\ SameChain(r, x) /\ x.tail = r.tail
  BY <1>1, LeaseEffect
<1>3. r.lease = "none" /\ r.tail = <<>>
  BY <1>1, <1>2 DEF Placed, Leased
<1> HIDE DEF r, s, x
<1>4. s.tail = r.tail
  BY <1>2 DEF Proceeded, SettledTo, Staged, Keeps
<1>5. Owed(s, disk) = <<>> /\ Owed(r, disk) = <<>>
  BY <1>3, <1>4 DEF Owed
<1> QED
  BY <1>2, <1>5, QuietStep DEF r, s

\* The torn tail is cut off, and the cut may reject once it is done.
LEMMA CutFollows ==
    ASSUME Local, Exclusive, Mended, Promised, Local', NEW h \in Handle, Safe(h),
           handle[h].stage = "truncate", disk' = Cut(handle[h].tornAt), UNCHANGED acked,
           handle'[h].tail = handle[h].tail, handle'[h].lease = handle[h].lease,
           handle'[h].view = handle[h].view, handle'[h].memory = handle[h].memory
    PROVE  Follows
<1> DEFINE r == handle[h]
           s == handle'[h]
<1>1. /\ Good(r) /\ Sound(r, disk) /\ Placed(r) /\ Disk /\ File(disk) /\ r \in HandleRecord
      /\ h # None
  BY OneHandle DEF Sound, Between
<1>2. /\ r.torn /\ r.materialized /\ r.phase = "open" /\ r.lease = "held" /\ disk.exists
      /\ r.tornAt = Len(disk.log) /\ r.view = disk.log \o r.tail
  BY <1>1, CutsRight
<1>3. disk'.log = disk.log /\ ~disk'.torn /\ disk'.rest = <<>>
  BY <1>1, <1>2, CutFile
<1>4. Logs /\ Logs' /\ disk.log \in Seq(Event)
  BY <1>1, LogsTyped, LogsTypedNext DEF Disk, Log
<1>5. Stored' = disk.log
  BY <1>3, <1>4, NoEvents DEF Stored
<1>6. Mending' = r.tail
  <2>1. lock' = h
    BY <1>2 DEF Safe
  <2> QED
    BY <1>1, <1>3, <2>1 DEF Mending
<1>7. Whole' = Whole
  <2>1. r.view = Whole
    BY <1>2, HolderKnows
  <2> QED
    BY <1>2, <1>5, <1>6, <2>1 DEF Whole
<1>8. Promised' /\ LogStep
  BY <1>4, <1>7, MendFollows
<1>9. Unmended(s, disk')
  <2>1. Loaded(r) /\ InWrite(r) /\ Head(r.queue).kind # "flush"
    BY <1>1, <1>2, StartedLoaded DEF Placed, InWrite
  <2>2. /\ Slice(Head(r.queue).batch, r.memory, Len(r.view)) /\ Head(r.queue).batch # <<>>
        /\ Head(r.queue).batch \in Seq(Event)
    BY <2>1, LoadedEvents DEF Loaded, Pieces
  <2> DEFINE i == Len(r.view)
             j == Len(r.memory)
             k == Len(Head(r.queue).batch)
  <2>3. i \in Nat /\ j \in Nat /\ k \in Nat /\ k # 0 /\ i + k <= j
    BY <1>1, <2>2, EventFields, LenProperties, EmptySeq DEF Slice
  <2> HIDE DEF i, j, k
  <2>4. i < j
    BY <2>3
  <2> QED
    BY <2>4 DEF Unmended, i, j
<1>10. Mended'
  BY <1>9, MendedSafe
<1> QED
  BY <1>8, <1>10 DEF Follows

\* The torn tail is repaired.
LEMMA RepairFollows ==
    ASSUME Local, Exclusive, Mended, Promised, Local', NEW h \in Handle,
           TruncateTornTail(h) \/ RewriteTail(h), Safe(h)
    PROVE  Follows
<1> DEFINE r == handle[h]
           s == handle'[h]
           b == r.tail
<1>1. /\ Good(r) /\ Sound(r, disk) /\ Placed(r) /\ Disk /\ File(disk) /\ r \in HandleRecord
      /\ handle \in [Handle -> HandleRecord] /\ h # None
  BY OneHandle DEF Sound, Between
<1>2. CASE TruncateTornTail(h)
  <2>1. /\ r.stage = "truncate" /\ UNCHANGED acked /\ disk' = Cut(r.tornAt)
        /\ s.tail = r.tail /\ s.lease = r.lease /\ SameChain(r, s)
    BY <1>1, <1>2, TruncateEffect
  <2> QED
    BY <2>1, CutFollows DEF SameChain
<1>3. CASE RewriteTail(h)
  <2>1. /\ r.stage = "tail" /\ UNCHANGED acked /\ disk' = Landed(b)
        /\ s.tail = <<>> /\ s.lease = r.lease
    BY <1>1, <1>3, RewriteEffect
  <2>2. r.materialized
    BY <1>1, <2>1 DEF Placed
  <2>3. /\ ~disk.torn /\ disk.rest = <<>> /\ disk.log \in Seq(Event) /\ b \in Seq(Event)
        /\ r.phase = "open" /\ r.lease = "held"
        /\ r.view = disk.log \o b /\ Numbered(disk.log \o b)
    <3>1. r.stage = "tail" /\ r.stage \in {"tail", "batch"} /\ (r.materialized \/ ~disk.exists)
      BY <2>1, <2>2
    <3>2. b = IF r.stage = "tail" THEN r.tail ELSE Head(r.queue).batch
      BY <3>1
    <3>3. Good(r) /\ Disk /\ File(disk) /\ Sound(r, disk)
      BY <1>1
    <3> HIDE DEF b
    <3> QED
      BY Zenon, <3>1, <3>2, <3>3, WritesOn
  <2>4. disk'.log = disk.log \o b /\ ~disk'.torn /\ disk'.rest = <<>>
    BY <1>1, <2>1, <2>3, LandedFile
  <2>5. Logs /\ Logs' /\ disk.log \o b \in Seq(Event)
    BY <2>3, LogsTyped, LogsTypedNext, ConcatProperties
  <2>6. Stored' = disk.log \o b
    BY <2>4, <2>5, NoEvents DEF Stored
  <2>7. Mending' = <<>>
    <3>1. lock' = h
      BY <2>1, <2>3 DEF Safe
    <3> QED
      BY <1>1, <2>1, <3>1 DEF Mending
  <2>8. Whole' = Whole
    <3>1. r.view = Whole
      BY <2>2, <2>3, HolderKnows
    <3> QED
      BY <2>3, <2>5, <2>6, <2>7, <3>1, NoEvents DEF Whole
  <2>9. Promised' /\ LogStep
    BY <2>1, <2>5, <2>8, MendFollows
  <2>10. Unmended(s, disk')
    BY <2>1 DEF Unmended, Owed
  <2>11. Mended'
    BY <2>10, MendedSafe
  <2> QED
    BY <2>9, <2>11 DEF Follows
<1> QED
  BY <1>2, <1>3

\* A batch lands behind what is stored, and may be acknowledged.
LEMMA LandFollows ==
    ASSUME Local, Exclusive, Mended, Promised, Local', NEW h \in Handle, Safe(h),
           handle[h].stage = "batch", handle[h].materialized \/ ~disk.exists,
           disk' = Landed(Head(handle[h].queue).batch),
           handle'[h].tail = handle[h].tail,
           NEW told \in Seq(Event), acked' = Longer(told),
           Slice(told, disk.log \o Head(handle[h].queue).batch, 0)
    PROVE  Follows
<1> DEFINE r == handle[h]
           s == handle'[h]
           b == Head(r.queue).batch
           l == disk.log
<1>1. Good(r) /\ Sound(r, disk) /\ Placed(r) /\ Disk /\ File(disk) /\ h # None
  BY OneHandle DEF Sound, Between
<1>2. /\ ~disk.torn /\ disk.rest = <<>> /\ l \in Seq(Event) /\ b \in Seq(Event)
      /\ Numbered(l \o b) /\ r.lease = "held" /\ r.tail = <<>>
  <2>1. b = IF r.stage = "tail" THEN r.tail ELSE Head(r.queue).batch
    OBVIOUS
  <2>2. r.tail = <<>>
    BY <1>1 DEF Placed
  <2> HIDE DEF b
  <2> QED
    BY <1>1, <2>1, <2>2, WritesOn
<1>3. disk'.log = l \o b /\ ~disk'.torn /\ disk'.rest = <<>>
  BY <1>1, <1>2, LandedFile
<1>4. Logs /\ Logs' /\ l \o b \in Seq(Event)
  BY <1>2, LogsTyped, LogsTypedNext, ConcatProperties
<1>5. Stored = l /\ Stored' = l \o b
  BY <1>2, <1>3, <1>4, NoEvents DEF Stored
<1>6. Owed(r, disk) = <<>> /\ Owed(s, disk') = <<>>
  BY <1>2 DEF Owed
<1>7. Mending = <<>> /\ Mending' = <<>>
  <2>1. Mending = <<>>
    BY <1>2, <1>6, HolderKnows
  <2>2. Mending' = Mending
    <3>1. disk'.torn = disk.torn
      BY <1>1, <1>2, <1>3 DEF Local, Types, Disk
    <3> QED
      BY <1>6, <3>1, MendingSame
  <2> QED
    BY <2>1, <2>2
<1>8. Slice(Stored, Stored', 0)
  BY <1>2, <1>5, StartOfConcat
<1>9. Promised' /\ LogStep
  BY <1>4, <1>5, <1>7, <1>8, CommitFollows
<1>10. Mended'
  BY <1>6, MendedSafe DEF Unmended
<1> QED
  BY <1>9, <1>10 DEF Follows

\* A suffix or a flush that was written tells its caller so.
LEMMA PersistFollows ==
    ASSUME ~SetupRace, Local, Exclusive, Mended, Promised, Local', NEW h \in Handle,
           PersistBatch(h), Safe(h)
    PROVE  Follows
<1> DEFINE r == handle[h]
           s == handle'[h]
           w == WithBatch(r)
           b == Head(r.queue).batch
           l == disk.log \o b
<1>1. /\ Good(r) /\ Marked(r) /\ Sound(r, disk) /\ Placed(r) /\ Disk /\ File(disk)
      /\ handle \in [Handle -> HandleRecord] /\ r \in HandleRecord
  BY OneHandle DEF Sound, Between
<1>2. /\ r.stage = "batch" /\ Loaded(r)
      /\ \/ /\ r.materialized \/ ~disk.exists
            /\ disk' = Landed(b) /\ SettledTo(w, s, TRUE) /\ Tell(Told(r))
         \/ SettledTo(r, s, FALSE) /\ UNCHANGED <<disk, acked>>
      /\ w.tail = r.tail
  BY <1>1, PersistEffect
<1>3. CASE SettledTo(r, s, FALSE) /\ UNCHANGED <<disk, acked>>
  <2> HIDE DEF r, s
  <2>1. Keeps(r, s)
    BY <1>3 DEF SettledTo
  <2>2. Owed(s, disk) = Owed(r, disk) /\ s.view = r.view /\ s.memory = r.memory
    BY <2>1, SameOwed DEF Keeps
  <2> QED
    BY <1>3, <2>2, QuietStep DEF r, s
<1>4. CASE /\ r.materialized \/ ~disk.exists
           /\ disk' = Landed(b) /\ SettledTo(w, s, TRUE) /\ Tell(Told(r))
  <2>1. s.tail = r.tail
    <3> HIDE DEF r, s, w
    <3> QED
      BY <1>2, <1>4 DEF SettledTo, Keeps
  <2>2. /\ disk.log \in Seq(Event) /\ b \in Seq(Event) /\ r.view = disk.log
        /\ Slice(l, r.memory, 0)
    <3>1. b = (IF r.stage = "tail" THEN r.tail ELSE Head(r.queue).batch)
      BY <1>2
    <3> HIDE DEF b
    <3> QED
      BY <1>1, <1>2, <1>4, <3>1, WritesOn
  <2>3. /\ l \in Seq(Event) /\ Len(l) = Len(r.view) + Len(b) /\ Len(r.view) \in Nat
        /\ Len(b) \in Nat /\ Len(l) \in Nat
    <3> HIDE DEF b
    <3>1. l \in Seq(Event) /\ Len(l) = Len(disk.log) + Len(b)
      BY <2>2, ConcatProperties
    <3>2. Len(disk.log) \in Nat /\ Len(b) \in Nat /\ Len(l) \in Nat
      BY <2>2, <3>1, LenProperties
    <3> QED
      BY <2>2, <3>1, <3>2
  <2> DEFINE n == Covers(r)
  <2>4. /\ n \in Nat /\ n <= Len(r.memory)
        /\ \/ Told(r) = <<>>
           \/ Head(r.queue).kind # "drain" /\ Told(r) = SubSeq(r.memory, 1, n)
    BY <1>1, <1>2, ToldEvents DEF InWrite
  <2>5. Head(r.queue).kind # "drain" => n <= Len(l)
    <3>1. CASE Head(r.queue).kind = "append"
      <4>1. n = Len(l)
        BY <2>3, <3>1 DEF Covers
      <4> QED
        BY <2>3, <4>1
    <3>2. CASE Head(r.queue).kind = "flush"
      <4>1. Held(r) /\ r.barrier = "flushing"
        BY <1>1, <1>2, <3>2, FirstOperation DEF Loaded
      <4>2. n <= Len(r.view)
        BY <3>2, <4>1 DEF Held, Covers
      <4> HIDE DEF l, n, b
      <4> DEFINE i == Len(l)
                 j == Len(r.view)
                 k == Len(b)
      <4>3. i = j + k /\ j \in Nat /\ k \in Nat /\ n \in Nat /\ n <= j
        BY <2>3, <2>4, <4>2
      <4> HIDE DEF i, j, k
      <4>4. n <= i
        BY <4>3
      <4> QED
        BY <4>4 DEF i
    <3>3. Head(r.queue).kind \in {"append", "flush", "drain"}
      BY <1>2, LoadedEvents, Operations
    <3> QED
      BY <3>1, <3>2, <3>3
  <2>6. r.memory \in Seq(Event) /\ Slice(<<>>, l, 0) /\ <<>> \in Seq(Event)
    <3>1. r.memory \in Seq(Event) /\ <<>> \in Seq(Event)
      BY <1>1, EventFields
    <3> HIDE DEF l
    <3>2. Slice(<<>>, l, 0)
      BY <2>3, NothingStored
    <3> QED
      BY <3>1, <3>2
  <2>7. Told(r) \in Seq(Event) /\ Slice(Told(r), l, 0)
    <3> HIDE DEF n, l, r, b
    <3>1. CASE Told(r) = <<>>
      BY <2>6, <3>1
    <3>2. CASE Head(r.queue).kind # "drain" /\ Told(r) = SubSeq(r.memory, 1, n)
      BY <2>2, <2>3, <2>4, <2>5, <2>6, <3>2, FirstEvents
    <3> QED
      BY <2>4, <3>1, <3>2
  <2>8. acked' = Longer(Told(r))
    BY <1>4 DEF Tell
  <2> QED
    BY <1>2, <1>4, <2>1, <2>7, <2>8, LandFollows
<1> QED
  BY <1>2, <1>3, <1>4

\* An operation whose I/O rejects.
LEMMA FailFollows ==
    ASSUME ~LeftBytes, Local, Exclusive, Mended, Promised, Local', NEW h \in Handle,
           FailOperation(h), Safe(h)
    PROVE  Follows
<1> DEFINE r == handle[h]
           s == handle'[h]
           b == Head(r.queue).batch
<1>1. Good(r) /\ handle \in [Handle -> HandleRecord] /\ Disk
  BY OneHandle
<1>2. /\ UNCHANGED acked /\ SettledTo(r, s, FALSE) /\ Loaded(r)
      /\ \/ UNCHANGED disk
         \/ r.stage = "truncate" /\ disk' = Cut(r.tornAt)
         \/ r.stage = "batch" /\ ~r.materialized /\ ~disk.exists /\ disk' = Landed(b)
  BY <1>1, FailEffect
<1>3. /\ s.tail = r.tail /\ s.lease = r.lease /\ s.view = r.view /\ s.memory = r.memory
      /\ Owed(s, disk) = Owed(r, disk)
  <2> HIDE DEF r, s
  <2>1. Keeps(r, s)
    BY <1>2 DEF SettledTo
  <2> QED
    BY <2>1, SameOwed DEF Keeps
<1>4. CASE UNCHANGED disk
  BY <1>2, <1>3, <1>4, QuietStep
<1>5. CASE r.stage = "truncate" /\ disk' = Cut(r.tornAt)
  BY <1>2, <1>3, <1>5, CutFollows
<1>6. CASE r.stage = "batch" /\ ~r.materialized /\ ~disk.exists /\ disk' = Landed(b)
  <2>1. <<>> \in Seq(Event) /\ acked' = Longer(<<>>)
    <3>1. acked \in Seq(Event)
      BY LogsTyped DEF Logs
    <3> QED
      BY <1>2, <3>1, NothingTold
  <2>2. disk.log \o b \in Seq(Event)
    BY <1>1, <1>2, LoadedEvents, ConcatProperties DEF Disk, Log
  <2>3. Slice(<<>>, disk.log \o b, 0)
    BY <2>2, NothingStored
  <2> QED
    BY <1>3, <1>6, <2>1, <2>3, LandFollows
<1> QED
  BY <1>2, <1>4, <1>5, <1>6

\* A step of the session, of the timer or of a caller of close.
LEMMA TendedFollows ==
    ASSUME ~LateTimer, ~LateProducer, Local, Exclusive, Mended, Promised, Local',
           NEW h \in Handle, Safe(h),
           \/ Emit(h) \/ SessionFlush(h) \/ Close(h) \/ TimerFires(h)
           \/ \E last \in BOOLEAN : AppendSuffix(h, last)
    PROVE  Follows
<1> DEFINE r == handle[h]
           s == handle'[h]
<1>1. UNCHANGED <<disk, acked>> /\ Tended(r, s)
  BY TendedLocal
<1> HIDE DEF r, s
<1>2. /\ s.tail = r.tail /\ s.lease = r.lease /\ s.view = r.view
      /\ s.memory = r.memory \/ Len(s.memory) = Len(r.memory) + 1
  BY <1>1 DEF Tended, SameFile
<1>3. Owed(s, disk) = Owed(r, disk)
  BY <1>2, SameOwed
<1> QED
  BY <1>1, <1>2, <1>3, QuietStep DEF r, s

\* A handle is created, claimed or given back; it gets the lock, and the log.
LEMMA OpenFollows ==
    ASSUME Local, Exclusive, Mended, Promised, Local', NEW h \in Handle, Safe(h),
           \/ \E i \in Instance : BeginCreate(h, i) \/ ClaimWrite(h, i)
           \/ RegisterCreated(h) \/ RollBackOpen(h) \/ LockForOpen(h) \/ ReadForOpen(h)
    PROVE  Follows
<1> DEFINE r == handle[h]
           s == handle'[h]
<1>1. /\ Good(r) /\ Leased(r) /\ handle \in [Handle -> HandleRecord] /\ Disk /\ File(disk)
      /\ Claims
  BY OneHandle DEF Sound, Between
<1>2. r.phase \in {"unused", "creating", "claimed", "locked"} => r.tail = <<>>
  BY <1>1 DEF Leased
<1>3. CASE \/ \E i \in Instance : BeginCreate(h, i) \/ ClaimWrite(h, i)
           \/ RegisterCreated(h) \/ RollBackOpen(h)
  <2>1. /\ New(s) /\ UNCHANGED <<disk, acked>>
        /\ r.phase \in {"unused", "creating", "claimed", "locked"}
    BY <1>1, <1>3, AfreshEffect
  <2>2. Owed(s, disk) = <<>> /\ Owed(r, disk) = <<>>
    BY <1>2, <2>1 DEF New, Owed
  <2> QED
    BY <2>1, <2>2, QuietStep
<1>4. CASE LockForOpen(h)
  <2>1. UNCHANGED <<disk, acked>> /\ r.phase = "claimed" /\ s.tail = r.tail
    BY <1>1, <1>4, LockEffect
  <2>2. Owed(s, disk) = <<>> /\ Owed(r, disk) = <<>>
    BY <1>2, <2>1 DEF Owed
  <2> QED
    BY <2>1, <2>2, QuietStep
<1>5. CASE ReadForOpen(h)
  <2>1. UNCHANGED <<disk, acked>> /\ r.phase = "locked" /\ s.tail = disk.rest
    BY <1>1, <1>5, ReadEffect
  <2>2. Owed(s, disk) = <<>> /\ Owed(r, disk) = <<>>
    BY <1>1, <1>2, <2>1 DEF Owed, File
  <2> QED
    BY <2>1, <2>2, QuietStep
<1> QED
  BY <1>3, <1>4, <1>5

\* A close frees the lock: it tells its caller that every event is stored, or leaves
\* records it owes behind and tells nothing.
LEMMA FreeFollows ==
    ASSUME ~SetupRace, Local, Exclusive, Mended, Promised, Local', NEW h \in Handle,
           FreeLock(h), Safe(h)
    PROVE  Follows
<1> DEFINE r == handle[h]
           s == handle'[h]
           m == r.memory
           v == r.view
           told == IF r.life = "live" /\ ~r.failed THEN Longer(r.memory) ELSE acked
<1>1. /\ Good(r) /\ Leased(r) /\ Quiet(r) /\ Pieces(r) /\ Held(r) /\ r \in HandleRecord
      /\ handle \in [Handle -> HandleRecord]
  BY OneHandle DEF Sound, Between, Good
<1>2. /\ UNCHANGED disk /\ lock' = None /\ Keep(told)
      /\ r.phase = "open" /\ r.closing = "releasing" /\ s.lease = "released"
  BY <1>1, FreeEffect
<1>3. r.lease = "held"
  BY <1>1, <1>2 DEF Leased
<1>4. Mending = Owed(r, disk) /\ Mending' = <<>> /\ Stored' = Stored
  BY <1>2, <1>3, HolderKnows DEF Mending, Stored
<1>5. Logs /\ Logs' /\ Whole \in Seq(Event) /\ m \in Seq(Event) /\ v \in Seq(Event)
  BY <1>1, LogsTyped, LogsTypedNext, EventFields, ConcatProperties DEF Logs, Whole
<1>6. Mended'
  <2>1. Unmended(s, disk')
    BY <1>2 DEF Unmended, Owed
  <2> QED
    BY <2>1, MendedSafe
<1>7. CASE r.life = "live" /\ ~r.failed
  <2>1. r.queue = <<>> /\ r.buffered = <<>>
    BY <1>1, <1>2, <1>7 DEF Quiet
  <2>2. Carried(r) \o r.buffered = <<>>
    BY <2>1, NoEvents DEF Carried
  <2>3. Len(m) = Len(v) + Len(<<>>)
    BY <1>1, <1>7, <2>2 DEF Held
  <2>4. Len(m) = Len(v) /\ Len(v) \in Nat
    BY <1>5, <2>3, EmptySeq, LenProperties
  <2>5. m = v
    <3>1. Slice(v, m, 0)
      BY <1>1 DEF Pieces
    <3> HIDE DEF m, v
    <3> QED
      BY <1>5, <2>4, <3>1, PrefixOfPrefix
  <2>6. Mending = <<>>
    <3>1. Unmended(r, disk)
      BY DEF Mended
    <3> QED
      BY <1>4, <2>4, <3>1 DEF Unmended
  <2>7. Slice(m, Whole, 0)
    BY <1>2, <1>3, <2>5, HolderKnows
  <2>8. Whole = Stored /\ Stored' \o Mending' = Stored
    BY <1>4, <1>5, <2>6, NoEvents DEF Whole, Logs
  <2>9. Longer(m) \in Seq(Event) /\ Slice(Longer(m), Whole, 0)
    <3>1. acked \in Seq(Event) /\ Slice(acked, Whole, 0)
      BY <1>5 DEF Logs, Promised
    <3> HIDE DEF m
    <3> QED
      BY <1>5, <2>7, <3>1, LongerStarts
  <2>10. acked' = Longer(m)
    <3>1. told = Longer(m)
      BY <1>7
    <3> DEFINE i == Len(Longer(m))
               j == Len(Stored)
    <3>2. i \in Nat /\ j \in Nat /\ 0 + i <= j
      BY <1>5, <2>8, <2>9, LenProperties DEF Slice, Logs
    <3> HIDE DEF i, j
    <3>3. ~(i > j)
      BY <3>2
    <3> HIDE DEF told, m
    <3> QED
      BY <1>2, <2>8, <3>1, <3>3 DEF Keep, i, j
  <2>11. Promised' /\ LogStep
    <3> HIDE DEF m
    <3>1. UNCHANGED <<Stored, Mending>>
      BY <1>4, <2>6
    <3> QED
      BY <1>5, <2>7, <2>10, <3>1, TellFollows
  <2> QED
    BY <1>6, <2>11 DEF Follows
<1>8. CASE ~(r.life = "live" /\ ~r.failed)
  <2>1. told = acked
    BY <1>8
  <2>2. Keep(acked)
    <3> HIDE DEF told
    <3> QED
      BY <1>2, <2>1
  <2>3. Slice(Stored, Stored', 0) /\ Slice(Stored', Whole, 0)
    <3>1. Stored \in Seq(Event) /\ Mending \in Seq(Event)
      BY <1>5 DEF Logs
    <3>2. Slice(Stored, Whole, 0)
      BY <3>1, StartOfConcat DEF Whole
    <3>3. Slice(Stored, Stored, 0)
      BY <1>5, <3>1, <3>2, PrefixOfPrefix
    <3> QED
      BY <1>4, <3>2, <3>3
  <2>4. Promised' /\ LogStep
    BY <1>4, <1>5, <2>2, <2>3, LapseFollows
  <2> QED
    BY <1>6, <2>4 DEF Follows
<1> QED
  BY <1>7, <1>8

\* Every step of a handle.
LEMMA HandleFollows ==
    ASSUME ~SetupRace, ~LateTimer, ~LateProducer, ~LeftBytes,
           Local, Exclusive, Mended, Promised, Local', NEW h \in Handle,
           Storage(h) \/ TimerFires(h) \/ Clients(h) \/ Faults(h)
    PROVE  Follows
<1>1. Safe(h)
  BY HandleSafe
<1>2. CASE Storage(h)
  <2>1. CASE ReleaseHandle(h)
    <3>1. Good(handle[h]) /\ handle \in [Handle -> HandleRecord] /\ Claims
      BY OneHandle
    <3>2. /\ UNCHANGED <<disk, acked>>
          /\ handle'[h].tail = handle[h].tail /\ handle'[h].lease = handle[h].lease
          /\ handle'[h].view = handle[h].view /\ handle'[h].memory = handle[h].memory
      BY <2>1, <3>1, ReleaseEffect
    <3>3. Owed(handle'[h], disk) = Owed(handle[h], disk)
      BY <3>2, SameOwed
    <3> QED
      BY <1>1, <3>2, <3>3, QuietStep
  <2> QED
    BY <1>1, <1>2, <2>1, StartFollows, LeaseFollows, RepairFollows, PersistFollows,
       OpenFollows, FreeFollows DEF Storage
<1>3. CASE TimerFires(h)
  BY <1>1, <1>3, TendedFollows
<1>4. CASE Clients(h)
  BY <1>1, <1>4, TendedFollows, OpenFollows DEF Clients
<1>5. CASE Faults(h)
  BY <1>1, <1>5, FailFollows, OpenFollows DEF Faults
<1> QED
  BY <1>2, <1>3, <1>4, <1>5

\* An instance is lost.
LEMMA CrashFollows ==
    ASSUME Local, Exclusive, Mended, Promised, Local', NEW i \in Instance, Crash(i)
    PROVE  Follows
<1>1. /\ Claims /\ Disk /\ handle \in [Handle -> HandleRecord] /\ File(disk)
      /\ lock \in Handle \cup {None} /\ Logs /\ Logs' /\ Whole \in Seq(Event)
  BY LogsTyped, LogsTypedNext, ConcatProperties DEF Local, Types, Exclusive, Logs, Whole
<1>2. /\ Keep(acked) /\ lock' \in {lock, None}
      /\ \A g \in Handle : \/ handle'[g] = handle[g] /\ (lock' = g <=> lock = g)
                           \/ New(handle'[g]) /\ lock' # g
      /\ \/ UNCHANGED disk
         \/ \E w \in Handle : /\ handle[w].stage \in {"tail", "batch"} /\ New(handle'[w])
                              /\ LeftBehind(w)
  BY <1>1, CrashEffect
<1>3. \A g \in Handle : New(handle'[g]) => Unmended(handle'[g], disk')
  BY DEF New, Unmended, Owed
<1>4. Stored \in Seq(Event) /\ Mending \in Seq(Event) /\ acked \in Seq(Event)
  BY <1>1 DEF Logs
<1>5. Slice(Stored, Whole, 0) /\ Slice(Stored, Stored, 0)
  <2>1. Slice(Stored, Whole, 0)
    BY <1>4, StartOfConcat DEF Whole
  <2> QED
    BY <1>1, <1>4, <2>1, PrefixOfPrefix
<1>6. CASE UNCHANGED disk
  <2>1. Stored' = Stored
    BY <1>6 DEF Stored
  <2>2. Mended'
    <3>1. ASSUME NEW g \in Handle PROVE Unmended(handle'[g], disk')
      <4>1. CASE handle'[g] = handle[g]
        BY <1>6, <4>1 DEF Mended
      <4>2. CASE New(handle'[g])
        BY <1>3, <4>2
      <4> QED
        BY <1>2, <4>1, <4>2
    <3> QED
      BY <3>1 DEF Mended
  <2>3. CASE lock = None \/ (lock' = lock /\ handle'[lock] = handle[lock])
    <3>1. Mending' = Mending
      BY <1>2, <1>6, <2>3 DEF Mending
    <3>2. Stored' \o Mending' = Whole
      BY <2>1, <3>1 DEF Whole
    <3>3. ~(Len(acked) > Len(Whole))
      BY <1>1, <1>4, LenProperties DEF Promised, Slice
    <3>4. acked' = acked
      BY <1>2, <3>2, <3>3 DEF Keep
    <3> QED
      BY <2>1, <2>2, <3>1, <3>4, StillFollows DEF Follows
  <2>4. CASE ~(lock = None \/ (lock' = lock /\ handle'[lock] = handle[lock]))
    <3>1. lock \in Handle /\ lock' = None
      BY <1>1, <1>2, <2>4
    <3>2. Mending' = <<>>
      BY <3>1 DEF Mending
    <3>3. Promised' /\ LogStep
      BY <1>1, <1>2, <1>5, <2>1, <3>2, LapseFollows
    <3> QED
      BY <2>2, <3>3 DEF Follows
  <2> QED
    BY <2>3, <2>4
<1>7. ASSUME NEW w \in Handle, handle[w].stage \in {"tail", "batch"}, New(handle'[w]),
             LeftBehind(w), ~UNCHANGED disk
      PROVE  Follows
  <2> DEFINE r == handle[w]
             b == Bytes(w)
  <2>1. Good(r) /\ Sound(r, disk) /\ Placed(r)
    BY OneHandle DEF Sound
  <2>2. /\ r.lease = "held" /\ lock = w /\ ~disk.torn
        /\ Slice(disk.log, Stored', 0) /\ Slice(Stored', disk.log \o b, 0)
    BY <1>1, <1>7, <2>1, LeftFile, OneHandle
  <2>3. Mending = r.tail /\ Stored = disk.log
    BY <2>2, HolderKnows DEF Owed
  <2>4. lock' = None
    BY <1>2, <1>7, <2>2, NoneAssumption DEF New
  <2>5. Mending' = <<>>
    BY <2>4 DEF Mending
  <2>6. Mended'
    <3>1. ASSUME NEW g \in Handle PROVE Unmended(handle'[g], disk')
      <4>1. CASE handle'[g] = handle[g] /\ g # w
        <5>1. handle[g].lease # "held"
          BY <2>2, <4>1, OneHandle
        <5> QED
          BY <4>1, <5>1 DEF Unmended, Owed
      <4>2. CASE New(handle'[g])
        BY <1>3, <4>2
      <4> QED
        BY <1>2, <1>7, <4>1, <4>2
    <3> QED
      BY <3>1 DEF Mended
  <2>7. Slice(Stored, Stored', 0)
    BY <2>2, <2>3
  <2>8. CASE r.stage = "tail"
    <3>1. b = Mending
      BY <2>3, <2>8 DEF Bytes
    <3>2. Slice(Stored', Whole, 0)
      BY <2>2, <2>3, <3>1 DEF Whole
    <3>3. Promised' /\ LogStep
      BY <1>1, <1>2, <2>5, <2>7, <3>2, LapseFollows
    <3> QED
      BY <2>6, <3>3 DEF Follows
  <2>9. CASE r.stage = "batch"
    <3>1. Mending = <<>>
      BY <2>1, <2>3, <2>9 DEF Placed
    <3>2. Whole = Stored /\ Stored' \in Seq(Event) /\ Stored' \o Mending' = Stored'
      BY <1>1, <1>4, <2>5, <3>1, NoEvents DEF Whole, Logs
    <3>3. acked' = acked
      <4> DEFINE j == Len(acked)
                 k == Len(Stored)
                 n == Len(Stored')
      <4>1. j \in Nat /\ k \in Nat /\ n \in Nat /\ 0 + j <= k /\ 0 + k <= n
        BY <1>4, <2>7, <3>2, LenProperties DEF Promised, Slice
      <4> HIDE DEF j, k, n
      <4>2. ~(j > n)
        BY <4>1
      <4> QED
        BY <1>2, <3>2, <4>2 DEF Keep, j, n
    <3>4. acked' = Longer(<<>>) /\ <<>> \in Seq(Event) /\ Slice(<<>>, Stored', 0)
      BY <1>4, <3>2, <3>3, NothingTold, NothingStored
    <3>5. Promised' /\ LogStep
      BY <1>1, <2>5, <2>7, <3>1, <3>4, CommitFollows
    <3> QED
      BY <2>6, <3>5 DEF Follows
  <2> QED
    BY <1>7, <2>8, <2>9
<1> QED
  BY <1>2, <1>6, <1>7

\* At the start nothing is stored, owed or told.
LEMMA MendedInit == Init => Mended /\ Promised /\ D!Init
<1> SUFFICES ASSUME Init PROVE Mended /\ Promised /\ D!Init
  OBVIOUS
<1>1. /\ handle = [h \in Handle |-> Unused] /\ acked = <<>> /\ lock = None
      /\ disk.log = <<>> /\ disk.rest = <<>>
  BY DEF Init
<1>2. New(Unused)
  BY FreshNew DEF Unused
<1>3. Mended
  BY <1>1, <1>2 DEF New, Mended, Unmended, Owed
<1>4. Stored = <<>> /\ Mending = <<>> /\ Whole = <<>>
  <2>1. <<>> \o <<>> = <<>>
    BY NoEvents
  <2> QED
    BY <1>1, <2>1 DEF Stored, Mending, Whole
<1>5. Promised
  <2>1. <<>> \in Seq(Event)
    OBVIOUS
  <2> QED
    BY <1>1, <1>4, <2>1, NothingStored DEF Promised
<1> QED
  BY <1>1, <1>3, <1>4, <1>5 DEF D!Init

\* Every step keeps what was promised, and is a step of the durable log.
LEMMA MendedStep ==
    ASSUME ~SetupRace, ~LateTimer, ~LateProducer, ~LeftBytes
    PROVE  Local /\ Local' /\ Exclusive /\ Mended /\ Promised /\ [Next]_vars => Follows
<1> SUFFICES ASSUME Local, Local', Exclusive, Mended, Promised, [Next]_vars
             PROVE  Follows
  OBVIOUS
<1>1. ASSUME NEW h \in Handle, Storage(h) \/ TimerFires(h) \/ Clients(h) \/ Faults(h)
      PROVE  Follows
  BY <1>1, HandleFollows
<1>2. ASSUME NEW i \in Instance, Crash(i) PROVE Follows
  BY <1>2, CrashFollows
<1>3. CASE UNCHANGED vars
  <2>1. Stored' = Stored /\ Mending' = Mending /\ acked' = acked
    BY <1>3 DEF vars, Stored, Mending
  <2>2. Mended'
    BY <1>3 DEF vars, Mended
  <2> QED
    BY <2>1, <2>2, StillFollows DEF Follows
<1> QED
  BY <1>1, <1>2, <1>3 DEF Next

-----------------------------------------------------------------------------
(* The session's storage as its users know it.                             *)

\* The write handles implement the durable log, in a run where no event races the
\* suffix of a setup, nothing runs on once a close frees the lock, and a failed append
\* leaves nothing of its batch: the stored log changes only at its end, and the events
\* a resolved append, flush or close told its caller are stored stay stored, whatever
\* fails, crashes or is retried, but for recovered records lost in a repair.
THEOREM HandleImplementsLog ==
    ASSUME ~SetupRace, ~LateTimer, ~LateProducer, ~LeftBytes
    PROVE  Spec => LogIsDurable
<1>1. Init => Mended /\ Promised /\ D!Init
  BY MendedInit
<1>2. Local /\ Exclusive /\ [Next]_vars => Exclusive'
  BY ExclusiveStep
<1>3. Local /\ Local' /\ Exclusive /\ Mended /\ Promised /\ [Next]_vars =>
         Mended' /\ Promised' /\ [D!Next]_<<Stored, Mending, acked>>
  BY MendedStep DEF Follows, LogStep
<1> QED
  BY LocalInit, LocalStep, ExclusiveInit, <1>1, <1>2, <1>3, PTL
     DEF Spec, LogIsDurable, D!Spec, D!vars
=============================================================================
