----------------------------- MODULE SessionHandle -----------------------------
(***************************************************************************)
(* JsonlSessionHandle and JsonlBackendTracker of                           *)
(* packages/session/session-persistence-jsonl/src/storage.ts: the write    *)
(* handles of one session, the log file they write, the per-instance claim *)
(* and the kernel lock that keep them apart, and the session's own events  *)
(* as the agent loop stores and routes them                                *)
(* (packages/core/agent-loop/src/index.ts).                                *)
(*                                                                         *)
(* An action is the code between two awaits that wait for I/O or a timer.  *)
(* A handle's promise chain is its `queue`; what close does after        *)
(* `await chain` is part of the step that settles the last operation it    *)
(* waited for, ahead of a later operation: it subscribed first.            *)
(***************************************************************************)
EXTENDS Integers, Sequences, SequencesExt, FiniteSets

CONSTANTS
  Handle,           \* write handles: each is created or opened once
  Instance,         \* backend instances: one per process or per mount
  None,             \* no handle, no instance
  Encoding,         \* encodings a root may have: "zstd" frames, "raw" lines
  MaxEvent,         \* bound: events of the session
  MaxFailure,       \* bound: I/O operations that reject
  MaxCrash,         \* bound: instances lost
  LateProducer,     \* the session may publish and flush while a close frees the lock
  SetupRace,        \* an event may be appended while the last setup suffix is stored
  LateTimer,        \* a timer still armed may fire once close drains no more
  LeftBytes         \* a failed append may leave bytes of its batch in the file

ASSUME NoneAssumption == None \notin Handle \cup Instance
ASSUME EncodingAssumption == Encoding \subseteq {"zstd", "raw"}
ASSUME FlagAssumption == {LateProducer, SetupRace, LateTimer, LeftBytes} \subseteq BOOLEAN
ASSUME BoundAssumption == MaxEvent \in Nat /\ MaxFailure \in Nat /\ MaxCrash \in Nat

VARIABLES
  handle,      \* per handle: its private state and its session's (see Fresh)
  claim,       \* per instance, the tracker's `writers` entry of the session
  lock,        \* the kernel lock on session.lock
  disk,        \* the log file: complete events, and what a torn tail yields
  acked,       \* history: the longest log a caller was told is stored, less what a
               \* lost repair took back
  failures, crashes   \* used-up bounds

vars == <<handle, claim, lock, disk, acked, failures, crashes>>

-----------------------------------------------------------------------------
(* State *)

\* An event is told apart by its sequence number and the session that appended it.
Event == [seq : 1 .. MaxEvent, by : Handle]
Log == Seq(Event)

\* An operation on the chain; `last` marks the suffix stored right before publication.
Op == [kind : {"append", "flush", "drain"}, batch : Log, last : BOOLEAN]
Operation(kind, batch, last) == [kind |-> kind, batch |-> batch, last |-> last]
Drain == Operation("drain", <<>>, FALSE)
Flush == Operation("flush", <<>>, FALSE)

\* A handle as its constructor leaves it, for a session of events `log`.
Fresh(phase, home, log) ==
  [phase |-> phase, home |-> home,
   memory |-> log,        \* the session's events
   view |-> log,          \* the stored log as the handle knows it; its length is `cursor`
   life |-> "setup",      \* the session: in setup, storing its suffix, live or failed
   materialized |-> FALSE,
   torn |-> FALSE, tornAt |-> 0,      \* tornTruncateTo
   tail |-> <<>>,                     \* recoveredTail
   lease |-> "none",
   queue |-> <<>>, stage |-> "idle",  \* the chain, and where its first operation is
   buffered |-> <<>>, timer |-> FALSE, paused |-> FALSE, draining |-> FALSE,
   closing |-> "no", await |-> 0, failed |-> FALSE,
   barrier |-> "none", mark |-> 0]    \* a session/flush and the events it covers

Unused == Fresh("unused", None, <<>>)

Open(h) == handle[h].phase = "open"
Writing(h) == handle[h].stage \in {"truncate", "tail", "batch"}

\* The events a reader of the file is given: complete ones, then the complete
\* records of a torn final frame.
Stored == disk.log \o disk.rest

\* The records the holder of the lock has cut from the file and has still to write
\* again: for now only its memory has them.
Mending == IF lock # None /\ ~disk.torn THEN handle[lock].tail ELSE <<>>

\* What is acknowledged after a step that may lose the records being mended: of the
\* log `told`, no more than is stored or can still be written again.
Keep(told) ==
  LET left == Stored' \o Mending'
  IN acked' = IF Len(told) > Len(left) THEN left ELSE told

TypeOK ==
  /\ \A h \in Handle : LET r == handle[h] IN
       /\ r.phase \in {"unused", "creating", "claimed", "locked", "open", "closed", "dead"}
       /\ r.home \in Instance \cup {None}
       /\ r.memory \in Log /\ r.view \in Log /\ r.tail \in Log /\ r.buffered \in Log
       /\ r.life \in {"setup", "storing", "live", "failed"}
       /\ {r.materialized, r.torn, r.timer, r.paused, r.draining, r.failed} \subseteq BOOLEAN
       /\ r.tornAt \in 0 .. MaxEvent
       /\ r.lease \in {"none", "held", "released"}
       /\ r.queue \in Seq(Op) /\ Len(r.queue) <= 3
       /\ r.stage \in {"idle", "lease", "truncate", "tail", "batch"}
       /\ r.closing \in {"no", "draining", "settling", "last", "releasing", "freed"}
       /\ r.await \in 0 .. 3 /\ r.mark \in 0 .. MaxEvent
       /\ r.barrier \in {"none", "draining", "flushing"}
  /\ claim \in [Instance -> Handle \cup {None}]
  /\ lock \in Handle \cup {None}
  /\ disk \in [exists : BOOLEAN, log : Log, torn : BOOLEAN, rest : Log]
  /\ acked \in Log
  /\ failures \in 0 .. MaxFailure /\ crashes \in 0 .. MaxCrash

Init ==
  /\ handle = [h \in Handle |-> Unused]
  /\ claim = [i \in Instance |-> None]
  /\ lock = None
  /\ disk = [exists |-> FALSE, log |-> <<>>, torn |-> FALSE, rest |-> <<>>]
  /\ acked = <<>>
  /\ failures = 0 /\ crashes = 0

-----------------------------------------------------------------------------
(* Draining the buffer of routed events *)

\* drainLive: join the running drain, or start one if there is something to drain.
DrainLive(r) ==
  IF r.draining THEN r
  ELSE [r EXCEPT !.timer = FALSE, !.paused = FALSE,
                 !.draining = r.buffered # <<>>,
                 !.queue = IF r.buffered = <<>> THEN @ ELSE Append(@, Drain)]

\* The callers waiting for drainLive run on: close waits for the chain next, and
\* session/flush enters its flush, which a closing handle refuses.
Resume(r, ok) ==
  LET toClose == r.closing = "draining"
      toFlush == r.barrier = "draining" /\ ok /\ r.closing = "no"
  IN IF r.draining THEN r
     ELSE [r EXCEPT
            !.await = IF toClose THEN Len(r.queue) ELSE @,
            !.failed = @ \/ (toClose /\ ~ok),
            !.closing = IF toClose THEN (IF ok THEN "settling" ELSE "last") ELSE @,
            !.queue = IF toFlush THEN Append(@, Flush) ELSE @,
            !.barrier = IF @ # "draining" THEN @ ELSE IF toFlush THEN "flushing" ELSE "none"]

\* Slip: the buffer is not looked at again once the chain has settled.
CloseOnce(r) ==
  LET checked == IF r.closing # "settling" \/ r.await > 0 THEN r
                 ELSE [r EXCEPT !.closing = "last", !.await = Len(r.queue)]
  IN IF checked.closing # "last" \/ checked.await > 0 THEN checked
     ELSE [checked EXCEPT !.closing = IF r.lease = "held" THEN "releasing" ELSE "freed"]

\* What close runs on to once the chain it waited for has settled: drain again what
\* arrived meanwhile; else wait for the chain once more, and release the lock.
CloseLoop(r) ==
  LET checked ==
        IF r.closing # "settling" \/ r.await > 0 THEN r
        ELSE IF r.buffered # <<>> THEN DrainLive([r EXCEPT !.closing = "draining"])
        ELSE [r EXCEPT !.closing = "last", !.await = Len(r.queue)]
  IN IF checked.closing # "last" \/ checked.await > 0 THEN checked
     ELSE [checked EXCEPT !.closing = IF r.lease = "held" THEN "releasing" ELSE "freed"]

\* Slip: an operation that close does not wait for counts too.
CountedPast(n) == n - 1

\* One operation less that `await chain` waits for.
Counted(n) == IF n > 0 THEN n - 1 ELSE 0

\* Slip: the batch goes behind what arrived meanwhile.
PutBehind(batch, buffered) == buffered \o batch

\* A failed batch goes back in front of what arrived meanwhile.
PutBack(batch, buffered) == batch \o buffered

\* Slip: the promise of the last drain is kept.
DrainKept(r) == r

\* The drain is over: the next caller of drainLive starts another.
DrainOver(r) == [r EXCEPT !.draining = FALSE]

\* The first operation of the chain settles.  A failed drain puts its batch back
\* in front and pauses; a drain that did not empty the buffer goes round again.
Settle(r, ok) ==
  LET op == Head(r.queue)
      base == [r EXCEPT !.queue = Tail(@), !.stage = "idle",
                        !.await = Counted(@)]
  IN CloseLoop(
       CASE op.kind = "append" ->
              [base EXCEPT !.life = IF ~ok THEN "failed" ELSE IF op.last THEN "live" ELSE "setup"]
         [] op.kind = "flush" -> [base EXCEPT !.barrier = "none"]
         [] op.kind = "drain" /\ ok ->
              IF r.buffered # <<>> THEN [base EXCEPT !.queue = Append(@, Drain)]
              ELSE Resume(DrainOver(base), TRUE)
         [] op.kind = "drain" /\ ~ok ->
              Resume(DrainOver([base EXCEPT !.buffered = PutBack(op.batch, @),
                                            !.paused = TRUE]), FALSE))

\* What the settled operation told its caller is stored: the appended suffix, or
\* every event of the session when session/flush was called.
Told(r) ==
  LET op == Head(r.queue)
  IN CASE op.kind = "append" -> SubSeq(r.memory, 1, Last(op.batch).seq)
       [] op.kind = "flush" -> SubSeq(r.memory, 1, r.mark)
       [] op.kind = "drain" -> <<>>

Longer(told) == IF Len(told) > Len(acked) THEN told ELSE acked
Tell(told) == acked' = Longer(told)

\* persistContiguous once the lock is held: refuse a batch that does not continue
\* the cursor, then repair, rewrite the recovered tail, and write the batch.
Proceed(r) ==
  LET op == Head(r.queue)
  IN IF op.kind = "flush" THEN [r EXCEPT !.stage = "batch"]
     ELSE IF Head(op.batch).seq # Len(r.view) + 1 THEN Settle(r, FALSE)
     ELSE [r EXCEPT !.stage = IF r.torn THEN "truncate"
                              ELSE IF r.tail # <<>> THEN "tail" ELSE "batch"]

Put(h, r) == handle' = [handle EXCEPT ![h] = r]

-----------------------------------------------------------------------------
(* The session and the agent loop *)

\* close has ended but for code that runs at once.
Ended(r) == r.phase = "open" /\ r.closing = "freed" /\ r.lease = "none"

\* Whether the session may still publish or flush.
Listening(r) == r.closing \in {"releasing", "freed"} => LateProducer /\ ~Ended(r)

\* An event is appended to the session.  In setup it stays in memory; once the
\* session is live it is routed to the claimed handle, which buffers it and arms
\* the batching timer (enqueueLive).
Emit(h) ==
  LET r == handle[h]
      e == [seq |-> Len(r.memory) + 1, by |-> h]
  IN /\ Open(h) /\ Len(r.memory) < MaxEvent
     /\ Listening(r)
     /\ \/ /\ r.life \in {"setup", "storing"}
           /\ (\E n \in DOMAIN r.queue : r.queue[n].last) => SetupRace
           /\ Put(h, [r EXCEPT !.memory = Append(@, e)])
        \/ /\ r.life = "live"
           /\ claim[r.home] = h
           /\ Put(h, [r EXCEPT !.memory = Append(@, e), !.buffered = Append(@, e),
                               !.timer = @ \/ ~r.paused])
     /\ UNCHANGED <<claim, lock, disk, acked, failures, crashes>>

\* appendUnstoredSuffix: the events the session gained in setup, the last time
\* right before publication makes it live.
AppendSuffix(h, last) ==
  LET r == handle[h]
      suffix == SubSeq(r.memory, Len(r.view) + 1, Len(r.memory))
  IN /\ Open(h) /\ r.life = "setup" /\ r.closing = "no"
     /\ IF suffix = <<>>
        THEN last /\ Put(h, [r EXCEPT !.life = "live"])
        ELSE Put(h, [r EXCEPT !.life = "storing",
                              !.queue = Append(@, Operation("append", suffix, last))])
     /\ UNCHANGED <<claim, lock, disk, acked, failures, crashes>>

\* session/flush of a live session: drain, then flush.
SessionFlush(h) ==
  LET r == handle[h]
  IN /\ Open(h) /\ r.life = "live" /\ claim[r.home] = h /\ r.barrier = "none" /\ Listening(r)
     /\ Put(h, Resume(DrainLive([r EXCEPT !.barrier = "draining", !.mark = Len(r.memory)]),
                      TRUE))
     /\ UNCHANGED <<claim, lock, disk, acked, failures, crashes>>

-----------------------------------------------------------------------------
(* Taking a write handle *)

\* A handle under creation whose file does not exist yet.
Pending(h) ==
  \/ handle[h].phase = "creating"
  \/ handle[h].phase = "open" /\ ~handle[h].materialized

\* create: the id is not stored, and not pending in this instance.  Ids are minted
\* for one session, so no other attempt to create it is under way either.
BeginCreate(h, i) ==
  /\ handle[h].phase = "unused" /\ ~disk.exists
  /\ \A g \in Handle : ~Pending(g)
  /\ Put(h, Fresh("creating", i, <<>>))
  /\ UNCHANGED <<claim, lock, disk, acked, failures, crashes>>

\* registerCreated claims the id, unless another writer has by then.
RegisterCreated(h) ==
  LET i == handle[h].home
  IN /\ handle[h].phase = "creating"
     /\ IF claim[i] = None
        THEN claim' = [claim EXCEPT ![i] = h] /\ Put(h, Fresh("open", i, <<>>))
        ELSE UNCHANGED claim /\ Put(h, Unused)
     /\ UNCHANGED <<lock, disk, acked, failures, crashes>>

\* open(id, "write"): claim in this instance, then the kernel lock, then the log.
ClaimWrite(h, i) ==
  /\ handle[h].phase = "unused" /\ claim[i] = None
  /\ claim' = [claim EXCEPT ![i] = h]
  /\ Put(h, Fresh("claimed", i, <<>>))
  /\ UNCHANGED <<lock, disk, acked, failures, crashes>>

LockForOpen(h) ==
  /\ handle[h].phase = "claimed" /\ disk.exists /\ lock = None
  /\ lock' = h
  /\ Put(h, [handle[h] EXCEPT !.phase = "locked", !.lease = "held"])
  /\ UNCHANGED <<claim, disk, acked, failures, crashes>>

\* Slip: the cursor leaves out the records of the torn tail.
ReadWithoutTail(h) ==
  /\ handle[h].phase = "locked"
  /\ Put(h, [Fresh("open", handle[h].home, disk.log) EXCEPT
               !.materialized = TRUE, !.lease = "held",
               !.torn = disk.torn, !.tornAt = Len(disk.log), !.tail = disk.rest])
  /\ UNCHANGED <<claim, lock, disk, acked, failures, crashes>>

\* The stored log, with where its torn tail starts and what the tail yields.
ReadForOpen(h) ==
  /\ handle[h].phase = "locked"
  /\ \A n \in 1 .. Len(Stored) : Stored[n].seq = n
  /\ Put(h, [Fresh("open", handle[h].home, Stored) EXCEPT
               !.materialized = TRUE, !.lease = "held",
               !.torn = disk.torn, !.tornAt = Len(disk.log), !.tail = disk.rest])
  /\ UNCHANGED <<claim, lock, disk, acked, failures, crashes>>

\* A write open that finds no log, meets a holder of the lock, or fails to read
\* gives the lock and the claim back.
RollBackOpen(h) ==
  LET r == handle[h]
  IN /\ \/ r.phase = "claimed" /\ (~disk.exists \/ lock # None) /\ UNCHANGED failures
        \/ r.phase = "locked" /\ failures < MaxFailure /\ failures' = failures + 1
     /\ lock' = IF r.lease = "held" THEN None ELSE lock
     /\ claim' = [claim EXCEPT ![r.home] = None]
     /\ Put(h, Unused)
     /\ UNCHANGED <<disk, acked, crashes>>

-----------------------------------------------------------------------------
(* The chain: one durable operation at a time *)

\* The next operation starts.  A drain takes the whole buffer; append and flush
\* are refused once the handle is closing, and a flush of a stored session is done.
StartOperation(h) ==
  LET r == handle[h]
      op == Head(r.queue)
      taken == IF op.kind # "drain" THEN r
               ELSE [r EXCEPT !.queue[1].batch = r.buffered, !.buffered = <<>>]
  IN /\ r.phase \in {"open", "closed"} /\ r.stage = "idle" /\ r.queue # <<>>
     /\ CASE op.kind # "drain" /\ r.closing # "no" ->
               Put(h, Settle(r, FALSE)) /\ UNCHANGED acked
          [] op.kind = "flush" /\ r.closing = "no" /\ r.materialized ->
               Put(h, Settle(r, TRUE)) /\ Tell(Told(r))
          [] OTHER ->
               /\ Put(h, IF r.lease = "none" THEN [taken EXCEPT !.stage = "lease"]
                         ELSE Proceed(taken))
               /\ UNCHANGED acked
     /\ UNCHANGED <<claim, lock, disk, failures, crashes>>

\* ensureLease: take the kernel lock, or fail because another holder keeps it.
EnsureLease(h) ==
  /\ handle[h].stage = "lease"
  /\ IF lock = None
     THEN lock' = h /\ Put(h, Proceed([handle[h] EXCEPT !.lease = "held"]))
     ELSE UNCHANGED lock /\ Put(h, Settle(handle[h], FALSE))
  /\ UNCHANGED <<claim, disk, acked, failures, crashes>>

\* truncateTornTail: cut the file where the torn tail started when it was read; a
\* file that is shorter by then is padded with bytes no scan reads.
Cut(at) ==
  IF at > Len(disk.log) THEN [disk EXCEPT !.torn = TRUE, !.rest = <<>>]
  ELSE [disk EXCEPT !.log = SubSeq(@, 1, at), !.torn = FALSE, !.rest = <<>>]

\* Slip: the recovered records are not written again.
TruncateOnly(h) ==
  LET r == handle[h]
  IN /\ r.stage = "truncate"
     /\ disk' = Cut(r.tornAt)
     /\ Put(h, [r EXCEPT !.torn = FALSE, !.stage = "batch"])
     /\ UNCHANGED <<claim, lock, acked, failures, crashes>>

TruncateTornTail(h) ==
  LET r == handle[h]
  IN /\ r.stage = "truncate"
     /\ disk' = Cut(r.tornAt)
     /\ Put(h, [r EXCEPT !.torn = FALSE, !.stage = IF r.tail # <<>> THEN "tail" ELSE "batch"])
     /\ UNCHANGED <<claim, lock, acked, failures, crashes>>

\* Synced bytes at the end of the file; what follows torn bytes no scan reaches.
Landed(batch) ==
  IF disk.torn THEN disk ELSE [disk EXCEPT !.exists = TRUE, !.log = @ \o batch]

\* The records recovered from the torn tail are written again.
RewriteTail(h) ==
  LET r == handle[h]
  IN /\ r.stage = "tail"
     /\ disk' = Landed(r.tail)
     /\ Put(h, [r EXCEPT !.tail = <<>>, !.stage = "batch"])
     /\ UNCHANGED <<claim, lock, acked, failures, crashes>>

\* persistBatch: append and sync, or publish the file; a log that already exists
\* is never published over.
PersistBatch(h) ==
  LET r == handle[h]
      batch == Head(r.queue).batch
  IN /\ r.stage = "batch"
     /\ IF r.materialized \/ ~disk.exists
        THEN /\ disk' = Landed(batch)
             /\ Put(h, Settle([r EXCEPT !.materialized = TRUE, !.view = @ \o batch], TRUE))
             /\ Tell(Told(r))
        ELSE Put(h, Settle(r, FALSE)) /\ UNCHANGED <<disk, acked>>
     /\ UNCHANGED <<claim, lock, failures, crashes>>

\* The bytes a handle is writing.
Bytes(h) ==
  CASE handle[h].stage = "tail" -> handle[h].tail
    [] handle[h].stage = "batch" -> Head(handle[h].queue).batch
    [] OTHER -> <<>>

\* A file whose end is torn: of a zstd frame cut short a scan yields the complete
\* records, while each raw line is an event of its own.
Torn(encoding, events) ==
  IF encoding = "zstd" THEN [disk EXCEPT !.torn = TRUE, !.rest = events]
  ELSE [disk EXCEPT !.torn = TRUE, !.log = @ \o events]

\* What a writer that was cut short leaves of the bytes it had in flight.
LeftBehind(h) ==
  LET r == handle[h]
      bytes == Bytes(h)
  IN \/ UNCHANGED disk
     \/ (r.materialized \/ ~disk.exists) /\ disk' = Landed(bytes)
     \/ /\ r.materialized /\ ~disk.torn
        /\ \E encoding \in Encoding, n \in 0 .. Len(bytes) :
              disk' = Torn(encoding, SubSeq(bytes, 1, n))

\* An operation's I/O rejects.  Nothing of it stays, but for a tail cut whose sync
\* failed, a file published whose directory could not be synced and, with LeftBytes,
\* an append that was not rolled back or whose file could not be closed.
FailOperation(h) ==
  LET r == handle[h]
      batch == Head(r.queue).batch
  IN /\ r.stage # "idle" /\ failures < MaxFailure
     /\ failures' = failures + 1
     /\ \/ UNCHANGED disk
        \/ r.stage = "truncate" /\ disk' = Cut(r.tornAt)
        \/ r.stage = "batch" /\ ~r.materialized /\ ~disk.exists /\ disk' = Landed(batch)
        \/ LeftBytes /\ r.stage \in {"tail", "batch"} /\ r.materialized /\ LeftBehind(h)
     /\ Put(h, Settle(r, FALSE))
     /\ UNCHANGED <<claim, lock, acked, crashes>>

\* The batching deadline of enqueueLive.
TimerFires(h) ==
  LET r == handle[h]
  IN /\ r.phase \in {"open", "closed"} /\ r.timer /\ ~Ended(r)
     /\ r.closing \in {"last", "releasing", "freed"} => LateTimer
     /\ Put(h, DrainLive([r EXCEPT !.timer = FALSE]))
     /\ UNCHANGED <<claim, lock, disk, acked, failures, crashes>>

-----------------------------------------------------------------------------
(* Closing, losing an instance, reading *)

\* close, first called by teardown, session/disposed or the backend's sweep.
Close(h) ==
  LET r == handle[h]
  IN /\ Open(h) /\ r.closing = "no"
     /\ Put(h, CloseLoop(Resume(DrainLive([r EXCEPT !.closing = "draining"]), TRUE)))
     /\ UNCHANGED <<claim, lock, disk, acked, failures, crashes>>

\* The kernel lock is free from here on; `lease` stays set.  A close that will
\* resolve tells its caller that the events of a session that was live are stored;
\* records a failed repair left in memory alone are lost with the handle.
FreeLock(h) ==
  LET r == handle[h]
  IN /\ Open(h) /\ r.closing = "releasing"
     /\ lock' = None
     /\ Put(h, [r EXCEPT !.closing = "freed", !.lease = "released"])
     /\ UNCHANGED <<claim, disk, failures, crashes>>
     /\ Keep(IF r.life = "live" /\ ~r.failed THEN Longer(r.memory) ELSE acked)

\* releaseHandle, and close settles.
ReleaseHandle(h) ==
  LET r == handle[h]
  IN /\ Open(h) /\ r.closing = "freed"
     /\ claim' = [claim EXCEPT ![r.home] = None]
     /\ Put(h, [r EXCEPT !.phase = "closed"])
     /\ UNCHANGED <<lock, disk, acked, failures, crashes>>

\* An instance is lost with its handles; the kernel frees the lock, and the records
\* the holder was mending are lost too, unless they were being written.
Crash(i) ==
  LET lost == {h \in Handle : handle[h].home = i /\ handle[h].phase # "unused"}
      writers == {h \in lost : handle[h].stage \in {"tail", "batch"}}
  IN /\ crashes < MaxCrash /\ lost # {}
     /\ crashes' = crashes + 1
     /\ handle' = [h \in Handle |-> IF h \in lost THEN Fresh("dead", i, <<>>) ELSE handle[h]]
     /\ claim' = [claim EXCEPT ![i] = None]
     /\ lock' = IF lock \in lost THEN None ELSE lock
     /\ IF writers = {} THEN UNCHANGED disk
        ELSE \E h \in writers : LeftBehind(h)
     /\ Keep(acked)
     /\ UNCHANGED failures

-----------------------------------------------------------------------------
\* The steps of a handle that only wait for I/O, which settles.
Storage(h) ==
  \/ StartOperation(h) \/ EnsureLease(h) \/ TruncateTornTail(h) \/ RewriteTail(h)
  \/ PersistBatch(h) \/ FreeLock(h) \/ ReleaseHandle(h)
  \/ LockForOpen(h) \/ ReadForOpen(h)

Clients(h) ==
  \/ Emit(h) \/ SessionFlush(h) \/ Close(h) \/ RegisterCreated(h)
  \/ \E last \in BOOLEAN : AppendSuffix(h, last)
  \/ \E i \in Instance : BeginCreate(h, i) \/ ClaimWrite(h, i)

Faults(h) == RollBackOpen(h) \/ FailOperation(h)

Next ==
  \/ \E h \in Handle : Storage(h) \/ TimerFires(h) \/ Clients(h) \/ Faults(h)
  \/ \E i \in Instance : Crash(i)

Spec == Init /\ [][Next]_vars

\* I/O settles, and an armed timer fires.
FairSpec == Spec /\ \A h \in Handle : WF_vars(Storage(h)) /\ WF_vars(TimerFires(h))

-----------------------------------------------------------------------------
(* Properties *)

\* The stored log is the sequence 1, 2, 3 ... : no event is stored twice, out of
\* order or after a gap, whichever handle, crash, repair or retry wrote it.
StoredContiguous == \A n \in 1 .. Len(Stored) : Stored[n].seq = n

\* Only the holder of the kernel lock cuts or extends the file, and its idea of the
\* log is the log: what the file holds and, while a torn tail is repaired, the
\* records it has still to write again.
WriterKnowsLog ==
  \A h \in Handle :
    LET r == handle[h]
    IN /\ Writing(h) => lock = h
       /\ Open(h) /\ lock = h /\ r.materialized =>
            r.view = IF disk.torn THEN Stored ELSE disk.log \o r.tail

\* The batch a drain has taken out of the buffer.
Taken(r) ==
  IF r.stage # "idle" /\ Head(r.queue).kind = "drain" THEN Head(r.queue).batch ELSE <<>>

\* Every event of a live session is stored, being written or buffered: once, and
\* in the order it was appended, whatever failed and was retried.
EveryEventHeld ==
  \A h \in Handle :
    LET r == handle[h]
    IN Open(h) /\ r.life = "live" => r.memory = r.view \o Taken(r) \o r.buffered

\* The log changes only at its end and at a repair, and the events a resolved
\* append, flush or close told its caller are stored stay stored, but for one case:
\* records recovered from a torn tail, cut from the file and not written again yet,
\* are lost with the handle that has them in memory, whoever was told of them.
\* DurableLog says which steps those are.
D == INSTANCE DurableLog WITH stored <- Stored, mending <- Mending, acked <- acked
LogIsDurable == D!Spec

\* An event routed to a handle is stored, unless a drain fails or the process is
\* lost: no event waits for ever in the buffer.
RoutedIsStored ==
  \A h \in Handle, n \in 1 .. MaxEvent :
    (Open(h) /\ handle[h].life = "live" /\ Len(handle[h].memory) >= n)
      ~> (Len(Stored) >= n \/ handle[h].paused \/ handle[h].phase = "dead")

\* A close that began completes, whatever is queued, buffered or failing.
CloseCompletes ==
  \A h \in Handle : (Open(h) /\ handle[h].closing # "no") ~> ~Open(h)

\* A handle settles what it was given: events are stored, a close completes.
HandleSettles == RoutedIsStored /\ CloseCompletes
===============================================================================
