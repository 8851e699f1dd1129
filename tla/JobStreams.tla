----------------------------- MODULE JobStreams -----------------------------
(***************************************************************************)
(* The job controller's two observation streams (api/job-controller) over  *)
(* the registry: follow mirrors one job's output from an offset and ends   *)
(* with its status; rows mirrors the jobs one session sees. Both subscribe *)
(* to the registry's events, read, yield a frame and wait to be woken.     *)
(* A consumer pulls each frame when it likes.                              *)
(***************************************************************************)
EXTENDS JobRegistry

CONSTANTS
    Follower,   \* follow streams, one generation each
    Viewer      \* rows streams, one per session: an owner, or NoOwner

ASSUME StreamConstants == Viewer \subseteq Owner \cup {NoOwner}

VARIABLES
    follow,     \* each follow stream
    rows        \* each rows stream

vars == <<regVars, follow, rows>>

Closed == [pc |-> "closed", job |-> NoJob, cursor |-> 0, next |-> 0,
           dirty |-> FALSE, removed |-> FALSE]

\* pc of a follow stream: a frame is with the consumer (anchor, frames), the
\* loop waits for a wake or sleeps out the flush window, or it is over.
FollowOpen == {"anchor", "frames", "waiting", "sleeping"}
FollowOver == {"closed", "ended", "failed", "aborted"}

\* What a session's list shows of a job.
Row(j) == [job |-> j, status |-> job[j].status, progress |-> job[j].progress,
           total |-> IF IsTerminal(j) THEN job[j].ring.total ELSE 0]

Visible(v) == {Row(j) : j \in {k \in Job : job[k].stored /\ job[k].owner \in {v, NoOwner}}}

Init ==
    /\ RegInit
    /\ follow = [f \in Follower |-> Closed]
    /\ rows = [v \in Viewer |-> [pc |-> "frame", dirty |-> FALSE, seen |-> {}]]

-----------------------------------------------------------------------------
(* Events of a registry step, and what a subscribed stream does with one.  *)

LifecycleEvent(j) ==
    \/ job'[j].status # job[j].status
    \/ job'[j].progress # job[j].progress
    \/ job'[j].stored # job[j].stored

OutputEvent(j) == job'[j].ring.total # job[j].ring.total

\* Slip: a wake that finds nobody waiting is dropped.
WokenIfWaiting(s) ==
    IF s.pc = "waiting" THEN [s EXCEPT !.pc = "sleeping", !.dirty = FALSE] ELSE s

\* OutputWaiter.wake: releases the pending wait, or arms the next one.
Woken(s) == IF s.pc = "waiting" THEN [s EXCEPT !.pc = "sleeping", !.dirty = FALSE]
            ELSE [s EXCEPT !.dirty = TRUE]

\* OutputWaiter.wait: at once when a wake arrived since the last one.
Waiting(s) == IF s.dirty THEN [s EXCEPT !.pc = "sleeping", !.dirty = FALSE]
              ELSE [s EXCEPT !.pc = "waiting"]

Notify ==
    /\ follow' = [f \in Follower |->
          LET s == follow[f]
          IN  IF s.pc \in FollowOpen /\ (LifecycleEvent(s.job) \/ OutputEvent(s.job))
              THEN Woken([s EXCEPT !.removed = @ \/ ~job'[s.job].stored])
              ELSE s]
    /\ rows' = [v \in Viewer |->
          IF rows[v].pc # "aborted"
             /\ \E j \in Job : LifecycleEvent(j) /\ job'[j].owner \in {v, NoOwner}
          THEN Woken(rows[v]) ELSE rows[v]]

-----------------------------------------------------------------------------
(* observeJobOutput.                                                       *)

Follow(f, s) == follow' = [follow EXCEPT ![f] = s] /\ UNCHANGED <<regVars, rows>>

\* Subscribe, read the anchor, yield it; an unknown job fails the opening. A
\* reconnecting caller resumes from an offset an earlier generation reached.
OpenFollow(f, j) ==
    /\ follow[f].pc = "closed"
    /\ job[j].stored
    /\ \E from \in {Earliest(job[j].ring)} \cup 0 .. job[j].ring.total :
          Follow(f, [Closed EXCEPT !.pc = "anchor", !.job = j, !.cursor = from])

\* After a read: the terminal status once drained, or wait for a wake.
Drained(s) ==
    IF IsTerminal(s.job) /\ s.cursor >= job[s.job].ring.total
    THEN [s EXCEPT !.pc = "ended"] ELSE Waiting(s)

\* The head of the loop: a removal ends the stream, or read from the cursor.
FollowLoop(f) ==
    LET s    == follow[f]
        ring == job[s.job].ring
    IN  /\ s.pc \in {"anchor", "sleeping"}
        /\ Follow(f,
             IF s.removed THEN [s EXCEPT !.pc = "ended"]
             ELSE IF Unread(ring, s.cursor) > 0 \/ Lossy(ring, s.cursor)
             THEN [s EXCEPT !.pc = "frames", !.next = ring.total]
             ELSE Drained([s EXCEPT !.cursor = ring.total]))

\* The consumer took the output frames; the job is looked up again.
FramesTaken(f) ==
    LET s == [follow[f] EXCEPT !.cursor = follow[f].next, !.next = 0]
    IN  /\ follow[f].pc = "frames"
        /\ Follow(f, IF job[s.job].stored THEN Drained(s) ELSE [s EXCEPT !.pc = "failed"])

\* The carrier closes the generation.
AbortFollow(f) ==
    /\ follow[f].pc \in FollowOpen
    /\ Follow(f, [Closed EXCEPT !.pc = "aborted"])

-----------------------------------------------------------------------------
(* streamJobRows.                                                          *)

Rows(v, s) == rows' = [rows EXCEPT ![v] = s] /\ UNCHANGED <<regVars, follow>>

\* The consumer took the frame (it holds the set as read when yielded).
RowsTaken(v) ==
    /\ rows[v].pc = "frame"
    /\ Rows(v, Waiting(rows[v]))

\* The flush window is over: read the set and yield it.
RowsFrame(v) ==
    /\ rows[v].pc = "sleeping"
    /\ Rows(v, [rows[v] EXCEPT !.pc = "frame", !.seen = Visible(v)])

AbortRows(v) ==
    /\ rows[v].pc # "aborted"
    /\ Rows(v, [pc |-> "aborted", dirty |-> FALSE, seen |-> {}])

-----------------------------------------------------------------------------
(* The registry's steps a stream can see. Waits change no job, and the     *)
(* streams are gone before the registry they inject is.                    *)

RegistryStep ==
    \/ \E j \in Job : \/ Read(j) \/ Kill(j) \/ Remove(j) \/ ProducerStep(j)
                      \/ \E o \in Owner \cup {NoOwner} :
                            Start(j, o) /\ UNCHANGED <<resolvers, wait>>
    \/ \E o \in Owner : UnloadOwner(o) \/ OwnerCleanup(o) \/ OwnerDropped(o)

StreamStep ==
    \/ \E f \in Follower : (\E j \in Job : OpenFollow(f, j))
                           \/ FollowLoop(f) \/ FramesTaken(f) \/ AbortFollow(f)
    \/ \E v \in Viewer : RowsTaken(v) \/ RowsFrame(v) \/ AbortRows(v)

Next == (RegistryStep /\ Notify) \/ StreamStep

Spec == Init /\ [][Next]_vars

(***************************************************************************)
(* The registry's own reactions, compliant producers, timers of waits and  *)
(* streams, and consumers that go on pulling.                              *)
(***************************************************************************)
Fairness ==
    /\ \A j \in Job :
          /\ WF_vars(CancelledEnds(j) /\ Notify)
          /\ WF_vars((FinalDrain(j) \/ Settle(j)) /\ Notify)
    /\ \A o \in Owner : WF_vars((OwnerCleanup(o) \/ OwnerDropped(o)) /\ Notify)
    /\ \A f \in Follower : WF_vars(FollowLoop(f) \/ FramesTaken(f))
    /\ \A v \in Viewer : WF_vars(RowsTaken(v) \/ RowsFrame(v))

FairSpec == Spec /\ Fairness

-----------------------------------------------------------------------------
(* Properties.                                                             *)

(***************************************************************************)
(* A follow stream that ended of itself, its record still listed, has      *)
(* handed over every byte the ring took or said that some were evicted:    *)
(* nothing is appended behind its last read. Unless a teardown settled the *)
(* job by force, that is everything the producer wrote.                    *)
(***************************************************************************)
FollowIsComplete ==
    \A f \in Follower :
        LET s == follow[f]
        IN  s.pc = "ended" /\ ~s.removed =>
               /\ s.cursor = job[s.job].ring.total
               /\ job[s.job].cause # "teardown" => s.cursor = Written(s.job)

(***************************************************************************)
(* No wake is lost between a read and the wait that follows it, or during  *)
(* the flush window: once its job is settled a follow stream ends, and a   *)
(* roster that shows something else than the session's visible jobs        *)
(* catches up.                                                             *)
(***************************************************************************)
NoWakeLost ==
    /\ \A f \in Follower, j \in Job :
          (follow[f].pc \in FollowOpen /\ follow[f].job = j /\ IsTerminal(j))
              ~> follow[f].pc \in FollowOver
    /\ \A v \in Viewer :
          (rows[v].seen # Visible(v))
              ~> (rows[v].pc = "aborted" \/ rows[v].seen = Visible(v))
=============================================================================
