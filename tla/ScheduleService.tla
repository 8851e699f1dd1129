--------------------------- MODULE ScheduleService ---------------------------
(***************************************************************************)
(* Host-wide reminders (packages/schedule/schedule/src/index.ts and        *)
(* runtime.ts): the management calls, the one FIFO they share with         *)
(* deliveries, the runtime that keeps at most one timer and one drive, and *)
(* the two durable writes of a delivery - the session's inbox, then the    *)
(* task row - between which the process may be lost.                       *)
(*                                                                         *)
(* An action is the code between two awaits. A timer may fire at any time  *)
(* once armed: delays are clamped, and the wall clock they were computed   *)
(* from may be set back. Rows are visited in any order.                    *)
(***************************************************************************)
EXTENDS ScheduleTask

CONSTANTS
    Task,      \* ids; a random id is never given twice
    Saved,     \* those of reminders an earlier process left in the table
    Rules,     \* bound: their rules
    Asked,     \* bound: the rules calls ask for
    MaxCall,   \* bound: management calls
    MaxFault   \* bound: refused steps, failed writes, clock set back, crashes, and
               \* deliveries a closing storage does not let commit

ASSUME SavedAssumption == Saved \subseteq Task
ASSUME BoundAssumption ==
    /\ Rules \subseteq Kind /\ Asked \subseteq Kind
    /\ MaxCall \in Nat /\ MaxFault \in Nat

VARIABLES
    now,        \* the wall clock
    faults,     \* what has gone wrong so far
    refused,    \* deliveries a closed storage has not let commit
    calls,      \* management calls made
    given,      \* ids given out
    disk,       \* the task table as stored
    tasks,      \* the task table of the open domain
    inbox,      \* every reminder ever appended to its session's inbox
    phase,      \* the service's life
    admission,  \* agents.withoutInitiator still admits work
    storage,    \* the domain: open, closing (no new write), closed (no read)
    queue,      \* the FIFO behind the operation that runs
    work,       \* the operation that runs
    pc,         \* where it is suspended
    left,       \* rows it has not come to: due ones of a drive, a stop's
    scanned,    \* the rows as the drive's scan saw them
    group,      \* rows of the delivery under way that are not committed
    decision,   \* the clock when their occurrences were resolved
    acked,      \* the clock when their message was acknowledged
    writing,    \* the row being written
    failed,     \* rows the drive leaves out of its timer
    timer,      \* the timer is armed
    running,    \* the runtime's run
    requested   \* another drive was asked for

envVars     == <<now, faults, refused, calls, given>>
storeVars   == <<disk, tasks>>
driveVars   == <<left, scanned, group, decision, acked, failed>>
runtimeVars == <<timer, running, requested>>
vars == <<envVars, storeVars, inbox, phase, admission, storage, queue, work, pc, driveVars,
          writing, runtimeVars>>

Change == [kind : {"same"}, at : {0}, text : Text]
     \cup [kind : Asked \cap {"once"}, at : Time \ {0}, text : Text]
     \cup [kind : Asked \ {"once"}, at : {0}, text : Text]

(* What a call asks for. A caller names the row it saw; a creation carries the
   row it asks for. *)
Op == [kind : {"create", "update", "delete"}, task : Task, row : Row, change : Change]
 \cup [kind : {"stop"}, session : Session, removed : BOOLEAN, partial : BOOLEAN]
 \cup [kind : {"drive"}]

NoTable == [t \in Task |-> NoRow]
Idle == [kind |-> "idle"]
NoWrite == [task |-> "none", row |-> NoRow]

Message == [items   : SUBSET (Task \X Time),      \* which occurrences it tells of
            session : Session,
            state   : {"pending", "durable", "lost"}]

TypeOK ==
    /\ now \in Time /\ calls \in 0 .. MaxCall
    /\ faults \in 0 .. MaxFault /\ refused \in 0 .. MaxFault
    /\ given \subseteq Task
    /\ disk \in [Task -> Row] /\ tasks \in [Task -> Row] /\ scanned \in [Task -> Row]
    /\ inbox \in Seq(Message)
    /\ phase \in {"closed", "opening", "open", "closing"}
    /\ admission \in BOOLEAN
    /\ storage \in {"open", "closing", "closed"}
    /\ queue \in Seq(Op)
    /\ work \in Op \cup {Idle}
    /\ pc \in {"idle", "resolving", "flushing", "writing", "refused"}
    /\ left \subseteq Task /\ group \subseteq Task /\ failed \subseteq Task
    /\ decision \in Time /\ acked \in Time
    /\ writing \in [task : Task, row : Row] \cup {NoWrite}
    /\ timer \in BOOLEAN /\ requested \in BOOLEAN
    /\ running \in {"none", "driving", "checking", "retiring"}

(* An earlier process left some active rows in the table. *)
Init ==
    /\ now = 0 /\ faults = 0 /\ refused = 0 /\ calls = 0
    /\ \E rows \in [Saved -> {FreshRow(s, r) : s \in Session,
                             r \in {x \in Record : x.at = 1 /\ x.kind \in Rules}}] :
         disk = [t \in Task |-> IF t \in Saved THEN rows[t] ELSE NoRow]
    /\ given = Saved
    /\ tasks = NoTable /\ scanned = NoTable
    /\ inbox = <<>>
    /\ phase = "closed" /\ admission = TRUE /\ storage = "closed"
    /\ queue = <<>> /\ work = Idle /\ pc = "idle"
    /\ left = {} /\ group = {} /\ failed = {} /\ decision = 0 /\ acked = 0
    /\ writing = NoWrite
    /\ timer = FALSE /\ running = "none" /\ requested = FALSE

Faulty == faults + refused < MaxFault /\ faults' = faults + 1

-----------------------------------------------------------------------------
(* The runtime.                                                            *)

(* requestDrive. The run enters the FIFO at once; a run that is there already
   is asked to drive again. *)
RequestDrive ==
    IF phase = "closing" THEN UNCHANGED <<runtimeVars, queue>>
    ELSE /\ timer' = FALSE
         /\ CASE running # "none" -> requested' = TRUE /\ UNCHANGED <<running, queue>>
              [] running = "none" /\ admission ->
                   /\ requested' = FALSE /\ running' = "driving"
                   /\ queue' = Append(queue, [kind |-> "drive"])
              [] running = "none" /\ ~admission ->
                   requested' = FALSE /\ UNCHANGED <<running, queue>>

(* The run's loop, once the drive it waited for has left the FIFO. *)
CheckRequested ==
    /\ running = "checking"
    /\ IF requested /\ phase # "closing"
       THEN requested' = FALSE /\ running' = "driving"
            /\ queue' = Append(queue, [kind |-> "drive"])
       ELSE running' = "retiring" /\ UNCHANGED <<requested, queue>>
    /\ UNCHANGED <<envVars, storeVars, inbox, phase, admission, storage, work, pc, driveVars,
                   writing, timer>>

\* Slip: the run is forgotten without looking at what was asked of it meanwhile.
RetireBlindly ==
    /\ running = "retiring" /\ running' = "none"
    /\ UNCHANGED <<envVars, storeVars, inbox, phase, admission, storage, queue, work, pc,
                   driveVars, writing, timer, requested>>

(* The run is over and forgotten; a drive asked for in between starts another. *)
Retire ==
    /\ running = "retiring"
    /\ IF requested /\ phase # "closing"
       THEN /\ timer' = FALSE /\ requested' = FALSE
            /\ IF admission
               THEN running' = "driving" /\ queue' = Append(queue, [kind |-> "drive"])
               ELSE running' = "none" /\ UNCHANGED queue
       ELSE running' = "none" /\ UNCHANGED <<timer, requested, queue>>
    /\ UNCHANGED <<envVars, storeVars, inbox, phase, admission, storage, work, pc, driveVars,
                   writing>>

TimerFires ==
    /\ timer
    /\ RequestDrive
    /\ UNCHANGED <<envVars, storeVars, inbox, phase, admission, storage, work, pc, driveVars,
                   writing>>

-----------------------------------------------------------------------------
(* Writes of the task table: medium first, then memory. The whole document *)
(* is replaced, so a write also stores again what an earlier failed one    *)
(* left out; a write that fails may have replaced it already. A domain     *)
(* that is closing refuses it, and finishes the one under way.             *)

Write(t, row) ==
    /\ writing' = [task |-> t, row |-> row]
    /\ pc' = IF storage = "open" THEN "writing" ELSE "refused"

Written == [tasks EXCEPT ![writing.task] = writing.row]

Lands == pc = "writing" /\ tasks' = Written /\ disk' = Written /\ UNCHANGED faults

Fails == pc = "writing" /\ Faulty /\ UNCHANGED tasks /\ disk' \in {disk, Written}

IsRefused == pc = "refused" /\ UNCHANGED <<storeVars, faults>>

Readable == storage # "closed"

(* The operation is over. *)
Over == work' = Idle /\ pc' = "idle" /\ writing' = NoWrite

-----------------------------------------------------------------------------
(* Management calls.                                                       *)

\* Slip: a deletion does not wait for its place in the FIFO.
DeleteAtOnce(op) ==
    IF op.kind = "delete"
    THEN tasks' = [tasks EXCEPT ![op.task] = NoRow] /\ disk' = tasks' /\ UNCHANGED queue
    ELSE queue' = Append(queue, op) /\ UNCHANGED storeVars

Serialize(op) == queue' = Append(queue, op) /\ UNCHANGED storeVars

Called ==
    /\ phase \in {"opening", "open"} /\ calls < MaxCall
    /\ calls' = calls + 1
    /\ UNCHANGED <<now, faults, refused, inbox, phase, admission, storage, work, pc, driveVars,
                   writing, runtimeVars>>

(* create: the record is made from the clock of the call, not of its slot. *)
CallCreate(t) ==
    /\ t \notin given /\ given' = given \cup {t}
    /\ \E s \in Session, text \in Text, kind \in Asked, target \in Time :
         /\ kind # "once" => target = 0
         /\ \E r \in Accepted(kind, target, text, now) :
              Serialize([kind |-> "create", task |-> t, row |-> FreshRow(s, r),
                         change |-> [kind |-> "same", at |-> 0, text |-> text]])
    /\ Called

\* An edit is made against a row the caller has read.
CallUpdate(t) ==
    /\ phase = "open" /\ Active(tasks[t])
    /\ \E change \in Change :
         Serialize([kind |-> "update", task |-> t, row |-> tasks[t], change |-> change])
    /\ UNCHANGED given
    /\ Called

CallDelete(t) ==
    /\ phase = "open" /\ tasks[t] # NoRow
    /\ Serialize([kind |-> "delete", task |-> t, row |-> tasks[t],
                  change |-> [kind |-> "same", at |-> 0, text |-> tasks[t].record.text]])
    /\ UNCHANGED given
    /\ Called

(* workspace/session-stop: the session is being archived or deleted. *)
CallStop(s) ==
    /\ Serialize([kind |-> "stop", session |-> s, removed |-> FALSE, partial |-> FALSE])
    /\ UNCHANGED given
    /\ Called

-----------------------------------------------------------------------------
(* Their slots in the FIFO.                                                *)

(* The head of the FIFO begins once the domain is open. *)
Begin(kinds) ==
    /\ phase \in {"open", "closing"}
    /\ work = Idle /\ queue # <<>> /\ Head(queue).kind \in kinds

NotFound(op) ==
    \/ tasks[op.task] = NoRow
    \/ tasks[op.task].session # op.row.session

(* What one call writes in its slot, if anything: a conflict, a refusal, an
   edit that changes nothing and a missing row write nothing. *)
Outcome(op) ==
    CASE op.kind = "create" -> {op.row}
      [] op.kind = "delete" -> IF NotFound(op) THEN {} ELSE {NoRow}
      [] op.kind = "update" ->
           IF NotFound(op) \/ ~Active(tasks[op.task]) THEN {}
           ELSE {[tasks[op.task] EXCEPT !.record = r] :
                   r \in Edited(tasks[op.task].record, op.row.record, op.change, now)
                           \ {tasks[op.task].record}}

(* A call may also be cancelled, or refused because the session belongs to a
   delegated child or the table cannot be read any more, before it writes. *)
BeginCall ==
    /\ Begin({"create", "update", "delete"})
    /\ queue' = Tail(queue)
    /\ \/ \E row \in Outcome(Head(queue)) :
            Readable /\ work' = Head(queue) /\ Write(Head(queue).task, row)
       \/ UNCHANGED <<work, pc, writing>>
    /\ UNCHANGED <<envVars, storeVars, inbox, phase, admission, storage, driveVars,
                   runtimeVars>>

EndCall ==
    /\ work.kind \in {"create", "update", "delete"}
    /\ \/ Lands /\ RequestDrive
       \/ (Fails \/ IsRefused) /\ UNCHANGED <<runtimeVars, queue>>
    /\ Over
    /\ UNCHANGED <<now, refused, calls, given, inbox, phase, admission, storage, driveVars>>

\* Slip: a stop removes the recurring reminders only.
StopsRecurring(s) == {t \in Task : Active(tasks[t]) /\ Recurring(tasks[t]) /\ tasks[t].session = s}

StopTargets(s) == {t \in Task : Active(tasks[t]) /\ tasks[t].session = s}

(* stopSessionTasks: every active row of the session, one write each, whether
   or not an earlier one failed; a stop that removed nothing asks for no drive.
   A table that cannot be read fails it. *)
BeginStop ==
    /\ Begin({"stop"})
    /\ LET s == Head(queue).session
       IN  IF StopTargets(s) = {} \/ ~Readable
           THEN UNCHANGED <<work, left, pc, writing>>
           ELSE /\ work' = Head(queue)
                /\ \E t \in StopTargets(s) : left' = StopTargets(s) \ {t} /\ Write(t, NoRow)
    /\ queue' = Tail(queue)
    /\ UNCHANGED <<envVars, storeVars, inbox, phase, admission, storage, scanned, group,
                   decision, acked, failed, runtimeVars>>

StopWritten ==
    /\ work.kind = "stop"
    /\ Lands \/ Fails \/ IsRefused
    /\ IF left # {}
       THEN /\ \E t \in left : left' = left \ {t} /\ Write(t, NoRow)
            /\ work' = [work EXCEPT !.removed = @ \/ tasks' # tasks,
                                    !.partial = @ \/ tasks' = tasks]
            /\ UNCHANGED <<runtimeVars, queue>>
       ELSE /\ left' = {} /\ Over
            /\ IF work.removed \/ tasks' # tasks THEN RequestDrive
                                                ELSE UNCHANGED <<runtimeVars, queue>>
    /\ UNCHANGED <<now, refused, calls, given, inbox, phase, admission, storage, scanned, group,
                   decision, acked, failed>>

-----------------------------------------------------------------------------
(* A drive.                                                                *)

(* A recurring reminder takes the session's other due ones with it. *)
GroupOf(t, rest, rows) ==
    IF Recurring(rows[t])
    THEN {u \in rest : Recurring(rows[u]) /\ rows[u].session = rows[t].session}
    ELSE {t}

(* What the timer is for: active rows, less those the drive failed for. *)
Obligations == {t \in Task \ failed : Active(tasks[t])}

(* On to the next group of due rows, whose session is restored, or to the end
   of the drive, where the timer is armed; a service that stops takes up no
   further group and arms none. A table that cannot be read any more fails the
   run there. *)
DriveProceeds(rest, rows) ==
    /\ decision' = 0 /\ acked' = 0 /\ writing' = NoWrite
    /\ \/ /\ rest # {} /\ phase # "closing"
          /\ \E t \in rest : /\ group' = GroupOf(t, rest, rows)
                            /\ left' = rest \ group'
          /\ pc' = "resolving" /\ work' = [kind |-> "drive"] /\ scanned' = rows
          /\ UNCHANGED running
       \/ /\ rest = {} \/ phase = "closing"
          /\ group' = {} /\ left' = {} /\ scanned' = NoTable
          /\ pc' = "idle" /\ work' = Idle
          /\ running' = IF Readable \/ phase = "closing" THEN "checking" ELSE "retiring"
    /\ timer' = (work' = Idle /\ phase # "closing" /\ Readable /\ Obligations' # {})

BeginDrive ==
    /\ Begin({"drive"})
    /\ queue' = Tail(queue)
    /\ failed' = {}
    /\ UNCHANGED <<envVars, storeVars, inbox, phase, admission, storage, requested>>
    /\ IF Readable
       THEN DriveProceeds({t \in Task : Due(tasks[t], now)}, tasks)
       ELSE /\ running' = "retiring" /\ timer' = FALSE
            /\ UNCHANGED <<work, pc, left, scanned, group, decision, acked, writing>>

(* The catch: rows not committed and still due are left out of the timer. *)
GiveUp(pending) ==
    /\ failed' = failed \cup {t \in pending : scanned[t].record.at <= now}
    /\ DriveProceeds(left, scanned)

(* What is due still: restoring a session may span a clock set back. *)
Admitted == {t \in group : scanned[t].record.at <= now}

Items(rows) == {<<t, Occurrence(scanned[t].record, now)>> : t \in rows}

SessionOf(rows) == CHOOSE s \in Session : \E t \in rows : scanned[t].session = s

Driving(where) == work.kind = "drive" /\ pc = where

(* The session is there: followup appends the message to its inbox at once,
   and the flush begins.  Nothing is sent once the service stops, or when
   nothing is due any more. *)
Resolved ==
    /\ Driving("resolving")
    /\ UNCHANGED <<now, refused, calls, given, storeVars, phase, admission, storage, queue,
                   requested>>
    /\ \/ /\ phase = "closing" \/ Admitted = {}
          /\ UNCHANGED <<inbox, failed, faults>>
          /\ DriveProceeds(left, scanned)
       \/ /\ phase # "closing" /\ Admitted # {}
          /\ group' = Admitted /\ decision' = now
          /\ inbox' = Append(inbox, [items   |-> Items(Admitted),
                                     session |-> SessionOf(Admitted),
                                     state   |-> "pending"])
          /\ pc' = "flushing"
          /\ UNCHANGED <<work, left, scanned, acked, failed, faults, writing, timer, running>>
       \/ /\ phase # "closing" /\ Admitted # {} /\ Faulty     \* the inbox refuses it
          /\ GiveUp(Admitted)
          /\ UNCHANGED inbox

Unresolved ==
    /\ Driving("resolving") /\ Faulty
    /\ UNCHANGED <<now, refused, calls, given, storeVars, inbox, phase, admission, storage,
                   queue, requested>>
    /\ GiveUp(group)

Sent == Len(inbox)

(* One write per row, made from the row as scanned. *)
Commit(rows, when) ==
    \E t \in rows : Write(t, DeliveredRow(scanned[t], decision, when, Sent))

\* Slip: the answer of the flush is not looked at.
FlushedUnchecked ==
    /\ Driving("flushing")
    /\ \/ UNCHANGED faults /\ inbox' = [inbox EXCEPT ![Sent].state = "durable"]
       \/ Faulty /\ UNCHANGED inbox
    /\ acked' = now
    /\ Commit(group, now)
    /\ UNCHANGED <<now, refused, calls, given, storeVars, phase, admission, storage, queue,
                   work, left, scanned, group, decision, failed, runtimeVars>>

(* The flush acknowledged the message. *)
Flushed ==
    /\ Driving("flushing")
    /\ inbox' = [inbox EXCEPT ![Sent].state = "durable"]
    /\ acked' = now
    /\ Commit(group, now)
    /\ UNCHANGED <<envVars, storeVars, phase, admission, storage, queue, work, left, scanned,
                   group, decision, failed, runtimeVars>>

(* It failed, or no persistence answered: the message stays in the inbox. *)
NotFlushed ==
    /\ Driving("flushing") /\ Faulty
    /\ UNCHANGED <<now, refused, calls, given, storeVars, inbox, phase, admission, storage,
                   queue, requested>>
    /\ GiveUp(group)

Committed ==
    /\ Driving("writing")
    /\ UNCHANGED <<now, refused, calls, given, inbox, phase, admission, storage, queue,
                   requested>>
    /\ LET rest == group \ {writing.task}
       IN  \/ /\ Lands /\ rest # {}
              /\ group' = rest /\ Commit(rest, acked)
              /\ UNCHANGED <<work, left, scanned, decision, acked, failed, timer, running>>
           \/ /\ Lands /\ rest = {}
              /\ UNCHANGED failed
              /\ DriveProceeds(left, scanned)
           \/ Fails /\ GiveUp(group)

(* The storage began to close before the delivery did: its rows stay due. *)
CommitRefused ==
    /\ Driving("refused") /\ IsRefused
    /\ faults + refused < MaxFault /\ refused' = refused + 1
    /\ UNCHANGED <<now, calls, given, inbox, phase, admission, storage, queue, requested>>
    /\ GiveUp(group)

-----------------------------------------------------------------------------
(* The life of the service, and what surrounds it.                         *)

Boot ==
    /\ phase = "closed"
    /\ phase' = "opening" /\ admission' = TRUE /\ storage' = "open"
    /\ UNCHANGED <<envVars, storeVars, inbox, queue, work, pc, driveVars, writing, runtimeVars>>

(* The table is read and validated, and the first drive asked for. *)
Open ==
    /\ phase = "opening" /\ \A t \in Task : Reopens(disk[t])
    /\ phase' = "open" /\ tasks' = disk
    /\ RequestDrive
    /\ UNCHANGED <<envVars, disk, inbox, admission, storage, work, pc, driveVars, writing>>

(* The owner unloads while the table is opened: nothing starts, and the calls
   that wait for the table fail. *)
OpenAbandoned ==
    /\ phase = "opening"
    /\ phase' = "closed" /\ queue' = <<>> /\ storage' = "closed"
    /\ UNCHANGED <<envVars, storeVars, inbox, admission, work, pc, driveVars, writing,
                   runtimeVars>>

(* An ancestor unloads: the agents close their admission first. *)
CloseAdmission ==
    /\ phase \in {"open", "closing"} /\ admission
    /\ admission' = FALSE
    /\ UNCHANGED <<envVars, storeVars, inbox, phase, storage, queue, work, pc, driveVars,
                   writing, runtimeVars>>

(* Its fibers unload side by side: the storage facility may close the domain
   before the service's own cleanup does. It waits for the write under way. *)
StorageCloses ==
    /\ phase \in {"open", "closing"} /\ ~admission /\ storage = "open"
    /\ storage' = "closing"
    /\ UNCHANGED <<envVars, storeVars, inbox, phase, admission, queue, work, pc, driveVars,
                   writing, runtimeVars>>

StorageClosed ==
    /\ storage = "closing" /\ pc # "writing"
    /\ storage' = "closed"
    /\ UNCHANGED <<envVars, storeVars, inbox, phase, admission, queue, work, pc, driveVars,
                   writing, runtimeVars>>

(* The cleanup: no call and no drive is accepted any more. *)
Cleanup ==
    /\ phase = "open"
    /\ phase' = "closing" /\ timer' = FALSE
    /\ UNCHANGED <<envVars, storeVars, inbox, admission, storage, queue, work, pc, driveVars,
                   writing, running, requested>>

Drained == running = "none" /\ queue = <<>> /\ work = Idle

\* Slip: the cleanup waits for the calls, not for a delivery.
CloseNow ==
    /\ phase = "closing"
    /\ phase' = "closed" /\ requested' = FALSE /\ failed' = {} /\ group' = {} /\ left' = {}
    /\ running' = "none" /\ queue' = <<>> /\ Over /\ tasks' = NoTable /\ storage' = "closed"
    /\ UNCHANGED <<envVars, disk, inbox, admission, scanned, decision, acked, timer>>

(* The cleanup waits for the run and the FIFO before it closes the table, if it
   is not closing or closed already. *)
Close ==
    /\ phase = "closing" /\ Drained
    /\ phase' = "closed" /\ storage' = "closed" /\ tasks' = NoTable
    /\ requested' = FALSE /\ failed' = {}
    /\ UNCHANGED <<envVars, disk, inbox, admission, queue, work, pc, left, scanned, group,
                   decision, acked, writing, timer, running>>

(* The process is lost: what the sessions had not acknowledged may be too, and
   the write under way may have replaced the table. *)
Crash ==
    /\ phase # "closed" /\ Faulty
    /\ phase' = "closed" /\ storage' = "closed"
    /\ disk' \in {disk} \cup IF pc = "writing" THEN {Written} ELSE {}
    /\ \E kept \in SUBSET {i \in DOMAIN inbox : inbox[i].state = "pending"} :
         inbox' = [i \in DOMAIN inbox |->
                     IF inbox[i].state # "pending" THEN inbox[i]
                     ELSE [inbox[i] EXCEPT !.state = IF i \in kept THEN "durable" ELSE "lost"]]
    /\ queue' = <<>> /\ Over
    /\ tasks' = NoTable
    /\ left' = {} /\ scanned' = NoTable /\ group' = {} /\ failed' = {}
    /\ decision' = 0 /\ acked' = 0
    /\ timer' = FALSE /\ running' = "none" /\ requested' = FALSE
    /\ UNCHANGED <<now, refused, calls, given, admission>>

Tick ==
    /\ now < MaxTime /\ now' = now + 1
    /\ UNCHANGED <<faults, refused, calls, given, storeVars, inbox, phase, admission, storage,
                   queue, work, pc, driveVars, writing, runtimeVars>>

SetBack ==
    /\ now > 0 /\ now' = now - 1 /\ Faulty
    /\ UNCHANGED <<refused, calls, given, storeVars, inbox, phase, admission, storage, queue,
                   work, pc, driveVars, writing, runtimeVars>>

-----------------------------------------------------------------------------

Calls ==
    \/ \E t \in Task : CallCreate(t) \/ CallUpdate(t) \/ CallDelete(t)
    \/ \E s \in Session : CallStop(s)

Slot ==
    \/ BeginCall \/ EndCall
    \/ BeginStop \/ StopWritten
    \/ BeginDrive \/ Resolved \/ Unresolved \/ Flushed \/ NotFlushed \/ Committed
    \/ CommitRefused

Runtime == CheckRequested \/ Retire

Next ==
    \/ Calls \/ Slot \/ Runtime \/ TimerFires
    \/ Boot \/ Open \/ OpenAbandoned
    \/ CloseAdmission \/ StorageCloses \/ StorageClosed \/ Cleanup \/ Close
    \/ Crash \/ Tick \/ SetBack

Spec == Init /\ [][Next]_vars

-----------------------------------------------------------------------------
(* Properties.                                                             *)

(* A saved delivery is true, in the open table and in the stored one: its
   message is durable in the session's inbox and tells of that occurrence of
   that reminder, whatever was lost. A reminder that has ended was delivered
   for its last target, and the table can be opened again.
   (ScheduleRuntime.drive, appendDelivery, scheduleTaskSchema.) *)
Backed(t, d) ==
    /\ d.message \in DOMAIN inbox
    /\ inbox[d.message].state = "durable"
    /\ <<t, d.at>> \in inbox[d.message].items

ReceiptIsBacked ==
    \A t \in Task : \A row \in {tasks[t], disk[t]} :
      /\ \A i \in DOMAIN row.history : Backed(t, row.history[i])
      /\ row.status = "inactive" => Backed(t, row.last) /\ row.last.at = row.record.at
      /\ Reopens(row)

(* A reminder is repeated only for a reason: the messages that tell of one
   occurrence are at most one, one more for each step that failed, and one more
   for each delivery a closing storage kept from committing, as it may in an
   ordinary shutdown. No edit, stop, unload or restart by itself repeats it. *)
NoNeedlessRepeat ==
    \A t \in Task, at \in Time :
      Cardinality({i \in DOMAIN inbox : <<t, at>> \in inbox[i].items}) <= 1 + faults + refused

(* A delivery commits what it read: between its scan and its write, across
   every await, no edit, deletion or stop has touched the row, so none is
   undone by it. *)
DeliveryOverwritesNothing ==
    [][\A t \in Task :
         work.kind = "drive" /\ pc = "writing" /\ writing.task = t /\ tasks'[t] # tasks[t]
           => tasks[t] = scanned[t]]_vars

(* Whoever archives a session and is told its reminders stopped is right: none
   is armed, not even one whose creation was still waiting when the stop was
   asked for. *)
StopLeavesNothing ==
    [][work.kind = "stop" /\ work' = Idle /\ ~work.partial /\ tasks' # tasks
         => \A t \in Task : ~(Active(tasks'[t]) /\ tasks'[t].session = work.session)]_vars

(* A reminder is never forgotten: while the service runs and its agents admit
   work, every active reminder that no drive has given up on has a timer, or a
   drive that will arm one - whichever call, write, flush or restart came
   between. (requestDrive's loop and what follows it; arming the timer.) *)
NoReminderForgotten ==
    phase = "open" /\ admission /\ running = "none" /\ ~timer
      => \A t \in Task \ failed : ~Active(tasks[t])
=============================================================================
