# Formal models of the agent loop

This directory is a verification development for the agent harness in this
repository: TLA+ modules, TLC configurations and TLAPS proofs about the code
that creates, runs and disposes agents, stores what they did, runs their
background jobs and reminds them: `packages/core/agent-loop`, `packages/core/session`,
`packages/session/session-persistence-jsonl`, `packages/jobs` with the bash and
job tools, the streams of `packages/api/job-controller`, and
`packages/schedule/schedule`. Paths below are relative to the repository root.

## The system and its parts

The harness runs *agents* in a Node process. An agent owns a *session*, an
append-only log of events; its *driver* turns pending input into *turns*, a
turn into *steps*, a step into one model request (with retries) and the tool
calls the model asks for. Everything runs on one JavaScript thread; the
concurrency is that of awaits, of synchronous event observers, and of callers
that act while the driver waits.

| part | source | state | operations | hard behaviour |
|---|---|---|---|---|
| agent driver | `agent-loop/src/agent.ts` | phase (idle, maintenance, running with abort controller, turn, step, latched wake), how the turn would end | `send`, `cancel`, `runMaintenance`, `whenIdle`, the drive loop `kick`/`turn`/`step` | a call at every await; cancel with two causes; a wake behind an abort; failure in every phase |
| inbox | `agent-loop/src/inbox.ts` | two lists of pending messages, projected from the log | append, prepend, replace, remove, claim, clear | input claimed and then cancelled; edits while the driver waits |
| tool scheduling | `agent-loop/src/tool-calls.ts` | groups, pool of running calls, prepared results | classify, start, settle, commit in order, skip, drain | out-of-order bodies, reclassification, abort, failure of the scheduler |
| session log | `session/src/index.ts`, `types.ts` | events, attachment, publication flag | append and publish to observers | an append that reenters a publication is refused |
| crash repair | `session/src/repair.ts` | boundary cursor, unanswered requests | closers of an interrupted turn, results of unanswered calls | loss at any event, also during the repair |
| agent lifecycle | `agent-loop/src/index.ts` | per operation: handle, abort signal, publication, memoized teardown; owners; the factory's live agents and startup tasks | create, resume, configured start, setup, publish, teardown, factory disposal | owner unload, factory teardown and cancellation racing every await; handles that arrive late |
| session persistence | `packages/session/session-persistence*` | per-handle chain, live buffer, lease, generations | open, append, flush, close, migrate | batching, failed writes, torn tails, two processes |
| agent registry | `core/agent/src` | live entries, announcements | enter, announce, detach | detach during the announcement |
| job registry | `packages/jobs/jobs-local` | job records, output rings, waits, owner cleanups | start, read, kill, wait, remove, pump, settle, teardown of owner and service | settlement racing waits, kills and teardown; ring overflow; cancels that throw |
| job tools | `shell/tool-bash`, `jobs/tool-jobs` | the call, the ids the model asked to kill | foreground command, promotion, stop, `job_output`, `job_list`, `job_kill`, completion notice | the model must learn of every end exactly from a result or a notice |
| job streams | `api/job-controller` | cursor and wake flag of each generation | follow, rows | a wake between a read and a wait; removal under a frame |
| schedules | `schedule/schedule` | task rows, a FIFO, one timer, one drive | create, update, delete, archive stop, deliver, unload | two durable writes per delivery (inbox, then row); a crash between them; the wall clock set back |
| everything else | see `PROJECT.json` | | tools, providers, client, host | clients of the core, or data and I/O |

How they interact. Clients (commands, schedules, subagents, the remote API)
call `send`, `cancel` and the inbox. The driver claims from the inbox, appends
to the log, asks hooks (`preStep`, request listeners, `agent/turn-stopping`)
and hands tool calls to the scheduler. The log publishes each event to
synchronous observers while it refuses further appends. The lifecycle creates
a driver, publishes it in the registries and tears it down with a
disposed-cause cancel followed by `whenIdle`. A resumed session is first
repaired, and its turn number read from the `turnBoundary` projection. The bash
tool starts a command as a job of the agent and waits on it; a job outlives the
call when it is promoted, and the agent's scope when it unloads cancels and
drops the agent's jobs before the scope is gone. Settlements reach the model as
tool results or as notices sent through the inbox, and clients as stream frames.
A due reminder restores its session, enters the inbox as a message, and its row
is written only when the session's log is durable.

What makes each part correct:

- driver: cancellation silences a turn, but for what was decided before it; the
  recorded end of a turn is true; disposal opens no turn, save behind one that ended
  without seeing it; a latched wake is replayed; aborts converge;
- inbox: no message is delivered twice or resurrected;
- scheduling: results in model order, exclusive calls alone, nothing left
  running, every batch ends;
- log and repair: a grammatical history at every moment, every tool call
  answered when its step closes, every prefix repairable;
- driver and log together: the log always shows the turn and step the driver
  is in;
- persistence: the stored log is contiguous, has one writer, only grows at its
  end, and keeps what anyone was told is stored unless a repair of it is lost; every
  event of a live session is stored, being written or buffered;
- lifecycle: no operation leaves a claim, a handle or a registry entry behind;
  listeners see a live agent; disposal ends and nothing outlives it;
- jobs: an outcome is final, no end of a job the model knows goes unreported, no unread byte is trimmed
  by settling, no wait or stream sleeps through an event, teardown leaves
  nothing;
- schedules: a recorded delivery is in the inbox for good, no reminder is
  forgotten, none repeated but for a fault or a storage that closed first, a
  delivery undoes no edit, and an archived session keeps none armed.

`PROJECT.json` lists the hazards at their lines and the properties that watch
them.

## Modules

| module | models |
|---|---|
| `SessionLog` | the events of the loop, `openTurnClosers`, `ToolCallRecovery`, the `turnBoundary` projection, and what a well-formed log is |
| `ToolBatch` | what `executeToolCalls` promises a step, with the scheduling left out (abstract specification) |
| `AgentDriver` | the driver, its inbox, its log, its tool phase (the actions of `ToolBatch`), disposal, process loss and repair |
| `ToolScheduler` | `executeToolCalls` and `runGroup` in detail; implements `ToolBatch` |
| `DurableLog` | what the storage of one session promises: it grows at its end, and keeps what was acknowledged, but for the records of a lost repair (abstract specification) |
| `SessionHandle` | the write handles of one session, their claims and the kernel lock, the log file, process loss; implements `DurableLog` |
| `AgentLifecycle` | operations that create or resume agents, the registries they enter, their owners and the factory |
| `OutputRing` | the bounded output ring of a job |
| `JobRegistry` | jobs, waits, owner and service teardown: the operations the next two compose |
| `JobTools` | `JobRegistry` with the bash and job tools of an agent and the completion notices |
| `JobStreams` | `JobRegistry` with the follow and roster streams |
| `ScheduleTask` | a reminder's row: targets, occurrences, delivery history, edits |
| `ScheduleService` | the calls, the FIFO, the runtime and its timer, deliveries, archive stops, unload, restart, process loss |
| `MCSessionHandle` | symmetry for the handles' runs |
| `MCAgentDriver` | symmetry for the driver's runs, and `CrashSpec` |
| `SessionLogProofs` | lemmas: what appending events does to the cursors, the grammar and the answers of a log, what its prefixes are, and that repair balances them |
| `AgentDriverProofs` | the inductive invariants of the driver, type correctness of every action, its theorems |
| `ToolSchedulerProofs` | the scheduler's invariant, its theorems, the refinement of `ToolBatch` |
| `AgentLifecycleProofs` | the lifecycle's invariant and theorems |
| `JobToolsProofs` | the jobs' invariant and theorems |
| `JobStreamsProofs` | lemmas about the ring; the invariant and theorems of the jobs under their streams |
| `ScheduleProofs` | numbers, rules and histories; the schedules' invariant and theorems |
| `SessionHandleProofs` | the chain, buffer and close of a handle, the file and its writer, what was told; the refinement of `DurableLog` |

### AgentDriver and the code

One action is the code between two points at which other code may run: an
await, the publication of a log event, or a notification of agent observers.
`pc` names the point the driver is at; `At(p)` says the driver may resume
there, that is, no client call (`waking`, `replay`) is still on the stack above
it. Points in `Publishing` are those where only observers of a log event run:
their appends are refused, which is `MayAppend` for the inbox commands and
`CancelRefused` for `cancel`.

What one async function hands to the next is a point as well: `preStep` reads the
signal, and `turn` acts on its answer after an await (`rejected`, `entering`);
`step` returns or throws, and `turn` closes the step or repairs it after an await
(`returned`, `failing`). An abort in these gaps finds the code where it no longer
looks: only entering a step reads the signal again. Likewise a claimed message is
admitted by an append of its own (`AdmitMessage`), and an observer of one that
aborts does not keep out those behind it.

| variable | code |
|---|---|
| `phase` | the `Phase` union flattened: `kind`, the abort cause (`none` while the signal is live), turn, step, `wakeRequested` |
| `inbox`, `claimed` | the inbox projection; the batch a step has claimed and not yet admitted |
| `log` | the events appended, without the inbox splices |
| `turnEnds` | `turnEnds` of `turn()`: how the turn would end now |
| `attempts`, `batch`, `concluded` | locals of `step()` and of the tool phase |
| `waking`, `replay` | `send` between its insertion and `wakeDriver`; `kick` between going idle and replaying a latch |
| `teardown`, `crashes` | the lifecycle owner; process losses |

Hooks, prompt assembly, the provider's stream and tool bodies are outcomes
chosen nondeterministically: reject, throw, rewrite to nothing, retry, stop,
ask for tools, hit the token ceiling, fail. Message contents, usage, timings
and wording are abstracted away.

### ToolScheduler and ToolBatch

`ToolScheduler` keeps, per call, whether it is shared or exclusive (which may
change while it waits), its body's state, and the position of the loop:
filling the pool, awaiting a race, awaiting a commit, draining after a failure.
Its refinement mapping counts started and committed calls; `ImplementsToolBatch`
states the refinement. `AgentDriver` takes its tool phase from `ToolBatch`, so
what is checked of the driver holds of it with the scheduler underneath.

### SessionHandle and the code

One session, every handle anyone creates or opens for it, in one or more
backend instances (a mount of the backend; a process has at least one). One
action is the code between two awaits that wait for I/O or a timer. Awaits of
promises that are already settled are not points of their own, and what `close`
or `session/flush` does after awaiting an operation belongs to the step that
settles it: it subscribed before the next operation of the chain could start.

| variable | code |
|---|---|
| `handle[h].queue`, `stage` | `chain`: the operations waiting, and where the first one is in `persistContiguous` (lock, cut, tail, batch) |
| `handle[h].view`, `materialized`, `torn`, `tornAt`, `tail` | `StorageHandleState`; `cursor` is the length of `view` |
| `handle[h].buffered`, `timer`, `paused`, `draining` | the live buffer, its deadline, `drainPaused`, the single-flight drain |
| `handle[h].closing`, `await`, `failed` | how far `close` is, how many operations its `await this.chain` still waits for, a failed drain |
| `handle[h].lease`, `lock` | the handle's `lease` (kept after its release) and the kernel's lock |
| `handle[h].memory`, `life` | the session's events; setup, storing its suffix, live |
| `claim` | the tracker's `writers` entry in each instance; a pending session is a handle that is not materialized |
| `disk` | complete events, whether torn bytes follow, and the complete records a torn frame yields |
| `acked` | history: the longest log a caller was told is stored, less what a lost repair took back |

An event is its sequence number and the handle whose session appended it, so
that two writers' events differ. `flushAll` is `SessionFlush` for each handle.
What a torn write leaves depends on the encoding (`Encoding`): zstd frames
yield the complete records of the torn frame, raw lines are complete or not.
Recovered records count as stored for their readers, may be acknowledged, and are cut
from the file before they are written again: in between (`Mending`) the handle's
memory alone has them. If it is lost then, so are they, acknowledged or not, and
`acked` is cut to what is left (`Keep`); nothing else ever shortens it.

Four switches confine divergences, so that everything else is checked without
them: `LateProducer` (the session may publish while close frees the lock),
`SetupRace` (an event may be appended while the last setup suffix is stored),
`LateTimer` (an armed timer may fire once close drains no more) and `LeftBytes` (a
failed append may leave bytes of its batch, because rolling it back failed or
because only closing its file did).

Assumed: an id is minted once, so that no two creations of it are under way at
the same time (`registerCreated` says the same); releasing the lock does not fail.

### AgentLifecycle and the code

One operation is one call of `createAgent` or `resumeWith`, or one configured
start. `pc` names the await it is at:

| `pc` | code |
|---|---|
| `awaiting` | `waitForDrainingConfiguredIdentity` |
| `opening` | `raceAbortCall` around `createStoredSession` or `persistence.open` |
| `reading`, `repairing` | the cold read and the append of closers in `resumeWith` |
| `setup`, `storing`, `announcing` | the maintenance job of `initializeAgent`: the caller's setup, `appendUnstoredSuffix`, `agents.announce` |
| `rollback`, `closing` | the failed operation awaits `dispose`, or closes a handle `prepare` never took |
| `published`, `failed` | settled |

| variable | code |
|---|---|
| `op[o].backend` | the answer of the backend to the race: `orphaned` once nobody waits for it, `release` when it is to be closed by `releaseAbandoned` |
| `op[o].handle`, `claim` | the write handle and the tracker's claim on the session (see `SessionHandle`) |
| `op[o].aborted` | `abort.signal` of `prepare`, or the caller's signal before it |
| `op[o].down` | how far the memoized `teardown` is |
| `op[o].created` | the `agent/created` dispatch: not begun, running, over |
| `agents`, `sessions` | the two registries |
| `factory.joined` | what `FactoryOwnership.dispose` awaits |

`Publish` is the synchronous part of `publish`: it enters the session, then the
agent, and a collision or a veto leaves it where it stands for the teardown to
undo. A direct call of the public `create` by a configured start is tracked as
startup work like the code does; other callers of `create` are not tracked by
the factory and are not operations of the model.

### The job modules and the code

A job's record is `TrackedJob`. `source` counts what the producer's process wrote
and the pump has not copied yet; `done` splits the end of a job into the steps
the code takes: the producer's promise, the pump's final drain, `settle`.
`cancelled` remembers that the producer's `cancel` was called and returned.
`resolvers` is `waitResolvers`; `wait` is how each caller's last wait ended.
`owner[o].cleanup` is the entry in `ownerCleanups`.

Both compositions take the registry's operations as they are and add the
synchronous part of what observes them to the same step: `Listener` (the
`settled` handler of tool-jobs) in `JobTools`, `Notify` (the `wake` of subscribed
streams) in `JobStreams`. `JobTools` keeps three histories of what the model was
told: `known` (ids), `heard` (ends) and `lost`: an abort that arrives after the
body's last wait replaces the result the body returns. In `JobStreams` the consumer
takes each frame when it likes; a generation holds its `removed` flag and
cursor across that. Its registry stays: the unload of the service, which announces its
removals to streams of other contexts too (`jobs-local/src/index.ts:648`), is in
`JobTools` only.

### ScheduleService and the code

Every operation of the service, a drive included, has a slot in one FIFO
(`serialize`). An action is the code between two awaits of the operation at its
head; `work` and `pc` say which operation and await it is:

| `pc` | code |
|---|---|
| `resolving` | `resolveAgent` of the session the next group of due rows belongs to |
| `flushing` | `sessions.flush` after `followup` |
| `writing` | a `put` or `delete` of the row in `writing` |

| variable | code |
|---|---|
| `disk`, `tasks` | the stored document and the open table; a failed write may have renamed the file already |
| `queue` | `chain` behind its head |
| `left`, `scanned`, `group`, `decision`, `acked`, `failed` | locals of `drive`: rows not visited, rows as read by the scan, `admitted` less `committed`, `now`, `deliveredAt`, `failed` (kept until the next drive) |
| `timer`, `running`, `requested` | fields of `ScheduleRuntime`; `running` tells the drive, the loop's look at `requested` and the `finally` apart |
| `phase` | constructed, `initialized` settled, `stopping`, closed |
| `admission` | whether the agents' registry still takes initiators (`closeInitiators`) |
| `storage` | the domain of the storage facility: open, closing (it refuses writes and finishes the one under way), closed |
| `inbox` | history: each message, the occurrences it tells of, whether its session has it durably |

`after` and `at` reminders are the rule `once`; `daily`, `weekly` and `cron` are
`wall`, a set of instants (`Calendar`) on distinct local dates. Sessions, agents
and their persistence are outcomes: they restore or refuse, accept or refuse the
message, flush or not. What was not acknowledged when the process is lost may
be durable or gone. A row that failed is left out of the timer until another
drive, as the package documents; the model does not call it forgotten
(`failed` in `NoReminderForgotten`).

## Runs

| run | question | bounds |
|---|---|---|
| `driver_core` | cancellation, disposal, maintenance and inbox edits in every interleaving with the driver | 2 messages, 1 tool call, tools in the first step of a turn, 2 attempts |
| `driver_crash` | the log under one process loss at every point, the repair included (`CrashSpec`: clients send waking input and cancel) | 2 messages, 2 tool calls, 1 loss |
| `driver_live` | aborts converge and teardown completes (`DriverComesToRest`); latches replay and wakes open turns (`WakesAreServed`) | 2 messages, 1 tool call |
| `tool_scheduler` | order, exclusion, draining, termination, refinement of `ToolBatch` | 4 calls, pool of 2 |
| `handle_owners` | claims, the kernel lock, drains, flushes, closes, repair of a torn log: two instances lost, the second perhaps in the middle of a repair, and one I/O operation failing at any point | 2 handles, 2 instances, 3 events, both encodings, all switches off |
| `handle_live` | failed batches are retained in order and retried; routed events are stored, closes complete (`HandleSettles`) | 1 handle, 3 events, 2 failures |
| `lifecycle` | nothing left behind by a failed, cancelled, unloaded or disposed operation; disposal ends | 2 operations on one id, 1 owner |
| `job_tools` | no end of a known job goes unreported; calls return, teardown ends and leaves nothing | 1 job, 2 calls at a time, a cancel that may throw |
| `job_streams` | a follow stream is complete, an outcome final, no wake lost | 1 job of 2 bytes, live cap 2, settled cap 1, a follower, a roster |
| `schedule` | deliveries against calls, archive stops, unload with a storage that may close first, restart and one fault: receipts are true, nothing is forgotten, repeated or undone | 2 reminders (a `once` or `wall` one in the table, an `every` one created), 1 session, 3 instants, 2 calls, 1 fault or refused commit |
| `teardown_in_publication` | divergence 1 below | 2 messages |
| `handle_two_writers` | divergence 2 below | 2 handles, 3 events, 1 failure |

Why the bounds are enough. Messages are only ever compared: two distinguish
order, duplication and loss, and let a turn follow a turn. Two tool calls give
a batch with one call answered, one started, one not. A second attempt is the
first that could admit input again. `MaxStep` bounds only how often the model
asks for tools: a turn still opens further steps for next-step input. Four calls and a pool
of two give two groups, a barrier between them, a full pool and a waiting
call. `CrashSpec` leaves the inbox edits, maintenance and disposal to the
other runs; the theorems about the log hold with all of them.

Two handles give an owner and a rival or successor, and a rival whose open
was refused may try again; three events give a log that exists and a batch of two that can tear in the
middle, or an event that arrives while a batch is written. One loss leaves a torn
tail to a successor, a second one cuts its repair short; two failures fail a batch
and its retry.

Two operations on one id give a predecessor and a successor, a rival for the
claim, and a collision in the registries; `Init` starts with the session stored
or not, with a backend or without. A job id is never reused, so one job lives
through everything its record can; what two jobs share is the owner's limit and
teardown, which treat each alike (the run with two jobs and one caller at a time
also passes, and is not kept for its length). Two callers give a wait with another call's read,
kill or removal beside it. Two bytes over a settled cap of one make the settled ring trim with and
without unread bytes; while the job runs the ring takes both, and what a full
live ring drops is left to the theorems, which hold for every cap.

Two reminders make a batch of which one row is committed and the other not; two
calls put a creation before an archive stop, or an edit before a deletion, behind
a delivery. Three instants let an interval skip an occurrence and a rule run out;
a history of one record is pruned by its second. One fault reaches each
single failure, and a commit the closing storage refuses takes its place; what two of
them add to each other is not checked. Calls ask for
the `every` rule only (`Asked`) and with one text: edits of a `once` or `wall` row
change its rule, and an edit that keeps the rule changes nothing. With
`Asked` wider the run passes too (4 million states) and is not kept for its length.

Deadlock is not checked in any run: an agent whose messages are used up, a
detached agent, a finished batch, a closed handle and a disposed factory or
registry do stop.

Fairness. `FairSpec` assumes weak fairness of the driver as a whole, of a
maintenance job, of teardown and of repair: everything they await is handed the
abort signal and settles (`Fairness` in `AgentDriver`). A failure is never part
of a fair action that could do otherwise, so no liveness rests on one. Nothing is
assumed of clients: no message need arrive and no cancel need happen. `TeardownCompletes`
(in `DriverComesToRest`) excludes clients that start maintenance jobs for ever.
`ToolScheduler` assumes that bodies settle and that the scheduler runs on;
`SessionHandle` that I/O settles, one way or the other, and that an armed timer
fires. Neither sessions nor callers of `close` and `flush` need act.
`AgentLifecycle` assumes that the backend answers and that setup and creation
listeners settle: the code awaits them without a deadline. The job modules
assume that the registry's own reactions run, that deadlines fire, that a body
whose wait is over goes on, that consumers of a stream go on pulling, and that a
producer whose cancel was called and returned settles (the contract of
`JobHooks`). A command nobody cancels may run for ever, and a listener, caller or
owner need never act. `ScheduleService` states no fairness: what liveness would say, that
a due reminder is taken up while the service runs, follows from
`NoReminderForgotten` when timers fire and the head of the FIFO settles.

## Divergences from what the repository says

1. *Disposal from a log observer detaches a running driver*
   (`teardown_in_publication`). The inbox clear is refused before the abort
   happens, and the failure is only collected. The package README says
   teardown stops and drains the driver.
2. *Two writers* (`handle_two_writers`). An event routed while a drain is
   failing has armed the timer already; `drainPaused` only keeps it from being
   armed again, although `storage.ts` says the timer stays quiet. That timer
   survives a close whose drain failed, fires after the lock is free, and the
   drain takes the released `lease` for a held one: it writes beside the
   session's next owner and sequence numbers are stored twice.

Met while modelling, without a run of their own:

- A removed job fails its follow stream: while output frames are with the consumer
  the job may be removed; the generator looks it up again without having looked at
  `removed` (`observe.ts:83`), and the stream fails (`failed` in `JobStreams`)
  instead of closing with the job's last status as `observe.ts:28` says.
- The archive admission of schedules lists the rows outside the FIFO, so a session
  may be found idle while the creation of a reminder waits; only an archive
  that stops activity is ordered behind it.
- Disposal after a user cancel: the first cause of an abort stays, so a waking
  send during teardown is latched and replayed, and teardown waits for a new
  driver, while `agent.ts:402` says that disposal never latches.
- An abort while the answer of `preStep` is on its way to `turn` (`agent.ts:502-513`)
  is not seen when nothing is entered: the turn ends as blocked, or as its last step
  left it, while the package README says of `turn/end` that cancellation records
  its cause there (`agent-loop/README.md:126`). When it was a disposal, and the turn
  ends of itself, input that arrived meanwhile is given another turn, which
  its first look at the signal ends (`Decided`, `EndedUnseen`).
- A prompt queued behind an abort stays parked on an idle agent when the replayed
  turn claims an earlier prompt and its first step is rejected or rewritten to
  nothing (`EnterNothing`, `Block`), while `runtime-types.ts` says it
  runs.
- An event appended during the last suffix append before publication is stored by
  nobody, and what follows it refused as a gap: with `SetupRace` on,
  `EveryEventHeld` fails.
- Events published while close awaits the release of the lock are still routed
  to the handle and no longer drained: with `LateProducer` on, `LogIsDurable`
  fails.
- A process lost between the cut of a torn tail (`storage.ts:329`) and its rewrite
  (`storage.ts:334`) loses the complete records recovered from it, although a `flush`
  of this handle, or of an earlier one that had loaded them, may have resolved
  (`storage.ts:207`):
  the persistence README says of `flush` that it "promises it survives a crash", and
  of a torn tail that "it belongs to an append that never resolved"
  (`session-persistence/README.md:49`, `:88`). In the bounds of `handle_owners`
  the plain `[][IsPrefix(acked, acked')]_vars` fails; `LogIsDurable` names
  exactly this loss as the abstract step `Lapse`.
- An append whose rollback fails, or whose file cannot be closed after its bytes were
  written and synced, is reported as failed while its bytes stay, and its retry
  numbers them again (`session-persistence-jsonl/src/index.ts:1407`): with
  `LeftBytes` on, `StoredContiguous` fails.
- An ordinary shutdown can repeat a reminder: sibling fibers unload side by side, so
  the storage may refuse the write of a delivery whose message is in the
  inbox already. `schedule/README.md:154` says so; it is no fault in the
  model, and `NoNeedlessRepeat` allows one repeat for each such refusal
  (`CommitRefused`).
- A settlement that released a `job_output` wait, or a `job_kill`, counts as
  delivered although an abort that follows replaces that result, so the model is
  never told (`lost` in `JobTools`); in the same window a promoted or background
  command keeps running under an id the model never saw.
- The `stop` of a foreground command waits a second time; a command that outlasts
  that too stays listed under an id the model was not given.
- A kill during a teardown overwrites the recorded cause, so the settlement is
  announced as an ordinary one; a job that the owner's and the registry's teardown
  both hold is announced as removed twice.

## What is proved

For every value of the constants (any set of messages, tasks, sessions or
operations, any number of calls, steps, attempts, faults and crashes), under the
assumptions the modules name. TLAPS checks every leaf; the runs show the same
properties on small instances.

| component | theorems | what the invariant adds |
|---|---|---|
| `AgentDriver` | `TypeCorrect`, `PositionIsRecorded`, `LogIsWellFormed`, `LogAgrees`, `AbortsSilence`, `TurnEndsAreHonest`, `DisposalIsLast`, `CallsAreAnswered`, `CrashesAreRepaired`, `InputIsDeliveredOnce` | the log's last event fixes where the driver can be; what a turn's end and a disposal rest on; how far the open step is answered; where each message is |
| `ToolScheduler` | `SchedulerTypes`, `BodiesStayInGroup`, `EventsInModelOrder`, `SchedulerImplementsBatch` | the pool against its group, the events against two counters |
| `AgentLifecycle` | `LifecycleTypes`, `RegisteredWhileOpen`, `ListenersAreSafe`, `NothingIsLeft`, `OneWriterPerSession` | which registry entries and claim each await implies |
| `JobTools` | `ToolsTypes`, `TeardownIsComplete`, `CompletionsAreTold` | who still accounts for a job that is listed, or ended |
| `JobStreams` | `FollowHandsOverAll`, `SettlementHolds` | where the read cursor stands in the ring, what a settled job can still take |
| `SessionHandle` | `HandleTypes`, `EventsAreHeld`, `LogIsContiguous`, `WriterIsExclusive`, `HandleImplementsLog` | what the holder of the lock knows of the file, whether or not it is damaged |
| `ScheduleService` | `ScheduleTypes`, `ReceiptsAreTrue`, `RemindersStay`, `RepeatsHaveReason`, `DeliveriesReadWhatTheyWrite`, `StopsAreComplete` | what holds between the two writes of a delivery |

Each proof has the same outline: none of the properties is inductive, so an
invariant that implies it is shown to hold of the first states and to survive
every action; the theorems follow from it.

**The driver** (`AgentDriverProofs`, `SessionLogProofs`).
That `turn/end` may follow the last event, for instance, depends on where the
driver is. The invariant is `TypeOK /\ LogFits(log) /\ Position /\ Control`:
`LogFits` relates the grammar between neighbours (`WellFormed`), the open turn,
open step and last turn as a scan finds them (`CursorFits`) and the requests
awaiting results (`PendingFits`) to the last event; without the last, a recovery
result appended by repair could name another step. `Position` says which event
the log ends with at each `pc`; `Control` ties `pc` to the phase and bounds the
retries. `SessionLogProofs` proves once what appending one event preserves, so
each action needs only its `Position`. `DriverFollowsLog` is no property of a
run: the runs check the parts of it that say something of the code.

The properties of the driver's steps need two more facts that every action keeps.
`CutOffsCount`: every model answer in the log is of a turn the log has opened, and
while the open turn has an answer that was cut off at the output ceiling, its
`turnEnds` is `max-tokens` or its step is failing, so that no later step can make
the turn end as completed (`TurnEndsAreHonest`). `CauseCounts`: an activity that
that disposal aborted has no wake latched, so that no replay of a wake opens
another turn, and when it has just ended its turn no input is pending for the loop in
`kick`, save that the turn ended without seeing the disposal (`EndedUnseen`,
`DisposalIsLast`). A turn aborted when it is recorded as ended says so, unless its end
was decided before turn() could see the abort (`Decided`): so both speak of every abort, those
in the gap after `preStep` included. `AbortsSilence` is shown beside the first: the
events of an aborted turn are its ends, the results that close its calls, what a
stream had delivered, and the messages of an attempt that had begun. Its proof says
of each action which events it appends (`Adds`).

`CallsAreAnswered` rests on `AnswersCount`. Its part about the log alone,
`AnswersFit`, says that events come in the order of their turns and steps, that
an open step that still awaits the model has no answer yet and no step has two
that ask for tools, and that each answer that asks for calls has the results of
its calls 1 to some d in order and none beyond, where d is all of them unless its
step is still the open one. `ToolsFollowLog` adds that while tools run, d is
what the batch has committed. So a step that closes has d complete: the batch
is over, or repair's next unanswered call is d + 1 until there is none. The calls an
aborted batch never started are recorded by one step as pairs of a call and its
result; all pairs are appended at once (`AnsweredConcat`).

`CrashesAreRepaired` speaks of a log cut off inside a step. Grammar, cursors and
answers of a log hold of every prefix of it (`PrefixFits`, `PrefixAnswers`),
by induction over its length: the library's induction theorems take an operator,
which the provers cannot instantiate, so `Induction` states it of a set of numbers
and follows from the well-foundedness of `<`. The closers of such a log are exactly
the recovery results of the calls d + 1 to the last in order, then the end of the
step and of the turn, where each is open (`ClosersBalance`).

`InputIsDeliveredOnce` rests on `InputCounts`: the two queues, the claimed batch
and the log hold each message at most once, no two of the four share one, and
whatever any of them holds was used. That is the count of the property taken apart
by place, which is what the steps speak of: a claim moves messages from the queues
to the batch, an admission from the batch to the log, a commit or a client brings
one that was never used.

**The scheduler** (`ToolSchedulerProofs`). `Scheduling` says where the group
stands in the batch, that nothing of a group is left when it has ended, that the
pool holds calls of the group only and, while one is prepared, has a place kept
for it, and that a started call is in preparation, in flight or has its outcome
as long as nothing failed. `Recorded` says that the events are exactly those of
the calls started and committed, one each and in order: `ResultsInModelOrder`
speaks of gaps in a sequence and cannot be carried from step to step without
knowing which calls the sequence stands for. Every step is then a step of
`ToolBatch` or a stutter under the refinement mapping that forgets the pool.

**The lifecycle** (`AgentLifecycleProofs`). `Shape` says which combinations of
position, teardown, backend answer, handle and creation one operation can be in;
`Entries` that both registries hold an operation from its announcement to the
end of its teardown; `Claims` that the backend's claim is held by the operation
whose handle is open; `Disposals` that a disposal has joined whatever it found
under way. An operation's step is proved against these once (`Keeps`, for steps
that leave the registries alone), then per action.

**The jobs** (`JobToolsProofs`). `Owners` and `Service` say that a listed job has
an owner with a cleanup still to run, or is among the jobs the running cleanup
collected: `TeardownLeavesNothing` fails only if a job can slip in between the
two. `Waits` and `Calls` tie the resolvers of a job to the waits of tool calls,
`Reports` says that an end the model was not told of is carried by a call whose
wait it ended. `CompletionsAreTold` speaks of jobs whose id the model was given: the
end of each reaches it as a result, a notice or the answer of its own kill, except
when a teardown ends the job or an abort replaces the result that carried the end
(`lost`).

**The job streams** (`JobStreamsProofs`). The hard part is the ring. The cursor of
the model's reads stands at the start of a retained chunk, before everything
retained, or at the end (`AtBoundary`), so a trim to a cap that covers the unread
bytes, which drops whole chunks as long as the rest is over the cap, never drops
or cuts one of them (`TrimKeeps`); a cursor inside a chunk would make it false.
`RecordOK` says this of each record, and that a job that settled through its
producer has been drained before, so that its ring takes nothing more; a job that
a teardown settled by force is excepted, and `FollowIsComplete` says so.
`StreamOK` says that what a frame under way will set the cursor to lies within
what was written. A stream that ends of itself has read up to the end, and the
end stays.

**The schedules** (`ScheduleProofs`). The invariant has four layers, each proved
from those before it.

1. `Slots` and `Closed`: what the operation in the FIFO's slot holds. A drive's
   rows are still as its scan saw them, since no call runs beside it; this alone
   gives `DeliveryOverwritesNothing`.
2. `Drives`, `Reminded`, `Stops`: there is one drive, in the FIFO or in its
   slot, while the run waits for it; unless a timer is armed or a drive is still
   to come, no active row is left; a stop has its remaining rows in `left`.
3. `Receipts`: a row, also the one being written, rests on durable messages, and
   the message of the delivery under way is newer than all its rows record.
4. `Births` and `Repeats`: an id that is not created yet has no row and was never
   told; an occurrence that can still be told (its row, or the row being written,
   is active and due no later) was told at most once for each fault and refused
   commit, and one that cannot at most once more.

Between, `Effect` says in seven clauses what any step may do to rows, messages,
delivery, write, FIFO and clock. It is proved once per action; layers 3 and 4 need
only the clauses. `ScheduleProofs` also proves what the rules compute for any
calendar: an accepted target and the next target lie ahead, the occurrence
delivered lies between the target and the decision (`AcceptedAhead`,
`NextAhead`, `OccurrenceDue`), and the pruned history keeps order and newest
entry (`HistoryFollows`). `InOrder` is written with a `CHOOSE` over position
sequences instead of a recursive selection, about which nothing can be proved
here.

**The session handles** (`SessionHandleProofs`). The invariant has three parts.

1. `Local` holds of every handle by itself, and of a single handle's step without
   looking at any other. Its chain holds the suffix of a setup, or a flush, or
   the one drain, or a flush before the drain (`Chain`); what the log it loaded,
   the operation at the head and the buffer hold are pieces of its session's
   events that follow each other (`Pieces`, `Held`). `EveryEventHeld` is in
   here. A settlement runs everything that waits for it in one step: its effect
   is worked out once for each kind of operation (`SettledTo`), the actions cite
   that.
2. `Exclusive` relates the file to the holder of the lock. The complete records
   are numbered from one without a gap (`File`), at most one handle holds the
   lock (its `lease` says so, and `lock` agrees), and that handle's `view` is the
   file's log, or the log and the tail it is about to write again (`Knows`,
   `Placed`). Who does not hold the lock has nothing under way that could write
   (`Quiet`). So the one step that writes continues the log, which is
   `StoredContiguous` and `WriterKnowsLog`.
3. `Promised` is about what was told: the acknowledged events are the first of the
   whole log, that is the stored one and the records its writer still has to write
   again (`Whole`). `Mended` says that a handle that owes such records has not
   stored all its session's events, so that its close cannot tell anyone they are
   stored. Every step then keeps both and is one of `DurableLog` (`Follows`): it
   lands a batch, takes back what nobody was told of, cuts or rewrites recovered
   records, loses them, tells more of the log, or stutters.

Part 1 assumes nothing but `~SetupRace` for `EveryEventHeld`; the others assume
`~LateTimer`, `~LateProducer` and `~LeftBytes`, and the refinement all four. These are
no restrictions of the environment: they switch off what this code really does
and the section above describes. `LateTimer` and `LeftBytes` break `StoredContiguous`
(`handle_two_writers` shows the first), `LateProducer` breaks `LogIsDurable` and
`SetupRace` breaks `EveryEventHeld`. So the theorems are conditional: in a run in
which none of the four happens, no interleaving, failed write, contention for the lock,
torn tail or loss of the process breaks what `DurableLog` states, and what that
states excepts the records of a lost repair.

Every invariant and every property of steps that a run checks is proved, the two
violations aside. Only model-checked is what is temporal beyond that:
`DriverComesToRest`, `WakesAreServed`, `BatchEnds`, `HandleSettles`, `TeardownEnds`,
`NoWakeLost` and `LifecycleSettles`. They rest on fairness, which is outside the
prover's reach.

## Not modelled

- an append of the driver that fails for another reason than reentrance (an
  event that does not validate): a programming error in this code;
- of persistence: readers, format migration, listing and `stat`, the read worker,
  the lock on Windows, a lock release that fails, loss of power (a
  write that was synced stays);
- what the driver's log and the stored log say of each other;
- of the lifecycle: callers of the public `create` other than configured starts,
  nested ownership (a subagent's owner is one of the `Owner` fibers), failures
  collected by a teardown;
- of jobs: the unload of the service under open streams, the text of output and
  results, the limits of what one read returns,
  multi-byte characters at a cut, a starter that throws, controllers that attach
  and detach by themselves, the wake budget, a reload of tool-jobs alone;
- of schedules: calendar and cron arithmetic, the reading of legacy session events,
  history pages, the archive admission, the restored agent itself (the driver's
  modules have it), a message that a later flush makes durable;
- everything `PROJECT.json` lists as `not_modelled`, with its reason. Most of the
  repository is data (schemas, prompts, presentation, format conversion), user
  interface, or adapters to external services, whose behaviour the modules take as
  nondeterministic outcomes.

## Plan

In order:

1. done: `SessionLog`, `ToolBatch`, `AgentDriver`, `ToolScheduler`, the
   inductive invariant and its theorems;
2. done: `DurableLog`, `SessionHandle`;
3. done: `AgentLifecycle`;
4. done: `OutputRing`, `JobRegistry`, `JobTools`, `JobStreams`;
5. done: `ScheduleTask`, `ScheduleService`;
6. done: proofs of the driver, the scheduler, the lifecycle, the jobs and their
   streams, the schedules and the session handles: every invariant and every
   property of steps that a run checks;
7. to do: composition: what the driver's log holds against what is stored; subagents as
   clients of the lifecycle.
