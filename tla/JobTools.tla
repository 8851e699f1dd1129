------------------------------ MODULE JobTools ------------------------------
(***************************************************************************)
(* The tools through which a model starts, waits on, reads and kills jobs  *)
(* (tool-bash, tool-jobs), and the notice that tells it of a completion.   *)
(* A caller of wait is one tool call of an agent. What a call returns      *)
(* reaches the model unless the call is aborted first: the tool runtime    *)
(* never abandons a running body but replaces the result it returns.       *)
(*                                                                         *)
(* A reload of tool-jobs alone is left out, and so is the wake budget: a   *)
(* notice over budget is queued in the inbox all the same.                 *)
(***************************************************************************)
EXTENDS JobRegistry

VARIABLES
    call,           \* the tool call a waiter serves
    known,          \* jobs whose id some result told the model
    killedByModel,  \* live jobs the model asked to kill
    heard,          \* jobs whose end, or own kill, some result told the model
    lost,           \* ... or would have, had an abort not replaced it
    noticed         \* jobs a completion notice was sent for

vars == <<regVars, call, known, killedByModel, heard, lost, noticed>>

NoCall == [op |-> "idle", owner |-> NoOwner, job |-> NoJob]

TypeOK ==
    /\ RegTypeOK
    /\ call \in [Waiter -> [op    : {"idle", "bash", "stop", "output"},
                            owner : Owner \cup {NoOwner},
                            job   : Job \cup {NoJob}]]
    /\ known \in SUBSET Job
    /\ killedByModel \in SUBSET Job
    /\ heard \in SUBSET Job
    /\ lost \in SUBSET Job
    /\ noticed \in SUBSET Job

Init ==
    /\ RegInit
    /\ call = [w \in Waiter |-> NoCall]
    /\ known = {} /\ killedByModel = {} /\ heard = {}
    /\ lost = {} /\ noticed = {}

-----------------------------------------------------------------------------
(* The settlement listener of tool-jobs, part of every step that settles   *)
(* or removes a job. The registry reports a settlement that released a     *)
(* wait as awaited.                                                        *)

Settling == {j \in Job : IsLive(j) /\ job'[j].status \in Terminal}
Removed  == {j \in Job : job[j].stored /\ ~job'[j].stored}

Announced(j) ==
    /\ j \notin killedByModel
    /\ resolvers[j] = {}
    /\ job'[j].cause # "teardown"
    /\ job[j].owner # NoOwner
    /\ owner[job[j].owner].state # "gone"
    /\ service.state = "live"

Listener == noticed' = noticed \cup {j \in Settling : Announced(j)}

\* A registry step that no tool call makes.
Quiet ==
    /\ Listener
    /\ killedByModel' = killedByModel \ (Settling \cup Removed)
    /\ UNCHANGED <<call, known, heard, lost>>

\* What a tool call adds to the listener: the result reaches the model, or an
\* abort that comes after the body's last wait replaces it.
Result(ids, ends) ==
    /\ Listener
    /\ \/ known' = known \cup ids /\ heard' = heard \cup ends /\ UNCHANGED lost
       \/ lost' = lost \cup ends /\ UNCHANGED <<known, heard>>

NoResult == Listener /\ UNCHANGED <<known, heard, lost>>

-----------------------------------------------------------------------------
(* The bash tool.                                                          *)

Calling(o) == owner[o].state = "live" /\ service.state = "live"

\* run_in_background: the id is the result.
BashBackground(o, j) ==
    /\ Calling(o)
    /\ Start(j, o)
    /\ UNCHANGED <<resolvers, wait, call, killedByModel>>
    /\ Result({j}, {})

\* A foreground command registers its job and waits on it.
BashForeground(w, o, j) ==
    /\ Calling(o)
    /\ call[w].op = "idle"
    /\ Start(j, o)
    /\ BeginWait(w, j)
    /\ call' = [call EXCEPT ![w] = [op |-> "bash", owner |-> o, job |-> j]]
    /\ UNCHANGED killedByModel
    /\ NoResult

Returned(w, op, how) == call[w].op = op /\ wait[w].state = how

EndCall(w) ==
    /\ call' = [call EXCEPT ![w] = NoCall]
    /\ wait' = [wait EXCEPT ![w] = NoWait]

\* The record of a settled foreground command leaves with its result; one
\* dropped meanwhile fails the call.
BashSettled(w) ==
    LET j == call[w].job
    IN  /\ Returned(w, "bash", "settled") \/ Returned(w, "bash", "timeout")
        /\ IsTerminal(j)
        /\ Drop({j} \cap {k \in Job : job[k].stored})
        /\ EndCall(w)
        /\ killedByModel' = killedByModel \ {j}
        /\ UNCHANGED <<resolvers, owner, service>>
        /\ Result({}, {j})

\* The wait timed out with a process to keep: the job moves to the background.
BashPromoted(w) ==
    LET j == call[w].job
    IN  /\ Returned(w, "bash", "timeout")
        /\ IsLive(j)
        /\ job' = [job EXCEPT ![j] = Consumed(@)]
        /\ EndCall(w)
        /\ UNCHANGED <<resolvers, owner, service, killedByModel>>
        /\ Result({j}, {})

\* stop, after an abort or a timeout during preparation: kill, then wait once
\* more without a signal. A cancel that throws, or an unknown job, ends it.
BashStop(w) ==
    LET j == call[w].job
    IN  /\ \/ Returned(w, "bash", "aborted")
           \/ Returned(w, "bash", "timeout") /\ IsLive(j)
        /\ \/ /\ job[j].stored
              /\ job' = IF IsLive(j) THEN [job EXCEPT ![j] = Killed(@)] ELSE job
              /\ BeginWait(w, j)
              /\ call' = [call EXCEPT ![w].op = "stop"]
           \/ /\ job[j].stored => IsLive(j) /\ j \in CancelThrows
              /\ EndCall(w)
              /\ UNCHANGED <<job, resolvers>>
        /\ UNCHANGED <<owner, service, killedByModel>>
        /\ NoResult

\* A settled job is removed, its end being the stop this call reports; after a
\* second timeout it stays.
BashStopped(w) ==
    LET j == call[w].job
    IN  /\ Returned(w, "stop", "settled") \/ Returned(w, "stop", "timeout")
        /\ Drop({k \in {j} : job[k].stored /\ IsTerminal(k)})
        /\ EndCall(w)
        /\ killedByModel' = killedByModel \ Removed
        /\ heard' = heard \cup {k \in {j} : IsTerminal(k)}
        /\ UNCHANGED <<resolvers, owner, service, known, lost>>
        /\ Listener

-----------------------------------------------------------------------------
(* The job tools.                                                          *)

Reaches(o, j) == job[j].stored /\ job[j].owner \in {o, NoOwner}

\* job_list shows foreground commands of parallel calls too.
JobList(o) ==
    /\ Calling(o)
    /\ UNCHANGED <<regVars, call, killedByModel>>
    /\ Result({j \in Job : Reaches(o, j)}, {j \in Job : Reaches(o, j) /\ IsTerminal(j)})

\* job_output, waiting first.
JobOutputWait(w, o, j) ==
    /\ Calling(o)
    /\ call[w].op = "idle"
    /\ j \in known
    /\ Reaches(o, j)
    /\ UNCHANGED <<job, owner, service, killedByModel>>
    /\ BeginWait(w, j)
    /\ call' = [call EXCEPT ![w] = [op |-> "output", owner |-> o, job |-> j]]
    /\ NoResult

\* ... then reading, at once when it does not wait.
Collect(j) ==
    /\ job[j].stored
    /\ job' = [job EXCEPT ![j] = Consumed(@)]
    /\ Result({j}, {j} \cap {k \in Job : IsTerminal(k)})

JobOutput(o, j) ==
    /\ Calling(o)
    /\ j \in known
    /\ Reaches(o, j)
    /\ Collect(j)
    /\ UNCHANGED <<resolvers, wait, owner, service, call, killedByModel>>

JobOutputRead(w) ==
    /\ Returned(w, "output", "settled") \/ Returned(w, "output", "timeout")
    /\ Collect(call[w].job)
    /\ EndCall(w)
    /\ UNCHANGED <<resolvers, owner, service, killedByModel>>

\* The wait was aborted, or the job it names is gone.
JobOutputFails(w) ==
    /\ call[w].op = "output"
    /\ \/ wait[w].state = "aborted"
       \/ wait[w].state \in {"settled", "timeout"} /\ ~job[call[w].job].stored
    /\ EndCall(w)
    /\ UNCHANGED <<job, resolvers, owner, service, killedByModel>>
    /\ NoResult

\* job_kill: the request, or that it had already finished, is the result.
JobKill(o, j) ==
    /\ Calling(o)
    /\ j \in known
    /\ Reaches(o, j)
    /\ \/ Kill(j) /\ killedByModel' = killedByModel \cup {j}
       \/ IsTerminal(j) /\ UNCHANGED <<regVars, killedByModel>>
    /\ UNCHANGED call
    /\ Result({j}, {j})

-----------------------------------------------------------------------------
\* The model is not told of the human's kill, nor of an archived session's.
HumanKill(j) == Kill(j) /\ Quiet

\* A job of another producer (a workflow, a terminal), at any moment the registry
\* takes one; its tool tells the model what it needs of it.
OtherStart(o, j) == Start(j, o) /\ UNCHANGED <<resolvers, wait>> /\ Quiet

Runs(j) == ProducerDone(j) \/ FinalDrain(j) \/ Settle(j)

\* An agent's scope unloads once its turn is over, every tool body included.
Unload(o) == UnloadOwner(o) /\ \A w \in Waiter : call[w].owner # o

BashStep(w) == BashSettled(w) \/ BashPromoted(w) \/ BashStop(w) \/ BashStopped(w)

CallReturns(w) == BashStep(w) \/ JobOutputRead(w) \/ JobOutputFails(w)

CallStep(o, j) ==
    \/ BashBackground(o, j) \/ OtherStart(o, j) \/ JobOutput(o, j) \/ JobKill(o, j)
    \/ \E w \in Waiter : BashForeground(w, o, j) \/ JobOutputWait(w, o, j)

Deadline(w) == WaitTimeout(w) /\ Quiet

RegistryStep ==
    \/ \E j \in Job : Runs(j)
    \/ \E o \in Owner : Unload(o) \/ OwnerCleanup(o) \/ OwnerDropped(o)
    \/ UnloadService \/ ServiceDropped
    \/ \E w \in Waiter : call[w].op # "stop" /\ WaitAbort(w)

Next ==
    \/ \E o \in Owner : JobList(o) \/ \E j \in Job : CallStep(o, j)
    \/ \E w \in Waiter : CallReturns(w) \/ Deadline(w)
    \/ \E j \in Job : HumanKill(j)
    \/ RegistryStep /\ Quiet

Spec == Init /\ [][Next]_vars

(***************************************************************************)
(* Fairness. The pump drains on promise reactions and teardown is promise  *)
(* reactions; a deadline fires; a body whose wait returned goes on; and a  *)
(* producer is compliant: once its cancel was called its promise settles.  *)
(* Nothing else is promised: a command may run for ever.                   *)
(***************************************************************************)
Fairness ==
    /\ \A j \in Job :
          /\ WF_vars(job[j].cancelled /\ ProducerDone(j) /\ Quiet)
          /\ WF_vars((FinalDrain(j) \/ Settle(j)) /\ Quiet)
    /\ \A o \in Owner : WF_vars((OwnerCleanup(o) \/ OwnerDropped(o)) /\ Quiet)
    /\ WF_vars(ServiceDropped /\ Quiet)
    /\ \A w \in Waiter : WF_vars(Deadline(w)) /\ WF_vars(CallReturns(w))

FairSpec == Spec /\ Fairness

-----------------------------------------------------------------------------
(* Properties.                                                             *)

(***************************************************************************)
(* A job whose id the model was given does not end behind its back: a      *)
(* notice of the end was sent, a result told of it or of a kill, or a call *)
(* on it is about to return. Nothing is said of a job whose id no result   *)
(* has carried. Excepted are ends forced by a teardown, which have no      *)
(* reader left, and results an abort replaced after they took the report.  *)
(***************************************************************************)
Unreported(j) ==
    /\ IsTerminal(j)
    /\ job[j].cause # "teardown"
    /\ owner[job[j].owner].state # "gone"
    /\ service.state = "live"
    /\ j \notin noticed \cup heard
    /\ \A w \in Waiter : call[w].job # j

NoSilentCompletion == \A j \in known : Unreported(j) => j \in lost

(***************************************************************************)
(* Everything comes to an end. Every call returns: its wait times out, and *)
(* the second wait of a stopped command too. Every job of an unloading     *)
(* owner, or of the registry, settles, those whose cancel throws by force. *)
(***************************************************************************)
TeardownEnds ==
    /\ \A w \in Waiter : (call[w].op # "idle") ~> (call[w].op = "idle")
    /\ \A o \in Owner : (owner[o].state = "unloading") ~> (owner[o].state = "gone")
    /\ (service.state = "draining") ~> (service.state = "gone")
=============================================================================
