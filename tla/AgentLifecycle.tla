--------------------------- MODULE AgentLifecycle ---------------------------
(***************************************************************************)
(* Creation, resumption and teardown of agents by the agent loop's factory *)
(* (agent-loop/src/index.ts), with the two registries a lifecycle enters   *)
(* (agent, session) and the write claim of its persisted session.          *)
(*                                                                         *)
(* An operation takes the write handle, builds the agent, runs the         *)
(* caller's setup, stores what setup logged, enters the registries and     *)
(* waits for the creation listeners. Its caller may cancel, the owner's    *)
(* fiber may unload and the factory may be disposed between any two        *)
(* awaits. One action is the code between two awaits. What the agent does  *)
(* while it runs is AgentDriver's; what the handle stores, SessionHandle's.*)
(***************************************************************************)
EXTENDS Naturals, FiniteSets

CONSTANTS
    Op,         \* create and resume operations, each made once
    NoOp,
    Id,         \* session ids
    Owner,      \* fibers that own operations
    Loop        \* the factory's own fiber, owner of configured agents

ASSUME LifecycleConstants == NoOp \notin Op /\ Loop \notin Owner

VARIABLES
    op,         \* each operation
    claim,      \* the operation whose handle writes a session
    stored,     \* sessions the backend has stored
    agents,     \* the agent registry
    sessions,   \* the session registry
    owner,      \* the owners' fibers
    factory,    \* the factory, and what its disposal waits for
    mounted     \* a persistence backend is mounted

vars == <<op, claim, stored, agents, sessions, owner, factory, mounted>>

-----------------------------------------------------------------------------
Kind == {"create", "resume", "config", "fallback"}

\* fallback is a configured agent that was not stored and is created.
Resumes(o) == op[o].kind \in {"resume", "config"}

Unpublished == {"awaiting", "opening", "reading", "repairing", "setup", "storing",
                "announcing", "rollback", "closing"}
Settled     == {"published", "failed"}

\* The activity that initializeAgent runs as maintenance of the new agent.
Maintenance == {"setup", "storing", "announcing"}

\* prepare registered a teardown with the owner and with the factory.
Owned(o) == op[o].pc \in Maintenance \cup {"rollback", "published"} \/ op[o].down # "no"

OpRecord ==
    [pc        : {"new"} \cup Unpublished \cup Settled,
     kind      : Kind,
     id        : Id,
     owner     : Owner \cup {Loop},
     signal    : BOOLEAN,
     backend   : {"none", "pending", "granted", "missing", "refused", "orphaned", "release"},
     handle    : {"none", "open", "closed"},
     aborted   : BOOLEAN,
     down      : {"no", "publication", "idle", "scope", "close", "detach", "done"},
     created   : {"no", "running", "over"}]

TypeOK ==
    /\ op \in [Op -> OpRecord]
    /\ claim \in [Id -> Op \cup {NoOp}]
    /\ stored \in SUBSET Id
    /\ agents \in [Id -> Op \cup {NoOp}]
    /\ sessions \in [Id -> Op \cup {NoOp}]
    /\ owner \in [Owner -> {"live", "unloading", "gone"}]
    /\ factory \in [state : {"live", "disposing", "gone"}, joined : SUBSET Op]
    /\ mounted \in BOOLEAN

Init ==
    /\ \E i \in Id, w \in Owner :
          op = [o \in Op |-> [pc |-> "new", kind |-> "create", id |-> i, owner |-> w,
                              signal |-> FALSE, backend |-> "none",
                              handle |-> "none", aborted |-> FALSE, down |-> "no",
                              created |-> "no"]]
    /\ claim = [i \in Id |-> NoOp]
    /\ stored \in SUBSET Id
    /\ agents = [i \in Id |-> NoOp]
    /\ sessions = [i \in Id |-> NoOp]
    /\ owner = [w \in Owner |-> "live"]
    /\ factory = [state |-> "live", joined |-> {}]
    /\ mounted \in BOOLEAN

-----------------------------------------------------------------------------
Active == factory.state = "live"

OwnerActive(o) == IF op[o].owner = Loop THEN Active ELSE owner[op[o].owner] = "live"

To(o, pc) == op' = [op EXCEPT ![o].pc = pc]

\* The operation rejects; nothing looks at its signals any more.
Failed(r) == [r EXCEPT !.pc = "failed", !.signal = FALSE, !.aborted = FALSE]

Quiet == UNCHANGED <<claim, stored, agents, sessions, owner, factory, mounted>>

\* The signals that the acquisition of the handle is raced against. aborted is
\* the caller's signal, which prepare fuses with its own.
RaceLost(o) ==
    \/ op[o].aborted
    \/ Resumes(o) /\ ~(OwnerActive(o) /\ Active)

\* Closing the handle frees the claim, also when the last drain fails.
Closed(r) == [r EXCEPT !.handle = IF r.handle = "open" THEN "closed" ELSE r.handle]

FreeClaim(o) == claim' = [i \in Id |-> IF claim[i] = o THEN NoOp ELSE claim[i]]

-----------------------------------------------------------------------------
(* Taking the write handle.                                                *)

\* The session service prepares no session whose id is registered.
Preparable(i) == sessions[i] = NoOp

Acquire(r, kind) ==
    [r EXCEPT !.pc = "opening", !.kind = kind,
              !.backend = IF mounted THEN "pending" ELSE "granted"]

\* createAgent, and resumeWith, which needs a backend.
Begin(o, kind, i, w, signal) ==
    /\ op[o].pc = "new"
    /\ Active
    /\ owner[w] = "live"
    /\ IF kind = "resume" THEN mounted ELSE Preparable(i)
    /\ op' = [op EXCEPT ![o] =
                 Acquire([@ EXCEPT !.id = i, !.owner = w, !.signal = signal], kind)]
    /\ Quiet

\* A configured agent is restored, or created without a backend.
BeginConfigured(o, i) ==
    /\ op[o].pc = "new"
    /\ Active
    /\ mounted \/ Preparable(i)
    /\ LET r == [op[o] EXCEPT !.id = i, !.owner = Loop]
       IN  op' = [op EXCEPT ![o] = IF mounted
                                   THEN [r EXCEPT !.pc = "awaiting", !.kind = "config"]
                                   ELSE Acquire(r, "fallback")]
    /\ Quiet

\* waitForDrainingConfiguredIdentity.
IdentityReleased(o) ==
    /\ op[o].pc = "awaiting"
    /\ \/ /\ ~Active
          /\ op' = [op EXCEPT ![o] = Failed(@)]
       \/ /\ agents[op[o].id] = NoOp
          /\ sessions[op[o].id] = NoOp
          /\ op' = [op EXCEPT ![o] = Acquire(@, "config")]
    /\ Quiet

\* The backend answers; it may fail for reasons of its own. One claim per
\* session, in this process.
Answer(o) ==
    /\ op[o].backend \in {"pending", "orphaned"}
    /\ LET i == op[o].id
       IN  \/ /\ claim[i] = NoOp
              /\ Resumes(o) <=> i \in stored
              /\ claim' = [claim EXCEPT ![i] = o]
              /\ op' = [op EXCEPT ![o] =
                           [@ EXCEPT !.handle = "open",
                               !.backend = IF op[o].backend = "orphaned" THEN "release"
                                           ELSE "granted"]]
           \/ /\ op' = [op EXCEPT ![o].backend =
                           IF @ = "orphaned" THEN "none"
                           ELSE IF Resumes(o) /\ i \notin stored THEN "missing" ELSE "refused"]
              /\ UNCHANGED claim
    /\ UNCHANGED <<stored, agents, sessions, owner, factory, mounted>>

\* Slip: a handle that is already there is forgotten.
GiveUpLate(o) ==
    /\ op[o].pc = "opening"
    /\ RaceLost(o)
    /\ op' = [op EXCEPT ![o] =
                 [Failed(@) EXCEPT !.backend = IF @ = "pending" THEN "orphaned" ELSE "none"]]
    /\ Quiet

\* raceAbortCall gives up; a handle that still arrives is to be released.
GiveUp(o) ==
    /\ op[o].pc = "opening"
    /\ RaceLost(o)
    /\ op' = [op EXCEPT ![o] =
                 [Failed(@) EXCEPT !.backend = CASE op[o].backend = "pending" -> "orphaned"
                                                 [] op[o].backend = "granted" -> "release"
                                                 [] OTHER -> "none"]]
    /\ Quiet

ReleaseAbandoned(o) ==
    /\ op[o].backend = "release"
    /\ op' = [op EXCEPT ![o] = [Closed(@) EXCEPT !.backend = "none"]]
    /\ FreeClaim(o)
    /\ UNCHANGED <<stored, agents, sessions, owner, factory, mounted>>

\* Only a configured session that is not stored falls back to creation.
Refused(o) ==
    /\ op[o].pc = "opening"
    /\ op[o].backend \in {"missing", "refused"}
    /\ op' = [op EXCEPT ![o] =
                 IF op[o].kind = "config" /\ op[o].backend = "missing" /\ Active
                    /\ Preparable(op[o].id)
                 THEN Acquire(@, "fallback")
                 ELSE [Failed(@) EXCEPT !.backend = "none"]]
    /\ Quiet

-----------------------------------------------------------------------------
(* Building the agent.                                                     *)

\* prepare refuses an inactive owner or factory and a cancelled caller; the
\* handle is closed then.
Prepared(o) ==
    [op[o] EXCEPT !.backend = "none",
        !.pc = IF OwnerActive(o) /\ Active /\ ~op[o].aborted THEN "setup" ELSE "closing"]

Opened(o) ==
    /\ op[o].pc = "opening"
    /\ op[o].backend = "granted"
    /\ op' = [op EXCEPT ![o] = IF Resumes(o)
                               THEN [@ EXCEPT !.pc = "reading", !.backend = "none"]
                               ELSE Prepared(o)]
    /\ Quiet

\* The read of the log may fail, and does once its signal aborted.
ReadLog(o) ==
    /\ op[o].pc = "reading"
    /\ \/ ~RaceLost(o) /\ To(o, "repairing")
       \/ To(o, "closing")
    /\ Quiet

\* The closers of an interrupted turn are appended and the session prepared,
\* each of which may fail.
Repaired(o) ==
    /\ op[o].pc = "repairing"
    /\ \/ Preparable(op[o].id) /\ op' = [op EXCEPT ![o] = Prepared(o)]
       \/ To(o, "closing")
    /\ Quiet

CloseHandle(o) ==
    /\ op[o].pc = "closing"
    /\ op' = [op EXCEPT ![o] = Failed(Closed(@))]
    /\ FreeClaim(o)
    /\ UNCHANGED <<stored, agents, sessions, owner, factory, mounted>>

\* The caller's setup ends, or fails, or is abandoned once aborted.
Setup(o) ==
    /\ op[o].pc = "setup"
    /\ To(o, "storing") \/ To(o, "rollback")
    /\ Quiet

-----------------------------------------------------------------------------
(* Publication.                                                            *)

AssertLive(o) == ~op[o].aborted

\* publish, up to the creation listeners: the session enters its registry,
\* the agent its own (an id in use ends the publication where it stands), the
\* session is announced and a listener may veto.
Publish(o) ==
    LET i == op[o].id
        sessionFree == sessions[i] = NoOp
        agentFree   == agents[i] = NoOp
    IN  IF ~(AssertLive(o) /\ sessionFree)
        THEN To(o, "rollback") /\ UNCHANGED <<agents, sessions>>
        ELSE /\ sessions' = [sessions EXCEPT ![i] = o]
             /\ \/ /\ agentFree
                   /\ agents' = [agents EXCEPT ![i] = o]
                   /\ op' = [op EXCEPT ![o].pc = "announcing", ![o].created = "running"]
                \/ /\ agents' = IF agentFree THEN [agents EXCEPT ![i] = o] ELSE agents
                   /\ To(o, "rollback")

\* appendUnstoredSuffix, which may fail or find nothing to store.
Store(o) ==
    /\ op[o].pc = "storing"
    /\ \/ /\ Publish(o)
          /\ \/ stored' = IF op[o].handle = "open" THEN stored \cup {op[o].id} ELSE stored
             \/ UNCHANGED stored
       \/ /\ To(o, "rollback")
          /\ UNCHANGED <<stored, agents, sessions>>
    /\ UNCHANGED <<claim, owner, factory, mounted>>

\* The creation listeners ended, or one of them threw.
Announced(o) ==
    /\ op[o].pc = "announcing"
    /\ \E pc \in {"rollback"} \cup (IF AssertLive(o) THEN {"published"} ELSE {}) :
          op' = [op EXCEPT ![o].pc = pc, ![o].created = "over", ![o].signal = FALSE]
    /\ Quiet

-----------------------------------------------------------------------------
(* Teardown, memoized: whoever starts it, every owner awaits the one.      *)

StartTeardown(o) ==
    /\ op[o].pc \in Maintenance \cup {"rollback", "published"}
    /\ op[o].down = "no"
    /\ op' = [op EXCEPT ![o].down = "publication", ![o].aborted = TRUE]
    /\ Quiet

\* The failed operation, the unloading owner, the disposed factory.
MustTearDown(o) ==
    \/ op[o].pc = "rollback"
    \/ ~(OwnerActive(o) /\ Active)

\* The holder of the returned handle disposes it.
Dispose(o) == op[o].pc = "published" /\ StartTeardown(o)

Step(o, from, to) == op[o].down = from /\ op' = [op EXCEPT ![o].down = to]

\* Slip: a publication whose listener threw is waited for in vain.
TearPublished(o) ==
    /\ op[o].pc # "announcing"
    /\ op[o].created = "over" => op[o].pc = "published"
    /\ Step(o, "publication", "idle")
    /\ Quiet

\* Creation listeners retain the session and the scope.
TearPublication(o) ==
    /\ op[o].pc # "announcing"
    /\ Step(o, "publication", "idle")
    /\ Quiet

\* Slip: the running initialization is not awaited.
TearDriverAtOnce(o) == Step(o, "idle", "scope") /\ Quiet

\* cancel and whenIdle: the initialization is an activity of the agent.
TearDriver(o) ==
    /\ op[o].pc \notin Maintenance
    /\ Step(o, "idle", "scope")
    /\ Quiet

\* Slip: the registries are left before the handle is closed.
TearScopeOnly(o) == Step(o, "scope", "detach") /\ Quiet

TearScope(o) == Step(o, "scope", "close") /\ Quiet

TearHandle(o) ==
    /\ op[o].down = "close"
    /\ op' = [op EXCEPT ![o] = [Closed(@) EXCEPT !.down = "detach"]]
    /\ FreeClaim(o)
    /\ UNCHANGED <<stored, agents, sessions, owner, factory, mounted>>

\* Slip: the entry is deleted, not released.
Shrunk(registry, o) == [i \in {k \in Id : registry[k] # o} |-> registry[i]]

\* detachAgent, then the session's.
Without(registry, o) == [i \in Id |-> IF registry[i] = o THEN NoOp ELSE registry[i]]

TearRegistries(o) ==
    /\ op[o].down = "detach"
    /\ agents' = Without(agents, o)
    /\ sessions' = Without(sessions, o)
    /\ op' = [op EXCEPT ![o].down = "done"]
    /\ UNCHANGED <<claim, stored, owner, factory, mounted>>

\* Slip: it rejects while its teardown runs.
RolledBackEarly(o) ==
    /\ op[o].pc = "rollback"
    /\ op[o].down # "no"
    /\ op' = [op EXCEPT ![o] = Failed(@)]
    /\ Quiet

\* The failed operation rejects once its teardown is over.
RolledBack(o) ==
    /\ op[o].pc = "rollback"
    /\ op[o].down = "done"
    /\ op' = [op EXCEPT ![o] = Failed(@)]
    /\ Quiet

Teardown(o) ==
    \/ MustTearDown(o) /\ StartTeardown(o)
    \/ TearPublication(o) \/ TearDriver(o) \/ TearScope(o) \/ TearHandle(o)
    \/ TearRegistries(o) \/ RolledBack(o)

-----------------------------------------------------------------------------
(* Cancellation, owners and the factory.                                   *)

CallerAbort(o) ==
    /\ op[o].pc \in Unpublished
    /\ op[o].signal
    /\ ~op[o].aborted
    /\ op' = [op EXCEPT ![o].aborted = TRUE]
    /\ Quiet

UnloadOwner(w) ==
    /\ owner[w] = "live"
    /\ owner' = [owner EXCEPT ![w] = "unloading"]
    /\ UNCHANGED <<op, claim, stored, agents, sessions, factory, mounted>>

OwnerUnloaded(w) ==
    /\ owner[w] = "unloading"
    /\ \A o \in Op : op[o].owner = w /\ Owned(o) => op[o].down = "done"
    /\ owner' = [owner EXCEPT ![w] = "gone"]
    /\ UNCHANGED <<op, claim, stored, agents, sessions, factory, mounted>>

\* Slip: only what was published is joined.
UnderWayPublished(o) == op[o].pc = "published" /\ op[o].down # "done"

UnderWay(o) ==
    \/ op[o].pc \in Unpublished
    \/ op[o].pc = "published" /\ op[o].down # "done"

\* dispose aborts every lifecycle and joins them and the operations under way.
DisposeFactory ==
    /\ Active
    /\ factory' = [state |-> "disposing",
                   joined |-> {o \in Op : UnderWay(o)}]
    /\ op' = [o \in Op |-> [op[o] EXCEPT !.aborted = @ \/ Owned(o)]]
    /\ UNCHANGED <<claim, stored, agents, sessions, owner, mounted>>

FactoryDisposed ==
    /\ factory.state = "disposing"
    /\ \A o \in factory.joined : op[o].pc \in Settled /\ (Owned(o) => op[o].down = "done")
    /\ factory' = [factory EXCEPT !.state = "gone"]
    /\ UNCHANGED <<op, claim, stored, agents, sessions, owner, mounted>>

-----------------------------------------------------------------------------
\* What goes on by itself: the backend answers, setup and listeners settle.
Continue(o) ==
    \/ IdentityReleased(o) \/ GiveUp(o) \/ Refused(o) \/ Opened(o)
    \/ ReadLog(o) \/ Repaired(o) \/ CloseHandle(o) \/ Setup(o) \/ Store(o) \/ Announced(o)

Backend(o) == Answer(o) \/ ReleaseAbandoned(o)

Next ==
    \/ \E o \in Op :
          \/ \E kind \in {"create", "resume"}, i \in Id, w \in Owner, signal \in BOOLEAN :
                Begin(o, kind, i, w, signal)
          \/ \E i \in Id : BeginConfigured(o, i)
          \/ Continue(o) \/ Backend(o) \/ Teardown(o) \/ Dispose(o) \/ CallerAbort(o)
    \/ \E w \in Owner : UnloadOwner(w) \/ OwnerUnloaded(w)
    \/ DisposeFactory \/ FactoryDisposed

Spec == Init /\ [][Next]_vars

(***************************************************************************)
(* Fairness. Continuations run; the backend answers, setup and creation    *)
(* listeners settle, as every contract of the loop presumes. Nothing makes *)
(* a caller cancel or dispose, an owner unload or the factory go.          *)
(***************************************************************************)
Fairness ==
    /\ \A o \in Op :
          WF_vars(Continue(o)) /\ WF_vars(Backend(o)) /\ WF_vars(Teardown(o))
    /\ \A w \in Owner : WF_vars(OwnerUnloaded(w))
    /\ WF_vars(FactoryDisposed)

FairSpec == Spec /\ Fairness

-----------------------------------------------------------------------------
(* Properties.                                                             *)

(***************************************************************************)
(* A lifecycle leaves the registries after it gave up its write claim, so  *)
(* an id both registries show free can be opened: a configured agent that  *)
(* waited for its predecessor does not find the session still owned by it. *)
(***************************************************************************)
RegistryOutlivesHandle ==
    \A o \in Op : op[o].created # "no" /\ op[o].handle = "open" =>
        agents[op[o].id] = o /\ sessions[op[o].id] = o

(***************************************************************************)
(* Whoever unloads meanwhile, no teardown closes the handle under a read   *)
(* or an append of its operation; and while its creation listeners are     *)
(* awaited an agent is registered, its handle not closed, and no teardown  *)
(* has cancelled it or unwound its scope.                                  *)
(***************************************************************************)
ListenersSeeLiveAgent ==
    \A o \in Op :
        /\ op[o].pc \in {"reading", "repairing"} \cup Maintenance => op[o].handle # "closed"
        /\ op[o].pc = "announcing" =>
              /\ agents[op[o].id] = o
              /\ sessions[op[o].id] = o
              /\ op[o].down \in {"no", "publication"}

(***************************************************************************)
(* A failed operation leaves no registry entry, and its handle is closed   *)
(* unless it arrived too late and is about to be.                          *)
(***************************************************************************)
FailureLeavesNothing ==
    \A o \in Op : op[o].pc = "failed" =>
        /\ agents[op[o].id] # o
        /\ sessions[op[o].id] # o
        /\ op[o].handle = "open" => op[o].backend = "release"

(***************************************************************************)
(* Once the factory's disposal resolved, no agent or session of it is      *)
(* registered, no operation is under way and none will publish; the same   *)
(* for the agents of an owner whose unload ended.                          *)
(***************************************************************************)
NothingOutlivesFactory ==
    /\ factory.state = "gone" =>
          /\ \A i \in Id : agents[i] = NoOp /\ sessions[i] = NoOp
          /\ \A o \in Op : op[o].pc \notin Unpublished
    /\ \A w \in Owner, i \in Id : owner[w] = "gone" =>
          \A o \in {agents[i], sessions[i]} \ {NoOp} : op[o].owner # w

(***************************************************************************)
(* Nothing is left behind, by a failed operation or by a disposal.         *)
(***************************************************************************)
NothingLeftBehind == FailureLeavesNothing /\ NothingOutlivesFactory

(***************************************************************************)
(* The claim of an operation that failed is given up for good, also when   *)
(* the backend opens the handle after the caller stopped waiting for it.   *)
(***************************************************************************)
ClaimIsGivenUp ==
    \A o \in Op, i \in Id : (op[o].pc = "failed") ~> [](claim[i] # o)

(***************************************************************************)
(* Disposal ends: the unload of an owner and the disposal of the factory   *)
(* are not stuck behind a setup, a publication or each other.              *)
(***************************************************************************)
DisposalEnds ==
    /\ \A w \in Owner : (owner[w] = "unloading") ~> (owner[w] = "gone")
    /\ (factory.state = "disposing") ~> (factory.state = "gone")

(***************************************************************************)
(* What an operation or a disposal owes is paid in the end.                *)
(***************************************************************************)
LifecycleSettles == ClaimIsGivenUp /\ DisposalEnds
=============================================================================
