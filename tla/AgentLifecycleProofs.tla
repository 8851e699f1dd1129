------------------------- MODULE AgentLifecycleProofs -------------------------
(***************************************************************************)
(* What creation, resumption and teardown of agents (agent-loop/src/       *)
(* index.ts) keep, for any number of operations, sessions and owners: a    *)
(* registered agent holds its handle, a listener sees a live agent, and    *)
(* neither a failure nor a disposal leaves anything behind.                *)
(***************************************************************************)
EXTENDS AgentLifecycle, TLAPS

-----------------------------------------------------------------------------
(* The invariant, in parts.                                                *)

\* Where an operation may have entries in the registries.
Entering == {"announcing", "rollback", "published"}

\* How far an operation is, what it holds and how far its teardown is belong
\* together: a teardown starts only after the handle arrived, closes it before
\* it leaves the registries, and waits for the activity it interrupts.
Shape(r) ==
    /\ r.pc \in {"new", "awaiting", "opening", "reading", "repairing", "closing"}
          => r.down = "no" /\ r.created = "no"
    /\ r.pc \in {"new", "awaiting"} => r.backend = "none"
    /\ r.pc \in {"setup", "storing"} => r.created = "no"
    /\ r.created = "running" <=> r.pc = "announcing"
    /\ r.pc = "published" => r.created = "over"
    /\ r.pc = "announcing" => r.down \in {"no", "publication"}
    /\ r.pc \in Maintenance => r.down \in {"no", "publication", "idle"}
    /\ r.pc \in Maintenance /\ r.down # "no" => r.aborted
    /\ r.pc = "failed" => r.down \in {"no", "done"} /\ (r.down = "no" => r.created = "no")
    /\ r.backend \in {"pending", "granted", "missing", "refused"} <=> r.pc = "opening"
    /\ r.backend \in {"orphaned", "release"} => r.pc = "failed" /\ r.down = "no"
    /\ r.backend \in {"pending", "orphaned", "missing", "refused"} => r.handle = "none"
    /\ r.pc \in {"new", "awaiting"} => r.handle = "none"
    /\ r.handle = "open" /\ r.pc = "failed" => r.backend = "release"
    /\ r.handle = "open" => r.down \notin {"detach", "done"}
    /\ r.handle = "closed" => r.pc = "failed" \/ r.down \in {"detach", "done"}

\* The registries hold the operations that entered and have not left: both of
\* them an operation whose creation was announced.
Entries(o) ==
    LET r == op[o]
    IN  /\ \A i \in Id : agents[i] = o \/ sessions[i] = o =>
              i = r.id /\ r.pc \in Entering /\ r.down # "done"
        /\ r.created # "no" /\ r.down # "done" => agents[r.id] = o /\ sessions[r.id] = o

\* A disposal that found an operation under way joined it; nothing begins
\* afterwards. What an unloaded owner owned is torn down.
Disposals ==
    /\ factory.state = "disposing" => \A o \in Op : UnderWay(o) => o \in factory.joined
    /\ factory.state = "gone" => \A o \in Op : ~UnderWay(o)
    /\ \A w \in Owner, o \in Op :
          owner[w] = "gone" /\ op[o].owner = w /\ Owned(o) => op[o].down = "done"

\* The backend lets one operation write a session, the one whose handle is open.
Claims ==
    \A o \in Op, i \in Id : claim[i] = o <=> op[o].handle = "open" /\ op[o].id = i

IInv ==
    /\ TypeOK
    /\ \A o \in Op : Shape(op[o]) /\ Entries(o)
    /\ Disposals
    /\ Claims

-----------------------------------------------------------------------------
(* A step of one operation.                                                *)

\* An operation as a disposal of the factory, and an owner's unload, see it.
Waits(r) == r.pc \in Unpublished \/ (r.pc = "published" /\ r.down # "done")
Holds(r) == (r.pc \in Maintenance \cup {"rollback", "published"} \/ r.down # "no") /\ r.down # "done"

\* What a step that leaves the registries alone must respect.
Keeps(q, r) ==
    /\ q.pc \in Entering /\ q.down # "done" =>
          r.id = q.id /\ r.pc \in Entering /\ r.down # "done"
    /\ r.created # "no" /\ r.down # "done" =>
          r.id = q.id /\ q.created # "no" /\ q.down # "done"
    /\ Waits(r) => Waits(q) \/ Active
    /\ Holds(r) => \/ Holds(q) /\ r.owner = q.owner
                   \/ r.owner \in Owner => owner[r.owner] = "live"

\* The operation's part of the claims.
ClaimsOf(r, o) == \A i \in Id : claim'[i] = o <=> r.handle = "open" /\ r.id = i

(* A step of one operation that respects Keeps preserves the invariant.    *)
LEMMA LocalStep ==
    ASSUME IInv, NEW o \in Op, NEW r \in OpRecord, op' = [op EXCEPT ![o] = r],
           UNCHANGED <<stored, agents, sessions, owner, factory, mounted>>,
           claim' \in [Id -> Op \cup {NoOp}],
           \A i \in Id, p \in Op \ {o} : claim'[i] = p <=> claim[i] = p,
           Shape(r), Keeps(op[o], r), ClaimsOf(r, o)
    PROVE  IInv'
<1>1. op'[o] = r /\ (\A p \in Op \ {o} : op'[p] = op[p]) /\ op' \in [Op -> OpRecord]
  BY DEF IInv, TypeOK
<1>2. TypeOK'
  BY <1>1 DEF IInv, TypeOK
<1>3. ASSUME NEW p \in Op PROVE Shape(op'[p]) /\ Entries(p)'
  <2>1. CASE p = o
    <3>1. Shape(op'[p])
      BY <1>1, <2>1
    <3>2. /\ \A i \in Id : agents[i] = o \/ sessions[i] = o =>
                i = op[o].id /\ op[o].pc \in Entering /\ op[o].down # "done"
          /\ op[o].created # "no" /\ op[o].down # "done" =>
                agents[op[o].id] = o /\ sessions[op[o].id] = o
      BY DEF IInv, Entries
    <3>3. Entries(o)'
      BY <1>1, <3>2 DEF Entries, Keeps
    <3> QED
      BY <2>1, <3>1, <3>3
  <2>2. CASE p # o
    <3>1. op'[p] = op[p]
      BY <1>1, <2>2
    <3> QED
      BY <3>1 DEF IInv, Entries
  <2> QED
    BY <2>1, <2>2
<1>4. Disposals'
  <2>1. \A p \in Op : UnderWay(p) <=> Waits(op[p])
    BY DEF UnderWay, Waits
  <2>2. \A p \in Op : UnderWay(p)' <=> Waits(op'[p])
    BY DEF UnderWay, Waits
  <2>3. \A p \in Op : Waits(op'[p]) => Waits(op[p]) \/ Active
    BY <1>1 DEF Keeps
  <2>4. factory'.state = factory.state /\ factory'.joined = factory.joined
    OBVIOUS
  <2>5. factory'.state = "disposing" => \A p \in Op : UnderWay(p)' => p \in factory'.joined
    BY <2>1, <2>2, <2>3, <2>4 DEF IInv, Disposals, Active
  <2>6. factory'.state = "gone" => \A p \in Op : ~UnderWay(p)'
    BY <2>1, <2>2, <2>3, <2>4 DEF IInv, Disposals, Active
  <2>7. ASSUME NEW w \in Owner, NEW p \in Op, owner'[w] = "gone", op'[p].owner = w, Owned(p)',
               op'[p].down # "done"
        PROVE  FALSE
    <3>1. Holds(op'[p]) /\ owner[w] = "gone"
      BY <2>7 DEF Owned, Holds
    <3>2. Holds(op[p]) /\ op[p].owner = w
      BY <1>1, <2>7, <3>1 DEF Keeps
    <3> QED
      BY <3>1, <3>2 DEF IInv, Disposals, Owned, Holds
  <2> QED
    BY <2>5, <2>6, <2>7 DEF Disposals
<1>5. Claims'
  BY <1>1 DEF IInv, Claims, ClaimsOf
<1> QED
  BY <1>2, <1>3, <1>4, <1>5 DEF IInv

(* A step that touches neither the claim nor the handle.                   *)
LEMMA QuietStep ==
    ASSUME IInv, NEW o \in Op, NEW r \in OpRecord, op' = [op EXCEPT ![o] = r], Quiet,
           r.handle = op[o].handle, r.id = op[o].id \/ r.handle # "open",
           Shape(r), Keeps(op[o], r)
    PROVE  IInv'
<1>1. ClaimsOf(r, o)
  BY DEF ClaimsOf, IInv, Claims, Quiet
<1>2. claim' \in [Id -> Op \cup {NoOp}]
  BY DEF IInv, TypeOK, Quiet
<1>3. \A i \in Id, p \in Op \ {o} : claim'[i] = p <=> claim[i] = p
  BY DEF Quiet
<1>4. UNCHANGED <<stored, agents, sessions, owner, factory, mounted>>
  BY DEF Quiet
<1> QED
  BY <1>1, <1>2, <1>3, <1>4, LocalStep

(* A step that closes the handle and frees the claim.                      *)
LEMMA CloseStep ==
    ASSUME IInv, NEW o \in Op, NEW r \in OpRecord, op' = [op EXCEPT ![o] = r], FreeClaim(o),
           UNCHANGED <<stored, agents, sessions, owner, factory, mounted>>,
           r.handle # "open", Shape(r), Keeps(op[o], r)
    PROVE  IInv'
<1>1. claim \in [Id -> Op \cup {NoOp}] /\ NoOp \notin Op
  BY LifecycleConstants DEF IInv, TypeOK
<1>2. /\ claim' \in [Id -> Op \cup {NoOp}]
      /\ \A i \in Id, p \in Op \ {o} : claim'[i] = p <=> claim[i] = p
      /\ ClaimsOf(r, o)
  BY <1>1 DEF FreeClaim, ClaimsOf
<1> QED
  BY <1>2, LocalStep

-----------------------------------------------------------------------------
(* The steps up to the running setup.                                      *)

(* Every operation's record is one, of the shape above.                    *)
LEMMA OpShape ==
    ASSUME IInv, NEW o \in Op
    PROVE  op[o] \in OpRecord /\ Shape(op[o]) /\ op \in [Op -> OpRecord]
  BY DEF IInv, TypeOK

(* What an operation that fails, and one that asks for a handle, becomes.  *)
LEMMA FailedRecord ==
    ASSUME NEW q \in OpRecord
    PROVE  /\ Failed(q) \in OpRecord
           /\ Failed(q).pc = "failed" /\ Failed(q).backend = q.backend
           /\ Failed(q).handle = q.handle /\ Failed(q).id = q.id
           /\ Failed(q).owner = q.owner /\ Failed(q).down = q.down
           /\ Failed(q).created = q.created
  BY DEF OpRecord, Failed, Settled

(* The record of an operation that acquires its session.                    *)
LEMMA AcquiredRecord ==
    ASSUME NEW q \in OpRecord, NEW kind \in Kind
    PROVE  LET r == Acquire(q, kind)
           IN  /\ r \in OpRecord
               /\ r.pc = "opening" /\ r.backend \in {"pending", "granted"}
               /\ r.handle = q.handle /\ r.id = q.id /\ r.owner = q.owner
               /\ r.down = q.down /\ r.created = q.created
  BY ZenonT(60) DEF OpRecord, Acquire, Unpublished

(* An operation begins, configured or not.                                 *)
LEMMA BeginStep ==
    ASSUME IInv, NEW o \in Op,
           \/ \E kind \in {"create", "resume"}, i \in Id, w \in Owner, signal \in BOOLEAN :
                Begin(o, kind, i, w, signal)
           \/ \E i \in Id : BeginConfigured(o, i)
    PROVE  IInv'
<1> DEFINE q == op[o]
<1>1. q \in OpRecord /\ Shape(q) /\ op \in [Op -> OpRecord]
  BY OpShape
<1>2. ASSUME NEW kind \in {"create", "resume"}, NEW i \in Id, NEW w \in Owner,
             NEW signal \in BOOLEAN, Begin(o, kind, i, w, signal)
      PROVE  IInv'
  <2> DEFINE r == Acquire([q EXCEPT !.id = i, !.owner = w, !.signal = signal], kind)
  <2>1. op' = [op EXCEPT ![o] = r] /\ Quiet /\ q.pc = "new" /\ Active /\ owner[w] = "live"
    BY <1>2 DEF Begin
  <2>2. r \in OpRecord
    BY ZenonT(60), <1>1 DEF OpRecord, Acquire, Kind, Unpublished
  <2>3. /\ r.pc = "opening" /\ r.owner = w /\ r.backend \in {"pending", "granted"}
        /\ r.down = q.down /\ r.created = q.created /\ r.handle = q.handle
    BY <1>1 DEF OpRecord, Acquire
  <2> HIDE DEF r
  <2>4. r.handle # "open" /\ Shape(r) /\ Keeps(q, r)
    BY <1>1, <2>1, <2>3 DEF Shape, Keeps, Waits, Holds, Entering, Maintenance, Unpublished
  <2> QED
    BY <2>1, <2>2, <2>3, <2>4, QuietStep
<1>3. ASSUME NEW i \in Id, BeginConfigured(o, i)
      PROVE  IInv'
  <2> DEFINE a == [q EXCEPT !.id = i, !.owner = Loop]
             r == IF mounted THEN [a EXCEPT !.pc = "awaiting", !.kind = "config"]
                  ELSE Acquire(a, "fallback")
  <2>1. op' = [op EXCEPT ![o] = r] /\ Quiet /\ q.pc = "new" /\ Active
    BY <1>3 DEF BeginConfigured
  <2>2. r \in OpRecord
    BY ZenonT(60), <1>1 DEF OpRecord, Acquire, Kind, Unpublished
  <2>3. /\ r.owner = Loop
        /\ \/ r.pc = "opening" /\ r.backend \in {"pending", "granted"}
           \/ r.pc = "awaiting" /\ r.backend = q.backend
        /\ r.down = q.down /\ r.created = q.created /\ r.handle = q.handle
    BY <1>1 DEF OpRecord, Acquire
  <2> HIDE DEF r
  <2>4. r.handle # "open" /\ Shape(r) /\ Keeps(q, r)
    BY <1>1, <2>1, <2>3, LifecycleConstants
       DEF Shape, Keeps, Waits, Holds, Entering, Maintenance, Unpublished
  <2> QED
    BY <2>1, <2>2, <2>3, <2>4, QuietStep
<1> QED
  BY <1>2, <1>3

(* The steps that take the handle, read the log and run the setup, and the
   failures on the way (waitForDrainingConfiguredIdentity, raceAbortCall,
   prepare, resumeWith).                                                   *)
LEMMA ContinueStep ==
    ASSUME IInv, NEW o \in Op,
           \/ IdentityReleased(o) \/ GiveUp(o) \/ Refused(o) \/ Opened(o)
           \/ ReadLog(o) \/ Repaired(o) \/ Setup(o) \/ Announced(o)
    PROVE  IInv'
<1> DEFINE q == op[o]
<1>1. q \in OpRecord /\ Shape(q) /\ op \in [Op -> OpRecord]
  BY OpShape
<1>2. CASE IdentityReleased(o)
  <2>1. PICK r \in {Failed(q), Acquire(q, "config")} :
          op' = [op EXCEPT ![o] = r] /\ Quiet /\ q.pc = "awaiting"
    BY <1>2 DEF IdentityReleased
  <2>2. r \in OpRecord
    BY <1>1, FailedRecord, AcquiredRecord DEF Kind
  <2>3. /\ \/ r.pc = "failed" /\ r.backend = q.backend
           \/ r.pc = "opening" /\ r.backend \in {"pending", "granted"}
        /\ r.owner = q.owner /\ r.down = q.down /\ r.created = q.created
        /\ r.handle = q.handle /\ r.id = q.id
    BY <1>1, FailedRecord, AcquiredRecord DEF Kind
  <2>4. Shape(r) /\ Keeps(q, r)
    BY <1>1, <2>1, <2>3 DEF Shape, Keeps, Waits, Holds, Entering, Maintenance, Unpublished
  <2> QED
    BY <2>1, <2>2, <2>3, <2>4, QuietStep
<1>3. CASE GiveUp(o)
  <2> DEFINE k == CASE q.backend = "pending" -> "orphaned"
                    [] q.backend = "granted" -> "release"
                    [] OTHER                 -> "none"
             r == [Failed(q) EXCEPT !.backend = k]
  <2>1. op' = [op EXCEPT ![o] = r] /\ Quiet /\ q.pc = "opening"
    BY <1>3 DEF GiveUp
  <2>2. \/ q.backend = "pending" /\ k = "orphaned"
        \/ q.backend = "granted" /\ k = "release"
        \/ q.backend \notin {"pending", "granted"} /\ k = "none"
    <3>1. CASE q.backend = "pending"
      BY <3>1
    <3>2. CASE q.backend = "granted"
      BY <3>2
    <3>3. CASE q.backend \notin {"pending", "granted"}
      BY <3>3
    <3> QED
      BY <3>1, <3>2, <3>3
  <2> HIDE DEF k
  <2>3. r \in OpRecord
    BY <1>1, <2>2 DEF OpRecord, Failed, Settled
  <2>4. /\ r.pc = "failed" /\ r.backend = k
        /\ r.owner = q.owner /\ r.down = q.down /\ r.created = q.created
        /\ r.handle = q.handle /\ r.id = q.id
    BY <1>1 DEF OpRecord, Failed
  <2> HIDE DEF r
  <2>5. q.backend \in {"pending", "granted", "missing", "refused"}
    BY <1>1, <2>1 DEF OpRecord, Shape
  <2>6. Shape(r) /\ Keeps(q, r)
    BY <1>1, <2>1, <2>2, <2>4, <2>5
       DEF Shape, Keeps, Waits, Holds, Entering, Maintenance, Unpublished
  <2> QED
    BY <2>1, <2>3, <2>4, <2>6, QuietStep DEF r
<1>4. CASE Refused(o)
  <2> DEFINE f == [Failed(q) EXCEPT !.backend = "none"]
  <2>1. PICK r \in {Acquire(q, "fallback"), f} :
          op' = [op EXCEPT ![o] = r] /\ Quiet /\ q.pc = "opening"
          /\ q.backend \in {"missing", "refused"}
    BY <1>4 DEF Refused
  <2>a. f \in OpRecord /\ f.pc = "failed" /\ f.backend = "none" /\ f.handle = q.handle
        /\ f.id = q.id /\ f.owner = q.owner /\ f.down = q.down /\ f.created = q.created
    BY <1>1 DEF OpRecord, Failed, Settled
  <2> HIDE DEF f
  <2>2. r \in OpRecord
    BY <1>1, <2>1, <2>a, AcquiredRecord DEF Kind
  <2>3. /\ \/ r.pc = "failed" /\ r.backend = "none"
           \/ r.pc = "opening" /\ r.backend \in {"pending", "granted"}
        /\ r.owner = q.owner /\ r.down = q.down /\ r.created = q.created
        /\ r.handle = q.handle /\ r.id = q.id
    BY <1>1, <2>1, <2>a, AcquiredRecord DEF Kind
  <2>4. Shape(r) /\ Keeps(q, r)
    BY <1>1, <2>1, <2>3 DEF Shape, Keeps, Waits, Holds, Entering, Maintenance, Unpublished
  <2> QED
    BY <2>1, <2>2, <2>3, <2>4, QuietStep
<1>5. ASSUME q.pc \in {"opening", "reading", "repairing"},
             op' = [op EXCEPT ![o] = Prepared(o)], Quiet,
             q.pc = "opening" => q.backend = "granted"
      PROVE  IInv'
  <2> DEFINE r == Prepared(o)
  <2>1. r \in OpRecord
    BY <1>1 DEF OpRecord, Prepared, Unpublished
  <2>2. /\ r.pc = "closing" \/ (r.pc = "setup" /\ OwnerActive(o) /\ Active)
        /\ r.backend = "none"
        /\ r.owner = q.owner /\ r.down = q.down /\ r.created = q.created
        /\ r.handle = q.handle /\ r.id = q.id
    BY <1>1 DEF OpRecord, Prepared
  <2> HIDE DEF r
  <2>3. Holds(r) => (r.owner \in Owner => owner[r.owner] = "live")
    BY <1>1, <1>5, <2>2, LifecycleConstants DEF Shape, Holds, OwnerActive, Maintenance
  <2>4. Shape(r) /\ Keeps(q, r)
    BY <1>1, <1>5, <2>2, <2>3 DEF Shape, Keeps, Waits, Entering, Maintenance, Unpublished
  <2> QED
    BY <1>5, <2>1, <2>2, <2>4, QuietStep DEF r
<1>6. CASE Opened(o)
  <2>1. CASE Resumes(o)
    <3> DEFINE r == [q EXCEPT !.pc = "reading", !.backend = "none"]
    <3>1. op' = [op EXCEPT ![o] = r] /\ Quiet /\ q.pc = "opening" /\ q.backend = "granted"
      BY <1>6, <2>1 DEF Opened
    <3>2. r \in OpRecord
      BY <1>1 DEF OpRecord, Unpublished
    <3>3. /\ r.pc = "reading" /\ r.backend = "none"
          /\ r.owner = q.owner /\ r.down = q.down /\ r.created = q.created
          /\ r.handle = q.handle /\ r.id = q.id
      BY <1>1 DEF OpRecord
    <3> HIDE DEF r
    <3>4. Shape(r) /\ Keeps(q, r)
      BY <1>1, <3>1, <3>3 DEF Shape, Keeps, Waits, Holds, Entering, Maintenance, Unpublished
    <3> QED
      BY <3>1, <3>2, <3>3, <3>4, QuietStep
  <2>2. CASE ~Resumes(o)
    BY <1>5, <1>6, <2>2 DEF Opened
  <2> QED
    BY <2>1, <2>2
<1>7. ASSUME NEW from \in {"reading", "repairing", "setup"}, NEW to \in Unpublished,
             q.pc = from, To(o, to), Quiet,
             from \in {"reading", "repairing"} => to \in {"repairing", "closing"},
             from = "setup" => to \in {"storing", "rollback"}
      PROVE  IInv'
  <2> DEFINE r == [q EXCEPT !.pc = to]
  <2>1. op' = [op EXCEPT ![o] = r]
    BY <1>7 DEF To
  <2>2. r \in OpRecord
    BY <1>1 DEF OpRecord
  <2>3. /\ r.pc = to /\ r.backend = q.backend
        /\ r.owner = q.owner /\ r.down = q.down /\ r.created = q.created
        /\ r.handle = q.handle /\ r.id = q.id /\ r.aborted = q.aborted
    BY <1>1 DEF OpRecord
  <2> HIDE DEF r
  <2>4. Shape(r) /\ Keeps(q, r)
    BY <1>1, <1>7, <2>3 DEF Shape, Keeps, Waits, Holds, Entering, Maintenance, Unpublished
  <2> QED
    BY <1>7, <2>1, <2>2, <2>3, <2>4, QuietStep
<1>8. CASE ReadLog(o)
  BY <1>7, <1>8 DEF ReadLog, Unpublished
<1>9. CASE Repaired(o)
  BY <1>5, <1>7, <1>9 DEF Repaired, Unpublished
<1>10. CASE Setup(o)
  BY <1>7, <1>10 DEF Setup, Unpublished
<1>11. CASE Announced(o)
  <2>1. PICK pc \in {"rollback", "published"} :
          /\ op' = [op EXCEPT ![o] = [q EXCEPT !.pc = pc, !.created = "over", !.signal = FALSE]]
          /\ Quiet /\ q.pc = "announcing"
    BY <1>11 DEF Announced
  <2> DEFINE r == [q EXCEPT !.pc = pc, !.created = "over", !.signal = FALSE]
  <2>2. r \in OpRecord
    BY ZenonT(60), <1>1 DEF OpRecord, Unpublished, Settled
  <2>3. /\ r.pc = pc /\ r.created = "over" /\ r.backend = q.backend
        /\ r.owner = q.owner /\ r.down = q.down /\ r.handle = q.handle /\ r.id = q.id
    BY <1>1 DEF OpRecord
  <2> HIDE DEF r
  <2>4. q.down \in {"no", "publication"} /\ q.created = "running"
    BY <1>1, <2>1 DEF Shape
  <2>5. Shape(r)
    BY <1>1, <2>1, <2>3, <2>4 DEF Shape, Maintenance
  <2>6. Keeps(q, r)
    BY <2>1, <2>3, <2>4 DEF Keeps, Waits, Holds, Entering, Maintenance, Unpublished
  <2> QED
    BY <2>1, <2>2, <2>3, <2>5, <2>6, QuietStep DEF r
<1> QED
  BY <1>2, <1>3, <1>4, <1>6, <1>8, <1>9, <1>10, <1>11

-----------------------------------------------------------------------------
(* The handle, the teardown and the registries.                            *)

(* Closing the handle: after a failed opening, on a late arrival, and in
   the teardown before it leaves the registries.                           *)
LEMMA HandleStep ==
    ASSUME IInv, NEW o \in Op,
           CloseHandle(o) \/ ReleaseAbandoned(o) \/ TearHandle(o)
    PROVE  IInv'
<1> DEFINE q == op[o]
           c == Closed(q)
<1>1. q \in OpRecord /\ Shape(q) /\ op \in [Op -> OpRecord]
  BY OpShape
<1>2. /\ c \in OpRecord /\ c.handle # "open" /\ (c.handle = "none" <=> q.handle = "none")
      /\ c.pc = q.pc /\ c.id = q.id /\ c.owner = q.owner /\ c.backend = q.backend
      /\ c.down = q.down /\ c.created = q.created
  BY <1>1 DEF OpRecord, Closed
<1> HIDE DEF c
<1>3. CASE CloseHandle(o)
  <2> DEFINE r == Failed(c)
  <2>1. op' = [op EXCEPT ![o] = r] /\ FreeClaim(o) /\ q.pc = "closing"
        /\ UNCHANGED <<stored, agents, sessions, owner, factory, mounted>>
    BY <1>3 DEF CloseHandle, c
  <2>2. /\ r \in OpRecord /\ r.handle # "open" /\ r.pc = "failed" /\ r.backend = q.backend
        /\ r.down = q.down /\ r.created = q.created /\ r.id = q.id /\ r.owner = q.owner
    BY <1>2, FailedRecord
  <2> HIDE DEF r
  <2>3. Shape(r) /\ Keeps(q, r)
    BY <1>1, <2>1, <2>2 DEF Shape, Keeps, Waits, Holds, Entering, Maintenance, Unpublished
  <2> QED
    BY <2>1, <2>2, <2>3, CloseStep
<1>4. CASE ReleaseAbandoned(o)
  <2> DEFINE r == [c EXCEPT !.backend = "none"]
  <2>1. op' = [op EXCEPT ![o] = r] /\ FreeClaim(o) /\ q.backend = "release"
        /\ UNCHANGED <<stored, agents, sessions, owner, factory, mounted>>
    BY <1>4 DEF ReleaseAbandoned, c
  <2>2. /\ r \in OpRecord /\ r.handle # "open" /\ r.pc = q.pc /\ r.backend = "none"
        /\ r.down = q.down /\ r.created = q.created /\ r.id = q.id /\ r.owner = q.owner
    BY <1>2 DEF OpRecord
  <2> HIDE DEF r
  <2>3. Shape(r) /\ Keeps(q, r)
    BY <1>1, <2>1, <2>2 DEF Shape, Keeps, Waits, Holds, Entering, Maintenance, Unpublished
  <2> QED
    BY <2>1, <2>2, <2>3, CloseStep
<1>5. CASE TearHandle(o)
  <2> DEFINE r == [c EXCEPT !.down = "detach"]
  <2>1. op' = [op EXCEPT ![o] = r] /\ FreeClaim(o) /\ q.down = "close"
        /\ UNCHANGED <<stored, agents, sessions, owner, factory, mounted>>
    BY <1>5 DEF TearHandle, c
  <2>2. /\ r \in OpRecord /\ r.handle # "open" /\ r.pc = q.pc /\ r.backend = q.backend
        /\ r.down = "detach" /\ r.created = q.created /\ r.id = q.id /\ r.owner = q.owner
        /\ (r.handle = "none" <=> q.handle = "none")
    BY <1>2 DEF OpRecord
  <2> HIDE DEF r
  <2>3. Shape(r) /\ Keeps(q, r)
    BY <1>1, <2>1, <2>2 DEF Shape, Keeps, Waits, Holds, Entering, Maintenance, Unpublished
  <2> QED
    BY <2>1, <2>2, <2>3, CloseStep
<1> QED
  BY <1>3, <1>4, <1>5

(* The backend grants the claim of a session nobody writes, or answers
   otherwise.                                                              *)
LEMMA AnswerStep ==
    ASSUME IInv, NEW o \in Op, Answer(o)
    PROVE  IInv'
<1> DEFINE q == op[o]
           grant == [q EXCEPT !.handle = "open",
                              !.backend = IF q.backend = "orphaned" THEN "release" ELSE "granted"]
<1>1. q \in OpRecord /\ Shape(q) /\ op \in [Op -> OpRecord]
  BY OpShape
<1>2. q.backend \in {"pending", "orphaned"} /\ q.handle = "none"
      /\ UNCHANGED <<stored, agents, sessions, owner, factory, mounted>>
  BY <1>1 DEF Answer, Shape
<1>3. CASE /\ claim[q.id] = NoOp /\ claim' = [claim EXCEPT ![q.id] = o]
           /\ op' = [op EXCEPT ![o] = grant]
  <2>1. /\ grant \in OpRecord /\ grant.handle = "open" /\ grant.pc = q.pc
        /\ grant.backend = (IF q.backend = "orphaned" THEN "release" ELSE "granted")
        /\ grant.down = q.down /\ grant.created = q.created
        /\ grant.id = q.id /\ grant.owner = q.owner
    BY ZenonT(60), <1>1 DEF OpRecord
  <2> HIDE DEF grant
  <2>2. Shape(grant) /\ Keeps(q, grant)
    BY <1>1, <1>2, <2>1 DEF Shape, Keeps, Waits, Holds, Entering, Maintenance, Unpublished
  <2>3. claim \in [Id -> Op \cup {NoOp}] /\ NoOp \notin Op /\ q.id \in Id
    BY <1>1, LifecycleConstants DEF IInv, TypeOK, OpRecord
  <2>4. claim' \in [Id -> Op \cup {NoOp}]
        /\ \A i \in Id, p \in Op \ {o} : claim'[i] = p <=> claim[i] = p
    BY <1>3, <2>3
  <2>5. \A i \in Id : claim[i] # o
    BY <1>2 DEF IInv, Claims
  <2>6. ClaimsOf(grant, o)
    BY <1>3, <2>1, <2>3, <2>5 DEF ClaimsOf
  <2> QED
    BY <1>2, <1>3, <2>1, <2>2, <2>4, <2>6, LocalStep
<1>4. ASSUME NEW b \in {"none", "missing", "refused"}, UNCHANGED claim,
             op' = [op EXCEPT ![o] = [q EXCEPT !.backend = b]],
             b = "none" <=> q.backend = "orphaned"
      PROVE  IInv'
  <2> DEFINE r == [q EXCEPT !.backend = b]
  <2>1. /\ r \in OpRecord /\ r.handle = q.handle /\ r.pc = q.pc /\ r.backend = b
        /\ r.down = q.down /\ r.created = q.created /\ r.id = q.id /\ r.owner = q.owner
    BY <1>1, <1>4 DEF OpRecord
  <2>2. op' = [op EXCEPT ![o] = r] /\ Quiet
    BY <1>2, <1>4 DEF Quiet
  <2> HIDE DEF r
  <2>3. Shape(r) /\ Keeps(q, r)
    BY <1>1, <1>2, <1>4, <2>1 DEF Shape, Keeps, Waits, Holds, Entering, Maintenance, Unpublished
  <2> QED
    BY <2>1, <2>2, <2>3, QuietStep
<1>5. CASE /\ claim[q.id] = NoOp /\ claim' = [claim EXCEPT ![q.id] = o]
           /\ op' = [op EXCEPT ![o] = grant]
  BY <1>3, <1>5
<1>6. CASE /\ UNCHANGED claim
           /\ op' = [op EXCEPT ![o].backend =
                        IF @ = "orphaned" THEN "none"
                        ELSE IF Resumes(o) /\ q.id \notin stored THEN "missing" ELSE "refused"]
  <2> DEFINE b == IF q.backend = "orphaned" THEN "none"
                  ELSE IF Resumes(o) /\ q.id \notin stored THEN "missing" ELSE "refused"
  <2>1. op' = [op EXCEPT ![o] = [q EXCEPT !.backend = b]]
    BY <1>1, <1>6
  <2>2. b \in {"none", "missing", "refused"} /\ (b = "none" <=> q.backend = "orphaned")
    OBVIOUS
  <2> HIDE DEF b
  <2> QED
    BY <1>4, <1>6, <2>1, <2>2
<1> QED
  BY <1>5, <1>6 DEF Answer

(* Starting a teardown, its waits, the rejection after a rollback, and the
   caller's abort.                                                         *)
LEMMA TeardownStep ==
    ASSUME IInv, NEW o \in Op,
           \/ StartTeardown(o) \/ TearPublication(o) \/ TearDriver(o) \/ TearScope(o)
           \/ RolledBack(o) \/ CallerAbort(o)
    PROVE  IInv'
<1> DEFINE q == op[o]
<1>1. q \in OpRecord /\ Shape(q) /\ op \in [Op -> OpRecord]
  BY OpShape
<1>2. ASSUME NEW a \in BOOLEAN, NEW d \in {"publication", "idle", "scope", "close"},
             op' = [op EXCEPT ![o] = [q EXCEPT !.down = d, !.aborted = a]], Quiet,
             d = "publication" => q.pc \in Maintenance \cup {"rollback", "published"} /\ q.down = "no",
             d = "idle" => q.down = "publication" /\ q.pc # "announcing",
             d = "scope" => q.down = "idle" /\ q.pc \notin Maintenance,
             d = "close" => q.down = "scope",
             q.aborted \/ d = "publication" => a
      PROVE  IInv'
  <2> DEFINE r == [q EXCEPT !.down = d, !.aborted = a]
  <2>1. /\ r \in OpRecord /\ r.handle = q.handle /\ r.pc = q.pc /\ r.backend = q.backend
        /\ r.down = d /\ r.created = q.created /\ r.id = q.id /\ r.owner = q.owner
        /\ r.aborted = a
    BY ZenonT(60), <1>1 DEF OpRecord
  <2>2. op' = [op EXCEPT ![o] = r]
    BY <1>2
  <2> HIDE DEF r
  <2>3. q.down # "done" /\ q.pc \in Maintenance \cup {"rollback", "published"}
    BY <1>1, <1>2 DEF Shape, OpRecord, Unpublished, Settled, Maintenance
  <2>4. Shape(r)
    BY <1>1, <1>2, <2>1, <2>3 DEF Shape, Maintenance
  <2>5. Keeps(q, r)
    BY <1>1, <1>2, <2>1, <2>3 DEF Keeps, Waits, Holds, Entering, Maintenance, Unpublished
  <2> QED
    BY <1>2, <2>1, <2>2, <2>4, <2>5, QuietStep
<1>3. CASE StartTeardown(o)
  <2>1. op' = [op EXCEPT ![o] = [q EXCEPT !.down = "publication", !.aborted = TRUE]]
    BY <1>1, <1>3 DEF StartTeardown
  <2> QED
    BY <1>2, <1>3, <2>1 DEF StartTeardown
<1>4. ASSUME NEW from, NEW d \in {"idle", "scope", "close"}, Step(o, from, d)
      PROVE  op' = [op EXCEPT ![o] = [q EXCEPT !.down = d, !.aborted = q.aborted]]
             /\ q.aborted \in BOOLEAN /\ q.down = from
  <2>1. [q EXCEPT !.down = d] = [q EXCEPT !.down = d, !.aborted = q.aborted]
    BY <1>1 DEF OpRecord
  <2>2. op' = [op EXCEPT ![o] = [q EXCEPT !.down = d]]
    BY <1>1, <1>4 DEF Step
  <2>3. q.aborted \in BOOLEAN
    BY <1>1 DEF OpRecord
  <2> QED
    BY <1>4, <2>1, <2>2, <2>3 DEF Step
<1>5. CASE TearPublication(o)
  BY <1>2, <1>4, <1>5 DEF TearPublication
<1>6. CASE TearDriver(o)
  BY <1>2, <1>4, <1>6 DEF TearDriver
<1>7. CASE TearScope(o)
  BY <1>2, <1>4, <1>7 DEF TearScope
<1>8. CASE RolledBack(o)
  <2> DEFINE r == Failed(q)
  <2>1. op' = [op EXCEPT ![o] = r] /\ Quiet /\ q.pc = "rollback" /\ q.down = "done"
    BY <1>8 DEF RolledBack
  <2>2. /\ r \in OpRecord /\ r.handle = q.handle /\ r.pc = "failed" /\ r.backend = q.backend
        /\ r.down = q.down /\ r.created = q.created /\ r.id = q.id /\ r.owner = q.owner
    BY <1>1, FailedRecord
  <2> HIDE DEF r
  <2>3. Shape(r) /\ Keeps(q, r)
    BY <1>1, <2>1, <2>2 DEF Shape, Keeps, Waits, Holds, Entering, Maintenance, Unpublished
  <2> QED
    BY <2>1, <2>2, <2>3, QuietStep
<1>9. CASE CallerAbort(o)
  <2> DEFINE r == [q EXCEPT !.aborted = TRUE]
  <2>1. op' = [op EXCEPT ![o] = r] /\ Quiet
    BY <1>1, <1>9 DEF CallerAbort
  <2>2. /\ r \in OpRecord /\ r.aborted = TRUE /\ r.handle = q.handle /\ r.pc = q.pc /\ r.backend = q.backend
        /\ r.down = q.down /\ r.created = q.created /\ r.id = q.id /\ r.owner = q.owner
    BY <1>1 DEF OpRecord
  <2> HIDE DEF r
  <2>3. Shape(r) /\ Keeps(q, r)
    BY <1>1, <2>2 DEF Shape, Keeps, Waits, Holds
  <2> QED
    BY <2>1, <2>2, <2>3, QuietStep
<1> QED
  BY <1>3, <1>5, <1>6, <1>7, <1>8, <1>9

(* A step of one operation that enters or leaves the registries: what it
   must respect of them, besides what LocalStep asks.                      *)
LEMMA RegistryStep ==
    ASSUME IInv, NEW o \in Op, NEW r \in OpRecord, op' = [op EXCEPT ![o] = r],
           UNCHANGED <<claim, owner, factory, mounted>>, stored' \in SUBSET Id,
           agents' \in [Id -> Op \cup {NoOp}], sessions' \in [Id -> Op \cup {NoOp}],
           \A i \in Id, p \in Op \ {o} : (agents'[i] = p <=> agents[i] = p)
                                         /\ (sessions'[i] = p <=> sessions[i] = p),
           r.handle = op[o].handle, r.id = op[o].id, r.owner = op[o].owner, Shape(r),
           Waits(r) => Waits(op[o]), Holds(r) => Holds(op[o]),
           \A i \in Id : agents'[i] = o \/ sessions'[i] = o =>
              i = r.id /\ r.pc \in Entering /\ r.down # "done",
           r.created # "no" /\ r.down # "done" => agents'[r.id] = o /\ sessions'[r.id] = o
    PROVE  IInv'
<1>1. op'[o] = r /\ (\A p \in Op \ {o} : op'[p] = op[p]) /\ op' \in [Op -> OpRecord]
  BY DEF IInv, TypeOK
<1>2. TypeOK'
  BY <1>1 DEF IInv, TypeOK
<1>3. ASSUME NEW p \in Op PROVE Shape(op'[p]) /\ Entries(p)'
  <2>1. CASE p = o
    <3>1. Shape(op'[p])
      BY <1>1, <2>1
    <3>2. Entries(o)'
      BY <1>1 DEF Entries
    <3> QED
      BY <2>1, <3>1, <3>2
  <2>2. CASE p # o
    <3>1. op'[p] = op[p] /\ op[p].id \in Id
      BY <1>1, <2>2 DEF IInv, TypeOK, OpRecord
    <3>2. Shape(op[p]) /\ Entries(p)
      BY DEF IInv
    <3> QED
      BY <2>2, <3>1, <3>2 DEF Entries
  <2> QED
    BY <2>1, <2>2
<1>4. Disposals'
  <2>1. \A p \in Op : (Waits(op'[p]) => Waits(op[p])) /\ (Holds(op'[p]) => Holds(op[p]))
                      /\ op'[p].owner = op[p].owner
    BY <1>1
  <2>2. \A p \in Op : (UnderWay(p) <=> Waits(op[p])) /\ (UnderWay(p)' <=> Waits(op'[p]))
    BY DEF UnderWay, Waits
  <2>3. \A p \in Op : /\ Owned(p) /\ op[p].down # "done" <=> Holds(op[p])
                      /\ Owned(p)' /\ op'[p].down # "done" <=> Holds(op'[p])
    BY DEF Owned, Holds
  <2> QED
    BY <2>1, <2>2, <2>3 DEF IInv, Disposals
<1>5. Claims'
  BY <1>1 DEF IInv, Claims
<1> QED
  BY <1>2, <1>3, <1>4, <1>5 DEF IInv

(* Storing what setup logged and publishing the agent.                     *)
LEMMA PublishStep ==
    ASSUME IInv, NEW o \in Op, Store(o)
    PROVE  IInv'
<1> DEFINE q == op[o]
<1>1. q \in OpRecord /\ Shape(q) /\ op \in [Op -> OpRecord] /\ q.pc = "storing"
  BY OpShape DEF Store
<1>2. /\ agents \in [Id -> Op \cup {NoOp}] /\ sessions \in [Id -> Op \cup {NoOp}]
      /\ NoOp \notin Op /\ q.id \in Id /\ stored' \in SUBSET Id
      /\ UNCHANGED <<claim, owner, factory, mounted>>
  BY <1>1, LifecycleConstants DEF IInv, TypeOK, OpRecord, Store
<1>3. \A i \in Id : agents[i] # o /\ sessions[i] # o
  BY <1>1 DEF IInv, Entries, Entering
<1>4. ASSUME NEW pc \in {"rollback", "announcing"}, NEW c \in {"no", "running"},
             c = "running" <=> pc = "announcing",
             op' = [op EXCEPT ![o] = [q EXCEPT !.pc = pc, !.created = c]],
             agents' \in {agents, [agents EXCEPT ![q.id] = o]},
             sessions' \in {sessions, [sessions EXCEPT ![q.id] = o]},
             agents' # agents => agents[q.id] = NoOp,
             sessions' # sessions => sessions[q.id] = NoOp,
             pc = "announcing" => agents'[q.id] = o /\ sessions'[q.id] = o /\ ~q.aborted
      PROVE  IInv'
  <2> DEFINE r == [q EXCEPT !.pc = pc, !.created = c]
  <2>1. /\ r \in OpRecord /\ r.handle = q.handle /\ r.pc = pc /\ r.backend = q.backend
        /\ r.down = q.down /\ r.created = c /\ r.id = q.id /\ r.owner = q.owner
    BY ZenonT(60), <1>1, <1>4 DEF OpRecord, Unpublished
  <2>2. op' = [op EXCEPT ![o] = r]
    BY <1>4
  <2> HIDE DEF r
  <2>3. q.down \in {"no", "publication", "idle"} /\ q.created = "no"
    BY <1>1 DEF Shape, Maintenance
  <2>4. /\ Shape(r) /\ (Waits(r) => Waits(q)) /\ (Holds(r) => Holds(q))
    BY <1>1, <1>4, <2>1, <2>3 DEF Shape, Waits, Holds, Maintenance, Unpublished
  <2>5. /\ agents' \in [Id -> Op \cup {NoOp}] /\ sessions' \in [Id -> Op \cup {NoOp}]
        /\ \A i \in Id : /\ agents'[i] = o => i = q.id
                         /\ sessions'[i] = o => i = q.id
        /\ \A i \in Id, p \in Op \ {o} : agents'[i] = p <=> agents[i] = p
        /\ \A i \in Id, p \in Op \ {o} : sessions'[i] = p <=> sessions[i] = p
    BY <1>2, <1>3, <1>4
  <2>6. \A i \in Id : agents'[i] = o \/ sessions'[i] = o =>
           i = r.id /\ r.pc \in Entering /\ r.down # "done"
    BY <1>4, <2>1, <2>3, <2>5 DEF Entering
  <2>7. r.created # "no" /\ r.down # "done" => agents'[r.id] = o /\ sessions'[r.id] = o
    BY <1>4, <2>1
  <2> QED
    <3>1. \A i \in Id, p \in Op \ {o} : (agents'[i] = p <=> agents[i] = p)
                                         /\ (sessions'[i] = p <=> sessions[i] = p)
      BY <2>5
    <3> QED
      BY <1>2, <2>1, <2>2, <2>4, <2>5, <2>6, <2>7, <3>1, RegistryStep
<1>5. ASSUME NEW pc \in {"rollback", "announcing"}
      PROVE  [q EXCEPT !.pc = pc] = [q EXCEPT !.pc = pc, !.created = q.created]
  BY <1>1 DEF OpRecord
<1>6. q.created = "no"
  BY <1>1 DEF Shape
<1>7. ASSUME To(o, "rollback")
      PROVE  op' = [op EXCEPT ![o] = [q EXCEPT !.pc = "rollback", !.created = "no"]]
  BY <1>1, <1>5, <1>6, <1>7 DEF To
<1>8. CASE To(o, "rollback") /\ UNCHANGED <<agents, sessions>>
  BY <1>4, <1>7, <1>8
<1>9. CASE Publish(o) /\ ~(To(o, "rollback") /\ UNCHANGED <<agents, sessions>>)
  <2>1. sessions[q.id] = NoOp /\ sessions' = [sessions EXCEPT ![q.id] = o] /\ ~q.aborted
    BY <1>9 DEF Publish, AssertLive
  <2>2. CASE /\ agents[q.id] = NoOp /\ agents' = [agents EXCEPT ![q.id] = o]
             /\ op' = [op EXCEPT ![o].pc = "announcing", ![o].created = "running"]
    <3>1. op' = [op EXCEPT ![o] = [q EXCEPT !.pc = "announcing", !.created = "running"]]
      BY <1>1, <2>2
    <3>2. agents'[q.id] = o /\ sessions'[q.id] = o
      BY <1>2, <2>1, <2>2
    <3> QED
      BY <1>4, <2>1, <2>2, <3>1, <3>2
  <2>3. CASE /\ agents' = IF agents[q.id] = NoOp THEN [agents EXCEPT ![q.id] = o] ELSE agents
             /\ To(o, "rollback")
    BY <1>4, <1>7, <2>1, <2>3
  <2> QED
    BY <1>9, <2>2, <2>3 DEF Publish
<1> QED
  BY <1>8, <1>9 DEF Store

(* Leaving the registries, when the handle is closed.                      *)
LEMMA LeaveStep ==
    ASSUME IInv, NEW o \in Op, TearRegistries(o)
    PROVE  IInv'
<1> DEFINE q == op[o]
           r == [q EXCEPT !.down = "done"]
<1>1. q \in OpRecord /\ Shape(q) /\ op \in [Op -> OpRecord] /\ q.down = "detach"
  BY OpShape DEF TearRegistries
<1>2. /\ r \in OpRecord /\ r.handle = q.handle /\ r.pc = q.pc /\ r.backend = q.backend
      /\ r.down = "done" /\ r.created = q.created /\ r.id = q.id /\ r.owner = q.owner
  BY <1>1 DEF OpRecord
<1>3. op' = [op EXCEPT ![o] = r]
  BY <1>1 DEF TearRegistries
<1> HIDE DEF r
<1>4. Shape(r) /\ (Waits(r) => Waits(q)) /\ (Holds(r) => Holds(q))
  BY <1>1, <1>2 DEF Shape, Waits, Holds, Maintenance
<1>5. /\ agents \in [Id -> Op \cup {NoOp}] /\ sessions \in [Id -> Op \cup {NoOp}]
      /\ NoOp \notin Op /\ stored' \in SUBSET Id
      /\ UNCHANGED <<claim, owner, factory, mounted>>
  BY LifecycleConstants DEF IInv, TypeOK, TearRegistries
<1>6. /\ agents' \in [Id -> Op \cup {NoOp}] /\ sessions' \in [Id -> Op \cup {NoOp}]
      /\ \A i \in Id : agents'[i] # o /\ sessions'[i] # o
      /\ \A i \in Id, p \in Op \ {o} : (agents'[i] = p <=> agents[i] = p)
                                       /\ (sessions'[i] = p <=> sessions[i] = p)
  BY <1>5 DEF TearRegistries, Without
<1> QED
  BY <1>2, <1>3, <1>4, <1>5, <1>6, RegistryStep

(* The disposals of the factory and of owners.                             *)
LEMMA DisposalStep ==
    ASSUME IInv,
           \/ \E w \in Owner : UnloadOwner(w) \/ OwnerUnloaded(w)
           \/ DisposeFactory \/ FactoryDisposed
    PROVE  IInv'
<1>1. CASE \E w \in Owner : UnloadOwner(w) \/ OwnerUnloaded(w)
  <2>1. PICK w \in Owner : UnloadOwner(w) \/ OwnerUnloaded(w)
    BY <1>1
  <2>2. UNCHANGED <<op, claim, stored, agents, sessions, factory, mounted>>
    BY <2>1 DEF UnloadOwner, OwnerUnloaded
  <2>3. TypeOK'
    BY <2>1 DEF IInv, TypeOK, UnloadOwner, OwnerUnloaded
  <2>4. \A o \in Op : Shape(op'[o]) /\ Entries(o)'
    BY <2>2 DEF IInv, Entries
  <2>5. ASSUME NEW v \in Owner, NEW o \in Op, owner'[v] = "gone", op'[o].owner = v, Owned(o)'
        PROVE  op'[o].down = "done"
    <3>1. op[o].owner = v /\ Owned(o) /\ op'[o] = op[o]
      BY <2>2, <2>5 DEF Owned
    <3>2. CASE owner[v] = "gone"
      BY <3>1, <3>2 DEF IInv, Disposals
    <3>3. CASE owner[v] # "gone"
      <4>1. v = w /\ OwnerUnloaded(w)
        BY <2>1, <2>5, <3>3 DEF UnloadOwner, OwnerUnloaded, IInv, TypeOK
      <4> QED
        BY <3>1, <4>1 DEF OwnerUnloaded
    <3> QED
      BY <3>2, <3>3
  <2>6. Disposals'
    BY <2>2, <2>5 DEF IInv, Disposals, UnderWay
  <2>7. Claims'
    BY <2>2 DEF IInv, Claims
  <2> QED
    BY <2>3, <2>4, <2>6, <2>7 DEF IInv
<1>2. CASE DisposeFactory
  <2>1. /\ factory' = [state |-> "disposing", joined |-> {o \in Op : UnderWay(o)}]
        /\ op' = [o \in Op |-> [op[o] EXCEPT !.aborted = @ \/ Owned(o)]]
        /\ UNCHANGED <<claim, stored, agents, sessions, owner, mounted>>
    BY <1>2 DEF DisposeFactory
  <2>2. ASSUME NEW o \in Op
        PROVE  /\ op'[o] \in OpRecord /\ op'[o].handle = op[o].handle /\ op'[o].pc = op[o].pc
               /\ op'[o].backend = op[o].backend /\ op'[o].down = op[o].down
               /\ op'[o].created = op[o].created /\ op'[o].id = op[o].id
               /\ op'[o].owner = op[o].owner /\ (op[o].aborted => op'[o].aborted)
    <3>1. op[o] \in OpRecord
      BY OpShape
    <3> DEFINE a == op[o].aborted \/ Owned(o)
    <3>2. a \in BOOLEAN /\ (op[o].aborted => a)
      OBVIOUS
    <3>3. op'[o] = [op[o] EXCEPT !.aborted = a]
      BY <2>1
    <3> HIDE DEF a
    <3> QED
      BY <3>1, <3>2, <3>3 DEF OpRecord
  <2>3. TypeOK'
    BY <2>1, <2>2 DEF IInv, TypeOK
  <2>4. ASSUME NEW o \in Op PROVE Shape(op'[o]) /\ Entries(o)'
    <3>1. Shape(op[o]) /\ Entries(o)
      BY DEF IInv
    <3>2. Shape(op'[o])
      BY <2>2, <3>1 DEF Shape
    <3>3. Entries(o)'
      BY SMTT(30), <2>1, <2>2, <3>1 DEF Entries
    <3> QED
      BY <3>2, <3>3
  <2>5. \A o \in Op : (UnderWay(o)' <=> UnderWay(o)) /\ (Owned(o)' <=> Owned(o))
    BY <2>2 DEF UnderWay, Owned
  <2>6. Disposals'
    <3>1. /\ factory'.state = "disposing" /\ factory'.joined = {o \in Op : UnderWay(o)}
          /\ owner' = owner
      BY <2>1
    <3>2. \A w \in Owner, o \in Op :
             owner'[w] = "gone" /\ op'[o].owner = w /\ Owned(o)' => op'[o].down = "done"
      BY <2>2, <2>5, <3>1 DEF IInv, Disposals
    <3>3. \A o \in Op : UnderWay(o)' => o \in factory'.joined
      BY <2>5, <3>1
    <3>4. factory'.state # "gone"
      BY <3>1
    <3> QED
      BY <3>2, <3>3, <3>4 DEF Disposals
  <2>7. Claims'
    <3>1. /\ claim' = claim
          /\ \A o \in Op : op'[o].handle = op[o].handle /\ op'[o].id = op[o].id
      BY <2>1, <2>2
    <3> QED
      BY <3>1 DEF IInv, Claims
  <2> QED
    BY <2>3, <2>4, <2>6, <2>7 DEF IInv
<1>3. CASE FactoryDisposed
  <2>1. /\ factory.state = "disposing" /\ factory' = [factory EXCEPT !.state = "gone"]
        /\ UNCHANGED <<op, claim, stored, agents, sessions, owner, mounted>>
    BY <1>3 DEF FactoryDisposed
  <2>2. TypeOK' /\ factory'.state = "gone"
    BY <2>1 DEF IInv, TypeOK
  <2>3. \A o \in Op : Shape(op'[o]) /\ Entries(o)'
    BY <2>1 DEF IInv, Entries
  <2>4. ASSUME NEW o \in Op PROVE ~UnderWay(o)
    <3>1. o \in factory.joined => op[o].pc \in Settled /\ (Owned(o) => op[o].down = "done")
      BY <1>3 DEF FactoryDisposed
    <3>2. UnderWay(o) => o \in factory.joined
      BY <2>1 DEF IInv, Disposals
    <3> QED
      BY <3>1, <3>2 DEF UnderWay, Owned, Settled, Unpublished
  <2>5. Disposals'
    BY <2>1, <2>2, <2>4 DEF IInv, Disposals, UnderWay, Owned
  <2>6. Claims'
    BY <2>1 DEF IInv, Claims
  <2> QED
    BY <2>2, <2>3, <2>5, <2>6 DEF IInv
<1> QED
  BY <1>1, <1>2, <1>3

-----------------------------------------------------------------------------
(* Theorems.                                                               *)

(* The initial states satisfy the invariant.                               *)
LEMMA LifecycleInit == Init => IInv
<1> SUFFICES ASSUME Init PROVE IInv
  OBVIOUS
<1>1. PICK i \in Id, w \in Owner :
        op = [o \in Op |-> [pc |-> "new", kind |-> "create", id |-> i, owner |-> w,
                            signal |-> FALSE, backend |-> "none",
                            handle |-> "none", aborted |-> FALSE, down |-> "no",
                            created |-> "no"]]
  BY DEF Init
<1>2. NoOp \notin Op
  BY LifecycleConstants
<1>3. op \in [Op -> OpRecord]
  BY <1>1 DEF OpRecord, Kind
<1>4. TypeOK
  BY <1>3 DEF Init, TypeOK
<1>5. \A o \in Op : Shape(op[o]) /\ Entries(o)
  BY <1>1, <1>2 DEF Init, Shape, Entries, Maintenance
<1>6. Disposals
  BY DEF Init, Disposals
<1>7. Claims
  BY <1>1, <1>2 DEF Init, Claims
<1> QED
  BY <1>4, <1>5, <1>6, <1>7 DEF IInv

(* Every step preserves it.                                                *)
LEMMA LifecycleStep == IInv /\ [Next]_vars => IInv'
<1> SUFFICES ASSUME IInv, [Next]_vars PROVE IInv'
  OBVIOUS
<1>1. CASE UNCHANGED vars
  BY <1>1 DEF vars, IInv, TypeOK, Entries, Disposals, UnderWay, Owned, Claims
<1>2. ASSUME NEW o \in Op, Continue(o) PROVE IInv'
  BY <1>2, ContinueStep, HandleStep, PublishStep DEF Continue
<1>3. ASSUME NEW o \in Op, Backend(o) PROVE IInv'
  BY <1>3, AnswerStep, HandleStep DEF Backend
<1>4. ASSUME NEW o \in Op, Teardown(o) \/ Dispose(o) PROVE IInv'
  BY <1>4, TeardownStep, HandleStep, LeaveStep DEF Teardown, Dispose
<1> QED
  BY <1>1, <1>2, <1>3, <1>4, BeginStep, TeardownStep, DisposalStep DEF Next

(* The lifecycle's invariant holds throughout (agent-loop/src/index.ts).   *)
THEOREM LifecycleInvariant == Spec => []IInv
  BY LifecycleInit, LifecycleStep, PTL DEF Spec

(* The types of the lifecycle's state.                                     *)
THEOREM LifecycleTypes == Spec => []TypeOK
<1>1. IInv => TypeOK
  BY DEF IInv
<1> QED
  BY <1>1, LifecycleInvariant, PTL

(* A lifecycle that was announced keeps its entries in both registries until
   its handle is closed (the order of the teardown in prepare).            *)
THEOREM RegisteredWhileOpen == Spec => []RegistryOutlivesHandle
<1>1. IInv => RegistryOutlivesHandle
  BY DEF IInv, Shape, Entries, RegistryOutlivesHandle
<1> QED
  BY <1>1, LifecycleInvariant, PTL

(* No teardown closes the handle under an operation's read or append, or
   unwinds an agent its creation listeners are still told of.              *)
THEOREM ListenersAreSafe == Spec => []ListenersSeeLiveAgent
<1>1. IInv => ListenersSeeLiveAgent
  <2> SUFFICES ASSUME IInv, NEW o \in Op
               PROVE  /\ op[o].pc \in {"reading", "repairing"} \cup Maintenance =>
                            op[o].handle # "closed"
                      /\ op[o].pc = "announcing" =>
                            /\ agents[op[o].id] = o
                            /\ sessions[op[o].id] = o
                            /\ op[o].down \in {"no", "publication"}
    BY DEF ListenersSeeLiveAgent
  <2>1. Shape(op[o]) /\ Entries(o)
    BY DEF IInv
  <2> QED
    BY <2>1 DEF Shape, Entries, Maintenance
<1> QED
  BY <1>1, LifecycleInvariant, PTL

(* A failed operation leaves no entry and no open handle, and neither the
   factory's disposal nor an owner's unload resolves with something left.  *)
THEOREM NothingIsLeft == Spec => []NothingLeftBehind
<1>1. IInv => FailureLeavesNothing
  <2> SUFFICES ASSUME IInv, NEW o \in Op, op[o].pc = "failed"
               PROVE  /\ agents[op[o].id] # o /\ sessions[op[o].id] # o
                      /\ op[o].handle = "open" => op[o].backend = "release"
    BY DEF FailureLeavesNothing
  <2>1. Shape(op[o]) /\ Entries(o) /\ op[o].id \in Id
    BY DEF IInv, TypeOK, OpRecord
  <2> QED
    BY <2>1 DEF Shape, Entries, Entering
<1>2. IInv => NothingOutlivesFactory
  <2> SUFFICES ASSUME IInv PROVE NothingOutlivesFactory
    OBVIOUS
  <2>1. /\ agents \in [Id -> Op \cup {NoOp}] /\ sessions \in [Id -> Op \cup {NoOp}]
        /\ \A o \in Op : op[o].pc \in {"new"} \cup Unpublished \cup Settled
    BY DEF IInv, TypeOK, OpRecord
  <2>2. ASSUME NEW i \in Id, NEW o \in Op, agents[i] = o \/ sessions[i] = o
        PROVE  UnderWay(o) /\ Owned(o) /\ op[o].down # "done"
    BY <2>2 DEF IInv, Entries, Entering, UnderWay, Owned, Unpublished, Maintenance
  <2>3. ASSUME factory.state = "gone"
        PROVE  /\ \A i \in Id : agents[i] = NoOp /\ sessions[i] = NoOp
               /\ \A o \in Op : op[o].pc \notin Unpublished
    <3>1. \A o \in Op : ~UnderWay(o)
      BY <2>3 DEF IInv, Disposals
    <3> QED
      BY <2>1, <2>2, <3>1 DEF UnderWay
  <2>4. ASSUME NEW w \in Owner, NEW i \in Id, owner[w] = "gone",
               NEW o \in {agents[i], sessions[i]} \ {NoOp}
        PROVE  op[o].owner # w
    <3>1. o \in Op
      BY <2>1, <2>4
    <3> QED
      BY <2>2, <2>4, <3>1 DEF IInv, Disposals
  <2> QED
    BY <2>3, <2>4 DEF NothingOutlivesFactory
<1>3. IInv => NothingLeftBehind
  BY <1>1, <1>2 DEF NothingLeftBehind
<1> QED
  BY <1>3, LifecycleInvariant, PTL

(* However operations race, one handle at most writes a session, and the
   backend's claim is that operation's.                                    *)
THEOREM OneWriterPerSession ==
    Spec => [](\A o, p \in Op : /\ op[o].handle = "open" /\ op[p].handle = "open"
                               /\ op[o].id = op[p].id => o = p)
<1>1. IInv => \A o, p \in Op : /\ op[o].handle = "open" /\ op[p].handle = "open"
                              /\ op[o].id = op[p].id => o = p
  BY DEF IInv, TypeOK, OpRecord, Claims
<1> QED
  BY <1>1, LifecycleInvariant, PTL
=============================================================================
