--------------------------- MODULE ScheduleProofs ---------------------------
(***************************************************************************)
(* What is proved of the schedule service for every set of tasks, sessions *)
(* and rules, every calendar and every number of calls and faults.         *)
(*                                                                         *)
(* The invariant comes in layers, each proved from those before it: what   *)
(* the operation in its slot holds, with the types; which reminders have a *)
(* timer or a drive; what a saved delivery rests on; and how often an      *)
(* occurrence has been told.                                               *)
(***************************************************************************)
EXTENDS ScheduleService, FiniteSetTheorems, SequenceTheorems, WellFoundedInduction, TLAPS

\* What has gone wrong so far.
Mishaps == faults + refused

Telling == work.kind = "drive" /\ pc \in {"flushing", "writing", "refused"}

\* What the operation in its slot holds: nothing, a call's or a stop's write,
\* or the rows of a drive, which are still as its scan saw them.
Slots ==
    /\ work = Idle => pc = "idle" /\ writing = NoWrite /\ left = {} /\ group = {}
    /\ work.kind \in {"create", "update", "delete"} =>
          pc \in {"writing", "refused"} /\ writing.task = work.task /\ left = {} /\ group = {}
    /\ work.kind = "stop" =>
          /\ pc \in {"writing", "refused"} /\ writing.task \in Task \ left
          /\ writing.row = NoRow /\ group = {}
    /\ work.kind = "drive" =>
          /\ pc \in {"resolving", "flushing", "writing", "refused"}
          /\ group # {} /\ group \cap left = {}
          /\ \A t \in group \cup left : scanned[t] = tasks[t] /\ Active(tasks[t])
          /\ \A t, u \in group : scanned[t].session = scanned[u].session
          /\ pc \in {"writing", "refused"} =>
                /\ writing.task \in group
                /\ writing.row = DeliveredRow(scanned[writing.task], decision, acked, Sent)
    /\ Telling => inbox # <<>> /\ \A t \in group : scanned[t].record.at <= decision

\* A service that is not open holds nothing in memory; its storage closes only once
\* its agents admit nothing.
Closed ==
    /\ phase \in {"closed", "opening"} =>
          /\ work = Idle /\ running = "none" /\ ~timer /\ ~requested /\ tasks = NoTable
          /\ \A i \in DOMAIN queue : queue[i].kind # "drive"
    /\ phase = "closed" => queue = <<>>
    /\ storage # "open" => phase = "closed" \/ ~admission
    /\ phase # "open" => ~timer

\* There is one drive, in the FIFO or in its slot, while the run waits for it.
Drives ==
    /\ running # "driving" =>
          work.kind # "drive" /\ \A i \in DOMAIN queue : queue[i].kind # "drive"
    /\ work.kind = "drive" => \A i \in DOMAIN queue : queue[i].kind # "drive"
    /\ \A i, k \in DOMAIN queue : queue[i].kind = "drive" /\ queue[k].kind = "drive" => i = k

\* Unless a drive is still to come, active rows have a timer.
Expecting ==
    \/ timer
    \/ running = "driving"
    \/ running # "none" /\ requested

Reminded == phase = "open" /\ admission /\ ~Expecting => Obligations = {}

\* What a stop has not removed it is still going to, or one of its writes failed.
Stops ==
    work.kind = "stop" /\ ~work.partial =>
        \A t \in Task : Active(tasks[t]) /\ tasks[t].session = work.session =>
            t \in left \cup {writing.task}

\* Backed and ReceiptIsBacked, of a row and the messages of an inbox.
BackedIn(box, t, d) ==
    /\ d.message \in DOMAIN box
    /\ box[d.message].state = "durable"
    /\ <<t, d.at>> \in box[d.message].items

RowBacked(box, t, row) ==
    /\ \A i \in DOMAIN row.history : BackedIn(box, t, row.history[i])
    /\ row.status = "inactive" => BackedIn(box, t, row.last) /\ row.last.at = row.record.at
    /\ Reopens(row)

\* Rows rest on durable messages, the one being written too.
Receipts ==
    /\ \A t \in Task : RowBacked(inbox, t, tasks[t]) /\ RowBacked(inbox, t, disk[t])
    /\ pc \in {"writing", "refused"} => RowBacked(inbox, writing.task, writing.row)
    /\ \A i \in DOMAIN queue : queue[i].kind = "create" =>
          /\ queue[i].row.history = <<>> /\ queue[i].row.last = NoReceipt
          /\ queue[i].row.status = "active"
    /\ Telling =>
          /\ pc \in {"writing", "refused"} => inbox[Sent].state = "durable"
          /\ \A t \in group :
                /\ <<t, Occurrence(scanned[t].record, decision)>> \in inbox[Sent].items
                /\ \A i \in DOMAIN scanned[t].history : scanned[t].history[i].message < Sent

\* The messages of an inbox that tell of an occurrence.
Tellings(box, t, at) == {i \in DOMAIN box : <<t, at>> \in box[i].items}
Count(box, t, at) == Cardinality(Tellings(box, t, at))

\* A reminder that is not created yet has no row and was never told.
Unborn(t) == t \notin given \/ \E i \in DOMAIN queue : queue[i].kind = "create" /\ queue[i].task = t

Births ==
    /\ \A t \in Task : Unborn(t) =>
          tasks[t] = NoRow /\ disk[t] = NoRow /\ \A at \in Time : Tellings(inbox, t, at) = {}
    /\ \A i, k \in DOMAIN queue :
          queue[i].kind = "create" /\ queue[k].kind = "create" /\ queue[i].task = queue[k].task
             => i = k
    /\ \A i \in DOMAIN queue : queue[i].kind = "create" => queue[i].task \in given
    /\ \A t \in left \cup group : ~Unborn(t)
    /\ pc \in {"writing", "refused"} => ~Unborn(writing.task)

\* An occurrence that can still be told was told at most once for each mishap.
Repeats ==
    \A t \in Task, at \in Time :
        /\ Count(inbox, t, at) <= 1 + Mishaps
        /\ at > now => Count(inbox, t, at) <= Mishaps
        /\ \A row \in {tasks[t], disk[t]} :
              Active(row) /\ row.record.at <= at /\ ~(Telling /\ t \in group)
                 => Count(inbox, t, at) <= Mishaps
        /\ pc \in {"writing", "refused"} /\ writing.task = t /\ Active(writing.row)
             /\ writing.row.record.at <= at
              => Count(inbox, t, at) <= Mishaps
        /\ Telling /\ t \in group /\ at > decision => Count(inbox, t, at) <= Mishaps

IInv == TypeOK /\ Slots /\ Closed /\ Drives /\ Reminded /\ Stops /\ Receipts /\ Births /\ Repeats

-----------------------------------------------------------------------------
(* Numbers.                                                                *)

\* A set of natural numbers has a least one.
LEMMA LeastNumber ==
    ASSUME NEW S \in SUBSET Nat, S # {}
    PROVE  \E x \in S : \A y \in S : x <= y
<1>1. PICK x \in S : \A y \in S : ~(<<y, x>> \in OpToRel(<, Nat))
  BY NatLessThanWellFounded, WFMin
<1>2. ASSUME NEW y \in S PROVE x <= y
  <2>1. x \in Nat /\ y \in Nat
    OBVIOUS
  <2>2. ~(<<y, x>> \in OpToRel(<, Nat))
    BY <1>1
  <2>3. ~(y < x)
    BY <2>1, <2>2 DEF OpToRel
  <2> QED
    BY <2>1, <2>3
<1> QED
  BY <1>2

\* Min is what it says.
LEMMA MinOf ==
    ASSUME NEW S \in SUBSET Nat, S # {}
    PROVE  Min(S) \in S /\ \A y \in S : Min(S) <= y
  BY LeastNumber DEF Min

\* So is Max, of a set with a bound.
LEMMA MaxOf ==
    ASSUME NEW N \in Nat, NEW S \in SUBSET (0 .. N), S # {}
    PROVE  Max(S) \in S /\ \A y \in S : y <= Max(S)
<1> DEFINE T == {n \in Nat : N - n \in S}
<1>1. T # {}
  <2>1. PICK s \in S : TRUE
    OBVIOUS
  <2>2. N - s \in Nat /\ N - (N - s) = s
    BY <2>1
  <2> QED
    BY <2>1, <2>2
<1>2. PICK n \in T : \A m \in T : n <= m
  BY <1>1, LeastNumber
<1>3. ASSUME NEW y \in S PROVE y <= N - n
  <2>1. N - y \in Nat /\ N - (N - y) = y /\ y \in Int
    OBVIOUS
  <2>2. N - y \in T
    BY <2>1
  <2> QED
    BY <1>2, <2>1, <2>2
<1>4. \E x \in S : \A y \in S : x >= y
  BY <1>2, <1>3
<1> QED
  BY <1>4 DEF Max

\* The calendar and the clock are numbers up to MaxTime.
LEMMA Instants ==
    /\ MaxTime \in Nat
    /\ \A t \in Time : t \in Nat /\ t <= MaxTime
    /\ \A c \in Calendar : c \in Nat /\ c <= MaxTime /\ c \in Time
  BY MaxTimeAssumption, CalendarAssumption DEF Time

-----------------------------------------------------------------------------
(* Rules.                                                                  *)

\* An accepted rule has a target ahead of the clock.
LEMMA AcceptedAhead ==
    ASSUME NEW kind \in Kind, NEW target \in Time, NEW text \in Text, NEW when \in Time,
           NEW r \in Accepted(kind, target, text, when)
    PROVE  r \in Record /\ when < r.at
<1> DEFINE at == CASE kind = "once"  -> target
                   [] kind = "every" -> when + Interval
                   [] kind = "wall"  -> Min({c \in Calendar : c > when} \cup {MaxTime + 1})
<1>1. r = [kind |-> kind, at |-> at, text |-> text] /\ when < r.at /\ r.at <= MaxTime
  BY DEF Accepted
<1>2. kind \in {"once", "every", "wall"}
  BY KindAssumption
<1>3. at \in Nat
  <2>1. CASE kind = "once"
    BY <2>1, MaxTimeAssumption DEF Time
  <2>2. CASE kind = "every"
    BY <2>2, IntervalAssumption, MaxTimeAssumption DEF Time
  <2>3. CASE kind = "wall"
    <3> DEFINE S == {c \in Calendar : c > when} \cup {MaxTime + 1}
    <3>1. S # {} /\ \A s \in S : s \in Nat
      BY Instants
    <3> HIDE DEF S
    <3>2. Min(S) \in Nat
      BY <3>1, MinOf
    <3>3. at = Min(S)
      BY <2>3 DEF S
    <3> QED
      BY <3>2, <3>3
  <2> QED
    BY <1>2, <2>1, <2>2, <2>3
<1> HIDE DEF at
<1> QED
  BY <1>1, <1>3, MaxTimeAssumption DEF Record, Time

\* The occurrence a decision tells of lies between the target and the decision.
LEMMA OccurrenceDue ==
    ASSUME NEW r \in Record, NEW when \in Time, r.at <= when
    PROVE  /\ Occurrence(r, when) \in Time
           /\ r.at <= Occurrence(r, when) /\ Occurrence(r, when) <= when
<1>1. r.at \in Nat /\ when \in Nat /\ r.at <= MaxTime /\ when <= MaxTime /\ MaxTime \in Nat
  BY MaxTimeAssumption DEF Record, Time
<1>2. r.kind \in {"once", "every", "wall"}
  BY KindAssumption DEF Record
<1>3. CASE r.kind = "once"
  BY <1>1, <1>3 DEF Occurrence, Time
<1>4. CASE r.kind = "every"
  <2> DEFINE a == when - r.at
             k == (a \div Interval) * Interval
  <2>1. a \in Nat
    BY <1>1
  <2>2. Occurrence(r, when) = r.at + k
    BY <1>4 DEF Occurrence
  <2> HIDE DEF a
  <2>3. k \in Nat /\ k <= a
    BY <2>1, IntervalAssumption
  <2> HIDE DEF k
  <2> QED
    BY <1>1, <2>2, <2>3 DEF Time, a
<1>5. CASE r.kind = "wall"
  <2> DEFINE S == {r.at} \cup {c \in Calendar : r.at <= c /\ c <= when}
  <2>1. r.at \in S /\ \A s \in S : s \in 0 .. MaxTime /\ s <= when
    BY <1>1, Instants
  <2>3. Occurrence(r, when) = Max(S)
    BY <1>5 DEF Occurrence
  <2> HIDE DEF S
  <2>2. Max(S) \in S /\ \A y \in S : y <= Max(S)
    BY <1>1, <2>1, MaxOf
  <2> QED
    BY <1>1, <2>1, <2>2, <2>3 DEF Time
<1> QED
  BY <1>2, <1>3, <1>4, <1>5

\* The next target, if there is one, lies behind the decision.
LEMMA NextAhead ==
    ASSUME NEW r \in Record, NEW when \in Time, r.at <= when,
           NextTargets(r, when) # {}
    PROVE  Max(NextTargets(r, when)) \in Time /\ when < Max(NextTargets(r, when))
<1>1. r.at \in Nat /\ when \in Nat /\ r.at <= MaxTime /\ when <= MaxTime /\ MaxTime \in Nat
  BY MaxTimeAssumption DEF Record, Time
<1>2. r.kind \in {"once", "every", "wall"}
  BY KindAssumption DEF Record
<1>3. ASSUME NEW t \in NextTargets(r, when)
      PROVE  t \in Time /\ when < t
  <2>1. CASE r.kind = "once"
    BY <1>3, <2>1 DEF NextTargets
  <2>2. CASE r.kind = "every"
    <3> DEFINE a == when - r.at
               k == (a \div Interval) * Interval
    <3>1. a \in Nat
      BY <1>1
    <3>2. t = r.at + k + Interval /\ t <= MaxTime
      BY <1>3, <2>2 DEF NextTargets, Occurrence
    <3> HIDE DEF a
    <3>3. k \in Nat /\ k <= a /\ a < k + Interval
      BY <3>1, IntervalAssumption
    <3> HIDE DEF k
    <3> QED
      BY <1>1, <3>2, <3>3, IntervalAssumption DEF Time, a
  <2>3. CASE r.kind = "wall"
    <3> DEFINE S == {c \in Calendar : c > when}
    <3>1. S # {} /\ t = Min(S)
      BY <1>3, <2>3 DEF NextTargets
    <3>2. \A s \in S : s \in Nat /\ s \in Time /\ when < s
      BY Instants
    <3> HIDE DEF S
    <3>3. t \in S
      BY <3>1, <3>2, MinOf
    <3> QED
      BY <3>2, <3>3
  <2> QED
    BY <1>2, <2>1, <2>2, <2>3
<1>4. NextTargets(r, when) \in SUBSET (0 .. MaxTime)
  BY <1>3 DEF Time
<1>5. Max(NextTargets(r, when)) \in NextTargets(r, when)
  BY <1>1, <1>4, MaxOf
<1> QED
  BY <1>3, <1>5

-----------------------------------------------------------------------------
(* Histories.                                                              *)

\* The members of P up to m, listed in order by e.
Lists(e, n, P, m) ==
    /\ e \in [1 .. n -> P]
    /\ \A i \in 1 .. n : e[i] <= m
    /\ \A i, k \in 1 .. n : i < k => e[i] < e[k]
    /\ \A p \in P : p <= m => \E i \in 1 .. n : e[i] = p

Listed(P, m) == \E n \in 0 .. m : \E e \in [1 .. n -> P] : Lists(e, n, P, m)

\* A set of positions can be listed in order.
LEMMA Listing ==
    ASSUME NEW N \in Nat, NEW P \in SUBSET (1 .. N)
    PROVE  Listed(P, N)
<1> DEFINE Bad == {m \in 0 .. N : ~Listed(P, m)}
<1>1. SUFFICES ASSUME ~Listed(P, N) PROVE FALSE
  OBVIOUS
<1>2. N \in Bad /\ \A m \in Bad : m \in Nat
  BY <1>1
<1>3. PICK m \in Bad : \A k \in Bad : m <= k
  <2> HIDE DEF Bad
  <2> QED
    BY <1>2, LeastNumber
<1>4. m \in 0 .. N /\ ~Listed(P, m) /\ \A k \in 0 .. N : k < m => Listed(P, k)
  BY <1>3
<1> HIDE DEF Bad
<1>5. m # 0
  <2> DEFINE e == [i \in 1 .. 0 |-> 0]
  <2>3. \A i \in 1 .. 0 : FALSE
    OBVIOUS
  <2>4. e \in [1 .. 0 -> P]
    BY <2>3
  <2>5. \A p \in P : ~(p <= 0)
    OBVIOUS
  <2> HIDE DEF e
  <2>1. Lists(e, 0, P, 0)
    BY <2>3, <2>4, <2>5 DEF Lists
  <2>6. 0 \in 0 .. 0
    OBVIOUS
  <2>2. Listed(P, 0)
    BY <2>1, <2>4, <2>6 DEF Listed
  <2> QED
    BY <1>4, <2>2
<1>6. m \in Nat \ {0} /\ m - 1 \in 0 .. N /\ m - 1 < m
  BY <1>4, <1>5
<1>7. PICK n \in 0 .. m - 1 : \E e \in [1 .. n -> P] : Lists(e, n, P, m - 1)
  BY <1>4, <1>6 DEF Listed
<1>8. PICK e \in [1 .. n -> P] : Lists(e, n, P, m - 1)
  BY <1>7
<1>9. n \in Nat /\ n \in 0 .. m /\ n + 1 \in 0 .. m
  BY <1>6, <1>7
<1>12. \A i \in 1 .. n : e[i] \in Nat
  <2>1. \A i \in 1 .. n : e[i] \in P
    BY <1>8
  <2>2. \A p \in P : p \in Nat
    OBVIOUS
  <2> QED
    BY <2>1, <2>2
<1>10. CASE m \notin P
  <2>2. \A p \in P : p <= m => p <= m - 1
    BY <1>6, <1>10
  <2>3. \A i \in 1 .. n : e[i] \in Nat /\ e[i] <= m - 1
    BY <1>8, <1>12 DEF Lists
  <2>4. \A i \in 1 .. n : e[i] <= m
    BY <1>6, <2>3
  <2>1. Lists(e, n, P, m)
    BY <1>8, <2>2, <2>4 DEF Lists
  <2> QED
    BY <1>4, <1>9, <2>1 DEF Listed
<1>11. CASE m \in P
  <2> DEFINE f == [i \in 1 .. n + 1 |-> IF i = n + 1 THEN m ELSE e[i]]
  <2>1. f \in [1 .. n + 1 -> P] /\ f[n + 1] = m /\ \A i \in 1 .. n : f[i] = e[i]
    BY <1>8, <1>9, <1>11
  <2> HIDE DEF f
  <2>2. \A i \in 1 .. n + 1 : i = n + 1 \/ i \in 1 .. n
    BY <1>9
  <2>8. \A i \in 1 .. n : e[i] \in Nat /\ e[i] <= m - 1
    BY <1>8, <1>12 DEF Lists
  <2>9. \A i \in 1 .. n : i \in 1 .. n + 1
    BY <1>9
  <2>3. \A i \in 1 .. n : i \in 1 .. n + 1 /\ e[i] <= m - 1 /\ e[i] \in Nat /\ e[i] < m
    BY <1>6, <2>8, <2>9
  <2>4. \A i, k \in 1 .. n + 1 : i < k => f[i] < f[k]
    BY <1>8, <1>9, <2>1, <2>2, <2>3 DEF Lists
  <2>5. \A p \in P : p <= m => \E i \in 1 .. n + 1 : f[i] = p
    BY <1>6, <1>8, <1>9, <2>1, <2>3 DEF Lists
  <2>6. \A i \in 1 .. n + 1 : f[i] <= m
    BY <1>6, <1>8, <2>1, <2>2, <2>3
  <2>7. Lists(f, n + 1, P, m)
    BY <2>1, <2>4, <2>5, <2>6 DEF Lists
  <2> QED
    BY <1>4, <1>9, <2>1, <2>7 DEF Listed
<1> QED
  BY <1>10, <1>11

\* What InOrder returns: the entries at these positions, in their order.
LEMMA Ordered ==
    ASSUME NEW S, NEW s \in Seq(S), NEW P \in SUBSET (1 .. Len(s))
    PROVE  \E n \in 0 .. Len(s) : \E e \in [1 .. n -> P] :
              /\ InOrder(s, P) = [i \in 1 .. n |-> s[e[i]]]
              /\ \A i, k \in 1 .. n : i < k => e[i] < e[k]
              /\ \A p \in P : \E i \in 1 .. n : e[i] = p
<1> DEFINE N == Len(s)
           U == UNION {[1 .. n -> P] : n \in 0 .. N}
           Right(e) == /\ \A i, k \in DOMAIN e : i < k => e[i] < e[k]
                       /\ \A p \in P : \E i \in DOMAIN e : e[i] = p
           at == CHOOSE e \in U : Right(e)
<1>1. N \in Nat /\ P \in SUBSET (1 .. N)
  OBVIOUS
<1>2. InOrder(s, P) = [i \in DOMAIN at |-> s[at[i]]]
  BY DEF InOrder
<1>3. \E e \in U : Right(e)
  <2>1. PICK n \in 0 .. N : \E e \in [1 .. n -> P] : Lists(e, n, P, N)
    BY <1>1, Listing DEF Listed
  <2>2. PICK e \in [1 .. n -> P] : Lists(e, n, P, N)
    BY <2>1
  <2>3. e \in U
    OBVIOUS
  <2>4. \A p \in P : p <= N
    BY <1>1
  <2>5. DOMAIN e = 1 .. n
    OBVIOUS
  <2>6. Right(e)
    BY <2>2, <2>4, <2>5 DEF Lists
  <2> HIDE DEF U, Right
  <2> QED
    BY <2>3, <2>6
<1>4. at \in U /\ Right(at)
  <2> HIDE DEF U, Right
  <2> QED
    BY <1>3
<1> HIDE DEF at
<1>5. PICK n \in 0 .. N : at \in [1 .. n -> P]
  BY <1>4
<1>6. DOMAIN at = 1 .. n
  BY <1>5
<1> QED
  BY SMTT(30), <1>2, <1>4, <1>5, <1>6

\* A row that stands for a reminder.
Real(row) ==
    row \in [session : Session, record : Record, status : {"active", "inactive"},
            last : Receipt, history : Seq(Receipt)]

\* What every row is.
LEMMA RowsAreReal ==
    ASSUME NEW row \in Row
    PROVE  /\ row = NoRow \/ Real(row)
           /\ row.history \in Seq(Receipt) /\ row.last \in Receipt
           /\ Active(row) \/ row.status = "inactive" => Real(row)
<1>1. CASE row = NoRow
  <2>1. NoReceipt \in Receipt
    BY MaxTimeAssumption DEF NoReceipt, Receipt, Time
  <2>2. <<>> \in Seq(Receipt)
    OBVIOUS
  <2> QED
    BY <1>1, <2>1, <2>2 DEF NoRow, Active
<1>2. CASE Real(row)
  BY <1>2 DEF Real
<1> QED
  BY <1>1, <1>2 DEF Row, Real

\* The row that stands for none.
LEMMA NoRowIsNone ==
    /\ NoRow \in Row /\ ~Active(NoRow) /\ NoRow.status # "inactive" /\ ~Real(NoRow)
    /\ NoRow.history = <<>> /\ NoRow.last = NoReceipt
  BY DEF Row, NoRow, Active, Real

\* What appendDelivery makes of a history: entries of the old one and the new
\* receipt, which is the last; no message is recorded twice.
Follows(new, old, receipt) ==
    /\ new \in Seq(Receipt) /\ new # <<>> /\ new[Len(new)] = receipt
    /\ \A i \in DOMAIN new : new[i] = receipt \/ \E k \in DOMAIN old : new[i] = old[k]
    /\ (\A i, k \in DOMAIN old : old[i].message = old[k].message => i = k)
       /\ (\A i \in DOMAIN old : old[i].message # receipt.message)
         => \A i, k \in DOMAIN new : new[i].message = new[k].message => i = k

\* The history of a row once a delivery joins it.
LEMMA HistoryFollows ==
    ASSUME NEW row \in Row, NEW receipt \in Receipt
    PROVE  Follows(WithDelivery(row, receipt).history, row.history, receipt)
<1> DEFINE old == row.history
           long == Append(old, receipt)
           P == {i \in DOMAIN long : long[i].when >= receipt.when - HistoryDays}
           kept == InOrder(long, P)
           from == IF Len(kept) > HistoryRecords THEN Len(kept) - HistoryRecords + 1 ELSE 1
           new == SubSeq(kept, from, Len(kept))
<1>1. old \in Seq(Receipt)
  BY RowsAreReal
<1>2. WithDelivery(row, receipt).history = new
  BY <1>1 DEF WithDelivery, Row, NoRow
<1>3. /\ long \in Seq(Receipt) /\ Len(long) = Len(old) + 1 /\ DOMAIN long = 1 .. Len(long)
      /\ long[Len(long)] = receipt
      /\ \A i \in 1 .. Len(old) : long[i] = old[i]
      /\ Len(old) \in Nat /\ DOMAIN old = 1 .. Len(old)
  BY <1>1
<1> HIDE DEF long
<1>4. P \in SUBSET (1 .. Len(long)) /\ Len(long) \in P
  BY SMTT(30), <1>3, HistoryAssumption, MaxTimeAssumption DEF Receipt, Time
<1>5. PICK n \in 0 .. Len(long) : \E e \in [1 .. n -> P] :
              /\ kept = [i \in 1 .. n |-> long[e[i]]]
              /\ \A i, k \in 1 .. n : i < k => e[i] < e[k]
              /\ \A p \in P : \E i \in 1 .. n : e[i] = p
  <2> HIDE DEF P
  <2>1. long \in Seq(Receipt) /\ P \in SUBSET (1 .. Len(long))
    BY <1>3, <1>4
  <2> QED
    BY SMTT(30), <2>1, Ordered
<1>6. PICK e \in [1 .. n -> P] :
              /\ kept = [i \in 1 .. n |-> long[e[i]]]
              /\ \A i, k \in 1 .. n : i < k => e[i] < e[k]
              /\ \A p \in P : \E i \in 1 .. n : e[i] = p
  BY <1>5
<1> HIDE DEF P, kept
<1>7. /\ n \in Nat
      /\ \A i \in 1 .. n : e[i] \in 1 .. Len(long) /\ kept[i] = long[e[i]] /\ kept[i] \in Receipt
  <2>1. n \in Nat
    BY <1>3, <1>5
  <2>2. \A i \in 1 .. n : e[i] \in 1 .. Len(long)
    BY <1>4, <1>6
  <2>3. \A i \in 1 .. n : kept[i] = long[e[i]]
    BY <1>6
  <2>4. \A k \in 1 .. Len(long) : long[k] \in Receipt
    BY <1>3
  <2> QED
    BY <2>1, <2>2, <2>3, <2>4
<1>8. kept \in Seq(Receipt) /\ Len(kept) = n
  BY <1>6, <1>7
<1>9. n # 0 /\ e[n] = Len(long)
  <2>1. PICK i \in 1 .. n : e[i] = Len(long)
    BY <1>4, <1>6
  <2>2. n \in 1 .. n /\ (i = n \/ i < n)
    BY <1>7
  <2>3. ~(e[i] < e[n])
    <3>1. e[n] <= Len(long) /\ e[n] \in Nat /\ Len(long) \in Nat
      BY <1>3, <1>7, <2>2
    <3> QED
      BY <2>1, <3>1
  <2> QED
    BY <1>6, <2>1, <2>2, <2>3
<1>10. from \in 1 .. n
  BY <1>7, <1>8, <1>9, HistoryAssumption
<1> HIDE DEF from
<1>11. /\ new \in Seq(Receipt) /\ Len(new) = n - from + 1
       /\ \A i \in 1 .. n - from + 1 : new[i] = kept[from + i - 1]
  BY <1>7, <1>8, <1>10
<1> DEFINE M == n - from + 1
<1>12. M \in Nat /\ M # 0 /\ from + M - 1 = n /\ M \in 1 .. M
       /\ \A i \in 1 .. M : from + i - 1 \in 1 .. n
  BY <1>7, <1>10
<1> HIDE DEF new
<1>13. DOMAIN new = 1 .. M /\ Len(new) = M /\ new # <<>>
  BY <1>11, <1>12
<1>14. new[Len(new)] = receipt
  BY <1>3, <1>7, <1>9, <1>11, <1>12, <1>13
<1>15. \A i \in 1 .. M : new[i] = long[e[from + i - 1]] /\ e[from + i - 1] \in 1 .. Len(long)
  BY <1>7, <1>11, <1>12
<1>16. \A j \in 1 .. Len(long) : long[j] = receipt \/ (j \in DOMAIN old /\ long[j] = old[j])
  BY <1>3
<1>17. ASSUME \A i, k \in DOMAIN old : old[i].message = old[k].message => i = k,
              \A i \in DOMAIN old : old[i].message # receipt.message,
              NEW i \in 1 .. M, NEW k \in 1 .. M, new[i].message = new[k].message
       PROVE  i = k
  <2>1. \A a, b \in 1 .. Len(long) : long[a].message = long[b].message => a = b
    <3> TAKE a, b \in 1 .. Len(long)
    <3> HAVE long[a].message = long[b].message
    <3>1. ASSUME NEW c \in 1 .. Len(long), c # Len(long) PROVE c \in DOMAIN old
      <4>1. Len(old) \in Nat /\ Len(long) = Len(old) + 1 /\ DOMAIN old = 1 .. Len(old)
        BY <1>3
      <4>2. c \in 1 .. Len(old)
        BY ONLY <4>1, <3>1, c \in 1 .. Len(long)
      <4> QED
        BY ONLY <4>1, <4>2
    <3>2. ASSUME NEW c \in DOMAIN old PROVE long[c] = old[c]
      BY <1>3
    <3>3. CASE a \in DOMAIN old /\ b \in DOMAIN old
      BY <1>17, <3>2, <3>3
    <3>4. ASSUME NEW c \in DOMAIN old PROVE long[c].message # long[Len(long)].message
      BY <1>3, <1>17, <3>2
    <3> QED
      BY <3>1, <3>3, <3>4
  <2> DEFINE a == from + i - 1
             b == from + k - 1
  <2>2. a \in 1 .. n /\ b \in 1 .. n /\ (a = b \/ a < b \/ b < a) /\ (a = b => i = k)
    BY <1>7, <1>10, <1>12
  <2>3. e[a] = e[b]
    BY SMTT(30), <1>15, <1>17, <2>1
  <2>4. e[a] \in Nat /\ e[b] \in Nat
    BY <1>7, <2>2
  <2> HIDE DEF a, b
  <2> QED
    BY <1>6, <2>2, <2>3, <2>4
<1>18. \A i \in DOMAIN new : new[i] = receipt \/ \E k \in DOMAIN old : new[i] = old[k]
  BY <1>13, <1>15, <1>16
<1>19. (\A i, k \in DOMAIN old : old[i].message = old[k].message => i = k)
       /\ (\A i \in DOMAIN old : old[i].message # receipt.message)
         => \A i, k \in DOMAIN new : new[i].message = new[k].message => i = k
  BY <1>13, <1>17
<1> HIDE DEF old
<1>20. Follows(new, old, receipt)
  BY <1>11, <1>13, <1>14, <1>18, <1>19 DEF Follows
<1> QED
  BY <1>2, <1>20 DEF old

\* The row a delivery leaves.
Delivery(new, row, moment, receipt) ==
    /\ new \in Row /\ Real(new) /\ new.session = row.session
    /\ Follows(new.history, row.history, receipt) /\ new.last = receipt
    /\ new.status = "inactive" => new.record.at = receipt.at
    /\ Active(new) => moment < new.record.at
    /\ receipt.at <= moment /\ receipt.at = Occurrence(row.record, moment)

\* DeliveredRow leaves one.
LEMMA Delivered ==
    ASSUME NEW row \in Row, Active(row), NEW moment \in Time, row.record.at <= moment,
           NEW when \in Time, NEW message \in Nat
    PROVE  /\ [at |-> Occurrence(row.record, moment), when |-> when, message |-> message]
                 \in Receipt
           /\ Delivery(DeliveredRow(row, moment, when, message), row, moment,
                       [at |-> Occurrence(row.record, moment), when |-> when,
                        message |-> message])
<1> DEFINE at == Occurrence(row.record, moment)
           receipt == [at |-> at, when |-> when, message |-> message]
           with == WithDelivery(row, receipt)
           next == NextTargets(row.record, moment)
           new == DeliveredRow(row, moment, when, message)
<1>0. Real(row) /\ row.status = "active"
  BY RowsAreReal DEF Active
<1>1. row.record \in Record
  BY <1>0 DEF Real
<1>2. at \in Time /\ at <= moment
  BY <1>1, OccurrenceDue
<1>3. receipt \in Receipt
  BY <1>2 DEF Receipt
<1>4. Follows(with.history, row.history, receipt)
  BY <1>3, HistoryFollows
<1>5. /\ with.session = row.session /\ with.record = row.record /\ with.last = receipt
      /\ with.status = row.status /\ Real(with)
  <2>1. with.history \in Seq(Receipt)
    BY <1>4 DEF Follows
  <2>2. with = [row EXCEPT !.last = receipt, !.history = with.history]
    BY <1>0 DEF WithDelivery, Real
  <2> HIDE DEF with, receipt
  <2> QED
    BY <1>0, <1>3, <2>1, <2>2 DEF Real
<1>6. new = IF next = {} THEN [with EXCEPT !.status = "inactive", !.record.at = at]
                         ELSE [with EXCEPT !.record.at = Max(next)]
  BY DEF DeliveredRow
<1>7. next # {} => Max(next) \in Time /\ moment < Max(next)
  BY <1>1, NextAhead
<1>8. \A x \in Time : [with.record EXCEPT !.at = x] \in Record
                      /\ [with.record EXCEPT !.at = x].at = x
  BY <1>1, <1>5 DEF Record
<1> HIDE DEF new, next, with, receipt, at
<1>9. CASE next = {}
  <2>1. new = [with EXCEPT !.status = "inactive", !.record = [with.record EXCEPT !.at = at]]
    BY <1>5, <1>6, <1>9 DEF Real
  <2>2. /\ Real(new) /\ new.session = row.session /\ new.history = with.history
        /\ new.last = receipt /\ new.status = "inactive" /\ new.record.at = at
    BY <1>2, <1>5, <1>8, <2>1 DEF Real
  <2>3. new \in Row /\ ~Active(new)
    BY <2>2 DEF Real, Row, Active
  <2>4. receipt.at = at
    BY DEF receipt
  <2>5. Delivery(new, row, moment, receipt)
    BY <1>2, <1>4, <2>2, <2>3, <2>4 DEF Delivery, at
  <2> QED
    BY <1>3, <2>5 DEF new, receipt, at
<1>10. CASE next # {}
  <2> DEFINE m == Max(next)
  <2>6. m \in Time /\ moment < m
    BY <1>7, <1>10
  <2>0. new = [with EXCEPT !.record.at = m]
    BY <1>6, <1>10
  <2> HIDE DEF m
  <2>1. new = [with EXCEPT !.record = [with.record EXCEPT !.at = m]]
    BY <1>5, <2>0 DEF Real
  <2>2. /\ Real(new) /\ new.session = row.session /\ new.history = with.history
        /\ new.last = receipt /\ new.status = row.status /\ new.record.at = m
    BY <1>5, <1>8, <2>1, <2>6 DEF Real
  <2>3. new \in Row
    BY <2>2 DEF Real, Row
  <2>4. receipt.at = at
    BY DEF receipt
  <2>5. new.status # "inactive" /\ moment < new.record.at
    BY <1>0, <2>2, <2>6
  <2>7. Delivery(new, row, moment, receipt)
    BY <1>2, <1>4, <2>2, <2>3, <2>4, <2>5 DEF Delivery, at
  <2> QED
    BY <1>3, <2>7 DEF new, receipt, at
<1> QED
  BY <1>9, <1>10

\* An edit keeps the committed target or sets one ahead of the clock.
LEMMA EditAhead ==
    ASSUME NEW record \in Record, NEW expected, NEW change \in Change, NEW when \in Time,
           NEW r \in Edited(record, expected, change, when)
    PROVE  r \in Record /\ (r.at = record.at \/ when < r.at)
<1>1. r \in IF KeepsTarget(record, change) THEN {[record EXCEPT !.text = change.text]}
           ELSE Accepted(change.kind, change.at, change.text, when)
  BY DEF Edited
<1>2. /\ change.kind \in {"same"} \cup Asked /\ change.at \in Time /\ change.text \in Text
      /\ Asked \subseteq Kind
  BY MaxTimeAssumption, BoundAssumption DEF Change, Time
<1>3. CASE KeepsTarget(record, change)
  BY <1>1, <1>2, <1>3 DEF Record
<1>4. CASE ~KeepsTarget(record, change)
  <2>1. change.kind \in Kind
    BY <1>2, <1>4 DEF KeepsTarget
  <2>2. r \in Accepted(change.kind, change.at, change.text, when)
    BY <1>1, <1>4
  <2> QED
    BY <1>2, <2>1, <2>2, AcceptedAhead
<1> QED
  BY <1>3, <1>4

\* What the operations carry.
LEMMA Operations ==
    ASSUME NEW op \in Op
    PROVE  /\ op.kind \in {"create", "update", "delete", "stop", "drive"}
           /\ op.kind \in {"create", "update", "delete"} =>
                 op.task \in Task /\ op.row \in Row /\ op.change \in Change
           /\ op.kind = "stop" =>
                 op \in [kind : {"stop"}, session : Session, removed : BOOLEAN, partial : BOOLEAN]
           /\ op.kind = "drive" => op = [kind |-> "drive"]
           /\ op # Idle
  BY DEF Op, Idle

-----------------------------------------------------------------------------
(* What the helpers of the actions do.                                     *)

\* The parts of the types that actions change together.
RuntimeTypes ==
    /\ timer \in BOOLEAN /\ requested \in BOOLEAN
    /\ running \in {"none", "driving", "checking", "retiring"}

SlotTypes ==
    /\ work \in Op \cup {Idle}
    /\ pc \in {"idle", "resolving", "flushing", "writing", "refused"}
    /\ left \subseteq Task /\ group \subseteq Task /\ scanned \in [Task -> Row]
    /\ decision \in Time /\ acked \in Time
    /\ writing \in [task : Task, row : Row] \cup {NoWrite}

StoreTypes == disk \in [Task -> Row] /\ tasks \in [Task -> Row]

RestTypes ==
    /\ now \in Time /\ faults \in 0 .. MaxFault /\ refused \in 0 .. MaxFault
    /\ calls \in 0 .. MaxCall
    /\ given \subseteq Task /\ inbox \in Seq(Message)
    /\ phase \in {"closed", "opening", "open", "closing"} /\ admission \in BOOLEAN
    /\ storage \in {"open", "closing", "closed"}
    /\ queue \in Seq(Op) /\ failed \subseteq Task

\* They make up TypeOK.
LEMMA TypesParted == TypeOK <=> RuntimeTypes /\ SlotTypes /\ StoreTypes /\ RestTypes
  BY DEF TypeOK, RuntimeTypes, SlotTypes, StoreTypes, RestTypes

DriveOp == [kind |-> "drive"]

\* What asking for a drive does to the run and the FIFO.
Asks ==
    /\ RuntimeTypes' /\ queue' \in Seq(Op)
    /\ \/ queue' = queue /\ running' = running
       \/ queue' = Append(queue, DriveOp) /\ running = "none" /\ running' = "driving"
          /\ phase # "closing"
    /\ phase = "closing" => UNCHANGED runtimeVars
    /\ phase # "closing" => ~timer'
    /\ phase # "closing" => running' = "driving" \/ (running' # "none" /\ requested') \/ ~admission

\* RequestDrive does this.
LEMMA Asking ==
    ASSUME TypeOK, RequestDrive
    PROVE  Asks
<1>1. DriveOp \in Op
  BY DEF DriveOp, Op
<1>2. RuntimeTypes /\ queue \in Seq(Op) /\ admission \in BOOLEAN
  BY DEF TypeOK, RuntimeTypes
<1>3. Append(queue, DriveOp) \in Seq(Op)
  BY <1>1, <1>2
<1>4. CASE phase = "closing"
  BY <1>2, <1>4 DEF RequestDrive, Asks, RuntimeTypes, runtimeVars
<1>5. CASE phase # "closing" /\ running # "none"
  <2>1. timer' = FALSE /\ requested' = TRUE /\ UNCHANGED <<running, queue>>
    BY <1>5 DEF RequestDrive
  <2> QED
    BY <1>2, <1>5, <2>1 DEF Asks, RuntimeTypes
<1>6. CASE phase # "closing" /\ running = "none" /\ admission
  <2>1. /\ timer' = FALSE /\ requested' = FALSE /\ running' = "driving"
        /\ queue' = Append(queue, DriveOp)
    BY <1>6 DEF RequestDrive, DriveOp
  <2> QED
    BY <1>2, <1>3, <1>6, <2>1 DEF Asks, RuntimeTypes
<1>7. CASE phase # "closing" /\ running = "none" /\ ~admission
  <2>1. timer' = FALSE /\ requested' = FALSE /\ UNCHANGED <<running, queue>>
    BY <1>7 DEF RequestDrive
  <2> QED
    BY <1>2, <1>7, <2>1 DEF Asks, RuntimeTypes
<1> QED
  BY <1>4, <1>5, <1>6, <1>7

\* The FIFO's head and the rest of it.
LEMMA HeadAndTail ==
    ASSUME queue \in Seq(Op), queue # <<>>
    PROVE  /\ Head(queue) \in Op /\ Tail(queue) \in Seq(Op)
           /\ 1 \in DOMAIN queue /\ Head(queue) = queue[1]
           /\ \A i \in DOMAIN Tail(queue) :
                 i + 1 \in DOMAIN queue /\ Tail(queue)[i] = queue[i + 1] /\ i + 1 # 1
           /\ \A i, k \in DOMAIN Tail(queue) : i + 1 = k + 1 => i = k
  OBVIOUS

\* What moving on to the next group, or to the end of the drive, does.
Proceeds(rest) ==
    /\ SlotTypes' /\ Slots' /\ timer' \in BOOLEAN
    /\ pc' \notin {"writing", "refused"} /\ pc' # "flushing" /\ left' \cup group' \subseteq rest
    /\ \/ work' = DriveOp /\ running' = running /\ phase # "closing" /\ ~timer'
       \/ work' = Idle /\ running' \in {"checking", "retiring"} /\ (phase = "closing" => ~timer')
          /\ (phase # "closing" /\ Readable /\ ~timer' => Obligations' = {})

\* DriveProceeds does this.
LEMMA Proceeding ==
    ASSUME NEW rest \in SUBSET Task, NEW rows \in [Task -> Row],
           TypeOK, DriveProceeds(rest, rows),
           \A t \in rest : rows[t] = tasks'[t] /\ Active(tasks'[t])
    PROVE  Proceeds(rest)
<1>0. 0 \in Time /\ DriveOp \in Op /\ DriveOp # Idle /\ DriveOp.kind = "drive"
      /\ NoTable \in [Task -> Row] /\ Idle.kind = "idle"
  BY MaxTimeAssumption, NoRowIsNone DEF Time, DriveOp, Op, Idle, NoTable
<1>1. decision' = 0 /\ acked' = 0 /\ writing' = NoWrite
  BY DEF DriveProceeds
<1>2. /\ timer' \in BOOLEAN
      /\ timer' => work' = Idle /\ phase # "closing"
      /\ work' = Idle /\ phase # "closing" /\ Readable /\ ~timer' => Obligations' = {}
  <2>1. timer' = (work' = Idle /\ phase # "closing" /\ Readable /\ Obligations' # {})
    BY DEF DriveProceeds
  <2> QED
    BY <2>1, Zenon
<1>3. \/ /\ rest # {} /\ phase # "closing"
         /\ \E t \in rest : group' = GroupOf(t, rest, rows) /\ left' = rest \ group'
         /\ pc' = "resolving" /\ work' = DriveOp /\ scanned' = rows
         /\ running' = running
      \/ /\ group' = {} /\ left' = {} /\ scanned' = NoTable
         /\ pc' = "idle" /\ work' = Idle
         /\ running' \in {"checking", "retiring"}
  BY DEF DriveProceeds, DriveOp
<1>4. CASE work' = DriveOp
  <2>1. PICK t \in rest : group' = GroupOf(t, rest, rows) /\ left' = rest \ group'
    BY <1>0, <1>3, <1>4
  <2>2. pc' = "resolving" /\ scanned' = rows /\ running' = running /\ phase # "closing"
    BY <1>0, <1>3, <1>4
  <2>3. /\ t \in group' /\ group' \subseteq rest
        /\ \A u \in group' : rows[u].session = rows[t].session
    BY <2>1 DEF GroupOf
  <2>4. Slots'
    BY <1>0, <1>1, <1>4, <2>1, <2>2, <2>3 DEF Slots, Telling
  <2>5. SlotTypes'
    BY <1>0, <1>1, <1>4, <2>1, <2>2, <2>3 DEF SlotTypes
  <2> QED
    BY <1>0, <1>2, <1>4, <2>1, <2>2, <2>3, <2>4, <2>5 DEF Proceeds
<1>5. CASE work' = Idle
  <2>1. group' = {} /\ left' = {} /\ scanned' = NoTable /\ pc' = "idle"
        /\ running' \in {"checking", "retiring"}
    BY <1>0, <1>3, <1>5
  <2>2. Slots'
    BY <1>0, <1>1, <1>5, <2>1 DEF Slots, Telling
  <2>3. SlotTypes'
    BY <1>0, <1>1, <1>5, <2>1 DEF SlotTypes
  <2> QED
    BY <1>2, <1>5, <2>1, <2>2, <2>3 DEF Proceeds
<1> QED
  BY <1>3, <1>4, <1>5

\* Nothing of the operation in its slot changes, nor what it rests on.
slotVars == <<work, pc, left, group, scanned, decision, acked, writing, tasks, inbox>>

\* The slot stays as it is.
LEMMA SlotsStay ==
    ASSUME SlotTypes, Slots, UNCHANGED slotVars
    PROVE  SlotTypes' /\ Slots'
  BY DEF slotVars, SlotTypes, Slots, Telling, Sent

\* Appending to the FIFO.
LEMMA Appending ==
    ASSUME queue \in Seq(Op), NEW op \in Op, queue' = Append(queue, op)
    PROVE  /\ queue' \in Seq(Op)
           /\ \A i \in DOMAIN queue' :
                 \/ i \in DOMAIN queue /\ queue'[i] = queue[i]
                 \/ i = Len(queue) + 1 /\ queue'[i] = op
  OBVIOUS

\* The messages stay what they are; some become durable.
Settles ==
    /\ inbox' \in Seq(Message) /\ Len(inbox') = Len(inbox)
    /\ \A i \in 1 .. Len(inbox) :
          /\ inbox'[i].items = inbox[i].items
          /\ inbox[i].state = "durable" => inbox'[i].state = "durable"

\* They do when the flush acknowledges the last,
LEMMA FlushSettles ==
    ASSUME inbox \in Seq(Message), inbox # <<>>,
           inbox' = [inbox EXCEPT ![Sent].state = "durable"]
    PROVE  Settles /\ inbox'[Sent].state = "durable"
<1>1. Len(inbox) \in 1 .. Len(inbox) /\ DOMAIN inbox = 1 .. Len(inbox)
      /\ Len(inbox) \in Nat /\ inbox \in [1 .. Len(inbox) -> Message]
  OBVIOUS
<1>2. \A m \in Message : /\ [m EXCEPT !.state = "durable"] \in Message
                         /\ [m EXCEPT !.state = "durable"].items = m.items
                         /\ [m EXCEPT !.state = "durable"].state = "durable"
  BY DEF Message
<1>3. /\ inbox' \in [1 .. Len(inbox) -> Message]
      /\ \A i \in 1 .. Len(inbox) :
            inbox'[i] = IF i = Len(inbox) THEN [inbox[i] EXCEPT !.state = "durable"] ELSE inbox[i]
  BY <1>1, <1>2 DEF Sent
<1>4. inbox' \in Seq(Message) /\ Len(inbox') = Len(inbox)
  BY <1>1, <1>3
<1> QED
  BY <1>1, <1>2, <1>3, <1>4 DEF Settles, Sent

\* and when the process is lost.
LEMMA CrashSettles ==
    ASSUME inbox \in Seq(Message), NEW kept,
           inbox' = [i \in DOMAIN inbox |->
                     IF inbox[i].state # "pending" THEN inbox[i]
                     ELSE [inbox[i] EXCEPT !.state = IF i \in kept THEN "durable" ELSE "lost"]]
    PROVE  Settles
<1>1. DOMAIN inbox = 1 .. Len(inbox) /\ Len(inbox) \in Nat
      /\ \A i \in 1 .. Len(inbox) : inbox[i] \in Message
  OBVIOUS
<1>2. \A m \in Message, s \in {"durable", "lost"} :
            [m EXCEPT !.state = s] \in Message /\ [m EXCEPT !.state = s].items = m.items
  BY DEF Message
<1>3. /\ inbox' \in [1 .. Len(inbox) -> Message]
      /\ \A i \in 1 .. Len(inbox) :
            /\ inbox'[i].items = inbox[i].items
            /\ inbox[i].state = "durable" => inbox'[i].state = "durable"
  BY <1>1, <1>2
<1>4. inbox' \in Seq(Message) /\ Len(inbox') = Len(inbox)
  BY <1>1, <1>3
<1> QED
  BY <1>3, <1>4 DEF Settles

-----------------------------------------------------------------------------
(* First layer: types, the slot, and a service that is not open.           *)

L0 == TypeOK /\ Slots /\ Closed

\* A call joins the FIFO.
Joins(op) ==
    /\ op \in Op /\ op.kind \in {"create", "update", "delete", "stop"}
    /\ queue' = Append(queue, op)
    /\ phase \in {"opening", "open"} /\ given' \subseteq Task
    /\ calls' \in 0 .. MaxCall
    /\ UNCHANGED <<now, faults, refused, storeVars, inbox, phase, admission, storage, work, pc,
                   driveVars, writing,
                   runtimeVars>>

\* What a call that joins the FIFO asks for.
AsksFor(op) ==
    \/ op.kind = "create" /\ op.task \notin given /\ given' = given \cup {op.task}
       /\ \E s \in Session, r \in Record : op.row = FreshRow(s, r)
    \/ op.kind # "create" /\ given' = given

\* Every management call does this.
LEMMA CallsJoin ==
    ASSUME TypeOK, Calls
    PROVE  \E op \in Op : Joins(op) /\ AsksFor(op)
<1>1. ASSUME NEW op \in Op, op.kind # "drive", Serialize(op), Called, given' \subseteq Task
      PROVE  Joins(op)
  <2>1. op.kind \in {"create", "update", "delete", "stop"}
    BY <1>1, Operations
  <2>2. calls' \in 0 .. MaxCall
    BY <1>1, BoundAssumption DEF TypeOK, Called
  <2> QED
    BY <1>1, <2>1, <2>2 DEF Joins, Serialize, Called
<1>2. ASSUME NEW t \in Task, CallCreate(t)
      PROVE  \E op \in Op : Joins(op) /\ AsksFor(op)
  <2>1. PICK s \in Session, text \in Text, kind \in Asked, target \in Time :
          \E r \in Accepted(kind, target, text, now) :
              Serialize([kind |-> "create", task |-> t, row |-> FreshRow(s, r),
                         change |-> [kind |-> "same", at |-> 0, text |-> text]])
    BY <1>2 DEF CallCreate
  <2>2. PICK r \in Accepted(kind, target, text, now) :
              Serialize([kind |-> "create", task |-> t, row |-> FreshRow(s, r),
                         change |-> [kind |-> "same", at |-> 0, text |-> text]])
    BY <2>1
  <2> DEFINE op == [kind |-> "create", task |-> t, row |-> FreshRow(s, r),
                    change |-> [kind |-> "same", at |-> 0, text |-> text]]
  <2>3. r \in Record
    BY BoundAssumption, AcceptedAhead DEF TypeOK
  <2>4. FreshRow(s, r) \in Row
    <3>1. NoReceipt \in Receipt
      BY MaxTimeAssumption DEF NoReceipt, Receipt, Time
    <3>2. <<>> \in Seq(Receipt)
      OBVIOUS
    <3> QED
      BY <2>3, <3>1, <3>2 DEF FreshRow, Row
  <2>5. [kind |-> "same", at |-> 0, text |-> text] \in Change
    BY DEF Change
  <2>6. op \in Op
    BY <2>4, <2>5 DEF Op
  <2>7. t \notin given /\ given' = given \cup {t} /\ Called
    BY <1>2 DEF CallCreate
  <2>8. AsksFor(op)
    BY <2>3, <2>7 DEF AsksFor
  <2>9. Joins(op)
    BY <1>1, <2>2, <2>6, <2>7 DEF TypeOK
  <2> QED
    BY <2>6, <2>8, <2>9
<1>3. ASSUME NEW t \in Task, CallUpdate(t)
      PROVE  \E op \in Op : Joins(op) /\ AsksFor(op)
  <2>1. PICK change \in Change :
          Serialize([kind |-> "update", task |-> t, row |-> tasks[t], change |-> change])
    BY <1>3 DEF CallUpdate
  <2> DEFINE op == [kind |-> "update", task |-> t, row |-> tasks[t], change |-> change]
  <2>2. op \in Op
    BY DEF Op, TypeOK
  <2>3. given' = given /\ Called
    BY <1>3 DEF CallUpdate
  <2>4. AsksFor(op)
    BY <2>3 DEF AsksFor
  <2>5. Joins(op)
    BY <1>1, <2>1, <2>2, <2>3 DEF TypeOK
  <2> QED
    BY <2>2, <2>4, <2>5
<1>4. ASSUME NEW t \in Task, CallDelete(t)
      PROVE  \E op \in Op : Joins(op) /\ AsksFor(op)
  <2> DEFINE change == [kind |-> "same", at |-> 0, text |-> tasks[t].record.text]
             op == [kind |-> "delete", task |-> t, row |-> tasks[t], change |-> change]
  <2>1. tasks[t] \in Row /\ tasks[t] # NoRow /\ given' = given /\ Called /\ Serialize(op)
    BY <1>4 DEF TypeOK, CallDelete
  <2>2. Real(tasks[t])
    BY <2>1, RowsAreReal
  <2>3. tasks[t].record.text \in Text
    BY <2>2 DEF Real, Record
  <2>4. change \in Change
    BY <2>3 DEF Change
  <2>5. op \in Op
    BY <2>1, <2>4 DEF Op
  <2>6. AsksFor(op)
    BY <2>1 DEF AsksFor
  <2>7. Joins(op)
    BY <1>1, <2>1, <2>5 DEF TypeOK
  <2> QED
    BY <2>5, <2>6, <2>7
<1>5. ASSUME NEW s \in Session, CallStop(s)
      PROVE  \E op \in Op : Joins(op) /\ AsksFor(op)
  <2> DEFINE op == [kind |-> "stop", session |-> s, removed |-> FALSE, partial |-> FALSE]
  <2>1. op \in Op
    BY DEF Op
  <2>2. given' = given /\ Called /\ Serialize(op)
    BY <1>5 DEF CallStop
  <2>3. AsksFor(op)
    BY <2>2 DEF AsksFor
  <2>4. Joins(op)
    BY <1>1, <2>1, <2>2 DEF TypeOK
  <2> QED
    BY <2>1, <2>3, <2>4
<1> QED
  BY <1>2, <1>3, <1>4, <1>5 DEF Calls

\* A call that joins the FIFO keeps the first layer.
LEMMA JoinsKeepL0 ==
    ASSUME L0, NEW op \in Op, Joins(op)
    PROVE  L0'
<1>1. UNCHANGED slotVars
  BY DEF Joins, slotVars, storeVars, driveVars
<1>2. SlotTypes' /\ Slots'
  BY <1>1, SlotsStay, TypesParted DEF L0
<1>3. queue \in Seq(Op)
  BY DEF L0, TypeOK
<1>4. queue' \in Seq(Op) /\ \A i \in DOMAIN queue' :
                 \/ i \in DOMAIN queue /\ queue'[i] = queue[i]
                 \/ i = Len(queue) + 1 /\ queue'[i] = op
  BY <1>3, Appending DEF Joins
<1>5. TypeOK'
  <2>1. RuntimeTypes' /\ StoreTypes'
    BY DEF L0, TypeOK, RuntimeTypes, StoreTypes, Joins, storeVars, runtimeVars
  <2>2. RestTypes'
    BY <1>4 DEF L0, TypeOK, RestTypes, Joins, driveVars
  <2> QED
    BY <1>2, <2>1, <2>2 DEF TypeOK, RuntimeTypes, SlotTypes, StoreTypes, RestTypes
<1>6. Closed'
  <2>1. /\ phase' = phase /\ phase # "closed"
        /\ UNCHANGED <<work, runtimeVars, tasks, admission, storage>>
    BY DEF Joins, storeVars
  <2>2. op.kind # "drive"
    BY DEF Joins
  <2> QED
    BY <1>4, <2>1, <2>2 DEF L0, Closed, runtimeVars
<1> QED
  BY <1>2, <1>5, <1>6 DEF L0

\* A service that is open, or closing without a timer, is Closed's exception.
LEMMA StaysOpen ==
    ASSUME L0, phase # "closed", UNCHANGED <<admission, storage>>,
           phase' \in {"open", "closing"}, phase' = "closing" => ~timer'
    PROVE  Closed'
  BY DEF L0, Closed

\* A step of the runtime: it may ask for a drive.
RuntimeSteps ==
    /\ RuntimeTypes' /\ queue' \in Seq(Op)
    /\ phase \in {"open", "closing"} /\ (phase = "closing" => ~timer')
    /\ \/ queue' = queue /\ (running' = running \/ (running # "driving" /\ running' # "driving"))
       \/ queue' = Append(queue, DriveOp) /\ running # "driving" /\ running' = "driving"
    /\ UNCHANGED <<envVars, storeVars, inbox, phase, admission, storage, work, pc, driveVars,
                   writing>>

\* The run's loop, its end and the timer are such steps.
LEMMA RuntimeMoves ==
    ASSUME L0, Runtime \/ TimerFires
    PROVE  RuntimeSteps
<1>1. RuntimeTypes /\ queue \in Seq(Op) /\ admission \in BOOLEAN
      /\ phase \in {"closed", "opening", "open", "closing"}
  BY DEF L0, TypeOK, RuntimeTypes
<1>2. Append(queue, DriveOp) \in Seq(Op)
  BY <1>1 DEF DriveOp, Op
<1>3. phase = "closing" => ~timer
  BY DEF L0, Closed
<1>4. running # "none" \/ timer => phase \in {"open", "closing"}
  BY <1>1 DEF L0, Closed
<1>5. CASE CheckRequested
  <2>1. running = "checking" /\ UNCHANGED timer
    BY <1>5 DEF CheckRequested
  <2>2. UNCHANGED <<envVars, storeVars, inbox, phase, admission, storage, work, pc, driveVars,
                    writing>>
    BY <1>5 DEF CheckRequested
  <2>3. CASE requested /\ phase # "closing"
    BY <1>1, <1>2, <1>3, <1>4, <1>5, <2>1, <2>2, <2>3
       DEF CheckRequested, RuntimeSteps, RuntimeTypes, DriveOp
  <2>4. CASE ~(requested /\ phase # "closing")
    BY <1>1, <1>2, <1>3, <1>4, <1>5, <2>1, <2>2, <2>4
       DEF CheckRequested, RuntimeSteps, RuntimeTypes
  <2> QED
    BY <2>3, <2>4
<1>6. CASE Retire
  <2>1. running = "retiring"
    BY <1>6 DEF Retire
  <2>2. UNCHANGED <<envVars, storeVars, inbox, phase, admission, storage, work, pc, driveVars,
                    writing>>
    BY <1>6 DEF Retire
  <2>3. CASE requested /\ phase # "closing" /\ admission
    BY <1>1, <1>2, <1>3, <1>4, <1>6, <2>1, <2>2, <2>3
       DEF Retire, RuntimeSteps, RuntimeTypes, DriveOp
  <2>4. CASE requested /\ phase # "closing" /\ ~admission
    BY <1>1, <1>2, <1>3, <1>4, <1>6, <2>1, <2>2, <2>4
       DEF Retire, RuntimeSteps, RuntimeTypes, DriveOp
  <2>5. CASE ~(requested /\ phase # "closing")
    BY <1>1, <1>2, <1>3, <1>4, <1>6, <2>1, <2>2, <2>5 DEF Retire, RuntimeSteps, RuntimeTypes
  <2> QED
    BY <1>1, <2>3, <2>4, <2>5
<1>7. CASE TimerFires
  <2>1. timer /\ UNCHANGED <<envVars, storeVars, inbox, phase, admission, storage, work, pc,
                             driveVars, writing>>
    BY <1>7 DEF TimerFires
  <2>2. Asks
    BY <1>7, Asking DEF L0, TimerFires
  <2>3. phase = "open"
    BY <1>1, <1>3, <1>4, <2>1
  <2>4. /\ RuntimeTypes' /\ queue' \in Seq(Op)
        /\ \/ queue' = queue /\ running' = running
           \/ queue' = Append(queue, DriveOp) /\ running # "driving" /\ running' = "driving"
    BY <2>2 DEF Asks
  <2> QED
    BY <2>1, <2>3, <2>4 DEF RuntimeSteps
<1> QED
  BY <1>5, <1>6, <1>7 DEF Runtime

\* Such a step keeps the first layer.
LEMMA RuntimeKeepsL0 ==
    ASSUME L0, RuntimeSteps
    PROVE  L0'
<1>1. UNCHANGED slotVars
  BY DEF RuntimeSteps, slotVars, storeVars, driveVars
<1>2. SlotTypes' /\ Slots'
  BY <1>1, SlotsStay, TypesParted DEF L0
<1>3. RuntimeTypes' /\ StoreTypes' /\ RestTypes'
  BY DEF L0, TypeOK, RuntimeTypes, StoreTypes, RestTypes, RuntimeSteps, storeVars, envVars,
         driveVars
<1>4. TypeOK'
  BY <1>2, <1>3 DEF TypeOK, RuntimeTypes, SlotTypes, StoreTypes, RestTypes
<1>5. Closed'
  BY StaysOpen DEF RuntimeSteps
<1> QED
  BY <1>2, <1>4, <1>5 DEF L0

\* The life of the service, while nothing is in its slot or nothing of it changes.
LEMMA LifeKeepsL0 ==
    ASSUME L0,
           \/ Boot \/ OpenAbandoned \/ CloseAdmission \/ StorageCloses \/ StorageClosed
           \/ Cleanup \/ Tick \/ SetBack
    PROVE  L0'
<1>1. UNCHANGED slotVars
  BY DEF Boot, OpenAbandoned, CloseAdmission, StorageCloses, StorageClosed,
         Cleanup, Tick, SetBack, slotVars, storeVars, driveVars
<1>2. SlotTypes' /\ Slots'
  BY <1>1, SlotsStay, TypesParted DEF L0
<1>3. UNCHANGED StoreTypes /\ StoreTypes
  BY DEF L0, TypeOK, StoreTypes, Boot, OpenAbandoned, CloseAdmission, StorageCloses, StorageClosed,
         Cleanup, Tick, SetBack, storeVars
<1>4. now \in Nat /\ faults \in Nat /\ refused \in Nat /\ <<>> \in Seq(Op)
  BY MaxTimeAssumption, BoundAssumption DEF L0, TypeOK, Time
<1>5. CASE Boot \/ OpenAbandoned
  <2>1. TypeOK'
    BY <1>2, <1>3, <1>4, <1>5
       DEF L0, TypeOK, SlotTypes, StoreTypes, Boot, OpenAbandoned, envVars, driveVars, runtimeVars
  <2>2. Closed'
    BY <1>1, <1>5 DEF L0, Closed, slotVars, Boot, OpenAbandoned, runtimeVars
  <2> QED
    BY <1>2, <2>1, <2>2 DEF L0
<1>6. CASE CloseAdmission \/ StorageCloses \/ StorageClosed \/ Cleanup
  <2>1. TypeOK'
    BY <1>2, <1>3, <1>6
       DEF L0, TypeOK, SlotTypes, StoreTypes, CloseAdmission, StorageCloses, StorageClosed, Cleanup,
           envVars, driveVars, runtimeVars
  <2>2. Closed'
    BY <1>1, <1>6
       DEF L0, Closed, slotVars, CloseAdmission, StorageCloses, StorageClosed, Cleanup, runtimeVars
  <2> QED
    BY <1>2, <2>1, <2>2 DEF L0
<1>7. CASE Tick \/ SetBack
  <2>1. now' \in Time /\ faults' \in 0 .. MaxFault
    BY <1>7, MaxTimeAssumption, BoundAssumption DEF L0, TypeOK, Time, Tick, SetBack, Faulty
  <2>2. TypeOK'
    BY <1>2, <1>3, <1>7, <2>1
       DEF L0, TypeOK, SlotTypes, StoreTypes, Tick, SetBack, driveVars, runtimeVars
  <2>3. Closed'
    BY <1>1, <1>7 DEF L0, Closed, slotVars, Tick, SetBack, runtimeVars
  <2> QED
    BY <1>2, <2>2, <2>3 DEF L0
<1> QED
  BY <1>5, <1>6, <1>7

\* The table is opened, closed, and lost with the process.
LEMMA OpenKeepsL0 ==
    ASSUME L0, Open
    PROVE  L0'
<1>1. work = Idle /\ Asks /\ phase' = "open" /\ phase = "opening"
  BY Asking DEF L0, Open, Closed
<1>2. Slots'
  <2>1. Idle.kind = "idle" /\ pc = "idle"
    BY <1>1 DEF L0, Slots, Idle
  <2>2. UNCHANGED <<work, pc, left, group, scanned, decision, acked, writing, inbox>>
    BY DEF Open, driveVars
  <2> QED
    BY <1>1, <2>1, <2>2 DEF L0, Slots, Telling
<1>3. TypeOK'
  BY <1>1 DEF L0, TypeOK, Open, Asks, RuntimeTypes, envVars, driveVars
<1>4. Closed'
  <2>1. UNCHANGED <<admission, storage>> /\ (phase' = "closing" => ~timer')
    BY <1>1 DEF Open
  <2> QED
    BY <1>1, <2>1, StaysOpen
<1> QED
  BY <1>2, <1>3, <1>4 DEF L0

\* Closing ends with nothing in memory.
LEMMA CloseKeepsL0 ==
    ASSUME L0, Close
    PROVE  L0'
<1>1. work = Idle /\ running = "none" /\ queue = <<>> /\ ~timer
  BY DEF L0, Close, Drained, Closed
<1>2. Slots'
  <2>1. Idle.kind = "idle" /\ pc = "idle"
    BY <1>1 DEF L0, Slots, Idle
  <2>2. UNCHANGED <<work, pc, left, group, scanned, decision, acked, writing, inbox>>
    BY DEF Close
  <2> QED
    BY <1>1, <2>1, <2>2 DEF L0, Slots, Telling
<1>3. NoTable \in [Task -> Row]
  BY NoRowIsNone DEF NoTable
<1>4. TypeOK'
  BY <1>3 DEF L0, TypeOK, Close, envVars
<1>5. Closed'
  BY <1>1 DEF Closed, Close
<1> QED
  BY <1>2, <1>4, <1>5 DEF L0

\* What a write leaves in the table is a table.
LEMMA WrittenRows ==
    ASSUME TypeOK, pc \in {"writing", "refused"}, Slots
    PROVE  /\ writing.task \in Task /\ writing.row \in Row /\ work \in Op
           /\ Written \in [Task -> Row]
           /\ Written[writing.task] = writing.row
           /\ \A t \in Task : t # writing.task => Written[t] = tasks[t]
<1>1. work # Idle /\ work \in Op
  BY DEF TypeOK, Slots
<1>2. work.kind \in {"create", "update", "delete", "stop", "drive"}
  BY <1>1, Operations
<1>3. writing.task \in Task
  <2>1. CASE work.kind \in {"create", "update", "delete"}
    BY <1>1, <2>1, Operations DEF Slots
  <2>2. CASE work.kind = "stop"
    BY <2>2 DEF Slots
  <2>3. CASE work.kind = "drive"
    BY <2>3 DEF Slots, TypeOK
  <2> QED
    BY <1>2, <2>1, <2>2, <2>3
<1>4. writing.row \in Row
  BY NoRowIsNone DEF TypeOK, NoWrite
<1> QED
  BY <1>1, <1>3, <1>4 DEF TypeOK, Written

\* So does a crash; the messages stay what they are.
LEMMA CrashKeepsL0 ==
    ASSUME L0, Crash
    PROVE  L0' /\ Settles
<1>1. PICK kept \in SUBSET {i \in DOMAIN inbox : inbox[i].state = "pending"} :
         inbox' = [i \in DOMAIN inbox |->
                     IF inbox[i].state # "pending" THEN inbox[i]
                     ELSE [inbox[i] EXCEPT !.state = IF i \in kept THEN "durable" ELSE "lost"]]
  BY DEF Crash
<1>2. Settles
  BY <1>1, CrashSettles DEF L0, TypeOK
<1>3. /\ work' = Idle /\ pc' = "idle" /\ writing' = NoWrite /\ left' = {} /\ group' = {}
      /\ scanned' = NoTable /\ tasks' = NoTable /\ failed' = {} /\ queue' = <<>>
      /\ phase' = "closed"
      /\ decision' = 0 /\ acked' = 0 /\ timer' = FALSE /\ running' = "none" /\ requested' = FALSE
      /\ storage' = "closed" /\ UNCHANGED <<now, refused, calls, given, admission>>
  BY DEF Crash, Over
<1>4. disk' \in [Task -> Row]
  BY WrittenRows DEF L0, TypeOK, Crash
<1>5. faults' \in 0 .. MaxFault
  BY BoundAssumption DEF L0, TypeOK, Crash, Faulty
<1>6. 0 \in Time /\ NoTable \in [Task -> Row] /\ <<>> \in Seq(Op) /\ Idle.kind = "idle"
      /\ \A i \in DOMAIN <<>> : FALSE
  BY MaxTimeAssumption, NoRowIsNone DEF NoTable, Time, Idle
<1>7. TypeOK'
  BY <1>2, <1>3, <1>4, <1>5, <1>6 DEF L0, TypeOK, Settles
<1>8. Slots'
  BY <1>3, <1>6 DEF Slots, Telling
<1>9. Closed'
  BY <1>3, <1>6 DEF Closed
<1> QED
  BY <1>2, <1>7, <1>8, <1>9 DEF L0

\* What a write does to the stores.
Stores ==
    /\ StoreTypes' /\ faults' \in 0 .. MaxFault
    /\ \/ tasks' = Written /\ disk' = Written /\ faults' = faults
       \/ tasks' = tasks /\ disk' \in {disk, Written} /\ faults' = faults + 1
       \/ tasks' = tasks /\ disk' = disk /\ faults' = faults

\* A write that lands, fails or is refused does this.
LEMMA StoreMoves ==
    ASSUME L0, pc \in {"writing", "refused"}, Lands \/ Fails \/ IsRefused
    PROVE  Stores
<1>1. Written \in [Task -> Row]
  BY WrittenRows DEF L0
<1>2. faults \in Nat /\ faults \in 0 .. MaxFault
  BY BoundAssumption DEF L0, TypeOK
<1>3. CASE Lands
  BY <1>1, <1>2, <1>3 DEF Lands, Stores, StoreTypes
<1>4. CASE Fails
  <2>1. faults + refused < MaxFault /\ faults' = faults + 1 /\ refused \in Nat
    BY <1>4, BoundAssumption DEF Fails, Faulty, L0, TypeOK
  <2>2. faults' \in 0 .. MaxFault
    BY <1>2, <2>1, BoundAssumption
  <2> QED
    BY <1>1, <1>4, <2>1, <2>2 DEF L0, TypeOK, Fails, Stores, StoreTypes
<1>5. CASE IsRefused
  BY <1>2, <1>5 DEF L0, TypeOK, IsRefused, storeVars, Stores, StoreTypes
<1> QED
  BY <1>3, <1>4, <1>5

\* The service is open or closing while something is in its slot or begins.
LEMMA OpenSlot ==
    ASSUME L0
    PROVE  /\ work # Idle => phase \in {"open", "closing"}
           /\ phase = "closing" => ~timer
  BY DEF L0, Closed, TypeOK

\* What one call writes is a row.
LEMMA Outcomes ==
    ASSUME TypeOK, NEW op \in Op, op.kind \in {"create", "update", "delete"},
           NEW row \in Outcome(op)
    PROVE  /\ row \in Row /\ op.task \in Task
           /\ \/ op.kind = "create" /\ row = op.row
              \/ op.kind = "delete" /\ row = NoRow /\ tasks[op.task] # NoRow
              \/ /\ op.kind = "update" /\ Active(tasks[op.task]) /\ Active(row)
                 /\ \E r \in Record : row = [tasks[op.task] EXCEPT !.record = r]
                                      /\ (r.at = tasks[op.task].record.at \/ now < r.at)
<1>1. op.task \in Task /\ op.row \in Row /\ op.change \in Change
  BY Operations
<1>2. CASE op.kind = "create"
  BY <1>1, <1>2 DEF Outcome
<1>3. CASE op.kind = "delete"
  BY <1>1, <1>3, NoRowIsNone DEF Outcome, NotFound
<1>4. CASE op.kind = "update"
  <2> DEFINE old == tasks[op.task]
  <2>1. Active(old) /\ \E r \in Edited(old.record, op.row.record, op.change, now) :
                          row = [old EXCEPT !.record = r]
    BY <1>4 DEF Outcome
  <2>2. PICK r \in Edited(old.record, op.row.record, op.change, now) :
                          row = [old EXCEPT !.record = r]
    BY <2>1
  <2>3. old \in Row /\ now \in Time
    BY <1>1 DEF TypeOK
  <2>4. Real(old)
    BY <2>1, <2>3, RowsAreReal
  <2>5. old.record \in Record
    BY <2>4 DEF Real
  <2> HIDE DEF old
  <2>6. r \in Record /\ (r.at = old.record.at \/ now < r.at)
    BY <1>1, <2>2, <2>3, <2>5, EditAhead
  <2>7. row \in Row /\ Active(row)
    BY <2>1, <2>2, <2>4, <2>6 DEF Real, Row, Active
  <2> QED
    BY <1>1, <1>4, <2>1, <2>2, <2>6, <2>7 DEF old
<1> QED
  BY <1>2, <1>3, <1>4

\* The calls keep the first layer.
LEMMA BeginCallKeepsL0 ==
    ASSUME L0, BeginCall
    PROVE  L0'
<1>1. /\ phase \in {"open", "closing"} /\ work = Idle /\ queue # <<>>
      /\ Head(queue).kind \in {"create", "update", "delete"} /\ queue' = Tail(queue)
      /\ UNCHANGED <<envVars, storeVars, inbox, phase, admission, storage, driveVars, runtimeVars>>
  BY DEF BeginCall, Begin
<1>2. Head(queue) \in Op /\ Tail(queue) \in Seq(Op)
  BY <1>1, HeadAndTail DEF L0, TypeOK
<1>3. RestTypes' /\ StoreTypes' /\ RuntimeTypes'
  BY <1>1, <1>2 DEF L0, TypeOK, RestTypes, StoreTypes, RuntimeTypes, envVars, storeVars, driveVars,
         runtimeVars
<1>4. Closed'
  BY <1>1, OpenSlot, StaysOpen DEF runtimeVars
<1>5. CASE UNCHANGED <<work, pc, writing>>
  <2>1. UNCHANGED slotVars
    BY <1>1, <1>5 DEF slotVars, storeVars, driveVars
  <2> QED
    BY <1>3, <1>4, <2>1, SlotsStay, TypesParted
       DEF L0, TypeOK, RuntimeTypes, SlotTypes, StoreTypes, RestTypes
<1>6. ASSUME NEW row \in Outcome(Head(queue)), Readable, work' = Head(queue),
             Write(Head(queue).task, row)
      PROVE  L0'
  <2>1. row \in Row /\ Head(queue).task \in Task
    BY <1>1, <1>2, <1>6, Outcomes DEF L0
  <2>2. writing' = [task |-> Head(queue).task, row |-> row] /\ pc' \in {"writing", "refused"}
    BY <1>6 DEF Write
  <2>3. SlotTypes'
    BY <1>1, <1>2, <1>6, <2>1, <2>2 DEF L0, TypeOK, SlotTypes, driveVars
  <2>4. left' = {} /\ group' = {} /\ work' # Idle
    BY <1>1, <1>2, <1>6, Operations DEF L0, Slots, driveVars
  <2>5. Slots'
    BY <1>1, <1>6, <2>2, <2>4 DEF Slots, Telling
  <2> QED
    BY <1>3, <1>4, <2>3, <2>5 DEF L0, TypeOK, RuntimeTypes, SlotTypes, StoreTypes, RestTypes
<1> QED
  BY <1>5, <1>6 DEF BeginCall

\* A call's write ends its slot.
LEMMA EndCallKeepsL0 ==
    ASSUME L0, EndCall
    PROVE  L0'
<1>1. /\ work.kind \in {"create", "update", "delete"} /\ (Lands \/ Fails \/ IsRefused) /\ Over
      /\ UNCHANGED <<now, refused, calls, given, inbox, phase, admission, storage, driveVars>>
      /\ (RequestDrive \/ UNCHANGED <<runtimeVars, queue>>)
  BY DEF EndCall
<1>2. pc \in {"writing", "refused"} /\ left = {} /\ group = {} /\ work # Idle
  BY <1>1 DEF L0, Slots, Idle
<1>3. Stores
  BY <1>1, <1>2, StoreMoves
<1>4. RuntimeTypes' /\ queue' \in Seq(Op) /\ (phase = "closing" => ~timer')
  BY <1>1, Asking, OpenSlot DEF L0, TypeOK, RuntimeTypes, Asks, runtimeVars
<1>5. work' = Idle /\ pc' = "idle" /\ writing' = NoWrite /\ Idle.kind = "idle"
  BY <1>1 DEF Over, Idle
<1>6. Slots'
  BY <1>1, <1>2, <1>5 DEF Slots, Telling, driveVars
<1>7. TypeOK'
  BY <1>1, <1>3, <1>4, <1>5 DEF L0, TypeOK, Stores, StoreTypes, RuntimeTypes, driveVars
<1>8. Closed'
  BY <1>1, <1>2, <1>4, OpenSlot, StaysOpen
<1> QED
  BY <1>6, <1>7, <1>8 DEF L0

\* So do the stops.
LEMMA BeginStopKeepsL0 ==
    ASSUME L0, BeginStop
    PROVE  L0'
<1>1. /\ phase \in {"open", "closing"} /\ work = Idle /\ queue # <<>>
      /\ Head(queue).kind = "stop" /\ queue' = Tail(queue)
      /\ UNCHANGED <<envVars, storeVars, inbox, phase, admission, storage, scanned, group,
                     decision, acked,
                     failed, runtimeVars>>
  BY DEF BeginStop, Begin
<1>2. Head(queue) \in Op /\ Tail(queue) \in Seq(Op) /\ Head(queue) # Idle
  BY <1>1, HeadAndTail, Operations DEF L0, TypeOK
<1>3. RestTypes' /\ StoreTypes' /\ RuntimeTypes'
  BY <1>1, <1>2 DEF L0, TypeOK, RestTypes, StoreTypes, RuntimeTypes, envVars, storeVars, runtimeVars
<1>4. Closed'
  BY <1>1, OpenSlot, StaysOpen DEF runtimeVars
<1> DEFINE targets == StopTargets(Head(queue).session)
<1>5. CASE targets = {} \/ ~Readable
  <2>1. UNCHANGED slotVars
    BY <1>1, <1>5 DEF BeginStop, slotVars, storeVars
  <2> QED
    BY <1>3, <1>4, <2>1, SlotsStay, TypesParted
       DEF L0, TypeOK, RuntimeTypes, SlotTypes, StoreTypes, RestTypes
<1>6. CASE targets # {} /\ Readable
  <2>1. work' = Head(queue) /\ \E t \in targets : left' = targets \ {t} /\ Write(t, NoRow)
    BY <1>6 DEF BeginStop
  <2>2. PICK t \in targets : left' = targets \ {t} /\ Write(t, NoRow)
    BY <2>1
  <2>3. targets \subseteq Task
    BY DEF StopTargets
  <2> HIDE DEF targets
  <2>4. writing' = [task |-> t, row |-> NoRow] /\ pc' \in {"writing", "refused"} /\ t \in Task
    BY <2>2, <2>3 DEF Write
  <2>5. SlotTypes'
    BY <1>1, <1>2, <2>1, <2>2, <2>3, <2>4, NoRowIsNone DEF L0, TypeOK, SlotTypes
  <2>6. group' = {}
    BY <1>1 DEF L0, Slots
  <2>7. Slots'
    BY <1>1, <1>2, <2>1, <2>2, <2>4, <2>6 DEF Slots, Telling
  <2> QED
    BY <1>3, <1>4, <2>5, <2>7 DEF L0, TypeOK, RuntimeTypes, SlotTypes, StoreTypes, RestTypes
<1> QED
  BY <1>5, <1>6

\* A stop goes on to its next write, or ends.
LEMMA StopWrittenKeepsL0 ==
    ASSUME L0, StopWritten
    PROVE  L0'
<1>1. /\ work.kind = "stop" /\ (Lands \/ Fails \/ IsRefused)
      /\ UNCHANGED <<now, refused, calls, given, inbox, phase, admission, storage, scanned, group,
                     decision, acked,
                     failed>>
  BY DEF StopWritten
<1>2. pc \in {"writing", "refused"} /\ group = {} /\ work # Idle /\ work \in Op
  BY <1>1 DEF L0, Slots, Idle, TypeOK
<1>3. Stores
  BY <1>1, <1>2, StoreMoves
<1>4. work \in [kind : {"stop"}, session : Session, removed : BOOLEAN, partial : BOOLEAN]
  BY <1>1, <1>2, Operations
<1>5. CASE left # {}
  <2>1. /\ \E t \in left : left' = left \ {t} /\ Write(t, NoRow)
        /\ work' = [work EXCEPT !.removed = @ \/ tasks' # tasks,
                                !.partial = @ \/ tasks' = tasks]
        /\ UNCHANGED <<runtimeVars, queue>>
    BY <1>5 DEF StopWritten
  <2>2. PICK t \in left : left' = left \ {t} /\ Write(t, NoRow)
    BY <2>1
  <2>3. writing' = [task |-> t, row |-> NoRow] /\ pc' \in {"writing", "refused"} /\ t \in Task
    BY <2>2 DEF Write, L0, TypeOK
  <2>4. work' \in [kind : {"stop"}, session : Session, removed : BOOLEAN, partial : BOOLEAN]
    BY <1>4, <2>1, Zenon
  <2>5. work' \in Op /\ work'.kind = "stop" /\ work' # Idle
    BY <2>4 DEF Op, Idle
  <2>6. Slots'
    BY <1>1, <1>2, <2>2, <2>3, <2>5 DEF Slots, Telling
  <2>7. TypeOK'
    BY <1>1, <1>3, <2>1, <2>2, <2>3, <2>5, NoRowIsNone
       DEF L0, TypeOK, Stores, StoreTypes, runtimeVars
  <2>8. Closed'
    BY <1>1, <1>2, <2>1, OpenSlot, StaysOpen DEF runtimeVars
  <2> QED
    BY <2>6, <2>7, <2>8 DEF L0
<1>6. CASE left = {}
  <2>1. left' = {} /\ Over /\ (RequestDrive \/ UNCHANGED <<runtimeVars, queue>>)
    BY <1>6 DEF StopWritten
  <2>2. work' = Idle /\ pc' = "idle" /\ writing' = NoWrite /\ Idle.kind = "idle"
    BY <2>1 DEF Over, Idle
  <2>3. RuntimeTypes' /\ queue' \in Seq(Op) /\ (phase = "closing" => ~timer')
    BY <2>1, Asking, OpenSlot DEF L0, TypeOK, RuntimeTypes, Asks, runtimeVars
  <2>4. Slots'
    BY <1>1, <1>2, <2>1, <2>2 DEF Slots, Telling
  <2>5. TypeOK'
    BY <1>1, <1>3, <2>1, <2>2, <2>3 DEF L0, TypeOK, Stores, StoreTypes, RuntimeTypes
  <2>6. Closed'
    BY <1>1, <1>2, <2>3, OpenSlot, StaysOpen
  <2> QED
    BY <2>4, <2>5, <2>6 DEF L0
<1> QED
  BY <1>5, <1>6

\* A drive that moves on keeps the first layer.
LEMMA MovingOn ==
    ASSUME L0, NEW rest, Proceeds(rest), StoreTypes', RestTypes',
           phase' = phase, phase \in {"open", "closing"}, UNCHANGED <<requested, admission,
                                                                      storage>>
    PROVE  L0'
<1>1. RuntimeTypes'
  BY DEF Proceeds, RuntimeTypes, L0, TypeOK
<1>2. TypeOK'
  BY <1>1 DEF Proceeds, TypeOK, RuntimeTypes, SlotTypes, StoreTypes, RestTypes
<1>3. Closed'
  BY StaysOpen DEF Proceeds
<1> QED
  BY <1>2, <1>3 DEF Proceeds, L0

\* What a step in a drive may rely on.
InDrive ==
    /\ work.kind = "drive" /\ phase \in {"open", "closing"} /\ (phase = "closing" => ~timer)
    /\ pc \in {"resolving", "flushing", "writing", "refused"}
    /\ group # {} /\ group \subseteq Task /\ left \subseteq Task /\ group \cap left = {}
    /\ scanned \in [Task -> Row]
    /\ \A t \in group \cup left : scanned[t] = tasks[t] /\ Active(tasks[t]) /\ Active(scanned[t])
    /\ Telling => inbox # <<>> /\ \A t \in group : scanned[t].record.at <= decision
    /\ pc \in {"writing", "refused"}
         => writing.task \in group /\ writing.task \in Task /\ writing.task \notin left
    /\ \A t \in group \cup left : scanned[t].record \in Record
    /\ \A t, u \in group : scanned[t].session = scanned[u].session

\* InDrive holds while a drive is in its slot.
LEMMA DriveRelies ==
    ASSUME L0, work.kind = "drive"
    PROVE  InDrive
<1>1. work # Idle
  BY DEF Idle
<1>2. phase \in {"open", "closing"} /\ (phase = "closing" => ~timer)
  BY <1>1, OpenSlot
<1>3. group \subseteq Task /\ left \subseteq Task /\ scanned \in [Task -> Row]
  BY DEF L0, TypeOK
<1>4. \A t \in group \cup left : scanned[t] = tasks[t] /\ Active(tasks[t]) /\ Active(scanned[t])
  BY DEF L0, Slots
<1>5. \A t \in group \cup left : scanned[t].record \in Record
  <2> TAKE t \in group \cup left
  <2>1. scanned[t] \in Row /\ Active(scanned[t])
    BY <1>3, <1>4
  <2>2. Real(scanned[t])
    BY <2>1, RowsAreReal
  <2> QED
    BY <2>2 DEF Real
<1> QED
  BY <1>2, <1>3, <1>4, <1>5 DEF L0, Slots, InDrive

\* A table that cannot be read ends the run that would scan it.
Unreadable ==
    /\ ~Readable /\ running' = "retiring" /\ timer' = FALSE
    /\ UNCHANGED <<work, pc, left, scanned, group, decision, acked, writing>>

\* A drive begins with what is due.
LEMMA BeginDriveMoves ==
    ASSUME L0, BeginDrive
    PROVE  L0' /\ (Proceeds({t \in Task : Due(tasks[t], now)}) \/ Unreadable)
<1>1. /\ phase \in {"open", "closing"} /\ work = Idle /\ queue # <<>>
      /\ Head(queue).kind = "drive" /\ queue' = Tail(queue) /\ failed' = {}
      /\ UNCHANGED <<envVars, storeVars, inbox, phase, admission, storage, requested>>
      /\ IF Readable THEN DriveProceeds({t \in Task : Due(tasks[t], now)}, tasks)
                     ELSE Unreadable
  BY DEF BeginDrive, Begin, Unreadable
<1>2. Tail(queue) \in Seq(Op)
  BY <1>1, HeadAndTail DEF L0, TypeOK
<1> DEFINE due == {t \in Task : Due(tasks[t], now)}
<1>3. due \in SUBSET Task /\ \A t \in due : tasks[t] = tasks'[t] /\ Active(tasks'[t])
  BY <1>1 DEF Due, storeVars
<1>4. TypeOK /\ tasks \in [Task -> Row] /\ (Readable => DriveProceeds(due, tasks))
      /\ (~Readable => Unreadable)
  BY <1>1 DEF L0, TypeOK
<1> HIDE DEF due
<1>6. RestTypes' /\ StoreTypes'
  BY <1>1, <1>2 DEF L0, TypeOK, RestTypes, StoreTypes, envVars, storeVars
<1>7. CASE Readable
  <2>1. Proceeds(due)
    BY <1>3, <1>4, <1>7, Proceeding
  <2>2. L0'
    BY <1>1, <1>6, <2>1, MovingOn
  <2> QED
    BY <2>1, <2>2 DEF due
<1>8. CASE ~Readable
  <2>1. Unreadable
    BY <1>4, <1>8
  <2>2. UNCHANGED slotVars
    BY <1>1, <2>1 DEF Unreadable, slotVars, storeVars
  <2>3. SlotTypes' /\ Slots'
    BY <2>2, SlotsStay, TypesParted DEF L0
  <2>4. RuntimeTypes'
    BY <1>1, <2>1 DEF L0, TypeOK, RuntimeTypes, Unreadable
  <2>5. TypeOK'
    BY <1>6, <2>3, <2>4 DEF TypeOK, RuntimeTypes, SlotTypes, StoreTypes, RestTypes
  <2>6. Closed'
    BY <1>1, <2>1, StaysOpen DEF Unreadable
  <2> QED
    BY <2>1, <2>3, <2>5, <2>6 DEF L0
<1> QED
  BY <1>7, <1>8

\* A drive that gives up on a group leaves the rows alone and something failed.
GivesUp ==
    /\ Proceeds(left) /\ tasks' = tasks /\ disk' \in {disk, Written}
    /\ disk' # disk => pc \in {"writing", "refused"}
    /\ Mishaps' = Mishaps + 1 /\ inbox' = inbox
    /\ UNCHANGED <<now, calls, given, inbox, phase, admission, storage, queue, requested>>

\* GiveUp does this.
LEMMA GivingUp ==
    ASSUME L0, work.kind = "drive", NEW pending \in SUBSET Task, GiveUp(pending),
           Mishaps' = Mishaps + 1, faults' \in 0 .. MaxFault, refused' \in 0 .. MaxFault,
           tasks' = tasks, disk' \in {disk, Written}, disk' # disk => pc \in {"writing", "refused"},
           disk' \in [Task -> Row],
           UNCHANGED <<now, calls, given, inbox, phase, admission, storage, queue, requested>>
    PROVE  L0' /\ GivesUp
<1>1. InDrive
  BY DriveRelies
<1>2. left \in SUBSET Task /\ scanned \in [Task -> Row] /\ TypeOK /\ DriveProceeds(left, scanned)
  BY DEF L0, TypeOK, GiveUp
<1>3. \A t \in left : scanned[t] = tasks'[t] /\ Active(tasks'[t])
  BY <1>1 DEF InDrive
<1>4. Proceeds(left)
  BY <1>2, <1>3, Proceeding
<1>5. failed' \subseteq Task
  BY DEF GiveUp, L0, TypeOK
<1>6. RestTypes' /\ StoreTypes'
  BY <1>5 DEF L0, TypeOK, RestTypes, StoreTypes
<1>7. L0'
  BY <1>1, <1>4, <1>6, MovingOn DEF InDrive
<1> QED
  BY <1>4, <1>7 DEF GivesUp

\* One more fault is within the bound.
LEMMA FaultCounts ==
    ASSUME L0, Faulty, refused' = refused
    PROVE  /\ Mishaps' = Mishaps + 1 /\ Mishaps' # Mishaps
           /\ faults' \in 0 .. MaxFault /\ refused' \in 0 .. MaxFault
  BY BoundAssumption DEF L0, TypeOK, Faulty, Mishaps

\* A session that cannot be restored, or a flush that fails, is given up.
LEMMA UnresolvedMoves ==
    ASSUME L0, Unresolved \/ NotFlushed
    PROVE  L0' /\ GivesUp
<1>1. /\ work.kind = "drive" /\ Faulty /\ GiveUp(group)
      /\ UNCHANGED <<now, refused, calls, given, storeVars, inbox, phase, admission, storage,
                     queue, requested>>
  BY DEF Unresolved, NotFlushed, Driving
<1>2. Mishaps' = Mishaps + 1 /\ faults' \in 0 .. MaxFault /\ refused' \in 0 .. MaxFault
  BY <1>1, FaultCounts
<1>3. group \in SUBSET Task /\ disk \in [Task -> Row]
  BY DEF L0, TypeOK
<1> QED
  BY <1>1, <1>2, <1>3, GivingUp DEF storeVars

\* The message joins the inbox.
Appends ==
    /\ group' \subseteq group /\ group' # {} /\ decision' = now
    /\ \A t \in group' : scanned[t].record.at <= now
    /\ inbox' \in Seq(Message) /\ Len(inbox') = Len(inbox) + 1
    /\ \A i \in 1 .. Len(inbox) : inbox'[i] = inbox[i]
    /\ inbox'[Len(inbox) + 1].items = {<<t, Occurrence(scanned[t].record, now)>> : t \in group'}
    /\ inbox'[Len(inbox) + 1].state = "pending"
    /\ pc' = "flushing" /\ pc = "resolving" /\ phase # "closing" /\ work.kind = "drive"
    /\ UNCHANGED <<envVars, storeVars, phase, admission, storage, queue, requested,
                   work, left, scanned, acked, failed, writing, timer, running>>

\* Nothing is due any more, or the service stops: on to the next group.
Skips ==
    /\ Proceeds(left) /\ pc = "resolving"
    /\ UNCHANGED <<envVars, storeVars, inbox, phase, admission, storage, queue, requested, failed>>

\* A restored session has its message appended, refused, or nothing to be told.
LEMMA ResolvedMoves ==
    ASSUME L0, Resolved
    PROVE  L0' /\ (Appends \/ GivesUp \/ Skips)
<1>1. /\ work.kind = "drive" /\ pc = "resolving" /\ InDrive
      /\ UNCHANGED <<now, refused, calls, given, storeVars, phase, admission, storage, queue,
                     requested>>
  BY DriveRelies DEF Resolved, Driving
<1>2. Admitted \subseteq group /\ Admitted \in SUBSET Task
      /\ \A t \in Admitted : scanned[t].record.at <= now
  BY <1>1 DEF Admitted, InDrive
<1>3. ASSUME UNCHANGED <<inbox, failed, faults>>, DriveProceeds(left, scanned)
      PROVE  L0' /\ Skips
  <2>1. left \in SUBSET Task /\ scanned \in [Task -> Row] /\ TypeOK
    BY DEF L0, TypeOK
  <2>2. \A t \in left : scanned[t] = tasks'[t] /\ Active(tasks'[t])
    BY <1>1 DEF InDrive, storeVars
  <2>3. Proceeds(left)
    BY <1>3, <2>1, <2>2, Proceeding
  <2>4. RestTypes' /\ StoreTypes'
    BY <1>1, <1>3 DEF L0, TypeOK, RestTypes, StoreTypes, storeVars
  <2>5. L0'
    BY <1>1, <2>3, <2>4, MovingOn DEF InDrive
  <2> QED
    BY <1>1, <1>3, <2>3, <2>5 DEF Skips, envVars
<1>4. ASSUME Faulty, GiveUp(Admitted), UNCHANGED inbox
      PROVE  L0' /\ GivesUp
  <2>1. Mishaps' = Mishaps + 1 /\ faults' \in 0 .. MaxFault /\ refused' \in 0 .. MaxFault
    BY <1>1, <1>4, FaultCounts
  <2>2. disk \in [Task -> Row]
    BY DEF L0, TypeOK
  <2> QED
    BY <1>1, <1>2, <1>4, <2>1, <2>2, GivingUp DEF storeVars
<1>5. ASSUME phase # "closing", Admitted # {}, group' = Admitted, decision' = now,
             inbox' = Append(inbox, [items   |-> Items(Admitted),
                                     session |-> SessionOf(Admitted),
                                     state   |-> "pending"]),
             pc' = "flushing",
             UNCHANGED <<work, left, scanned, acked, failed, faults, writing, timer, running>>
      PROVE  L0' /\ Appends
  <2> DEFINE m == [items |-> Items(Admitted), session |-> SessionOf(Admitted), state |-> "pending"]
  <2>1. now \in Time /\ inbox \in Seq(Message)
    BY DEF L0, TypeOK
  <2>2. ASSUME NEW t \in Admitted PROVE Occurrence(scanned[t].record, now) \in Time
    <3>1. scanned[t].record \in Record /\ scanned[t].record.at <= now
      BY <1>1, <1>2 DEF InDrive
    <3> QED
      BY <2>1, <3>1, OccurrenceDue
  <2>3. Items(Admitted) \in SUBSET (Task \X Time)
    BY <1>2, <2>2 DEF Items
  <2>4. SessionOf(Admitted) \in Session
    <3>1. PICK t \in Admitted : TRUE
      BY <1>5
    <3>2. scanned[t] \in Row /\ Active(scanned[t])
      BY <1>1, <1>2 DEF InDrive
    <3>3. Real(scanned[t])
      BY <3>2, RowsAreReal
    <3>4. \E s \in Session : \E u \in Admitted : scanned[u].session = s
      BY <3>3 DEF Real
    <3> QED
      BY <3>4 DEF SessionOf
  <2>5. m \in Message
    BY <2>3, <2>4 DEF Message
  <2> HIDE DEF m
  <2>6. inbox' = Append(inbox, m)
    BY <1>5 DEF m
  <2>7. /\ inbox' \in Seq(Message) /\ Len(inbox') = Len(inbox) + 1 /\ inbox' # <<>>
        /\ \A i \in 1 .. Len(inbox) : inbox'[i] = inbox[i]
        /\ inbox'[Len(inbox) + 1] = m
    BY <2>1, <2>5, <2>6
  <2>8. Appends
    BY <1>1, <1>2, <1>5, <2>7 DEF Appends, Items, m, envVars, storeVars
  <2>9. Slots'
    BY <1>1, <1>2, <1>5, <2>7 DEF L0, Slots, Telling, storeVars
  <2>10. TypeOK'
    BY <1>1, <1>2, <1>5, <2>1, <2>7 DEF L0, TypeOK, storeVars
  <2>11. Closed'
    BY <1>1, <1>5, StaysOpen DEF InDrive
  <2> QED
    BY <2>8, <2>9, <2>10, <2>11 DEF L0
<1> QED
  BY <1>3, <1>4, <1>5 DEF Resolved

\* The row written for an acknowledged reminder.
LEMMA CommitRow ==
    ASSUME L0, work.kind = "drive", Telling, NEW t \in group, NEW when \in Time
    PROVE  LET receipt == [at |-> Occurrence(scanned[t].record, decision), when |-> when,
                           message |-> Sent]
           IN  /\ receipt \in Receipt
               /\ Delivery(DeliveredRow(scanned[t], decision, when, Sent), scanned[t], decision,
                           receipt)
<1>1. InDrive
  BY DriveRelies
<1>2. scanned[t] \in Row /\ Active(scanned[t]) /\ scanned[t].record.at <= decision
  BY <1>1 DEF InDrive
<1>3. decision \in Time /\ Sent \in Nat
  BY DEF L0, TypeOK, Sent
<1> QED
  BY <1>2, <1>3, Delivered

\* A row of the group is being written.
Commits(rows, when) ==
    /\ pc' \in {"writing", "refused"} /\ group' = rows
    /\ \E t \in rows :
         writing' = [task |-> t, row |-> DeliveredRow(scanned[t], decision, when, Sent)]
    /\ UNCHANGED <<work, left, scanned, decision>>

\* Writing a row of the group keeps the slot.
LEMMA CommitSlots ==
    ASSUME L0, work.kind = "drive", Telling, NEW rows \in SUBSET group, rows # {},
           NEW when \in Time, Commits(rows, when), acked' = when, Len(inbox') = Len(inbox),
           inbox' \in Seq(Message), \A t \in rows \cup left : tasks'[t] = tasks[t]
    PROVE  Slots' /\ SlotTypes'
<1>1. PICK t \in rows :
        writing' = [task |-> t, row |-> DeliveredRow(scanned[t], decision, when, Sent)]
  BY DEF Commits
<1>2. DeliveredRow(scanned[t], decision, when, Sent) \in Row
  BY CommitRow DEF Delivery
<1>3. InDrive /\ inbox \in Seq(Message)
  BY DriveRelies DEF L0, TypeOK
<1>4. t \in Task /\ rows \subseteq Task /\ inbox' # <<>>
  BY <1>3 DEF InDrive
<1>5. /\ pc' \in {"writing", "refused"} /\ group' = rows /\ work' = work /\ left' = left
      /\ scanned' = scanned /\ decision' = decision
  BY DEF Commits
<1>6. Sent' = Sent
  BY DEF Sent
<1>7. writing'.task = t /\ writing'.row = DeliveredRow(scanned[t], decision, when, Sent)
  BY <1>1
<1>8. SlotTypes'
  BY <1>1, <1>2, <1>4, <1>5 DEF L0, TypeOK, SlotTypes
<1>9. writing'.row = DeliveredRow(scanned'[writing'.task], decision', acked', Sent')
  BY <1>5, <1>6, <1>7
<1>10. /\ \A u \in rows \cup left : scanned'[u] = tasks'[u] /\ Active(tasks'[u])
       /\ \A u, v \in rows : scanned'[u].session = scanned'[v].session
       /\ \A u \in rows : scanned'[u].record.at <= decision'
       /\ rows \cap left' = {} /\ left' = left
  BY <1>3, <1>5 DEF InDrive
<1>11. work'.kind = "drive" /\ work' # Idle
  BY <1>5 DEF Idle
<1>12. (\A u \in group \cup left : scanned[u] = tasks[u] /\ Active(tasks[u]))'
  BY <1>5, <1>10
<1>13. (writing.row = DeliveredRow(scanned[writing.task], decision, acked, Sent))'
  BY <1>9
<1>14. Slots'
  BY <1>4, <1>5, <1>7, <1>10, <1>11, <1>12, <1>13 DEF Slots, Telling
<1> QED
  BY <1>8, <1>14

\* The message is durable, and its rows are written one after the other.
Acknowledges ==
    /\ Settles /\ inbox'[Sent].state = "durable" /\ pc = "flushing" /\ work.kind = "drive"
    /\ Commits(group, now) /\ acked' = now
    /\ UNCHANGED <<envVars, storeVars, phase, admission, storage, queue, failed, runtimeVars>>

\* The acknowledgement of the flush does this.
LEMMA FlushedMoves ==
    ASSUME L0, Flushed
    PROVE  L0' /\ Acknowledges
<1>1. /\ work.kind = "drive" /\ pc = "flushing" /\ InDrive /\ Telling
      /\ UNCHANGED <<envVars, storeVars, phase, admission, storage, queue, work, left, scanned,
                     group,
                     decision, failed, runtimeVars>>
      /\ acked' = now
  BY DriveRelies DEF Flushed, Driving, Telling
<1>2. Settles /\ inbox'[Sent].state = "durable"
  BY <1>1, FlushSettles DEF L0, TypeOK, Flushed, InDrive
<1>3. Commits(group, now)
  BY <1>1 DEF Flushed, Commit, Commits, Write
<1>4. Acknowledges
  BY <1>1, <1>2, <1>3 DEF Acknowledges
<1>5. now \in Time /\ group # {}
  BY <1>1 DEF L0, TypeOK, InDrive
<1>6. Slots' /\ SlotTypes'
  BY <1>1, <1>2, <1>3, <1>5, CommitSlots DEF Settles, storeVars
<1>7. TypeOK'
  BY <1>1, <1>2, <1>6 DEF L0, TypeOK, SlotTypes, Settles, envVars, storeVars, runtimeVars
<1>8. Closed'
  BY <1>1, StaysOpen DEF InDrive, runtimeVars
<1> QED
  BY <1>4, <1>6, <1>7, <1>8 DEF L0

\* A row of the group was written: the next one is, or the drive goes on.
CommitsOn ==
    /\ pc \in {"writing", "refused"} /\ work.kind = "drive" /\ tasks' = Written /\ disk' = Written
    /\ \/ Commits(group \ {writing.task}, acked) /\ UNCHANGED <<acked, timer, running>>
       \/ Proceeds(left) /\ group = {writing.task}
    /\ UNCHANGED <<envVars, inbox, phase, admission, storage, queue, requested, failed>>

\* A write of the drive landed, or failed and the rest is given up.
LEMMA CommittedMoves ==
    ASSUME L0, Committed
    PROVE  L0' /\ (CommitsOn \/ GivesUp)
<1>1. /\ work.kind = "drive" /\ pc \in {"writing", "refused"} /\ InDrive /\ Telling
      /\ UNCHANGED <<now, refused, calls, given, inbox, phase, admission, storage, queue,
                     requested>>
  BY DriveRelies DEF Committed, Driving, Telling
<1> DEFINE rest == group \ {writing.task}
<1>2. rest \in SUBSET group /\ writing.task \in group /\ writing.task \in Task
      /\ writing.task \notin left /\ writing.task \notin rest /\ rest \subseteq Task
  BY <1>1 DEF InDrive
<1>3. ASSUME Lands
      PROVE  /\ StoreTypes' /\ tasks' = Written /\ disk' = Written /\ faults' = faults
             /\ \A t \in rest \cup left : tasks'[t] = tasks[t]
  <2>1. Written \in [Task -> Row] /\ \A t \in Task : t # writing.task => Written[t] = tasks[t]
    BY <1>1, WrittenRows DEF L0
  <2> QED
    BY <1>1, <1>2, <1>3, <2>1 DEF Lands, StoreTypes, InDrive
<1>4. ASSUME Lands, rest # {}, group' = rest, Commit(rest, acked),
             UNCHANGED <<work, left, scanned, decision, acked, failed, timer, running>>
      PROVE  L0' /\ CommitsOn
  <2>1. Commits(rest, acked)
    BY <1>4 DEF Commit, Commits, Write
  <2>2. CommitsOn
    BY <1>1, <1>3, <1>4, <2>1 DEF CommitsOn, envVars
  <2>3. acked \in Time /\ inbox \in Seq(Message)
    BY DEF L0, TypeOK
  <2>4. Slots' /\ SlotTypes'
    <3> HIDE DEF rest
    <3> QED
      BY <1>1, <1>2, <1>3, <1>4, <2>1, <2>3, CommitSlots
  <2>5. TypeOK'
    BY <1>1, <1>3, <1>4, <2>4 DEF L0, TypeOK, SlotTypes, StoreTypes
  <2>6. Closed'
    BY <1>1, <1>4, StaysOpen DEF InDrive
  <2> QED
    BY <2>2, <2>4, <2>5, <2>6 DEF L0
<1>5. ASSUME Lands, rest = {}, UNCHANGED failed, DriveProceeds(left, scanned)
      PROVE  L0' /\ CommitsOn
  <2>1. left \in SUBSET Task /\ scanned \in [Task -> Row] /\ TypeOK
    BY DEF L0, TypeOK
  <2>2. \A t \in left : scanned[t] = tasks'[t] /\ Active(tasks'[t])
    BY <1>1, <1>3, <1>5 DEF InDrive
  <2>3. Proceeds(left)
    BY <1>5, <2>1, <2>2, Proceeding
  <2>4. RestTypes'
    BY <1>1, <1>3, <1>5 DEF L0, TypeOK, RestTypes
  <2>5. L0'
    BY <1>1, <1>3, <1>5, <2>3, <2>4, MovingOn DEF InDrive
  <2>6. group = {writing.task}
    BY <1>2, <1>5
  <2> QED
    BY <1>1, <1>3, <1>5, <2>3, <2>5, <2>6 DEF CommitsOn, envVars
<1>6. ASSUME Fails, GiveUp(rest \cup {writing.task})
      PROVE  L0' /\ GivesUp
  <2>1. Mishaps' = Mishaps + 1 /\ faults' \in 0 .. MaxFault /\ refused' \in 0 .. MaxFault
    BY <1>1, <1>6, FaultCounts DEF Fails
  <2>2. tasks' = tasks /\ disk' \in {disk, Written} /\ disk' \in [Task -> Row]
    BY <1>1, <1>6, WrittenRows DEF Fails, L0, TypeOK
  <2>3. rest \cup {writing.task} \in SUBSET Task
    BY <1>2
  <2> QED
    BY <1>1, <1>6, <2>1, <2>2, <2>3, GivingUp
<1>7. rest \cup {writing.task} = group
  BY <1>2
<1> QED
  BY <1>4, <1>5, <1>6, <1>7 DEF Committed

\* A row a closing storage refuses is given up with the rest of its group.
LEMMA CommitRefusedMoves ==
    ASSUME L0, CommitRefused
    PROVE  L0' /\ GivesUp
<1>1. /\ work.kind = "drive" /\ GiveUp(group) /\ IsRefused
      /\ faults + refused < MaxFault /\ refused' = refused + 1
      /\ UNCHANGED <<now, calls, given, inbox, phase, admission, storage, queue, requested>>
  BY DEF CommitRefused, Driving
<1>2. /\ Mishaps' = Mishaps + 1 /\ faults' \in 0 .. MaxFault /\ refused' \in 0 .. MaxFault
      /\ tasks' = tasks /\ disk' = disk /\ disk \in [Task -> Row] /\ group \in SUBSET Task
  BY <1>1, BoundAssumption DEF L0, TypeOK, Mishaps, IsRefused, storeVars
<1> QED
  BY <1>1, <1>2, GivingUp

\* The first states are types, and nothing is in the slot.
LEMMA InitL0 ==
    ASSUME Init
    PROVE  L0
<1>4. disk \in [Task -> Row]
  <2>1. PICK rows \in [Saved -> {FreshRow(s, r) : s \in Session, 
                    r \in {x \in Record : x.at = 1 /\ x.kind \in Rules}}] :
           disk = [t \in Task |-> IF t \in Saved THEN rows[t] ELSE NoRow]
    BY DEF Init
  <2>2. \A s \in Session, r \in Record : FreshRow(s, r) \in Row
    <3>1. NoReceipt \in Receipt
      BY MaxTimeAssumption DEF NoReceipt, Receipt, Time
    <3>2. <<>> \in Seq(Receipt)
      OBVIOUS
    <3> QED
      BY <3>1, <3>2 DEF FreshRow, Row
  <2>3. ASSUME NEW t \in Saved PROVE rows[t] \in Row
    BY <2>2
  <2> QED
    BY <2>1, <2>3, NoRowIsNone
<1>5. /\ 0 \in Time /\ NoTable \in [Task -> Row] /\ <<>> \in Seq(Op) /\ <<>> \in Seq(Message)
      /\ 0 \in 0 .. MaxFault /\ 0 \in 0 .. MaxCall /\ Saved \subseteq Task
      /\ Idle.kind = "idle" /\ \A i \in DOMAIN <<>> : FALSE
  BY MaxTimeAssumption, BoundAssumption, SavedAssumption, NoRowIsNone DEF NoTable, Time, Idle
<1>8. /\ now = 0 /\ faults = 0 /\ refused = 0 /\ calls = 0 /\ given = Saved /\ tasks = NoTable
      /\ scanned = NoTable /\ inbox = <<>> /\ phase = "closed" /\ admission = TRUE
      /\ storage = "closed"
      /\ queue = <<>> /\ work = Idle /\ pc = "idle" /\ left = {} /\ group = {} /\ failed = {}
      /\ decision = 0 /\ acked = 0 /\ writing = NoWrite
      /\ timer = FALSE /\ running = "none" /\ requested = FALSE
  BY DEF Init
<1>6. TypeOK
  <2>1. RuntimeTypes
    BY <1>8 DEF RuntimeTypes
  <2>2. SlotTypes
    BY <1>5, <1>8 DEF SlotTypes
  <2>3. StoreTypes
    BY <1>4, <1>5, <1>8 DEF StoreTypes
  <2>4. RestTypes
    BY <1>5, <1>8 DEF RestTypes
  <2> QED
    BY <2>1, <2>2, <2>3, <2>4, TypesParted
<1>7. Slots /\ Closed
  BY <1>5, <1>8 DEF Slots, Closed, Telling
<1> QED
  BY <1>6, <1>7 DEF L0

\* Every step keeps the first layer.
LEMMA NextL0 ==
    ASSUME L0, [Next]_vars
    PROVE  L0'
<1>1. CASE Calls
  BY <1>1, CallsJoin, JoinsKeepL0 DEF L0
<1>2. CASE Slot
  BY <1>2, BeginCallKeepsL0, EndCallKeepsL0, BeginStopKeepsL0, StopWrittenKeepsL0, BeginDriveMoves,
     ResolvedMoves, UnresolvedMoves, FlushedMoves, CommittedMoves,
     CommitRefusedMoves DEF Slot
<1>3. CASE Runtime \/ TimerFires
  BY <1>3, RuntimeMoves, RuntimeKeepsL0
<1>4. CASE Boot \/ OpenAbandoned \/ CloseAdmission \/ StorageCloses \/ StorageClosed \/ Cleanup
              \/ Tick \/ SetBack
  BY <1>4, LifeKeepsL0
<1>5. CASE Open \/ Close \/ Crash
  BY <1>5, OpenKeepsL0, CloseKeepsL0, CrashKeepsL0
<1>6. CASE UNCHANGED vars
  <2>1. UNCHANGED slotVars
    BY <1>6 DEF vars, slotVars, storeVars, driveVars
  <2>2. Slots'
    BY <2>1, SlotsStay, TypesParted DEF L0
  <2>3. TypeOK' /\ Closed'
    BY <1>6 DEF L0, TypeOK, Closed, vars, envVars, storeVars, driveVars, runtimeVars
  <2> QED
    BY <2>2, <2>3 DEF L0
<1> QED
  BY <1>1, <1>2, <1>3, <1>4, <1>5, <1>6 DEF Next

-----------------------------------------------------------------------------
(* Second layer: which reminders have a timer or a drive.                  *)

\* No drive is in the FIFO.
Driveless == \A i \in DOMAIN queue : queue[i].kind # "drive"

\* A step that leaves the FIFO, the slot and the run as they are keeps the one drive.
LEMMA DrivesStay ==
    ASSUME Drives, queue' = queue, work' = work, running' = running
    PROVE  Drives'
  BY DEF Drives

\* So does one that asks for a drive,
LEMMA DrivesJoin ==
    ASSUME L0, Drives, queue' = Append(queue, DriveOp), running # "driving",
           running' = "driving", work' \in {work, Idle}
    PROVE  Drives'
<1>1. queue \in Seq(Op) /\ DriveOp \in Op /\ Idle.kind # "drive"
  BY DEF L0, TypeOK, DriveOp, Op, Idle
<1>2. work.kind # "drive" /\ Driveless
  BY DEF Drives, Driveless
<1>3. \A i \in DOMAIN queue' :
                 \/ i \in DOMAIN queue /\ queue'[i] = queue[i]
                 \/ i = Len(queue) + 1 /\ queue'[i] = DriveOp
  BY <1>1, Appending
<1>4. work'.kind # "drive"
  BY <1>1, <1>2
<1>5. \A i, k \in DOMAIN queue' : queue'[i].kind = "drive" /\ queue'[k].kind = "drive" => i = k
  BY <1>2, <1>3 DEF Driveless
<1> QED
  BY <1>4, <1>5 DEF Drives

\* and one whose head leaves the FIFO for the slot, or for nothing.
LEMMA DrivesBegin ==
    ASSUME L0, Drives, work = Idle, queue # <<>>, queue' = Tail(queue),
           Head(queue).kind # "drive", running' = running, work' \in {work, Head(queue)}
    PROVE  Drives'
<1>1. /\ 1 \in DOMAIN queue /\ Head(queue) = queue[1]
      /\ \A i \in DOMAIN queue' : i + 1 \in DOMAIN queue /\ queue'[i] = queue[i + 1]
      /\ \A i, k \in DOMAIN queue' : i + 1 = k + 1 => i = k
  BY HeadAndTail DEF L0, TypeOK
<1>2. work'.kind # "drive"
  BY DEF Idle
<1> QED
  BY <1>1, <1>2 DEF Drives

\* A drive that goes on is the one there is.
LEMMA DrivesProceed ==
    ASSUME Drives, NEW rest, Proceeds(rest), running = "driving",
           \A i \in DOMAIN queue' : queue'[i].kind # "drive"
    PROVE  Drives'
<1>1. Idle.kind # "drive" /\ DriveOp.kind = "drive"
  BY DEF Idle, DriveOp
<1> QED
  BY <1>1 DEF Drives, Proceeds

\* While a drive is asked for or under way, no timer is needed.
LEMMA Expected ==
    ASSUME Expecting' \/ ~admission' \/ phase' # "open"
    PROVE  Reminded'
  BY DEF Reminded

\* A call's append is no drive.
LEMMA DrivesAppend ==
    ASSUME L0, Drives, NEW op \in Op, op.kind # "drive", queue' = Append(queue, op),
           work' = work, running' = running
    PROVE  Drives'
<1>1. queue \in Seq(Op)
  BY DEF L0, TypeOK
<1>2. \A i \in DOMAIN queue' :
                 \/ i \in DOMAIN queue /\ queue'[i] = queue[i]
                 \/ i = Len(queue) + 1 /\ queue'[i] = op
  BY <1>1, Appending
<1> QED
  BY <1>2 DEF Drives

\* What asks for a drive, with no drive in the slot, keeps there being one.
LEMMA DrivesAsked ==
    ASSUME L0, Drives, Asks \/ UNCHANGED <<runtimeVars, queue>>,
           work.kind # "drive", work'.kind # "drive"
    PROVE  Drives'
<1>1. CASE queue' = queue /\ running' = running
  BY <1>1 DEF Drives
<1>2. CASE queue' = Append(queue, DriveOp) /\ running = "none" /\ running' = "driving"
  <2>1. queue \in Seq(Op) /\ DriveOp \in Op
    BY DEF L0, TypeOK, DriveOp, Op
  <2>2. Driveless
    BY <1>2 DEF Drives, Driveless
  <2>3. \A i \in DOMAIN queue' :
                   \/ i \in DOMAIN queue /\ queue'[i] = queue[i]
                   \/ i = Len(queue) + 1 /\ queue'[i] = DriveOp
    BY <1>2, <2>1, Appending
  <2>4. \A i, k \in DOMAIN queue' : queue'[i].kind = "drive" /\ queue'[k].kind = "drive" => i = k
    BY <2>2, <2>3 DEF Driveless
  <2> QED
    BY <1>2, <2>4 DEF Drives
<1> QED
  BY <1>1, <1>2 DEF Asks, runtimeVars

\* There is at most one drive, and the run waits for it, after every step.
LEMMA NextDrives ==
    ASSUME L0, Drives, [Next]_vars
    PROVE  Drives'
<1>0. Idle.kind # "drive" /\ DriveOp.kind = "drive" /\ (\A i \in DOMAIN <<>> : FALSE)
  BY DEF Idle, DriveOp
<1>1. CASE Calls
  <2>1. PICK op \in Op : Joins(op)
    BY <1>1, CallsJoin DEF L0
  <2> QED
    BY <2>1, DrivesAppend DEF Joins, runtimeVars
<1>2. CASE Runtime \/ TimerFires
  <2>1. RuntimeSteps
    BY <1>2, RuntimeMoves
  <2>2. CASE queue' = queue
    BY <2>1, <2>2 DEF RuntimeSteps, Drives
  <2>3. CASE queue' = Append(queue, DriveOp) /\ running # "driving" /\ running' = "driving"
    BY <2>1, <2>3, DrivesJoin DEF RuntimeSteps
  <2> QED
    BY <2>1, <2>2, <2>3 DEF RuntimeSteps
<1>3. CASE Boot \/ CloseAdmission \/ StorageCloses \/ StorageClosed \/ Cleanup \/ Tick \/ SetBack
              \/ Close \/ UNCHANGED vars
  BY <1>3, DrivesStay
     DEF Boot, CloseAdmission, StorageCloses, StorageClosed, Cleanup, Tick, SetBack, Close, vars,
         runtimeVars
<1>4. CASE OpenAbandoned \/ Crash
  <2>1. queue' = <<>> /\ work' = Idle
    <3>1. CASE OpenAbandoned
      BY <3>1 DEF OpenAbandoned, L0, Closed
    <3>2. CASE Crash
      BY <3>2 DEF Crash, Over
    <3> QED
      BY <1>4, <3>1, <3>2
  <2> QED
    BY <1>0, <2>1 DEF Drives
<1>5. CASE Open
  <2>1. Asks /\ work = Idle /\ work' = Idle
    BY <1>5, Asking DEF L0, Open, Closed
  <2> QED
    BY <1>0, <2>1, DrivesAsked
<1>6. CASE BeginCall
  <2>1. /\ work = Idle /\ queue # <<>> /\ queue' = Tail(queue) /\ Head(queue).kind # "drive"
        /\ running' = running /\ work' \in {work, Head(queue)}
    BY <1>6 DEF BeginCall, Begin, runtimeVars
  <2> QED
    BY <2>1, DrivesBegin
<1>7. CASE BeginStop
  <2>1. /\ work = Idle /\ queue # <<>> /\ queue' = Tail(queue) /\ Head(queue).kind # "drive"
        /\ running' = running /\ work' \in {work, Head(queue)}
    BY <1>7 DEF BeginStop, Begin, runtimeVars
  <2> QED
    BY <2>1, DrivesBegin
<1>8. CASE EndCall
  <2>1. work.kind # "drive" /\ work' = Idle /\ (Asks \/ UNCHANGED <<runtimeVars, queue>>)
    BY <1>8, Asking DEF L0, EndCall, Over
  <2> QED
    BY <1>0, <2>1, DrivesAsked
<1>9. CASE StopWritten
  <2>1. work.kind = "stop" /\ (Asks \/ UNCHANGED <<runtimeVars, queue>>)
    BY <1>9, Asking DEF L0, StopWritten
  <2>2. work'.kind # "drive"
    <3>1. CASE left = {}
      BY <1>0, <1>9, <3>1 DEF StopWritten, Over
    <3>2. CASE left # {}
      <4>1. work \in Op
        BY <2>1 DEF L0, TypeOK, Idle
      <4>2. work \in [kind : {"stop"}, session : Session, removed : BOOLEAN, partial : BOOLEAN]
        BY <2>1, <4>1, Operations
      <4>3. work' = [work EXCEPT !.removed = @ \/ tasks' # tasks, !.partial = @ \/ tasks' = tasks]
        BY <1>9, <3>2 DEF StopWritten
      <4> QED
        BY <4>2, <4>3, Zenon
    <3> QED
      BY <3>1, <3>2
  <2> QED
    BY <2>1, <2>2, DrivesAsked
<1>10. CASE BeginDrive
  <2>1. Proceeds({t \in Task : Due(tasks[t], now)}) \/ Unreadable
    BY <1>10, BeginDriveMoves
  <2>2. work = Idle /\ queue # <<>> /\ Head(queue).kind = "drive" /\ queue' = Tail(queue)
    BY <1>10 DEF BeginDrive, Begin
  <2>3. /\ 1 \in DOMAIN queue /\ Head(queue) = queue[1]
        /\ \A i \in DOMAIN Tail(queue) :
              i + 1 \in DOMAIN queue /\ Tail(queue)[i] = queue[i + 1] /\ i + 1 # 1
    BY <2>2, HeadAndTail DEF L0, TypeOK
  <2>4. running = "driving" /\ \A i \in DOMAIN queue' : queue'[i].kind # "drive"
    BY <2>2, <2>3 DEF Drives
  <2>5. CASE Unreadable
    BY <1>0, <2>2, <2>4, <2>5 DEF Unreadable, Drives
  <2> QED
    BY <2>1, <2>4, <2>5, DrivesProceed
<1>11. CASE Resolved \/ Unresolved \/ Flushed \/ NotFlushed \/ Committed \/ CommitRefused
  <2>1. Appends \/ GivesUp \/ Skips \/ Acknowledges \/ CommitsOn
    BY <1>11, ResolvedMoves, UnresolvedMoves, FlushedMoves, CommittedMoves,
       CommitRefusedMoves
  <2>2. work.kind = "drive" /\ running = "driving" /\ Driveless
    BY <1>11 DEF Resolved, Unresolved, Flushed, NotFlushed, Committed, CommitRefused,
           Driving, Drives, Driveless
  <2>3. queue' = queue
    BY <2>1 DEF Appends, GivesUp, Skips, Acknowledges, CommitsOn
  <2>4. CASE Proceeds(left)
    BY <2>2, <2>3, <2>4, DrivesProceed DEF Driveless
  <2>5. CASE ~Proceeds(left)
    <3>1. work' = work /\ running' = running
      BY <2>1, <2>5 DEF Appends, GivesUp, Skips, Acknowledges, CommitsOn, Commits, runtimeVars
    <3> QED
      BY <2>3, <3>1, DrivesStay
  <2> QED
    BY <2>4, <2>5
<1> QED
  BY <1>1, <1>2, <1>3, <1>4, <1>5, <1>6, <1>7, <1>8, <1>9, <1>10, <1>11 DEF Next, Slot

\* A step that leaves the run alone and arms no row keeps the reminders reminded.
LEMMA RemindedStays ==
    ASSUME Reminded, UNCHANGED <<runtimeVars, phase>>, admission' => admission,
           Obligations' \subseteq Obligations
    PROVE  Reminded'
<1>1. UNCHANGED <<timer, running, requested>>
  BY DEF runtimeVars
<1>2. Expecting' <=> Expecting
  BY <1>1 DEF Expecting
<1> QED
  BY <1>2 DEF Reminded

\* One that asks for a drive does too,
LEMMA RemindedAsked ==
    ASSUME Asks, phase # "closing", admission' = admission
    PROVE  Reminded'
<1>1. running' = "driving" \/ (running' # "none" /\ requested') \/ ~admission
  BY DEF Asks
<1> QED
  BY <1>1, Expected DEF Expecting

\* and one that goes on with a drive.
LEMMA RemindedProceeds ==
    ASSUME L0, NEW rest, Proceeds(rest) \/ Unreadable, running = "driving",
           UNCHANGED <<phase, admission>>
    PROVE  Reminded'
<1>0. storage # "open" => phase = "closed" \/ ~admission
  BY DEF L0, Closed
<1>1. CASE running' = running
  BY <1>1, Expected DEF Expecting
<1>2. CASE running' # running
  <2>1. phase # "open" \/ timer' \/ Obligations' = {} \/ ~Readable
    BY <1>2 DEF Proceeds, Unreadable
  <2> QED
    BY <1>0, <2>1 DEF Reminded, Expecting, Readable
<1> QED
  BY <1>1, <1>2

\* A call's or a stop's write that asks for a drive or leaves the table alone.
LEMMA RemindedWrites ==
    ASSUME L0, Reminded, Asks \/ (UNCHANGED <<runtimeVars,
                                              queue>> /\ Obligations' \subseteq Obligations),
           UNCHANGED <<phase, admission, storage>>
    PROVE  Reminded'
<1>1. CASE phase = "closing"
  BY <1>1, Expected
<1>2. CASE Asks /\ phase # "closing"
  BY <1>2, RemindedAsked
<1>3. CASE UNCHANGED <<runtimeVars, queue>> /\ Obligations' \subseteq Obligations
  BY <1>3, RemindedStays
<1> QED
  BY <1>1, <1>2, <1>3

\* The same rows are owed a reminder as long as neither table nor failures change.
LEMMA SameObligations ==
    ASSUME tasks' = tasks, failed' = failed
    PROVE  Obligations' \subseteq Obligations
  BY DEF Obligations

\* Every step keeps active rows reminded.
LEMMA NextReminded ==
    ASSUME L0, Drives, Reminded, [Next]_vars
    PROVE  Reminded'
<1>1. CASE Calls
  <2>1. PICK op \in Op : Joins(op)
    BY <1>1, CallsJoin DEF L0
  <2>2. UNCHANGED <<runtimeVars, phase, admission, storage, tasks, failed>>
    BY <2>1 DEF Joins, storeVars, driveVars
  <2> QED
    BY <2>2, RemindedStays, SameObligations
<1>2. CASE CheckRequested
  <2>1. running = "checking" /\ UNCHANGED <<timer, phase, admission, storage, tasks, failed>>
    BY <1>2 DEF CheckRequested, storeVars, driveVars
  <2>2. CASE requested /\ phase # "closing"
    <3>1. running' = "driving"
      BY <1>2, <2>2 DEF CheckRequested
    <3> QED
      BY <3>1, Expected DEF Expecting
  <2>3. CASE ~requested
    <3>1. running' = "retiring" /\ requested' = requested
      BY <1>2, <2>3 DEF CheckRequested
    <3>2. Expecting => Expecting'
      BY <2>1, <2>3, <3>1 DEF Expecting
    <3>3. Obligations' \subseteq Obligations
      BY <2>1, SameObligations
    <3> QED
      BY <2>1, <3>2, <3>3 DEF Reminded
  <2>4. CASE phase = "closing"
    BY <2>1, <2>4, Expected
  <2> QED
    BY <2>2, <2>3, <2>4
<1>3. CASE Retire
  <2>1. running = "retiring" /\ UNCHANGED <<phase, admission, storage, tasks, failed>>
    BY <1>3 DEF Retire, storeVars, driveVars
  <2>2. CASE requested /\ phase # "closing"
    <3>1. running' = "driving" \/ ~admission
      BY <1>3, <2>2 DEF Retire
    <3> QED
      BY <2>1, <3>1, Expected DEF Expecting
  <2>3. CASE ~requested
    <3>1. timer' = timer
      BY <1>3, <2>3 DEF Retire
    <3>2. Expecting => Expecting'
      BY <2>1, <2>3, <3>1 DEF Expecting
    <3>3. Obligations' \subseteq Obligations
      BY <2>1, SameObligations
    <3> QED
      BY <2>1, <3>2, <3>3 DEF Reminded
  <2>4. CASE phase = "closing"
    BY <2>1, <2>4, Expected
  <2> QED
    BY <2>2, <2>3, <2>4
<1>4. CASE TimerFires
  <2>1. Asks /\ timer /\ UNCHANGED <<phase, admission, storage>>
    BY <1>4, Asking DEF TimerFires, L0
  <2>2. phase # "closing"
    BY <2>1, OpenSlot
  <2> QED
    BY <2>1, <2>2, RemindedAsked
<1>5. CASE Boot \/ OpenAbandoned \/ Cleanup \/ Close \/ Crash
  <2>1. phase' # "open"
    BY <1>5 DEF Boot, OpenAbandoned, Cleanup, Close, Crash
  <2> QED
    BY <2>1, Expected
<1>6. CASE CloseAdmission
  BY <1>6, Expected DEF CloseAdmission
<1>7. CASE Tick \/ SetBack \/ StorageCloses \/ StorageClosed \/ UNCHANGED vars
  <2>1. UNCHANGED <<runtimeVars, phase, admission, tasks, failed>>
    BY <1>7 DEF Tick, SetBack, StorageCloses, StorageClosed, vars, storeVars, driveVars
  <2> QED
    BY <2>1, RemindedStays, SameObligations
<1>8. CASE Open
  <2>1. Asks /\ phase # "closing" /\ UNCHANGED admission
    BY <1>8, Asking DEF L0, Open
  <2> QED
    BY <2>1, RemindedAsked
<1>9. CASE BeginCall \/ BeginStop
  <2>1. UNCHANGED <<runtimeVars, phase, admission, storage, tasks, failed>>
    BY <1>9 DEF BeginCall, BeginStop, storeVars, driveVars
  <2> QED
    BY <2>1, RemindedStays, SameObligations
<1>10. CASE EndCall
  <2>1. UNCHANGED <<phase, admission, storage, failed>>
    BY <1>10 DEF EndCall, driveVars
  <2>2. RequestDrive \/ (UNCHANGED <<runtimeVars, queue>> /\ tasks' = tasks)
    BY <1>10 DEF EndCall, Fails, IsRefused, storeVars
  <2>3. Asks \/ (UNCHANGED <<runtimeVars, queue>> /\ tasks' = tasks)
    BY <2>2, Asking DEF L0
  <2> QED
    BY <2>1, <2>3, SameObligations, RemindedWrites
<1>11. CASE StopWritten
  <2>1. UNCHANGED <<phase, admission, storage,
                    failed>> /\ work.kind = "stop" /\ (Lands \/ Fails \/ IsRefused)
    BY <1>11 DEF StopWritten
  <2>2. RequestDrive \/ UNCHANGED <<runtimeVars, queue>>
    BY <1>11 DEF StopWritten
  <2>3. Obligations' \subseteq Obligations
    <3>1. pc \in {"writing", "refused"} /\ writing.row = NoRow
      BY <2>1 DEF L0, Slots
    <3>2. \A t \in Task : Active(tasks'[t]) => Active(tasks[t])
      <4>1. Written[writing.task] = NoRow
            /\ \A t \in Task : t # writing.task => Written[t] = tasks[t]
        BY <3>1, WrittenRows DEF L0
      <4>2. tasks' \in {tasks, Written}
        BY <2>1 DEF Lands, Fails, IsRefused, storeVars
      <4> QED
        BY <4>1, <4>2, NoRowIsNone
    <3> QED
      BY <2>1, <3>2 DEF Obligations
  <2> QED
    BY <2>1, <2>2, <2>3, Asking, RemindedWrites DEF L0
<1>12. CASE BeginDrive
  <2>1. Proceeds({t \in Task : Due(tasks[t], now)}) \/ Unreadable
    BY <1>12, BeginDriveMoves
  <2>2. queue # <<>> /\ Head(queue).kind = "drive" /\ UNCHANGED <<phase, admission>>
    BY <1>12 DEF BeginDrive, Begin
  <2>3. 1 \in DOMAIN queue /\ Head(queue) = queue[1]
    BY <2>2, HeadAndTail DEF L0, TypeOK
  <2>4. running = "driving"
    BY <2>2, <2>3 DEF Drives
  <2> QED
    BY <2>1, <2>2, <2>4, RemindedProceeds
<1>13. CASE Resolved \/ Unresolved \/ Flushed \/ NotFlushed \/ Committed \/ CommitRefused
  <2>1. Appends \/ GivesUp \/ Skips \/ Acknowledges \/ CommitsOn
    BY <1>13, ResolvedMoves, UnresolvedMoves, FlushedMoves, CommittedMoves,
       CommitRefusedMoves
  <2>2. work.kind = "drive" /\ running = "driving"
    BY <1>13 DEF Resolved, Unresolved, Flushed, NotFlushed, Committed, CommitRefused,
           Driving, Drives
  <2>3. UNCHANGED <<phase, admission>>
    BY <2>1 DEF Appends, GivesUp, Skips, Acknowledges, CommitsOn
  <2>4. CASE Proceeds(left)
    BY <2>2, <2>3, <2>4, RemindedProceeds
  <2>5. CASE ~Proceeds(left)
    <3>1. running' = running
      BY <2>1, <2>5 DEF Appends, GivesUp, Skips, Acknowledges, CommitsOn, runtimeVars
    <3> QED
      BY <2>2, <3>1, Expected DEF Expecting
  <2> QED
    BY <2>4, <2>5
<1> QED
  BY <1>1, <1>2, <1>3, <1>4, <1>5, <1>6, <1>7, <1>8, <1>9, <1>10, <1>11, <1>12, <1>13
     DEF Next, Slot, Runtime

\* A slot that holds no stop keeps Stops.
LEMMA NoStop ==
    ASSUME work'.kind # "stop"
    PROVE  Stops'
  BY DEF Stops

\* A step that leaves the stop and the table alone does, too.
LEMMA StopsStay ==
    ASSUME Stops, work' = work, left' = left, writing' = writing, tasks' = tasks
    PROVE  Stops'
  BY DEF Stops

\* Every step keeps in sight what a stop has not removed.
LEMMA NextStops ==
    ASSUME L0, Stops, [Next]_vars
    PROVE  Stops'
<1>0. Idle.kind # "stop" /\ DriveOp.kind # "stop"
  BY DEF Idle, DriveOp
<1>1. CASE Calls \/ Runtime \/ TimerFires
  <2>1. CASE Calls
    <3>1. PICK op \in Op : Joins(op)
      BY <2>1, CallsJoin DEF L0
    <3> QED
      BY <3>1, StopsStay DEF Joins, storeVars, driveVars
  <2>2. CASE Runtime \/ TimerFires
    <3>1. RuntimeSteps
      BY <2>2, RuntimeMoves
    <3> QED
      BY <3>1, StopsStay DEF RuntimeSteps, storeVars, driveVars
  <2> QED
    BY <1>1, <2>1, <2>2
<1>2. CASE Boot \/ OpenAbandoned \/ CloseAdmission \/ StorageCloses \/ StorageClosed \/ Cleanup
              \/ Tick \/ SetBack \/ UNCHANGED vars
  BY <1>2, StopsStay
     DEF Boot, OpenAbandoned, CloseAdmission, StorageCloses, StorageClosed, Cleanup, Tick, SetBack,
         vars, storeVars, driveVars
<1>3. CASE Open \/ Close \/ Crash
  <2>1. work' = Idle
    BY <1>3 DEF L0, Open, Close, Crash, Over, Closed, Drained
  <2> QED
    BY <1>0, <2>1, NoStop
<1>4. CASE BeginCall
  <2>1. CASE UNCHANGED <<work, pc, writing>>
    BY <1>4, <2>1, StopsStay DEF BeginCall, storeVars, driveVars
  <2>2. CASE work' = Head(queue)
    BY <1>4, <2>2, NoStop DEF BeginCall, Begin
  <2> QED
    BY <1>4, <2>1, <2>2 DEF BeginCall
<1>5. CASE BeginStop
  <2> DEFINE targets == StopTargets(Head(queue).session)
  <2>1. CASE targets = {} \/ ~Readable
    BY <1>5, <2>1, StopsStay DEF BeginStop, storeVars
  <2>2. CASE targets # {} /\ Readable
    <3>1. work' = Head(queue) /\ (\E t \in targets : left' = targets \ {t} /\ Write(t, NoRow))
          /\ tasks' = tasks
      BY <1>5, <2>2 DEF BeginStop, storeVars
    <3>2. PICK t \in targets : left' = targets \ {t} /\ Write(t, NoRow)
      BY <3>1
    <3>3. writing'.task = t
      BY <3>2 DEF Write
    <3>4. left' \cup {writing'.task} = targets
      BY <3>2, <3>3
    <3> QED
      BY <3>1, <3>4 DEF Stops, StopTargets
  <2> QED
    BY <2>1, <2>2
<1>6. CASE EndCall
  BY <1>0, <1>6, NoStop DEF EndCall, Over
<1>7. CASE StopWritten
  <2>1. CASE left = {}
    BY <1>0, <1>7, <2>1, NoStop DEF StopWritten, Over
  <2>2. CASE left # {}
    <3>1. /\ work.kind = "stop" /\ (Lands \/ Fails \/ IsRefused)
          /\ \E t \in left : left' = left \ {t} /\ Write(t, NoRow)
          /\ work' = [work EXCEPT !.removed = @ \/ tasks' # tasks, !.partial = @ \/ tasks' = tasks]
      BY <1>7, <2>2 DEF StopWritten
    <3>2. PICK t \in left : left' = left \ {t} /\ Write(t, NoRow)
      BY <3>1
    <3>3. writing'.task = t /\ left' \cup {t} = left
      BY <3>2 DEF Write
    <3>4. work \in [kind : {"stop"}, session : Session, removed : BOOLEAN, partial : BOOLEAN]
      <4>1. work \in Op
        BY <3>1 DEF L0, TypeOK, Idle
      <4> QED
        BY <3>1, <4>1, Operations
    <3>5. work'.session = work.session /\ (~work'.partial => ~work.partial /\ tasks' # tasks)
      BY <3>1, <3>4, Zenon
    <3>6. ASSUME ~work'.partial, NEW u \in Task, Active(tasks'[u]), tasks'[u].session = work.session
          PROVE  u \in left
      <4>1. tasks' = Written
        BY <3>1, <3>5, <3>6 DEF Lands, Fails, IsRefused, storeVars
      <4>2. pc \in {"writing", "refused"} /\ writing.row = NoRow
        BY <3>1 DEF L0, Slots
      <4>3. u # writing.task /\ tasks'[u] = tasks[u]
        BY <3>6, <4>1, <4>2, WrittenRows, NoRowIsNone DEF L0
      <4> QED
        BY <3>1, <3>5, <3>6, <4>3 DEF Stops
    <3> QED
      BY <3>3, <3>5, <3>6 DEF Stops
  <2> QED
    BY <2>1, <2>2
<1>8. CASE BeginDrive
  <2>1. Proceeds({t \in Task : Due(tasks[t], now)}) \/ Unreadable
    BY <1>8, BeginDriveMoves
  <2> QED
    BY <1>0, <1>8, <2>1, NoStop DEF Proceeds, Unreadable, BeginDrive, Begin
<1>9. CASE Resolved \/ Unresolved \/ Flushed \/ NotFlushed \/ Committed \/ CommitRefused
  <2>1. Appends \/ GivesUp \/ Skips \/ Acknowledges \/ CommitsOn
    BY <1>9, ResolvedMoves, UnresolvedMoves, FlushedMoves, CommittedMoves,
       CommitRefusedMoves
  <2>2. work.kind = "drive"
    BY <1>9 DEF Resolved, Unresolved, Flushed, NotFlushed, Committed, CommitRefused,
           Driving
  <2>3. CASE Proceeds(left)
    BY <1>0, <2>3, NoStop DEF Proceeds
  <2>4. CASE ~Proceeds(left)
    <3>1. work' = work
      BY <2>1, <2>4 DEF Appends, GivesUp, Skips, Acknowledges, CommitsOn, Commits
    <3> QED
      BY <2>2, <3>1, NoStop
  <2> QED
    BY <2>3, <2>4
<1> QED
  BY <1>1, <1>2, <1>3, <1>4, <1>5, <1>6, <1>7, <1>8, <1>9 DEF Next, Slot

-----------------------------------------------------------------------------
(* What a step may do to the rows, the messages, the delivery under way,   *)
(* the row being written, the FIFO and the clock.                          *)

\* A table's row was in a table before, or was being written.
RowsStep ==
    \A t \in Task :
        /\ \/ tasks'[t] \in {tasks[t], disk[t], NoRow}
           \/ pc \in {"writing", "refused"} /\ t = writing.task /\ tasks'[t] = writing.row
        /\ \/ disk'[t] \in {disk[t], tasks[t]}
           \/ pc \in {"writing", "refused"} /\ t = writing.task /\ disk'[t] = writing.row

\* A message joins the inbox, or those there stay what they are.
InboxStep == Appends \/ Settles

\* A delivery under way began with its message, and without a fault it ends
\* row by row.
TellingStep ==
    /\ Telling' =>
          \/ Appends
          \/ /\ Telling /\ group' \subseteq group /\ scanned' = scanned
             /\ decision' = decision /\ Len(inbox') = Len(inbox)
             /\ pc' \in {"writing", "refused"}
                  => pc \in {"writing", "refused"} \/ inbox'[Sent].state = "durable"
    /\ Telling /\ Mishaps' = Mishaps =>
          \A t \in group :
              \/ Telling' /\ t \in group'
              \/ /\ pc \in {"writing", "refused"} /\ t = writing.task
                 /\ tasks'[t] = writing.row /\ disk'[t] = writing.row

\* What is written is written already, or a call's outcome, or a stop's removal,
\* or a row delivered by the durable last message.
BeginsCall ==
    /\ queue # <<>> /\ queue' = Tail(queue) /\ work = Idle
    /\ Head(queue).kind \in {"create", "update", "delete"}
    /\ writing'.task = Head(queue).task /\ writing'.row \in Outcome(Head(queue))

Removes ==
    /\ writing'.row = NoRow
    /\ writing'.task \in left \/ (writing'.task \in Task /\ Active(tasks[writing'.task]))

WritesDelivery ==
    /\ Telling /\ Len(inbox') = Len(inbox)
    /\ pc \in {"writing", "refused"} \/ inbox'[Sent].state = "durable"
    /\ \E t \in group, when \in Time :
          writing' = [task |-> t, row |-> DeliveredRow(scanned[t], decision, when, Sent)]

WritingStep ==
    pc' \in {"writing", "refused"} =>
        \/ pc \in {"writing", "refused"} /\ writing' = writing
        \/ BeginsCall \/ Removes \/ WritesDelivery

\* Rows are visited because they are active.
LeftStep == \A t \in left' \cup group' : t \in left \cup group \/ Active(tasks[t])

\* The FIFO gains a call or a drive, loses its head, or is lost.
QueueStep ==
    \/ /\ given' = given
       /\ \/ queue' \in {queue, <<>>, Append(queue, DriveOp)}
          \/ queue # <<>> /\ queue' = Tail(queue)
    \/ \E op \in Op : Joins(op) /\ AsksFor(op)

\* The clock goes on, or something fails and no message joins the inbox.
ClockStep ==
    \/ Mishaps' = Mishaps /\ now' \in {now, now + 1}
    \/ Mishaps' = Mishaps + 1 /\ Settles

Effect == RowsStep /\ InboxStep /\ TellingStep /\ WritingStep /\ LeftStep /\ QueueStep /\ ClockStep

\* Messages nobody touches stay what they are.
LEMMA StillSettles ==
    ASSUME TypeOK, inbox' = inbox
    PROVE  Settles
  BY DEF TypeOK, Settles

\* A step that leaves the slot, the rows and the messages alone.
LEMMA QuietEffect ==
    ASSUME L0, UNCHANGED <<slotVars, disk>>
    PROVE  RowsStep /\ InboxStep /\ TellingStep /\ WritingStep /\ LeftStep /\ Settles
<1>1. UNCHANGED <<work, pc, left, group, scanned, decision, acked, writing, tasks, inbox, disk>>
  BY DEF slotVars
<1>2. Settles
  BY <1>1, StillSettles DEF L0
<1>3. TellingStep
  BY <1>1 DEF TellingStep, Telling
<1> QED
  BY <1>1, <1>2, <1>3 DEF RowsStep, InboxStep, WritingStep, LeftStep

\* What the store does, in terms of rows.
LEMMA StoredRows ==
    ASSUME L0, pc \in {"writing", "refused"}, Stores
    PROVE  RowsStep
<1>1. /\ Written[writing.task] = writing.row
      /\ \A t \in Task : t # writing.task => Written[t] = tasks[t]
  BY WrittenRows DEF L0
<1>2. tasks' \in {tasks, Written} /\ disk' \in {disk, Written}
  BY DEF Stores
<1> QED
  BY <1>1, <1>2 DEF RowsStep

\* Outside a drive no delivery is under way.
LEMMA NotTelling ==
    ASSUME work.kind # "drive", work'.kind # "drive"
    PROVE  TellingStep
  BY DEF TellingStep, Telling

\* A drive that goes on with its groups.
LEMMA GoesOn ==
    ASSUME NEW rest, Proceeds(rest), \A t \in rest : t \in left \cup group \/ Active(tasks[t]),
           Telling /\ Mishaps' = Mishaps =>
              pc \in {"writing", "refused"} /\ group = {writing.task}
              /\ tasks'[writing.task] = writing.row /\ disk'[writing.task] = writing.row
    PROVE  TellingStep /\ WritingStep /\ LeftStep
<1>1. pc' \notin {"writing", "refused"} /\ pc' # "flushing" /\ left' \cup group' \subseteq rest
  BY DEF Proceeds
<1>2. ~Telling'
  BY <1>1 DEF Telling
<1> QED
  BY <1>1, <1>2 DEF TellingStep, WritingStep, LeftStep

\* What has gone wrong is counted.
LEMMA Mishap ==
    ASSUME L0
    PROVE  faults \in Nat /\ refused \in Nat /\ Mishaps \in Nat
  BY BoundAssumption DEF L0, TypeOK, Mishaps

\* Every step does only this.
LEMMA NextEffect ==
    ASSUME L0, [Next]_vars
    PROVE  Effect
<1>0. Idle.kind # "drive" /\ DriveOp.kind = "drive" /\ NoRow \in Row
  BY NoRowIsNone DEF Idle, DriveOp
<1>1. CASE Calls
  <2>1. PICK op \in Op : Joins(op) /\ AsksFor(op)
    BY <1>1, CallsJoin DEF L0
  <2>2. UNCHANGED <<slotVars, disk>> /\ Mishaps' = Mishaps /\ now' = now
    BY <2>1 DEF Joins, slotVars, storeVars, driveVars, Mishaps
  <2>3. QueueStep /\ ClockStep
    BY <2>1, <2>2 DEF QueueStep, ClockStep
  <2> QED
    BY <2>2, <2>3, QuietEffect DEF Effect
<1>2. CASE Runtime \/ TimerFires
  <2>1. RuntimeSteps
    BY <1>2, RuntimeMoves
  <2>2. UNCHANGED <<slotVars, disk>> /\ Mishaps' = Mishaps /\ now' = now /\ given' = given
    BY <2>1 DEF RuntimeSteps, slotVars, storeVars, driveVars, envVars, Mishaps
  <2>3. QueueStep /\ ClockStep
    BY <2>1, <2>2 DEF QueueStep, ClockStep, RuntimeSteps
  <2> QED
    BY <2>2, <2>3, QuietEffect DEF Effect
<1>3. CASE Boot \/ OpenAbandoned \/ CloseAdmission \/ StorageCloses \/ StorageClosed \/ Cleanup
              \/ UNCHANGED vars
  <2>1. UNCHANGED <<slotVars, disk>> /\ Mishaps' = Mishaps /\ now' = now /\ given' = given
        /\ queue' \in {queue, <<>>}
    BY <1>3 DEF Boot, OpenAbandoned, CloseAdmission, StorageCloses, StorageClosed, Cleanup, vars,
                slotVars, storeVars, driveVars, envVars, Mishaps
  <2>2. QueueStep /\ ClockStep
    BY <2>1 DEF QueueStep, ClockStep
  <2> QED
    BY <2>1, <2>2, QuietEffect DEF Effect
<1>4. CASE Tick \/ SetBack
  <2>1. UNCHANGED <<slotVars, disk>> /\ given' = given /\ queue' = queue
        /\ ((Mishaps' = Mishaps /\ now' = now + 1) \/ Mishaps' = Mishaps + 1)
    BY <1>4, BoundAssumption
       DEF Tick, SetBack, Faulty, slotVars, storeVars, driveVars, Mishaps, L0, TypeOK
  <2>2. QueueStep
    BY <2>1 DEF QueueStep
  <2>3. RowsStep /\ InboxStep /\ TellingStep /\ WritingStep /\ LeftStep /\ Settles
    BY <2>1, QuietEffect
  <2>4. ClockStep
    BY <2>1, <2>3 DEF ClockStep
  <2> QED
    BY <2>2, <2>3, <2>4 DEF Effect
<1>5. CASE Open \/ Close
  <2>1. work = Idle /\ work' = Idle /\ pc = "idle" /\ pc' = "idle" /\ left' = left /\ group' = group
        /\ inbox' = inbox /\ disk' = disk /\ (tasks' = disk \/ tasks' = NoTable)
        /\ Mishaps' = Mishaps /\ now' = now /\ given' = given
    BY <1>5 DEF L0, Open, Close, Closed, Drained, Slots, driveVars, envVars, Mishaps
  <2>2. QueueStep
    <3>1. CASE Open
      <4>1. Asks
        BY <3>1, Asking DEF Open, L0
      <4> QED
        BY <2>1, <4>1 DEF Asks, QueueStep
    <3>2. CASE Close
      BY <2>1, <3>2 DEF Close, QueueStep
    <3> QED
      BY <1>5, <3>1, <3>2
  <2>3. Settles /\ ClockStep
    BY <2>1, StillSettles DEF L0, ClockStep
  <2>4. TellingStep
    BY <1>0, <2>1, NotTelling
  <2>5. RowsStep
    BY <2>1 DEF RowsStep, NoTable
  <2> QED
    BY <2>1, <2>2, <2>3, <2>4, <2>5 DEF Effect, InboxStep, WritingStep, LeftStep
<1>6. CASE Crash
  <2>1. /\ Settles /\ Mishaps' = Mishaps + 1 /\ work' = Idle /\ pc' = "idle" /\ left' = {}
        /\ group' = {}
        /\ queue' = <<>> /\ given' = given /\ tasks' = NoTable
        /\ (disk' = disk \/ (pc = "writing" /\ disk' = Written))
    <3>1. Settles /\ faults' = faults + 1 /\ refused' = refused
      BY <1>6, CrashKeepsL0 DEF Crash, Faulty
    <3>2. Mishaps' = Mishaps + 1
      BY <3>1, Mishap DEF Mishaps
    <3> QED
      BY <1>6, <3>1, <3>2 DEF Crash, Over
  <2>2. QueueStep /\ ClockStep /\ LeftStep /\ WritingStep /\ InboxStep
    BY <2>1 DEF QueueStep, ClockStep, LeftStep, WritingStep, InboxStep
  <2>3. TellingStep
    <3>1. Mishaps \in Nat
      BY BoundAssumption DEF L0, TypeOK, Mishaps
    <3>2. Mishaps' # Mishaps
      BY <2>1, <3>1
    <3> QED
      BY <1>0, <2>1, <3>2 DEF TellingStep, Telling
  <2>4. RowsStep
    <3>1. \A t \in Task : tasks'[t] = NoRow
      BY <2>1 DEF NoTable
    <3>2. CASE disk' = disk
      BY <3>1, <3>2 DEF RowsStep
    <3>3. CASE pc = "writing" /\ disk' = Written
      <4>1. /\ Written[writing.task] = writing.row
            /\ \A t \in Task : t # writing.task => Written[t] = tasks[t]
        BY <3>3, WrittenRows DEF L0
      <4> QED
        BY <3>1, <3>3, <4>1 DEF RowsStep
    <3> QED
      BY <2>1, <3>2, <3>3
  <2> QED
    BY <2>2, <2>3, <2>4 DEF Effect
<1>7. CASE BeginCall
  <2>1. /\ work = Idle /\ queue # <<>> /\ queue' = Tail(queue) /\ given' = given
        /\ Head(queue).kind \in {"create", "update", "delete"}
        /\ Mishaps' = Mishaps /\ now' = now /\ inbox' = inbox /\ tasks' = tasks /\ disk' = disk
        /\ left' = left /\ group' = group /\ UNCHANGED driveVars
    BY <1>7 DEF BeginCall, Begin, envVars, Mishaps, storeVars, driveVars
  <2>2. QueueStep /\ ClockStep /\ LeftStep /\ RowsStep
    BY <2>1 DEF QueueStep, ClockStep, LeftStep, RowsStep
  <2>3. InboxStep
    BY <2>1, StillSettles DEF L0, InboxStep
  <2>4. CASE UNCHANGED <<work, pc, writing>>
    <3>1. UNCHANGED <<slotVars, disk>>
      BY <2>1, <2>4 DEF slotVars, driveVars
    <3> QED
      BY <2>2, <2>3, <3>1, QuietEffect DEF Effect
  <2>5. ASSUME NEW row \in Outcome(Head(queue)), Readable, work' = Head(queue),
               Write(Head(queue).task, row)
        PROVE  Effect
    <3>1. WritingStep
      BY <2>1, <2>5 DEF Write, WritingStep, BeginsCall
    <3>2. TellingStep
      BY <1>0, <2>1, <2>5, NotTelling
    <3> QED
      BY <2>2, <2>3, <3>1, <3>2 DEF Effect
  <2> QED
    BY <1>7, <2>4, <2>5 DEF BeginCall
<1>8. CASE EndCall
  <2>1. /\ work.kind \in {"create", "update", "delete"} /\ pc \in {"writing", "refused"}
        /\ work' = Idle /\ pc' = "idle"
        /\ left' = left /\ group' = group /\ inbox' = inbox /\ now' = now /\ given' = given
        /\ (Lands \/ Fails \/ IsRefused) /\ (Asks \/ queue' = queue) /\ refused' = refused
    BY <1>8, Asking DEF L0, Slots, EndCall, Over, driveVars
  <2>2. Stores
    BY <2>1, StoreMoves
  <2>3. RowsStep /\ Settles
    BY <2>1, <2>2, StoredRows, StillSettles DEF L0
  <2>4. TellingStep
    BY <1>0, <2>1, NotTelling
  <2>5. QueueStep /\ ClockStep
    BY <2>1, <2>2, <2>3, Mishap DEF QueueStep, ClockStep, Asks, Stores, Mishaps
  <2> QED
    BY <2>1, <2>2, <2>3, <2>4, <2>5 DEF Effect, InboxStep, WritingStep, LeftStep
<1>9. CASE BeginStop
  <2>1. /\ work = Idle /\ queue # <<>> /\ queue' = Tail(queue) /\ given' = given
        /\ Head(queue).kind = "stop"
        /\ Mishaps' = Mishaps /\ now' = now /\ inbox' = inbox /\ tasks' = tasks /\ disk' = disk
        /\ group' = group /\ UNCHANGED <<scanned, decision, acked>>
    BY <1>9 DEF BeginStop, Begin, envVars, Mishaps, storeVars
  <2>2. QueueStep /\ ClockStep /\ RowsStep
    BY <2>1 DEF QueueStep, ClockStep, RowsStep
  <2>3. InboxStep
    BY <2>1, StillSettles DEF L0, InboxStep
  <2> DEFINE targets == StopTargets(Head(queue).session)
  <2>4. CASE targets = {} \/ ~Readable
    <3>1. UNCHANGED <<slotVars, disk>>
      BY <1>9, <2>1, <2>4 DEF BeginStop, slotVars
    <3> QED
      BY <2>2, <2>3, <3>1, QuietEffect DEF Effect
  <2>5. CASE targets # {} /\ Readable
    <3>1. work' = Head(queue) /\ \E t \in targets : left' = targets \ {t} /\ Write(t, NoRow)
      BY <1>9, <2>5 DEF BeginStop
    <3>2. \A t \in targets : t \in Task /\ Active(tasks[t])
      BY DEF StopTargets
    <3> HIDE DEF targets
    <3>3. WritingStep /\ LeftStep
      BY <2>1, <3>1, <3>2 DEF Write, WritingStep, LeftStep, Removes
    <3>4. TellingStep
      BY <1>0, <2>1, <3>1, NotTelling
    <3> QED
      BY <2>2, <2>3, <3>3, <3>4 DEF Effect
  <2> QED
    BY <2>4, <2>5
<1>10. CASE StopWritten
  <2>1. /\ work.kind = "stop" /\ pc \in {"writing", "refused"} /\ group' = group /\ inbox' = inbox
        /\ now' = now /\ given' = given
        /\ (Lands \/ Fails \/ IsRefused) /\ (Asks \/ queue' = queue) /\ refused' = refused
    BY <1>10, Asking DEF L0, Slots, StopWritten
  <2>2. Stores
    BY <2>1, StoreMoves
  <2>3. RowsStep /\ Settles /\ InboxStep
    BY <2>1, <2>2, StoredRows, StillSettles DEF L0, InboxStep
  <2>4. QueueStep /\ ClockStep
    BY <2>1, <2>2, <2>3, Mishap DEF QueueStep, ClockStep, Asks, Stores, Mishaps
  <2>5. work'.kind # "drive" /\ WritingStep /\ LeftStep
    <3>1. CASE left = {}
      BY <1>0, <1>10, <2>1, <3>1 DEF StopWritten, Over, WritingStep, LeftStep
    <3>2. CASE left # {}
      <4>1. work \in Op
        BY <2>1 DEF L0, TypeOK, Idle
      <4>2. work \in [kind : {"stop"}, session : Session, removed : BOOLEAN, partial : BOOLEAN]
        BY <2>1, <4>1, Operations
      <4>3. /\ work' = [work EXCEPT !.removed = @ \/ tasks' # tasks,
                                     !.partial = @ \/ tasks' = tasks]
            /\ \E t \in left : left' = left \ {t} /\ Write(t, NoRow)
        BY <1>10, <3>2 DEF StopWritten
      <4>4. work'.kind = "stop"
        BY <4>2, <4>3, Zenon
      <4>5. WritingStep /\ LeftStep
        BY <2>1, <4>3 DEF Write, WritingStep, LeftStep, Removes
      <4> QED
        BY <4>4, <4>5
    <3> QED
      BY <3>1, <3>2
  <2>6. TellingStep
    BY <2>1, <2>5, NotTelling
  <2> QED
    BY <2>3, <2>4, <2>5, <2>6 DEF Effect
<1>11. CASE BeginDrive
  <2> DEFINE due == {t \in Task : Due(tasks[t], now)}
  <2>1. (Proceeds(due) \/ Unreadable) /\ \A t \in due : Active(tasks[t])
    BY <1>11, BeginDriveMoves DEF Due
  <2> HIDE DEF due
  <2>2. /\ work = Idle /\ queue # <<>> /\ queue' = Tail(queue) /\ given' = given
        /\ Mishaps' = Mishaps /\ now' = now /\ inbox' = inbox /\ tasks' = tasks /\ disk' = disk
    BY <1>11 DEF BeginDrive, Begin, envVars, Mishaps, storeVars
  <2>3. QueueStep /\ ClockStep /\ RowsStep
    BY <2>2 DEF QueueStep, ClockStep, RowsStep
  <2>4. InboxStep
    BY <2>2, StillSettles DEF L0, InboxStep
  <2>5. ~Telling
    BY <1>0, <2>2 DEF Telling
  <2>6. CASE Proceeds(due)
    <3>1. TellingStep /\ WritingStep /\ LeftStep
      BY <2>1, <2>5, <2>6, GoesOn
    <3> QED
      BY <2>3, <2>4, <3>1 DEF Effect
  <2>7. CASE Unreadable
    <3>1. UNCHANGED <<slotVars, disk>>
      BY <2>2, <2>7 DEF Unreadable, slotVars
    <3> QED
      BY <2>3, <2>4, <3>1, QuietEffect DEF Effect
  <2> QED
    BY <2>1, <2>6, <2>7
<1>12. CASE Resolved \/ Unresolved \/ Flushed \/ NotFlushed \/ Committed \/ CommitRefused
  <2>1. Appends \/ GivesUp \/ Skips \/ Acknowledges \/ CommitsOn
    BY <1>12, ResolvedMoves, UnresolvedMoves, FlushedMoves, CommittedMoves,
       CommitRefusedMoves
  <2>2. work.kind = "drive" /\ InDrive
    BY <1>12, DriveRelies DEF Resolved, Unresolved, Flushed, NotFlushed, Committed, CommitRefused,
           Driving
  <2>3. queue' = queue /\ given' = given /\ QueueStep
    BY <2>1 DEF Appends, GivesUp, Skips, Acknowledges, CommitsOn, QueueStep, envVars, Mishaps
  <2>4. CASE Appends
    <3>1. /\ pc = "resolving" /\ pc' = "flushing" /\ group' \subseteq group /\ left' = left
          /\ tasks' = tasks /\ disk' = disk /\ Mishaps' = Mishaps /\ now' = now
      BY <2>4 DEF Appends, envVars, Mishaps, storeVars
    <3>2. RowsStep /\ ClockStep /\ WritingStep /\ LeftStep
      BY <3>1 DEF RowsStep, ClockStep, WritingStep, LeftStep
    <3>3. TellingStep
      BY <2>4, <3>1 DEF TellingStep, Telling
    <3> QED
      BY <2>3, <2>4, <3>2, <3>3 DEF Effect, InboxStep
  <2>5. CASE GivesUp
    <3>1. /\ Proceeds(left) /\ tasks' = tasks /\ Mishaps' = Mishaps + 1 /\ inbox' = inbox
          /\ (disk' = disk \/ (disk' = Written /\ pc \in {"writing", "refused"}))
      BY <2>5 DEF GivesUp
    <3>2. Settles /\ InboxStep /\ ClockStep
      BY <3>1, StillSettles DEF L0, InboxStep, ClockStep
    <3>3. RowsStep
      <4>1. CASE disk' = disk
        BY <3>1, <4>1 DEF RowsStep
      <4>2. CASE disk' = Written /\ pc \in {"writing", "refused"}
        <5>1. /\ Written[writing.task] = writing.row
              /\ \A t \in Task : t # writing.task => Written[t] = tasks[t]
          BY <4>2, WrittenRows DEF L0
        <5> QED
          BY <3>1, <4>2, <5>1 DEF RowsStep
      <4> QED
        BY <3>1, <4>1, <4>2
    <3>4. Mishaps' # Mishaps
      BY <3>1, BoundAssumption DEF L0, TypeOK
    <3>5. TellingStep /\ WritingStep /\ LeftStep
      BY <3>1, <3>4, GoesOn
    <3> QED
      BY <2>3, <3>2, <3>3, <3>5 DEF Effect
  <2>6. CASE Skips
    <3>1. /\ Proceeds(left) /\ tasks' = tasks /\ disk' = disk /\ Mishaps' = Mishaps
          /\ inbox' = inbox
          /\ now' = now
      BY <2>6 DEF Skips, envVars, Mishaps, storeVars
    <3>2. InboxStep /\ ClockStep /\ RowsStep
      BY <3>1, StillSettles DEF L0, InboxStep, ClockStep, RowsStep
    <3>3. ~Telling
      BY <2>6 DEF Skips, Telling
    <3>4. TellingStep /\ WritingStep /\ LeftStep
      BY <3>1, <3>3, GoesOn
    <3> QED
      BY <2>3, <3>2, <3>4 DEF Effect
  <2>7. CASE Acknowledges
    <3>1. /\ Settles /\ inbox'[Sent].state = "durable" /\ pc = "flushing" /\ Telling
          /\ Commits(group, now) /\ now \in Time /\ Len(inbox') = Len(inbox)
          /\ tasks' = tasks /\ disk' = disk /\ Mishaps' = Mishaps /\ now' = now
      BY <2>7 DEF L0, TypeOK, Acknowledges, Settles, envVars, Mishaps, storeVars, Telling
    <3>2. /\ pc' \in {"writing", "refused"} /\ group' = group /\ work' = work /\ left' = left
          /\ scanned' = scanned
          /\ decision' = decision
          /\ \E t \in group :
               writing' = [task |-> t, row |-> DeliveredRow(scanned[t], decision, now, Sent)]
      BY <3>1 DEF Commits
    <3>3. InboxStep /\ ClockStep /\ RowsStep
      BY <3>1 DEF InboxStep, ClockStep, RowsStep
    <3>4. LeftStep
      BY <3>2 DEF LeftStep
    <3>5. WritingStep
      BY <3>1, <3>2 DEF WritingStep, WritesDelivery
    <3>6. TellingStep
      BY <3>1, <3>2 DEF TellingStep, Telling
    <3> QED
      BY <2>3, <3>3, <3>4, <3>5, <3>6 DEF Effect
  <2>8. CASE CommitsOn
    <3>1. /\ pc \in {"writing", "refused"} /\ Telling /\ tasks' = Written /\ disk' = Written
          /\ inbox' = inbox /\ Mishaps' = Mishaps /\ now' = now
          /\ writing.task \in Task /\ writing.task \in group
      BY <2>2, <2>8 DEF CommitsOn, Telling, InDrive, envVars, Mishaps
    <3>2. /\ Written[writing.task] = writing.row
          /\ \A t \in Task : t # writing.task => Written[t] = tasks[t]
      BY <3>1, WrittenRows DEF L0
    <3>3. InboxStep /\ ClockStep /\ RowsStep
      BY <3>1, <3>2, StillSettles DEF L0, InboxStep, ClockStep, RowsStep
    <3>4. CASE Commits(group \ {writing.task}, acked)
      <4>1. /\ pc' \in {"writing", "refused"} /\ group' = group \ {writing.task} /\ work' = work
            /\ left' = left
            /\ scanned' = scanned /\ decision' = decision
            /\ \E t \in group \ {writing.task} :
                  writing' = [task |-> t, row |-> DeliveredRow(scanned[t], decision, acked, Sent)]
        BY <3>4 DEF Commits
      <4>2. acked \in Time
        BY DEF L0, TypeOK
      <4>3. LeftStep
        BY <4>1 DEF LeftStep
      <4>4. WritingStep
        BY <3>1, <4>1, <4>2 DEF WritingStep, WritesDelivery
      <4>5. TellingStep
        BY <3>1, <3>2, <4>1 DEF TellingStep, Telling
      <4> QED
        BY <2>3, <3>3, <4>3, <4>4, <4>5 DEF Effect
    <3>5. CASE Proceeds(left) /\ group = {writing.task}
      <4>1. TellingStep /\ WritingStep /\ LeftStep
        BY <3>1, <3>2, <3>5, GoesOn
      <4> QED
        BY <2>3, <3>3, <4>1 DEF Effect
    <3> QED
      BY <2>8, <3>4, <3>5 DEF CommitsOn
  <2> QED
    BY <2>1, <2>4, <2>5, <2>6, <2>7, <2>8
<1> QED
  BY <1>1, <1>2, <1>3, <1>4, <1>5, <1>6, <1>7, <1>8, <1>9, <1>10, <1>11, <1>12 DEF Next, Slot

-----------------------------------------------------------------------------
(* Third layer: what a saved delivery rests on.                            *)

\* An inbox keeps what another one holds.
Keeps(new, old) ==
    \A i \in DOMAIN old :
        /\ i \in DOMAIN new /\ new[i].items = old[i].items
        /\ old[i].state = "durable" => new[i].state = "durable"

\* What rests on messages that are kept still does.
LEMMA BackedStays ==
    ASSUME NEW new, NEW old, Keeps(new, old), NEW t, NEW row, RowBacked(old, t, row)
    PROVE  RowBacked(new, t, row)
  BY DEF Keeps, RowBacked, BackedIn

\* Rows without deliveries rest on nothing.
LEMMA NewRowsBacked ==
    ASSUME NEW box, NEW t, NEW row, row.history = <<>>, row.last = NoReceipt,
           row.status # "inactive"
    PROVE  RowBacked(box, t, row)
<1>1. \A i \in DOMAIN row.history : FALSE
  OBVIOUS
<1> QED
  BY <1>1 DEF RowBacked, Reopens

\* The row of a delivery rests on what the row before it did and on its message.
LEMMA DeliveryBacked ==
    ASSUME NEW box, NEW t, NEW new, NEW old, NEW moment, NEW receipt \in Receipt,
           Delivery(new, old, moment, receipt), RowBacked(box, t, old),
           BackedIn(box, t, receipt),
           \A i \in DOMAIN old.history : old.history[i].message # receipt.message
    PROVE  RowBacked(box, t, new)
<1>1. Follows(new.history, old.history, receipt) /\ new.last = receipt
  BY DEF Delivery
<1>2. \A i \in DOMAIN new.history : BackedIn(box, t, new.history[i])
  BY <1>1 DEF Follows, RowBacked
<1>3. \A i, k \in DOMAIN old.history :
         old.history[i].message = old.history[k].message => i = k
  BY DEF RowBacked, Reopens
<1>4. Reopens(new)
  BY <1>1, <1>3 DEF Follows, Reopens
<1> QED
  BY <1>1, <1>2, <1>4 DEF RowBacked, Delivery

\* Every step keeps the messages.
LEMMA NextKeeps ==
    ASSUME L0, Effect
    PROVE  Keeps(inbox', inbox) /\ inbox' \in Seq(Message)
<1>1. DOMAIN inbox = 1 .. Len(inbox) /\ Len(inbox) \in Nat
  BY DEF L0, TypeOK
<1>2. CASE Settles
  <2>1. DOMAIN inbox' = 1 .. Len(inbox)
    BY <1>2 DEF Settles
  <2> QED
    BY <1>1, <1>2, <2>1 DEF Settles, Keeps
<1>3. CASE Appends
  <2>1. DOMAIN inbox' = 1 .. Len(inbox) + 1
    BY <1>3 DEF Appends
  <2> QED
    BY <1>1, <1>3, <2>1 DEF Appends, Keeps
<1> QED
  BY <1>2, <1>3 DEF Effect, InboxStep

\* The rows of the tables rest on messages after every step.
LEMMA RowsBacked ==
    ASSUME L0, Receipts, Effect
    PROVE  \A t \in Task : RowBacked(inbox', t, tasks'[t]) /\ RowBacked(inbox', t, disk'[t])
<1> TAKE t \in Task
<1>1. Keeps(inbox', inbox)
  BY NextKeeps
<1>2. RowBacked(inbox', t, tasks[t]) /\ RowBacked(inbox', t, disk[t])
  BY <1>1, BackedStays DEF Receipts
<1>3. RowBacked(inbox', t, NoRow)
  BY NoRowIsNone, NewRowsBacked
<1>4. pc \in {"writing", "refused"} /\ t = writing.task => RowBacked(inbox', t, writing.row)
  BY <1>1, BackedStays DEF Receipts
<1> QED
  BY <1>2, <1>3, <1>4 DEF Effect, RowsStep

\* The row of a delivery rests on its message, once that is durable.
LEMMA DeliveredBacked ==
    ASSUME L0, Receipts, Effect, WritesDelivery
    PROVE  RowBacked(inbox', writing'.task, writing'.row)
<1>1. PICK t \in group, when \in Time :
          writing' = [task |-> t, row |-> DeliveredRow(scanned[t], decision, when, Sent)]
  BY DEF WritesDelivery
<1> DEFINE receipt == [at |-> Occurrence(scanned[t].record, decision), when |-> when,
                       message |-> Sent]
           row == DeliveredRow(scanned[t], decision, when, Sent)
<1>2. Telling /\ work.kind = "drive"
  BY DEF WritesDelivery, Telling
<1>3. receipt \in Receipt /\ Delivery(row, scanned[t], decision, receipt)
  BY <1>2, CommitRow
<1>4. InDrive /\ Keeps(inbox', inbox)
  BY <1>2, DriveRelies, NextKeeps
<1>5. t \in Task /\ scanned[t] = tasks[t] /\ inbox # <<>> /\ inbox \in Seq(Message)
  BY <1>2, <1>4 DEF InDrive, L0, TypeOK
<1>6. RowBacked(inbox', t, scanned[t])
  BY <1>4, <1>5, BackedStays DEF Receipts
<1>7. Sent \in DOMAIN inbox /\ Sent \in Nat
  BY <1>5 DEF Sent
<1>8. inbox[Sent].state = "durable" \/ inbox'[Sent].state = "durable"
  BY <1>2 DEF WritesDelivery, Receipts
<1>9. <<t, Occurrence(scanned[t].record, decision)>> \in inbox[Sent].items
      /\ \A i \in DOMAIN scanned[t].history : scanned[t].history[i].message < Sent
  BY <1>2 DEF Receipts
<1>10. BackedIn(inbox', t, receipt)
  BY <1>4, <1>7, <1>8, <1>9 DEF BackedIn, Keeps
<1>11. \A i \in DOMAIN scanned[t].history : scanned[t].history[i].message # receipt.message
  BY <1>7, <1>9
<1> HIDE DEF receipt, row
<1>12. RowBacked(inbox', t, row)
  BY <1>3, <1>6, <1>10, <1>11, DeliveryBacked
<1> QED
  BY <1>1, <1>12 DEF row

\* The row being written rests on messages.
LEMMA WritingBacked ==
    ASSUME L0, Receipts, Effect, pc' \in {"writing", "refused"}
    PROVE  RowBacked(inbox', writing'.task, writing'.row)
<1>1. Keeps(inbox', inbox)
  BY NextKeeps
<1>2. CASE pc \in {"writing", "refused"} /\ writing' = writing
  BY <1>1, <1>2, BackedStays DEF Receipts
<1>3. CASE BeginsCall
  <2> DEFINE op == Head(queue)
             row == writing'.row
  <2>1. /\ op \in Op /\ op.kind \in {"create", "update", "delete"} /\ row \in Outcome(op)
        /\ writing'.task = op.task /\ 1 \in DOMAIN queue /\ op = queue[1]
    BY <1>3, HeadAndTail DEF L0, TypeOK, BeginsCall
  <2> HIDE DEF op, row
  <2>2. /\ op.task \in Task
        /\ \/ op.kind = "create" /\ row = op.row
           \/ op.kind = "delete" /\ row = NoRow /\ tasks[op.task] # NoRow
           \/ /\ op.kind = "update" /\ Active(tasks[op.task]) /\ Active(row)
              /\ \E r \in Record : row = [tasks[op.task] EXCEPT !.record = r]
                                   /\ (r.at = tasks[op.task].record.at \/ now < r.at)
    BY <2>1, Outcomes DEF L0
  <2>3. CASE op.kind = "create"
    <3>1. row.history = <<>> /\ row.last = NoReceipt /\ row.status # "inactive"
      BY <2>1, <2>2, <2>3 DEF Receipts
    <3> QED
      BY <2>1, <3>1, NewRowsBacked DEF row
  <2>4. CASE op.kind = "delete"
    BY <2>1, <2>2, <2>4, NoRowIsNone, NewRowsBacked DEF row
  <2>5. CASE op.kind = "update"
    <3> DEFINE old == tasks[op.task]
    <3>1. PICK r \in Record : row = [old EXCEPT !.record = r]
      BY <2>2, <2>5
    <3>2. old \in Row /\ Active(old) /\ Active(row) /\ RowBacked(inbox, op.task, old)
      BY <2>2, <2>5 DEF L0, TypeOK, Receipts
    <3>3. Real(old)
      BY <3>2, RowsAreReal
    <3> HIDE DEF old
    <3>4. row.history = old.history /\ row.last = old.last /\ row.status # "inactive"
      BY <3>1, <3>2, <3>3 DEF Real, Active
    <3>5. RowBacked(inbox, op.task, row)
      BY <3>2, <3>4 DEF RowBacked, Reopens
    <3> QED
      BY <1>1, <2>1, <3>5, BackedStays DEF row
  <2> QED
    BY <2>1, <2>3, <2>4, <2>5
<1>4. CASE Removes
  BY <1>4, NoRowIsNone, NewRowsBacked DEF Removes
<1>5. CASE WritesDelivery
  BY <1>5, DeliveredBacked
<1> QED
  BY <1>2, <1>3, <1>4, <1>5 DEF Effect, WritingStep

\* Creations in the FIFO carry new rows.
FreshCreates ==
    \A i \in DOMAIN queue : queue[i].kind = "create" =>
          /\ queue[i].row.history = <<>> /\ queue[i].row.last = NoReceipt
          /\ queue[i].row.status = "active"

\* Every step keeps them so.
LEMMA NextFreshCreates ==
    ASSUME L0, FreshCreates, Effect
    PROVE  FreshCreates'
<1>1. queue \in Seq(Op) /\ DriveOp \in Op /\ DriveOp.kind # "create"
  BY DEF L0, TypeOK, DriveOp, Op
<1>2. CASE queue' \in {queue, <<>>}
  BY <1>2 DEF FreshCreates
<1>3. CASE queue' = Append(queue, DriveOp)
  <2>1. \A i \in DOMAIN queue' : (i \in DOMAIN queue /\ queue'[i] = queue[i]) \/ queue'[i] = DriveOp
    BY <1>1, <1>3, Appending
  <2> QED
    BY <1>1, <2>1 DEF FreshCreates
<1>4. CASE queue # <<>> /\ queue' = Tail(queue)
  <2>1. \A i \in DOMAIN queue' : i + 1 \in DOMAIN queue /\ queue'[i] = queue[i + 1]
    BY <1>1, <1>4, HeadAndTail
  <2> QED
    BY <2>1 DEF FreshCreates
<1>5. CASE \E op \in Op : Joins(op) /\ AsksFor(op)
  <2>1. PICK op \in Op : Joins(op) /\ AsksFor(op)
    BY <1>5
  <2>2. \A i \in DOMAIN queue' : (i \in DOMAIN queue /\ queue'[i] = queue[i]) \/ queue'[i] = op
    BY <1>1, <2>1, Appending DEF Joins
  <2>3. op.kind = "create" =>
          op.row.history = <<>> /\ op.row.last = NoReceipt /\ op.row.status = "active"
    <3> SUFFICES ASSUME op.kind = "create"
                 PROVE  op.row.history = <<>> /\ op.row.last = NoReceipt /\ op.row.status = "active"
      OBVIOUS
    <3>1. \E s \in Session, r \in Record : op.row = FreshRow(s, r)
      BY <2>1 DEF AsksFor
    <3> QED
      BY <3>1 DEF FreshRow
  <2> QED
    BY <2>2, <2>3 DEF FreshCreates
<1> QED
  BY <1>2, <1>3, <1>4, <1>5 DEF Effect, QueueStep

\* The message of a delivery under way tells of its rows, and is news to them.
LEMMA TellsItsRows ==
    ASSUME L0, L0', Receipts, Effect, Telling'
    PROVE  /\ pc' \in {"writing", "refused"} => inbox'[Len(inbox')].state = "durable"
           /\ \A t \in group' :
                 /\ <<t, Occurrence(scanned'[t].record, decision')>> \in inbox'[Len(inbox')].items
                 /\ \A i \in DOMAIN scanned'[t].history :
                       scanned'[t].history[i].message < Len(inbox')
<1>1. inbox \in Seq(Message) /\ inbox' \in Seq(Message) /\ Keeps(inbox', inbox)
  BY NextKeeps DEF L0, TypeOK
<1>2. CASE Appends
  <2>1. /\ pc' = "flushing" /\ group' \subseteq group /\ scanned' = scanned /\ decision' = now
        /\ Len(inbox') = Len(inbox) + 1 /\ work' = work
        /\ inbox'[Len(inbox) + 1].items = {<<t, Occurrence(scanned[t].record, now)>> : t \in group'}
    BY <1>2 DEF Appends
  <2>2. InDrive
    BY <2>1, DriveRelies DEF Telling
  <2>3. ASSUME NEW t \in group', NEW i \in DOMAIN scanned[t].history
        PROVE  scanned[t].history[i].message < Len(inbox')
    <3>1. scanned[t] = tasks[t] /\ t \in Task
      BY <2>1, <2>2 DEF InDrive
    <3>2. BackedIn(inbox, t, scanned[t].history[i])
      BY <3>1 DEF Receipts, RowBacked
    <3>3. scanned[t].history[i].message \in 1 .. Len(inbox)
      BY <1>1, <3>2 DEF BackedIn
    <3>4. Len(inbox) \in Nat
      BY <1>1
    <3> QED
      BY <2>1, <3>3, <3>4
  <2> QED
    BY <2>1, <2>3
<1>3. CASE /\ Telling /\ group' \subseteq group /\ scanned' = scanned
           /\ decision' = decision /\ Len(inbox') = Len(inbox)
           /\ pc' \in {"writing", "refused"}
                => pc \in {"writing", "refused"} \/ inbox'[Sent].state = "durable"
  <2>1. Sent = Len(inbox) /\ Len(inbox') = Sent
    BY <1>3 DEF Sent
  <2>2. Len(inbox) \in DOMAIN inbox
    <3>1. work.kind = "drive"
      BY <1>3 DEF Telling
    <3>2. inbox # <<>>
      BY <1>3, <3>1, DriveRelies DEF InDrive
    <3> QED
      BY <1>1, <3>2
  <2>3. \A t \in group :
          /\ <<t, Occurrence(scanned[t].record, decision)>> \in inbox[Sent].items
          /\ \A i \in DOMAIN scanned[t].history : scanned[t].history[i].message < Sent
    BY <1>3 DEF Receipts
  <2>4. inbox'[Sent].items = inbox[Sent].items
        /\ (inbox[Sent].state = "durable" => inbox'[Sent].state = "durable")
    BY <1>1, <2>1, <2>2 DEF Keeps
  <2>5. pc' \in {"writing", "refused"} => inbox'[Sent].state = "durable"
    BY <1>3, <2>4 DEF Receipts
  <2> QED
    BY <1>3, <2>1, <2>3, <2>4, <2>5
<1> QED
  BY <1>2, <1>3 DEF Effect, TellingStep

\* Every step keeps the deliveries true.
LEMMA NextReceipts ==
    ASSUME L0, L0', Receipts, Effect
    PROVE  Receipts'
<1>1. (\A t \in Task : RowBacked(inbox, t, tasks[t]) /\ RowBacked(inbox, t, disk[t]))'
  BY RowsBacked
<1>2. (pc \in {"writing", "refused"} => RowBacked(inbox, writing.task, writing.row))'
  BY WritingBacked
<1>3. FreshCreates'
  BY NextFreshCreates DEF Receipts, FreshCreates
<1>4. (Telling =>
          /\ pc \in {"writing", "refused"} => inbox[Sent].state = "durable"
          /\ \A t \in group :
                /\ <<t, Occurrence(scanned[t].record, decision)>> \in inbox[Sent].items
                /\ \A i \in DOMAIN scanned[t].history : scanned[t].history[i].message < Sent)'
  BY TellsItsRows DEF Sent
<1> QED
  BY <1>1, <1>2, <1>3, <1>4 DEF Receipts, FreshCreates

-----------------------------------------------------------------------------
(* Fourth layer: how often an occurrence is told.                          *)

\* There are finitely many tellings.
LEMMA Counts ==
    ASSUME NEW box \in Seq(Message), NEW t, NEW at
    PROVE  /\ IsFiniteSet(Tellings(box, t, at)) /\ Count(box, t, at) \in Nat
           /\ Tellings(box, t, at) \subseteq 1 .. Len(box)
           /\ Tellings(box, t, at) = {} => Count(box, t, at) = 0
<1>1. Len(box) \in Nat /\ DOMAIN box = 1 .. Len(box)
  OBVIOUS
<1>2. IsFiniteSet(1 .. Len(box))
  BY <1>1, FS_Interval
<1>3. Tellings(box, t, at) \in SUBSET (1 .. Len(box))
  BY <1>1 DEF Tellings
<1>4. IsFiniteSet(Tellings(box, t, at))
  BY <1>2, <1>3, FS_Subset
<1> QED
  BY <1>3, <1>4, FS_CardinalityType, FS_EmptySet DEF Count

\* Messages that stay what they are tell of the same.
LEMMA SameTellings ==
    ASSUME TypeOK, Settles, NEW t, NEW at
    PROVE  Tellings(inbox', t, at) = Tellings(inbox, t, at)
<1>1. DOMAIN inbox = 1 .. Len(inbox) /\ DOMAIN inbox' = 1 .. Len(inbox)
  BY DEF TypeOK, Settles
<1> QED
  BY <1>1 DEF Settles, Tellings

\* A new message tells once more of the due occurrences of its group.
LEMMA MoreTellings ==
    ASSUME L0, Appends, NEW t \in Task, NEW at \in Time
    PROVE  \/ Tellings(inbox', t, at) = Tellings(inbox, t, at)
           \/ /\ Count(inbox', t, at) = Count(inbox, t, at) + 1
              /\ t \in group' /\ t \in group /\ at <= now
              /\ tasks[t].record.at <= at /\ Active(tasks[t])
<1> DEFINE old == Tellings(inbox, t, at)
           n == Len(inbox)
<1>1. inbox \in Seq(Message) /\ inbox' \in Seq(Message) /\ n \in Nat /\ DOMAIN inbox = 1 .. n
      /\ DOMAIN inbox' = 1 .. n + 1
  BY DEF L0, TypeOK, Appends
<1>2. \A i \in 1 .. n : inbox'[i] = inbox[i]
  BY DEF Appends
<1>3. CASE <<t, at>> \notin inbox'[n + 1].items
  <2>1. Tellings(inbox', t, at) = old
    BY <1>1, <1>2, <1>3 DEF Tellings
  <2> QED
    BY <2>1
<1>4. CASE <<t, at>> \in inbox'[n + 1].items
  <2>1. Tellings(inbox', t, at) = old \cup {n + 1}
    BY <1>1, <1>2, <1>4 DEF Tellings
  <2>2. IsFiniteSet(old) /\ n + 1 \notin old
    BY <1>1, Counts
  <2>3. Count(inbox', t, at) = Count(inbox, t, at) + 1
    <3> HIDE DEF old
    <3>1. Cardinality(old \cup {n + 1}) = Cardinality(old) + 1
      BY <2>2, FS_AddElement
    <3> QED
      BY <2>1, <3>1 DEF Count, old
  <2>4. t \in group' /\ at = Occurrence(scanned[t].record, now)
    BY <1>4 DEF Appends
  <2>5. t \in group /\ scanned[t].record.at <= now /\ work.kind = "drive"
    BY <2>4 DEF Appends
  <2>6. InDrive /\ now \in Time
    BY <2>5, DriveRelies DEF L0, TypeOK
  <2>7. scanned[t] = tasks[t] /\ Active(tasks[t]) /\ scanned[t].record \in Record
    BY <2>5, <2>6 DEF InDrive
  <2>8. scanned[t].record.at <= at /\ at <= now
    BY <2>4, <2>5, <2>6, <2>7, OccurrenceDue
  <2> QED
    BY <2>3, <2>4, <2>5, <2>7, <2>8
<1> QED
  BY <1>3, <1>4

\* What is born stays born.
LEMMA StaysBorn ==
    ASSUME L0, Effect, NEW t \in Task, Unborn(t)'
    PROVE  Unborn(t)
<1>1. queue \in Seq(Op) /\ DriveOp \in Op /\ DriveOp.kind # "create"
  BY DEF L0, TypeOK, DriveOp, Op
<1>2. t \notin given' \/ \E i \in DOMAIN queue' : queue'[i].kind = "create" /\ queue'[i].task = t
  BY DEF Unborn
<1>3. CASE given' = given /\ queue' \in {queue, <<>>}
  BY <1>2, <1>3 DEF Unborn
<1>4. CASE given' = given /\ queue' = Append(queue, DriveOp)
  <2>1. \A i \in DOMAIN queue' : (i \in DOMAIN queue /\ queue'[i] = queue[i]) \/ queue'[i] = DriveOp
    BY <1>1, <1>4, Appending
  <2> QED
    BY <1>1, <1>2, <1>4, <2>1 DEF Unborn
<1>5. CASE given' = given /\ queue # <<>> /\ queue' = Tail(queue)
  <2>1. \A i \in DOMAIN queue' : i + 1 \in DOMAIN queue /\ queue'[i] = queue[i + 1]
    BY <1>1, <1>5, HeadAndTail
  <2> QED
    BY <1>2, <1>5, <2>1 DEF Unborn
<1>6. CASE \E op \in Op : Joins(op) /\ AsksFor(op)
  <2>1. PICK op \in Op : Joins(op) /\ AsksFor(op)
    BY <1>6
  <2>2. \A i \in DOMAIN queue' : (i \in DOMAIN queue /\ queue'[i] = queue[i]) \/ queue'[i] = op
    BY <1>1, <2>1, Appending DEF Joins
  <2>3. given \subseteq given' /\ (op.kind = "create" => op.task \notin given)
    BY <2>1 DEF AsksFor
  <2> QED
    BY <1>2, <2>2, <2>3 DEF Unborn
<1> QED
  BY <1>3, <1>4, <1>5, <1>6 DEF Effect, QueueStep

\* Creations in the FIFO are of different reminders, whose ids are given out.
Creations ==
    /\ \A i, k \in DOMAIN queue :
          queue[i].kind = "create" /\ queue[k].kind = "create" /\ queue[i].task = queue[k].task
             => i = k
    /\ \A i \in DOMAIN queue : queue[i].kind = "create" => queue[i].task \in given

\* Every step keeps them so.
LEMMA NextCreations ==
    ASSUME L0, Creations, Effect
    PROVE  Creations'
<1>1. queue \in Seq(Op) /\ DriveOp \in Op /\ DriveOp.kind # "create"
  BY DEF L0, TypeOK, DriveOp, Op
<1>2. CASE given' = given /\ queue' \in {queue, <<>>}
  <2>1. \A i \in DOMAIN <<>> : FALSE
    OBVIOUS
  <2> QED
    BY <1>2, <2>1 DEF Creations
<1>3. CASE given' = given /\ queue' = Append(queue, DriveOp)
  <2>1. \A i \in DOMAIN queue' : (i \in DOMAIN queue /\ queue'[i] = queue[i]) \/ queue'[i] = DriveOp
    BY <1>1, <1>3, Appending
  <2> QED
    BY <1>1, <1>3, <2>1 DEF Creations
<1>4. CASE given' = given /\ queue # <<>> /\ queue' = Tail(queue)
  <2>1. /\ \A i \in DOMAIN queue' : i + 1 \in DOMAIN queue /\ queue'[i] = queue[i + 1]
        /\ \A i, k \in DOMAIN queue' : i + 1 = k + 1 => i = k
    BY <1>1, <1>4, HeadAndTail
  <2> QED
    BY <1>4, <2>1 DEF Creations
<1>5. CASE \E op \in Op : Joins(op) /\ AsksFor(op)
  <2>1. PICK op \in Op : Joins(op) /\ AsksFor(op)
    BY <1>5
  <2>2. \A i \in DOMAIN queue' :
           \/ i \in DOMAIN queue /\ queue'[i] = queue[i]
           \/ i = Len(queue) + 1 /\ queue'[i] = op
    BY <1>1, <2>1, Appending DEF Joins
  <2>3. /\ given \subseteq given'
        /\ op.kind = "create" => op.task \notin given /\ op.task \in given'
    BY <2>1 DEF AsksFor
  <2>4. \A i \in DOMAIN queue' : queue'[i].kind = "create" => queue'[i].task \in given'
    BY <2>2, <2>3 DEF Creations
  <2>5. ASSUME NEW i \in DOMAIN queue', NEW k \in DOMAIN queue',
               queue'[i].kind = "create", queue'[k].kind = "create",
               queue'[i].task = queue'[k].task
        PROVE  i = k
    <3>1. CASE i \in DOMAIN queue /\ queue'[i] = queue[i] /\ k \in DOMAIN queue
               /\ queue'[k] = queue[k]
      BY <2>5, <3>1 DEF Creations
    <3>2. CASE i = Len(queue) + 1 /\ k = Len(queue) + 1
      BY <3>2
    <3>3. ASSUME NEW j \in DOMAIN queue, queue[j].kind = "create", op.kind = "create"
          PROVE  queue[j].task # op.task
      BY <2>3, <3>3 DEF Creations
    <3> QED
      BY <2>2, <2>5, <3>1, <3>2, <3>3
  <2> QED
    BY <2>4, <2>5 DEF Creations
<1> QED
  BY <1>2, <1>3, <1>4, <1>5 DEF Effect, QueueStep

\* A creation that leaves the FIFO is born.
LEMMA BornOfTheHead ==
    ASSUME L0, Creations, BeginsCall, Effect, NEW t \in Task, t = Head(queue).task,
           Head(queue).kind = "create"
    PROVE  ~Unborn(t)' /\ Unborn(t)
<1>1. /\ queue # <<>> /\ queue' = Tail(queue) /\ queue \in Seq(Op)
  BY DEF BeginsCall, L0, TypeOK
<1>2. /\ 1 \in DOMAIN queue /\ Head(queue) = queue[1]
      /\ \A i \in DOMAIN Tail(queue) :
            i + 1 \in DOMAIN queue /\ Tail(queue)[i] = queue[i + 1] /\ i + 1 # 1
  BY <1>1, HeadAndTail
<1>3. t \in given /\ given \subseteq given'
  <2>1. given \subseteq given'
    BY DEF Effect, QueueStep, AsksFor
  <2> QED
    BY <1>2, <2>1 DEF Creations
<1>4. ASSUME NEW i \in DOMAIN queue', queue'[i].kind = "create" PROVE queue'[i].task # t
  BY <1>1, <1>2, <1>4 DEF Creations
<1>5. ~Unborn(t)'
  BY <1>3, <1>4 DEF Unborn
<1>6. Unborn(t)
  BY <1>2 DEF Unborn
<1> QED
  BY <1>5, <1>6

\* What is active, or delivered, is born.
LEMMA ActiveIsBorn ==
    ASSUME Births, NEW t \in Task, tasks[t] # NoRow
    PROVE  ~Unborn(t)
  BY DEF Births

\* Every step keeps the unborn without rows and tellings.
LEMMA NextBirths ==
    ASSUME L0, L0', Births, Effect
    PROVE  Births'
<1>1. Creations /\ Creations'
  BY NextCreations DEF Births, Creations
<1>2. ASSUME NEW t \in Task, Unborn(t)'
      PROVE  tasks'[t] = NoRow /\ disk'[t] = NoRow
             /\ \A at \in Time : Tellings(inbox', t, at) = {}
  <2>1. Unborn(t)
    BY <1>2, StaysBorn
  <2>2. tasks[t] = NoRow /\ disk[t] = NoRow /\ \A at \in Time : Tellings(inbox, t, at) = {}
    BY <2>1 DEF Births
  <2>3. ~(pc \in {"writing", "refused"} /\ t = writing.task)
    BY <2>1 DEF Births
  <2>4. tasks'[t] = NoRow /\ disk'[t] = NoRow
    BY <2>2, <2>3 DEF Effect, RowsStep
  <2>5. t \notin group
    BY <2>1 DEF Births
  <2>6. ASSUME NEW at \in Time PROVE Tellings(inbox', t, at) = {}
    <3>1. CASE Settles
      BY <2>2, <3>1, SameTellings DEF L0
    <3>2. CASE Appends
      BY <2>2, <2>5, <3>2, MoreTellings
    <3> QED
      BY <3>1, <3>2 DEF Effect, InboxStep
  <2> QED
    BY <2>4, <2>6
<1>3. ASSUME NEW t \in left' \cup group' PROVE ~Unborn(t)'
  <2>1. t \in Task
    BY DEF L0, TypeOK
  <2>2. t \in left \cup group \/ Active(tasks[t])
    BY DEF Effect, LeftStep
  <2>3. ~Unborn(t)
    BY <2>1, <2>2, ActiveIsBorn, NoRowIsNone DEF Births
  <2> QED
    BY <2>1, <2>3, StaysBorn
<1>8. ASSUME pc' \in {"writing", "refused"} PROVE writing'.task \in Task
  <2>1. CASE pc \in {"writing", "refused"} /\ writing' = writing
    BY <2>1, WrittenRows DEF L0
  <2>2. CASE BeginsCall
    <3>1. /\ Head(queue) \in Op /\ writing'.task = Head(queue).task
          /\ Head(queue).kind \in {"create", "update", "delete"}
      BY <2>2, HeadAndTail DEF L0, TypeOK, BeginsCall
    <3> QED
      BY <3>1, Operations
  <2>3. CASE Removes
    BY <2>3 DEF Removes, L0, TypeOK
  <2>4. CASE WritesDelivery
    BY <2>4 DEF WritesDelivery, L0, TypeOK
  <2> QED
    BY <1>8, <2>1, <2>2, <2>3, <2>4 DEF Effect, WritingStep
<1>4. ASSUME NEW t \in Task, pc' \in {"writing", "refused"}, t = writing'.task PROVE ~Unborn(t)'
  <2>1. CASE pc \in {"writing", "refused"} /\ writing' = writing
    <3>1. ~Unborn(t)
      BY <1>4, <2>1 DEF Births
    <3> QED
      BY <3>1, StaysBorn
  <2>2. CASE BeginsCall
    <3>1. Head(queue) \in Op /\ t = Head(queue).task
          /\ Head(queue).kind \in {"create", "update", "delete"}
          /\ writing'.row \in Outcome(Head(queue))
      BY <1>4, <2>2, HeadAndTail DEF L0, TypeOK, BeginsCall
    <3>2. CASE Head(queue).kind = "create"
      BY <1>1, <2>2, <3>1, <3>2, BornOfTheHead
    <3>3. CASE Head(queue).kind # "create"
      <4>1. tasks[t] # NoRow
        BY <3>1, <3>3, Outcomes, NoRowIsNone DEF L0
      <4> QED
        BY <4>1, ActiveIsBorn, StaysBorn
    <3> QED
      BY <3>2, <3>3
  <2>3. CASE Removes
    <3>1. ~Unborn(t)
      BY <1>4, <2>3, ActiveIsBorn, NoRowIsNone DEF Removes, Births
    <3> QED
      BY <3>1, StaysBorn
  <2>4. CASE WritesDelivery
    <3>1. t \in group
      BY <1>4, <2>4 DEF WritesDelivery
    <3>2. ~Unborn(t)
      BY <3>1 DEF Births
    <3> QED
      BY <3>2, StaysBorn
  <2> QED
    BY <1>4, <2>1, <2>2, <2>3, <2>4 DEF Effect, WritingStep
<1>5. (\A t \in Task : Unborn(t) =>
          tasks[t] = NoRow /\ disk[t] = NoRow /\ \A at \in Time : Tellings(inbox, t, at) = {})'
  BY <1>2
<1>6. (\A t \in left \cup group : ~Unborn(t))'
  BY <1>3
<1>7. (pc \in {"writing", "refused"} => ~Unborn(writing.task))'
  BY <1>4, <1>8 DEF Unborn
<1> QED
  BY <1>1, <1>5, <1>6, <1>7 DEF Births, Creations

\* What Repeats says of one occurrence of one reminder.
Repeated(t, at) ==
    /\ Count(inbox, t, at) <= 1 + Mishaps
    /\ at > now => Count(inbox, t, at) <= Mishaps
    /\ \A row \in {tasks[t], disk[t]} :
          Active(row) /\ row.record.at <= at /\ ~(Telling /\ t \in group)
             => Count(inbox, t, at) <= Mishaps
    /\ pc \in {"writing", "refused"} /\ writing.task = t /\ Active(writing.row)
         /\ writing.row.record.at <= at
          => Count(inbox, t, at) <= Mishaps
    /\ Telling /\ t \in group /\ at > decision => Count(inbox, t, at) <= Mishaps

\* A message tells once more only of what was told at most once for each fault.
LEMMA AppendRepeats ==
    ASSUME L0, NEW t \in Task, NEW at \in Time, Repeated(t, at), Appends
    PROVE  Repeated(t, at)'
<1>1. /\ pc = "resolving" /\ pc' = "flushing" /\ work.kind = "drive" /\ work' = work
      /\ tasks' = tasks /\ disk' = disk /\ Mishaps' = Mishaps /\ now' = now /\ decision' = now
  BY DEF Appends, envVars, Mishaps, storeVars
<1>2. ~Telling /\ Telling'
  BY <1>1 DEF Telling
<1>3. Count(inbox, t, at) \in Nat /\ Mishaps \in Nat /\ now \in Nat /\ at \in Nat
  BY Counts, BoundAssumption, MaxTimeAssumption DEF L0, TypeOK, Time, Mishaps
<1>4. CASE Tellings(inbox', t, at) = Tellings(inbox, t, at)
  <2>1. Count(inbox', t, at) = Count(inbox, t, at)
    BY <1>4 DEF Count
  <2> QED
    BY <1>1, <1>2, <2>1 DEF Repeated
<1>5. CASE /\ Count(inbox', t, at) = Count(inbox, t, at) + 1
           /\ t \in group' /\ at <= now
           /\ tasks[t].record.at <= at /\ Active(tasks[t])
  <2>1. Count(inbox, t, at) <= Mishaps
    BY <1>2, <1>5 DEF Repeated
  <2>2. Count(inbox', t, at) <= 1 + Mishaps' /\ ~(at > now') /\ ~(at > decision')
    BY <1>1, <1>3, <1>5, <2>1
  <2>3. pc' \notin {"writing", "refused"} /\ Telling' /\ t \in group'
    BY <1>1, <1>2, <1>5
  <2> QED
    BY <2>2, <2>3 DEF Repeated
<1> QED
  BY <1>4, <1>5, MoreTellings

\* What begins to be written and is active can still be told.
LEMMA WritingRepeats ==
    ASSUME L0, Births, Effect, NEW t \in Task, NEW at \in Time, Repeated(t, at),
           pc' \in {"writing", "refused"}, writing'.task = t, Active(writing'.row),
           writing'.row.record.at <= at
    PROVE  Count(inbox, t, at) <= Mishaps
<1>1. Count(inbox, t, at) \in Nat /\ Mishaps \in Nat /\ now \in Nat /\ at \in Nat
      /\ decision \in Nat
  BY Counts, BoundAssumption, MaxTimeAssumption DEF L0, TypeOK, Time, Mishaps
<1>2. CASE pc \in {"writing", "refused"} /\ writing' = writing
  BY <1>2 DEF Repeated
<1>3. CASE BeginsCall
  <2> DEFINE op == Head(queue)
             row == writing'.row
  <2>1. op \in Op /\ op.kind \in {"create", "update", "delete"} /\ op.task = t
        /\ row \in Outcome(op) /\ work = Idle
    BY <1>3, HeadAndTail DEF L0, TypeOK, BeginsCall
  <2> HIDE DEF row
  <2>2. /\ \/ op.kind = "create" /\ row = op.row
           \/ op.kind = "delete" /\ row = NoRow /\ tasks[op.task] # NoRow
           \/ /\ op.kind = "update" /\ Active(tasks[op.task]) /\ Active(row)
              /\ \E r \in Record : row = [tasks[op.task] EXCEPT !.record = r]
                                   /\ (r.at = tasks[op.task].record.at \/ now < r.at)
    BY <2>1, Outcomes DEF L0
  <2>3. CASE op.kind = "create"
    <3>1. Creations
      BY DEF Births, Creations
    <3>2. Unborn(t)
      BY <1>3, <2>1, <2>3, <3>1, BornOfTheHead
    <3>3. Tellings(inbox, t, at) = {}
      BY <3>2 DEF Births
    <3>4. Count(inbox, t, at) = 0
      BY <3>3, Counts DEF L0, TypeOK
    <3> QED
      BY <1>1, <3>4
  <2>4. CASE op.kind = "delete"
    BY <2>2, <2>4, NoRowIsNone DEF row
  <2>5. CASE op.kind = "update"
    <3>1. PICK r \in Record : row = [tasks[t] EXCEPT !.record = r]
                              /\ (r.at = tasks[t].record.at \/ now < r.at)
      BY <2>1, <2>2, <2>5
    <3>2. Active(tasks[t]) /\ tasks[t] \in Row
      BY <2>1, <2>2, <2>5 DEF L0, TypeOK
    <3>3. Real(tasks[t])
      BY <3>2, RowsAreReal
    <3>4. row.record = r
      BY <3>1, <3>3 DEF Real
    <3>5. r.at <= at /\ r.at \in Nat
      BY <3>4, MaxTimeAssumption DEF row, Record, Time
    <3>6. CASE r.at = tasks[t].record.at
      <4>1. ~Telling
        BY <2>1 DEF Telling, Idle
      <4> QED
        BY <3>2, <3>5, <3>6, <4>1 DEF Repeated
    <3>7. CASE now < r.at
      BY <1>1, <3>5, <3>7 DEF Repeated
    <3> QED
      BY <3>1, <3>6, <3>7
  <2> QED
    BY <2>1, <2>3, <2>4, <2>5
<1>4. CASE Removes
  BY <1>4, NoRowIsNone DEF Removes
<1>5. CASE WritesDelivery
  <2>1. Telling /\ work.kind = "drive"
    BY <1>5 DEF WritesDelivery, Telling
  <2>2. PICK when \in Time :
          t \in group /\ writing'.row = DeliveredRow(scanned[t], decision, when, Sent)
    BY <1>5 DEF WritesDelivery
  <2>3. decision < writing'.row.record.at /\ Real(writing'.row)
    BY <2>1, <2>2, CommitRow DEF Delivery
  <2>4. writing'.row.record.at \in Nat
    BY <2>3, MaxTimeAssumption DEF Real, Record, Time
  <2>5. at > decision
    BY <1>1, <2>3, <2>4
  <2> QED
    BY <2>1, <2>2, <2>5 DEF Repeated
<1> QED
  BY <1>2, <1>3, <1>4, <1>5 DEF Effect, WritingStep

\* A step that sends nothing leaves nothing to be told again.
LEMMA SettleRepeats ==
    ASSUME L0, Births, Effect, NEW t \in Task, NEW at \in Time, Repeated(t, at), Settles
    PROVE  Repeated(t, at)'
<1>1. Count(inbox', t, at) = Count(inbox, t, at)
  BY SameTellings DEF L0, Count
<1>2. Count(inbox, t, at) \in Nat /\ Mishaps \in Nat /\ now \in Nat /\ at \in Nat
  BY Counts, BoundAssumption, MaxTimeAssumption DEF L0, TypeOK, Time, Mishaps
<1>3. CASE Mishaps' = Mishaps + 1
  <2>1. Count(inbox', t, at) <= Mishaps' /\ Count(inbox', t, at) <= 1 + Mishaps'
    BY <1>1, <1>2, <1>3 DEF Repeated
  <2> QED
    BY <2>1 DEF Repeated
<1>4. CASE Mishaps' = Mishaps /\ now' \in {now, now + 1}
  <2>1. Count(inbox', t, at) <= 1 + Mishaps' /\ (at > now' => Count(inbox', t, at) <= Mishaps')
    BY <1>1, <1>2, <1>4 DEF Repeated
  <2>2. ASSUME NEW row \in {tasks'[t], disk'[t]}, Active(row), row.record.at <= at,
               ~(Telling' /\ t \in group')
        PROVE  Count(inbox, t, at) <= Mishaps
    <3>1. CASE pc \in {"writing", "refused"} /\ t = writing.task /\ row = writing.row
      BY <2>2, <3>1 DEF Repeated
    <3>2. CASE row \in {tasks[t], disk[t]} /\ ~(Telling /\ t \in group)
      BY <2>2, <3>2 DEF Repeated
    <3>3. CASE Telling /\ t \in group
      <4>1. pc \in {"writing", "refused"} /\ t = writing.task /\ row = writing.row
        BY <1>4, <2>2, <3>3 DEF Effect, TellingStep
      <4> QED
        BY <3>1, <4>1
    <3>4. row # NoRow
      BY <2>2, NoRowIsNone
    <3> QED
      BY <2>2, <3>1, <3>2, <3>3, <3>4 DEF Effect, RowsStep
  <2>3. ASSUME pc' \in {"writing", "refused"}, writing'.task = t, Active(writing'.row),
               writing'.row.record.at <= at
        PROVE  Count(inbox, t, at) <= Mishaps
    BY <2>3, WritingRepeats
  <2>4. ASSUME Telling', t \in group', at > decision'
        PROVE  Count(inbox, t, at) <= Mishaps
    <3>1. Len(inbox') = Len(inbox) /\ Len(inbox) \in Nat
      BY DEF Settles, L0, TypeOK
    <3>2. ~Appends
      BY <3>1 DEF Appends
    <3>3. Telling /\ t \in group /\ decision' = decision
      BY <2>4, <3>2 DEF Effect, TellingStep
    <3> QED
      BY <2>4, <3>3 DEF Repeated
  <2> QED
    BY <1>1, <1>4, <2>1, <2>2, <2>3, <2>4 DEF Repeated
<1> QED
  BY <1>3, <1>4 DEF Effect, ClockStep

\* Every step repeats only for a reason.
LEMMA NextRepeats ==
    ASSUME L0, Births, Repeats, Effect
    PROVE  Repeats'
<1>1. ASSUME NEW t \in Task, NEW at \in Time
      PROVE  Repeated(t, at)'
  <2>1. Repeated(t, at)
    BY DEF Repeats, Repeated
  <2> QED
    BY <2>1, AppendRepeats, SettleRepeats DEF Effect, InboxStep
<1> QED
  BY <1>1 DEF Repeats, Repeated

-----------------------------------------------------------------------------
(* The theorems.                                                           *)

\* The first states satisfy the invariant: nobody has been told of anything.
LEMMA InitInvariant ==
    ASSUME Init
    PROVE  IInv
<1>1. L0
  BY InitL0
<1>2. /\ Mishaps = 0 /\ given = Saved /\ tasks = NoTable /\ inbox = <<>> /\ phase = "closed"
      /\ queue = <<>> /\ work = Idle /\ pc = "idle" /\ left = {} /\ group = {}
  BY DEF Init, Mishaps
<1>3. /\ \A i \in DOMAIN <<>> : FALSE
      /\ Idle.kind = "idle"
      /\ \A t \in Task : tasks[t] = NoRow
  BY <1>2 DEF Idle, NoTable
<1>4. ~Telling
  BY <1>2, <1>3 DEF Telling
<1>5. \A t \in Task : \/ disk[t] = NoRow
                      \/ t \in Saved /\ \E s \in Session, r \in Record : disk[t] = FreshRow(s, r)
  <2>1. PICK rows \in [Saved -> {FreshRow(s, r) : s \in Session, 
                    r \in {x \in Record : x.at = 1 /\ x.kind \in Rules}}] :
           disk = [t \in Task |-> IF t \in Saved THEN rows[t] ELSE NoRow]
    BY DEF Init
  <2>2. \A t \in Saved : \E s \in Session, r \in Record : rows[t] = FreshRow(s, r)
    BY <2>1
  <2> QED
    BY <2>1, <2>2
<1>6. Drives /\ Reminded /\ Stops
  BY <1>2, <1>3 DEF Drives, Reminded, Stops
<1>7. \A t \in Task : disk[t].history = <<>> /\ disk[t].last = NoReceipt
                      /\ disk[t].status # "inactive"
  <2>1. \A s \in Session, r \in Record :
           /\ FreshRow(s, r).history = <<>> /\ FreshRow(s, r).last = NoReceipt
           /\ FreshRow(s, r).status # "inactive"
    BY DEF FreshRow
  <2> QED
    BY <1>5, <2>1, NoRowIsNone
<1>8. Receipts
  <2>1. \A t \in Task : RowBacked(inbox, t, tasks[t]) /\ RowBacked(inbox, t, disk[t])
    BY <1>3, <1>7, NoRowIsNone, NewRowsBacked
  <2> QED
    BY <1>2, <1>3, <1>4, <2>1 DEF Receipts
<1>9. \A t \in Task, at \in Time : Tellings(inbox, t, at) = {} /\ Count(inbox, t, at) = 0
  <2> TAKE t \in Task, at \in Time
  <2>1. Tellings(inbox, t, at) = {}
    BY <1>2, <1>3 DEF Tellings
  <2> QED
    BY <1>1, <2>1, Counts DEF L0, TypeOK
<1>10. Births
  <2>1. \A t \in Task : Unborn(t) => t \notin Saved
    BY <1>2, <1>3 DEF Unborn
  <2> QED
    BY <1>2, <1>3, <1>5, <1>9, <2>1 DEF Births
<1>11. Repeats
  BY <1>2, <1>9 DEF Repeats
<1> QED
  BY <1>1, <1>6, <1>8, <1>10, <1>11 DEF IInv, L0

\* Every step keeps it.
LEMMA NextInvariant ==
    ASSUME IInv, [Next]_vars
    PROVE  IInv'
<1>1. L0
  BY DEF IInv, L0
<1>2. L0' /\ Effect
  BY <1>1, NextL0, NextEffect
<1>3. Drives' /\ Reminded' /\ Stops'
  BY <1>1, NextDrives, NextReminded, NextStops DEF IInv
<1>4. Receipts' /\ Births' /\ Repeats'
  BY <1>1, <1>2, NextReceipts, NextBirths, NextRepeats DEF IInv
<1> QED
  BY <1>2, <1>3, <1>4 DEF IInv, L0

\* The service holds its invariant, however many calls and Mishaps there are.
THEOREM ScheduleInvariant == Spec => []IInv
<1>1. Init => IInv
  BY InitInvariant
<1>2. IInv /\ [Next]_vars => IInv'
  BY NextInvariant
<1> QED
  BY <1>1, <1>2, PTL DEF Spec

\* Every variable stays in its type.
THEOREM ScheduleTypes == Spec => []TypeOK
<1>1. IInv => TypeOK
  BY DEF IInv
<1> QED
  BY <1>1, ScheduleInvariant, PTL

\* A saved delivery is true, in memory and on disk, whatever was lost
\* (ScheduleRuntime.drive, appendDelivery).
THEOREM ReceiptsAreTrue == Spec => []ReceiptIsBacked
<1>1. IInv => ReceiptIsBacked
  <2> SUFFICES ASSUME IInv, NEW t \in Task, NEW row \in {tasks[t], disk[t]}
               PROVE  /\ \A i \in DOMAIN row.history : Backed(t, row.history[i])
                      /\ row.status = "inactive"
                            => Backed(t, row.last) /\ row.last.at = row.record.at
                      /\ Reopens(row)
    BY DEF ReceiptIsBacked
  <2>1. RowBacked(inbox, t, row)
    BY DEF IInv, Receipts
  <2>2. \A d : BackedIn(inbox, t, d) => Backed(t, d)
    BY DEF BackedIn, Backed
  <2> QED
    BY <2>1, <2>2 DEF RowBacked
<1> QED
  BY <1>1, ScheduleInvariant, PTL

\* Active reminders have a timer or a drive to come (requestDrive, armTimer).
THEOREM RemindersStay == Spec => []NoReminderForgotten
<1>1. IInv => NoReminderForgotten
  BY DEF IInv, Reminded, Expecting, Obligations, NoReminderForgotten
<1> QED
  BY <1>1, ScheduleInvariant, PTL

\* An occurrence is told once more, at most, than steps have failed and deliveries
\* were cut off by a closing storage: an ordinary shutdown repeats a reminder for the
\* second reason only (ScheduleRuntime.drive, appendDelivery).
THEOREM RepeatsHaveReason == Spec => []NoNeedlessRepeat
<1>1. IInv => NoNeedlessRepeat
  <2>1. IInv => faults \in Nat /\ refused \in Nat
    BY Mishap DEF IInv, L0
  <2>2. IInv => Mishaps = faults + refused /\ 1 + Mishaps = 1 + faults + refused
    BY <2>1 DEF Mishaps
  <2> QED
    BY <2>2 DEF IInv, Repeats, Count, Tellings, NoNeedlessRepeat
<1> QED
  BY <1>1, ScheduleInvariant, PTL

\* A delivery writes over the row it has read (the FIFO of drives and calls).
THEOREM DeliveriesReadWhatTheyWrite == Spec => DeliveryOverwritesNothing
<1>1. IInv => \A t \in Task :
         work.kind = "drive" /\ pc = "writing" /\ writing.task = t => tasks[t] = scanned[t]
  BY DEF IInv, Slots
<1>2. IInv /\ [Next]_vars =>
         [\A t \in Task :
             work.kind = "drive" /\ pc = "writing" /\ writing.task = t /\ tasks'[t] # tasks[t]
               => tasks[t] = scanned[t]]_vars
  BY <1>1
<1> QED
  BY <1>2, ScheduleInvariant, PTL DEF Spec, DeliveryOverwritesNothing

\* The last write of a stop, if none of its writes failed, leaves its session
\* without an active reminder.
LEMMA StopEnds ==
    ASSUME IInv, Next, work.kind = "stop", work' = Idle, ~work.partial, tasks' # tasks,
           NEW t \in Task
    PROVE  ~(Active(tasks'[t]) /\ tasks'[t].session = work.session)
<1>1. L0 /\ Stops /\ pc \in {"writing", "refused"} /\ writing.row = NoRow
  BY DEF IInv, L0, Slots
<1>2. ~Active(NoRow) /\ Idle # work /\ Idle.kind = "idle"
  BY NoRowIsNone DEF Idle
<1>3. CASE StopWritten
  <2>1. Lands
    BY <1>3 DEF StopWritten, Fails, IsRefused, storeVars
  <2>2. left = {}
    <3>1. ASSUME left # {} PROVE FALSE
      <4>1. work' = [work EXCEPT !.removed = @ \/ tasks' # tasks, !.partial = @ \/ tasks' = tasks]
        BY <1>3, <3>1 DEF StopWritten
      <4>2. work \in [kind : {"stop"}, session : Session, removed : BOOLEAN, partial : BOOLEAN]
        BY <1>1, <1>2, Operations DEF L0, TypeOK
      <4>3. work'.kind = "stop"
        BY <4>1, <4>2, Zenon
      <4> QED
        BY <1>2, <4>3
    <3> QED
      BY <3>1
  <2>3. /\ Written[writing.task] = writing.row
        /\ \A u \in Task : u # writing.task => Written[u] = tasks[u]
    BY <1>1, WrittenRows DEF L0
  <2>4. t # writing.task => ~(Active(tasks[t]) /\ tasks[t].session = work.session)
    BY <1>1, <2>2 DEF Stops
  <2> QED
    BY <1>1, <1>2, <2>1, <2>3, <2>4 DEF Lands
<1>4. CASE Crash
  BY <1>2, <1>4 DEF Crash, NoTable
<1>5. CASE \/ Calls \/ Runtime \/ TimerFires \/ Boot \/ OpenAbandoned \/ CloseAdmission
           \/ StorageCloses \/ StorageClosed \/ Cleanup \/ Tick \/ SetBack
  BY <1>5 DEF Calls, CallCreate, CallUpdate, CallDelete, CallStop, Serialize, Runtime,
              CheckRequested, Retire, TimerFires, Boot, OpenAbandoned, CloseAdmission,
              StorageCloses, StorageClosed, Cleanup, Tick, SetBack, storeVars
<1>6. CASE Open \/ Close
  BY <1>1, <1>2, <1>6 DEF L0, Closed, Open, Close, Drained
<1>7. CASE BeginCall \/ BeginStop \/ BeginDrive
  BY <1>2, <1>7 DEF BeginCall, BeginStop, BeginDrive, Begin
<1>8. CASE \/ EndCall \/ Resolved \/ Unresolved \/ Flushed \/ NotFlushed \/ Committed
           \/ CommitRefused
  BY <1>8 DEF EndCall, Resolved, Unresolved, Flushed, NotFlushed, Committed, CommitRefused,
           Driving
<1> QED
  BY <1>3, <1>4, <1>5, <1>6, <1>7, <1>8 DEF Next, Slot

\* Whoever is told that a session's reminders stopped is right
\* (stopSessionTasks).
THEOREM StopsAreComplete == Spec => StopLeavesNothing
<1>1. IInv /\ [Next]_vars =>
         [work.kind = "stop" /\ work' = Idle /\ ~work.partial /\ tasks' # tasks
            => \A t \in Task : ~(Active(tasks'[t]) /\ tasks'[t].session = work.session)]_vars
  BY StopEnds
<1> QED
  BY <1>1, ScheduleInvariant, PTL DEF Spec, StopLeavesNothing
=============================================================================
