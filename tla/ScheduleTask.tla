---------------------------- MODULE ScheduleTask ----------------------------
(***************************************************************************)
(* One row of the schedule's task table and what delivery and management   *)
(* compute from it (packages/schedule/schedule/src/domain.ts, update.ts    *)
(* and delivery-history.ts).                                               *)
(*                                                                         *)
(* Instants are small numbers and MaxTime is the last representable one.   *)
(* after and at are the one rule "once", every is an interval, and daily,  *)
(* weekly and cron are the one rule "wall": a set of instants the local    *)
(* calendar selects. Name and prompt are one value, text.                  *)
(***************************************************************************)
EXTENDS Integers, Sequences, FiniteSetsExt

CONSTANTS
    Session,        \* sessions a task may be bound to
    Text,           \* what a reminder may say
    Kind,           \* the rules in use, of "once", "every" and "wall"
    MaxTime,        \* the last instant a four-digit year can name
    Interval,       \* period of an every rule
    Calendar,       \* the instants a wall-clock rule selects
    HistoryDays,    \* config deliveryHistoryDays
    HistoryRecords  \* config deliveryHistoryRecords

ASSUME KindAssumption == Kind \subseteq {"once", "every", "wall"}
ASSUME MaxTimeAssumption == MaxTime \in Nat
ASSUME IntervalAssumption == Interval \in Nat \ {0}
ASSUME CalendarAssumption == Calendar \subseteq 0 .. MaxTime
ASSUME HistoryAssumption ==
    HistoryDays \in Nat \ {0} /\ HistoryRecords \in Nat \ {0}

Time == 0 .. MaxTime
Record == [kind : Kind, at : Time, text : Text]

(* A saved delivery: the occurrence, when it was acknowledged, its message. *)
Receipt == [at : Time, when : Time, message : Nat]
NoReceipt == [at |-> 0, when |-> 0, message |-> 0]

(* A record of another kind than any rule's stands for no row. *)
NoRow == [session |-> "none",
          record |-> [kind |-> "none", at |-> 0, text |-> "none"],
          status |-> "none", last |-> NoReceipt, history |-> <<>>]

FreshRow(s, r) ==
    [session |-> s, record |-> r, status |-> "active", last |-> NoReceipt, history |-> <<>>]

Row == {NoRow} \cup
    [session : Session, record : Record, status : {"active", "inactive"},
     last : Receipt, history : Seq(Receipt)]

Active(row) == row.status = "active"
Recurring(row) == row.record.kind \in {"every", "wall"}
Due(row, now) == Active(row) /\ row.record.at <= now

(***************************************************************************)
(* The record a rule gets when it is accepted at this instant: none unless *)
(* its first target is representable and strictly in the future.           *)
(***************************************************************************)
Accepted(kind, target, text, now) ==
    LET at == CASE kind = "once"  -> target
                [] kind = "every" -> now + Interval
                [] kind = "wall"  -> Min({c \in Calendar : c > now} \cup {MaxTime + 1})
    IN  {r \in {[kind |-> kind, at |-> at, text |-> text]} : now < r.at /\ r.at <= MaxTime}

(***************************************************************************)
(* The latest occurrence due at a decision made no earlier than the        *)
(* target; the target itself stays due whatever the calendar says now.     *)
(***************************************************************************)
Occurrence(record, decision) ==
    CASE record.kind = "once"  -> record.at
      [] record.kind = "every" -> record.at + ((decision - record.at) \div Interval) * Interval
      [] record.kind = "wall"  ->
           Max({record.at} \cup {c \in Calendar : record.at <= c /\ c <= decision})

\* Slip: an interval runs past the last instant.
NextTargetsUnbounded(record, decision) ==
    IF record.kind = "every" THEN {Occurrence(record, decision) + Interval} ELSE {}

(* The first target after the decision; none once the rule is exhausted, and
   none for a reminder that fires once. *)
NextTargets(record, decision) ==
    CASE record.kind = "once"  -> {}
      [] record.kind = "every" ->
           {t \in {Occurrence(record, decision) + Interval} : t <= MaxTime}
      [] record.kind = "wall"  ->
           LET later == {c \in Calendar : c > decision}
           IN  IF later = {} THEN {} ELSE {Min(later)}

(* The entries of a sequence at these positions, in their order. *)
InOrder(s, positions) ==
    LET at == CHOOSE e \in UNION {[1 .. n -> positions] : n \in 0 .. Len(s)} :
                 /\ \A i, k \in DOMAIN e : i < k => e[i] < e[k]
                 /\ \A p \in positions : \E i \in DOMAIN e : e[i] = p
    IN  [i \in DOMAIN at |-> s[at[i]]]

(* appendDelivery: the receipt joins the history, which keeps the newest
   records of the retention window. *)
WithDelivery(row, receipt) ==
    LET appended == Append(row.history, receipt)
        kept == InOrder(appended, {i \in DOMAIN appended :
                                     appended[i].when >= receipt.when - HistoryDays})
        from == IF Len(kept) > HistoryRecords THEN Len(kept) - HistoryRecords + 1 ELSE 1
    IN  [row EXCEPT !.last = receipt, !.history = SubSeq(kept, from, Len(kept))]

(* The row one acknowledged delivery leaves: the next target, or the end. *)
DeliveredRow(row, decision, when, message) ==
    LET next    == NextTargets(row.record, decision)
        at      == Occurrence(row.record, decision)
        receipt == [at |-> at, when |-> when, message |-> message]
    IN  IF next = {}
        THEN [WithDelivery(row, receipt) EXCEPT !.status = "inactive", !.record.at = at]
        ELSE [WithDelivery(row, receipt) EXCEPT !.record.at = Max(next)]

(***************************************************************************)
(* resolveScheduleUpdate: the record after an edit made against the one    *)
(* the caller saw; empty when the edit conflicts or is refused. A rule     *)
(* that is already the record's own keeps the committed target.            *)
(***************************************************************************)
KeepsTarget(record, change) ==
    \/ change.kind = "same"
    \/ change.kind = record.kind /\ (change.kind = "once" => change.at = record.at)

Edited(record, expected, change, now) ==
    IF record # expected THEN {}
    ELSE IF KeepsTarget(record, change) THEN {[record EXCEPT !.text = change.text]}
    ELSE Accepted(change.kind, change.at, change.text, now)

(* What the table accepts when it is opened: the latest saved delivery is the
   row's last, and no message is recorded twice. *)
Reopens(row) ==
    /\ row.history = <<>> => row.last = NoReceipt
    /\ row.history # <<>> => row.history[Len(row.history)] = row.last
    /\ \A i, k \in DOMAIN row.history :
         row.history[i].message = row.history[k].message => i = k
=============================================================================
