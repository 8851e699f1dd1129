-------------------------- MODULE JobStreamsProofs --------------------------
(***************************************************************************)
(* What is proved of the observation streams for every set of jobs, owners *)
(* and streams, every retention cap and every number of bytes: a job's     *)
(* settlement is final and takes no byte the model is still owed, and a    *)
(* follow stream that ends of itself has handed over everything.           *)
(*                                                                         *)
(* Two facts carry the argument. The cursor of the model's reads never     *)
(* falls inside a retained chunk, so trimming whole chunks down to a cap   *)
(* that covers the unread bytes spares them all. And once a job settled    *)
(* through its producer the source was drained before and the ring takes   *)
(* nothing more, so what a stream read last is the end.                    *)
(***************************************************************************)
EXTENDS JobStreams, WellFoundedInduction, TLAPS

-----------------------------------------------------------------------------
(* Rings.                                                                  *)

\* Chunks start in order and before the end.
RingOK(ring) ==
    /\ ring \in [starts : Seq(Nat), total : Nat]
    /\ \A i, k \in 1 .. Len(ring.starts) : i <= k => ring.starts[i] <= ring.starts[k]
    /\ \A i \in 1 .. Len(ring.starts) : ring.starts[i] <= ring.total

\* An offset at the end, in what was evicted, or at the start of a chunk.
AtBoundary(ring, offset) ==
    /\ offset \in Nat
    /\ offset <= ring.total
    /\ \/ offset = ring.total
       \/ offset <= Earliest(ring)
       \/ \E k \in 1 .. Len(ring.starts) : ring.starts[k] = offset

\* A non-empty set of numbers has a least one.
LEMMA LeastNumber ==
    ASSUME NEW S \in SUBSET Nat, S # {}
    PROVE  \E n \in S : \A k \in S : n <= k
<1> DEFINE R == OpToRel(<, Nat)
<1>1. IsWellFoundedOn(R, Nat)
  BY NatLessThanWellFounded
<1>2. \A i, k \in Nat : i < k => <<i, k>> \in R
  BY DEF OpToRel
<1> HIDE DEF R
<1>3. PICK n \in S : \A k \in S : ~(<<k, n>> \in R)
  BY <1>1, WFMin
<1>4. ASSUME NEW k \in S
      PROVE  n <= k
  <2>1. ~(k < n)
    BY <1>2, <1>3
  <2> QED
    BY <2>1
<1> QED
  BY <1>4

\* The ring of a job that never wrote.
LEMMA EmptyRingOK ==
    RingOK(EmptyRing) /\ AtBoundary(EmptyRing, 0) /\ EmptyRing.total = 0
  BY DEF RingOK, AtBoundary, EmptyRing

\* The oldest retained byte.
LEMMA EarliestLooks ==
    ASSUME NEW ring, RingOK(ring)
    PROVE  /\ Earliest(ring) \in Nat /\ Earliest(ring) <= ring.total
           /\ ring.starts # << >> => Len(ring.starts) >= 1 /\ Earliest(ring) = ring.starts[1]
           /\ ring.starts = << >> => Earliest(ring) = ring.total
  BY DEF RingOK, Earliest

\* A trim that takes something keeps a suffix of the chunks that fits the cap,
\* or cuts the last chunk to the cap.
LEMMA TrimLooks ==
    ASSUME NEW ring, RingOK(ring), NEW cap \in Nat, Retained(ring) > cap
    PROVE  \E head \in 1 .. Len(ring.starts) :
              /\ \A i \in 1 .. Len(ring.starts) :
                    ring.total - ring.starts[i] <= cap => head <= i
              /\ \/ /\ ring.total - ring.starts[head] <= cap
                    /\ Trim(ring, cap) =
                          [ring EXCEPT !.starts =
                              SubSeq(ring.starts, head, Len(ring.starts))]
                 \/ /\ ring.total - ring.starts[head] > cap
                    /\ head = Len(ring.starts)
                    /\ Trim(ring, cap) = [ring EXCEPT !.starts = <<ring.total - cap>>]
<1> DEFINE last == Len(ring.starts)
           fits == {i \in 1 .. last : i = last \/ ring.total - ring.starts[i] <= cap}
           head == CHOOSE i \in fits : \A k \in fits : i <= k
           kept == SubSeq(ring.starts, head, last)
<1>1. ring.starts \in Seq(Nat) /\ ring.total \in Nat /\ last \in Nat
  BY DEF RingOK
<1>2. last >= 1
  <2>1. ring.starts # << >>
    BY EarliestLooks DEF Retained
  <2> QED
    BY <1>1, <2>1
<1>3. fits \in SUBSET Nat /\ last \in fits
  BY <1>1, <1>2
<1>4. \E i \in fits : \A k \in fits : i <= k
  BY <1>3, LeastNumber
<1>5. head \in fits /\ \A k \in fits : head <= k
  BY <1>4
<1>6. head \in 1 .. last /\ (head = last \/ ring.total - ring.starts[head] <= cap)
  BY <1>5
<1>7. \A i \in 1 .. last : ring.total - ring.starts[i] <= cap => head <= i
  BY <1>5
<1>8. ~(Retained(ring) <= cap)
  BY EarliestLooks, <1>1 DEF Retained
<1>9. Trim(ring, cap) = [ring EXCEPT !.starts =
                            IF ring.total - Head(kept) > cap
                            THEN <<ring.total - cap>> ELSE kept]
  BY <1>8 DEF Trim
<1> HIDE DEF head, fits
<1>10. Head(kept) = ring.starts[head]
  BY <1>1, <1>6
<1>11. ring.starts[head] \in Nat
  BY <1>1, <1>6
<1> HIDE DEF kept
<1>12. CASE ring.total - ring.starts[head] <= cap
  <2>1. ~(ring.total - Head(kept) > cap)
    BY <1>1, <1>10, <1>11, <1>12
  <2>2. Trim(ring, cap) = [ring EXCEPT !.starts = kept]
    BY <1>9, <2>1
  <2> QED
    BY <1>6, <1>7, <1>12, <2>2 DEF kept
<1>13. CASE ring.total - ring.starts[head] > cap
  <2>1. Trim(ring, cap) = [ring EXCEPT !.starts = <<ring.total - cap>>]
    BY <1>9, <1>10, <1>13
  <2>2. head = last
    BY <1>1, <1>6, <1>11, <1>13
  <2> QED
    BY <1>6, <1>7, <1>13, <2>1, <2>2
<1> QED
  BY <1>1, <1>11, <1>12, <1>13

\* What a trim preserves, and that it spares what is unread when the cap does.
LEMMA TrimKeeps ==
    ASSUME NEW ring, RingOK(ring), NEW cap \in Nat
    PROVE  /\ RingOK(Trim(ring, cap)) /\ Trim(ring, cap).total = ring.total
           /\ \A offset \in Nat : AtBoundary(ring, offset) =>
                 /\ AtBoundary(Trim(ring, cap), offset)
                 /\ cap >= ring.total - offset =>
                       Unread(Trim(ring, cap), offset) = Unread(ring, offset)
<1>1. ring \in [starts : Seq(Nat), total : Nat] /\ ring.starts \in Seq(Nat)
      /\ ring.total \in Nat /\ Len(ring.starts) \in Nat
      /\ \A i \in 1 .. Len(ring.starts) : ring.starts[i] \in Nat
  BY DEF RingOK
<1>2. CASE Retained(ring) <= cap
  <2>1. Trim(ring, cap) = ring
    BY <1>2 DEF Trim
  <2> QED
    BY <2>1
<1>3. CASE ~(Retained(ring) <= cap)
  <2> DEFINE t == Trim(ring, cap)
             last == Len(ring.starts)
  <2>1. Retained(ring) > cap
    BY <1>1, <1>3, EarliestLooks DEF Retained
  <2>2. PICK head \in 1 .. last :
           /\ \A i \in 1 .. last : ring.total - ring.starts[i] <= cap => head <= i
           /\ \/ /\ ring.total - ring.starts[head] <= cap
                 /\ t = [ring EXCEPT !.starts = SubSeq(ring.starts, head, last)]
              \/ /\ ring.total - ring.starts[head] > cap
                 /\ head = last
                 /\ t = [ring EXCEPT !.starts = <<ring.total - cap>>]
    BY <2>1, TrimLooks
  <2> HIDE DEF t
  <2>3. /\ head \in 1 .. last /\ head \in Nat /\ last \in Nat /\ ring.starts[head] \in Nat
        /\ \A i \in 1 .. last : ring.total - ring.starts[i] <= cap => head <= i
    BY <1>1, <2>2
  <2>4. ring.starts # << >> /\ Earliest(ring) = ring.starts[1]
    BY <1>1, <2>3, EarliestLooks
  <2>5. Earliest(ring) \in Nat /\ Earliest(ring) < ring.total - cap
    BY <1>1, <2>1, EarliestLooks DEF Retained
  <2>6. CASE /\ ring.total - ring.starts[head] <= cap
             /\ t = [ring EXCEPT !.starts = SubSeq(ring.starts, head, last)]
    <3>0. SubSeq(ring.starts, head, last) \in Seq(Nat)
      BY <1>1, <2>3
    <3>1. t.total = ring.total /\ t.starts = SubSeq(ring.starts, head, last)
          /\ t \in [starts : Seq(Nat), total : Nat]
      BY <1>1, <2>6, <3>0
    <3>2. Len(t.starts) = last - head + 1
          /\ \A i \in 1 .. Len(t.starts) : t.starts[i] = ring.starts[head + i - 1]
      BY <1>1, <2>3, <3>1
    <3>3. Len(t.starts) >= 1 /\ t.starts # << >> /\ t.starts[1] = ring.starts[head]
      BY <1>1, <2>3, <3>2
    <3>4. RingOK(t)
      <4>1. ASSUME NEW i \in 1 .. Len(t.starts), NEW k \in 1 .. Len(t.starts), i <= k
            PROVE  t.starts[i] <= t.starts[k] /\ t.starts[i] <= t.total
        <5>1. head + i - 1 \in 1 .. last /\ head + k - 1 \in 1 .. last
              /\ head + i - 1 <= head + k - 1
          BY <2>3, <3>2, <4>1
        <5>2. t.starts[i] = ring.starts[head + i - 1] /\ t.starts[k] = ring.starts[head + k - 1]
          BY <3>2
        <5> QED
          BY <3>1, <5>1, <5>2 DEF RingOK
      <4>2. ASSUME NEW i \in 1 .. Len(t.starts)
            PROVE  t.starts[i] <= t.total
        <5>1. i <= i
          BY <3>3
        <5> QED
          BY <4>1, <5>1
      <4> QED
        BY <3>1, <4>1, <4>2 DEF RingOK
    <3>5. Earliest(t) = ring.starts[head]
      BY <3>3, <3>4, EarliestLooks
    <3>6. Earliest(ring) <= Earliest(t)
      BY <1>1, <2>3, <2>4, <3>5 DEF RingOK
    <3>7. ASSUME NEW offset \in Nat, AtBoundary(ring, offset)
          PROVE  /\ AtBoundary(t, offset)
                 /\ cap >= ring.total - offset => Unread(t, offset) = Unread(ring, offset)
      <4>0. offset <= ring.total /\ ring.starts[head] \in Nat /\ Earliest(ring) \in Nat
            /\ ring.starts[head] <= ring.total
        BY <1>1, <2>3, <3>7, EarliestLooks DEF AtBoundary, RingOK
      <4>1. CASE offset = ring.total
        BY <1>1, <3>1, <3>5, <3>6, <4>0, <4>1 DEF AtBoundary, Unread
      <4>2. CASE offset <= Earliest(ring)
        <5>1. AtBoundary(t, offset)
          BY <1>1, <3>1, <3>5, <3>6, <4>0, <4>2 DEF AtBoundary
        <5>2. ~(cap >= ring.total - offset)
          BY <1>1, <2>5, <4>0, <4>2
        <5> QED
          BY <5>1, <5>2
      <4>3. ASSUME NEW k \in 1 .. last, ring.starts[k] = offset
            PROVE  /\ AtBoundary(t, offset)
                   /\ cap >= ring.total - offset =>
                         Unread(t, offset) = Unread(ring, offset)
        <5>1. CASE head <= k
          <6>1. k - head + 1 \in 1 .. Len(t.starts)
            BY <1>1, <2>3, <3>2, <4>3, <5>1
          <6>2. t.starts[k - head + 1] = ring.starts[k]
            <7>1. head + (k - head + 1) - 1 = k
              BY <2>3, <4>3
            <7> QED
              BY <3>2, <6>1, <7>1
          <6>3. AtBoundary(t, offset)
            BY <3>1, <4>0, <4>3, <6>1, <6>2 DEF AtBoundary
          <6>4. ring.starts[head] <= offset /\ Earliest(ring) <= offset
            BY <2>3, <2>4, <4>3, <5>1, <1>1 DEF RingOK
          <6> QED
            <7>1. Unread(t, offset) = ring.total - offset
              BY <3>1, <3>5, <4>0, <6>4 DEF Unread
            <7>2. Unread(ring, offset) = ring.total - offset
              BY <4>0, <6>4 DEF Unread
            <7> QED
              BY <6>3, <7>1, <7>2
        <5>2. CASE ~(head <= k)
          <6>1. k <= head /\ ring.starts[k] <= ring.starts[head]
            BY <1>1, <2>3, <4>3, <5>2 DEF RingOK
          <6>2. AtBoundary(t, offset)
            BY <3>1, <3>5, <4>0, <4>3, <6>1 DEF AtBoundary
          <6>3. ~(cap >= ring.total - offset)
            BY <1>1, <2>3, <4>3, <5>2
          <6> QED
            BY <6>2, <6>3
        <5> QED
          BY <5>1, <5>2
      <4> QED
        BY <3>7, <4>1, <4>2, <4>3 DEF AtBoundary
    <3> QED
      BY <3>1, <3>4, <3>7 DEF t
  <2>7. CASE /\ ring.total - ring.starts[head] > cap
             /\ head = last
             /\ t = [ring EXCEPT !.starts = <<ring.total - cap>>]
    <3> DEFINE cut == ring.total - cap
    <3>1. cut \in Nat /\ cut <= ring.total /\ ring.starts[head] < cut
      BY <1>1, <2>3, <2>7
    <3> HIDE DEF cut
    <3>0. <<cut>> \in Seq(Nat)
      BY <3>1
    <3>2. t.total = ring.total /\ t.starts = <<cut>>
          /\ t \in [starts : Seq(Nat), total : Nat]
      <4>1. t = [ring EXCEPT !.starts = <<cut>>]
        BY <2>7 DEF cut
      <4> QED
        BY <1>1, <3>0, <4>1
    <3>3. Len(t.starts) = 1 /\ t.starts[1] = cut /\ t.starts # << >>
      BY <3>2
    <3>4. RingOK(t)
      BY <3>1, <3>2, <3>3 DEF RingOK
    <3>5. Earliest(t) = cut
      BY <3>3, <3>4, EarliestLooks
    <3>6. ASSUME NEW offset \in Nat, AtBoundary(ring, offset)
          PROVE  /\ AtBoundary(t, offset)
                 /\ cap >= ring.total - offset => Unread(t, offset) = Unread(ring, offset)
      <4>1. offset = ring.total \/ offset < cut
        <5>1. CASE offset <= Earliest(ring)
          BY <1>1, <2>5, <5>1, EarliestLooks DEF cut
        <5>2. ASSUME NEW k \in 1 .. last, ring.starts[k] = offset
              PROVE  offset < cut
          <6>1. ring.starts[k] <= ring.starts[head]
            BY <2>3, <2>7, <5>2, <1>1 DEF RingOK
          <6> QED
            BY <1>1, <2>3, <3>1, <5>2, <6>1
        <5> QED
          BY <3>6, <5>1, <5>2 DEF AtBoundary
      <4>2. AtBoundary(t, offset)
        BY <3>1, <3>2, <3>5, <4>1, <1>1 DEF AtBoundary
      <4>3. CASE offset = ring.total
        <5>1. Unread(t, offset) = 0
          BY <1>1, <3>1, <3>2, <3>5, <4>3 DEF Unread
        <5>2. Unread(ring, offset) = 0
          BY <1>1, <4>3, EarliestLooks DEF Unread
        <5> QED
          BY <4>2, <5>1, <5>2
      <4>4. CASE offset < cut
        <5>1. ~(cap >= ring.total - offset)
          BY <1>1, <3>1, <4>4 DEF cut
        <5> QED
          BY <4>2, <5>1
      <4> QED
        BY <4>1, <4>3, <4>4
    <3> QED
      BY <3>2, <3>4, <3>6 DEF t
  <2> QED
    BY <2>2, <2>6, <2>7
<1> QED
  BY <1>2, <1>3

\* An append grows the total and keeps every boundary one.
LEMMA RingAppendKeeps ==
    ASSUME NEW ring, RingOK(ring), NEW bytes \in Nat, NEW cap \in Nat
    PROVE  /\ RingOK(RingAppend(ring, bytes, cap))
           /\ RingAppend(ring, bytes, cap).total = ring.total + bytes
           /\ \A offset \in Nat : AtBoundary(ring, offset) =>
                 AtBoundary(RingAppend(ring, bytes, cap), offset)
<1>1. ring \in [starts : Seq(Nat), total : Nat] /\ ring.starts \in Seq(Nat)
      /\ ring.total \in Nat /\ Len(ring.starts) \in Nat
      /\ \A i \in 1 .. Len(ring.starts) : ring.starts[i] \in Nat
  BY DEF RingOK
<1>2. CASE bytes = 0
  <2>1. RingAppend(ring, bytes, cap) = ring
    BY <1>2 DEF RingAppend
  <2> QED
    BY <1>1, <1>2, <2>1
<1>3. CASE bytes # 0
  <2> DEFINE last == Len(ring.starts)
             starts == Append(ring.starts, ring.total)
             grown == [starts |-> starts, total |-> ring.total + bytes]
  <2>1. /\ starts \in Seq(Nat) /\ Len(starts) = last + 1 /\ starts[last + 1] = ring.total
        /\ \A i \in 1 .. last : starts[i] = ring.starts[i]
    BY <1>1
  <2> HIDE DEF starts
  <2>2. grown \in [starts : Seq(Nat), total : Nat]
        /\ grown.starts = starts /\ grown.total = ring.total + bytes
    BY <1>1, <2>1
  <2> HIDE DEF grown
  <2>3. ASSUME NEW i \in 1 .. last + 1
        PROVE  starts[i] \in Nat /\ starts[i] <= ring.total
    <3>1. CASE i = last + 1
      BY <1>1, <2>1, <3>1
    <3>2. CASE i \in 1 .. last
      BY <1>1, <2>1, <3>2 DEF RingOK
    <3> QED
      BY <1>1, <3>1, <3>2
  <2>4. ASSUME NEW i \in 1 .. last + 1, NEW k \in 1 .. last + 1, i <= k
        PROVE  starts[i] <= starts[k]
    <3>1. CASE k = last + 1
      BY <2>1, <2>3, <3>1
    <3>2. CASE k \in 1 .. last
      <4>1. i \in 1 .. last
        BY <1>1, <2>4, <3>2
      <4>2. ring.starts[i] <= ring.starts[k]
        BY <2>4, <3>2, <4>1 DEF RingOK
      <4> QED
        BY <2>1, <3>2, <4>1, <4>2
    <3> QED
      BY <1>1, <3>1, <3>2
  <2>5. \A i \in 1 .. last + 1 : starts[i] <= ring.total + bytes
    BY <1>1, <2>3
  <2>6. RingOK(grown)
    BY <2>1, <2>2, <2>4, <2>5 DEF RingOK
  <2>7. Earliest(grown) = Earliest(ring)
    <3>1. Earliest(grown) = starts[1]
      BY <1>1, <2>1, <2>2, <2>6, EarliestLooks
    <3>2. CASE ring.starts = << >>
      BY <2>1, <3>1, <3>2, EarliestLooks
    <3>3. CASE ring.starts # << >>
      BY <1>1, <2>1, <3>1, <3>3, EarliestLooks
    <3> QED
      BY <3>2, <3>3
  <2>8. ASSUME NEW offset \in Nat, AtBoundary(ring, offset)
        PROVE  AtBoundary(grown, offset)
    <3>1. offset <= ring.total + bytes /\ Len(grown.starts) = last + 1
      BY <1>1, <2>1, <2>2, <2>8 DEF AtBoundary
    <3>2. CASE offset = ring.total
      <4>1. last + 1 \in 1 .. last + 1 /\ starts[last + 1] = offset
        BY <1>1, <2>1, <3>2
      <4> QED
        BY <2>2, <3>1, <4>1 DEF AtBoundary
    <3>3. CASE offset <= Earliest(ring)
      BY <2>2, <2>7, <3>1, <3>3 DEF AtBoundary
    <3>4. ASSUME NEW k \in 1 .. last, ring.starts[k] = offset
          PROVE  AtBoundary(grown, offset)
      <4>1. k \in 1 .. last + 1 /\ starts[k] = offset
        BY <1>1, <2>1, <3>4
      <4> QED
        BY <2>2, <3>1, <4>1 DEF AtBoundary
    <3> QED
      BY <2>8, <3>2, <3>3, <3>4 DEF AtBoundary
  <2>9. RingAppend(ring, bytes, cap) = Trim(grown, cap)
    BY <1>3 DEF RingAppend, grown, starts
  <2> QED
    BY <2>2, <2>6, <2>8, <2>9, TrimKeeps
<1> QED
  BY <1>2, <1>3

-----------------------------------------------------------------------------
(* Records.                                                                *)

\* A job as the registry keeps it: the model's reads stop at a boundary, the
\* last drain emptied the source, and only a teardown settles before it.
RecordOK(r) ==
    /\ r \in Record
    /\ RingOK(r.ring)
    /\ AtBoundary(r.ring, r.cursor)
    /\ r.status = "absent" => r.ring = EmptyRing /\ r.done = "no"
    /\ r.done = "settle" => r.source = 0
    /\ r.status \in Terminal => r.done = "settle" \/ r.cause = "teardown"

\* What one step may make of a record: the ring never shrinks its total, a
\* settled job keeps its outcome and takes nothing more, and nothing the model
\* has not read goes at or behind its settlement.
Becomes(r, q) ==
    /\ RecordOK(q)
    /\ q.ring.total >= r.ring.total
    /\ r.status \in Terminal =>
          /\ q.status = r.status /\ q.cause = r.cause
          /\ q.ring.total = r.ring.total
    /\ q.status \in Terminal /\ q.cursor = r.cursor =>
          Unread(q.ring, q.cursor) = Unread(r.ring, r.cursor)

\* The types of a record's fields.
LEMMA RecordFields ==
    ASSUME NEW r, RecordOK(r)
    PROVE  /\ r.ring.total \in Nat /\ r.cursor \in Nat /\ r.source \in Nat
           /\ r.cursor <= r.ring.total /\ Earliest(r.ring) \in Nat
           /\ Earliest(r.ring) <= r.ring.total
  BY EarliestLooks DEF RecordOK, RingOK, AtBoundary, Record

\* A record that keeps its ring, cursor, outcome and source moves nothing.
LEMMA Stays ==
    ASSUME NEW r, RecordOK(r), NEW q \in Record,
           q.ring = r.ring, q.cursor = r.cursor,
           \/ q.status = r.status /\ q.cause = r.cause
           \/ r.status \in Live /\ q.status \in Live,
           q.done = "settle" => r.done = "settle" /\ q.source = r.source,
           r.done = "settle" => q.done = "settle",
           q.status = "absent" => q.done = r.done
    PROVE  Becomes(r, q)
<1>1. RecordOK(q)
  BY DEF RecordOK, Live, Terminal
<1>2. q.ring.total >= r.ring.total
  BY RecordFields
<1> QED
  BY <1>1, <1>2 DEF Becomes, Live, Terminal

\* Settlement: the cap covers what is unread. (settle)
LEMMA SettledBecomes ==
    ASSUME NEW r, RecordOK(r), r.status \in Live,
           NEW status \in Terminal, NEW cause \in Cause,
           r.done = "settle" \/ cause = "teardown"
    PROVE  Becomes(r, Settled(r, status, cause))
<1> DEFINE unread == r.ring.total - r.cursor
           cap == IF unread > SettledRetainBytes THEN unread ELSE SettledRetainBytes
           q == Settled(r, status, cause)
<1>1. cap \in Nat /\ cap >= r.ring.total - r.cursor
  BY RecordFields, JobConstants
<1>2. r.status \notin Terminal
  BY DEF Live, Terminal
<1>3. r \in Record /\ RingOK(r.ring) /\ AtBoundary(r.ring, r.cursor) /\ r.cursor \in Nat
  BY RecordFields DEF RecordOK
<1> DEFINE ring == Trim(r.ring, cap)
<1>4. q = [r EXCEPT !.status = status, !.cause = cause, !.progress = FALSE, !.ring = ring]
  BY <1>2 DEF Settled
<1> HIDE DEF cap
<1>5. /\ RingOK(ring) /\ ring.total = r.ring.total /\ AtBoundary(ring, r.cursor)
      /\ Unread(ring, r.cursor) = Unread(r.ring, r.cursor)
  BY <1>1, <1>3, TrimKeeps
<1> HIDE DEF ring, q
<1>6. q \in Record /\ q.status = status /\ q.cause = cause /\ q.ring = ring
      /\ q.cursor = r.cursor /\ q.done = r.done /\ q.source = r.source
  BY <1>3, <1>4, <1>5 DEF Record, RingOK
<1>7. RecordOK(q)
  BY <1>5, <1>6 DEF RecordOK, Terminal
<1> QED
  BY <1>2, <1>5, <1>6, <1>7, RecordFields DEF Becomes, q

\* A read takes everything; a settled ring then drops to its cap. (read)
LEMMA ConsumedBecomes ==
    ASSUME NEW r, RecordOK(r)
    PROVE  Becomes(r, Consumed(r))
<1> DEFINE q == Consumed(r)
           ring == IF r.status \in Terminal THEN Trim(r.ring, SettledRetainBytes)
                   ELSE r.ring
<1>1. r \in Record /\ RingOK(r.ring) /\ r.ring.total \in Nat
  BY RecordFields DEF RecordOK
<1>2. AtBoundary(r.ring, r.ring.total)
  BY <1>1 DEF AtBoundary
<1>3. SettledRetainBytes \in Nat
  BY JobConstants
<1>4. /\ RingOK(ring) /\ ring.total = r.ring.total /\ AtBoundary(ring, r.ring.total)
  BY <1>1, <1>2, <1>3, TrimKeeps
<1>5. q = [r EXCEPT !.cursor = r.ring.total, !.ring = ring]
  BY <1>1 DEF Consumed, Record
<1>6. r.status = "absent" => ring = r.ring
  BY DEF Terminal
<1> HIDE DEF ring, q
<1>7. /\ q \in Record /\ q.status = r.status /\ q.cause = r.cause /\ q.ring = ring
      /\ q.cursor = r.ring.total /\ q.done = r.done /\ q.source = r.source
  BY <1>1, <1>4, <1>5 DEF Record, RingOK
<1>8. RecordOK(q)
  BY <1>4, <1>6, <1>7 DEF RecordOK
<1>9. q.cursor = r.cursor => Unread(q.ring, q.cursor) = Unread(r.ring, r.cursor)
  <2>1. Unread(q.ring, q.cursor) = 0
    BY <1>4, <1>7, <1>1, EarliestLooks DEF Unread
  <2>2. Earliest(r.ring) \in Nat /\ Earliest(r.ring) <= r.ring.total
    BY <1>1, EarliestLooks
  <2>3. Unread(r.ring, r.ring.total) = 0
    BY <1>1, <2>2 DEF Unread
  <2>4. q.cursor = r.cursor => Unread(r.ring, r.cursor) = 0
    BY <1>7, <2>3
  <2> QED
    BY <2>1, <2>4
<1> QED
  BY <1>1, <1>4, <1>7, <1>8, <1>9 DEF Becomes, q

\* A live job takes bytes, a settled one drops them. (appendRing)
LEMMA AppendedBecomes ==
    ASSUME NEW r, RecordOK(r), r.status # "absent", NEW bytes \in Nat
    PROVE  LET q == Appended(r, bytes)
           IN  /\ Becomes(r, q) /\ q.done = r.done /\ q.source = r.source
               /\ q.status = r.status /\ q.cause = r.cause /\ q.cursor = r.cursor
<1>1. CASE r.status \in Terminal
  <2>1. Appended(r, bytes) = r
    BY <1>1 DEF Appended
  <2> QED
    BY <2>1, RecordFields DEF Becomes, RecordOK
<1>2. CASE r.status \notin Terminal
  <2> DEFINE q == Appended(r, bytes)
             ring == RingAppend(r.ring, bytes, RetainBytes)
  <2>1. r \in Record /\ RingOK(r.ring) /\ AtBoundary(r.ring, r.cursor) /\ r.cursor \in Nat
        /\ r.ring.total \in Nat
    BY RecordFields DEF RecordOK
  <2>2. /\ RingOK(ring) /\ ring.total = r.ring.total + bytes /\ AtBoundary(ring, r.cursor)
    BY <2>1, JobConstants, RingAppendKeeps
  <2>3. q = [r EXCEPT !.ring = ring]
    BY <1>2 DEF Appended
  <2> HIDE DEF ring, q
  <2>4. /\ q \in Record /\ q.status = r.status /\ q.cause = r.cause /\ q.ring = ring
        /\ q.cursor = r.cursor /\ q.done = r.done /\ q.source = r.source
    BY <2>1, <2>2, <2>3 DEF Record, RingOK
  <2>5. RecordOK(q)
    BY <1>2, <2>2, <2>4 DEF RecordOK
  <2>6. q.ring.total >= r.ring.total
    BY <2>1, <2>2, <2>4
  <2> QED
    BY <1>2, <2>4, <2>5, <2>6 DEF Becomes, q
<1> QED
  BY <1>1, <1>2

\* The pump's copy of the source; its last one ends the output. (drain)
LEMMA PumpedBecomes ==
    ASSUME NEW r, RecordOK(r), r.status # "absent"
    PROVE  /\ r.done # "settle" => Becomes(r, Pumped(r))
           /\ Becomes(r, [Pumped(r) EXCEPT !.done = "settle"])
<1> DEFINE a == Appended(r, r.source)
<1>1. /\ Becomes(r, a) /\ a.done = r.done /\ a.source = r.source
      /\ a.status = r.status /\ a.cause = r.cause /\ a.cursor = r.cursor
  BY RecordFields, AppendedBecomes
<1> HIDE DEF a
<1>2. RecordOK(a) /\ a \in Record
  BY <1>1 DEF Becomes, RecordOK
<1> DEFINE p == Pumped(r)
<1>3. p = [a EXCEPT !.source = 0]
  BY DEF Pumped, a
<1> HIDE DEF p
<1>4. /\ p \in Record /\ p.status = a.status /\ p.cause = a.cause /\ p.ring = a.ring
      /\ p.cursor = a.cursor /\ p.done = a.done /\ p.source = 0
  BY <1>2, <1>3 DEF Record
<1> DEFINE q == [p EXCEPT !.done = "settle"]
<1>5. /\ q \in Record /\ q.status = a.status /\ q.cause = a.cause /\ q.ring = a.ring
      /\ q.cursor = a.cursor /\ q.done = "settle" /\ q.source = 0
  BY <1>4 DEF Record
<1> HIDE DEF q
<1>6. RecordOK(p)
  BY <1>2, <1>4 DEF RecordOK
<1>7. RecordOK(q)
  BY <1>1, <1>2, <1>5 DEF RecordOK
<1>8. Becomes(r, p)
  BY <1>1, <1>4, <1>6 DEF Becomes
<1>9. Becomes(r, q)
  BY <1>1, <1>5, <1>7 DEF Becomes
<1> QED
  BY <1>8, <1>9 DEF p, q

\* What a teardown's cancellation does to a live job. (cancelForTeardown)
LEMMA TornDownBecomes ==
    ASSUME NEW r, RecordOK(r), r.status \in Live, NEW throws \in BOOLEAN
    PROVE  Becomes(r, TornDown(r, throws))
<1>1. r \in Record /\ "teardown" \in Cause /\ "failed" \in Terminal /\ "stopping" \in Live
  BY DEF RecordOK, Cause, Terminal, Live
<1> DEFINE t == [r EXCEPT !.cause = "teardown"]
<1>2. /\ t \in Record /\ t.status = r.status /\ t.ring = r.ring /\ t.cursor = r.cursor
      /\ t.done = r.done /\ t.source = r.source /\ t.cause = "teardown"
  BY <1>1 DEF Record
<1>3. Becomes(r, t)
  BY <1>2, Stays
<1>4. CASE throws
  <2> HIDE DEF t
  <2>1. Becomes(t, Settled(t, "failed", "teardown"))
    BY <1>1, <1>2, <1>3, SettledBecomes DEF Becomes
  <2>2. TornDown(r, throws) = Settled(t, "failed", "teardown")
    BY <1>4 DEF TornDown, t
  <2>3. r.status \notin Terminal
    BY DEF Live, Terminal
  <2> QED
    BY <1>2, <2>1, <2>2, <2>3 DEF Becomes
<1>5. CASE ~throws
  <2> DEFINE q == [r EXCEPT !.cause = "teardown", !.cancelled = TRUE, !.status = "stopping"]
  <2>1. /\ q \in Record /\ q.status = "stopping" /\ q.ring = r.ring /\ q.cursor = r.cursor
        /\ q.done = r.done /\ q.source = r.source
    BY <1>1 DEF Record
  <2> HIDE DEF q
  <2>2. Becomes(r, q)
    BY <1>1, <2>1, Stays
  <2> QED
    BY <1>5, <2>2 DEF TornDown, q
<1> QED
  BY <1>4, <1>5

-----------------------------------------------------------------------------
(* The registry's steps.                                                   *)

Records == job \in [Job -> Record] /\ \A j \in Job : RecordOK(job[j])

Moves == job' \in [Job -> Record] /\ \A j \in Job : Becomes(job[j], job'[j])

LEMMA RecordStays ==
    ASSUME NEW r, RecordOK(r)
    PROVE  Becomes(r, r)
  BY RecordFields DEF Becomes, RecordOK

LEMMA NothingMoves ==
    ASSUME Records, UNCHANGED job
    PROVE  Moves
  BY RecordStays DEF Records, Moves

LEMMA OneMoves ==
    ASSUME Records, NEW j \in Job, NEW q, Becomes(job[j], q),
           job' = [job EXCEPT ![j] = q]
    PROVE  Moves
<1>1. q \in Record
  BY DEF Becomes, RecordOK
<1>2. job' \in [Job -> Record]
  BY <1>1 DEF Records
<1>3. ASSUME NEW i \in Job
      PROVE  Becomes(job[i], job'[i])
  <2>1. CASE i = j
    BY <2>1 DEF Records
  <2>2. CASE i # j
    BY <2>2, RecordStays DEF Records
  <2> QED
    BY <2>1, <2>2
<1> QED
  BY <1>2, <1>3 DEF Moves

LEMMA DropMoves ==
    ASSUME Records, NEW jobs, Drop(jobs)
    PROVE  Moves
<1>1. ASSUME NEW i \in Job
      PROVE  job'[i] \in Record /\ Becomes(job[i], job'[i])
  <2>1. RecordOK(job[i]) /\ job[i] \in Record
    BY DEF Records, RecordOK
  <2>2. CASE i \in jobs
    <3> DEFINE q == [job[i] EXCEPT !.stored = FALSE]
    <3>1. /\ q \in Record /\ q.status = job[i].status /\ q.cause = job[i].cause
          /\ q.ring = job[i].ring /\ q.cursor = job[i].cursor /\ q.done = job[i].done
          /\ q.source = job[i].source
      BY <2>1 DEF Record
    <3> HIDE DEF q
    <3>2. Becomes(job[i], q)
      BY <2>1, <3>1, Stays
    <3>3. job'[i] = q
      BY <2>2 DEF Drop, q
    <3> QED
      BY <3>1, <3>2, <3>3
  <2>3. CASE i \notin jobs
    <3>1. job'[i] = job[i]
      BY <2>3 DEF Drop
    <3> QED
      BY <2>1, <3>1, RecordStays
  <2> QED
    BY <2>2, <2>3
<1>2. job' = [i \in Job |-> job'[i]]
  BY DEF Drop
<1> QED
  BY <1>1, <1>2 DEF Moves

LEMMA TeardownMoves ==
    ASSUME Records, NEW jobs \in SUBSET Job, CancelForTeardown(jobs)
    PROVE  Moves
<1> DEFINE live == {j \in jobs : IsLive(j)}
<1>1. PICK forced \in SUBSET (live \cap CancelThrows) :
         job' = [j \in Job |-> IF j \in live THEN TornDown(job[j], j \in forced) ELSE job[j]]
  BY DEF CancelForTeardown
<1>2. ASSUME NEW i \in Job
      PROVE  job'[i] \in Record /\ Becomes(job[i], job'[i])
  <2>1. RecordOK(job[i]) /\ job[i] \in Record
    BY DEF Records, RecordOK
  <2>2. CASE i \in live
    <3>1. job'[i] = TornDown(job[i], i \in forced)
      BY <1>1, <2>2
    <3>2. job[i].status \in Live
      BY <2>2 DEF IsLive
    <3>3. (i \in forced) \in BOOLEAN
      OBVIOUS
    <3>4. Becomes(job[i], TornDown(job[i], i \in forced))
      BY <2>1, <3>2, <3>3, TornDownBecomes
    <3> QED
      BY <3>1, <3>4 DEF Becomes, RecordOK
  <2>3. CASE i \notin live
    <3>1. job'[i] = job[i]
      BY <1>1, <2>3
    <3> QED
      BY <2>1, <3>1, RecordStays
  <2> QED
    BY <2>2, <2>3
<1>3. job' = [i \in Job |-> job'[i]]
  BY <1>1
<1> QED
  BY <1>2, <1>3 DEF Moves

\* What the producer and the pump do.
LEMMA ProducerMoves ==
    ASSUME Records, NEW j \in Job, ProducerStep(j)
    PROVE  Moves
<1> DEFINE r == job[j]
<1>1. RecordOK(r) /\ r \in Record
  BY DEF Records, RecordOK
<1>2. CASE Write(j)
  <2>1. PICK n \in ChunkSizes :
           \/ job' = [job EXCEPT ![j].source = @ + n]
           \/ job' = [job EXCEPT ![j] = Appended(@, n)]
    BY <1>2 DEF Write
  <2>2. n \in Nat /\ r.source + n \in Nat /\ r.status # "absent" /\ r.done = "no"
    BY <1>1, <1>2, JobConstants DEF Write, Record
  <2>3. CASE job' = [job EXCEPT ![j].source = @ + n]
    <3> DEFINE q == [r EXCEPT !.source = @ + n]
    <3>1. /\ q \in Record /\ q.status = r.status /\ q.cause = r.cause
          /\ q.ring = r.ring /\ q.cursor = r.cursor /\ q.done = r.done
      BY <1>1, <2>2 DEF Record
    <3>2. job' = [job EXCEPT ![j] = q]
      BY <2>3
    <3> HIDE DEF q
    <3>3. Becomes(r, q)
      BY <1>1, <2>2, <3>1, Stays
    <3> QED
      BY <3>2, <3>3, OneMoves
  <2>4. CASE job' = [job EXCEPT ![j] = Appended(@, n)]
    <3>1. Becomes(r, Appended(r, n))
      BY <1>1, <2>2, AppendedBecomes
    <3>2. job' = [job EXCEPT ![j] = Appended(r, n)]
      BY <2>4
    <3> QED
      BY <3>1, <3>2, OneMoves
  <2> QED
    BY <2>1, <2>3, <2>4
<1>3. CASE Progress(j)
  <2> DEFINE q == [r EXCEPT !.progress = TRUE]
  <2>1. /\ q \in Record /\ q.status = r.status /\ q.cause = r.cause /\ q.source = r.source
        /\ q.ring = r.ring /\ q.cursor = r.cursor /\ q.done = r.done
    BY <1>1 DEF Record
  <2>2. job' = [job EXCEPT ![j] = q]
    BY <1>3 DEF Progress
  <2> HIDE DEF q
  <2>3. Becomes(r, q)
    BY <1>1, <2>1, Stays
  <2> QED
    BY <2>2, <2>3, OneMoves
<1>4. CASE Poll(j)
  <2>1. r.status # "absent" /\ r.done # "settle"
    BY <1>4 DEF Poll, IsLive, Live
  <2>2. Becomes(r, Pumped(r))
    BY <1>1, <2>1, PumpedBecomes
  <2>3. job' = [job EXCEPT ![j] = Pumped(r)]
    BY <1>4 DEF Poll
  <2> QED
    BY <2>2, <2>3, OneMoves
<1>5. CASE ProducerDone(j)
  <2> DEFINE q == [r EXCEPT !.done = "drain"]
  <2>1. /\ q \in Record /\ q.status = r.status /\ q.cause = r.cause /\ q.source = r.source
        /\ q.ring = r.ring /\ q.cursor = r.cursor /\ q.done = "drain"
    BY <1>1 DEF Record
  <2>2. job' = [job EXCEPT ![j] = q] /\ r.done = "no" /\ r.status # "absent"
    BY <1>5 DEF ProducerDone
  <2> HIDE DEF q
  <2>3. Becomes(r, q)
    BY <1>1, <2>1, <2>2, Stays
  <2> QED
    BY <2>2, <2>3, OneMoves
<1>6. CASE FinalDrain(j)
  <2>1. r.status # "absent"
    BY <1>1, <1>6 DEF FinalDrain, RecordOK
  <2>2. Becomes(r, [Pumped(r) EXCEPT !.done = "settle"])
    BY <1>1, <2>1, PumpedBecomes
  <2>3. job' = [job EXCEPT ![j] = [Pumped(r) EXCEPT !.done = "settle"]]
    BY <1>6 DEF FinalDrain
  <2> QED
    BY <2>2, <2>3, OneMoves
<1>7. CASE Settle(j)
  <2> DEFINE cause == IF r.cause = "none" THEN "producer" ELSE r.cause
  <2>1. PICK status \in Terminal :
           job' = [job EXCEPT ![j] = Settled(@, status, IF @.cause = "none" THEN "producer"
                                                        ELSE @.cause)]
    BY <1>7 DEF Settle
  <2>2. r.status \in Live /\ r.done = "settle" /\ cause \in Cause
    BY <1>1, <1>7 DEF Settle, IsLive, Record, Cause
  <2>3. job' = [job EXCEPT ![j] = Settled(r, status, cause)]
    BY <2>1
  <2> HIDE DEF cause
  <2>4. Becomes(r, Settled(r, status, cause))
    BY <1>1, <2>2, SettledBecomes
  <2> QED
    BY <2>3, <2>4, OneMoves
<1> QED
  BY <1>2, <1>3, <1>4, <1>5, <1>6, <1>7 DEF ProducerStep

\* Every step of the registry that a stream can see.
LEMMA RegistryMoves ==
    ASSUME Records, RegistryStep
    PROVE  Moves
<1>1. ASSUME NEW j \in Job, Read(j)
      PROVE  Moves
  <2>1. Becomes(job[j], Consumed(job[j]))
    BY ConsumedBecomes DEF Records
  <2>2. job' = [job EXCEPT ![j] = Consumed(job[j])]
    BY <1>1 DEF Read
  <2> QED
    BY <2>1, <2>2, OneMoves
<1>2. ASSUME NEW j \in Job, Kill(j)
      PROVE  Moves
  <2> DEFINE r == job[j]
             q == Killed(r)
  <2>1. RecordOK(r) /\ r \in Record /\ r.status \in Live
    BY <1>2 DEF Records, RecordOK, Kill, IsLive
  <2>2. /\ q \in Record /\ q.status = "stopping" /\ q.source = r.source
        /\ q.ring = r.ring /\ q.cursor = r.cursor /\ q.done = r.done
    BY <2>1 DEF Record, Killed, Live, Cause
  <2>3. job' = [job EXCEPT ![j] = q]
    BY <1>2 DEF Kill
  <2> HIDE DEF q
  <2>4. Becomes(r, q)
    BY <2>1, <2>2, Stays DEF Live
  <2> QED
    BY <2>3, <2>4, OneMoves
<1>3. ASSUME NEW j \in Job, Remove(j)
      PROVE  Moves
  BY <1>3, DropMoves DEF Remove
<1>4. ASSUME NEW j \in Job, NEW o \in Owner \cup {NoOwner}, Start(j, o)
      PROVE  Moves
  <2> DEFINE r == job[j]
             q == [Absent EXCEPT !.status = "running", !.stored = TRUE, !.owner = o]
  <2>1. RecordOK(r) /\ r.status = "absent" /\ job' = [job EXCEPT ![j] = q]
    BY <1>4 DEF Records, Start
  <2>2. Absent \in Record
    BY EmptyRingOK DEF Absent, Record, RingOK, Live, Terminal, Cause
  <2>3. /\ q \in Record /\ q.status = "running" /\ q.source = 0
        /\ q.ring = EmptyRing /\ q.cursor = 0 /\ q.done = "no"
    BY <2>2 DEF Record, Live, Absent
  <2> HIDE DEF q
  <2>4. RecordOK(q)
    BY <2>3, EmptyRingOK DEF RecordOK, Terminal
  <2>5. r.ring = EmptyRing /\ r.ring.total <= q.ring.total
    BY <2>1, <2>3, EmptyRingOK DEF RecordOK
  <2>6. Becomes(r, q)
    BY <2>1, <2>3, <2>4, <2>5 DEF Becomes, Terminal
  <2> QED
    BY <2>1, <2>6, OneMoves
<1>5. ASSUME NEW o \in Owner, OwnerCleanup(o)
      PROVE  Moves
  <2>1. Stored(o) \in SUBSET Job
    BY DEF Stored
  <2> QED
    BY <1>5, <2>1, TeardownMoves, NothingMoves DEF OwnerCleanup
<1>6. ASSUME NEW o \in Owner, OwnerDropped(o)
      PROVE  Moves
  BY <1>6, DropMoves DEF OwnerDropped
<1>7. ASSUME NEW o \in Owner, UnloadOwner(o)
      PROVE  Moves
  BY <1>7, NothingMoves DEF UnloadOwner
<1> QED
  BY <1>1, <1>2, <1>3, <1>4, <1>5, <1>6, <1>7, ProducerMoves DEF RegistryStep

-----------------------------------------------------------------------------
(* The streams.                                                            *)

Stream == [pc : FollowOpen \cup FollowOver, job : Job \cup {NoJob}, cursor : Nat,
           next : Nat, dirty : BOOLEAN, removed : BOOLEAN]

\* A frame with the consumer ends where the ring ended when it was read; a
\* stream that ended of itself read a settled job to its end.
StreamOK(s, records) ==
    /\ s \in Stream
    /\ s.pc \in FollowOpen \cup {"ended"} => s.job \in Job
    /\ s.pc = "frames" => s.next <= records[s.job].ring.total
    /\ s.pc = "ended" /\ ~s.removed =>
          records[s.job].status \in Terminal /\ s.cursor = records[s.job].ring.total

Streams == follow \in [Follower -> Stream] /\ \A f \in Follower : StreamOK(follow[f], job)

IInv == Records /\ Streams

\* What a wake leaves alone.
LEMMA WokenLooks ==
    ASSUME NEW s \in Stream, s.pc \in FollowOpen, NEW removed \in BOOLEAN
    PROVE  LET t == Woken([s EXCEPT !.removed = removed])
           IN  /\ t \in Stream /\ t.pc \in FollowOpen
               /\ t.pc = "frames" => s.pc = "frames"
               /\ t.job = s.job /\ t.next = s.next
  BY DEF Stream, FollowOpen, Woken

\* And a wait.
LEMMA WaitingLooks ==
    ASSUME NEW s \in Stream
    PROVE  /\ Waiting(s) \in Stream /\ Waiting(s).pc \in {"sleeping", "waiting"}
           /\ Waiting(s).job = s.job
  BY DEF Stream, FollowOpen, Waiting

\* After a read to the end of the ring.
LEMMA DrainedOK ==
    ASSUME Records, NEW s \in Stream, s.job \in Job, s.cursor <= job[s.job].ring.total
    PROVE  StreamOK(Drained(s), job)
<1> DEFINE total == job[s.job].ring.total
<1>1. total \in Nat /\ s.cursor \in Nat
  BY RecordFields DEF Records, Stream
<1>2. CASE IsTerminal(s.job) /\ s.cursor >= total
  <2> DEFINE t == [s EXCEPT !.pc = "ended"]
  <2>1. Drained(s) = t
    BY <1>2 DEF Drained
  <2>2. t \in Stream /\ t.pc = "ended" /\ t.job = s.job /\ t.cursor = s.cursor
    BY DEF Stream, FollowOver
  <2>3. s.cursor = total
    BY <1>1, <1>2
  <2> HIDE DEF t
  <2> QED
    BY <1>2, <2>1, <2>2, <2>3 DEF StreamOK, IsTerminal
<1>3. CASE ~(IsTerminal(s.job) /\ s.cursor >= total)
  <2>1. Drained(s) = Waiting(s)
    BY <1>3 DEF Drained
  <2> QED
    BY <2>1, WaitingLooks DEF StreamOK
<1> QED
  BY <1>2, <1>3

\* A stream keeps what it knows while the registry moves.
LEMMA StreamStays ==
    ASSUME Records, Moves, NEW s, StreamOK(s, job)
    PROVE  StreamOK(s, job')
<1>1. CASE s.pc = "frames"
  <2>1. s.job \in Job /\ s.next \in Nat /\ s.next <= job[s.job].ring.total
    BY <1>1 DEF StreamOK, FollowOpen, Stream
  <2>2. job[s.job].ring.total <= job'[s.job].ring.total
        /\ job[s.job].ring.total \in Nat /\ job'[s.job].ring.total \in Nat
    BY <2>1, RecordFields DEF Records, Moves, Becomes
  <2> QED
    BY <1>1, <2>1, <2>2 DEF StreamOK
<1>2. CASE s.pc = "ended" /\ ~s.removed
  <2>1. s.job \in Job /\ job[s.job].status \in Terminal /\ s.cursor = job[s.job].ring.total
    BY <1>2 DEF StreamOK
  <2>2. job'[s.job].status \in Terminal /\ job'[s.job].ring.total = job[s.job].ring.total
    BY <2>1 DEF Moves, Becomes
  <2> QED
    BY <1>2, <2>1, <2>2 DEF StreamOK
<1>3. CASE s.pc # "frames" /\ ~(s.pc = "ended" /\ ~s.removed)
  BY <1>3 DEF StreamOK
<1> QED
  BY <1>1, <1>2, <1>3

\* What a registry step's events do to the streams.
LEMMA NotifyKeeps ==
    ASSUME IInv, Moves, Notify
    PROVE  Streams'
<1>1. ASSUME NEW f \in Follower
      PROVE  StreamOK(follow'[f], job')
  <2> DEFINE s == follow[f]
  <2>1. StreamOK(s, job) /\ StreamOK(s, job')
    BY StreamStays DEF IInv, Streams
  <2>2. CASE follow'[f] = s
    BY <2>1, <2>2
  <2>3. ASSUME s.pc \in FollowOpen, NEW removed \in BOOLEAN,
               follow'[f] = Woken([s EXCEPT !.removed = removed])
        PROVE  StreamOK(follow'[f], job')
    <3> DEFINE t == Woken([s EXCEPT !.removed = removed])
    <3>1. /\ t \in Stream /\ t.pc \in FollowOpen
          /\ t.pc = "frames" => s.pc = "frames"
          /\ t.job = s.job /\ t.next = s.next
      BY <2>1, <2>3, WokenLooks DEF StreamOK
    <3> HIDE DEF t
    <3>2. StreamOK(t, job')
      BY <2>1, <2>3, <3>1 DEF StreamOK, FollowOpen
    <3> QED
      BY <2>3, <3>2 DEF t
  <2>4. s.pc \in FollowOpen => (s.removed \/ ~job'[s.job].stored) \in BOOLEAN
    BY <2>1 DEF StreamOK, Stream, Moves, Record
  <2>5. \/ follow'[f] = s
        \/ /\ s.pc \in FollowOpen
           /\ follow'[f] = Woken([s EXCEPT !.removed = @ \/ ~job'[s.job].stored])
    BY DEF Notify
  <2> QED
    BY <2>2, <2>3, <2>4, <2>5
<1>2. follow' = [f \in Follower |-> follow'[f]]
  BY DEF Notify
<1>3. follow' \in [Follower -> Stream]
  BY <1>1, <1>2 DEF StreamOK
<1> QED
  BY <1>1, <1>3 DEF Streams

\* A step of one follow stream.
LEMMA OneStream ==
    ASSUME IInv, NEW f \in Follower, NEW s, StreamOK(s, job), Follow(f, s)
    PROVE  Streams'
<1>1. job' = job /\ follow' = [follow EXCEPT ![f] = s]
  BY DEF Follow, regVars
<1>2. follow' \in [Follower -> Stream]
  BY <1>1 DEF IInv, Streams, StreamOK
<1>3. ASSUME NEW g \in Follower
      PROVE  StreamOK(follow'[g], job')
  <2>1. StreamOK(follow'[g], job)
    BY <1>1 DEF IInv, Streams
  <2> QED
    BY <1>1, <2>1 DEF StreamOK
<1> QED
  BY <1>2, <1>3 DEF Streams

LEMMA FollowKeeps ==
    ASSUME IInv, NEW f \in Follower,
           (\E j \in Job : OpenFollow(f, j)) \/ FollowLoop(f) \/ FramesTaken(f) \/ AbortFollow(f)
    PROVE  Streams'
<1> DEFINE s == follow[f]
           ring == job[s.job].ring
<1>1. StreamOK(s, job) /\ s \in Stream
  BY DEF IInv, Streams, StreamOK
<1>2. Closed \in Stream
  BY DEF Closed, Stream, FollowOver
<1>3. ASSUME NEW j \in Job, OpenFollow(f, j)
      PROVE  Streams'
  <2>1. PICK from \in {Earliest(job[j].ring)} \cup 0 .. job[j].ring.total :
           Follow(f, [Closed EXCEPT !.pc = "anchor", !.job = j, !.cursor = from])
    BY <1>3 DEF OpenFollow
  <2>2. from \in Nat
    BY RecordFields DEF IInv, Records
  <2> DEFINE t == [Closed EXCEPT !.pc = "anchor", !.job = j, !.cursor = from]
  <2>3. t \in Stream /\ t.pc = "anchor" /\ t.job = j
    BY <1>2, <2>2 DEF Stream, FollowOpen
  <2> HIDE DEF t
  <2>4. StreamOK(t, job)
    BY <2>3 DEF StreamOK
  <2> QED
    BY <2>1, <2>4, OneStream DEF t
<1>4. CASE FollowLoop(f)
  <2>1. s.pc \in FollowOpen /\ s.job \in Job
    BY <1>1, <1>4 DEF FollowLoop, FollowOpen, StreamOK
  <2>2. ring.total \in Nat
    BY <2>1, RecordFields DEF IInv, Records
  <2>3. CASE s.removed
    <3> DEFINE t == [s EXCEPT !.pc = "ended"]
    <3>1. t \in Stream /\ t.pc = "ended" /\ t.job \in Job /\ t.removed
      BY <1>1, <2>1, <2>3 DEF Stream, FollowOver
    <3>2. Follow(f, t)
      BY <1>4, <2>3 DEF FollowLoop
    <3> HIDE DEF t
    <3>3. StreamOK(t, job)
      BY <3>1 DEF StreamOK
    <3> QED
      BY <3>2, <3>3, OneStream
  <2>4. CASE ~s.removed /\ (Unread(ring, s.cursor) > 0 \/ Lossy(ring, s.cursor))
    <3> DEFINE t == [s EXCEPT !.pc = "frames", !.next = ring.total]
    <3>1. t \in Stream /\ t.pc = "frames" /\ t.job = s.job /\ t.next = ring.total
      BY <1>1, <2>2 DEF Stream, FollowOpen
    <3>2. Follow(f, t)
      BY <1>4, <2>4 DEF FollowLoop
    <3>3. t.job \in Job /\ t.next <= job[t.job].ring.total
      BY <2>1, <2>2, <3>1
    <3> HIDE DEF t
    <3>4. StreamOK(t, job)
      BY <3>1, <3>3 DEF StreamOK
    <3> QED
      BY <3>2, <3>4, OneStream
  <2>5. CASE ~s.removed /\ ~(Unread(ring, s.cursor) > 0 \/ Lossy(ring, s.cursor))
    <3> DEFINE t == [s EXCEPT !.cursor = ring.total]
    <3>1. t \in Stream /\ t.job = s.job /\ t.cursor = ring.total
      BY <1>1, <2>2 DEF Stream
    <3>2. Follow(f, Drained(t))
      BY <1>4, <2>5 DEF FollowLoop
    <3>3. t.job \in Job /\ t.cursor <= job[t.job].ring.total
      BY <2>1, <2>2, <3>1
    <3> HIDE DEF t
    <3>4. StreamOK(Drained(t), job)
      BY <3>1, <3>3, DrainedOK DEF IInv
    <3> QED
      BY <3>2, <3>4, OneStream
  <2> QED
    BY <2>3, <2>4, <2>5
<1>5. CASE FramesTaken(f)
  <2> DEFINE t == [s EXCEPT !.cursor = s.next, !.next = 0]
  <2>1. s.pc = "frames" /\ s.job \in Job /\ s.next \in Nat /\ s.next <= ring.total
    BY <1>1, <1>5 DEF FramesTaken, StreamOK, Stream, FollowOpen
  <2>2. t \in Stream /\ t.job = s.job /\ t.cursor = s.next
    BY <1>1, <2>1 DEF Stream
  <2>3. Follow(f, IF job[s.job].stored THEN Drained(t) ELSE [t EXCEPT !.pc = "failed"])
    BY <1>5 DEF FramesTaken
  <2> HIDE DEF t
  <2>4. StreamOK(Drained(t), job)
    BY <2>1, <2>2, DrainedOK DEF IInv
  <2>5. StreamOK([t EXCEPT !.pc = "failed"], job)
    BY <2>2 DEF StreamOK, Stream, FollowOpen, FollowOver
  <2>6. CASE job[s.job].stored
    BY <2>3, <2>4, <2>6, OneStream
  <2>7. CASE ~job[s.job].stored
    BY <2>3, <2>5, <2>7, OneStream
  <2> QED
    BY <2>6, <2>7
<1>6. CASE AbortFollow(f)
  <2> DEFINE t == [Closed EXCEPT !.pc = "aborted"]
  <2>1. t \in Stream /\ t.pc = "aborted"
    BY <1>2 DEF Stream, FollowOver
  <2>2. Follow(f, t)
    BY <1>6 DEF AbortFollow
  <2> HIDE DEF t
  <2>3. StreamOK(t, job)
    BY <2>1 DEF StreamOK, FollowOpen
  <2> QED
    BY <2>2, <2>3, OneStream
<1> QED
  BY <1>3, <1>4, <1>5, <1>6

-----------------------------------------------------------------------------
(* The theorems.                                                           *)

LEMMA InitIInv == Init => IInv
<1> SUFFICES ASSUME Init
             PROVE  IInv
  OBVIOUS
<1>1. Absent \in Record
  BY EmptyRingOK DEF Absent, Record, RingOK, Live, Terminal, Cause
<1>2. RecordOK(Absent)
  BY <1>1, EmptyRingOK DEF RecordOK, Absent, Terminal
<1>3. Records
  BY <1>1, <1>2 DEF Init, RegInit, Records
<1>4. Closed \in Stream /\ Closed.pc = "closed"
  BY DEF Closed, Stream, FollowOver
<1>5. StreamOK(Closed, job)
  BY <1>4 DEF StreamOK, FollowOpen
<1>6. Streams
  BY <1>4, <1>5 DEF Init, Streams
<1> QED
  BY <1>3, <1>6 DEF IInv

\* A step moves every record by the rules, or none.
LEMMA StepMoves ==
    ASSUME IInv, [Next]_vars
    PROVE  Moves /\ Streams'
<1>1. CASE RegistryStep /\ Notify
  BY <1>1, RegistryMoves, NotifyKeeps DEF IInv
<1>2. ASSUME NEW f \in Follower,
             (\E j \in Job : OpenFollow(f, j)) \/ FollowLoop(f) \/ FramesTaken(f) \/ AbortFollow(f)
      PROVE  Moves /\ Streams'
  <2>1. UNCHANGED job
    BY <1>2 DEF OpenFollow, FollowLoop, FramesTaken, AbortFollow, Follow, regVars
  <2> QED
    BY <1>2, <2>1, NothingMoves, FollowKeeps DEF IInv
<1>3. ASSUME UNCHANGED <<job, follow>>
      PROVE  Moves /\ Streams'
  <2>1. Streams'
    BY <1>3 DEF IInv, Streams, StreamOK
  <2> QED
    BY <1>3, <2>1, NothingMoves DEF IInv
<1>4. ASSUME NEW v \in Viewer, RowsTaken(v) \/ RowsFrame(v) \/ AbortRows(v)
      PROVE  UNCHANGED <<job, follow>>
  BY <1>4 DEF RowsTaken, RowsFrame, AbortRows, Rows, regVars
<1> QED
  BY <1>1, <1>2, <1>3, <1>4 DEF Next, StreamStep, vars, regVars

LEMMA StepIInv == IInv /\ [Next]_vars => IInv'
<1> SUFFICES ASSUME IInv, [Next]_vars
             PROVE  IInv'
  OBVIOUS
<1>1. Moves /\ Streams'
  BY StepMoves
<1>2. Records'
  BY <1>1 DEF Moves, Becomes, Records
<1> QED
  BY <1>1, <1>2 DEF IInv

LEMMA IInvHolds == Spec => []IInv
  BY InitIInv, StepIInv, PTL DEF Spec

(***************************************************************************)
(* A follow stream that ended of itself has handed over the whole ring,    *)
(* and unless a teardown settled its job by force that is everything the   *)
(* producer wrote: observeJobOutput's terminal check comes after a read    *)
(* that nothing can be appended behind.                                    *)
(***************************************************************************)
THEOREM FollowHandsOverAll == Spec => []FollowIsComplete
<1>1. ASSUME IInv
      PROVE  FollowIsComplete
  <2> SUFFICES ASSUME NEW f \in Follower, follow[f].pc = "ended", ~follow[f].removed
               PROVE  /\ follow[f].cursor = job[follow[f].job].ring.total
                      /\ job[follow[f].job].cause # "teardown" =>
                            follow[f].cursor = Written(follow[f].job)
    BY DEF FollowIsComplete
  <2> DEFINE j == follow[f].job
  <2>1. j \in Job /\ job[j].status \in Terminal
        /\ follow[f].cursor = job[j].ring.total
    BY <1>1 DEF IInv, Streams, StreamOK
  <2>2. RecordOK(job[j])
    BY <1>1, <2>1 DEF IInv, Records
  <2>3. job[j].cause # "teardown" => job[j].source = 0
    BY <2>1, <2>2 DEF RecordOK
  <2>4. job[j].ring.total \in Nat
    BY <2>2, RecordFields
  <2> HIDE DEF j
  <2>5. job[j].cause # "teardown" => Written(j) = job[j].ring.total
    BY <2>3, <2>4 DEF Written
  <2> QED
    BY <2>1, <2>5 DEF j
<1> QED
  BY <1>1, IInvHolds, PTL

(***************************************************************************)
(* A job's first outcome stays, and its settlement takes no byte the model *)
(* has not read: the trim's cap covers what is unread, and no later step   *)
(* but a read trims further (settle, appendRing, read).                    *)
(***************************************************************************)
THEOREM SettlementHolds == Spec => SettlementIsFinal
<1>1. ASSUME IInv, [Next]_vars
      PROVE  [SettlementStands]_regVars
  <2>1. Moves
    BY <1>1, StepMoves
  <2>2. SettlementStands
    BY <2>1 DEF Moves, Becomes, SettlementStands, IsTerminal
  <2> QED
    BY <2>2
<1> QED
  BY <1>1, IInvHolds, PTL DEF Spec, SettlementIsFinal
=============================================================================
