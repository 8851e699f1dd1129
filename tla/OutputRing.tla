----------------------------- MODULE OutputRing -----------------------------
(***************************************************************************)
(* The bounded output ring of one background job (jobs-local/src/ring.ts). *)
(* A ring keeps the offset at which each retained chunk starts, oldest     *)
(* first, and the total number of bytes ever appended; a chunk ends where  *)
(* the next one starts. Text is not modelled, only its bytes, and a cut    *)
(* falls exactly on the cap (a cut inside a multi-byte character drops up  *)
(* to three bytes more).                                                   *)
(***************************************************************************)
EXTENDS Integers, Sequences

EmptyRing == [starts |-> <<>>, total |-> 0]

\* Offset of the oldest retained byte.
Earliest(ring) == IF ring.starts = <<>> THEN ring.total ELSE Head(ring.starts)

Retained(ring) == ring.total - Earliest(ring)

(***************************************************************************)
(* Whole head chunks go while more than cap bytes are retained; the last   *)
(* chunk is never dropped but cut to its tail.                             *)
(***************************************************************************)
Trim(ring, cap) ==
    LET last == Len(ring.starts)
        fits == {i \in 1 .. last : i = last \/ ring.total - ring.starts[i] <= cap}
        head == CHOOSE i \in fits : \A k \in fits : i <= k
        kept == SubSeq(ring.starts, head, last)
    IN  IF Retained(ring) <= cap
        THEN ring
        ELSE [ring EXCEPT !.starts =
                 IF ring.total - Head(kept) > cap THEN <<ring.total - cap>> ELSE kept]

\* An empty chunk changes nothing.
RingAppend(ring, bytes, cap) ==
    IF bytes = 0
    THEN ring
    ELSE Trim([starts |-> Append(ring.starts, ring.total),
               total  |-> ring.total + bytes], cap)

\* Bytes a reader at this offset is still owed and the ring still holds.
Unread(ring, from) ==
    ring.total - (IF from > Earliest(ring) THEN from ELSE Earliest(ring))

\* A read from this offset misses bytes that were evicted.
Lossy(ring, from) == from < Earliest(ring)
=============================================================================
