------------------------------ MODULE DurableLog ------------------------------
(***************************************************************************)
(* What the storage of one session promises, whoever writes it and         *)
(* whatever fails.  The stored log grows at its end; it may lose a suffix  *)
(* nobody was told is stored.  What a caller was told is stored stays so,  *)
(* with one exception: complete records found in a torn tail are cut from  *)
(* the file and then written again, and if the writer is lost in between,  *)
(* so are they.                                                            *)
(***************************************************************************)
EXTENDS Sequences, SequencesExt

VARIABLES
  stored,       \* the events a reader of the log is given
  mending,      \* the records cut from its end that the writer has to write again
  acked         \* the longest log a caller was told is stored

vars == <<stored, mending, acked>>

Init == stored = <<>> /\ mending = <<>> /\ acked = <<>>

\* Acknowledgements follow the log: a caller may be told of records being mended.
Tell == IsPrefix(acked, acked') /\ IsPrefix(acked', stored' \o mending)

\* A batch lands at the end of a whole log, and may be acknowledged as it lands.
Commit ==
  /\ mending = <<>> /\ UNCHANGED mending
  /\ stored # stored' /\ IsPrefix(stored, stored') /\ Tell

\* A failed write, a lost process or a repair takes back an unacknowledged suffix.
Lose ==
  /\ UNCHANGED <<mending, acked>>
  /\ stored # stored' /\ IsPrefix(stored', stored) /\ IsPrefix(acked, stored')

\* Records are cut from the end to be written again, or are written again.
Mend ==
  /\ UNCHANGED acked
  /\ stored # stored' /\ stored' \o mending' = stored \o mending

\* The writer is lost, with the records it was mending or those of them it had not
\* written yet: an acknowledged log that had them is cut to what is stored.
Lapse ==
  /\ mending # <<>> /\ mending' = <<>>
  /\ IsPrefix(stored, stored') /\ IsPrefix(stored', stored \o mending)
  /\ acked' = IF IsPrefix(acked, stored') THEN acked ELSE stored'

\* A caller is told that more of the log is stored.
Acknowledge == acked # acked' /\ UNCHANGED <<stored, mending>> /\ Tell

Next == Commit \/ Lose \/ Mend \/ Lapse \/ Acknowledge

Spec == Init /\ [][Next]_vars
===============================================================================
