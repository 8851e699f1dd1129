---------------------------- MODULE MCAgentDriver ----------------------------
(* Instances of AgentDriver for model checking. *)
EXTENDS AgentDriver, TLC

Symmetry == Permutations(Message)

(* The behaviours in which clients only send waking input and cancel: what the
   log of a lost process holds does not depend on who edited the inbox, and
   leaving the edits out pays for a second turn, two calls and the loss. *)
CrashNext ==
  \/ Driver \/ Crash \/ Repair
  \/ \E m \in Message, t \in InboxTarget : Send(m, t, TRUE)
  \/ \E c \in Cause, k \in BOOLEAN : Cancel(c, k)

CrashSpec == Init /\ [][CrashNext]_vars
===============================================================================
