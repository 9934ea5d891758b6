--------------------------- MODULE OrderedDelivery ---------------------------
(***************************************************************************)
(* What the queue and its worker promise together, whatever the batches,   *)
(* the dedup memory and the failures: within one life of the process the   *)
(* queued lines are decided in the order of the file, each at most once;   *)
(* a restart, and nothing else, takes the delivery back to the beginning.  *)
(***************************************************************************)
EXTENDS Naturals, Sequences

VARIABLES
  size,    \* the number of chunks in the queue file
  cursor,  \* the last position decided in this life of the process, 0 if none
  out      \* every position decided, over all lives

vars == <<size, cursor, out>>

Init ==
  /\ size = 0
  /\ cursor = 0
  /\ out = << >>

Submit ==
  /\ size' = size + 1
  /\ UNCHANGED <<cursor, out>>

Deliver ==
  \E i \in cursor + 1 .. size :
    /\ cursor' = i
    /\ out' = Append(out, i)
    /\ UNCHANGED size

Restart ==
  /\ cursor' = 0
  /\ UNCHANGED <<size, out>>

Next == Submit \/ Deliver \/ Restart

Spec == Init /\ [][Next]_vars
==============================================================================
