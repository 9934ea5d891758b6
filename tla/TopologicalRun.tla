--------------------------- MODULE TopologicalRun ---------------------------
(***************************************************************************)
(* What an executor of a graph of nodes promises, whatever its queues and  *)
(* goroutines do: a node starts once, after all the nodes it depends on    *)
(* have ended, and no more than `slots` nodes run at a time.               *)
(***************************************************************************)
EXTENDS Naturals, FiniteSets

VARIABLES
  nodes,    \* the nodes of the graph
  deps,     \* the nodes each one depends on
  slots,    \* how many nodes may run at a time
  started,  \* the nodes that have started
  ended     \* those of them that have ended

vars == <<nodes, deps, slots, started, ended>>

Init == started = {} /\ ended = {}

Start(n) ==
  /\ n \in nodes \ started
  /\ deps[n] \subseteq ended
  /\ Cardinality(started \ ended) < slots
  /\ started' = started \cup {n}
  /\ UNCHANGED <<nodes, deps, slots, ended>>

End(n) ==
  /\ n \in started \ ended
  /\ ended' = ended \cup {n}
  /\ UNCHANGED <<nodes, deps, slots, started>>

Next == \E n \in nodes : Start(n) \/ End(n)

Spec == Init /\ [][Next]_vars
=============================================================================
