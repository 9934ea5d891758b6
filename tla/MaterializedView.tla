-------------------------- MODULE MaterializedView --------------------------
(***************************************************************************)
(* What a table of node states promises to whoever reads it while it is    *)
(* being maintained, whatever fails half-way: a row shows the verdict on   *)
(* its node or is missing.  A verdict is not taken back, and a new one is  *)
(* reached only while the row of its node is withdrawn; so no row ever     *)
(* turns from one verdict into another under its reader.                   *)
(***************************************************************************)
CONSTANTS Nodes, Verdicts

VARIABLES
    truth,   \* the verdict on each node that was ever judged
    shown    \* the rows of the table

vars == <<truth, shown>>

Init == truth = << >> /\ shown = << >>

Withdraw(S) ==
    /\ shown' = [n \in DOMAIN shown \ S |-> shown[n]]
    /\ UNCHANGED truth

Show(n) ==
    /\ n \in DOMAIN truth \ DOMAIN shown
    /\ shown' = [m \in DOMAIN shown \union {n} |-> IF m = n THEN truth[n] ELSE shown[m]]
    /\ UNCHANGED truth

Judge(n) ==
    /\ n \notin DOMAIN shown
    /\ UNCHANGED shown
    /\ \E v \in Verdicts :
         truth' = [m \in DOMAIN truth \union {n} |-> IF m = n THEN v ELSE truth[m]]

Next ==
    \/ \E S \in SUBSET Nodes : Withdraw(S)
    \/ \E n \in Nodes : Show(n) \/ Judge(n)

Spec == Init /\ [][Next]_vars
=============================================================================
