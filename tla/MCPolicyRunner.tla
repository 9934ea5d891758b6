---------------------------- MODULE MCPolicyRunner ----------------------------
(***************************************************************************)
(* CI runs for PolicyRunner: all is well; no job in the event stream; the  *)
(* log of the run is missing, or cut short under chaos; and a certificate  *)
(* that says the run, also under chaos, is not deterministic.              *)
(***************************************************************************)
EXTENDS PolicyRunner

CiRun(events, wal, deterministic, chaos) ==
  [events |-> events, wal |-> wal, deterministic |-> deterministic, chaos |-> chaos]

SmallInputs ==
  { CiRun("named", "good", TRUE, FALSE),
    CiRun("none", "good", TRUE, FALSE),
    CiRun("named", "missing", TRUE, FALSE),
    CiRun("named", "torn", TRUE, TRUE),
    CiRun("named", "good", FALSE, TRUE) }

\* The goroutines are alike.
Symmetry == Permutations(Learners)
===============================================================================
