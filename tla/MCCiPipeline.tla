---------------------------- MODULE MCCiPipeline ----------------------------
(* CiPipeline with small jobs. *)
EXTENDS CiPipeline

\* At most one need, which may be unknown; at most one step; a matrix or none.
SmallInputs ==
  [needs : {{}} \cup { {j} : j \in 1 .. JobCount + 1 }, steps : SUBSET Steps,
   expands : BOOLEAN]

\* No command fails, or the one of the first step of the first job.
OneMayFail == {{}, {RunNode(1, 1)}}
=============================================================================
