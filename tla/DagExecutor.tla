---------------------------- MODULE DagExecutor ----------------------------
(***************************************************************************)
(* Executor.Run (internal/dag/executor.go): a scheduler loop that takes a  *)
(* batch of ready nodes, runs each in a goroutine of its own, waits for    *)
(* all of them, collects their events and updates the indegrees.           *)
(*                                                                         *)
(* A node ID is a number, its place in the order of sort.Strings.  `ready` *)
(* is sorted whenever a batch is taken from it and never holds a node      *)
(* twice, so it is a set here.  The events of one node are one entry of    *)
(* allEvents.                                                              *)
(***************************************************************************)
EXTENDS Naturals, Sequences, FiniteSets

CONSTANTS
  Ids,      \* the IDs that a graph may use, for nodes and for dependencies
  Limits,   \* the values of Executor.MaxParallel
  Default   \* what a MaxParallel of zero stands for (4)

ASSUME DagAssumption ==
  Ids \subseteq Nat /\ IsFiniteSet(Ids) /\ Limits \subseteq Nat /\ Default \in Nat \ {0}

VARIABLES
  nodes,      \* Graph.Nodes
  deps,       \* Node.Dependencies; an ID listed twice counts twice in adj and indegree
  limit,      \* Executor.MaxParallel
  phase,      \* where Run is
  indegree,
  ready,
  batch,
  worker,     \* the goroutine of each node
  results,    \* the events of each node in the batch: TRUE unless its step failed
  allEvents

graphVars == <<nodes, deps, limit>>
runVars == <<phase, indegree, ready, batch, worker, results, allEvents>>
vars == <<graphVars, runVars>>

TypeOK ==
  /\ nodes \subseteq Ids /\ deps \in [Ids -> SUBSET Ids] /\ limit \in Nat
  /\ phase \in {"idle", "scheduling", "waiting", "done", "failed"}
  /\ indegree \in [Ids -> Nat]
  /\ ready \subseteq nodes /\ batch \subseteq nodes
  /\ worker \in [Ids -> {"none", "spawned", "running", "ended"}]
  /\ results \in [Ids -> BOOLEAN]
  /\ allEvents \in Seq([node : Ids, ok : BOOLEAN])

\* MaxParallel with its default; also the capacity of the channel sem.
Parallel == IF limit > 0 THEN limit ELSE Default

\* Nothing has run.
Reset ==
  /\ phase = "idle"
  /\ indegree = [n \in Ids |-> 0]
  /\ ready = {} /\ batch = {}
  /\ worker = [n \in Ids |-> "none"]
  /\ results = [n \in Ids |-> FALSE]
  /\ allEvents = << >>

Init ==
  /\ nodes \in SUBSET Ids
  /\ deps \in [Ids -> SUBSET Ids] /\ \A n \in Ids \ nodes : deps[n] = {}
  /\ limit \in Limits
  /\ Reset

\* The k smallest of a set of IDs.
First(k, S) == { n \in S : Cardinality({ m \in S : m < n }) < k }

Running == { n \in Ids : worker[n] = "running" }
Ended == { n \in Ids : worker[n] = "ended" }
Collected == { allEvents[i].node : i \in 1 .. Len(allEvents) }

-----------------------------------------------------------------------------

UnknownDependency ==
  /\ phase = "idle"
  /\ \E n \in nodes : ~ (deps[n] \subseteq nodes)
  /\ phase' = "failed"
  /\ UNCHANGED <<graphVars, indegree, ready, batch, worker, results, allEvents>>

Prepare ==
  /\ phase = "idle"
  /\ \A n \in nodes : deps[n] \subseteq nodes
  /\ indegree' = [n \in Ids |-> IF n \in nodes THEN Cardinality(deps[n]) ELSE 0]
  /\ ready' = { n \in nodes : deps[n] = {} }
  /\ phase' = "scheduling"
  /\ UNCHANGED <<graphVars, batch, worker, results, allEvents>>

Dispatch ==
  /\ phase = "scheduling" /\ ready # {}
  /\ batch' = First(Parallel, ready)
  /\ ready' = ready \ batch'
  /\ worker' = [n \in Ids |-> IF n \in batch' THEN "spawned" ELSE worker[n]]
  /\ phase' = "waiting"
  /\ UNCHANGED <<graphVars, indegree, results, allEvents>>

\* Mutant of StartNode: slots are taken and not given back.
StartLeaks(n) ==
  /\ worker[n] = "spawned"
  /\ Cardinality(Running \cup Ended) < Parallel
  /\ worker' = [worker EXCEPT ![n] = "running"]
  /\ UNCHANGED <<graphVars, phase, indegree, ready, batch, results, allEvents>>

\* The goroutine of n gets its slot of sem.
StartNode(n) ==
  /\ worker[n] = "spawned"
  /\ Cardinality(Running) < Parallel
  /\ worker' = [worker EXCEPT ![n] = "running"]
  /\ UNCHANGED <<graphVars, phase, indegree, ready, batch, results, allEvents>>

\* executeNode returns; the goroutine stores its events, gives back its slot and is
\* done.
EndNode(n, ok) ==
  /\ worker[n] = "running"
  /\ worker' = [worker EXCEPT ![n] = "ended"]
  /\ results' = [results EXCEPT ![n] = ok]
  /\ UNCHANGED <<graphVars, phase, indegree, ready, batch, allEvents>>

\* Mutant of Collect: the events come in the order in which the nodes end.
CollectEarly ==
  /\ phase = "waiting"
  /\ \E n \in (batch \cap Ended) \ Collected :
       allEvents' = Append(allEvents, [node |-> n, ok |-> results[n]])
  /\ UNCHANGED <<graphVars, phase, indegree, ready, batch, worker, results>>

\* After wg.Wait, the events of the next node of the batch.
Collect ==
  /\ phase = "waiting" /\ batch \subseteq Ended
  /\ \E n \in First(1, batch \ Collected) :
       allEvents' = Append(allEvents, [node |-> n, ok |-> results[n]])
  /\ UNCHANGED <<graphVars, phase, indegree, ready, batch, worker, results>>

\* Mutant of Update: a node is ready when one of its dependencies is done.
UpdateAny ==
  /\ phase = "waiting" /\ batch \subseteq Collected
  /\ indegree' = [n \in Ids |-> indegree[n] - Cardinality(deps[n] \cap batch)]
  /\ ready' = ready \cup { n \in nodes : deps[n] \cap batch # {} /\ worker[n] = "none" }
  /\ batch' = {}
  /\ phase' = "scheduling"
  /\ UNCHANGED <<graphVars, worker, results, allEvents>>

\* Mutant of Update: every node collected so far is counted off again.
UpdateAgain ==
  /\ phase = "waiting" /\ batch \subseteq Collected
  /\ indegree' = [n \in Ids |-> indegree[n] - Cardinality(deps[n] \cap Collected)]
  /\ ready' = ready \cup { n \in nodes : deps[n] \cap batch # {} /\ indegree'[n] = 0 }
  /\ batch' = {}
  /\ phase' = "scheduling"
  /\ UNCHANGED <<graphVars, worker, results, allEvents>>

\* Mutant of Update: what became ready replaces what was left of ready.
UpdateForgets ==
  /\ phase = "waiting" /\ batch \subseteq Collected
  /\ indegree' = [n \in Ids |-> indegree[n] - Cardinality(deps[n] \cap batch)]
  /\ ready' = { n \in nodes : deps[n] \cap batch # {} /\ indegree'[n] = 0 }
  /\ batch' = {}
  /\ phase' = "scheduling"
  /\ UNCHANGED <<graphVars, worker, results, allEvents>>

\* Each node of the batch is counted off at its dependents; those that reach zero
\* are ready.
Update ==
  /\ phase = "waiting" /\ batch \subseteq Collected
  /\ indegree' = [n \in Ids |-> indegree[n] - Cardinality(deps[n] \cap batch)]
  /\ ready' = ready \cup { n \in nodes : deps[n] \cap batch # {} /\ indegree'[n] = 0 }
  /\ batch' = {}
  /\ phase' = "scheduling"
  /\ UNCHANGED <<graphVars, worker, results, allEvents>>

Return ==
  /\ phase = "scheduling" /\ ready = {}
  /\ phase' = "done"
  /\ UNCHANGED <<graphVars, indegree, ready, batch, worker, results, allEvents>>

-----------------------------------------------------------------------------

Next ==
  \/ UnknownDependency \/ Prepare \/ Dispatch \/ Collect \/ Update \/ Return
  \/ \E n \in Ids : StartNode(n) \/ \E ok \in BOOLEAN : EndNode(n, ok)

Spec == Init /\ [][Next]_vars

\* Run has no pause, and the command of a step ends: nothing in the code would stop
\* one that does not.
FairSpec == Spec /\ WF_vars(Next)

-----------------------------------------------------------------------------
(* Properties *)

\* A node starts once, after the nodes it depends on have ended, and at most
\* MaxParallel run at a time (executor.go:59-104).
Topological == INSTANCE TopologicalRun WITH
  slots <- Parallel, started <- Running \cup Ended, ended <- Ended

RunsInOrder == Topological!Spec

\* "Run executes the DAG and returns the events in topological order": the events of
\* a node come after those of all its dependencies, and once (executor.go:19, 87-92).
EventsInOrder ==
  \A i \in 1 .. Len(allEvents) :
    deps[allEvents[i].node] \subseteq { allEvents[j].node : j \in 1 .. i - 1 }
    /\ \A j \in 1 .. i - 1 : allEvents[j].node # allEvents[i].node

\* The rounds of a run by the graph and the limit alone: what has run before round i.
Before == LET
  done[i \in 0 .. Cardinality(nodes)] ==
    IF i = 0 THEN {}
    ELSE done[i - 1] \cup
         First(Parallel, { n \in nodes \ done[i - 1] : deps[n] \subseteq done[i - 1] })
  IN done

\* The order of the events depends on the graph and on MaxParallel, and on nothing
\* that goroutines do: round by round, and by ID within a round (executor.go:87-103).
Reproducible ==
  phase = "done" =>
    \A i, j \in 1 .. Len(allEvents) :
      LET Round(k) == CHOOSE r \in 1 .. Cardinality(nodes) :
                        allEvents[k].node \in Before[r] \ Before[r - 1]
      IN  i < j => \/ Round(i) < Round(j)
                   \/ Round(i) = Round(j) /\ allEvents[i].node < allEvents[j].node

\* When Run returns without an error, a node without events still waits for another
\* one that has none: only cycles, and what depends on them, are left out
\* (executor.go:59-106).
OnlyCyclesLeftOut ==
  phase = "done" =>
    \A n \in nodes \ Collected : \E d \in deps[n] : d \notin Collected

\* Run returns (executor.go:59-106).
Returns == <>(phase \in {"done", "failed"})
=============================================================================
