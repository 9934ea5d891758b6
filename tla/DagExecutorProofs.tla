------------------------- MODULE DagExecutorProofs -------------------------
(***************************************************************************)
(* Proofs about DagExecutor, for every finite set of IDs, every graph over *)
(* it and every MaxParallel.                                               *)
(***************************************************************************)
EXTENDS DagExecutor, FiniteSetTheorems, SequenceTheorems, TLAPS

\* The nodes that have been counted off at their dependents.
Settled == Ended \ batch

\* What each phase of Run finds.
PhaseInv ==
  /\ \A n \in Ids \ nodes : deps[n] = {}
  /\ phase \in {"scheduling", "waiting", "done"} => \A n \in nodes : deps[n] \subseteq nodes
  /\ phase \in {"idle", "failed"} => allEvents = << >> /\ \A n \in Ids : worker[n] = "none"
  /\ phase # "waiting" => batch = {}
  /\ phase = "done" => ready = {}

\* A goroutine is one of the batch until it has ended, and it was spawned after the
\* nodes it depends on were counted off.
WorkerInv ==
  /\ \A n \in Ids : worker[n] \in {"spawned", "running"} => n \in batch
  /\ \A n \in batch : worker[n] # "none"
  /\ \A n \in Ids : worker[n] # "none" => n \in nodes /\ deps[n] \subseteq Settled

\* indegree counts the dependencies that have not been counted off, so what is ready
\* is what waits for nothing.
ReadyInv ==
  phase \in {"scheduling", "waiting", "done"} =>
    /\ \A n \in nodes : indegree[n] = Cardinality(deps[n] \ Settled)
    /\ ready = { n \in nodes : worker[n] = "none" /\ deps[n] \subseteq Settled }

\* The events are those of the nodes counted off and of some of the batch.
EventsInv == Settled \subseteq Collected /\ Collected \subseteq Ended

DagInv == TypeOK /\ PhaseInv /\ WorkerInv /\ ReadyInv /\ EventsInv /\ EventsInOrder

-----------------------------------------------------------------------------
(* Induction, with sets in the place of predicates *)

\* A set of naturals has a least element: no initial segment of Nat has infinitely many
\* smaller ones.
LEMMA LeastNat ==
  ASSUME NEW T \in SUBSET Nat, T # {}
  PROVE  \E x \in T : \A y \in T : x <= y
<1> DEFINE Segments == { 0 .. x : x \in T }
<1>1. Segments \subseteq FiniteSubsetsOf(Nat) /\ Segments # {}
  <2>1. ASSUME NEW x \in T PROVE 0 .. x \in FiniteSubsetsOf(Nat)
    <3>1. IsFiniteSet(0 .. x)
      BY FS_Interval
    <3> QED
      BY <3>1 DEF FiniteSubsetsOf
  <2> QED
    BY <2>1
<1>2. PICK s \in Segments : \A t \in Segments : ~ (<<t, s>> \in StrictSubsetOrdering(Nat))
  <2>1. IsWellFoundedOn(StrictSubsetOrdering(Nat), FiniteSubsetsOf(Nat))
    BY FS_StrictSubsetOrderingWellFounded
  <2> HIDE DEF Segments
  <2> QED
    BY <1>1, <2>1, WFMin
<1>3. PICK x \in T : s = 0 .. x
  BY <1>2
<1>4. ASSUME NEW y \in T, y < x PROVE FALSE
  <2>1. /\ 0 .. y \in SUBSET Nat /\ 0 .. x \in SUBSET Nat
        /\ 0 .. y \subseteq 0 .. x /\ x \in 0 .. x /\ x \notin 0 .. y
    BY <1>4
  <2>2. <<0 .. y, s>> \in StrictSubsetOrdering(Nat)
    BY <1>3, <2>1 DEF StrictSubsetOrdering
  <2> QED
    BY <1>2, <2>2
<1> QED
  BY <1>4

\* A set that holds 0 and the successor of each of its members holds all naturals.
LEMMA SetInduction ==
  ASSUME NEW S, 0 \in S, \A n \in Nat : n \in S => n + 1 \in S
  PROVE  Nat \subseteq S
<1>1. SUFFICES ASSUME Nat \ S # {} PROVE FALSE
  OBVIOUS
<1>2. PICK x \in Nat \ S : \A y \in Nat \ S : x <= y
  BY <1>1, LeastNat
<1>3. x # 0 /\ x - 1 \in Nat /\ x - 1 \in S
  BY <1>2
<1> QED
  BY <1>2, <1>3

\* f starts with b, and each of its N rounds takes the step of its number.
Iteration(f, b, N, step) == f[0] = b /\ \A k \in 1 .. N : f[k] = step[<<k, f[k - 1]>>]

\* A step function can be iterated: what the recursive functions of the model need to
\* be defined.
LEMMA Iterates ==
  ASSUME NEW S, NEW b \in S, NEW N \in Nat, NEW step \in [Nat \X S -> S]
  PROVE  \E f \in [0 .. N -> S] : Iteration(f, b, N, step)
<1> DEFINE I == { n \in Nat : \E f \in [0 .. n -> S] : Iteration(f, b, n, step) }
<1>1. 0 \in I
  <2> DEFINE f == [k \in 0 .. 0 |-> b]
  <2>1. f \in [0 .. 0 -> S] /\ Iteration(f, b, 0, step)
    BY DEF Iteration
  <2> QED
    BY <2>1
<1>2. ASSUME NEW n \in Nat, n \in I PROVE n + 1 \in I
  <2>1. PICK g \in [0 .. n -> S] : Iteration(g, b, n, step)
    BY <1>2
  <2> DEFINE f == [k \in 0 .. n + 1 |-> IF k = n + 1 THEN step[<<n + 1, g[n]>>] ELSE g[k]]
  <2>2. f \in [0 .. n + 1 -> S]
    <3>1. g[n] \in S /\ step[<<n + 1, g[n]>>] \in S
      OBVIOUS
    <3> QED
      BY <3>1
  <2>3. f[0] = b
    BY <2>1 DEF Iteration
  <2>4. ASSUME NEW k \in 1 .. n + 1 PROVE f[k] = step[<<k, f[k - 1]>>]
    <3>1. f[k - 1] = g[k - 1]
      OBVIOUS
    <3>2. CASE k = n + 1
      <4>1. f[k] = step[<<n + 1, g[n]>>] /\ k - 1 = n
        BY <3>2
      <4> HIDE DEF f
      <4> QED
        BY <3>1, <3>2, <4>1
    <3>3. CASE k \in 1 .. n
      <4>1. f[k] = g[k] /\ g[k] = step[<<k, g[k - 1]>>]
        BY <2>1, <3>3 DEF Iteration
      <4> QED
        BY <3>1, <4>1
    <3> QED
      BY <3>2, <3>3
  <2> HIDE DEF f
  <2> QED
    BY <2>2, <2>3, <2>4 DEF Iteration
<1>3. Nat \subseteq I
  <2> HIDE DEF I
  <2> QED
    BY <1>1, <1>2, SetInduction
<1> QED
  BY <1>3

-----------------------------------------------------------------------------
(* Lemmas about the operators *)

\* First takes members of the set.
LEMMA FirstIsSubset == ASSUME NEW k, NEW S PROVE First(k, S) \subseteq S
BY DEF First

\* Every set of IDs is finite.
LEMMA IdSets ==
  ASSUME NEW S, S \subseteq Ids
  PROVE  IsFiniteSet(S) /\ Cardinality(S) \in Nat
BY DagAssumption, FS_Subset, FS_CardinalityType

\* Counting off a batch leaves the count of what remains.
LEMMA CountOff ==
  ASSUME NEW D, D \subseteq Ids, NEW A, NEW B, A \cap B = {}
  PROVE  Cardinality(D \ (A \cup B)) = Cardinality(D \ A) - Cardinality(D \cap B)
<1>1. IsFiniteSet(D \ A)
  BY IdSets
<1>2. Cardinality((D \ A) \ B) = Cardinality(D \ A) - Cardinality((D \ A) \cap B)
  BY <1>1, FS_Difference
<1>3. (D \ A) \ B = D \ (A \cup B) /\ (D \ A) \cap B = D \cap B
  OBVIOUS
<1> QED
  BY <1>2, <1>3

\* A count of zero is an empty set.
LEMMA ZeroIsEmpty ==
  ASSUME NEW D, D \subseteq Ids
  PROVE  Cardinality(D) = 0 <=> D = {}
BY IdSets, FS_EmptySet

\* Appending the events of a node adds it to the collected ones and leaves the places
\* of the others.
LEMMA Appended ==
  ASSUME TypeOK, NEW e \in [node : Ids, ok : BOOLEAN], allEvents' = Append(allEvents, e)
  PROVE  /\ allEvents' \in Seq([node : Ids, ok : BOOLEAN])
         /\ Len(allEvents') = Len(allEvents) + 1 /\ Len(allEvents) \in Nat
         /\ \A i \in 1 .. Len(allEvents) : allEvents'[i] = allEvents[i]
         /\ allEvents'[Len(allEvents) + 1] = e
         /\ Collected' = Collected \cup {e.node}
<1>1. allEvents \in Seq([node : Ids, ok : BOOLEAN])
  BY DEF TypeOK
<1>2. /\ allEvents' \in Seq([node : Ids, ok : BOOLEAN])
      /\ Len(allEvents') = Len(allEvents) + 1 /\ Len(allEvents) \in Nat
      /\ \A i \in 1 .. Len(allEvents) : allEvents'[i] = allEvents[i]
      /\ allEvents'[Len(allEvents) + 1] = e
  BY <1>1, AppendProperties
<1>3. Collected' = { allEvents'[i].node : i \in 1 .. Len(allEvents') }
  BY DEF Collected
<1>4. Collected' = Collected \cup {e.node}
  BY <1>2, <1>3 DEF Collected
<1> QED
  BY <1>2, <1>4

-----------------------------------------------------------------------------
(* The steps *)

\* Before a run everything holds, whatever the graph.
LEMMA FreshInv ==
  ASSUME nodes \in SUBSET Ids, deps \in [Ids -> SUBSET Ids],
         \A n \in Ids \ nodes : deps[n] = {}, limit \in Nat, Reset
  PROVE  DagInv
<1>1. allEvents = << >> /\ Len(allEvents) = 0 /\ allEvents \in Seq([node : Ids, ok : BOOLEAN])
  BY EmptySeq DEF Reset
<1>2. Collected = {} /\ Ended = {} /\ Settled = {}
  BY <1>1 DEF Reset, Collected, Ended, Settled
<1>3. TypeOK
  BY <1>1 DEF Reset, TypeOK
<1>4. PhaseInv /\ WorkerInv /\ ReadyInv /\ EventsInv
  BY <1>1, <1>2 DEF Reset, PhaseInv, WorkerInv, ReadyInv, EventsInv
<1>5. EventsInOrder
  BY <1>1 DEF EventsInOrder
<1> QED
  BY <1>3, <1>4, <1>5 DEF DagInv

LEMMA InitInv == Init => DagInv
BY FreshInv, DagAssumption DEF Init

\* A step that leaves the goroutines, the batch and the events alone.
LEMMA SameRun ==
  ASSUME UNCHANGED <<nodes, deps, worker, batch, allEvents>>
  PROVE  /\ Ended' = Ended /\ Settled' = Settled /\ Collected' = Collected
         /\ WorkerInv => WorkerInv'
         /\ EventsInv => EventsInv'
         /\ EventsInOrder => EventsInOrder'
<1>1. Ended' = Ended /\ Settled' = Settled /\ Collected' = Collected
  BY DEF Ended, Settled, Collected
<1>2. WorkerInv => WorkerInv'
  BY <1>1 DEF WorkerInv
<1>3. EventsInv => EventsInv'
  BY <1>1 DEF EventsInv
<1>4. EventsInOrder => EventsInOrder'
  BY DEF EventsInOrder
<1> QED
  BY <1>1, <1>2, <1>3, <1>4

LEMMA UnknownStep == ASSUME DagInv, UnknownDependency PROVE DagInv'
<1>1. TypeOK'
  BY DEF DagInv, TypeOK, UnknownDependency, graphVars
<1>2. PhaseInv'
  BY DEF DagInv, PhaseInv, UnknownDependency, graphVars
<1>3. ReadyInv'
  BY DEF ReadyInv, UnknownDependency
<1> QED
  BY <1>1, <1>2, <1>3, SameRun DEF DagInv, UnknownDependency, graphVars

LEMMA PrepareStep == ASSUME DagInv, Prepare PROVE DagInv'
<1>1. nodes \subseteq Ids /\ deps \in [Ids -> SUBSET Ids]
  BY DEF DagInv, TypeOK
<1>2. \A n \in nodes : Cardinality(deps[n]) \in Nat
  BY <1>1, IdSets
<1>3. TypeOK'
  <2>1. indegree' \in [Ids -> Nat]
    BY <1>2 DEF Prepare
  <2> QED
    BY <2>1 DEF DagInv, TypeOK, Prepare, graphVars
<1>4. PhaseInv'
  BY DEF DagInv, PhaseInv, Prepare, graphVars
<1>5. Settled' = {}
  BY DEF DagInv, PhaseInv, Prepare, Settled, Ended, graphVars
<1>6. ReadyInv'
  <2>1. \A n \in nodes : indegree'[n] = Cardinality(deps[n])
    BY <1>1 DEF Prepare
  <2>2. \A n \in nodes : worker[n] = "none"
    BY <1>1 DEF DagInv, PhaseInv, Prepare
  <2>3. ready' = { n \in nodes : deps[n] = {} }
    BY DEF Prepare
  <2>4. \A n \in nodes : deps[n] \ {} = deps[n]
    OBVIOUS
  <2>5. nodes' = nodes /\ deps' = deps /\ worker' = worker
    BY DEF Prepare, graphVars
  <2> QED
    BY <1>5, <2>1, <2>2, <2>3, <2>4, <2>5 DEF ReadyInv
<1> QED
  BY <1>3, <1>4, <1>6, SameRun DEF DagInv, Prepare, graphVars

LEMMA ReturnStep == ASSUME DagInv, Return PROVE DagInv'
<1>1. TypeOK'
  BY DEF DagInv, TypeOK, Return, graphVars
<1>2. PhaseInv'
  BY DEF DagInv, PhaseInv, Return, graphVars
<1>3. ReadyInv'
  <2>1. Settled' = Settled
    BY SameRun DEF Return, graphVars
  <2> QED
    BY <2>1 DEF DagInv, ReadyInv, Return, graphVars
<1> QED
  BY <1>1, <1>2, <1>3, SameRun DEF DagInv, Return, graphVars

\* A batch is taken from what is ready, and nothing else moves.
LEMMA DispatchStep == ASSUME DagInv, Dispatch PROVE DagInv'
<1>1. /\ nodes \subseteq Ids /\ ready \subseteq nodes
      /\ worker \in [Ids -> {"none", "spawned", "running", "ended"}]
  BY DEF DagInv, TypeOK
<1>2. batch' \subseteq ready
  BY FirstIsSubset DEF Dispatch
<1>3. batch = {}
  BY DEF DagInv, PhaseInv, Dispatch
<1>4. ready = { n \in nodes : worker[n] = "none" /\ deps[n] \subseteq Settled }
  BY DEF DagInv, ReadyInv, Dispatch
<1>5. \A n \in Ids : worker'[n] = IF n \in batch' THEN "spawned" ELSE worker[n]
  BY DEF Dispatch
<1>6. \A n \in batch' : worker[n] = "none"
  BY <1>2, <1>4
<1>7. Ended' = Ended /\ Settled' = Settled /\ Collected' = Collected
  <2>1. Ended' = Ended
    BY <1>5, <1>6 DEF Ended
  <2>2. Settled' = Settled
    BY <2>1, <1>1, <1>2, <1>3, <1>6 DEF Settled, Ended
  <2> QED
    BY <2>1, <2>2 DEF Collected, Dispatch
<1>8. TypeOK'
  <2>1. worker' \in [Ids -> {"none", "spawned", "running", "ended"}]
    BY <1>1 DEF Dispatch
  <2>2. batch' \subseteq nodes /\ ready' \subseteq nodes
    BY <1>1, <1>2 DEF Dispatch
  <2> QED
    BY <2>1, <2>2 DEF DagInv, TypeOK, Dispatch, graphVars
<1>9. PhaseInv'
  BY DEF DagInv, PhaseInv, Dispatch, graphVars
<1>10. WorkerInv'
  <2>1. \A n \in Ids : worker'[n] \in {"spawned", "running"} => n \in batch'
    BY <1>3, <1>5 DEF DagInv, WorkerInv
  <2>2. \A n \in batch' : worker'[n] # "none"
    BY <1>1, <1>2, <1>5
  <2>3. \A n \in Ids : worker'[n] # "none" => n \in nodes /\ deps[n] \subseteq Settled
    BY <1>2, <1>4, <1>5 DEF DagInv, WorkerInv
  <2> QED
    BY <1>7, <2>1, <2>2, <2>3 DEF WorkerInv, Dispatch, graphVars
<1>11. ReadyInv'
  <2>1. \A n \in nodes : indegree[n] = Cardinality(deps[n] \ Settled)
    BY DEF DagInv, ReadyInv, Dispatch
  <2>2. ready' = ready \ batch'
    BY DEF Dispatch
  <2>3. ready' = { n \in nodes : worker'[n] = "none" /\ deps[n] \subseteq Settled }
    BY <1>1, <1>4, <1>5, <2>2
  <2> QED
    BY <1>7, <2>1, <2>3 DEF ReadyInv, Dispatch, graphVars
<1>12. EventsInv' /\ EventsInOrder'
  BY <1>7 DEF DagInv, EventsInv, EventsInOrder, Dispatch, graphVars
<1> QED
  BY <1>8, <1>9, <1>10, <1>11, <1>12 DEF DagInv

LEMMA StartStep == ASSUME DagInv, NEW n \in Ids, StartNode(n) PROVE DagInv'
<1>1. worker \in [Ids -> {"none", "spawned", "running", "ended"}] /\ worker[n] = "spawned"
  BY DEF DagInv, TypeOK, StartNode
<1>2. \A m \in Ids : worker'[m] = IF m = n THEN "running" ELSE worker[m]
  BY <1>1 DEF StartNode
<1>3. Ended' = Ended /\ Settled' = Settled /\ Collected' = Collected
  BY <1>1, <1>2 DEF Ended, Settled, Collected, StartNode
<1>4. TypeOK'
  BY <1>1 DEF DagInv, TypeOK, StartNode, graphVars
<1>5. n \in batch
  BY <1>1 DEF DagInv, WorkerInv
<1>6. PhaseInv'
  <2>1. phase = "waiting"
    BY <1>5 DEF DagInv, PhaseInv
  <2> QED
    BY <2>1 DEF DagInv, PhaseInv, StartNode, graphVars
<1>7. WorkerInv'
  <2>1. \A m \in Ids : worker'[m] \in {"spawned", "running"} => m \in batch
    BY <1>2, <1>5 DEF DagInv, WorkerInv
  <2>2. \A m \in batch : m \in Ids
    BY DEF DagInv, TypeOK
  <2>3. \A m \in batch : worker'[m] # "none"
    BY <1>2, <2>2 DEF DagInv, WorkerInv
  <2>4. \A m \in Ids : worker'[m] # "none" => m \in nodes /\ deps[m] \subseteq Settled
    BY <1>1, <1>2 DEF DagInv, WorkerInv
  <2> QED
    BY <1>3, <2>1, <2>3, <2>4 DEF WorkerInv, StartNode, graphVars
<1>8. ReadyInv'
  <2>1. \A m \in nodes : worker'[m] = "none" <=> worker[m] = "none"
    BY <1>1, <1>2 DEF DagInv, TypeOK
  <2> QED
    BY <1>3, <2>1 DEF DagInv, ReadyInv, StartNode, graphVars
<1>9. EventsInv' /\ EventsInOrder'
  BY <1>3 DEF DagInv, EventsInv, EventsInOrder, StartNode, graphVars
<1> QED
  BY <1>4, <1>6, <1>7, <1>8, <1>9 DEF DagInv

LEMMA EndStep ==
  ASSUME DagInv, NEW n \in Ids, NEW ok \in BOOLEAN, EndNode(n, ok)
  PROVE  DagInv'
<1>1. worker \in [Ids -> {"none", "spawned", "running", "ended"}] /\ worker[n] = "running"
  BY DEF DagInv, TypeOK, EndNode
<1>2. \A m \in Ids : worker'[m] = IF m = n THEN "ended" ELSE worker[m]
  BY <1>1 DEF EndNode
<1>3. n \in batch
  BY <1>1 DEF DagInv, WorkerInv
<1>4. Ended' = Ended \cup {n} /\ Settled' = Settled /\ Collected' = Collected
  BY <1>1, <1>2, <1>3 DEF Ended, Settled, Collected, EndNode
<1>5. TypeOK'
  <2>1. worker' \in [Ids -> {"none", "spawned", "running", "ended"}]
    BY <1>1 DEF EndNode
  <2>2. results' \in [Ids -> BOOLEAN]
    BY DEF DagInv, TypeOK, EndNode
  <2> QED
    BY <2>1, <2>2 DEF DagInv, TypeOK, EndNode, graphVars
<1>6. PhaseInv'
  <2>1. phase = "waiting"
    BY <1>3 DEF DagInv, PhaseInv
  <2> QED
    BY <2>1 DEF DagInv, PhaseInv, EndNode, graphVars
<1>7. WorkerInv'
  <2>1. \A m \in Ids : worker'[m] \in {"spawned", "running"} => m \in batch
    BY <1>2 DEF DagInv, WorkerInv
  <2>2. \A m \in batch : m \in Ids
    BY DEF DagInv, TypeOK
  <2>3. \A m \in batch : worker'[m] # "none"
    BY <1>2, <2>2 DEF DagInv, WorkerInv
  <2>4. \A m \in Ids : worker'[m] # "none" => m \in nodes /\ deps[m] \subseteq Settled
    BY <1>1, <1>2 DEF DagInv, WorkerInv
  <2> QED
    BY <1>4, <2>1, <2>3, <2>4 DEF WorkerInv, EndNode, graphVars
<1>8. ReadyInv'
  <2>1. \A m \in nodes : worker'[m] = "none" <=> worker[m] = "none"
    BY <1>1, <1>2 DEF DagInv, TypeOK
  <2> QED
    BY <1>4, <2>1 DEF DagInv, ReadyInv, EndNode, graphVars
<1>9. EventsInv' /\ EventsInOrder'
  BY <1>4 DEF DagInv, EventsInv, EventsInOrder, EndNode, graphVars
<1> QED
  BY <1>5, <1>6, <1>7, <1>8, <1>9 DEF DagInv

\* What is collected next waited only for nodes that were counted off, so collected,
\* before.
LEMMA CollectStep == ASSUME DagInv, Collect PROVE DagInv'
<1>1. PICK n \in First(1, batch \ Collected) :
         allEvents' = Append(allEvents, [node |-> n, ok |-> results[n]])
  BY DEF Collect
<1>2. n \in batch /\ n \notin Collected /\ n \in Ids /\ n \in Ended
  BY <1>1, FirstIsSubset DEF DagInv, TypeOK, Collect
<1>3. [node |-> n, ok |-> results[n]] \in [node : Ids, ok : BOOLEAN]
  BY <1>2 DEF DagInv, TypeOK
<1>4. /\ allEvents' \in Seq([node : Ids, ok : BOOLEAN])
      /\ Len(allEvents') = Len(allEvents) + 1 /\ Len(allEvents) \in Nat
      /\ \A i \in 1 .. Len(allEvents) : allEvents'[i] = allEvents[i]
      /\ allEvents'[Len(allEvents) + 1] = [node |-> n, ok |-> results[n]]
      /\ Collected' = Collected \cup {n}
  BY <1>1, <1>3, Appended DEF DagInv
<1>5. Ended' = Ended /\ Settled' = Settled
  BY DEF Ended, Settled, Collect
<1>6. TypeOK'
  BY <1>4 DEF DagInv, TypeOK, Collect, graphVars
<1>7. PhaseInv' /\ WorkerInv' /\ ReadyInv'
  <2>1. PhaseInv'
    BY DEF DagInv, PhaseInv, Collect, graphVars
  <2>2. WorkerInv'
    BY <1>5 DEF DagInv, WorkerInv, Collect, graphVars
  <2>3. ReadyInv'
    BY <1>5 DEF DagInv, ReadyInv, Collect, graphVars
  <2> QED
    BY <2>1, <2>2, <2>3
<1>8. EventsInv'
  BY <1>2, <1>4, <1>5 DEF DagInv, EventsInv
<1>9. EventsInOrder'
  <2>1. deps' = deps
    BY DEF Collect, graphVars
  <2>2. SUFFICES ASSUME NEW i \in 1 .. Len(allEvents) + 1
        PROVE /\ deps[allEvents'[i].node] \subseteq { allEvents'[j].node : j \in 1 .. i - 1 }
              /\ \A j \in 1 .. i - 1 : allEvents'[j].node # allEvents'[i].node
    BY <1>4, <2>1 DEF EventsInOrder
  <2>3. \A j \in 1 .. i - 1 : j \in 1 .. Len(allEvents) /\ allEvents'[j] = allEvents[j]
    BY <1>4
  <2>4. { allEvents'[j].node : j \in 1 .. i - 1 } = { allEvents[j].node : j \in 1 .. i - 1 }
    BY <2>3
  <2>5. CASE i \in 1 .. Len(allEvents)
    BY <1>4, <2>3, <2>4, <2>5 DEF DagInv, EventsInOrder
  <2>6. CASE i = Len(allEvents) + 1
    <3>1. { allEvents[j].node : j \in 1 .. i - 1 } = Collected
      BY <1>4, <2>6 DEF Collected
    <3>2. deps[n] \subseteq Collected
      BY <1>2 DEF DagInv, WorkerInv, EventsInv
    <3>3. allEvents'[i].node = n
      BY <1>4, <2>6
    <3>4. \A j \in 1 .. i - 1 : allEvents[j].node # n
      BY <1>2, <3>1
    <3> QED
      BY <2>3, <2>4, <3>1, <3>2, <3>3, <3>4
  <2> QED
    BY <1>4, <2>5, <2>6
<1> QED
  BY <1>6, <1>7, <1>8, <1>9 DEF DagInv

\* Counting the batch off keeps the counts exact, so the nodes that reach zero are
\* those that have become ready.
LEMMA UpdateStep == ASSUME DagInv, Update PROVE DagInv'
<1>1. /\ nodes \subseteq Ids /\ deps \in [Ids -> SUBSET Ids] /\ batch \subseteq nodes
      /\ worker \in [Ids -> {"none", "spawned", "running", "ended"}]
      /\ indegree \in [Ids -> Nat] /\ ready \subseteq nodes
  BY DEF DagInv, TypeOK
<1>2. batch \subseteq Ended /\ Settled \cap batch = {}
  BY DEF DagInv, EventsInv, Update, Settled
<1>3. Ended' = Ended /\ Collected' = Collected /\ Settled' = Settled \cup batch
  BY <1>2 DEF Ended, Settled, Collected, Update
<1>4. \A n \in nodes : indegree[n] = Cardinality(deps[n] \ Settled)
  BY DEF DagInv, ReadyInv, Update
<1>5. \A n \in nodes : indegree'[n] = Cardinality(deps[n] \ (Settled \cup batch))
  <2> SUFFICES ASSUME NEW n \in nodes
               PROVE  indegree'[n] = Cardinality(deps[n] \ (Settled \cup batch))
    OBVIOUS
  <2>1. indegree'[n] = indegree[n] - Cardinality(deps[n] \cap batch)
    BY <1>1 DEF Update
  <2>2. deps[n] \subseteq Ids
    BY <1>1
  <2>3. Cardinality(deps[n] \ (Settled \cup batch))
          = Cardinality(deps[n] \ Settled) - Cardinality(deps[n] \cap batch)
    BY <1>2, <2>2, CountOff
  <2> QED
    BY <1>4, <2>1, <2>3
<1>6. indegree' \in [Ids -> Nat]
  <2>1. \A n \in nodes : indegree'[n] \in Nat
    BY <1>1, <1>5, IdSets
  <2>2. ASSUME NEW n \in Ids \ nodes PROVE indegree'[n] \in Nat
    <3>1. deps[n] \cap batch = {}
      BY <2>2 DEF DagInv, PhaseInv
    <3>2. indegree'[n] = indegree[n] - Cardinality(deps[n] \cap batch)
      BY <2>2 DEF Update
    <3>3. Cardinality(deps[n] \cap batch) = 0
      BY <3>1, FS_EmptySet
    <3> QED
      BY <1>1, <2>2, <3>2, <3>3
  <2>3. \E f : indegree' = [n \in Ids |-> f[n]]
    <3>1. indegree' = [n \in Ids |-> indegree'[n]]
      BY DEF Update
    <3> QED
      BY <3>1
  <2> QED
    BY <2>1, <2>2, <2>3
<1>7. TypeOK'
  <2>1. ready' \subseteq nodes /\ batch' = {}
    BY <1>1 DEF Update
  <2> QED
    BY <1>6, <2>1 DEF DagInv, TypeOK, Update, graphVars
<1>8. PhaseInv'
  BY DEF DagInv, PhaseInv, Update, graphVars
<1>9. WorkerInv'
  <2>1. \A n \in Ids : worker[n] \notin {"spawned", "running"}
    BY <1>1, <1>2 DEF DagInv, WorkerInv, Ended
  <2>2. \A n \in Ids : worker[n] # "none" => n \in nodes /\ deps[n] \subseteq Settled'
    BY <1>3 DEF DagInv, WorkerInv
  <2> QED
    BY <2>1, <2>2 DEF WorkerInv, Update, graphVars
<1>10. ReadyInv'
  <2>1. ready = { n \in nodes : worker[n] = "none" /\ deps[n] \subseteq Settled }
    BY DEF DagInv, ReadyInv, Update
  <2>2. ready' = ready \cup { n \in nodes : deps[n] \cap batch # {} /\ indegree'[n] = 0 }
    BY DEF Update
  <2>3. \A n \in nodes : indegree'[n] = 0 <=> deps[n] \subseteq Settled \cup batch
    <3> SUFFICES ASSUME NEW n \in nodes
                 PROVE  indegree'[n] = 0 <=> deps[n] \subseteq Settled \cup batch
      OBVIOUS
    <3>1. deps[n] \ (Settled \cup batch) \subseteq Ids
      BY <1>1
    <3>2. Cardinality(deps[n] \ (Settled \cup batch)) = 0
            <=> deps[n] \ (Settled \cup batch) = {}
      BY <3>1, ZeroIsEmpty
    <3> QED
      BY <1>5, <3>2
  <2>4. \A n \in nodes : worker[n] # "none" => deps[n] \subseteq Settled
    BY <1>1 DEF DagInv, WorkerInv
  <2>5. \A n \in nodes : deps[n] \cap batch # {} => worker[n] = "none"
    BY <1>2, <2>4
  <2>6. ready' = { n \in nodes : worker[n] = "none" /\ deps[n] \subseteq Settled \cup batch }
    BY <2>1, <2>2, <2>3, <2>5
  <2> QED
    BY <1>3, <1>5, <2>6 DEF ReadyInv, Update, graphVars
<1>11. EventsInv'
  BY <1>3 DEF DagInv, EventsInv, Update
<1>12. EventsInOrder'
  BY DEF DagInv, EventsInOrder, Update, graphVars
<1> QED
  BY <1>7, <1>8, <1>9, <1>10, <1>11, <1>12 DEF DagInv

-----------------------------------------------------------------------------
(* The rounds of a run *)

\* The node runs in round r, of those that rounds holds, one after the other.
InRound(rounds, n, r) == n \in rounds[r] /\ n \notin rounds[r - 1]

\* One node is before another: in an earlier round, or in the same one with a smaller ID.
Earlier(rounds, size, m, n) ==
  \E q, r \in 1 .. size :
    InRound(rounds, m, q) /\ InRound(rounds, n, r) /\ (q < r \/ (q = r /\ m < n))

\* What is counted off is what r rounds run, a batch is the round that follows, and the
\* events of a batch come by ID.
RoundInv ==
  /\ \A i, j \in 1 .. Len(allEvents) :
       i < j => Earlier(Before, Cardinality(nodes), allEvents[i].node, allEvents[j].node)
  /\ \A m \in batch \cap Collected, n \in batch \ Collected : m < n
  /\ phase \in {"scheduling", "waiting", "done"} =>
       \E r \in 0 .. Cardinality(nodes) :
         /\ r <= Cardinality(Settled) /\ Settled = Before[r]
         /\ phase = "waiting" =>
              /\ r + 1 <= Cardinality(Settled \cup batch) /\ r + 1 <= Cardinality(nodes)
              /\ Before[r + 1] = Settled \cup batch

\* The nodes of the round that follows when the nodes of S have run.
NextRound(S) == First(Parallel, { n \in nodes \ S : deps[n] \subseteq S })

LEMMA GraphSize ==
  ASSUME nodes \subseteq Ids
  PROVE  IsFiniteSet(nodes) /\ Cardinality(nodes) \in Nat
BY IdSets

\* Before is what its definition says: round after round.
LEMMA BeforeRecursion ==
  ASSUME nodes \subseteq Ids
  PROVE  /\ Before[0] = {}
         /\ \A k \in 1 .. Cardinality(nodes) : Before[k] = Before[k - 1] \cup NextRound(Before[k - 1])
         /\ \A k \in 0 .. Cardinality(nodes) : Before[k] \subseteq nodes
<1> DEFINE N == Cardinality(nodes)
           S == SUBSET nodes
           step == [p \in Nat \X S |-> p[2] \cup NextRound(p[2])]
           Runs(f) == f = [i \in 0 .. N |->
             IF i = 0 THEN {}
             ELSE f[i - 1] \cup
                  First(Parallel, { n \in nodes \ f[i - 1] : deps[n] \subseteq f[i - 1] })]
<1>1. N \in Nat /\ {} \in S
  BY GraphSize
<1>2. ASSUME NEW s \in S PROVE s \cup NextRound(s) \in S
  <2>1. NextRound(s) \subseteq nodes
    BY FirstIsSubset DEF NextRound
  <2> QED
    BY <2>1
<1>3. \A k \in Nat, s \in S : step[<<k, s>>] = s \cup NextRound(s)
  OBVIOUS
<1>4. step \in [Nat \X S -> S]
  BY <1>2
<1> HIDE DEF step, N
<1>5. PICK f \in [0 .. N -> S] : Iteration(f, {}, N, step)
  BY <1>1, <1>4, Iterates
<1>6. \A k \in 1 .. N : f[k] = f[k - 1] \cup NextRound(f[k - 1])
  <2> SUFFICES ASSUME NEW k \in 1 .. N PROVE f[k] = f[k - 1] \cup NextRound(f[k - 1])
    OBVIOUS
  <2>1. f[k - 1] \in S /\ k \in Nat
    BY <1>1
  <2>2. f[k] = step[<<k, f[k - 1]>>]
    BY <1>5 DEF Iteration
  <2> QED
    BY <1>3, <2>1, <2>2
<1>7. Runs(f)
  <2>1. ASSUME NEW k \in 0 .. N
        PROVE  f[k] = IF k = 0 THEN {} ELSE f[k - 1] \cup NextRound(f[k - 1])
    <3>1. CASE k = 0
      BY <1>5, <3>1 DEF Iteration
    <3>2. CASE k \in 1 .. N
      BY <1>1, <1>6, <3>2
    <3> QED
      BY <1>1, <3>1, <3>2
  <2> QED
    BY <2>1 DEF NextRound
<1>8. Before = CHOOSE g : Runs(g)
  BY DEF Before, N
<1>9. \E g : Runs(g)
  BY <1>7
<1> HIDE DEF Runs
<1>10. Runs(Before)
  BY <1>8, <1>9
<1>11. ASSUME NEW k \in 0 .. N
       PROVE  Before[k] = IF k = 0 THEN {} ELSE Before[k - 1] \cup NextRound(Before[k - 1])
  <2> DEFINE g == Before
  <2>1. Runs(g)
    BY <1>10
  <2> HIDE DEF g
  <2>2. g = [i \in 0 .. N |->
             IF i = 0 THEN {}
             ELSE g[i - 1] \cup
                  First(Parallel, { n \in nodes \ g[i - 1] : deps[n] \subseteq g[i - 1] })]
    BY <2>1 DEF Runs
  <2>3. g[k] = IF k = 0 THEN {} ELSE g[k - 1] \cup NextRound(g[k - 1])
    BY <2>2 DEF NextRound
  <2> QED
    BY <2>3 DEF g
<1>12. Before[0] = {}
  <2>1. 0 \in 0 .. N
    BY <1>1
  <2> QED
    BY <1>11, <2>1
<1>13. ASSUME NEW k \in 1 .. N
       PROVE  Before[k] = Before[k - 1] \cup NextRound(Before[k - 1])
  <2>1. k \in 0 .. N /\ k # 0
    BY <1>1
  <2> QED
    BY <1>11, <2>1
<1> DEFINE I == { k \in Nat : k <= N => Before[k] \subseteq nodes }
<1>14. 0 \in I
  BY <1>12
<1>15. ASSUME NEW k \in Nat, k \in I PROVE k + 1 \in I
  <2>1. SUFFICES ASSUME k + 1 <= N PROVE Before[k + 1] \subseteq nodes
    OBVIOUS
  <2>2. Before[k] \subseteq nodes
    BY <1>1, <1>15, <2>1
  <2>3. k + 1 \in 1 .. N /\ (k + 1) - 1 = k
    BY <1>1, <2>1
  <2>4. Before[k + 1] = Before[k] \cup NextRound(Before[k])
    BY <1>13, <2>3
  <2>5. Before[k] \cup NextRound(Before[k]) \in S
    BY <1>2, <2>2
  <2> QED
    BY <2>4, <2>5
<1>16. Nat \subseteq I
  <2> HIDE DEF I
  <2> QED
    BY <1>14, <1>15, SetInduction
<1>17. \A k \in 0 .. N : Before[k] \subseteq nodes
  BY <1>1, <1>16
<1> QED
  BY <1>12, <1>13, <1>17 DEF N

\* What has run stays run.
LEMMA BeforeGrows ==
  ASSUME nodes \subseteq Ids, NEW q \in 0 .. Cardinality(nodes), NEW r \in 0 .. Cardinality(nodes),
         q <= r
  PROVE  Before[q] \subseteq Before[r]
<1> DEFINE N == Cardinality(nodes)
           I == { k \in Nat : q <= k /\ k <= N => Before[q] \subseteq Before[k] }
<1>1. N \in Nat
  BY GraphSize
<1> HIDE DEF N
<1>2. q \in Nat /\ r \in Nat /\ r <= N
  BY <1>1 DEF N
<1>3. 0 \in I
  <2>1. q <= 0 => q = 0
    BY <1>2
  <2> QED
    BY <2>1
<1>4. ASSUME NEW k \in Nat, k \in I PROVE k + 1 \in I
  <2>1. SUFFICES ASSUME q <= k + 1, k + 1 <= N PROVE Before[q] \subseteq Before[k + 1]
    OBVIOUS
  <2>2. CASE q = k + 1
    BY <2>2
  <2>3. CASE q <= k
    <3>1. Before[q] \subseteq Before[k]
      BY <1>1, <1>4, <2>1, <2>3
    <3>2. k + 1 \in 1 .. Cardinality(nodes) /\ (k + 1) - 1 = k
      BY <1>1, <2>1 DEF N
    <3>3. Before[k + 1] = Before[k] \cup NextRound(Before[k])
      BY <3>2, BeforeRecursion
    <3> QED
      BY <3>1, <3>3
  <2> QED
    BY <1>2, <2>1, <2>2, <2>3
<1>5. Nat \subseteq I
  <2> HIDE DEF I
  <2> QED
    BY <1>3, <1>4, SetInduction
<1> QED
  BY <1>2, <1>5

\* A node has one round.
LEMMA OneRound ==
  ASSUME nodes \subseteq Ids, NEW n,
         NEW q \in 1 .. Cardinality(nodes), NEW r \in 1 .. Cardinality(nodes),
         InRound(Before, n, q), InRound(Before, n, r)
  PROVE  q = r
<1> DEFINE N == Cardinality(nodes)
<1>1. N \in Nat
  BY GraphSize
<1> HIDE DEF N
<1>2. ASSUME NEW a \in 1 .. N, NEW b \in 1 .. N, InRound(Before, n, a), InRound(Before, n, b) PROVE ~ (a < b)
  <2> SUFFICES ASSUME a < b PROVE FALSE
    OBVIOUS
  <2>1. a \in 0 .. N /\ b - 1 \in 0 .. N /\ a <= b - 1
    BY <1>1
  <2>2. Before[a] \subseteq Before[b - 1]
    BY <2>1, BeforeGrows DEF N
  <2> QED
    BY <1>2, <2>2 DEF InRound
<1>3. q \in 1 .. N /\ r \in 1 .. N
  BY DEF N
<1>4. ~ (q < r) /\ ~ (r < q)
  BY <1>2, <1>3
<1> QED
  BY <1>1, <1>3, <1>4

\* What has run before a round has run in one.
LEMMA SomeRound ==
  ASSUME nodes \subseteq Ids, NEW r \in 0 .. Cardinality(nodes), NEW n \in Before[r]
  PROVE  \E q \in 1 .. Cardinality(nodes) : q <= r /\ InRound(Before, n, q)
<1> DEFINE N == Cardinality(nodes)
           T == { k \in Nat : k <= N /\ n \in Before[k] }
<1>1. N \in Nat
  BY GraphSize
<1>2. r \in T
  BY <1>1
<1>3. PICK q \in T : \A k \in T : q <= k
  <2> HIDE DEF T
  <2>1. T \in SUBSET Nat
    BY DEF T
  <2> QED
    BY <1>2, <2>1, LeastNat
<1>4. q # 0
  <2>1. Before[0] = {}
    BY BeforeRecursion
  <2> QED
    BY <1>3, <2>1
<1>5. q - 1 \in Nat /\ q - 1 <= N /\ ~ (q <= q - 1)
  BY <1>1, <1>4
<1>6. n \notin Before[q - 1]
  BY <1>3, <1>5
<1>7. q \in 1 .. N /\ q <= r
  BY <1>1, <1>2, <1>3, <1>4
<1> QED
  BY <1>6, <1>7 DEF InRound

\* A batch is not empty.
LEMMA FirstIsSome ==
  ASSUME NEW k \in Nat \ {0}, NEW S \in SUBSET Ids, S # {}
  PROVE  First(k, S) # {}
<1>1. S \in SUBSET Nat
  BY DagAssumption
<1>2. PICK x \in S : \A y \in S : x <= y
  BY <1>1, LeastNat
<1>3. { m \in S : m < x } = {}
  <2>1. \A m \in S : m \in Nat /\ x \in Nat /\ x <= m
    BY <1>1, <1>2
  <2>2. \A m \in S : ~ (m < x)
    BY <2>1
  <2> QED
    BY <2>2
<1>4. Cardinality({ m \in S : m < x }) = 0
  BY <1>3, FS_EmptySet
<1> QED
  BY <1>4 DEF First

\* Of a set of IDs, the first one is the least.
LEMMA FirstIsLeast ==
  ASSUME NEW S \in SUBSET Ids, NEW x \in First(1, S)
  PROVE  x \in S /\ \A m \in S \ {x} : x < m
<1> DEFINE Below == { m \in S : m < x }
<1>1. x \in S /\ Cardinality(Below) < 1
  BY DEF First
<1>2. Cardinality(Below) \in Nat /\ (Cardinality(Below) = 0 <=> Below = {})
  BY IdSets, ZeroIsEmpty
<1>3. Below = {}
  <2> HIDE DEF Below
  <2> QED
    BY <1>1, <1>2
<1>4. \A m \in S : m \in Nat /\ x \in Nat
  BY <1>1, DagAssumption
<1> QED
  BY <1>1, <1>3, <1>4

\* The rounds depend on the graph and the limit alone.
LEMMA SameRounds ==
  ASSUME UNCHANGED <<nodes, deps, limit>>
  PROVE  Before' = Before
BY DEF Before, First, Parallel

\* A step within a round.
LEMMA SameRound ==
  ASSUME RoundInv, UNCHANGED <<nodes, deps, limit, batch, allEvents, Settled>>,
         phase' \in {"scheduling", "waiting", "done"} => phase \in {"scheduling", "waiting", "done"},
         phase' = "waiting" => phase = "waiting"
  PROVE  RoundInv'
<1>1. Before' = Before
  BY SameRounds
<1>2. Collected' = Collected
  BY DEF Collected
<1>3. \A i, j \in 1 .. Len(allEvents') :
        i < j => Earlier(Before', Cardinality(nodes'), allEvents'[i].node, allEvents'[j].node)
  BY <1>1 DEF RoundInv
<1> QED
  BY <1>1, <1>2, <1>3 DEF RoundInv

LEMMA RoundPrepare == ASSUME DagInv, Prepare PROVE RoundInv'
<1>1. UNCHANGED <<nodes, deps, limit, batch, worker, allEvents>> /\ phase = "idle"
      /\ phase' = "scheduling"
  BY DEF Prepare, graphVars
<1>2. allEvents = << >> /\ batch = {} /\ \A n \in Ids : worker[n] = "none"
  BY <1>1 DEF DagInv, PhaseInv
<1>3. Settled' = {} /\ Before' = Before
  BY <1>1, <1>2, SameRounds DEF Settled, Ended
<1>4. Before[0] = {} /\ Cardinality(nodes) \in Nat
  BY BeforeRecursion, GraphSize DEF DagInv, TypeOK
<1>5. Cardinality(Settled') = 0
  BY <1>3, FS_EmptySet
<1>6. /\ 0 \in 0 .. Cardinality(nodes') /\ 0 <= Cardinality(Settled') /\ Settled' = Before'[0]
  BY <1>1, <1>3, <1>4, <1>5
<1>7. Len(allEvents') = 0
  BY <1>1, <1>2
<1> QED
  BY <1>1, <1>2, <1>6, <1>7 DEF RoundInv

\* In the scheduling phase, what is ready is what waits for nothing more.
LEMMA ReadyNodes ==
  ASSUME DagInv, phase = "scheduling"
  PROVE  /\ batch = {} /\ Settled = Ended
         /\ ready = { n \in nodes \ Settled : deps[n] \subseteq Settled }
<1>1. batch = {} /\ Settled = Ended
  BY DEF DagInv, PhaseInv, Settled
<1>2. ready = { n \in nodes : worker[n] = "none" /\ deps[n] \subseteq Settled }
  BY DEF DagInv, ReadyInv
<1>3. \A n \in nodes : worker[n] = "none" <=> n \notin Ended
  <2>1. nodes \subseteq Ids /\ \A n \in nodes : worker[n] \in {"none", "spawned", "running", "ended"}
    BY DEF DagInv, TypeOK
  <2>2. \A n \in nodes : worker[n] \notin {"spawned", "running"}
    BY <1>1, <2>1 DEF DagInv, WorkerInv
  <2> QED
    BY <2>1, <2>2 DEF Ended
<1> QED
  BY <1>1, <1>2, <1>3

LEMMA RoundDispatch == ASSUME DagInv, RoundInv, Dispatch PROVE RoundInv'
<1>1. /\ phase = "scheduling" /\ phase' = "waiting" /\ ready # {} /\ batch' = First(Parallel, ready)
      /\ UNCHANGED <<nodes, deps, limit, allEvents>>
      /\ \A n \in Ids : worker'[n] = IF n \in batch' THEN "spawned" ELSE worker[n]
  BY DEF Dispatch, graphVars
<1>2. /\ batch = {} /\ Settled = Ended
      /\ ready = { n \in nodes \ Settled : deps[n] \subseteq Settled }
  BY <1>1, ReadyNodes
<1>3. batch' = NextRound(Settled)
  BY <1>1, <1>2 DEF NextRound
<1>4. batch' \subseteq ready /\ nodes \subseteq Ids /\ Settled \subseteq nodes
  BY <1>1, <1>2, FirstIsSubset DEF DagInv, WorkerInv, TypeOK, Ended
<1>5. batch' # {}
  <2>1. Parallel \in Nat \ {0}
    BY DagAssumption DEF Parallel, DagInv, TypeOK
  <2>2. ready \in SUBSET Ids
    BY <1>2, <1>4
  <2> QED
    BY <1>1, <2>1, <2>2, FirstIsSome
<1>6. Settled' = Settled
  <2>1. \A n \in batch' : worker'[n] = "spawned" /\ n \notin Settled
    BY <1>1, <1>2, <1>4
  <2>2. Ended' = Ended
    BY <1>1, <1>2, <1>4, <2>1 DEF Ended
  <2> QED
    BY <1>2, <2>1, <2>2 DEF Settled
<1>7. PICK r \in 0 .. Cardinality(nodes) : r <= Cardinality(Settled) /\ Settled = Before[r]
  BY <1>1 DEF RoundInv
<1>8. /\ r + 1 <= Cardinality(Settled \cup batch') /\ r + 1 <= Cardinality(nodes)
  <2>1. PICK b : b \in batch'
    BY <1>5
  <2>2. IsFiniteSet(nodes) /\ Cardinality(nodes) \in Nat /\ IsFiniteSet(Settled)
        /\ Cardinality(Settled) \in Nat
    BY <1>4, GraphSize, IdSets
  <2>3. Cardinality(Settled \cup {b}) = Cardinality(Settled) + 1
    BY <1>2, <1>4, <2>1, <2>2, FS_AddElement
  <2>4. Settled \cup batch' \subseteq nodes /\ Settled \cup {b} \subseteq Settled \cup batch'
    BY <1>2, <1>4, <2>1
  <2>5. IsFiniteSet(Settled \cup batch') /\ Cardinality(Settled \cup batch') \in Nat
    BY <1>4, <2>4, IdSets
  <2>6. Cardinality(Settled \cup batch') <= Cardinality(nodes)
    BY <2>2, <2>4, FS_Subset
  <2>7. Cardinality(Settled \cup {b}) <= Cardinality(Settled \cup batch')
    BY <2>4, <2>5, FS_Subset
  <2> HIDE <1>7
  <2>8. r \in Nat /\ r <= Cardinality(Settled)
    BY <1>7, <2>2
  <2> QED
    BY <2>2, <2>3, <2>5, <2>6, <2>7, <2>8
<1>9. Before[r + 1] = Settled \cup batch'
  <2>1. Cardinality(nodes) \in Nat
    BY <1>4, GraphSize
  <2>2. r + 1 \in 1 .. Cardinality(nodes) /\ (r + 1) - 1 = r
    BY <1>8, <2>1
  <2>3. Before[r + 1] = Before[r] \cup NextRound(Before[r])
    BY <1>4, <2>2, BeforeRecursion
  <2> QED
    BY <1>3, <1>7, <2>3
<1>10. Before' = Before
  BY <1>1, SameRounds
<1>11. \A i, j \in 1 .. Len(allEvents') :
        i < j => Earlier(Before', Cardinality(nodes'), allEvents'[i].node, allEvents'[j].node)
  BY <1>1, <1>10 DEF RoundInv
<1>12. Collected' = Collected /\ batch' \cap Collected = {}
  BY <1>1, <1>2, <1>4 DEF Collected, DagInv, EventsInv
<1> QED
  BY <1>1, <1>6, <1>7, <1>8, <1>9, <1>10, <1>11, <1>12 DEF RoundInv

LEMMA RoundCollect == ASSUME DagInv, RoundInv, Collect PROVE RoundInv'
<1>1. /\ phase = "waiting" /\ phase' = phase
      /\ UNCHANGED <<nodes, deps, limit, batch, worker, results>>
  BY DEF Collect, graphVars
<1>2. PICK n \in First(1, batch \ Collected) :
         allEvents' = Append(allEvents, [node |-> n, ok |-> results[n]])
  BY DEF Collect
<1>3. nodes \subseteq Ids /\ batch \subseteq nodes
  BY DEF DagInv, TypeOK
<1>4. n \in batch \ Collected /\ \A m \in (batch \ Collected) \ {n} : n < m
  BY <1>3, FirstIsLeast
<1> DEFINE e == [node |-> n, ok |-> results[n]]
           L == Len(allEvents)
<1>5. e \in [node : Ids, ok : BOOLEAN] /\ e.node = n
  BY <1>3, <1>4 DEF DagInv, TypeOK
<1> HIDE DEF e
<1>6. /\ Len(allEvents') = L + 1 /\ L \in Nat
      /\ \A i \in 1 .. L : allEvents'[i] = allEvents[i]
      /\ allEvents'[L + 1] = e
      /\ Collected' = Collected \cup {n}
  BY <1>2, <1>5, Appended DEF DagInv, e
<1>7. Settled' = Settled
  BY <1>1 DEF Settled, Ended
<1>8. Before' = Before
  BY <1>1, SameRounds
<1>9. \A m \in batch \cap Collected', k \in batch \ Collected' : m < k
  BY <1>4, <1>6 DEF RoundInv
<1>10. PICK r \in 0 .. Cardinality(nodes) :
         /\ r <= Cardinality(Settled) /\ Settled = Before[r]
         /\ r + 1 <= Cardinality(Settled \cup batch) /\ r + 1 <= Cardinality(nodes)
         /\ Before[r + 1] = Settled \cup batch
  BY <1>1 DEF RoundInv
<1>11. Cardinality(nodes) \in Nat /\ r \in Nat /\ r + 1 \in 1 .. Cardinality(nodes) /\ (r + 1) - 1 = r
  BY <1>3, <1>10, GraphSize
<1>12. \A b \in batch : InRound(Before, b, r + 1)
  BY <1>10, <1>11 DEF InRound, Settled
<1>13. ASSUME NEW i \in 1 .. L PROVE Earlier(Before, Cardinality(nodes), allEvents[i].node, n)
  <2> DEFINE m == allEvents[i].node
  <2> SUFFICES Earlier(Before, Cardinality(nodes), m, n)
    OBVIOUS
  <2>1. m \in Collected /\ m \in Ended
    BY DEF Collected, DagInv, EventsInv
  <2> HIDE DEF m
  <2>2. CASE m \in Settled
    <3>1. PICK q \in 1 .. Cardinality(nodes) : q <= r /\ InRound(Before, m, q)
      BY <1>3, <1>10, <2>2, SomeRound
    <3>2. q < r + 1
      BY <1>11, <3>1
    <3> QED
      BY <1>4, <1>11, <1>12, <3>1, <3>2 DEF Earlier
  <2>3. CASE m \in batch
    <3>1. m < n
      BY <1>4, <2>1, <2>3 DEF RoundInv
    <3> QED
      BY <1>4, <1>11, <1>12, <2>3, <3>1 DEF Earlier
  <2> QED
    BY <2>1, <2>2, <2>3 DEF Settled
<1>14. ASSUME NEW i \in 1 .. Len(allEvents'), NEW j \in 1 .. Len(allEvents'), i < j
       PROVE  Earlier(Before', Cardinality(nodes'), allEvents'[i].node, allEvents'[j].node)
  <2>1. i \in 1 .. L /\ allEvents'[i] = allEvents[i]
    BY <1>6, <1>14
  <2>2. CASE j \in 1 .. L
    <3>1. allEvents'[j] = allEvents[j]
      BY <1>6, <2>2
    <3>2. Earlier(Before, Cardinality(nodes), allEvents[i].node, allEvents[j].node)
      BY <1>14, <2>1, <2>2 DEF RoundInv
    <3> QED
      BY <1>1, <1>8, <2>1, <3>1, <3>2
  <2>3. CASE j = L + 1
    <3>1. allEvents'[j].node = n
      BY <1>5, <1>6, <2>3
    <3> QED
      BY <1>1, <1>8, <1>13, <2>1, <3>1
  <2> QED
    BY <1>6, <2>2, <2>3
<1> QED
  BY <1>1, <1>7, <1>8, <1>9, <1>10, <1>14 DEF RoundInv

LEMMA RoundUpdate == ASSUME DagInv, RoundInv, Update PROVE RoundInv'
<1>1. /\ phase = "waiting" /\ phase' = "scheduling" /\ batch \subseteq Collected /\ batch' = {}
      /\ UNCHANGED <<nodes, deps, limit, worker, allEvents>>
  BY DEF Update, graphVars
<1>2. Settled' = Settled \cup batch
  <2>1. batch \subseteq Ended
    BY <1>1 DEF DagInv, EventsInv
  <2> QED
    BY <1>1, <2>1 DEF Settled, Ended
<1>3. PICK r \in 0 .. Cardinality(nodes) :
         /\ r <= Cardinality(Settled) /\ Settled = Before[r]
         /\ r + 1 <= Cardinality(Settled \cup batch) /\ r + 1 <= Cardinality(nodes)
         /\ Before[r + 1] = Settled \cup batch
  BY <1>1 DEF RoundInv
<1>4. Before' = Before
  BY <1>1, SameRounds
<1>5. r + 1 \in 0 .. Cardinality(nodes)
  <2>1. Cardinality(nodes) \in Nat
    BY GraphSize DEF DagInv, TypeOK
  <2> QED
    BY <1>3, <2>1
<1>6. \A i, j \in 1 .. Len(allEvents') :
        i < j => Earlier(Before', Cardinality(nodes'), allEvents'[i].node, allEvents'[j].node)
  BY <1>1, <1>4 DEF RoundInv
<1> QED
  BY <1>1, <1>2, <1>3, <1>4, <1>5, <1>6 DEF RoundInv

-----------------------------------------------------------------------------
(* The theorems *)

\* DagInv is an invariant of Run.
THEOREM Inductive == Spec => []DagInv
<1>1. Init => DagInv
  BY InitInv
<1>2. DagInv /\ [Next]_vars => DagInv'
  <2> SUFFICES ASSUME DagInv, [Next]_vars PROVE DagInv'
    OBVIOUS
  <2>1. CASE UNCHANGED vars
    <3>1. UNCHANGED <<nodes, deps, limit, phase, indegree, ready, batch, worker, results,
                      allEvents>>
      BY <2>1 DEF vars, graphVars, runVars
    <3>2. TypeOK' /\ PhaseInv' /\ ReadyInv'
      BY <3>1, SameRun DEF DagInv, TypeOK, PhaseInv, ReadyInv
    <3> QED
      BY <3>1, <3>2, SameRun DEF DagInv
  <2>2. CASE \E n \in Ids : StartNode(n) \/ \E ok \in BOOLEAN : EndNode(n, ok)
    BY <2>2, StartStep, EndStep
  <2> QED
    BY <2>1, <2>2, UnknownStep, PrepareStep, DispatchStep, CollectStep, UpdateStep,
       ReturnStep DEF Next
<1> QED
  BY <1>1, <1>2, PTL DEF Spec

\* Type correctness of the executor.
THEOREM TypeCorrect == Spec => []TypeOK
<1>1. DagInv => TypeOK
  BY DEF DagInv
<1> QED
  BY <1>1, Inductive, PTL

\* The events come in topological order, for every graph (executor.go:19).
THEOREM TopologicalEvents == Spec => []EventsInOrder
<1>1. DagInv => EventsInOrder
  BY DEF DagInv
<1> QED
  BY <1>1, Inductive, PTL

\* A run that ends without an error leaves out cycles and what hangs on them, and
\* nothing else (executor.go:59-106).
THEOREM NothingElseLeftOut == Spec => []OnlyCyclesLeftOut
<1>1. DagInv => OnlyCyclesLeftOut
  <2> SUFFICES ASSUME DagInv, phase = "done", NEW n \in nodes \ Collected
               PROVE  \E d \in deps[n] : d \notin Collected
    BY DEF OnlyCyclesLeftOut
  <2>1. batch = {} /\ ready = {}
    BY DEF DagInv, PhaseInv
  <2>2. Settled = Ended /\ Collected = Ended
    BY <2>1 DEF DagInv, EventsInv, Settled
  <2>3. worker[n] = "none"
    BY <2>1, <2>2 DEF DagInv, TypeOK, WorkerInv, Ended
  <2>4. ~ (deps[n] \subseteq Settled)
    BY <2>1, <2>3 DEF DagInv, ReadyInv
  <2> QED
    BY <2>2, <2>4
<1> QED
  BY <1>1, Inductive, PTL

\* Run implements TopologicalRun: its goroutines start each node once, after its
\* dependencies, at most MaxParallel at a time (executor.go:59-104).
THEOREM Refinement == Spec => RunsInOrder
<1>1. Init => Topological!Init
  BY DEF Init, Reset, Topological!Init, Running, Ended
<1>2. DagInv /\ [Next]_vars => [Topological!Next]_Topological!vars
  <2> SUFFICES ASSUME DagInv, [Next]_vars
               PROVE  [Topological!Next]_Topological!vars
    OBVIOUS
  <2>1. worker \in [Ids -> {"none", "spawned", "running", "ended"}] /\ nodes \subseteq Ids
    BY DEF DagInv, TypeOK
  <2>2. ASSUME NEW n \in Ids, StartNode(n) PROVE Topological!Start(n)
    <3>1. worker[n] = "spawned" /\ n \in nodes /\ deps[n] \subseteq Ended
      BY <2>2 DEF StartNode, DagInv, WorkerInv, Settled
    <3>2. \A m \in Ids : worker'[m] = IF m = n THEN "running" ELSE worker[m]
      BY <2>1, <2>2 DEF StartNode
    <3>3. Ended' = Ended /\ Running' = Running \cup {n}
      BY <3>1, <3>2 DEF Ended, Running
    <3>4. (Running \cup Ended) \ Ended = Running /\ n \notin Running \cup Ended
      BY <3>1 DEF Ended, Running
    <3>5. Cardinality(Running) < Parallel /\ Parallel' = Parallel
      BY <2>2 DEF StartNode, graphVars, Parallel
    <3>6. Running' \cup Ended' = (Running \cup Ended) \cup {n}
      BY <3>3
    <3>7. Topological!Cardinality((Running \cup Ended) \ Ended) < Parallel
      <4>1. Topological!Cardinality(Running) = Cardinality(Running)
        BY DEF Cardinality, Topological!Cardinality
      <4> QED
        BY <3>4, <3>5, <4>1
    <3>8. UNCHANGED <<nodes, deps>>
      BY <2>2 DEF StartNode, graphVars
    <3> QED
      BY <3>1, <3>3, <3>4, <3>5, <3>6, <3>7, <3>8 DEF Topological!Start
  <2>3. ASSUME NEW n \in Ids, NEW ok \in BOOLEAN, EndNode(n, ok) PROVE Topological!End(n)
    <3>1. worker[n] = "running"
      BY <2>3 DEF EndNode
    <3>2. \A m \in Ids : worker'[m] = IF m = n THEN "ended" ELSE worker[m]
      BY <2>1, <2>3 DEF EndNode
    <3>3. Ended' = Ended \cup {n} /\ Running' = Running \ {n}
      BY <3>1, <3>2 DEF Ended, Running
    <3>4. n \in (Running \cup Ended) \ Ended
      BY <3>1 DEF Ended, Running
    <3>5. Running' \cup Ended' = Running \cup Ended
      BY <3>3, <3>4
    <3>6. Parallel' = Parallel
      BY <2>3 DEF EndNode, graphVars, Parallel
    <3> QED
      BY <2>3, <3>3, <3>4, <3>5, <3>6 DEF Topological!End, EndNode, graphVars
  <2>4. CASE \E n \in Ids : StartNode(n) \/ \E ok \in BOOLEAN : EndNode(n, ok)
    <3>1. PICK n \in Ids : StartNode(n) \/ \E ok \in BOOLEAN : EndNode(n, ok)
      BY <2>4
    <3>2. n \in nodes
      BY <3>1 DEF StartNode, EndNode, DagInv, WorkerInv
    <3> QED
      BY <2>2, <2>3, <3>1, <3>2 DEF Topological!Next
  <2>5. CASE UNCHANGED <<nodes, deps, limit, worker>>
    BY <2>5 DEF Topological!vars, Running, Ended, Parallel
  <2>6. ASSUME Dispatch PROVE Running' = Running /\ Ended' = Ended
    <3>1. batch' \subseteq ready
      BY <2>6, FirstIsSubset DEF Dispatch
    <3>2. \A n \in ready : worker[n] = "none"
      BY <2>6 DEF Dispatch, DagInv, ReadyInv
    <3>3. \A n \in Ids : worker'[n] = IF n \in batch' THEN "spawned" ELSE worker[n]
      BY <2>6 DEF Dispatch
    <3> QED
      BY <3>1, <3>2, <3>3 DEF Running, Ended
  <2>7. ASSUME Dispatch PROVE UNCHANGED Topological!vars
    BY <2>6, <2>7 DEF Topological!vars, Dispatch, graphVars, Parallel
  <2>8. ASSUME UnknownDependency \/ Prepare \/ Collect \/ Update \/ Return
        PROVE  UNCHANGED <<nodes, deps, limit, worker>>
    BY <2>8 DEF UnknownDependency, Prepare, Collect, Update, Return, graphVars
  <2>9. ASSUME UNCHANGED vars PROVE UNCHANGED <<nodes, deps, limit, worker>>
    BY <2>9 DEF vars, graphVars, runVars
  <2> QED
    BY <2>4, <2>5, <2>7, <2>8, <2>9 DEF Next
<1> QED
  BY <1>1, <1>2, Inductive, PTL DEF Spec, RunsInOrder, Topological!Spec

\* The events come round by round, and by ID within a round, whichever goroutines are
\* faster (executor.go:87-103).
THEOREM OrderIsReproducible == Spec => []Reproducible
<1>1. Init => RoundInv
  <2> SUFFICES ASSUME Init PROVE RoundInv
    OBVIOUS
  <2>1. phase = "idle" /\ batch = {} /\ Len(allEvents) = 0
    BY DEF Init, Reset
  <2> QED
    BY <2>1 DEF RoundInv
<1>2. DagInv /\ RoundInv /\ [Next]_vars => RoundInv'
  <2> SUFFICES ASSUME DagInv, RoundInv, [Next]_vars PROVE RoundInv'
    OBVIOUS
  <2>1. CASE UNCHANGED vars
    <3>1. UNCHANGED <<nodes, deps, limit, phase, batch, worker, allEvents>>
      BY <2>1 DEF vars, graphVars, runVars
    <3> QED
      BY <3>1, SameRun, SameRound
  <2>2. CASE UnknownDependency \/ Return
    <3>1. /\ UNCHANGED <<nodes, deps, limit, batch, worker, allEvents>> /\ phase' \in {"failed", "done"}
          /\ phase' = "done" => phase = "scheduling"
      BY <2>2 DEF UnknownDependency, Return, graphVars
    <3> QED
      BY <3>1, SameRun, SameRound
  <2>3. ASSUME NEW n \in Ids, NEW ok \in BOOLEAN, StartNode(n) \/ EndNode(n, ok)
        PROVE  RoundInv'
    <3>1. UNCHANGED <<nodes, deps, limit, batch, allEvents, phase>>
      BY <2>3 DEF StartNode, EndNode, graphVars
    <3>2. n \in batch
      BY <2>3 DEF StartNode, EndNode, DagInv, WorkerInv
    <3>3. \A m \in Ids \ {n} : worker'[m] = worker[m]
      BY <2>3 DEF StartNode, EndNode, DagInv, TypeOK
    <3>4. Settled' = Settled
      BY <3>1, <3>2, <3>3 DEF Settled, Ended
    <3> QED
      BY <3>1, <3>4, SameRound
  <2>4. CASE \E n \in Ids : StartNode(n) \/ \E ok \in BOOLEAN : EndNode(n, ok)
    <3>1. PICK n \in Ids, ok \in BOOLEAN : StartNode(n) \/ EndNode(n, ok)
      BY <2>4
    <3> QED
      BY <2>3, <3>1
  <2> QED
    BY <2>1, <2>2, <2>4, RoundPrepare, RoundDispatch, RoundCollect, RoundUpdate DEF Next
<1>3. DagInv /\ RoundInv => Reproducible
  <2> SUFFICES ASSUME DagInv, RoundInv PROVE Reproducible
    OBVIOUS
  <2> DEFINE Round(k) == CHOOSE r \in 1 .. Cardinality(nodes) :
                           allEvents[k].node \in Before[r] \ Before[r - 1]
  <2>1. ASSUME NEW k, NEW r \in 1 .. Cardinality(nodes), InRound(Before, allEvents[k].node, r)
        PROVE  Round(k) = r
    <3>1. /\ Round(k) \in 1 .. Cardinality(nodes)
          /\ allEvents[k].node \in Before[Round(k)] \ Before[Round(k) - 1]
      BY <2>1 DEF InRound
    <3> HIDE DEF Round
    <3>2. InRound(Before, allEvents[k].node, Round(k))
      BY <3>1 DEF InRound
    <3> QED
      BY <2>1, <3>1, <3>2, OneRound DEF DagInv, TypeOK
  <2>2. ASSUME NEW i \in 1 .. Len(allEvents), NEW j \in 1 .. Len(allEvents), i < j
        PROVE  \/ Round(i) < Round(j)
               \/ Round(i) = Round(j) /\ allEvents[i].node < allEvents[j].node
    <3>1. Earlier(Before, Cardinality(nodes), allEvents[i].node, allEvents[j].node)
      BY <2>2 DEF RoundInv
    <3>2. PICK q \in 1 .. Cardinality(nodes), r \in 1 .. Cardinality(nodes) :
             /\ InRound(Before, allEvents[i].node, q) /\ InRound(Before, allEvents[j].node, r)
             /\ q < r \/ (q = r /\ allEvents[i].node < allEvents[j].node)
      BY <3>1 DEF Earlier
    <3>3. Round(i) = q /\ Round(j) = r
      BY <2>1, <3>2
    <3> HIDE DEF Round
    <3> QED
      BY <3>2, <3>3
  <2> QED
    BY <2>2 DEF Reproducible
<1> QED
  BY <1>1, <1>2, <1>3, Inductive, PTL DEF Spec
=============================================================================
