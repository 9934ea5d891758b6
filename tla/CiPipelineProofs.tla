-------------------------- MODULE CiPipelineProofs --------------------------
(***************************************************************************)
(* Proofs about CiPipeline, for every number of jobs and steps, every set  *)
(* of jobs, every set of failing commands and every parallelism.           *)
(***************************************************************************)
EXTENDS CiPipeline, DagExecutorProofs

\* What BuildDAG plans for the jobs.
PlannedJobs == Range(ResolveJobOrder(jobs))
PlanNodes == GraphNodes(PlannedJobs)
PlanDeps == [n \in Ids |-> StepDeps(PlannedJobs, n) \cup EndDeps(PlannedJobs, n)]

\* The graph of a task is the plan; between tasks nothing has run.
PlanInv ==
  /\ jobs \in [Jobs -> Inputs]
  /\ order = IF ran \/ task # "none" THEN ResolveJobOrder(jobs) ELSE << >>
  /\ task # "none" => nodes = PlanNodes /\ deps = PlanDeps
  /\ task = "none" => phase = "idle" /\ nodes = {} /\ logged = 0

\* Only the run takes the parallelism that was asked for, and it comes first.
TaskInv ==
  /\ (task = "none" /\ ~ran) => file = [f \in Files |-> << >>]
  /\ task = "run" => ~ran /\ limit = asked
  /\ task \in {"replay", "certify"} => ran /\ limit = 1

Nodes(es, k) == { es[i].node : i \in 1 .. k }

\* es is what a run of a graph without parallelism returns, up to where it got: each time
\* the first of the nodes that are ready.
OneByOne(es, ns, ds) ==
  /\ es \in Seq([node : Ids, ok : BOOLEAN])
  /\ \A i \in 1 .. Len(es) :
       /\ es[i].node \in
            First(1, { n \in ns \ Nodes(es, i - 1) : ds[n] \subseteq Nodes(es, i - 1) })
       /\ es[i].ok = (es[i].node \notin failing)

\* Without parallelism a batch is the first node that is ready.
SequentialInv ==
  task # "none" =>
    /\ \A n \in Ids : worker[n] = "ended" => results[n] = (n \notin failing)
    /\ limit = 1 =>
         /\ batch \subseteq First(1, { n \in nodes \ Settled : deps[n] \subseteq Settled })
         /\ OneByOne(allEvents, nodes, deps)

\* The events of a run without parallelism, and their lines in a file.
LinesOf(es) == FlattenSeq([i \in 1 .. Len(es) |-> EventsOf(es[i].node, es[i].ok)])
Complete(es) == OneByOne(es, PlanNodes, PlanDeps) /\ Nodes(es, Len(es)) = PlanNodes
PlanLines == LinesOf(CHOOSE es : Complete(es))

Unjudged(kind) == \A i \in 1 .. Len(verdicts) : verdicts[i].kind # kind

\* What a file holds that only its first execution has written to.
Copy(t) == IF task = t THEN SubSeq(Log, 1, logged) ELSE << >>

\* A run without parallelism, chaos and failures leaves the lines of the plan, and so does
\* the first check of each kind.
FilesInv ==
  (asked = 1 /\ dirty = {} /\ CanRead("wal")) =>
    /\ file["wal"] = IF ran THEN PlanLines ELSE Copy("run")
    /\ Unjudged("replay") => file["replay"] = Copy("replay")
    /\ Unjudged("certificate") => file["cert"] = Copy("certify")

PipelineInv ==
  /\ DagInv /\ PipelineTypeOK /\ PlanInv /\ TaskInv /\ SequentialInv /\ FilesInv
  /\ SequentialRunPasses

-----------------------------------------------------------------------------
(* The sorted sequence of a set *)

\* sort.Strings lists the members of a set once each, in ascending order.
LEMMA SortedEnumerates ==
  ASSUME NEW S \in SUBSET Nat, IsFiniteSet(S)
  PROVE  /\ Cardinality(S) \in Nat
         /\ Sorted(S) \in [1 .. Cardinality(S) -> S]
         /\ \A x \in S : \E k \in 1 .. Cardinality(S) : Sorted(S)[k] = x
         /\ \A i, j \in 1 .. Cardinality(S) : i < j => Sorted(S)[i] < Sorted(S)[j]
<1> DEFINE n == Cardinality(S)
           Below(x) == { m \in S : m < x }
           Rank(x) == Cardinality(Below(x))
<1>1. n \in Nat
  BY FS_CardinalityType
<1>2. ASSUME NEW x \in S
      PROVE  IsFiniteSet(Below(x)) /\ Rank(x) \in Nat /\ Rank(x) <= n - 1
  <2>1. Below(x) \subseteq S \ {x}
    OBVIOUS
  <2>2. IsFiniteSet(S \ {x}) /\ Cardinality(S \ {x}) = n - 1
    BY FS_RemoveElement
  <2> HIDE DEF Below
  <2>3. IsFiniteSet(Below(x)) /\ Cardinality(Below(x)) <= n - 1
    BY <2>1, <2>2, FS_Subset
  <2>4. Cardinality(Below(x)) \in Nat
    BY <2>3, FS_CardinalityType
  <2> QED
    BY <2>3, <2>4
<1>3. ASSUME NEW x \in S, NEW y \in S, x < y
      PROVE  Rank(x) < Rank(y)
  <2>1. Below(x) \cup {x} \subseteq Below(y) /\ x \notin Below(x)
    <3>1. x \in Nat /\ y \in Nat
      OBVIOUS
    <3>2. x \notin Below(x) /\ x \in Below(y)
      BY <1>3, <3>1
    <3>3. ASSUME NEW m \in Below(x) PROVE m \in Below(y)
      <4>1. m \in Nat /\ m < x
        OBVIOUS
      <4>2. m < y
        BY <1>3, <3>1, <4>1
      <4> QED
        BY <4>2
    <3> HIDE DEF Below
    <3> QED
      BY <3>2, <3>3
  <2>2. IsFiniteSet(Below(x)) /\ IsFiniteSet(Below(y)) /\ Rank(x) \in Nat /\ Rank(y) \in Nat
    BY <1>2
  <2> HIDE DEF Below
  <2>3. Cardinality(Below(x) \cup {x}) = Cardinality(Below(x)) + 1
    BY <2>1, <2>2, FS_AddElement
  <2>4. Cardinality(Below(x) \cup {x}) <= Cardinality(Below(y))
    BY <2>1, <2>2, FS_Subset
  <2> QED
    BY <2>2, <2>3, <2>4
<1>4. \A m, x : x \in First(m, S) <=> x \in S /\ Rank(x) < m
  BY DEF First
<1> HIDE DEF n, Below, Rank
<1>5. ASSUME NEW x \in S, NEW y \in S, Rank(x) = Rank(y)
      PROVE  x = y
  <2>1. ~ (x < y) /\ ~ (y < x)
    BY <1>2, <1>3, <1>5
  <2> QED
    BY <2>1
<1>6. ASSUME NEW k \in 1 .. n PROVE \E x \in S : Rank(x) = k - 1
  <2> DEFINE places == 0 .. n - 1
             rank == [x \in S |-> Rank(x)]
  <2>1. IsFiniteSet(places) /\ Cardinality(places) = n
    BY <1>1, FS_Interval
  <2>2. rank \in [S -> places] /\ k - 1 \in places
    BY <1>1, <1>2
  <2>3. \A x \in S : rank[x] = Rank(x)
    OBVIOUS
  <2> HIDE DEF rank, places
  <2>4. rank \in Injection(S, places)
    BY <1>5, <2>2, <2>3 DEF Injection, IsInjective
  <2>5. rank \in Surjection(S, places)
    BY <2>1, <2>4, FS_Injection DEF n
  <2> QED
    BY <2>2, <2>3, <2>5 DEF Surjection
<1>7. ASSUME NEW k \in 1 .. n
      PROVE  Sorted(S)[k] \in S /\ Rank(Sorted(S)[k]) = k - 1
  <2>1. PICK x \in S : Rank(x) = k - 1
    BY <1>6
  <2>2. x \in First(k, S) /\ x \notin First(k - 1, S)
    BY <1>1, <1>4, <2>1
  <2>3. Sorted(S)[k] \in First(k, S) /\ Sorted(S)[k] \notin First(k - 1, S)
    BY <2>2 DEF Sorted, n
  <2>4. Sorted(S)[k] \in S /\ Rank(Sorted(S)[k]) < k /\ ~ (Rank(Sorted(S)[k]) < k - 1)
    BY <1>4, <2>3
  <2>5. Rank(Sorted(S)[k]) \in Nat
    BY <1>2, <2>4
  <2> QED
    BY <1>1, <2>4, <2>5
<1>8. Sorted(S) \in [1 .. n -> S]
  <2>1. \A k \in 1 .. n : Sorted(S)[k] \in S
    BY <1>7
  <2>2. Sorted(S) = [k \in 1 .. n |-> CHOOSE j \in First(k, S) : j \notin First(k - 1, S)]
    BY DEF Sorted, n
  <2> QED
    BY <2>1, <2>2
<1>9. ASSUME NEW x \in S PROVE \E k \in 1 .. n : Sorted(S)[k] = x
  <2>1. PICK k \in 1 .. n : k - 1 = Rank(x)
    <3>1. ASSUME NEW r \in Nat, r <= n - 1 PROVE \E k \in 1 .. n : k - 1 = r
      <4>1. r + 1 \in 1 .. n /\ (r + 1) - 1 = r
        BY <1>1, <3>1
      <4> QED
        BY <4>1
    <3> QED
      BY <1>2, <3>1
  <2> QED
    BY <1>5, <1>7, <2>1
<1>10. ASSUME NEW i \in 1 .. n, NEW j \in 1 .. n, i < j
       PROVE  Sorted(S)[i] < Sorted(S)[j]
  <2> DEFINE x == Sorted(S)[i]
             y == Sorted(S)[j]
  <2>1. x \in S /\ y \in S /\ Rank(x) = i - 1 /\ Rank(y) = j - 1
    BY <1>7
  <2> HIDE DEF x, y
  <2>2. ~ (y < x) /\ x # y
    BY <1>1, <1>3, <1>10, <2>1
  <2>3. x < y
    BY <2>1, <2>2
  <2> QED
    BY <2>3 DEF x, y
<1> QED
  BY <1>1, <1>8, <1>9, <1>10 DEF n

\* A sequence and what it lists, one element at a time.
LEMMA Listed ==
  ASSUME NEW S, NEW s \in Seq(S)
  PROVE  /\ Len(s) \in Nat /\ DOMAIN s = 1 .. Len(s)
         /\ Range(s) = { s[i] : i \in 1 .. Len(s) } /\ Range(s) \subseteq S
         /\ IsInjective(s) <=> \A i, j \in 1 .. Len(s) : s[i] = s[j] => i = j
<1>1. Len(s) \in Nat /\ DOMAIN s = 1 .. Len(s)
  BY LenProperties
<1> QED
  BY <1>1, RangeEquality, RangeOfSeq DEF IsInjective

\* Appending an element that is not listed yet.
LEMMA ListOneMore ==
  ASSUME NEW S, NEW s \in Seq(S), NEW e \in S, IsInjective(s), e \notin Range(s)
  PROVE  /\ Append(s, e) \in Seq(S) /\ Len(Append(s, e)) = Len(s) + 1
         /\ Range(Append(s, e)) = Range(s) \cup {e}
         /\ IsInjective(Append(s, e))
<1> DEFINE t == Append(s, e)
<1>1. /\ t \in Seq(S) /\ Len(t) = Len(s) + 1 /\ t[Len(s) + 1] = e
      /\ \A i \in 1 .. Len(s) : t[i] = s[i]
  BY AppendProperties
<1> HIDE DEF t
<1>2. /\ Len(s) \in Nat /\ Range(s) = { s[i] : i \in 1 .. Len(s) }
      /\ \A i, j \in 1 .. Len(s) : s[i] = s[j] => i = j
  BY Listed
<1>3. Range(t) = { t[i] : i \in 1 .. Len(t) }
  BY <1>1, Listed
<1>4. Range(t) = Range(s) \cup {e}
  BY <1>1, <1>2, <1>3
<1>5. ASSUME NEW i \in 1 .. Len(t), NEW j \in 1 .. Len(t), t[i] = t[j]
      PROVE  i = j
  <2>1. CASE i \in 1 .. Len(s) /\ j \in 1 .. Len(s)
    BY <1>1, <1>2, <1>5, <2>1
  <2>2. CASE i = Len(s) + 1 /\ j \in 1 .. Len(s)
    <3>1. t[j] = s[j] /\ t[i] = e /\ s[j] \in Range(s)
      BY <1>1, <1>2, <2>2
    <3> QED
      BY <1>5, <3>1
  <2>3. CASE j = Len(s) + 1 /\ i \in 1 .. Len(s)
    <3>1. t[i] = s[i] /\ t[j] = e /\ s[i] \in Range(s)
      BY <1>1, <1>2, <2>3
    <3> QED
      BY <1>5, <3>1
  <2>4. CASE i = Len(s) + 1 /\ j = Len(s) + 1
    BY <2>4
  <2> QED
    BY <1>1, <1>2, <2>1, <2>2, <2>3, <2>4
<1>6. IsInjective(t)
  BY <1>1, <1>5, Listed
<1> QED
  BY <1>1, <1>4, <1>6 DEF t

\* Taking the head off takes it out of what is listed.
LEMMA ListOneLess ==
  ASSUME NEW S, NEW s \in Seq(S), s # << >>, IsInjective(s)
  PROVE  /\ Head(s) \in Range(s)
         /\ Tail(s) \in Seq(S) /\ IsInjective(Tail(s))
         /\ Range(Tail(s)) = Range(s) \ {Head(s)}
<1> DEFINE t == Tail(s)
<1>1. /\ t \in Seq(S) /\ Len(t) = Len(s) - 1 /\ Len(s) \in Nat \ {0}
      /\ \A i \in 1 .. Len(t) : t[i] = s[i + 1]
  BY HeadTailProperties, EmptySeq
<1>2. Head(s) = s[1]
  OBVIOUS
<1> HIDE DEF t
<1>3. /\ Range(s) = { s[i] : i \in 1 .. Len(s) }
      /\ \A i, j \in 1 .. Len(s) : s[i] = s[j] => i = j
  BY Listed
<1>4. Range(t) = { t[i] : i \in 1 .. Len(t) }
  BY <1>1, Listed
<1>5. Head(s) \in Range(s)
  BY <1>1, <1>2, <1>3
<1>6. ASSUME NEW x \in Range(t) PROVE x \in Range(s) \ {Head(s)}
  <2>1. PICK i \in 1 .. Len(t) : x = t[i]
    BY <1>4
  <2>2. i + 1 \in 1 .. Len(s) /\ i + 1 # 1 /\ x = s[i + 1] /\ 1 \in 1 .. Len(s)
    BY <1>1, <2>1
  <2> QED
    BY <1>2, <1>3, <2>2
<1>7. ASSUME NEW x \in Range(s) \ {Head(s)} PROVE x \in Range(t)
  <2>1. PICK i \in 1 .. Len(s) : x = s[i]
    BY <1>3
  <2>2. i # 1
    BY <1>2, <2>1
  <2>3. i - 1 \in 1 .. Len(t) /\ (i - 1) + 1 = i
    BY <1>1, <2>2
  <2>4. t[i - 1] = x
    BY <1>1, <2>1, <2>3
  <2> QED
    BY <1>4, <2>3, <2>4
<1>8. ASSUME NEW i \in 1 .. Len(t), NEW j \in 1 .. Len(t), t[i] = t[j]
      PROVE  i = j
  <2>1. i + 1 \in 1 .. Len(s) /\ j + 1 \in 1 .. Len(s) /\ s[i + 1] = s[j + 1]
    BY <1>1, <1>8
  <2>2. i + 1 = j + 1
    BY <1>3, <2>1
  <2> QED
    BY <2>2
<1>9. IsInjective(t)
  BY <1>1, <1>8, Listed
<1> QED
  BY <1>1, <1>5, <1>6, <1>7, <1>9 DEF t

\* Two lists of different elements, one behind the other.
LEMMA ListBoth ==
  ASSUME NEW S, NEW s \in Seq(S), NEW t \in Seq(S), IsInjective(s), IsInjective(t),
         Range(s) \cap Range(t) = {}
  PROVE  /\ s \o t \in Seq(S) /\ Range(s \o t) = Range(s) \cup Range(t)
         /\ IsInjective(s \o t)
<1> DEFINE u == s \o t
<1>1. /\ u \in Seq(S) /\ Len(u) = Len(s) + Len(t)
      /\ \A i \in 1 .. Len(s) + Len(t) : u[i] = IF i <= Len(s) THEN s[i] ELSE t[i - Len(s)]
  BY ConcatProperties
<1>2. Range(u) = Range(s) \cup Range(t)
  BY RangeConcatenation
<1> HIDE DEF u
<1>3. /\ Len(s) \in Nat /\ Range(s) = { s[i] : i \in 1 .. Len(s) }
      /\ \A i, j \in 1 .. Len(s) : s[i] = s[j] => i = j
  BY Listed
<1>4. /\ Len(t) \in Nat /\ Range(t) = { t[i] : i \in 1 .. Len(t) }
      /\ \A i, j \in 1 .. Len(t) : t[i] = t[j] => i = j
  BY Listed
<1>5. ASSUME NEW i \in 1 .. Len(u), i <= Len(s)
      PROVE  i \in 1 .. Len(s) /\ u[i] = s[i] /\ u[i] \in Range(s)
  BY <1>1, <1>3, <1>4, <1>5
<1>6. ASSUME NEW i \in 1 .. Len(u), ~ (i <= Len(s))
      PROVE  i - Len(s) \in 1 .. Len(t) /\ u[i] = t[i - Len(s)] /\ u[i] \in Range(t)
  BY <1>1, <1>3, <1>4, <1>6
<1>7. ASSUME NEW i \in 1 .. Len(u), NEW j \in 1 .. Len(u), u[i] = u[j]
      PROVE  i = j
  <2>1. CASE i <= Len(s) /\ j <= Len(s)
    BY <1>3, <1>5, <1>7, <2>1
  <2>2. CASE ~ (i <= Len(s)) /\ ~ (j <= Len(s))
    <3>1. i - Len(s) = j - Len(s)
      BY <1>4, <1>6, <1>7, <2>2
    <3> QED
      BY <1>1, <1>3, <1>4, <3>1
  <2> QED
    BY <1>5, <1>6, <1>7, <2>1, <2>2
<1>8. IsInjective(u)
  BY <1>1, <1>7, Listed
<1> QED
  BY <1>1, <1>2, <1>8 DEF u

LEMMA JobsFinite ==
  /\ JobCount \in Nat \ {0} /\ Jobs \subseteq Nat
  /\ IsFiniteSet(Jobs) /\ Cardinality(Jobs) = JobCount
<1>1. JobCount \in Nat \ {0}
  BY PipelineAssumption
<1> QED
  BY <1>1, FS_Interval DEF Jobs

\* A sorted set of jobs is a sequence that lists it.
LEMMA SortedJobs ==
  ASSUME NEW S \in SUBSET Jobs
  PROVE  Sorted(S) \in Seq(Jobs) /\ Range(Sorted(S)) = S /\ IsInjective(Sorted(S))
<1>1. S \in SUBSET Nat /\ IsFiniteSet(S)
  BY JobsFinite, FS_Subset
<1> DEFINE s == Sorted(S)
           n == Cardinality(S)
<1>2. /\ n \in Nat /\ s \in [1 .. n -> S]
      /\ \A x \in S : \E k \in 1 .. n : s[k] = x
      /\ \A i, j \in 1 .. n : i < j => s[i] < s[j]
  BY <1>1, SortedEnumerates
<1> HIDE DEF s, n
<1>3. s \in Seq(Jobs)
  BY <1>2, SeqDef
<1>4. DOMAIN s = 1 .. n
  BY <1>2
<1>5. Range(s) = S
  BY <1>2, <1>4 DEF Range
<1>6. ASSUME NEW i \in 1 .. n, NEW j \in 1 .. n, s[i] = s[j]
      PROVE  i = j
  <2>1. s[i] \in Nat /\ s[j] \in Nat
    BY <1>1, <1>2
  <2>2. ~ (i < j) /\ ~ (j < i)
    BY <1>2, <1>6, <2>1
  <2> QED
    BY <1>2, <2>2
<1> QED
  BY <1>3, <1>4, <1>5, <1>6 DEF IsInjective, s

-----------------------------------------------------------------------------
(* ResolveJobOrder *)

KahnStates == [queue : Seq(Jobs), found : Seq(Jobs), indeg : [Jobs -> Int]]

Known(js) == \A j \in Jobs : js[j].needs \subseteq Jobs

\* The jobs whose needs are all among F.
Served(js, F) == { j \in Jobs : js[j].needs \subseteq F }

\* After k rounds: a job was found after its needs, the queue holds the others whose needs
\* were all found, indeg counts the needs that were not, and each round with a job in the
\* queue has found one.
KahnInv(js, s, k) ==
  /\ s \in KahnStates
  /\ IsInjective(s.found) /\ IsInjective(s.queue)
  /\ Range(s.found) \cap Range(s.queue) = {}
  /\ Range(s.found) \cup Range(s.queue) = Served(js, Range(s.found))
  /\ \A j \in Jobs : s.indeg[j] = Cardinality(js[j].needs \ Range(s.found))
  /\ \A i \in 1 .. Len(s.found) : js[s.found[i]].needs \subseteq { s.found[m] : m \in 1 .. i - 1 }
  /\ s.queue = << >> \/ Len(s.found) = k

\* The start of the algorithm and its rounds.
LEMMA KahnStarts == ASSUME NEW js, Known(js) PROVE KahnInv(js, KahnStart(js), 0)
<1> DEFINE s == KahnStart(js)
           Free == { j \in Jobs : js[j].needs = {} }
<1>1. Sorted(Free) \in Seq(Jobs) /\ Range(Sorted(Free)) = Free /\ IsInjective(Sorted(Free))
  BY SortedJobs
<1>2. << >> \in Seq(Jobs) /\ Len(<< >>) = 0 /\ Range(<< >>) = {} /\ IsInjective(<< >>)
  <2>1. << >> \in Seq(Jobs) /\ Len(<< >>) = 0
    BY EmptySeq
  <2>2. 1 .. 0 = {}
    OBVIOUS
  <2>3. DOMAIN << >> = {}
    BY <2>1, <2>2, LenProperties
  <2> QED
    BY <2>1, <2>3 DEF Range, IsInjective
<1>3. ASSUME NEW j \in Jobs PROVE Cardinality(js[j].needs) \in Nat
  <2>1. js[j].needs \in SUBSET Jobs
    BY DEF Known
  <2> QED
    BY <2>1, JobsFinite, FS_Subset, FS_CardinalityType
<1>4. /\ s.queue = Sorted(Free) /\ s.found = << >>
      /\ s.indeg = [j \in Jobs |-> Cardinality(js[j].needs)]
      /\ s = [queue |-> s.queue, found |-> s.found, indeg |-> s.indeg]
  BY DEF KahnStart
<1> HIDE DEF s
<1>5. s \in KahnStates
  <2>1. s.indeg \in [Jobs -> Int]
    BY <1>3, <1>4
  <2> QED
    BY <1>1, <1>2, <1>4, <2>1 DEF KahnStates
<1>6. Range(s.found) = {} /\ Range(s.queue) = Served(js, {})
  BY <1>1, <1>2, <1>4 DEF Served
<1>7. \A j \in Jobs : js[j].needs \ {} = js[j].needs
  OBVIOUS
<1>8. \A j \in Jobs : s.indeg[j] = Cardinality(js[j].needs \ Range(s.found))
  BY <1>4, <1>6, <1>7
<1>9. \A i \in 1 .. Len(s.found) : js[s.found[i]].needs \subseteq { s.found[m] : m \in 1 .. i - 1 }
  BY <1>2, <1>4
<1>10. /\ IsInjective(s.found) /\ IsInjective(s.queue) /\ Len(s.found) = 0
       /\ Range(s.found) \cap Range(s.queue) = {}
       /\ Range(s.found) \cup Range(s.queue) = Served(js, Range(s.found))
  BY <1>1, <1>2, <1>4, <1>6
<1>11. KahnInv(js, s, 0)
  BY <1>5, <1>8, <1>9, <1>10 DEF KahnInv
<1> QED
  BY <1>11 DEF s

LEMMA KahnStepInv ==
  ASSUME NEW js, Known(js), NEW k \in Nat, NEW s, KahnInv(js, s, k)
  PROVE  KahnInv(js, KahnStep(js, s), k + 1)
<1>1. CASE s.queue = << >>
  <2>1. KahnStep(js, s) = s
    BY <1>1 DEF KahnStep
  <2> QED
    BY <1>1, <2>1 DEF KahnInv
<1>2. CASE s.queue # << >>
  <2> DEFINE current == Head(s.queue)
             F == Range(s.found)
             Q == Range(s.queue)
             waiting == { j \in Jobs : current \in js[j].needs }
             indeg == [j \in Jobs |-> IF j \in waiting THEN s.indeg[j] - 1 ELSE s.indeg[j]]
             freed == { j \in waiting : indeg[j] = 0 }
             queue == Tail(s.queue) \o Sorted(freed)
             found == Append(s.found, current)
             t == KahnStep(js, s)
  <2>1. t = [queue |-> queue, found |-> found, indeg |-> indeg]
    BY <1>2 DEF KahnStep
  <2>2. /\ s.queue \in Seq(Jobs) /\ s.found \in Seq(Jobs) /\ s.indeg \in [Jobs -> Int]
        /\ IsInjective(s.found) /\ IsInjective(s.queue) /\ F \cap Q = {}
        /\ F \cup Q = Served(js, F) /\ Len(s.found) = k
        /\ \A j \in Jobs : s.indeg[j] = Cardinality(js[j].needs \ F)
        /\ \A i \in 1 .. k : js[s.found[i]].needs \subseteq { s.found[m] : m \in 1 .. i - 1 }
    BY <1>2 DEF KahnInv, KahnStates
  <2>3. /\ current \in Q /\ Tail(s.queue) \in Seq(Jobs) /\ IsInjective(Tail(s.queue))
        /\ Range(Tail(s.queue)) = Q \ {current}
    BY <1>2, <2>2, ListOneLess
  <2>4. current \in Jobs /\ current \notin F /\ js[current].needs \subseteq F
    BY <2>2, <2>3 DEF Served
  <2>5. /\ found \in Seq(Jobs) /\ Len(found) = k + 1
        /\ Range(found) = F \cup {current} /\ IsInjective(found)
    BY <2>2, <2>4, ListOneMore
  <2>6. \A j \in Jobs : indeg[j] = Cardinality(js[j].needs \ (F \cup {current}))
    <3> SUFFICES ASSUME NEW j \in Jobs
                 PROVE  indeg[j] = Cardinality(js[j].needs \ (F \cup {current}))
      OBVIOUS
    <3> DEFINE N == js[j].needs \ F
    <3>1. IsFiniteSet(N)
      BY JobsFinite, FS_Subset DEF Known
    <3>2. js[j].needs \ (F \cup {current}) = N \ {current}
      OBVIOUS
    <3>3. current \in N <=> j \in waiting
      BY <2>4
    <3>4. s.indeg[j] = Cardinality(N)
      BY <2>2
    <3>5. indeg[j] = IF j \in waiting THEN s.indeg[j] - 1 ELSE s.indeg[j]
      OBVIOUS
    <3> HIDE DEF N, indeg, waiting
    <3>6. Cardinality(N \ {current}) = IF current \in N THEN Cardinality(N) - 1 ELSE Cardinality(N)
      BY <3>1, FS_RemoveElement
    <3> QED
      BY <3>2, <3>3, <3>4, <3>5, <3>6
  <2>7. freed = { j \in waiting : js[j].needs \subseteq F \cup {current} }
    <3> SUFFICES ASSUME NEW j \in waiting
                 PROVE  indeg[j] = 0 <=> js[j].needs \subseteq F \cup {current}
      OBVIOUS
    <3> DEFINE N == js[j].needs \ (F \cup {current})
    <3>1. j \in Jobs /\ IsFiniteSet(N)
      BY JobsFinite, FS_Subset DEF Known
    <3>2. Cardinality(N) = 0 <=> N = {}
      BY <3>1, FS_EmptySet
    <3> QED
      BY <2>6, <3>1, <3>2
  <2>8. freed \in SUBSET Jobs /\ freed \cap (F \cup Q) = {}
    BY <2>2, <2>4, <2>7 DEF Served
  <2>9. /\ Sorted(freed) \in Seq(Jobs) /\ Range(Sorted(freed)) = freed
        /\ IsInjective(Sorted(freed))
    BY <2>8, SortedJobs
  <2>10. /\ queue \in Seq(Jobs) /\ Range(queue) = (Q \ {current}) \cup freed
         /\ IsInjective(queue)
    <3> DEFINE rest == Tail(s.queue)
               more == Sorted(freed)
    <3>1. /\ rest \in Seq(Jobs) /\ more \in Seq(Jobs) /\ IsInjective(rest)
          /\ IsInjective(more) /\ Range(rest) = Q \ {current} /\ Range(more) = freed
          /\ queue = rest \o more
      BY <2>3, <2>9
    <3> HIDE DEF rest, more, freed, Q, current, queue
    <3>2. Range(rest) \cap Range(more) = {}
      BY <2>8, <3>1
    <3> QED
      BY <3>1, <3>2, ListBoth
  <2>11. indeg \in [Jobs -> Int]
    BY <2>2
  <2>12. \A i \in 1 .. k + 1 : js[found[i]].needs \subseteq { found[m] : m \in 1 .. i - 1 }
    <3>1. found[k + 1] = current /\ \A i \in 1 .. k : found[i] = s.found[i]
      BY <2>2, <2>4, AppendProperties
    <3>2. F = { s.found[m] : m \in 1 .. k }
      BY <2>2, Listed
    <3> HIDE DEF found, F, current
    <3>3. F = { found[m] : m \in 1 .. (k + 1) - 1 }
      BY <3>1, <3>2
    <3>4. js[found[k + 1]].needs \subseteq { found[m] : m \in 1 .. (k + 1) - 1 }
      BY <2>4, <3>1, <3>3
    <3>5. ASSUME NEW i \in 1 .. k
          PROVE  js[found[i]].needs \subseteq { found[m] : m \in 1 .. i - 1 }
      <4>1. { found[m] : m \in 1 .. i - 1 } = { s.found[m] : m \in 1 .. i - 1 }
        BY <3>1
      <4> QED
        BY <2>2, <3>1, <4>1
    <3> QED
      BY <3>4, <3>5
  <2>13. Range(found) \cup Range(queue) = Served(js, Range(found))
    <3>1. Range(found) = F \cup {current} /\ Range(queue) = (Q \ {current}) \cup freed
      BY <2>5, <2>10
    <3>2. F \cup Q = { j \in Jobs : js[j].needs \subseteq F }
      BY <2>2 DEF Served
    <3>3. freed = { j \in Jobs : current \in js[j].needs /\ js[j].needs \subseteq F \cup {current} }
      BY <2>7
    <3> HIDE DEF found, queue, F, Q, current, freed
    <3> QED
      BY <2>3, <3>1, <3>2, <3>3 DEF Served
  <2>14. Range(found) \cap Range(queue) = {}
    <3> HIDE DEF found, queue, F, Q, current, freed
    <3> QED
      BY <2>2, <2>3, <2>5, <2>8, <2>10
  <2>15. /\ t.queue = queue /\ t.found = found /\ t.indeg = indeg /\ t \in KahnStates
    <3> HIDE DEF queue, found, indeg, t
    <3> QED
      BY <2>1, <2>5, <2>10, <2>11 DEF KahnStates
  <2> HIDE DEF t, queue, found, indeg, F
  <2>16. \A j \in Jobs : t.indeg[j] = Cardinality(js[j].needs \ Range(t.found))
    BY <2>5, <2>6, <2>15
  <2>17. \A i \in 1 .. Len(t.found) :
           js[t.found[i]].needs \subseteq { t.found[m] : m \in 1 .. i - 1 }
    BY <2>5, <2>12, <2>15
  <2>18. /\ IsInjective(t.found) /\ IsInjective(t.queue) /\ Len(t.found) = k + 1
         /\ Range(t.found) \cap Range(t.queue) = {}
         /\ Range(t.found) \cup Range(t.queue) = Served(js, Range(t.found))
    BY <2>5, <2>10, <2>13, <2>14, <2>15
  <2>19. KahnInv(js, t, k + 1)
    BY <2>15, <2>16, <2>17, <2>18 DEF KahnInv
  <2> QED
    BY <2>19 DEF t
<1> QED
  BY <1>1, <1>2

\* The rounds stay among states of the right type, so the recursion defines a function.
LEMMA KahnRecursion ==
  ASSUME NEW js, Known(js)
  PROVE  /\ Kahn(js)[0] = KahnStart(js)
         /\ \A k \in 1 .. JobCount : Kahn(js)[k] = KahnStep(js, Kahn(js)[k - 1])
<1> DEFINE step == [p \in Nat \X KahnStates |-> KahnStep(js, p[2])]
           Rounds(f) == f = [k \in 0 .. JobCount |->
                               IF k = 0 THEN KahnStart(js) ELSE KahnStep(js, f[k - 1])]
<1>1. KahnStart(js) \in KahnStates
  BY KahnStarts DEF KahnInv
<1>2. ASSUME NEW s \in KahnStates PROVE KahnStep(js, s) \in KahnStates
  <2>1. s.queue \in Seq(Jobs) /\ s.found \in Seq(Jobs) /\ s.indeg \in [Jobs -> Int]
    BY DEF KahnStates
  <2>2. CASE s.queue # << >>
    <3> DEFINE current == Head(s.queue)
               waiting == { j \in Jobs : current \in js[j].needs }
               indeg == [j \in Jobs |-> IF j \in waiting THEN s.indeg[j] - 1 ELSE s.indeg[j]]
               freed == { j \in waiting : indeg[j] = 0 }
    <3>1. KahnStep(js, s) = [queue |-> Tail(s.queue) \o Sorted(freed),
                             found |-> Append(s.found, current), indeg |-> indeg]
      BY <2>2 DEF KahnStep
    <3>2. current \in Jobs /\ Tail(s.queue) \in Seq(Jobs)
      BY <2>1, <2>2, HeadTailProperties
    <3>3. freed \in SUBSET Jobs /\ indeg \in [Jobs -> Int]
      BY <2>1
    <3> HIDE DEF current, freed, indeg
    <3>4. Sorted(freed) \in Seq(Jobs)
      BY <3>3, SortedJobs
    <3>5. Tail(s.queue) \o Sorted(freed) \in Seq(Jobs)
      BY <3>2, <3>4, ConcatProperties
    <3>6. Append(s.found, current) \in Seq(Jobs)
      BY <2>1, <3>2, AppendProperties
    <3> QED
      BY <3>1, <3>3, <3>5, <3>6 DEF KahnStates
  <2> QED
    BY <2>2 DEF KahnStep
<1>3. \A k \in Nat, s \in KahnStates : step[<<k, s>>] = KahnStep(js, s)
  OBVIOUS
<1>4. step \in [Nat \X KahnStates -> KahnStates]
  BY <1>2
<1>5. JobCount \in Nat
  BY JobsFinite
<1> HIDE DEF step
<1>6. PICK f \in [0 .. JobCount -> KahnStates] :
         f[0] = KahnStart(js) /\ \A k \in 1 .. JobCount : f[k] = step[<<k, f[k - 1]>>]
  <2>1. \E f \in [0 .. JobCount -> KahnStates] : Iteration(f, KahnStart(js), JobCount, step)
    BY <1>1, <1>4, <1>5, Iterates
  <2> QED
    BY <2>1 DEF Iteration
<1>7. Rounds(f)
  <2>1. ASSUME NEW k \in 0 .. JobCount
        PROVE  f[k] = IF k = 0 THEN KahnStart(js) ELSE KahnStep(js, f[k - 1])
    <3>1. CASE k = 0
      BY <1>6, <3>1
    <3>2. CASE k \in 1 .. JobCount
      <4>1. f[k - 1] \in KahnStates /\ k \in Nat /\ k # 0
        BY <1>5, <3>2
      <4>2. f[k] = step[<<k, f[k - 1]>>]
        BY <1>6, <3>2
      <4>3. step[<<k, f[k - 1]>>] = KahnStep(js, f[k - 1])
        BY <1>3, <4>1
      <4> QED
        BY <4>1, <4>2, <4>3
    <3> QED
      BY <1>5, <3>1, <3>2
  <2> QED
    BY <2>1
<1>8. Kahn(js) = CHOOSE g : Rounds(g)
  BY DEF Kahn
<1>9. \E g : Rounds(g)
  BY <1>7
<1> HIDE DEF Rounds
<1>10. Rounds(Kahn(js))
  BY <1>8, <1>9
<1> USE DEF Rounds
<1>11. \A k \in 0 .. JobCount :
          Kahn(js)[k] = IF k = 0 THEN KahnStart(js) ELSE KahnStep(js, Kahn(js)[k - 1])
  BY <1>10
<1> QED
  BY <1>5, <1>11

LEMMA KahnRounds ==
  ASSUME NEW js, Known(js)
  PROVE  KahnInv(js, Kahn(js)[JobCount], JobCount)
<1> DEFINE I == { k \in Nat : k <= JobCount => KahnInv(js, Kahn(js)[k], k) }
<1>1. 0 \in I
  BY KahnRecursion, KahnStarts
<1>2. ASSUME NEW k \in Nat, k \in I PROVE k + 1 \in I
  <2>1. SUFFICES ASSUME k + 1 <= JobCount PROVE KahnInv(js, Kahn(js)[k + 1], k + 1)
    OBVIOUS
  <2>2. KahnInv(js, Kahn(js)[k], k)
    BY <1>2, <2>1, JobsFinite
  <2>3. k + 1 \in 1 .. JobCount /\ (k + 1) - 1 = k
    BY <2>1, JobsFinite
  <2>4. Kahn(js)[k + 1] = KahnStep(js, Kahn(js)[k])
    BY <2>3, KahnRecursion
  <2> QED
    BY <2>2, <2>4, KahnStepInv
<1>3. Nat \subseteq I
  <2> HIDE DEF I
  <2> QED
    BY <1>1, <1>2, SetInduction
<1> QED
  BY <1>3, JobsFinite

\* A result lists every job after its needs; without one, a need is unknown or some jobs
\* wait for each other.
LEMMA ResolvedOrder ==
  ASSUME NEW js
  PROVE  /\ ResolveJobOrder(js) \in Seq(Jobs)
         /\ ResolveJobOrder(js) # << >> =>
              /\ Range(ResolveJobOrder(js)) = Jobs /\ Len(ResolveJobOrder(js)) = JobCount
              /\ \A i \in 1 .. JobCount :
                   js[ResolveJobOrder(js)[i]].needs
                     \subseteq { ResolveJobOrder(js)[k] : k \in 1 .. i - 1 }
         /\ ResolveJobOrder(js) = << >> =>
              \/ \E j \in Jobs : ~ (js[j].needs \subseteq Jobs)
              \/ \E S \in (SUBSET Jobs) \ {{}} : \A j \in S : js[j].needs \cap S # {}
<1> DEFINE s == Kahn(js)[JobCount]
           o == ResolveJobOrder(js)
<1>1. CASE ~ Known(js)
  <2>1. o = << >>
    BY <1>1 DEF ResolveJobOrder, Known
  <2> QED
    BY <1>1, <2>1, EmptySeq DEF Known
<1>2. CASE Known(js)
  <2>1. o = IF Len(s.found) = JobCount THEN s.found ELSE << >>
    BY <1>2 DEF ResolveJobOrder, Result, Known
  <2>2. KahnInv(js, s, JobCount)
    BY <1>2, KahnRounds
  <2> HIDE DEF s, o
  <2>3. s.found \in Seq(Jobs) /\ s.queue \in Seq(Jobs)
    BY <2>2 DEF KahnInv, KahnStates
  <2>4. /\ Len(s.found) \in Nat /\ DOMAIN s.found = 1 .. Len(s.found)
        /\ Range(s.found) \subseteq Jobs
    BY <2>3, Listed
  <2>5. ASSUME Len(s.found) = JobCount PROVE Range(s.found) = Jobs
    <3> DEFINE D == 1 .. JobCount
    <3>1. IsFiniteSet(D) /\ Cardinality(D) = JobCount
      BY JobsFinite, FS_Interval
    <3>2. s.found \in [D -> Jobs]
      BY <2>3, <2>5, LenProperties
    <3> HIDE DEF D
    <3>3. s.found \in Injection(D, Jobs)
      BY <2>2, <3>2 DEF KahnInv, Injection
    <3>4. s.found \in Surjection(D, Jobs)
      BY <3>1, <3>3, JobsFinite, FS_Injection
    <3> QED
      BY <2>4, <3>2, <3>4 DEF Surjection, Range
  <2>6. CASE Len(s.found) = JobCount
    <3>1. o = s.found /\ o # << >>
      BY <2>1, <2>6, JobsFinite, EmptySeq
    <3>2. \A i \in 1 .. JobCount : js[o[i]].needs \subseteq { o[k] : k \in 1 .. i - 1 }
      BY <2>2, <2>6, <3>1 DEF KahnInv
    <3> QED
      BY <2>3, <2>5, <2>6, <3>1, <3>2 DEF o
  <2>7. CASE Len(s.found) # JobCount
    <3> DEFINE F == Range(s.found)
               S == Jobs \ F
    <3>1. o = << >>
      BY <2>1, <2>7
    <3>2. s.queue = << >>
      BY <2>2, <2>7 DEF KahnInv
    <3>3. Range(s.queue) = {}
      <4>1. DOMAIN s.queue = 1 .. 0 /\ 1 .. 0 = {}
        BY <2>3, <3>2, Listed, EmptySeq
      <4> QED
        BY <4>1 DEF Range
    <3>4. F = Served(js, F)
      BY <2>2, <3>3 DEF KahnInv
    <3>5. S # {}
      <4>1. SUFFICES ASSUME F = Jobs PROVE FALSE
        BY <2>4
      <4> DEFINE D == 1 .. Len(s.found)
      <4>2. IsFiniteSet(D) /\ Cardinality(D) = Len(s.found)
        BY <2>4, FS_Interval
      <4>3. s.found \in [D -> Jobs]
        BY <2>3, LenProperties
      <4> HIDE DEF D
      <4>4. s.found \in Surjection(D, Jobs)
        BY <4>1, <4>3 DEF Surjection, Range
      <4>5. s.found \in Injection(D, Jobs)
        BY <2>2, <4>3 DEF KahnInv, Injection
      <4>6. Cardinality(Jobs) = Cardinality(D)
        BY <4>2, <4>4, <4>5, FS_Surjection
      <4> QED
        BY <2>7, <4>2, <4>6, JobsFinite
    <3>6. \A j \in S : js[j].needs \cap S # {}
      BY <1>2, <3>4 DEF Known, Served
    <3>7. S \in (SUBSET Jobs) \ {{}}
      BY <3>5
    <3> QED
      BY <3>1, <3>6, <3>7, EmptySeq DEF o
  <2> QED
    BY <2>6, <2>7
<1> QED
  BY <1>1, <1>2

-----------------------------------------------------------------------------
(* The graph of a plan *)

LEMMA WidthType == Width \in Nat /\ Width = 2 * StepCount + 2 /\ StepCount \in Nat
BY PipelineAssumption DEF Width

\* Multiplication with a number of nodes.
LEMMA Multiples ==
  ASSUME NEW p \in Nat, NEW q \in Nat, NEW w \in Nat, p < q
  PROVE  p * w \in Nat /\ p * w + w <= q * w
<1>1. PICK d \in Nat : q = p + 1 + d
  <2>1. q - p - 1 \in Nat /\ q = p + 1 + (q - p - 1)
    OBVIOUS
  <2> QED
    BY <2>1
<1>2. q * w = p * w + w + d * w
  BY <1>1
<1>3. p * w \in Nat /\ d * w \in Nat
  BY <1>1
<1> QED
  BY <1>2, <1>3

\* A node by its job and its place there.
Place(j, a) == (j - 1) * Width + a

\* The places of two jobs do not overlap, and all of them are IDs.
LEMMA Places ==
  ASSUME NEW i \in Jobs, NEW j \in Jobs, NEW a \in 1 .. Width, NEW b \in 1 .. Width
  PROVE  /\ Place(i, a) \in Ids
         /\ Place(i, a) = Place(j, b) => i = j /\ a = b
<1>1. Width \in Nat /\ JobCount \in Nat /\ i - 1 \in Nat /\ j - 1 \in Nat
  BY WidthType, JobsFinite DEF Jobs
<1>2. i - 1 < JobCount /\ Ids = 1 .. JobCount * Width
  BY PipelineAssumption, JobsFinite DEF Jobs
<1> DEFINE p == (i - 1) * Width
           q == (j - 1) * Width
<1>3. p \in Nat /\ q \in Nat /\ JobCount * Width \in Nat /\ p + Width <= JobCount * Width
  BY <1>1, <1>2, Multiples
<1>4. i - 1 < j - 1 => p + Width <= q
  BY <1>1, Multiples
<1>5. j - 1 < i - 1 => q + Width <= p
  BY <1>1, Multiples
<1> HIDE DEF p, q
<1>6. p + a \in Ids
  BY <1>1, <1>2, <1>3
<1>7. ASSUME p + a = q + b PROVE i = j /\ a = b
  <2>1. ~ (i - 1 < j - 1) /\ ~ (j - 1 < i - 1)
    BY <1>1, <1>3, <1>4, <1>5, <1>7
  <2>2. i = j
    BY <1>1, <2>1 DEF Jobs
  <2>3. p = q
    BY <2>2 DEF p, q
  <2> QED
    BY <1>1, <1>3, <1>7, <2>2, <2>3
<1> QED
  BY <1>6, <1>7 DEF p, q, Place

LEMMA NodePlaces ==
  ASSUME NEW j \in Jobs
  PROVE  /\ JobEnd(j) = Place(j, 1) /\ JobStart(j) = Place(j, 2)
         /\ \A s \in Steps :
              CacheNode(j, s) = Place(j, 2 * s + 1) /\ RunNode(j, s) = Place(j, 2 * s + 2)
<1>1. j - 1 \in Nat /\ Width \in Nat
  BY WidthType, JobsFinite DEF Jobs
<1>2. (j - 1) * Width \in Nat
  BY <1>1
<1> DEFINE p == (j - 1) * Width
<1>3. \A s \in Steps : s \in Nat
  BY WidthType DEF Steps
<1> HIDE DEF p
<1>4. \A s \in Steps : p + 2 * s + 1 = p + (2 * s + 1) /\ p + 2 * s + 2 = p + (2 * s + 2)
  BY <1>2, <1>3 DEF p
<1> QED
  BY <1>4 DEF p, Place, JobEnd, JobStart, CacheNode, RunNode

\* What node an ID is.
LEMMA NodeIds ==
  ASSUME NEW i \in Jobs, NEW s \in Steps
  PROVE  /\ {JobEnd(i), JobStart(i), CacheNode(i, s), RunNode(i, s)} \subseteq Ids
         /\ \A j \in Jobs :
              RunNode(i, s) # JobEnd(j) /\ RunNode(i, s) # JobStart(j)
         /\ \A j \in Jobs, t \in Steps : RunNode(i, s) # CacheNode(j, t)
         /\ \A j \in Jobs : JobEnd(i) # JobStart(j)
         /\ \A j \in Jobs, t \in Steps : JobEnd(i) # CacheNode(j, t)
<1>1. /\ \A t \in Steps : 2 * t + 1 \in 1 .. Width /\ 2 * t + 2 \in 1 .. Width /\ t > 0
      /\ 1 \in 1 .. Width /\ 2 \in 1 .. Width
  BY WidthType DEF Steps
<1>2. \A t \in Steps : 2 * s + 2 # 2 * t + 1
  BY WidthType DEF Steps
<1>3. {JobEnd(i), JobStart(i), CacheNode(i, s), RunNode(i, s)} \subseteq Ids
  BY <1>1, Places, NodePlaces
<1>4. ASSUME NEW j \in Jobs PROVE RunNode(i, s) # JobEnd(j) /\ RunNode(i, s) # JobStart(j)
  <2>1. 2 * s + 2 # 1 /\ 2 * s + 2 # 2
    BY WidthType DEF Steps
  <2> QED
    BY <1>1, <2>1, Places, NodePlaces
<1>5. ASSUME NEW j \in Jobs, NEW t \in Steps PROVE RunNode(i, s) # CacheNode(j, t)
  BY <1>1, <1>2, Places, NodePlaces
<1>6. ASSUME NEW j \in Jobs PROVE JobEnd(i) # JobStart(j)
  BY <1>1, Places, NodePlaces
<1>7. ASSUME NEW j \in Jobs, NEW t \in Steps PROVE JobEnd(i) # CacheNode(j, t)
  <2>1. 1 # 2 * t + 1
    BY WidthType DEF Steps
  <2> QED
    BY <1>1, <2>1, Places, NodePlaces
<1> QED
  BY <1>3, <1>4, <1>5, <1>6, <1>7

\* The steps that get nodes are steps.
LEMMA PlannedSteps ==
  ASSUME PlanInv, NEW j \in Jobs
  PROVE  Planned(j) \subseteq Steps
<1>1. jobs[j].steps \subseteq Steps
  BY PipelineAssumption DEF PlanInv
<1> QED
  BY <1>1 DEF Planned

LEMMA PlannedAreJobs == PlannedJobs \subseteq Jobs
BY ResolvedOrder, RangeOfSeq DEF PlannedJobs

\* The plan has the nodes that its dependencies name.  The start of a job and a cache node
\* wait for nothing, a run node for these, and the end of a job for run nodes.
LEMMA PlanIsGraph ==
  ASSUME PlanInv
  PROVE  /\ PlanNodes \subseteq Ids
         /\ PlanDeps \in [Ids -> SUBSET PlanNodes]
         /\ \A n \in Ids \ PlanNodes : PlanDeps[n] = {}
         /\ \A n \in Ids : \A d \in PlanDeps[n] : \A e \in PlanDeps[d] : PlanDeps[e] = {}
<1> DEFINE js == PlannedJobs
<1>1. \A j \in js : j \in Jobs /\ Planned(j) \subseteq Steps
  BY PlannedAreJobs, PlannedSteps
<1> HIDE DEF js
<1>2. \A n : n \in PlanNodes <=>
        \E j \in js : n \in {JobStart(j), JobEnd(j)}
                      \/ \E s \in Planned(j) : n \in {CacheNode(j, s), RunNode(j, s)}
  BY DEF PlanNodes, GraphNodes, js
<1>3. \A n \in Ids : PlanDeps[n] = StepDeps(js, n) \cup EndDeps(js, n)
  BY DEF PlanDeps, js
<1>4. \A j \in Jobs : {JobStart(j), JobEnd(j)} \subseteq Ids
  <2> SUFFICES ASSUME NEW j \in Jobs PROVE {JobStart(j), JobEnd(j)} \subseteq Ids
    OBVIOUS
  <2>1. 1 \in 1 .. Width /\ 2 \in 1 .. Width
    BY WidthType
  <2> QED
    BY <2>1, Places, NodePlaces
<1>5. PlanNodes \subseteq Ids
  BY <1>1, <1>2, <1>4, NodeIds
<1>6. ASSUME NEW n, NEW d \in StepDeps(js, n)
      PROVE  /\ \E j \in js : \E s \in Planned(j) :
                  n = RunNode(j, s) /\ d \in {JobStart(j), CacheNode(j, s)}
             /\ n \in PlanNodes /\ d \in PlanNodes
  BY <1>2 DEF StepDeps
<1>7. ASSUME NEW n, NEW d \in EndDeps(js, n)
      PROVE  /\ \E j \in js : \E s \in Planned(j) : n = JobEnd(j) /\ d = RunNode(j, s)
             /\ n \in PlanNodes /\ d \in PlanNodes
  BY <1>2 DEF EndDeps
<1>8. \A n \in Ids : PlanDeps[n] \subseteq PlanNodes /\ (PlanDeps[n] # {} => n \in PlanNodes)
  BY <1>3, <1>6, <1>7
<1>9. PlanDeps \in [Ids -> SUBSET PlanNodes]
  BY <1>8 DEF PlanDeps
<1>10. ASSUME NEW n \in Ids, NEW d \in StepDeps(js, n)
       PROVE  PlanDeps[d] = {}
  <2>1. PICK j, s : j \in js /\ s \in Planned(j) /\ d \in {JobStart(j), CacheNode(j, s)}
    BY <1>6
  <2>2. StepDeps(js, d) = {}
    <3> SUFFICES ASSUME NEW e \in StepDeps(js, d) PROVE FALSE
      OBVIOUS
    <3>1. PICK i, t : i \in js /\ t \in Planned(i) /\ d = RunNode(i, t)
      BY <1>6
    <3> QED
      BY <1>1, <2>1, <3>1, NodeIds
  <2>3. EndDeps(js, d) = {}
    <3> SUFFICES ASSUME NEW e \in EndDeps(js, d) PROVE FALSE
      OBVIOUS
    <3>1. PICK i, t : i \in js /\ t \in Planned(i) /\ d = JobEnd(i)
      BY <1>7
    <3> QED
      BY <1>1, <2>1, <3>1, NodeIds
  <2>4. d \in Ids
    BY <1>5, <1>6
  <2> QED
    BY <1>3, <2>2, <2>3, <2>4
<1>11. ASSUME NEW n \in Ids, NEW d \in EndDeps(js, n), NEW e \in PlanDeps[d]
       PROVE  PlanDeps[e] = {}
  <2>1. PICK j, s : j \in js /\ s \in Planned(j) /\ d = RunNode(j, s)
    BY <1>7
  <2>2. EndDeps(js, d) = {}
    <3> SUFFICES ASSUME NEW x \in EndDeps(js, d) PROVE FALSE
      OBVIOUS
    <3>1. PICK i, t : i \in js /\ t \in Planned(i) /\ d = JobEnd(i)
      BY <1>7
    <3> QED
      BY <1>1, <2>1, <3>1, NodeIds
  <2>3. d \in Ids
    BY <1>5, <1>7
  <2>4. e \in StepDeps(js, d)
    BY <1>3, <2>2, <2>3
  <2> QED
    BY <1>10, <2>3, <2>4
<1>12. ASSUME NEW n \in Ids, NEW d \in PlanDeps[n], NEW e \in PlanDeps[d]
       PROVE  PlanDeps[e] = {}
  <2>1. CASE d \in StepDeps(js, n)
    BY <1>10, <2>1
  <2>2. CASE d \in EndDeps(js, n)
    BY <1>11, <2>2
  <2> QED
    BY <1>3, <2>1, <2>2
<1> QED
  BY <1>5, <1>8, <1>9, <1>12

-----------------------------------------------------------------------------
(* The executor on the graph of a plan *)

\* Of a set of IDs there is one first member at most.
LEMMA OneFirst ==
  ASSUME NEW S \in SUBSET Ids, NEW x \in First(1, S), NEW y \in First(1, S)
  PROVE  x = y
<1>1. /\ x \in S /\ \A m \in S \ {x} : x < m
      /\ y \in S /\ \A m \in S \ {y} : y < m
  BY FirstIsLeast
<1>2. x \in Nat /\ y \in Nat
  BY <1>1, DagAssumption
<1> QED
  BY <1>1, <1>2

\* The whole plan runs.
LEMMA PlanRuns ==
  ASSUME DagInv, PlanInv
  PROVE  AllPlannedRuns
<1>1. CASE task = "none"
  BY <1>1 DEF PlanInv, AllPlannedRuns
<1>2. CASE task # "none"
  <2>1. nodes = PlanNodes /\ deps = PlanDeps
    BY <1>2 DEF PlanInv
  <2>2. /\ nodes \subseteq Ids /\ \A n \in Ids : deps[n] \subseteq nodes
        /\ \A n \in Ids : \A d \in deps[n] : \A e \in deps[d] : deps[e] = {}
    BY <2>1, PlanIsGraph
  <2>3. ASSUME phase = "done" PROVE Collected = nodes
    <3>1. ready = {} /\ batch = {}
      BY <2>3 DEF DagInv, PhaseInv
    <3>2. Settled = Ended /\ Collected = Ended
      BY <3>1 DEF Settled, DagInv, EventsInv
    <3>3. Ended \subseteq nodes
      BY DEF Ended, DagInv, WorkerInv
    <3>4. ASSUME NEW n \in nodes \ Ended PROVE \E d \in deps[n] : d \in nodes \ Ended
      <4>1. worker[n] = "none"
        <5>1. worker[n] # "ended" /\ worker[n] \in {"none", "spawned", "running", "ended"}
          BY <2>2, <3>4 DEF Ended, DagInv, TypeOK
        <5> QED
          BY <2>2, <3>1, <5>1 DEF DagInv, WorkerInv
      <4>2. ready = { m \in nodes : worker[m] = "none" /\ deps[m] \subseteq Settled }
        BY <2>3 DEF DagInv, ReadyInv
      <4>3. ~ (deps[n] \subseteq Settled)
        BY <3>1, <4>1, <4>2
      <4> QED
        BY <2>2, <3>2, <4>3
    <3>5. ASSUME NEW n \in nodes \ Ended PROVE FALSE
      <4>1. PICK d \in deps[n] : d \in nodes \ Ended
        BY <3>4
      <4>2. PICK e \in deps[d] : e \in nodes \ Ended
        BY <3>4, <4>1
      <4>3. deps[e] = {}
        BY <2>2, <4>1, <4>2
      <4> QED
        BY <3>4, <4>2, <4>3
    <3> QED
      BY <3>2, <3>3, <3>5
  <2> QED
    BY <2>2, <2>3 DEF AllPlannedRuns
<1> QED
  BY <1>1, <1>2

\* Collecting the events of a batch of one.
LEMMA CollectOneByOne ==
  ASSUME DagInv, SequentialInv, task # "none", limit = 1, Collect, UNCHANGED failing
  PROVE  OneByOne(allEvents, nodes, deps)'
<1> DEFINE R == { n \in nodes \ Settled : deps[n] \subseteq Settled }
           es == allEvents
<1>1. batch \subseteq First(1, R) /\ OneByOne(es, nodes, deps) /\ R \subseteq Ids
  BY DEF SequentialInv, DagInv, TypeOK
<1>2. PICK n \in First(1, batch \ Collected) : es' = Append(es, [node |-> n, ok |-> results[n]])
  BY DEF Collect
<1>3. n \in batch /\ n \notin Collected /\ n \in Ids
  BY <1>2, FirstIsSubset DEF DagInv, TypeOK
<1>4. \A m \in batch : m = n
  <2> HIDE DEF R
  <2> QED
    BY <1>1, <1>3, OneFirst
<1>5. Collected = Settled
  <2>1. Ended = Settled \cup (Ended \cap batch)
    BY DEF Settled
  <2> QED
    BY <1>3, <1>4, <2>1 DEF DagInv, EventsInv
<1>6. results[n] = (n \notin failing) /\ results[n] \in BOOLEAN
  <2>1. worker[n] = "ended"
    BY <1>3 DEF Collect, Ended
  <2> QED
    BY <1>3, <2>1 DEF SequentialInv, DagInv, TypeOK
<1> DEFINE e == [node |-> n, ok |-> results[n]]
<1>7. e \in [node : Ids, ok : BOOLEAN] /\ e.node = n /\ e.ok = results[n]
  BY <1>3, <1>6
<1> HIDE DEF e
<1>8. /\ es' \in Seq([node : Ids, ok : BOOLEAN])
      /\ Len(es') = Len(es) + 1 /\ Len(es) \in Nat
      /\ \A i \in 1 .. Len(es) : es'[i] = es[i]
      /\ es'[Len(es) + 1] = e
  BY <1>2, <1>7, Appended DEF DagInv, e
<1>9. nodes' = nodes /\ deps' = deps /\ failing' = failing
  BY DEF Collect, graphVars
<1>10. ASSUME NEW k \in 0 .. Len(es)
       PROVE  Nodes(es', k) = Nodes(es, k)
  BY <1>8 DEF Nodes
<1>11. Nodes(es, Len(es)) = Settled
  BY <1>5 DEF Nodes, Collected
<1> HIDE DEF es
<1>12. ASSUME NEW i \in 1 .. Len(es')
       PROVE  /\ es'[i].node \in First(1, { m \in nodes \ Nodes(es', i - 1) :
                                              deps[m] \subseteq Nodes(es', i - 1) })
              /\ es'[i].ok = (es'[i].node \notin failing)
  <2>1. CASE i \in 1 .. Len(es)
    <3>1. i - 1 \in 0 .. Len(es)
      BY <1>8, <2>1
    <3>2. Nodes(es', i - 1) = Nodes(es, i - 1) /\ es'[i] = es[i]
      BY <1>8, <1>10, <2>1, <3>1
    <3> QED
      BY <1>1, <2>1, <3>2 DEF OneByOne
  <2>2. CASE i = Len(es) + 1
    <3>1. i - 1 = Len(es) /\ i - 1 \in 0 .. Len(es)
      BY <1>8, <2>2
    <3>2. Nodes(es', i - 1) = Settled
      BY <1>10, <1>11, <3>1
    <3>3. es'[i].node = n /\ es'[i].ok = results[n]
      BY <1>7, <1>8, <2>2
    <3> QED
      BY <1>1, <1>3, <1>6, <3>2, <3>3
  <2> QED
    BY <1>8, <2>1, <2>2
<1>13. OneByOne(allEvents, nodes, deps)'
  BY <1>8, <1>9, <1>12 DEF OneByOne, Nodes, es
<1> QED
  BY <1>13

\* A step of the executor keeps a run without parallelism in order.
LEMMA SequentialStep ==
  ASSUME DagInv, SequentialInv, Executes
  PROVE  SequentialInv'
<1>1. task # "none" /\ task' = task /\ failing' = failing
  BY DEF Executes, pipelineVars
<1>2. \A n \in Ids : worker[n] = "ended" => results[n] = (n \notin failing)
  BY <1>1 DEF SequentialInv
<1>3. limit = 1 =>
        /\ batch \subseteq First(1, { n \in nodes \ Settled : deps[n] \subseteq Settled })
        /\ OneByOne(allEvents, nodes, deps)
  BY <1>1 DEF SequentialInv
<1>4. ASSUME UNCHANGED <<nodes, deps, limit, batch, allEvents, Settled>>,
             \A n \in Ids : worker'[n] = "ended" => results'[n] = (n \notin failing)
      PROVE  SequentialInv'
  BY <1>1, <1>3, <1>4 DEF SequentialInv, OneByOne
<1>5. CASE Prepare \/ Return
  <2>1. UNCHANGED <<nodes, deps, limit, batch, worker, results, allEvents>>
    BY <1>5 DEF Prepare, Return, graphVars
  <2>2. Settled' = Settled
    BY <2>1, SameRun
  <2> QED
    BY <1>2, <1>4, <2>1, <2>2
<1>6. CASE Dispatch
  <2>1. UNCHANGED <<nodes, deps, limit, results, allEvents>> /\ phase = "scheduling"
    BY <1>6 DEF Dispatch, graphVars
  <2>2. batch' = First(Parallel, ready) /\ batch' \subseteq ready
    BY <1>6, FirstIsSubset DEF Dispatch
  <2>3. batch = {} /\ Settled = Ended
        /\ ready = { n \in nodes \ Settled : deps[n] \subseteq Settled }
    BY <2>1, ReadyNodes
  <2>5. \A n \in Ids : worker'[n] = IF n \in batch' THEN "spawned" ELSE worker[n]
    BY <1>6 DEF Dispatch
  <2>6. Ended' = Ended /\ Ended \cap batch' = {}
    BY <2>2, <2>3, <2>5 DEF Ended
  <2>7. Settled' = Settled
    BY <2>3, <2>6 DEF Settled
  <2>10. limit = 1 => Parallel = 1
    BY DEF Parallel
  <2>11. \A n \in Ids : worker'[n] = "ended" => results'[n] = (n \notin failing)
    BY <1>2, <2>1, <2>5
  <2>12. limit' = 1 => batch' \subseteq First(1, { n \in nodes \ Settled : deps[n] \subseteq Settled })'
    BY <2>1, <2>2, <2>3, <2>7, <2>10 DEF First
  <2>13. OneByOne(allEvents, nodes, deps) => OneByOne(allEvents, nodes, deps)'
    BY <1>1, <2>1 DEF OneByOne
  <2> QED
    BY <1>1, <1>3, <2>1, <2>11, <2>12, <2>13 DEF SequentialInv
<1>7. CASE \E n \in Ids : StartNode(n) \/ EndNode(n, n \notin failing)
  <2>1. PICK n \in Ids : StartNode(n) \/ EndNode(n, n \notin failing)
    BY <1>7
  <2>2. UNCHANGED <<nodes, deps, limit, batch, allEvents>>
    BY <2>1 DEF StartNode, EndNode, graphVars
  <2>3. n \in batch
    BY <2>1 DEF StartNode, EndNode, DagInv, WorkerInv
  <2>4. \A m \in Ids \ {n} : worker'[m] = worker[m] /\ results'[m] = results[m]
    BY <2>1 DEF StartNode, EndNode, DagInv, TypeOK
  <2>5. Settled' = Settled
    BY <2>2, <2>3, <2>4 DEF Settled, Ended
  <2>6. worker'[n] = "ended" => results'[n] = (n \notin failing)
    BY <2>1 DEF StartNode, EndNode, DagInv, TypeOK
  <2> QED
    BY <1>2, <1>4, <2>2, <2>4, <2>5, <2>6
<1>8. CASE Collect
  <2>1. UNCHANGED <<nodes, deps, limit, batch, worker, results>>
    BY <1>8 DEF Collect, graphVars
  <2>2. Settled' = Settled
    BY <2>1 DEF Settled, Ended
  <2>3. limit = 1 => OneByOne(allEvents, nodes, deps)'
    BY <1>1, <1>8, CollectOneByOne
  <2> QED
    BY <1>1, <1>2, <1>3, <2>1, <2>2, <2>3 DEF SequentialInv
<1>9. CASE Update
  <2>1. UNCHANGED <<nodes, deps, limit, worker, results, allEvents>> /\ batch' = {}
    BY <1>9 DEF Update, graphVars
  <2> QED
    BY <1>1, <1>2, <1>3, <2>1 DEF SequentialInv, OneByOne
<1> QED
  BY <1>5, <1>6, <1>7, <1>8, <1>9 DEF Executes

-----------------------------------------------------------------------------
(* The lines of a run *)

\* The concatenation of sequences over E is a sequence over E.
LEMMA Flattened ==
  ASSUME NEW E, NEW ss \in Seq(Seq(E))
  PROVE  FlattenSeq(ss) \in Seq(E)
<1> DEFINE n == Len(ss)
           Flat(f) == f = [i \in 1 .. n |-> IF i = 1 THEN ss[i] ELSE f[i - 1] \o ss[i]]
           step == [p \in Nat \X Seq(E) |->
                      IF p[1] \notin 1 .. n THEN << >>
                      ELSE IF p[1] = 1 THEN ss[p[1]] ELSE p[2] \o ss[p[1]]]
<1>1. n \in Nat /\ \A i \in 1 .. n : ss[i] \in Seq(E)
  BY LenProperties, ElementOfSeq
<1>2. << >> \in Seq(E)
  BY EmptySeq
<1>3. \A k \in Nat, s \in Seq(E) :
        step[<<k, s>>] = IF k \notin 1 .. n THEN << >> ELSE IF k = 1 THEN ss[k] ELSE s \o ss[k]
  OBVIOUS
<1>4. step \in [Nat \X Seq(E) -> Seq(E)]
  <2>1. ASSUME NEW p \in Nat \X Seq(E)
        PROVE  (IF p[1] \notin 1 .. n THEN << >>
                ELSE IF p[1] = 1 THEN ss[p[1]] ELSE p[2] \o ss[p[1]]) \in Seq(E)
    BY <1>1, <1>2, ConcatProperties
  <2> QED
    BY <2>1
<1> HIDE DEF step, n, Flat
<1>5. PICK g \in [0 .. n -> Seq(E)] : Iteration(g, << >>, n, step)
  BY <1>1, <1>2, <1>4, Iterates
<1>6. \A k \in 1 .. n : g[k] = IF k = 1 THEN ss[k] ELSE g[k - 1] \o ss[k]
  <2> SUFFICES ASSUME NEW k \in 1 .. n
               PROVE  g[k] = IF k = 1 THEN ss[k] ELSE g[k - 1] \o ss[k]
    OBVIOUS
  <2>1. g[k] = step[<<k, g[k - 1]>>]
    BY <1>5 DEF Iteration
  <2>2. k \in Nat /\ g[k - 1] \in Seq(E)
    BY <1>1
  <2> QED
    BY <1>3, <2>1, <2>2
<1>7. \E f : Flat(f)
  <2> DEFINE f == [k \in 1 .. n |-> g[k]]
  <2>1. \A k \in 1 .. n : k # 1 => f[k - 1] = g[k - 1]
    BY <1>1
  <2>2. f = [i \in 1 .. n |-> IF i = 1 THEN ss[i] ELSE f[i - 1] \o ss[i]]
    BY <1>6, <2>1
  <2> HIDE DEF f
  <2>3. Flat(f)
    BY <2>2 DEF Flat
  <2> QED
    BY <2>3
<1> DEFINE F == CHOOSE f : Flat(f)
<1>8. \A k \in 1 .. n : F[k] = IF k = 1 THEN ss[k] ELSE F[k - 1] \o ss[k]
  <2>1. Flat(F)
    BY <1>7
  <2> HIDE DEF F
  <2>2. F = [i \in 1 .. n |-> IF i = 1 THEN ss[i] ELSE F[i - 1] \o ss[i]]
    BY <2>1 DEF Flat
  <2> QED
    BY <2>2
<1>9. FlattenSeq(ss) = IF n = 0 THEN ss ELSE F[n]
  BY DEF FlattenSeq, Flat, n
<1> HIDE DEF F
<1> DEFINE I == { k \in Nat : k \in 1 .. n => F[k] \in Seq(E) }
<1>10. 0 \in I
  OBVIOUS
<1>11. ASSUME NEW k \in Nat, k \in I PROVE k + 1 \in I
  <2>1. SUFFICES ASSUME k + 1 \in 1 .. n PROVE F[k + 1] \in Seq(E)
    OBVIOUS
  <2>2. F[k + 1] = IF k + 1 = 1 THEN ss[k + 1] ELSE F[(k + 1) - 1] \o ss[k + 1]
    BY <1>8, <2>1
  <2>3. ss[k + 1] \in Seq(E)
    BY <1>1, <2>1
  <2>4. CASE k = 0
    BY <2>2, <2>3, <2>4
  <2>5. CASE k # 0
    <3>1. F[k] \in Seq(E) /\ (k + 1) - 1 = k /\ k + 1 # 1
      BY <1>1, <1>11, <2>1, <2>5
    <3>2. F[k] \o ss[k + 1] \in Seq(E)
      BY <2>3, <3>1, ConcatProperties
    <3> QED
      BY <2>2, <3>1, <3>2
  <2> QED
    BY <2>4, <2>5
<1>12. Nat \subseteq I
  <2> HIDE DEF I
  <2> QED
    BY <1>10, <1>11, SetInduction
<1>13. CASE n = 0
  BY <1>2, <1>9, <1>13, EmptySeq DEF n
<1>14. CASE n # 0
  BY <1>1, <1>9, <1>12, <1>14
<1> QED
  BY <1>13, <1>14

\* An ID is the node of a job at one of its places.
LEMMA NodeOf ==
  ASSUME NEW n \in Ids
  PROVE  /\ (n - 1) \div Width + 1 \in Jobs
         /\ (n - 1) % Width \in 0 .. Width - 1
<1>1. /\ Width \in Nat \ {0} /\ JobCount \in Nat \ {0} /\ n \in 1 .. JobCount * Width
      /\ JobCount * Width \in Nat
  BY WidthType, PipelineAssumption
<1> DEFINE m == n - 1
           q == m \div Width
           r == m % Width
<1>2. m \in Nat /\ m < JobCount * Width
  BY <1>1
<1>3. q \in Nat /\ r \in 0 .. Width - 1 /\ m = Width * q + r
  BY <1>1, <1>2
<1> HIDE DEF m, q, r
<1>4. q < JobCount
  <2>1. SUFFICES ASSUME JobCount <= q PROVE FALSE
    BY <1>1, <1>3
  <2>2. JobCount * Width <= q * Width
    <3>1. CASE JobCount = q
      BY <1>1, <3>1
    <3>2. CASE JobCount < q
      BY <1>1, <1>3, <3>2, Multiples
    <3> QED
      BY <1>1, <1>3, <2>1, <3>1, <3>2
  <2>3. q * Width = Width * q /\ q * Width \in Nat
    BY <1>1, <1>3
  <2> QED
    BY <1>1, <1>2, <1>3, <2>2, <2>3
<1> QED
  BY <1>1, <1>3, <1>4 DEF q, r, m, Jobs


LEMMA NodeEvents ==
  ASSUME NEW n \in Ids, NEW ok \in BOOLEAN
  PROVE  EventsOf(n, ok) \in Seq(Events)
<1> DEFINE j == (n - 1) \div Width + 1
           place == (n - 1) % Width
           s == (place - 1) \div 2
           ev(t, k, x, st) == [type |-> t, job |-> k, step |-> x, status |-> st]
<1>1. j \in Jobs /\ place \in 0 .. Width - 1
  BY NodeOf
<1>2. EventsOf(n, ok) =
        CASE place = 0 -> << ev("CI_JOB_FINISHED", j, 0, "SUCCESS") >>
          [] place = 1 -> << ev("CI_JOB_STARTED", j, 0, "RUNNING") >>
          [] place > 1 /\ place % 2 = 0 -> << >>
          [] OTHER ->
               << ev("CI_STEP_STARTED", j, s, "RUNNING"),
                  ev("CI_STEP_FINISHED", j, s, IF ok THEN "SUCCESS" ELSE "FAILED") >>
               \o IF ok THEN << ev("CI_ARTIFACT", j, s, "CREATED") >> ELSE << >>
  BY DEF EventsOf
<1> HIDE DEF place, j
<1>3. place > 1 /\ place % 2 # 0 => s \in Steps
  BY <1>1, WidthType DEF Steps
<1> HIDE DEF s
<1>4. ASSUME NEW t \in Types, NEW x \in Steps \cup {0}, NEW st \in Statuses
      PROVE  ev(t, j, x, st) \in Events
  BY <1>1 DEF Events
<1> HIDE DEF ev
<1>5. CASE place = 0
  <2>1. ev("CI_JOB_FINISHED", j, 0, "SUCCESS") \in Events
    BY <1>4 DEF Types, Statuses
  <2> QED
    BY <1>2, <1>5, <2>1
<1>6. CASE place = 1
  <2>1. ev("CI_JOB_STARTED", j, 0, "RUNNING") \in Events
    BY <1>4 DEF Types, Statuses
  <2>2. EventsOf(n, ok) = << ev("CI_JOB_STARTED", j, 0, "RUNNING") >>
    BY <1>2, <1>6
  <2> QED
    BY <2>1, <2>2
<1>7. CASE place > 1 /\ place % 2 = 0
  <2>1. EventsOf(n, ok) = << >>
    BY <1>1, <1>2, <1>7
  <2> QED
    BY <2>1, EmptySeq
<1>8. CASE place > 1 /\ place % 2 # 0
  <2> DEFINE a == ev("CI_STEP_STARTED", j, s, "RUNNING")
             b == ev("CI_STEP_FINISHED", j, s, IF ok THEN "SUCCESS" ELSE "FAILED")
             c == ev("CI_ARTIFACT", j, s, "CREATED")
  <2>1. a \in Events /\ b \in Events /\ c \in Events
    BY <1>3, <1>4, <1>8 DEF Types, Statuses
  <2>2. EventsOf(n, ok) = << a, b >> \o IF ok THEN << c >> ELSE << >>
    BY <1>1, <1>2, <1>8
  <2> HIDE DEF a, b, c
  <2>3. << a, b >> \in Seq(Events) /\ << c >> \in Seq(Events) /\ << >> \in Seq(Events)
    BY <2>1, EmptySeq
  <2>4. (IF ok THEN << c >> ELSE << >>) \in Seq(Events)
    BY <2>3
  <2> QED
    BY <2>2, <2>3, <2>4, ConcatProperties
<1> QED
  BY <1>1, <1>5, <1>6, <1>7, <1>8, WidthType

LEMMA Lines ==
  ASSUME NEW es \in Seq([node : Ids, ok : BOOLEAN])
  PROVE  LinesOf(es) \in Seq(Events)
<1> DEFINE ss == [i \in 1 .. Len(es) |-> EventsOf(es[i].node, es[i].ok)]
<1>1. Len(es) \in Nat
  BY LenProperties
<1>2. ASSUME NEW i \in 1 .. Len(es) PROVE EventsOf(es[i].node, es[i].ok) \in Seq(Events)
  <2>1. es[i] \in [node : Ids, ok : BOOLEAN]
    BY ElementOfSeq
  <2>2. es[i].node \in Ids /\ es[i].ok \in BOOLEAN
    BY <2>1
  <2> QED
    BY <2>2, NodeEvents
<1>3. ss \in Seq(Seq(Events))
  BY <1>1, <1>2, IsASeq
<1> HIDE DEF ss
<1>4. FlattenSeq(ss) \in Seq(Events)
  BY <1>3, Flattened
<1> QED
  BY <1>4 DEF ss, LinesOf

\* Two runs of a graph without parallelism go the same way.
LEMMA SameWay ==
  ASSUME NEW ns \in SUBSET Ids, NEW ds, NEW a, NEW b, OneByOne(a, ns, ds), OneByOne(b, ns, ds),
         NEW k \in Nat, k <= Len(a), k <= Len(b)
  PROVE  \A i \in 1 .. k : a[i] = b[i]
<1> DEFINE Es == [node : Ids, ok : BOOLEAN]
           I == { m \in Nat : m <= Len(a) /\ m <= Len(b) => \A i \in 1 .. m : a[i] = b[i] }
<1>1. /\ a \in Seq(Es) /\ b \in Seq(Es) /\ Len(a) \in Nat /\ Len(b) \in Nat
  BY LenProperties DEF OneByOne
<1>2. 0 \in I
  OBVIOUS
<1>3. ASSUME NEW m \in Nat, m \in I PROVE m + 1 \in I
  <2> SUFFICES ASSUME m + 1 <= Len(a), m + 1 <= Len(b)
               PROVE  \A i \in 1 .. m + 1 : a[i] = b[i]
    OBVIOUS
  <2>1. \A i \in 1 .. m : a[i] = b[i]
    BY <1>1, <1>3
  <2>2. Nodes(a, m) = Nodes(b, m)
    BY <2>1 DEF Nodes
  <2> DEFINE R == { n \in ns \ Nodes(a, m) : ds[n] \subseteq Nodes(a, m) }
  <2>3. m + 1 \in 1 .. Len(a) /\ m + 1 \in 1 .. Len(b) /\ (m + 1) - 1 = m
    BY <1>1
  <2>4. /\ a[m + 1].node \in First(1, R) /\ b[m + 1].node \in First(1, R)
        /\ a[m + 1].ok = (a[m + 1].node \notin failing)
        /\ b[m + 1].ok = (b[m + 1].node \notin failing)
    BY <2>2, <2>3 DEF OneByOne
  <2>5. R \in SUBSET Ids
    OBVIOUS
  <2> HIDE DEF R
  <2>6. a[m + 1].node = b[m + 1].node
    BY <2>4, <2>5, OneFirst
  <2>7. a[m + 1] \in Es /\ b[m + 1] \in Es
    BY <1>1, <2>3, ElementOfSeq
  <2>8. a[m + 1] = b[m + 1]
    BY <2>4, <2>6, <2>7
  <2> QED
    BY <2>1, <2>8
<1>4. Nat \subseteq I
  <2> HIDE DEF I
  <2> QED
    BY <1>2, <1>3, SetInduction
<1> QED
  BY <1>4

\* Of two runs, the one that is over is not the shorter one.
LEMMA NotShorter ==
  ASSUME NEW ns \in SUBSET Ids, NEW ds, NEW a, NEW b, OneByOne(a, ns, ds), OneByOne(b, ns, ds),
         Nodes(a, Len(a)) = ns
  PROVE  Len(b) <= Len(a)
<1>1. Len(a) \in Nat /\ Len(b) \in Nat
  BY LenProperties DEF OneByOne
<1> SUFFICES ASSUME Len(a) + 1 <= Len(b) PROVE FALSE
  BY <1>1
<1> DEFINE m == Len(a)
<1>2. \A i \in 1 .. m : a[i] = b[i]
  BY <1>1, SameWay
<1>3. Nodes(b, m) = ns
  BY <1>2 DEF Nodes
<1>4. m + 1 \in 1 .. Len(b) /\ (m + 1) - 1 = m
  BY <1>1
<1>5. b[m + 1].node \in First(1, { n \in ns \ Nodes(b, m) : ds[n] \subseteq Nodes(b, m) })
  BY <1>4 DEF OneByOne
<1> QED
  BY <1>3, <1>5, FirstIsSubset

LEMMA OneWay ==
  ASSUME NEW a, NEW b, PlanNodes \in SUBSET Ids, Complete(a), Complete(b)
  PROVE  a = b
<1>1. /\ OneByOne(a, PlanNodes, PlanDeps) /\ Nodes(a, Len(a)) = PlanNodes
      /\ OneByOne(b, PlanNodes, PlanDeps) /\ Nodes(b, Len(b)) = PlanNodes
  BY DEF Complete
<1>2. /\ a \in Seq([node : Ids, ok : BOOLEAN]) /\ b \in Seq([node : Ids, ok : BOOLEAN])
      /\ Len(a) \in Nat /\ Len(b) \in Nat
  BY <1>1, LenProperties DEF OneByOne
<1>3. Len(a) = Len(b)
  BY <1>1, <1>2, NotShorter
<1>4. \A i \in 1 .. Len(a) : a[i] = b[i]
  BY <1>1, <1>2, <1>3, SameWay
<1> QED
  BY <1>2, <1>3, <1>4, SeqEqual

LEMMA LogIsSeq == ASSUME DagInv PROVE Log \in Seq(Events) /\ Log = LinesOf(allEvents)
<1>1. Log = LinesOf(allEvents)
  BY DEF Log, LinesOf
<1> QED
  BY <1>1, Lines DEF DagInv, TypeOK

\* A run without parallelism that is over leaves the lines of the plan.
LEMMA LogOfPlan ==
  ASSUME DagInv, PlanInv, SequentialInv, task # "none", limit = 1, phase = "done"
  PROVE  Log = PlanLines
<1>1. nodes = PlanNodes /\ deps = PlanDeps
  BY DEF PlanInv
<1>2. Collected = nodes
  BY PlanRuns DEF AllPlannedRuns
<1>3. Nodes(allEvents, Len(allEvents)) = PlanNodes
  BY <1>1, <1>2 DEF Collected, Nodes
<1>4. Complete(allEvents)
  BY <1>1, <1>3 DEF SequentialInv, Complete
<1>5. PlanNodes \in SUBSET Ids
  BY PlanIsGraph
<1> DEFINE es == CHOOSE es : Complete(es)
<1>6. Complete(es)
  BY <1>4
<1>7. es = allEvents
  <2> HIDE DEF es
  <2> QED
    BY <1>4, <1>5, <1>6, OneWay
<1> QED
  BY <1>7, LogIsSeq DEF PlanLines

-----------------------------------------------------------------------------
(* The steps *)

\* A state in which nothing has run.
LEMMA NothingRan ==
  ASSUME TypeOK', \A n \in Ids \ nodes' : deps'[n] = {}, phase' = "idle", batch' = {},
         allEvents' = << >>, \A n \in Ids : worker'[n] = "none"
  PROVE  DagInv'
<1>1. Len(allEvents') = 0
  OBVIOUS
<1>2. Collected' = {} /\ Ended' = {} /\ Settled' = {}
  BY <1>1 DEF Collected, Ended, Settled
<1>3. PhaseInv' /\ WorkerInv' /\ ReadyInv' /\ EventsInv'
  BY <1>2 DEF PhaseInv, WorkerInv, ReadyInv, EventsInv
<1>4. EventsInOrder'
  BY <1>1 DEF EventsInOrder
<1> QED
  BY <1>3, <1>4 DEF DagInv

\* The plan depends on the jobs alone.
LEMMA SamePlan ==
  ASSUME jobs' = jobs
  PROVE  PlannedJobs' = PlannedJobs /\ PlanNodes' = PlanNodes /\ PlanDeps' = PlanDeps
<1>1. PlannedJobs' = PlannedJobs
  BY DEF PlannedJobs
<1>2. \A j : Planned(j)' = Planned(j)
  BY DEF Planned
<1>3. PlanNodes' = PlanNodes
  BY <1>1, <1>2 DEF PlanNodes, GraphNodes
<1>4. PlanDeps' = PlanDeps
  BY <1>1, <1>2 DEF PlanDeps, StepDeps, EndDeps
<1> QED
  BY <1>1, <1>3, <1>4

\* ... and the lines of the plan on these and on the commands that fail.
LEMMA SameLines ==
  ASSUME jobs' = jobs, failing' = failing
  PROVE  PlanLines' = PlanLines
<1>1. PlanNodes' = PlanNodes /\ PlanDeps' = PlanDeps
  BY SamePlan
<1>2. (CHOOSE es : Complete(es))' = (CHOOSE es : Complete(es))
  BY <1>1 DEF Complete, OneByOne, Nodes
<1> QED
  BY <1>2 DEF PlanLines

\* Of a task that has not logged anything, there is no copy.
LEMMA NoCopy ==
  ASSUME NEW t
  PROVE  /\ logged = 0 => Copy(t) = << >>
         /\ logged' = 0 => Copy(t)' = << >>
         /\ task # t => Copy(t) = << >>
         /\ task' # t => Copy(t)' = << >>
BY SubSeqEmpty DEF Copy

\* One more event.
LEMMA Prefix ==
  ASSUME NEW S, NEW s \in Seq(S), NEW k \in Nat
  PROVE  /\ k < Len(s) => Append(SubSeq(s, 1, k), s[k + 1]) = SubSeq(s, 1, k + 1)
         /\ k = Len(s) => SubSeq(s, 1, k) = s
<1>1. Len(s) \in Nat
  BY LenProperties
<1>2. ASSUME k < Len(s) PROVE Append(SubSeq(s, 1, k), s[k + 1]) = SubSeq(s, 1, k + 1)
  <2> DEFINE a == SubSeq(s, 1, k)
             b == SubSeq(s, 1, k + 1)
  <2>1. a \in Seq(S) /\ Len(a) = k /\ \A i \in 1 .. k : a[i] = s[i]
    BY <1>1, <1>2
  <2>2. b \in Seq(S) /\ Len(b) = k + 1 /\ \A i \in 1 .. k + 1 : b[i] = s[i]
    BY <1>1, <1>2
  <2>3. s[k + 1] \in S
    BY <1>1, <1>2, ElementOfSeq
  <2> HIDE DEF a, b
  <2>4. Append(a, s[k + 1]) \in Seq(S) /\ Len(Append(a, s[k + 1])) = k + 1
    BY <2>1, <2>3, AppendProperties
  <2>5. ASSUME NEW i \in 1 .. k + 1 PROVE Append(a, s[k + 1])[i] = b[i]
    BY <2>1, <2>2, <2>3, AppendProperties
  <2>6. Append(a, s[k + 1]) = b
    BY <2>2, <2>4, <2>5, SeqEqual
  <2> QED
    BY <2>6 DEF a, b
<1>3. ASSUME k = Len(s) PROVE SubSeq(s, 1, k) = s
  <2>1. SubSeq(s, 1, k) \in Seq(S) /\ Len(SubSeq(s, 1, k)) = k
        /\ \A i \in 1 .. k : SubSeq(s, 1, k)[i] = s[i]
    BY <1>1, <1>3
  <2> QED
    BY <1>3, <2>1, SeqEqual
<1> QED
  BY <1>2, <1>3

\* A step that leaves the executor alone.
LEMMA SameExecutor ==
  ASSUME DagInv, UNCHANGED vars
  PROVE  /\ DagInv' /\ TypeOK' /\ Log' = Log
         /\ UNCHANGED <<nodes, deps, limit, phase, batch, worker, results, allEvents>>
<1>1. UNCHANGED <<nodes, deps, limit, phase, indegree, ready, batch, worker, results, allEvents>>
  BY DEF vars, graphVars, runVars
<1>2. TypeOK' /\ PhaseInv' /\ ReadyInv'
  BY <1>1, SameRun DEF DagInv, TypeOK, PhaseInv, ReadyInv
<1>3. DagInv'
  BY <1>1, <1>2, SameRun DEF DagInv
<1>4. Log' = Log
  BY <1>1 DEF Log
<1> QED
  BY <1>1, <1>2, <1>3, <1>4

LEMMA SameSequential ==
  ASSUME SequentialInv, UNCHANGED vars, UNCHANGED <<task, failing>>
  PROVE  SequentialInv'
<1>1. UNCHANGED <<nodes, deps, limit, batch, worker, results, allEvents>>
  BY DEF vars, graphVars, runVars
<1>2. Settled' = Settled
  BY <1>1 DEF Settled, Ended
<1>3. OneByOne(allEvents, nodes, deps)' <=> OneByOne(allEvents, nodes, deps)
  BY <1>1 DEF OneByOne
<1> QED
  BY <1>1, <1>2, <1>3 DEF SequentialInv

\* A task is planned: nothing has run, and its graph is the plan.
LEMMA Planning ==
  ASSUME PipelineInv, task = "none", BuildDAG, limit' \in Nat, task' \in {"run", "replay", "certify"},
         UNCHANGED <<runVars, jobs, failing, logged>>
  PROVE  /\ DagInv' /\ PlanInv' /\ SequentialInv' /\ logged = 0
         /\ order' \in Seq(Jobs)
<1>1. UNCHANGED <<phase, indegree, ready, batch, worker, results, allEvents, jobs, failing, logged>>
  BY DEF runVars
<1>2. phase = "idle" /\ nodes = {} /\ logged = 0 /\ jobs \in [Jobs -> Inputs]
  BY DEF PipelineInv, PlanInv
<1>3. batch = {} /\ allEvents = << >> /\ \A n \in Ids : worker[n] = "none"
  BY <1>2 DEF PipelineInv, DagInv, PhaseInv
<1>4. PlanNodes' = PlanNodes /\ PlanDeps' = PlanDeps
  BY <1>1, SamePlan
<1>5. order' = ResolveJobOrder(jobs) /\ nodes' = PlanNodes /\ deps' = PlanDeps
  BY DEF BuildDAG, PlanNodes, PlanDeps, PlannedJobs
<1>6. /\ PlanNodes \subseteq Ids /\ PlanDeps \in [Ids -> SUBSET PlanNodes]
      /\ \A n \in Ids \ PlanNodes : PlanDeps[n] = {}
  BY PlanIsGraph DEF PipelineInv
<1>7. TypeOK'
  <2>1. ready = {}
    BY <1>2 DEF PipelineInv, DagInv, TypeOK
  <2>2. deps' \in [Ids -> SUBSET Ids]
    BY <1>5, <1>6
  <2>3. TypeOK
    BY DEF PipelineInv, DagInv
  <2> QED
    BY <1>1, <1>3, <1>5, <1>6, <2>1, <2>2, <2>3 DEF TypeOK
<1>8. DagInv'
  <2>1. \A n \in Ids \ nodes' : deps'[n] = {}
    BY <1>5, <1>6
  <2> QED
    BY <1>1, <1>2, <1>3, <1>7, <2>1, NothingRan
<1>9. PlanInv'
  BY <1>1, <1>2, <1>4, <1>5 DEF PlanInv
<1>10. OneByOne(allEvents, nodes, deps)'
  BY <1>1, <1>3, EmptySeq DEF OneByOne
<1>11. SequentialInv'
  BY <1>1, <1>3, <1>10 DEF SequentialInv
<1>12. order' \in Seq(Jobs)
  BY <1>5, ResolvedOrder
<1> QED
  BY <1>2, <1>8, <1>9, <1>11, <1>12

\* What a run without parallelism, chaos and failures promises carries over when the step
\* keeps the verdicts, and its files can be read only if they could be read before.
LEMMA SameVerdicts ==
  ASSUME SequentialRunPasses, UNCHANGED <<asked, verdicts>>,
         dirty' = {} => dirty = {}, CanRead("wal")' => CanRead("wal")
  PROVE  /\ SequentialRunPasses'
         /\ \A kind : Unjudged(kind)' = Unjudged(kind)
BY DEF SequentialRunPasses, Unjudged

LEMMA StartRunStep == ASSUME PipelineInv, StartRun PROVE PipelineInv'
<1>1. /\ task = "none" /\ ~ran /\ task' = "run" /\ limit' = asked /\ BuildDAG
      /\ UNCHANGED <<runVars, jobs, failing, asked, logged, verdicts, ran, checks, dirty>>
  BY DEF StartRun
<1>2. PICK k \in Nat : file' = [file EXCEPT !["wal"] = [i \in 1 .. k |-> Garbage]]
  <2>1. \A c : \A k \in 0 .. c : k \in Nat
    OBVIOUS
  <2> QED
    BY <2>1 DEF StartRun
<1>3. PipelineTypeOK /\ asked \in Nat /\ file \in [Files -> Seq(Events \cup {Torn, Garbage})]
  BY DEF PipelineInv, PipelineTypeOK
<1>4. /\ DagInv' /\ PlanInv' /\ SequentialInv' /\ logged = 0 /\ logged' = 0
      /\ order' \in Seq(Jobs)
  BY <1>1, <1>3, Planning
<1>5. \A f \in Files : file[f] = << >>
  BY <1>1 DEF PipelineInv, TaskInv
<1>6. TaskInv'
  BY <1>1 DEF TaskInv
<1> DEFINE chaos == [i \in 1 .. k |-> Garbage]
<1>7. chaos \in Seq(Events \cup {Torn, Garbage}) /\ Len(chaos) = k
      /\ \A i \in 1 .. k : chaos[i] = Garbage
  <2>1. chaos \in [1 .. k -> Events \cup {Torn, Garbage}]
    OBVIOUS
  <2>2. chaos \in Seq(Events \cup {Torn, Garbage}) /\ DOMAIN chaos = 1 .. k
    BY <2>1, SeqDef
  <2> QED
    BY <2>2, LenProperties
<1>8. /\ file'["wal"] = chaos /\ file'["replay"] = << >> /\ file'["cert"] = << >>
      /\ file' \in [Files -> Seq(Events \cup {Torn, Garbage})]
  BY <1>2, <1>3, <1>5, <1>7 DEF Files
<1> HIDE DEF chaos
<1>9. CanRead("wal")' => file'["wal"] = << >>
  <2>1. ASSUME CanRead("wal")' PROVE k = 0
    <3>1. \A i \in 1 .. k : chaos[i] # Garbage
      BY <1>7, <1>8, <2>1 DEF CanRead
    <3> QED
      BY <1>7, <3>1
  <2> QED
    BY <1>7, <1>8, <2>1, EmptySeq
<1>10. PipelineTypeOK'
  <2>1. TypeOK'
    BY <1>4 DEF DagInv
  <2> QED
    BY <1>1, <1>3, <1>4, <1>8, <2>1 DEF PipelineTypeOK
<1>11. FilesInv'
  BY <1>1, <1>4, <1>8, <1>9, NoCopy DEF FilesInv
<1>12. SequentialRunPasses'
  <2>1. CanRead("wal")
    BY <1>5 DEF CanRead, Files
  <2> QED
    BY <1>1, <2>1, SameVerdicts DEF PipelineInv
<1> QED
  BY <1>4, <1>6, <1>10, <1>11, <1>12 DEF PipelineInv

\* A check begins.
LEMMA CheckBegins ==
  ASSUME PipelineInv, MayCheck, BuildDAG, limit' = 1, task' \in {"replay", "certify"},
         checks' = checks + 1,
         UNCHANGED <<runVars, jobs, failing, asked, file, logged, verdicts, ran, dirty>>
  PROVE  PipelineInv'
<1>1. task = "none" /\ ran /\ PipelineTypeOK
  BY DEF MayCheck, PipelineInv
<1>2. /\ DagInv' /\ PlanInv' /\ SequentialInv' /\ logged = 0 /\ logged' = 0
      /\ order' \in Seq(Jobs)
  BY <1>1, Planning
<1>3. TaskInv'
  BY <1>1 DEF TaskInv
<1>4. PipelineTypeOK'
  <2>1. TypeOK'
    BY <1>2 DEF DagInv
  <2> QED
    BY <1>1, <1>2, <2>1 DEF PipelineTypeOK
<1>5. CanRead("wal")' <=> CanRead("wal")
  BY DEF CanRead
<1>6. SequentialRunPasses' /\ \A kind : Unjudged(kind)' = Unjudged(kind)
  BY <1>5, SameVerdicts DEF PipelineInv
<1>7. PlanLines' = PlanLines
  BY SameLines
<1>8. FilesInv
  BY DEF PipelineInv
<1>9. FilesInv'
  BY <1>1, <1>2, <1>5, <1>6, <1>7, <1>8, NoCopy DEF FilesInv
<1> QED
  BY <1>2, <1>3, <1>4, <1>6, <1>9 DEF PipelineInv

\* While the executor works, nothing has been logged.
LEMMA ExecutesStep == ASSUME PipelineInv, Executes PROVE PipelineInv'
<1>1. /\ task # "none" /\ DagInv /\ SequentialInv
      /\ UNCHANGED <<jobs, failing, asked, task, order, file, logged, verdicts, ran, checks, dirty>>
  BY DEF Executes, PipelineInv, pipelineVars
<1>2. phase # "done"
  <2>1. ASSUME NEW n \in Ids, StartNode(n) \/ EndNode(n, n \notin failing) PROVE phase # "done"
    <3>1. n \in batch
      BY <1>1, <2>1 DEF StartNode, EndNode, DagInv, WorkerInv
    <3> QED
      BY <1>1, <3>1 DEF DagInv, PhaseInv
  <2> QED
    BY <2>1 DEF Executes, Prepare, Dispatch, Collect, Update, Return
<1>3. logged = 0
  BY <1>2 DEF PipelineInv, PipelineTypeOK
<1>4. DagInv'
  <2>1. \A n \in Ids : (n \notin failing) \in BOOLEAN
    OBVIOUS
  <2>2. ASSUME NEW n \in Ids, StartNode(n) \/ EndNode(n, n \notin failing) PROVE DagInv'
    BY <1>1, <2>1, <2>2, StartStep, EndStep
  <2> QED
    BY <1>1, <2>2, PrepareStep, DispatchStep, CollectStep, UpdateStep, ReturnStep DEF Executes
<1>5. SequentialInv'
  BY <1>1, SequentialStep
<1>6. UNCHANGED <<nodes, deps, limit>>
  BY DEF Executes, Prepare, Dispatch, Collect, Update, Return, StartNode, EndNode, graphVars
<1>7. PlanInv'
  <2>1. PlanNodes' = PlanNodes /\ PlanDeps' = PlanDeps
    BY <1>1, SamePlan
  <2> QED
    BY <1>1, <1>6, <2>1 DEF PipelineInv, PlanInv
<1>8. TaskInv'
  BY <1>1, <1>6 DEF PipelineInv, TaskInv
<1>9. PipelineTypeOK'
  <2>1. TypeOK'
    BY <1>4 DEF DagInv
  <2> QED
    BY <1>1, <1>3, <2>1 DEF PipelineInv, PipelineTypeOK
<1>10. CanRead("wal")' <=> CanRead("wal")
  BY <1>1 DEF CanRead
<1>11. SequentialRunPasses' /\ \A kind : Unjudged(kind)' = Unjudged(kind)
  BY <1>1, <1>10, SameVerdicts DEF PipelineInv
<1>12. FilesInv'
  <2>1. PlanLines' = PlanLines
    BY <1>1, SameLines
  <2>2. FilesInv
    BY DEF PipelineInv
  <2> QED
    BY <1>1, <1>3, <1>10, <1>11, <2>1, <2>2, NoCopy DEF FilesInv
<1> QED
  BY <1>4, <1>5, <1>7, <1>8, <1>9, <1>11, <1>12 DEF PipelineInv

\* What a step that writes an event keeps.
LEMMA Writing ==
  ASSUME PipelineInv, MayLog, UNCHANGED <<vars, jobs, failing, asked, task, order, verdicts, ran, checks>>
  PROVE  /\ DagInv' /\ TypeOK' /\ PlanInv' /\ TaskInv' /\ SequentialInv'
         /\ task # "none" /\ phase = "done" /\ phase' = "done"
         /\ Log \in Seq(Events) /\ Log' = Log /\ Len(Log) \in Nat
         /\ logged \in Nat /\ logged < Len(Log) /\ Log[logged + 1] \in Events
         /\ Target \in Files
<1>1. task # "none" /\ phase = "done" /\ logged < Len(Log)
  BY DEF MayLog
<1>2. DagInv /\ PlanInv /\ TaskInv /\ SequentialInv /\ PipelineTypeOK
  BY DEF PipelineInv
<1>3. /\ DagInv' /\ TypeOK' /\ Log' = Log
      /\ UNCHANGED <<nodes, deps, limit, phase, batch, worker, results, allEvents>>
  BY <1>2, SameExecutor
<1>4. SequentialInv'
  BY <1>2, SameSequential
<1>5. PlanInv'
  <2>1. PlanNodes' = PlanNodes /\ PlanDeps' = PlanDeps
    BY SamePlan
  <2> QED
    BY <1>1, <1>2, <1>3, <2>1 DEF PlanInv
<1>6. TaskInv'
  BY <1>1, <1>2, <1>3 DEF TaskInv
<1>7. Log \in Seq(Events) /\ Len(Log) \in Nat
  BY <1>2, LogIsSeq, LenProperties
<1>8. logged \in Nat
  BY <1>2 DEF PipelineTypeOK
<1>9. Log[logged + 1] \in Events
  BY <1>1, <1>7, <1>8, ElementOfSeq
<1>10. Target \in Files
  BY DEF Target, Files
<1> QED
  BY <1>1, <1>3, <1>4, <1>5, <1>6, <1>7, <1>8, <1>9, <1>10

LEMMA LogEventStep == ASSUME PipelineInv, LogEvent PROVE PipelineInv'
<1> DEFINE e == Log[logged + 1]
<1>1. /\ MayLog /\ logged' = logged + 1
      /\ file' = [file EXCEPT ![Target] = Append(@, Log[logged + 1])]
      /\ UNCHANGED <<vars, jobs, failing, asked, task, order, verdicts, ran, checks, dirty>>
  BY DEF LogEvent
<1>2. /\ DagInv' /\ TypeOK' /\ PlanInv' /\ TaskInv' /\ SequentialInv'
      /\ task # "none" /\ phase' = "done"
      /\ Log \in Seq(Events) /\ Log' = Log
      /\ logged \in Nat /\ logged < Len(Log) /\ e \in Events
      /\ Target \in Files
  BY <1>1, Writing
<1>3. PipelineTypeOK /\ file \in [Files -> Seq(Events \cup {Torn, Garbage})]
  BY DEF PipelineInv, PipelineTypeOK
<1> HIDE DEF e
<1>4. /\ \A f \in Files \ {Target} : file'[f] = file[f]
      /\ file'[Target] = Append(file[Target], e)
  BY <1>1, <1>2, <1>3 DEF e
<1>5. file' \in [Files -> Seq(Events \cup {Torn, Garbage})]
  <2>1. \A s \in Seq(Events \cup {Torn, Garbage}) : Append(s, e) \in Seq(Events \cup {Torn, Garbage})
    BY <1>2, AppendProperties
  <2> QED
    BY <1>1, <1>2, <1>3, <2>1 DEF e
<1>6. PipelineTypeOK'
  BY <1>1, <1>2, <1>3, <1>5 DEF PipelineTypeOK
<1>7. CanRead("wal")' => CanRead("wal")
  <2> DEFINE old == file["wal"]
             new == file'["wal"]
  <2>1. old \in Seq(Events \cup {Torn, Garbage}) /\ Len(old) \in Nat
    BY <1>3, LenProperties DEF Files
  <2>2. Len(old) <= Len(new) /\ \A i \in 1 .. Len(old) : new[i] = old[i]
    <3>1. CASE Target = "wal"
      <4>1. new = Append(old, e)
        BY <1>4, <3>1
      <4> QED
        BY <1>2, <2>1, <4>1, AppendProperties
    <3>2. CASE Target # "wal"
      <4>1. new = old
        BY <1>4, <3>2 DEF Files
      <4> QED
        BY <2>1, <4>1
    <3> QED
      BY <3>1, <3>2
  <2>3. Len(new) \in Nat
    BY <1>5, LenProperties DEF Files
  <2> HIDE DEF old, new
  <2>4. (\A i \in 1 .. Len(new) : new[i] \notin {Torn, Garbage})
          => \A i \in 1 .. Len(old) : old[i] \notin {Torn, Garbage}
    BY <2>1, <2>2, <2>3
  <2> QED
    BY <2>4 DEF CanRead, old, new
<1>8. SequentialRunPasses' /\ \A kind : Unjudged(kind)' = Unjudged(kind)
  BY <1>1, <1>7, SameVerdicts DEF PipelineInv
<1>9. PlanLines' = PlanLines
  BY <1>1, SameLines
<1>10. ASSUME NEW t, NEW f \in Files, file[f] = Copy(t), Target = f <=> task = t
       PROVE  file'[f] = Copy(t)'
  <2>1. CASE task = t
    <3>1. file[f] = SubSeq(Log, 1, logged)
      BY <1>10, <2>1 DEF Copy
    <3>2. Append(SubSeq(Log, 1, logged), e) = SubSeq(Log, 1, logged + 1)
      BY <1>2, Prefix DEF e
    <3>3. file'[f] = SubSeq(Log, 1, logged + 1)
      BY <1>4, <1>10, <2>1, <3>1, <3>2
    <3> QED
      BY <1>1, <1>2, <2>1, <3>3 DEF Copy
  <2>2. CASE task # t
    BY <1>1, <1>4, <1>10, <2>2, NoCopy
  <2> QED
    BY <2>1, <2>2
<1>11. task \in {"run", "replay", "certify"}
  BY <1>2, <1>3 DEF PipelineTypeOK
<1>12. /\ Target = "wal" <=> task = "run"
       /\ Target = "replay" <=> task = "replay"
       /\ Target = "cert" <=> task = "certify"
  BY <1>11 DEF Target
<1>13. FilesInv'
  <2> SUFFICES ASSUME (asked = 1 /\ dirty = {} /\ CanRead("wal"))'
               PROVE  /\ file'["wal"] = IF ran THEN PlanLines ELSE Copy("run")'
                      /\ Unjudged("replay") => file'["replay"] = Copy("replay")'
                      /\ Unjudged("certificate") => file'["cert"] = Copy("certify")'
    BY <1>1, <1>8, <1>9 DEF FilesInv
  <2>1. /\ file["wal"] = IF ran THEN PlanLines ELSE Copy("run")
        /\ Unjudged("replay") => file["replay"] = Copy("replay")
        /\ Unjudged("certificate") => file["cert"] = Copy("certify")
    BY <1>1, <1>7 DEF PipelineInv, FilesInv
  <2>2. file'["wal"] = IF ran THEN PlanLines ELSE Copy("run")'
    <3>1. CASE ran
      <4>1. Target # "wal"
        BY <1>12, <3>1 DEF PipelineInv, TaskInv
      <4> QED
        BY <1>4, <2>1, <3>1, <4>1 DEF Files
    <3>2. CASE ~ran
      BY <1>10, <1>12, <2>1, <3>2 DEF Files
    <3> QED
      BY <3>1, <3>2
  <2>3. Unjudged("replay") => file'["replay"] = Copy("replay")'
    BY <1>10, <1>12, <2>1 DEF Files
  <2>4. Unjudged("certificate") => file'["cert"] = Copy("certify")'
    BY <1>10, <1>12, <2>1 DEF Files
  <2> QED
    BY <2>2, <2>3, <2>4
<1> QED
  BY <1>2, <1>6, <1>8, <1>13 DEF PipelineInv

\* A failed append is seen in dirty, and nothing is promised any more.
LEMMA LoseEventStep == ASSUME PipelineInv, LoseEvent PROVE PipelineInv'
<1>1. /\ MayLog /\ logged' = logged + 1 /\ dirty' = dirty \cup {Target}
      /\ file' \in {file, [file EXCEPT ![Target] = Append(@, Torn)]}
      /\ UNCHANGED <<vars, jobs, failing, asked, task, order, verdicts, ran, checks>>
  BY DEF LoseEvent
<1>2. /\ DagInv' /\ TypeOK' /\ PlanInv' /\ TaskInv' /\ SequentialInv'
      /\ phase' = "done" /\ logged \in Nat /\ Target \in Files
  BY <1>1, Writing
<1>3. PipelineTypeOK /\ file \in [Files -> Seq(Events \cup {Torn, Garbage})]
  BY DEF PipelineInv, PipelineTypeOK
<1>4. file' \in [Files -> Seq(Events \cup {Torn, Garbage})]
  <2>1. \A s \in Seq(Events \cup {Torn, Garbage}) :
          Append(s, Torn) \in Seq(Events \cup {Torn, Garbage})
    BY AppendProperties
  <2> QED
    BY <1>1, <1>2, <1>3, <2>1
<1>5. PipelineTypeOK'
  BY <1>1, <1>2, <1>3, <1>4 DEF PipelineTypeOK
<1>6. dirty' # {}
  BY <1>1
<1>7. FilesInv' /\ SequentialRunPasses'
  BY <1>6 DEF FilesInv, SequentialRunPasses
<1> QED
  BY <1>2, <1>5, <1>7 DEF PipelineInv

\* The executor is thrown away.
LEMMA Discarding ==
  ASSUME PipelineInv, Discard, task # "none", ran' = TRUE,
         verdicts' \in Seq([kind : {"replay", "certificate"}, ok : BOOLEAN])
  PROVE  /\ DagInv' /\ PlanInv' /\ SequentialInv' /\ PipelineTypeOK'
         /\ task' = "none" /\ logged' = 0
         /\ CanRead("wal")' <=> CanRead("wal")
         /\ PlanLines' = PlanLines
<1>1. /\ logged = Len(Log) /\ task' = "none" /\ logged' = 0
      /\ nodes' = {} /\ deps' = [n \in Ids |-> {}] /\ limit' = 1
      /\ phase' = "idle" /\ indegree' = [n \in Ids |-> 0] /\ ready' = {} /\ batch' = {}
      /\ worker' = [n \in Ids |-> "none"] /\ results' = [n \in Ids |-> FALSE]
      /\ allEvents' = << >>
      /\ UNCHANGED <<jobs, failing, asked, order, file, checks, dirty>>
  BY DEF Discard
<1>2. PlanInv /\ PipelineTypeOK
  BY DEF PipelineInv
<1>3. TypeOK'
  BY <1>1, EmptySeq DEF TypeOK
<1>4. DagInv'
  BY <1>1, <1>3, NothingRan
<1>5. PlanInv'
  <2>1. order = ResolveJobOrder(jobs)
    BY <1>2 DEF PlanInv
  <2> QED
    BY <1>1, <1>2, <2>1 DEF PlanInv
<1>6. SequentialInv'
  BY <1>1 DEF SequentialInv
<1>7. PipelineTypeOK'
  BY <1>1, <1>2, <1>3 DEF PipelineTypeOK
<1>8. CanRead("wal")' <=> CanRead("wal")
  BY <1>1 DEF CanRead
<1>9. PlanLines' = PlanLines
  BY <1>1, SameLines
<1> QED
  BY <1>1, <1>4, <1>5, <1>6, <1>7, <1>8, <1>9

\* A task that is over leaves a whole copy of its log, and that of a task without
\* parallelism is the lines of the plan.
LEMMA WholeCopy ==
  ASSUME PipelineInv, task # "none", phase = "done", logged = Len(Log), limit = 1
  PROVE  Copy(task) = PlanLines
<1>1. Log = PlanLines
  BY LogOfPlan DEF PipelineInv
<1>2. Log \in Seq(Events) /\ Len(Log) \in Nat
  BY LogIsSeq, LenProperties DEF PipelineInv
<1>3. SubSeq(Log, 1, logged) = Log
  BY <1>2, Prefix
<1> QED
  BY <1>1, <1>3 DEF Copy

LEMMA RunEndsStep == ASSUME PipelineInv, RunEnds PROVE PipelineInv'
<1>1. /\ task = "run" /\ phase = "done" /\ logged = Len(Log) /\ ran' = TRUE
      /\ Discard /\ UNCHANGED <<asked, file, dirty, verdicts>>
  BY DEF RunEnds, Discard
<1>2. verdicts' \in Seq([kind : {"replay", "certificate"}, ok : BOOLEAN])
  BY <1>1 DEF PipelineInv, PipelineTypeOK
<1>3. /\ DagInv' /\ PlanInv' /\ SequentialInv' /\ PipelineTypeOK' /\ task' = "none" /\ logged' = 0
      /\ CanRead("wal")' <=> CanRead("wal")
      /\ PlanLines' = PlanLines
  BY <1>1, <1>2, Discarding
<1>4. TaskInv'
  BY <1>1, <1>3 DEF TaskInv
<1>5. SequentialRunPasses' /\ \A kind : Unjudged(kind)' = Unjudged(kind)
  BY <1>1, <1>3, SameVerdicts DEF PipelineInv
<1>6. ~ran /\ limit = asked
  BY <1>1 DEF PipelineInv, TaskInv
<1>7. asked = 1 => Copy("run") = PlanLines
  BY <1>1, <1>6, WholeCopy
<1>8. FilesInv'
  <2>1. FilesInv
    BY DEF PipelineInv
  <2> QED
    BY <1>1, <1>3, <1>5, <1>6, <1>7, <2>1, NoCopy DEF FilesInv
<1> QED
  BY <1>3, <1>4, <1>5, <1>8 DEF PipelineInv

\* One more verdict, and what it says if it is the first of its kind.
LEMMA Judged ==
  ASSUME PipelineInv, NEW kind \in {"replay", "certificate"}, NEW ok \in BOOLEAN,
         Verdict(kind, ok), UNCHANGED <<asked, dirty>>, CanRead("wal")' <=> CanRead("wal"),
         (asked = 1 /\ dirty = {} /\ CanRead("wal") /\ Unjudged(kind)) => ok
  PROVE  /\ verdicts' \in Seq([kind : {"replay", "certificate"}, ok : BOOLEAN])
         /\ SequentialRunPasses'
         /\ ~ Unjudged(kind)'
         /\ \A other : Unjudged(other)' => Unjudged(other)
<1> DEFINE E == [kind : {"replay", "certificate"}, ok : BOOLEAN]
           v == [kind |-> kind, ok |-> ok]
           n == Len(verdicts)
<1>1. verdicts \in Seq(E) /\ n \in Nat
  BY LenProperties DEF PipelineInv, PipelineTypeOK
<1>2. v \in E /\ v.kind = kind /\ v.ok = ok
  OBVIOUS
<1>3. verdicts' = Append(verdicts, v)
  BY DEF Verdict
<1> HIDE DEF v
<1>4. /\ verdicts' \in Seq(E) /\ Len(verdicts') = n + 1
      /\ \A i \in 1 .. n : verdicts'[i] = verdicts[i]
      /\ verdicts'[n + 1] = v
  BY <1>1, <1>2, <1>3, AppendProperties
<1>5. ~ Unjudged(kind)'
  <2>1. n + 1 \in 1 .. Len(verdicts') /\ verdicts'[n + 1].kind = kind
    BY <1>1, <1>2, <1>4
  <2> QED
    BY <2>1 DEF Unjudged
<1>6. ASSUME NEW other, Unjudged(other)' PROVE Unjudged(other)
  <2>1. \A i \in 1 .. n : i \in 1 .. Len(verdicts')
    BY <1>1, <1>4
  <2> QED
    BY <1>4, <1>6, <2>1 DEF Unjudged
<1>7. SequentialRunPasses'
  <2> SUFFICES ASSUME asked = 1, dirty = {}, CanRead("wal"), NEW i \in 1 .. Len(verdicts'),
                      \A k \in 1 .. i - 1 : verdicts'[k].kind # verdicts'[i].kind
               PROVE  verdicts'[i].ok
    BY DEF SequentialRunPasses
  <2>1. CASE i \in 1 .. n
    <3>1. verdicts'[i] = verdicts[i]
      BY <1>4, <2>1
    <3>2. \A k \in 1 .. i - 1 : k \in 1 .. n /\ verdicts'[k] = verdicts[k]
      BY <1>1, <1>4, <2>1
    <3>3. \A k \in 1 .. i - 1 : verdicts[k].kind # verdicts[i].kind
      BY <3>1, <3>2
    <3>4. verdicts[i].ok
      BY <2>1, <3>3 DEF PipelineInv, SequentialRunPasses
    <3> QED
      BY <3>1, <3>4
  <2>2. CASE i = n + 1
    <3>1. verdicts'[i] = v /\ i - 1 = n
      BY <1>1, <1>4, <2>2
    <3>2. \A k \in 1 .. n : verdicts[k].kind # kind
      BY <1>2, <1>4, <3>1
    <3>3. ok
      BY <3>2 DEF Unjudged
    <3> QED
      BY <1>2, <3>1, <3>3
  <2>3. i \in 1 .. n \/ i = n + 1
    BY <1>1, <1>4
  <2> QED
    BY <2>1, <2>2, <2>3
<1> QED
  BY <1>4, <1>5, <1>6, <1>7

LEMMA CertifyEndsStep == ASSUME PipelineInv, CertifyEnds PROVE PipelineInv'
<1>1. /\ task = "certify" /\ phase = "done" /\ logged = Len(Log) /\ ran' = ran
      /\ Discard /\ UNCHANGED <<asked, file, dirty>>
      /\ Verdict("certificate", SameFiles)
  BY DEF CertifyEnds, Discard
<1>2. ran = TRUE /\ limit = 1
  BY <1>1 DEF PipelineInv, TaskInv, PipelineTypeOK
<1>3. CanRead("wal")' <=> CanRead("wal")
  BY <1>1 DEF CanRead
<1>4. (asked = 1 /\ dirty = {} /\ CanRead("wal")) =>
        /\ file["wal"] = PlanLines
        /\ Unjudged("replay") => file["replay"] = Copy("replay")
        /\ Unjudged("certificate") => file["cert"] = Copy("certify")
  BY <1>2 DEF PipelineInv, FilesInv
<1>5. Copy("certify") = PlanLines /\ Copy("replay") = << >>
  BY <1>1, <1>2, WholeCopy, NoCopy
<1>6. /\ verdicts' \in Seq([kind : {"replay", "certificate"}, ok : BOOLEAN])
      /\ SequentialRunPasses'
      /\ ~ Unjudged("certificate")'
      /\ \A other : Unjudged(other)' => Unjudged(other)
  <2>1. SameFiles \in BOOLEAN
    BY DEF SameFiles
  <2>2. (asked = 1 /\ dirty = {} /\ CanRead("wal") /\ Unjudged("certificate")) => SameFiles
    BY <1>4, <1>5 DEF SameFiles
  <2> QED
    BY <1>1, <1>3, <2>1, <2>2, Judged
<1>7. /\ DagInv' /\ PlanInv' /\ SequentialInv' /\ PipelineTypeOK' /\ task' = "none" /\ logged' = 0
      /\ PlanLines' = PlanLines
  BY <1>1, <1>2, <1>6, Discarding
<1>8. TaskInv'
  BY <1>1, <1>2, <1>7 DEF TaskInv
<1>9. FilesInv'
  BY <1>1, <1>2, <1>3, <1>4, <1>5, <1>6, <1>7, NoCopy DEF FilesInv
<1> QED
  BY <1>6, <1>7, <1>8, <1>9 DEF PipelineInv

LEMMA ReplayEndsStep == ASSUME PipelineInv, ReplayEnds PROVE PipelineInv'
<1>1. /\ task = "replay" /\ phase = "done" /\ logged = Len(Log) /\ ran' = ran
      /\ Discard /\ UNCHANGED <<asked, file, dirty>>
      /\ IF CanRead("replay") THEN Verdict("replay", SameEvents) ELSE UNCHANGED verdicts
  BY DEF ReplayEnds, Discard
<1>2. ran = TRUE /\ limit = 1
  BY <1>1 DEF PipelineInv, TaskInv, PipelineTypeOK
<1>3. CanRead("wal")' <=> CanRead("wal")
  BY <1>1 DEF CanRead
<1>4. (asked = 1 /\ dirty = {} /\ CanRead("wal")) =>
        /\ file["wal"] = PlanLines
        /\ Unjudged("replay") => file["replay"] = Copy("replay")
        /\ Unjudged("certificate") => file["cert"] = Copy("certify")
  BY <1>2 DEF PipelineInv, FilesInv
<1>5. Copy("replay") = PlanLines /\ Copy("certify") = << >>
  BY <1>1, <1>2, WholeCopy, NoCopy
<1>6. (asked = 1 /\ dirty = {} /\ CanRead("wal") /\ Unjudged("replay")) =>
        SameEvents /\ CanRead("replay")
  BY <1>4, <1>5 DEF SameEvents, CanRead
<1>7. /\ verdicts' \in Seq([kind : {"replay", "certificate"}, ok : BOOLEAN])
      /\ SequentialRunPasses'
      /\ (asked = 1 /\ dirty = {} /\ CanRead("wal")) => ~ Unjudged("replay")'
      /\ \A other : Unjudged(other)' => Unjudged(other)
  <2>1. CASE CanRead("replay")
    <3>1. SameEvents \in BOOLEAN
      BY DEF SameEvents
    <3> QED
      BY <1>1, <1>3, <1>6, <2>1, <3>1, Judged
  <2>2. CASE ~ CanRead("replay")
    <3>1. verdicts' = verdicts
      BY <1>1, <2>2
    <3>2. verdicts' \in Seq([kind : {"replay", "certificate"}, ok : BOOLEAN])
      BY <3>1 DEF PipelineInv, PipelineTypeOK
    <3>3. SequentialRunPasses' /\ \A kind : Unjudged(kind)' = Unjudged(kind)
      BY <1>1, <1>3, <3>1, SameVerdicts DEF PipelineInv
    <3> QED
      BY <1>6, <2>2, <3>2, <3>3
  <2> QED
    BY <2>1, <2>2
<1>8. /\ DagInv' /\ PlanInv' /\ SequentialInv' /\ PipelineTypeOK' /\ task' = "none" /\ logged' = 0
      /\ PlanLines' = PlanLines
  BY <1>1, <1>2, <1>7, Discarding
<1>9. TaskInv'
  BY <1>1, <1>2, <1>8 DEF TaskInv
<1>10. FilesInv'
  BY <1>1, <1>2, <1>3, <1>4, <1>5, <1>7, <1>8, NoCopy DEF FilesInv
<1> QED
  BY <1>7, <1>8, <1>9, <1>10 DEF PipelineInv

LEMMA InitPipeline == PipelineInit => PipelineInv
<1> SUFFICES ASSUME PipelineInit PROVE PipelineInv
  OBVIOUS
<1>1. DagInv
  BY FreshInv DEF PipelineInit
<1>2. /\ task = "none" /\ ran = FALSE /\ logged = 0 /\ nodes = {} /\ phase = "idle"
      /\ file = [f \in Files |-> << >>] /\ verdicts = << >> /\ order = << >>
      /\ jobs \in [Jobs -> Inputs] /\ checks = 0 /\ dirty = {}
      /\ failing \in Failures /\ asked \in Limits
  BY DEF PipelineInit, Reset
<1>3. PipelineTypeOK
  <2>1. failing \subseteq Ids /\ asked \in Nat
    BY <1>2, PipelineAssumption, DagAssumption
  <2>2. /\ order \in Seq(Jobs) /\ << >> \in Seq(Events \cup {Torn, Garbage})
        /\ verdicts \in Seq([kind : {"replay", "certificate"}, ok : BOOLEAN])
    BY <1>2, EmptySeq
  <2>3. file \in [Files -> Seq(Events \cup {Torn, Garbage})]
    BY <1>2, <2>2
  <2>4. /\ TypeOK /\ jobs \in [Jobs -> Inputs] /\ task \in {"none", "run", "replay", "certify"}
        /\ ran \in BOOLEAN /\ dirty \subseteq Files
    BY <1>1, <1>2 DEF DagInv
  <2>5. logged \in Nat /\ checks \in Nat /\ (logged > 0 => phase = "done")
    BY <1>2
  <2> QED
    BY <2>1, <2>2, <2>3, <2>4, <2>5 DEF PipelineTypeOK
<1>4. PlanInv /\ TaskInv /\ SequentialInv
  BY <1>2 DEF PlanInv, TaskInv, SequentialInv
<1>5. FilesInv
  BY <1>2, NoCopy DEF FilesInv, Files
<1>6. SequentialRunPasses
  BY <1>2, EmptySeq DEF SequentialRunPasses
<1> QED
  BY <1>1, <1>3, <1>4, <1>5, <1>6 DEF PipelineInv

LEMMA NothingHappens == ASSUME PipelineInv, UNCHANGED allVars PROVE PipelineInv'
<1>1. /\ UNCHANGED vars
      /\ UNCHANGED <<jobs, failing, asked, task, order, file, logged, verdicts, ran, checks, dirty>>
  BY DEF allVars, pipelineVars
<1>2. DagInv /\ SequentialInv
  BY DEF PipelineInv
<1>3. /\ DagInv' /\ TypeOK' /\ Log' = Log
      /\ UNCHANGED <<nodes, deps, limit, phase, batch, worker, results, allEvents>>
  BY <1>1, <1>2, SameExecutor
<1>4. SequentialInv'
  BY <1>1, <1>2, SameSequential
<1>5. PlanInv'
  <2>1. PlanNodes' = PlanNodes /\ PlanDeps' = PlanDeps
    BY <1>1, SamePlan
  <2> QED
    BY <1>1, <1>3, <2>1 DEF PipelineInv, PlanInv
<1>6. TaskInv' /\ PipelineTypeOK'
  BY <1>1, <1>3 DEF PipelineInv, TaskInv, PipelineTypeOK
<1>7. CanRead("wal")' <=> CanRead("wal")
  BY <1>1 DEF CanRead
<1>8. SequentialRunPasses' /\ \A kind : Unjudged(kind)' = Unjudged(kind)
  BY <1>1, <1>7, SameVerdicts DEF PipelineInv
<1>9. FilesInv'
  <2>1. PlanLines' = PlanLines
    BY <1>1, SameLines
  <2>2. \A t : Copy(t)' = Copy(t)
    BY <1>1, <1>3 DEF Copy
  <2>3. FilesInv
    BY DEF PipelineInv
  <2> QED
    BY <1>1, <1>7, <1>8, <2>1, <2>2, <2>3 DEF FilesInv
<1> QED
  BY <1>3, <1>4, <1>5, <1>6, <1>8, <1>9 DEF PipelineInv

-----------------------------------------------------------------------------
(* The theorems *)

\* PipelineInv is an invariant of the pipeline.
THEOREM PipelineInductive == PipelineSpec => []PipelineInv
<1>1. PipelineInit => PipelineInv
  BY InitPipeline
<1>2. PipelineInv /\ [PipelineNext]_allVars => PipelineInv'
  <2> SUFFICES ASSUME PipelineInv, [PipelineNext]_allVars PROVE PipelineInv'
    OBVIOUS
  <2>1. CASE StartReplay
    BY <2>1, CheckBegins DEF StartReplay
  <2>2. CASE StartCertify
    BY <2>2, CheckBegins DEF StartCertify
  <2>3. CASE UNCHANGED allVars
    BY <2>3, NothingHappens
  <2> QED
    BY <2>1, <2>2, <2>3, StartRunStep, ExecutesStep, LogEventStep, LoseEventStep, RunEndsStep,
       ReplayEndsStep, CertifyEndsStep DEF PipelineNext
<1> QED
  BY <1>1, <1>2, PTL DEF PipelineSpec

\* Type correctness of the pipeline: nothing is logged before the executor is done, and the
\* files hold events and what chaos and failed appends leave.
THEOREM PipelineTypeCorrect == PipelineSpec => []PipelineTypeOK
<1>1. PipelineInv => PipelineTypeOK
  BY DEF PipelineInv
<1> QED
  BY <1>1, PipelineInductive, PTL

\* ResolveJobOrder lists all the jobs, each after its needs, or it has found an unknown
\* need or jobs that wait for each other (dag.go:9-68).
THEOREM OrderIsSound == PipelineSpec => []OrderSound
<1>1. PipelineInv => OrderSound
  <2> SUFFICES ASSUME PipelineInv PROVE OrderSound
    OBVIOUS
  <2> DEFINE o == ResolveJobOrder(jobs)
  <2>1. order = IF ran \/ task # "none" THEN o ELSE << >>
    BY DEF PipelineInv, PlanInv
  <2>2. /\ o # << >> =>
             /\ Range(o) = Jobs /\ Len(o) = JobCount
             /\ \A i \in 1 .. JobCount : jobs[o[i]].needs \subseteq { o[k] : k \in 1 .. i - 1 }
        /\ o = << >> =>
             \/ \E j \in Jobs : ~ (jobs[j].needs \subseteq Jobs)
             \/ \E S \in (SUBSET Jobs) \ {{}} : \A j \in S : jobs[j].needs \cap S # {}
    BY ResolvedOrder
  <2> HIDE DEF o
  <2>3. CASE order # << >>
    BY <2>1, <2>2, <2>3 DEF OrderSound
  <2>4. CASE order = << >>
    BY <2>1, <2>2, <2>4 DEF OrderSound
  <2> QED
    BY <2>3, <2>4
<1> QED
  BY <1>1, PipelineInductive, PTL

\* The executor runs the whole graph of every plan (plan.go:34-104, executor.go:59-106).
THEOREM AllPlanned == PipelineSpec => []AllPlannedRuns
<1>1. PipelineInv => AllPlannedRuns
  BY PlanRuns DEF PipelineInv
<1> QED
  BY <1>1, PipelineInductive, PTL

\* A run without parallelism, chaos and failed appends passes its first replay and its first
\* certification, whichever of its steps fail (replay_verifier.go:29-92, certifier.go:19-62).
THEOREM FirstChecksPass == PipelineSpec => []SequentialRunPasses
<1>1. PipelineInv => SequentialRunPasses
  BY DEF PipelineInv
<1> QED
  BY <1>1, PipelineInductive, PTL
=============================================================================
