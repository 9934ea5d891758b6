----------------------------- MODULE CiPipeline -----------------------------
(***************************************************************************)
(* The CI pipeline around the executor (internal/ci): ResolveJobOrder and  *)
(* BuildDAG turn jobs into a graph, Scheduler.Run executes it and appends  *)
(* the events to a WAL file, ReplayVerifier.Replay and Certifier.Certify   *)
(* execute the jobs once more, each into a file of its own, and compare.   *)
(*                                                                         *)
(* A command does the same whenever it runs.  A chunk of a file is an      *)
(* event, Torn (the rest of a short write) or Garbage (the line that chaos *)
(* injection writes); a reader fails on either of these.  The cache        *)
(* decision of a step changes nothing in the graph and is left out.        *)
(***************************************************************************)
EXTENDS DagExecutor, SequencesExt

CONSTANTS
  JobCount, StepCount,  \* jobs are 1 .. JobCount, the step IDs of a job 1 .. StepCount
  Inputs,               \* the shapes that a job may have
  Failures,             \* the sets of run nodes whose commands may fail
  Torn, Garbage,
  MaxChecks,            \* bound: replays and certifications
  MaxFaults             \* bound: failed appends

Jobs == 1 .. JobCount
Steps == 1 .. StepCount

\* Node IDs in the order of their strings: "j:job_end" before "j:job_start" before
\* "j:step:cache" before "j:step:run".
Width == 2 * StepCount + 2
JobEnd(j) == (j - 1) * Width + 1
JobStart(j) == (j - 1) * Width + 2
CacheNode(j, s) == (j - 1) * Width + 2 * s + 1
RunNode(j, s) == (j - 1) * Width + 2 * s + 2

ASSUME PipelineAssumption ==
  /\ JobCount \in Nat \ {0} /\ StepCount \in Nat
  /\ Ids = 1 .. JobCount * Width
  /\ Inputs \subseteq [needs : SUBSET Nat, steps : SUBSET Steps, expands : BOOLEAN]
  /\ Failures \subseteq SUBSET Ids

Statuses == {"RUNNING", "SUCCESS", "FAILED", "CREATED"}
Types == {"CI_JOB_STARTED", "CI_JOB_FINISHED", "CI_STEP_STARTED", "CI_STEP_FINISHED",
          "CI_ARTIFACT"}
Events == [type : Types, job : Jobs, step : Steps \cup {0}, status : Statuses]
Files == {"wal", "replay", "cert"}

ASSUME ChunksAssumption == Torn \notin Events /\ Garbage \notin Events

VARIABLES
  jobs,      \* the jobs: needs, step IDs, and whether the matrix has a variant
  failing,   \* the run nodes whose command exits with an error
  asked,     \* Scheduler.MaxParallel of the run
  task,      \* what uses the executor
  order,     \* what ResolveJobOrder returned last, empty for an error
  file,      \* the WAL and what is beside it: .replay and .cert
  logged,    \* how many events of the execution have been appended or lost
  verdicts,  \* what the checks said: a replay, or a certificate
  ran,       \* the run is over
  checks,    \* the replays and certifications begun
  dirty      \* ghost: the files for which an append failed

pipelineVars == <<jobs, failing, asked, task, order, file, logged, verdicts, ran, checks, dirty>>
allVars == <<vars, pipelineVars>>

PipelineTypeOK ==
  /\ TypeOK
  /\ jobs \in [Jobs -> Inputs]
  /\ failing \subseteq Ids /\ asked \in Nat
  /\ task \in {"none", "run", "replay", "certify"}
  /\ order \in Seq(Jobs)
  /\ file \in [Files -> Seq(Events \cup {Torn, Garbage})]
  /\ logged \in Nat /\ (logged > 0 => phase = "done")
  /\ verdicts \in Seq([kind : {"replay", "certificate"}, ok : BOOLEAN])
  /\ ran \in BOOLEAN /\ checks \in Nat /\ dirty \subseteq Files

PipelineInit ==
  /\ nodes = {} /\ deps = [n \in Ids |-> {}] /\ limit = 1 /\ Reset
  /\ jobs \in [Jobs -> Inputs]
  /\ failing \in Failures
  /\ asked \in Limits
  /\ task = "none" /\ order = << >>
  /\ file = [f \in Files |-> << >>]
  /\ logged = 0 /\ verdicts = << >> /\ ran = FALSE
  /\ checks = 0 /\ dirty = {}

-----------------------------------------------------------------------------
(* Planning *)

\* sort.Strings: the k-th is the only one of the first k that is not one of the first
\* k - 1.
Sorted(S) == [k \in 1 .. Cardinality(S) |-> CHOOSE j \in First(k, S) : j \notin First(k - 1, S)]

\* Kahn's algorithm over the jobs, with a FIFO queue.
KahnStart(js) ==
  [queue |-> Sorted({ j \in Jobs : js[j].needs = {} }), found |-> << >>,
   indeg |-> [j \in Jobs |-> Cardinality(js[j].needs)]]

KahnStep(js, s) ==
  LET current == Head(s.queue)
      waiting == { j \in Jobs : current \in js[j].needs }
      indeg == [j \in Jobs |-> IF j \in waiting THEN s.indeg[j] - 1 ELSE s.indeg[j]]
  IN  IF s.queue = << >> THEN s
      ELSE [queue |-> Tail(s.queue) \o Sorted({ j \in waiting : indeg[j] = 0 }),
            found |-> Append(s.found, current), indeg |-> indeg]

Kahn(js) ==
  LET kahn[k \in 0 .. JobCount] ==
        IF k = 0 THEN KahnStart(js) ELSE KahnStep(js, kahn[k - 1])
  IN  kahn

\* Mutant of Result: the order found so far is returned, cycle or not.
ResultUnchecked(found) == found

\* Fewer jobs in the order than there are: a cycle.
Result(found) == IF Len(found) = JobCount THEN found ELSE << >>

\* << >> stands for an error: an unknown need, or a cycle.
ResolveJobOrder(js) ==
  IF \A j \in Jobs : js[j].needs \subseteq Jobs
  THEN Result(Kahn(js)[JobCount].found) ELSE << >>

\* The steps of a job that get nodes: none if a matrix variable lists no values.
Planned(j) == IF jobs[j].expands THEN jobs[j].steps ELSE {}

\* BuildDAG, nodes: those of the ordered jobs, the same ones for each matrix variant.
GraphNodes(js) ==
  UNION { {JobStart(j), JobEnd(j)}
            \cup UNION { {CacheNode(j, s), RunNode(j, s)} : s \in Planned(j) } : j \in js }

\* A run node depends on the start of its job and on its cache node ...
StepDeps(js, n) ==
  { d \in Ids : \E j \in js : \E s \in Planned(j) :
                  n = RunNode(j, s) /\ d \in {JobStart(j), CacheNode(j, s)} }

\* Mutant of EndDeps: the end of a job waits for all its steps, planned or not.
EndDepsUnplanned(js, n) ==
  { d \in Ids : \E j \in js : \E s \in jobs[j].steps : n = JobEnd(j) /\ d = RunNode(j, s) }

\* ... and the end of a job on those of its run nodes that are in the graph.
EndDeps(js, n) ==
  { d \in Ids : \E j \in js : \E s \in Planned(j) : n = JobEnd(j) /\ d = RunNode(j, s) }

\* BuildDAG drops the error of ResolveJobOrder, and then plans no job at all.  The
\* needs of a job make no edges.
BuildDAG ==
  /\ order' = ResolveJobOrder(jobs)
  /\ nodes' = GraphNodes(Range(order'))
  /\ deps' = [n \in Ids |-> StepDeps(Range(order'), n) \cup EndDeps(Range(order'), n)]

\* executeNode: the events of a node; a job ends with success whatever its steps did.
EventsOf(n, ok) ==
  LET ev(t, j, s, st) == [type |-> t, job |-> j, step |-> s, status |-> st]
      j == (n - 1) \div Width + 1
      place == (n - 1) % Width
      s == (place - 1) \div 2
  IN  CASE place = 0 -> << ev("CI_JOB_FINISHED", j, 0, "SUCCESS") >>
        [] place = 1 -> << ev("CI_JOB_STARTED", j, 0, "RUNNING") >>
        [] place > 1 /\ place % 2 = 0 -> << >>
        [] OTHER ->
             << ev("CI_STEP_STARTED", j, s, "RUNNING"),
                ev("CI_STEP_FINISHED", j, s, IF ok THEN "SUCCESS" ELSE "FAILED") >>
             \o IF ok THEN << ev("CI_ARTIFACT", j, s, "CREATED") >> ELSE << >>

\* What Executor.Run returned.
Log == FlattenSeq([i \in 1 .. Len(allEvents) |-> EventsOf(allEvents[i].node, allEvents[i].ok)])

-----------------------------------------------------------------------------
(* Running, replaying, certifying *)

\* Scheduler.Run; injectChaos may have written to the WAL, once for each step.
StartRun ==
  /\ task = "none" /\ ~ran
  /\ BuildDAG
  /\ limit' = asked /\ task' = "run"
  /\ \E k \in 0 .. Cardinality({ p \in Jobs \X Steps : p[2] \in jobs[p[1]].steps }) :
       file' = [file EXCEPT !["wal"] = [i \in 1 .. k |-> Garbage]]
  /\ UNCHANGED <<runVars, jobs, failing, asked, logged, verdicts, ran, checks, dirty>>

\* trace.ReadWALFile decodes all lines or fails.
CanRead(f) == \A i \in 1 .. Len(file[f]) : file[f][i] \notin {Torn, Garbage}

MayCheck == task = "none" /\ ran /\ checks < MaxChecks

\* Mutant of StartReplay: the replay runs with the default parallelism.
StartReplayParallel ==
  /\ MayCheck /\ CanRead("wal")
  /\ BuildDAG
  /\ limit' = Default /\ task' = "replay" /\ checks' = checks + 1
  /\ UNCHANGED <<runVars, jobs, failing, asked, file, logged, verdicts, ran, dirty>>

\* Replay reads the WAL first and returns an error if it cannot.
StartReplay ==
  /\ MayCheck /\ CanRead("wal")
  /\ BuildDAG
  /\ limit' = 1 /\ task' = "replay" /\ checks' = checks + 1
  /\ UNCHANGED <<runVars, jobs, failing, asked, file, logged, verdicts, ran, dirty>>

StartCertify ==
  /\ MayCheck
  /\ BuildDAG
  /\ limit' = 1 /\ task' = "certify" /\ checks' = checks + 1
  /\ UNCHANGED <<runVars, jobs, failing, asked, file, logged, verdicts, ran, dirty>>

Executes ==
  /\ task # "none"
  /\ \/ Prepare \/ Dispatch \/ Collect \/ Update \/ Return
     \/ \E n \in Ids : StartNode(n) \/ EndNode(n, n \notin failing)
  /\ UNCHANGED pipelineVars

\* The file that the task writes.
Target == CASE task = "run" -> "wal" [] task = "replay" -> "replay" [] OTHER -> "cert"

MayLog == task # "none" /\ phase = "done" /\ logged < Len(Log)

LogEvent ==
  /\ MayLog
  /\ file' = [file EXCEPT ![Target] = Append(@, Log[logged + 1])]
  /\ logged' = logged + 1
  /\ UNCHANGED <<vars, jobs, failing, asked, task, order, verdicts, ran, checks, dirty>>

\* AppendCanonical fails, and nobody looks at its error.
LoseEvent ==
  /\ MayLog /\ Cardinality(dirty) < MaxFaults
  /\ file' \in {file, [file EXCEPT ![Target] = Append(@, Torn)]}
  /\ logged' = logged + 1
  /\ dirty' = dirty \cup {Target}
  /\ UNCHANGED <<vars, jobs, failing, asked, task, order, verdicts, ran, checks>>

\* The executor is thrown away with its graph.
Discard ==
  /\ logged = Len(Log)
  /\ task' = "none" /\ logged' = 0
  /\ nodes' = {} /\ deps' = [n \in Ids |-> {}] /\ limit' = 1
  /\ phase' = "idle" /\ indegree' = [n \in Ids |-> 0] /\ ready' = {} /\ batch' = {}
  /\ worker' = [n \in Ids |-> "none"] /\ results' = [n \in Ids |-> FALSE]
  /\ allEvents' = << >>
  /\ UNCHANGED <<jobs, failing, asked, order, file, checks, dirty>>

RunEnds ==
  /\ task = "run" /\ phase = "done"
  /\ Discard
  /\ ran' = TRUE
  /\ UNCHANGED verdicts

\* Replay compares the events one by one, certification the hashes of the files.
SameEvents == file["wal"] = file["replay"]
SameFiles == file["wal"] = file["cert"]

Verdict(kind, ok) ==
  verdicts' = Append(verdicts, [kind |-> kind, ok |-> ok])

\* A .replay file that cannot be read is an error, and no verdict.
ReplayEnds ==
  /\ task = "replay" /\ phase = "done"
  /\ Discard
  /\ IF CanRead("replay") THEN Verdict("replay", SameEvents) ELSE UNCHANGED verdicts
  /\ UNCHANGED ran

CertifyEnds ==
  /\ task = "certify" /\ phase = "done"
  /\ Discard
  /\ Verdict("certificate", SameFiles)
  /\ UNCHANGED ran

PipelineNext ==
  \/ StartRun \/ StartReplay \/ StartCertify
  \/ Executes \/ LogEvent \/ LoseEvent
  \/ RunEnds \/ ReplayEnds \/ CertifyEnds

PipelineSpec == PipelineInit /\ [][PipelineNext]_allVars

-----------------------------------------------------------------------------
(* Properties *)

\* ResolveJobOrder lists every job after its needs, or nothing; and nothing only if a
\* need is unknown or some jobs wait for each other (dag.go:9-68).
OrderSound ==
  IF order # << >>
  THEN /\ Range(order) = Jobs /\ Len(order) = JobCount
       /\ \A i \in 1 .. JobCount : jobs[order[i]].needs \subseteq { order[k] : k \in 1 .. i - 1 }
  ELSE ran => \/ \E j \in Jobs : ~ (jobs[j].needs \subseteq Jobs)
              \/ \E S \in (SUBSET Jobs) \ {{}} : \A j \in S : jobs[j].needs \cap S # {}

\* A graph that BuildDAG made has no unknown dependency and no cycle: all of it runs
\* (plan.go:34-104, executor.go:59-106).
AllPlannedRuns ==
  /\ phase = "idle" => \A n \in nodes : deps[n] \subseteq nodes
  /\ phase = "done" => Collected = nodes

\* A run without parallelism, chaos and failures passes its first replay and its first
\* certification, whatever its steps did (replay_verifier.go:29-92, certifier.go:19-62).
SequentialRunPasses ==
  (asked = 1 /\ dirty = {} /\ CanRead("wal")) =>
    \A i \in 1 .. Len(verdicts) :
      (\A k \in 1 .. i - 1 : verdicts[k].kind # verdicts[i].kind) => verdicts[i].ok
=============================================================================
