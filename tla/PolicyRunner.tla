----------------------------- MODULE PolicyRunner -----------------------------
(***************************************************************************)
(* The policy pipeline of internal/ci/runner/runner.go.  PolicyRunner.Run  *)
(* checks the gates of a CI run (ci/gates), has policy.Engine turn the     *)
(* results into a score and a status, writes the decision with its trace   *)
(* to the policy log (policy/wal), remembers the input, feeds the score to *)
(* the drift detector of the ConfigStore, and may start a goroutine that   *)
(* learns a new configuration from the log (policy/learner), tries it on   *)
(* the remembered inputs (policy/shadow) and puts it in force.  The        *)
(* goroutine runs next to later calls of Run.  Run itself is called by one *)
(* goroutine at a time: it changes recentInputs without a lock.            *)
(*                                                                         *)
(* Scores, penalties and thresholds are in hundredths of a point, rounded  *)
(* down; weights are the integers of the code.                             *)
(***************************************************************************)
EXTENDS Integers, JsonLines, TLC
LOCAL INSTANCE SequencesExt

CONSTANTS
  Inputs,       \* the CI runs: [events, wal, deterministic, chaos]
  Learners,     \* bound: learning goroutines alive at a time
  MinScores,    \* scores before the drift detector has an opinion (5)
  MinSamples,   \* decisions before the learner learns (5)
  MaxBuffer,    \* remembered inputs (20)
  MaxSamples,   \* inputs the shadow evaluator tries (10)
  MaxHistory,   \* configurations kept for Rollback (10)
  MaxRuns,      \* bound: calls of Run
  MaxShort,     \* bound: writes of the log that fail
  MaxRollbacks, \* bound: calls of Rollback
  MaxRestarts   \* bound: restarts of the program

ASSUME BoundsAssumption ==
  /\ {MinScores, MinSamples, MaxBuffer, MaxSamples, MaxHistory} \subseteq Nat \ {0}
  /\ {MaxRuns, MaxShort, MaxRollbacks, MaxRestarts} \subseteq Nat

ASSUME InputsAssumption ==
  Inputs \subseteq
    [ events : {"named", "nameless", "none"}, wal : {"good", "empty", "torn", "missing"},
      deterministic : BOOLEAN, chaos : BOOLEAN ]

VARIABLES
  config,    \* ConfigStore.config
  history,   \* ConfigStore.history
  scores,    \* ConfigStore: how many, their sum and sum of squares, in points
  pending,   \* Run: the decision it has taken and not yet recorded
  log,       \* the file of the policy log
  buffer,    \* recentInputs
  rested,    \* Learner: MinInterval has passed since lastLearn
  learning,  \* per goroutine: where it is and the configuration it has learned
  cache,     \* ShadowCache: the two sums found for a candidate and its inputs
  runs, short, rollbacks, restarts

storeVars == <<config, history, scores>>
vars == <<storeVars, pending, log, buffer, rested, learning, cache,
          runs, short, rollbacks, restarts>>

Gates == {"syntax", "semantic", "execution", "determinism"}
HardGates == {"execution", "determinism"}
Points(n) == 100 * n
Least(a, b) == IF a < b THEN a ELSE b

DefaultTunedConfig ==
  [ weights |-> [g \in Gates |-> CASE g = "syntax" -> 30
                                   [] g = "semantic" -> 20
                                   [] OTHER -> 25],
    hard |-> HardGates, silent |-> Points(5),
    pass |-> Points(90), warn |-> Points(70), fail |-> Points(50) ]

\* The configurations score alike.
Alike(cfg, other) ==
  cfg.weights = other.weights /\ cfg.hard = other.hard /\ cfg.silent = other.silent

-----------------------------------------------------------------------------
(* The gates, and what GateRunner.Run makes of an input.                   *)

SyntaxGate(in) == TRUE                      \* every event can be encoded
SemanticGate(in) == in.events = "named"     \* there are events, each of a job
ExecutionGate(in) == in.wal \in {"good", "empty", "torn"}    \* the file is there
DeterminismGate(in) == in.wal = "good"      \* it decodes, to one event at least

Fails(in) ==
  {g \in Gates : ~CASE g = "syntax" -> SyntaxGate(in)
                    [] g = "semantic" -> SemanticGate(in)
                    [] g = "execution" -> ExecutionGate(in)
                    [] g = "determinism" -> DeterminismGate(in)}

\* The gate results with the certificate and the chaos report: a GateInput.
Checked(in) ==
  [ failed |-> Fails(in),
    deterministic |-> in.deterministic,
    chaos |-> in.chaos ]

GateInputs == [failed : SUBSET Gates, deterministic : BOOLEAN, chaos : BOOLEAN]

-----------------------------------------------------------------------------
(* Engine.Evaluate.                                                        *)

Weigh(cfg, gates) ==
  LET w(g) == IF g \in gates THEN cfg.weights[g] ELSE 0
  IN  w("syntax") + w("semantic") + w("execution") + w("determinism")

Earned(cfg, in) == (Points(100) * Weigh(cfg, Gates \ in.failed)) \div Weigh(cfg, Gates)

\* A failed hard-fail gate caps the score; mutant: it sets the score.
CappedTo(cfg, in, score) ==
  IF in.failed \cap cfg.hard # {} THEN Points(60) ELSE score
Capped(cfg, in, score) ==
  IF in.failed \cap cfg.hard # {} THEN Least(score, Points(60)) ELSE score

Penalised(cfg, in, score) ==
  IF in.chaos THEN score - Least(score, cfg.silent) ELSE score

Score(cfg, in) ==
  IF in.deterministic THEN Penalised(cfg, in, Capped(cfg, in, Earned(cfg, in))) ELSE 0

Status(cfg, in) ==
  LET score == Score(cfg, in)
  IN  IF ~in.deterministic THEN "BLOCK"
      ELSE IF score >= cfg.pass THEN "PASS"
      ELSE IF score >= cfg.warn THEN "WARN"
      ELSE IF score >= cfg.fail THEN "FAIL" ELSE "BLOCK"

\* ExplainEngine.BuildTrace reckons with the default weights and penalties, whatever
\* configuration the engine used.  It caps before it penalises; mutant: after.
RebuiltCapLast(in) ==
  LET cfg == DefaultTunedConfig
  IN  IF in.deterministic THEN Capped(cfg, in, Penalised(cfg, in, Earned(cfg, in))) ELSE 0
Rebuilt(in) ==
  LET cfg == DefaultTunedConfig
  IN  IF in.deterministic THEN Penalised(cfg, in, Capped(cfg, in, Earned(cfg, in))) ELSE 0

BuildTrace(in, score, status) ==
  [ failed |-> in.failed,
    chaos |-> in.chaos /\ in.deterministic,  \* a block ends the trace early
    rebuilt |-> Rebuilt(in), score |-> score, status |-> status ]

\* ReplayEngine.Replay
Replays(trace) == trace.rebuilt = trace.score

-----------------------------------------------------------------------------
(* The drift detector of the ConfigStore: standard deviation over mean, at *)
(* most a twentieth.  Of scores that are all 0 it is not a number, and no  *)
(* comparison with it is true.                                             *)

NoScores == [n |-> 0, sum |-> 0, squares |-> 0]

UpdateScore(s, score) ==
  LET p == score \div Points(1)
  IN  [n |-> s.n + 1, sum |-> s.sum + p, squares |-> s.squares + p * p]

Unstable(s) ==
  s.n >= MinScores /\ 400 * (s.n * s.squares - s.sum * s.sum) > s.sum * s.sum

ShouldUpdate(s) == s.n >= MinScores /\ s.sum > 0 /\ ~Unstable(s)

Ema(old, new, percent) == (percent * new + (100 - percent) * old) \div 100

\* Update moves the thresholds some of the way and takes the maps as they are.
Smoothed(old, new, s) ==
  LET percent == IF Unstable(s) THEN 9 ELSE 30
  IN  [ new EXCEPT !.pass = Ema(old.pass, new.pass, percent),
                   !.warn = Ema(old.warn, new.warn, percent),
                   !.fail = Ema(old.fail, new.fail, percent) ]

-----------------------------------------------------------------------------
(* Learner.learn.                                                          *)

Failures(traces, g) == Len(SelectSeq(traces, LAMBDA t : g \in t.failed))
Chaotic(traces) == Len(SelectSeq(traces, LAMBDA t : t.chaos))

\* Heavier gates that fail in more than 30% of the traces, at most 50.
Reweighed(cfg, traces) ==
  [ g \in Gates |->
      IF 10 * Failures(traces, g) > 3 * Len(traces)
      THEN Least(50, (cfg.weights[g] * 11) \div 10)
      ELSE cfg.weights[g] ]

\* A heavier penalty when there was chaos in more than 20% of them.
Repriced(cfg, traces) ==
  IF 5 * Chaotic(traces) > Len(traces)
  THEN Least(Points(50), (cfg.silent * 11) \div 10)
  ELSE cfg.silent

Median(traces) ==
  LET sorted == SortSeq([i \in DOMAIN traces |-> traces[i].score], <)
  IN  sorted[(Len(sorted) \div 2) + 1]

\* Learner.learn; mutant: the map of hard-fail gates is made and not filled.
LearnedSoft(cfg, traces) ==
  LET low == Median(traces) < Points(60)
  IN  [ weights |-> Reweighed(cfg, traces),
        hard |-> {},
        silent |-> Repriced(cfg, traces),
        pass |-> IF low THEN Points(85) ELSE cfg.pass,
        warn |-> IF low THEN Points(65) ELSE cfg.warn,
        fail |-> IF low THEN Points(45) ELSE cfg.fail ]
Learned(cfg, traces) ==
  LET low == Median(traces) < Points(60)
  IN  [ weights |-> Reweighed(cfg, traces),
        hard |-> cfg.hard,
        silent |-> Repriced(cfg, traces),
        pass |-> IF low THEN Points(85) ELSE cfg.pass,
        warn |-> IF low THEN Points(65) ELSE cfg.warn,
        fail |-> IF low THEN Points(45) ELSE cfg.fail ]

-----------------------------------------------------------------------------
(* ShadowEvaluator.                                                        *)

\* Sampler.Sample: evenly spread, the first of each stretch.
Sample(inputs) ==
  [ i \in 1 .. Least(Len(inputs), MaxSamples) |->
      IF Len(inputs) <= MaxSamples THEN inputs[i]
      ELSE inputs[(((i - 1) * Len(inputs)) \div MaxSamples) + 1] ]

Sum(cfg, inputs) == FoldLeft(LAMBDA sum, in : sum + Score(cfg, in), 0, inputs)

\* ABGate.Accept, on the sums of n scores: better by half a point and by 0.5%.
Accept(found) ==
  LET delta == found.candidate - found.current
  IN  /\ found.current # 0
      /\ 2 * delta > Points(found.n)
      /\ 200 * delta > found.current

-----------------------------------------------------------------------------
Idle == [at |-> "idle"]

Init ==
  /\ config = DefaultTunedConfig
  /\ history = <<>>
  /\ scores = NoScores
  /\ pending = Idle
  /\ log = <<>>
  /\ buffer = <<>>
  /\ rested = TRUE
  /\ learning = [l \in Learners |-> Idle]
  /\ cache = <<>>
  /\ runs = 0 /\ short = 0 /\ rollbacks = 0 /\ restarts = 0

\* Run up to the decision: Evaluate takes the configuration in one Get.
Decide(in) ==
  /\ pending = Idle
  /\ runs < MaxRuns
  /\ runs' = runs + 1
  /\ LET checked == Checked(in)
         score == Score(config, checked)
     IN  pending' = [ at |-> "decided", input |-> checked,
                      trace |-> BuildTrace(checked, score, Status(config, checked)),
                      baseline |-> Alike(config, DefaultTunedConfig) ]  \* ghost
  /\ UNCHANGED <<storeVars, log, buffer, rested, learning, cache, short, rollbacks, restarts>>

\* bufferInput: the last MaxBuffer inputs; mutant: one too many.
RememberOneMore(inputs, in) ==
  LET all == Append(inputs, in)
  IN  SubSeq(all, 1 + (IF Len(all) > MaxBuffer + 1 THEN Len(all) - MaxBuffer ELSE 0), Len(all))
Remember(inputs, in) ==
  LET all == Append(inputs, in)
  IN  SubSeq(all, 1 + (IF Len(all) > MaxBuffer THEN Len(all) - MaxBuffer ELSE 0), Len(all))

\* The error of PolicyWAL.Append is ignored.
Logs ==
  LET line == [trace |-> pending.trace, baseline |-> pending.baseline]
  IN  \/ log' = Written(log, line) /\ short' = short
      \/ short < MaxShort /\ log' \in CutShort(log) /\ short' = short + 1

\* The rest of Run.
Record ==
  /\ pending # Idle
  /\ pending' = Idle
  /\ Logs
  /\ buffer' = Remember(buffer, pending.input)
  /\ scores' = UpdateScore(scores, pending.trace.score)
  /\ IF rested /\ ShouldUpdate(scores')
     THEN \E l \in Learners :
            /\ learning[l] = Idle
            /\ learning' = [learning EXCEPT ![l] = [at |-> "learn"]]
     ELSE learning' = learning
  /\ UNCHANGED <<config, history, rested, cache, runs, rollbacks, restarts>>

\* Learner.LearnFromWAL: the interval is looked at again, under the lock.
LearnFromWAL(l) ==
  LET events == Decoded(log)
      traces == [i \in DOMAIN events |-> events[i].trace]
  IN  /\ learning[l].at = "learn"
      /\ IF rested /\ Len(events) >= MinSamples
         THEN /\ learning' = [learning EXCEPT ![l] =
                               [at |-> "evaluate", tuned |-> Learned(config, traces)]]
              /\ rested' = FALSE
         ELSE learning' = [learning EXCEPT ![l] = Idle] /\ rested' = rested
      /\ UNCHANGED <<storeVars, pending, log, buffer, cache, runs, short, rollbacks, restarts>>

\* ShadowEvaluator.Evaluate.  The key of the cache is the candidate with the inputs:
\* a hit compares with the configuration of that time, and without the A/B gate.
Evaluate(l) ==
  LET tuned == learning[l].tuned
      key == <<tuned, buffer>>
      sampled == Sample(buffer)
      found == [ candidate |-> Sum(tuned, sampled), current |-> Sum(config, sampled),
                 n |-> Len(sampled) ]
      accepted == IF key \in DOMAIN cache
                  THEN cache[key].candidate > cache[key].current
                  ELSE Accept(found)
  IN  /\ learning[l].at = "evaluate"
      /\ learning' = [learning EXCEPT ![l] =
                       IF accepted THEN [at |-> "update", tuned |-> tuned] ELSE Idle]
      /\ cache' = IF key \in DOMAIN cache THEN cache ELSE cache @@ (key :> found)
      /\ UNCHANGED <<storeVars, pending, log, buffer, rested, runs, short, rollbacks, restarts>>

\* ConfigStore.Update
Update(l) ==
  LET all == Append(history, config)
  IN  /\ learning[l].at = "update"
      /\ learning' = [learning EXCEPT ![l] = Idle]
      /\ history' = SubSeq(all, 1 + (IF Len(all) > MaxHistory THEN 1 ELSE 0), Len(all))
      /\ config' = Smoothed(config, learning[l].tuned, scores)
      /\ UNCHANGED <<scores, pending, log, buffer, rested, cache,
                     runs, short, rollbacks, restarts>>

\* MinInterval passes.
IntervalPasses ==
  /\ ~rested
  /\ rested' = TRUE
  /\ UNCHANGED <<storeVars, pending, log, buffer, learning, cache,
                 runs, short, rollbacks, restarts>>

\* ConfigStore.Rollback, called by whoever runs the pipeline.
Rollback ==
  /\ history # <<>>
  /\ rollbacks < MaxRollbacks
  /\ rollbacks' = rollbacks + 1
  /\ config' = history[Len(history)]
  /\ history' = SubSeq(history, 1, Len(history) - 1)
  /\ UNCHANGED <<scores, pending, log, buffer, rested, learning, cache, runs, short, restarts>>

\* The program ends anywhere and starts again on the file it finds (NewPolicyWAL); all
\* else was in memory, the learned configuration too.
Restart ==
  /\ restarts < MaxRestarts
  /\ restarts' = restarts + 1
  /\ config' = DefaultTunedConfig
  /\ history' = <<>>
  /\ scores' = NoScores
  /\ pending' = Idle
  /\ buffer' = <<>>
  /\ rested' = TRUE
  /\ learning' = [l \in Learners |-> Idle]
  /\ cache' = <<>>
  /\ UNCHANGED <<log, runs, short, rollbacks>>

Learns(l) == LearnFromWAL(l) \/ Evaluate(l) \/ Update(l)

Next ==
  \/ \E in \in Inputs : Decide(in)
  \/ Record
  \/ \E l \in Learners : Learns(l)
  \/ IntervalPasses
  \/ Rollback
  \/ Restart

Spec == Init /\ [][Next]_vars

-----------------------------------------------------------------------------
TunedConfigs ==
  [ weights : [Gates -> 1 .. 50], hard : SUBSET Gates, silent : 0 .. Points(50),
    pass : 0 .. Points(100), warn : 0 .. Points(100), fail : 0 .. Points(100) ]
Statuses == {"PASS", "WARN", "FAIL", "BLOCK"}
Scores == 0 .. Points(100)
Traces == [ failed : SUBSET Gates, chaos : BOOLEAN, rebuilt : Scores,
            score : Scores, status : Statuses ]
Lines == [trace : Traces, baseline : BOOLEAN]

\* The variables keep their types and their limits: no more remembered inputs than
\* maxBufferSize and no more old configurations than the ten of the history
\* (runner.go:141, config_store.go:94).
TypeOK ==
  /\ config \in TunedConfigs
  /\ \A i \in DOMAIN history : history[i] \in TunedConfigs
  /\ Len(history) <= MaxHistory
  /\ {scores.n, scores.sum, scores.squares} \subseteq Nat
  /\ pending # Idle => pending.trace \in Traces /\ pending.input \in GateInputs
  /\ \A i \in DOMAIN log : log[i] = Torn \/ log[i] \in Lines
  /\ \A i \in DOMAIN buffer : buffer[i] \in GateInputs
  /\ Len(buffer) <= MaxBuffer
  /\ rested \in BOOLEAN
  /\ \A l \in Learners :
       \/ learning[l] \in {Idle, [at |-> "learn"]}
       \/ learning[l].at \in {"evaluate", "update"} /\ learning[l].tuned \in TunedConfigs

\* The runs that are not blocked whatever their gates say.
Scored == [failed : SUBSET Gates, deterministic : {TRUE}, chaos : BOOLEAN]

\* A run in which a hard-fail gate failed is judged FAIL or BLOCK, never PASS or WARN,
\* by every configuration that learning, smoothing, rollbacks and restarts can put in
\* force: the cap of 60 stays below the learned thresholds (engine.go:85,
\* learner.go:178) and no learned configuration forgets which gates are hard.
HardFailNeverPasses ==
  \A in \in Scored :
    in.failed \cap HardGates # {} => Status(config, in) \in {"FAIL", "BLOCK"}

\* No configuration that can be in force rewards a worse run: one more failed gate
\* never gives a higher score, whichever gates have failed already (engine.go:53-90:
\* the weights, which learning changes, and the cap).
FailingMoreNeverHelps ==
  \A failed \in SUBSET Gates :
    LET Of(gates) == Score(config, [failed |-> gates, deterministic |-> TRUE, chaos |-> FALSE])
        score == Of(failed)
    IN  \A g \in Gates \ failed : Of(failed \cup {g}) <= score

\* The trace of a decision taken with the default weights, hard-fail gates and
\* penalties replays to the decision's score, whatever was learned before and undone
\* since: BuildTrace's second reckoning agrees with Engine.Evaluate's on them
\* (explain.go:27 "must match Engine").  After learning it need not.
TracesReplay ==
  \A i \in DOMAIN log :
    log[i] # Torn /\ log[i].baseline => Replays(log[i].trace)
===============================================================================
