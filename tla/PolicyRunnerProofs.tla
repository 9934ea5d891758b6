-------------------------- MODULE PolicyRunnerProofs --------------------------
(***************************************************************************)
(* Proofs about PolicyRunner, for every set of CI runs and of learning     *)
(* goroutines, and every bound.                                            *)
(***************************************************************************)
EXTENDS PolicyRunner, SequenceTheorems, TLAPS

-----------------------------------------------------------------------------
(* Arithmetic *)

\* Division by a positive number is monotone.
LEMMA DivMonotone ==
  ASSUME NEW a \in Int, NEW b \in Int, NEW w \in Nat \ {0}, a <= b
  PROVE  a \div w <= b \div w
<1> DEFINE p == a \div w
           q == b \div w
<1>1. p \in Int /\ q \in Int
  OBVIOUS
<1>2. w * p <= a /\ b < w * (q + 1)
  <2>1. a = w * p + (a % w) /\ (a % w) \in 0 .. w - 1
    OBVIOUS
  <2>2. b = w * q + (b % w) /\ (b % w) \in 0 .. w - 1
    OBVIOUS
  <2>3. w * (q + 1) = w * q + w
    BY <1>1
  <2>4. w * p \in Int /\ w * q \in Int
    BY <1>1
  <2> HIDE DEF p, q
  <2> QED
    BY <2>1, <2>2, <2>3, <2>4
<1> HIDE DEF p, q
<1>3. CASE p >= q + 1
  <2>1. w * p >= w * (q + 1)
    BY <1>1, <1>3
  <2> QED
    BY <1>1, <1>2, <2>1
<1>4. CASE p <= q
  BY <1>4 DEF p, q
<1> QED
  BY <1>1, <1>3, <1>4

\* A multiple of a positive number divides evenly.
LEMMA DivOfMultiple ==
  ASSUME NEW k \in Nat, NEW w \in Nat \ {0}
  PROVE  (k * w) \div w = k
OBVIOUS

-----------------------------------------------------------------------------
(* Scores *)

\* The hundredths of a point from 0 to 100 points.
LEMMA ScoreRange ==
  /\ \A n \in Scores : n \in Int /\ 0 <= n /\ n <= 10000
  /\ \A n \in Int : 0 <= n /\ n <= 10000 => n \in Scores
BY DEF Scores, Points

\* A configuration whose weights and penalty make sense.
Weighable(cfg) ==
  /\ cfg.weights \in [Gates -> 1 .. 50]
  /\ cfg.silent \in Nat

\* The weight of some of the gates, and the weight of more of them.
LEMMA WeighProperties ==
  ASSUME NEW cfg, Weighable(cfg), NEW A \in SUBSET Gates, NEW B \in SUBSET Gates, A \subseteq B
  PROVE  /\ Weigh(cfg, A) \in Nat /\ Weigh(cfg, B) \in Nat
         /\ Weigh(cfg, A) <= Weigh(cfg, B)
         /\ Weigh(cfg, Gates) \in Nat \ {0}
<1> DEFINE w(g, S) == IF g \in S THEN cfg.weights[g] ELSE 0
<1>1. \A g \in Gates : /\ w(g, A) \in Nat /\ w(g, B) \in Nat /\ w(g, A) <= w(g, B)
                       /\ w(g, Gates) \in Nat \ {0}
  BY DEF Weighable
<1>2. \A S : Weigh(cfg, S) = w("syntax", S) + w("semantic", S)
                             + w("execution", S) + w("determinism", S)
  BY DEF Weigh
<1> HIDE DEF w
<1>3. /\ "syntax" \in Gates /\ "semantic" \in Gates
      /\ "execution" \in Gates /\ "determinism" \in Gates
  BY DEF Gates
<1> QED
  BY <1>1, <1>2, <1>3

\* The score that the gates alone give, with fewer and with more of them failed.
LEMMA EarnedProperties ==
  ASSUME NEW cfg, Weighable(cfg), NEW in, NEW worse,
         in.failed \in SUBSET Gates, worse.failed \in SUBSET Gates,
         in.failed \subseteq worse.failed
  PROVE  /\ Earned(cfg, in) \in Scores /\ Earned(cfg, worse) \in Scores
         /\ Earned(cfg, worse) <= Earned(cfg, in)
<1> DEFINE all == Weigh(cfg, Gates)
           some == Weigh(cfg, Gates \ in.failed)
           less == Weigh(cfg, Gates \ worse.failed)
<1>1. all \in Nat \ {0} /\ some \in Nat /\ less \in Nat /\ less <= some /\ some <= all
  <2>1. Gates \ worse.failed \subseteq Gates \ in.failed /\ Gates \ in.failed \subseteq Gates
    OBVIOUS
  <2>2. all \in Nat \ {0} /\ some \in Nat /\ less \in Nat /\ less <= some
    BY <2>1, WeighProperties
  <2>3. some <= all
    BY <2>1, WeighProperties
  <2> QED
    BY <2>2, <2>3
<1>2. /\ Earned(cfg, in) = (10000 * some) \div all
      /\ Earned(cfg, worse) = (10000 * less) \div all
  BY DEF Earned, Points
<1> DEFINE x == (10000 * some) \div all
           y == (10000 * less) \div all
<1> HIDE DEF all, some, less
<1>3. (10000 * less) \div all <= (10000 * some) \div all
  BY <1>1, DivMonotone
<1>4. (10000 * some) \div all <= 10000
  <2>1. (10000 * some) \div all <= (10000 * all) \div all
    BY <1>1, DivMonotone
  <2>2. (10000 * all) \div all = 10000
    BY <1>1, DivOfMultiple
  <2> QED
    BY <2>1, <2>2
<1>5. 0 <= (10000 * less) \div all
  <2>1. (0 * all) \div all <= (10000 * less) \div all
    BY <1>1, DivMonotone
  <2>2. (0 * all) \div all = 0
    BY <1>1, DivOfMultiple
  <2> QED
    BY <2>1, <2>2
<1>6. y \in Int /\ x \in Int /\ y <= x /\ x <= 10000 /\ 0 <= y
  BY <1>1, <1>3, <1>4, <1>5
<1>7. Earned(cfg, in) = x /\ Earned(cfg, worse) = y
  BY <1>2
<1> HIDE DEF x, y
<1> QED
  BY <1>6, <1>7, ScoreRange

\* A score is between 0 and 100 points, and at most 60 if a hard-fail gate failed.
LEMMA ScoreProperties ==
  ASSUME NEW cfg, Weighable(cfg), NEW in \in GateInputs
  PROVE  /\ Score(cfg, in) \in Scores
         /\ in.failed \cap cfg.hard # {} => Score(cfg, in) <= 6000
<1>1. in.failed \in SUBSET Gates
  BY DEF GateInputs
<1>2. Earned(cfg, in) \in Scores
  BY <1>1, EarnedProperties
<1>3. cfg.silent \in Nat
  BY DEF Weighable
<1> DEFINE e == Earned(cfg, in)
           c == Capped(cfg, in, e)
           p == Penalised(cfg, in, c)
<1>4. /\ c \in Scores
      /\ in.failed \cap cfg.hard # {} => c <= 6000
  BY <1>2, ScoreRange DEF Capped, Least, Points
<1>5. p \in Scores /\ p <= c
  <2> HIDE DEF c
  <2> QED
    BY <1>3, <1>4, ScoreRange DEF Penalised, Least
<1>6. Score(cfg, in) = p \/ Score(cfg, in) = 0
  BY DEF Score
<1> HIDE DEF c, p
<1> QED
  BY <1>4, <1>5, <1>6, ScoreRange

\* One more failed gate never gives a higher score.
LEMMA ScoreMonotone ==
  ASSUME NEW cfg, Weighable(cfg), NEW failed \in SUBSET Gates, NEW g \in Gates
  PROVE  LET Of(gates) ==
               Score(cfg, [failed |-> gates, deterministic |-> TRUE, chaos |-> FALSE])
         IN  Of(failed \cup {g}) <= Of(failed)
<1> DEFINE in == [failed |-> failed, deterministic |-> TRUE, chaos |-> FALSE]
           worse == [failed |-> failed \cup {g}, deterministic |-> TRUE, chaos |-> FALSE]
<1>1. /\ Earned(cfg, in) \in Scores /\ Earned(cfg, worse) \in Scores
      /\ Earned(cfg, worse) <= Earned(cfg, in)
  BY EarnedProperties
<1>2. /\ Score(cfg, in) = Capped(cfg, in, Earned(cfg, in))
      /\ Score(cfg, worse) = Capped(cfg, worse, Earned(cfg, worse))
  BY DEF Score, Penalised
<1>3. in.failed \cap cfg.hard # {} => worse.failed \cap cfg.hard # {}
  OBVIOUS
<1> DEFINE e == Earned(cfg, in)
           f == Earned(cfg, worse)
<1>4. Score(cfg, worse) <= Score(cfg, in)
  <2>1. e \in Scores /\ f \in Scores /\ f <= e
    BY <1>1
  <2> HIDE DEF e, f
  <2>2. Capped(cfg, worse, f) <= Capped(cfg, in, e)
    BY <1>3, <2>1, ScoreRange DEF Capped, Least, Points
  <2> QED
    BY <1>2, <2>2 DEF e, f
<1> QED
  BY <1>4

-----------------------------------------------------------------------------
(* Configurations *)

\* The configurations that can be in force: the hard-fail gates are the two of the
\* beginning, and the thresholds stay above the cap of a hard failure.
Penalties == 0 .. 5000
PassMarks == 8500 .. 10000
WarnMarks == 6500 .. 10000
FailMarks == 0 .. 10000
ProperConfigs ==
  [ weights : [Gates -> 1 .. 50], hard : {HardGates}, silent : Penalties,
    pass : PassMarks, warn : WarnMarks, fail : FailMarks ]

\* Hundredths in points.
LEMMA PointRange ==
  /\ \A n \in Penalties : n \in 0 .. Points(50) /\ n \in Nat
  /\ \A n \in PassMarks : n \in 0 .. Points(100)
  /\ \A n \in WarnMarks : n \in 0 .. Points(100)
  /\ \A n \in FailMarks : n \in 0 .. Points(100)
<1>1. \A n \in Penalties : n \in 0 .. Points(50) /\ n \in Nat
  BY DEF Points, Penalties
<1>2. \A n \in PassMarks : n \in 0 .. Points(100)
  BY DEF Points, PassMarks
<1>3. \A n \in WarnMarks : n \in 0 .. Points(100)
  BY DEF Points, WarnMarks
<1>4. \A n \in FailMarks : n \in 0 .. Points(100)
  BY DEF Points, FailMarks
<1> QED
  BY <1>1, <1>2, <1>3, <1>4

\* A proper configuration is one, and can be reckoned with.
LEMMA ProperProperties ==
  ASSUME NEW cfg \in ProperConfigs
  PROVE  cfg \in TunedConfigs /\ Weighable(cfg) /\ cfg.hard = HardGates
<1>1. /\ cfg.weights \in [Gates -> 1 .. 50] /\ cfg.hard = HardGates
      /\ cfg.silent \in Penalties /\ cfg.pass \in PassMarks
      /\ cfg.warn \in WarnMarks /\ cfg.fail \in FailMarks
      /\ cfg = [ weights |-> cfg.weights, hard |-> cfg.hard, silent |-> cfg.silent,
                 pass |-> cfg.pass, warn |-> cfg.warn, fail |-> cfg.fail ]
  BY DEF ProperConfigs
<1>2. /\ cfg.silent \in 0 .. Points(50) /\ cfg.pass \in 0 .. Points(100)
      /\ cfg.warn \in 0 .. Points(100) /\ cfg.fail \in 0 .. Points(100)
      /\ cfg.silent \in Nat
  BY <1>1, PointRange
<1>3. HardGates \in SUBSET Gates
  BY DEF HardGates, Gates
<1>4. cfg \in TunedConfigs
  BY <1>1, <1>2, <1>3 DEF TunedConfigs
<1> QED
  BY <1>1, <1>2, <1>4 DEF Weighable

\* The configuration of the program's start.
LEMMA DefaultProper == DefaultTunedConfig \in ProperConfigs
<1> DEFINE weights == [g \in Gates |-> CASE g = "syntax" -> 30
                                         [] g = "semantic" -> 20
                                         [] OTHER -> 25]
<1>1. weights \in [Gates -> 1 .. 50]
  BY DEF Gates
<1>2. DefaultTunedConfig =
        [ weights |-> weights, hard |-> HardGates, silent |-> Points(5),
          pass |-> Points(90), warn |-> Points(70), fail |-> Points(50) ]
  BY DEF DefaultTunedConfig
<1>3. /\ Points(5) \in Penalties /\ Points(90) \in PassMarks
      /\ Points(70) \in WarnMarks /\ Points(50) \in FailMarks
  BY DEF Points, Penalties, PassMarks, WarnMarks, FailMarks
<1> HIDE DEF weights
<1> QED
  BY <1>1, <1>2, <1>3 DEF ProperConfigs

\* What the learner makes of a proper configuration, whatever the traces say.
LEMMA LearnedProper ==
  ASSUME NEW cfg \in ProperConfigs, NEW traces
  PROVE  Learned(cfg, traces) \in ProperConfigs
<1> DEFINE weights == Reweighed(cfg, traces)
           silent == Repriced(cfg, traces)
           low == Median(traces) < Points(60)
           pass == IF low THEN Points(85) ELSE cfg.pass
           warn == IF low THEN Points(65) ELSE cfg.warn
           fail == IF low THEN Points(45) ELSE cfg.fail
<1>1. weights \in [Gates -> 1 .. 50]
  <2> SUFFICES ASSUME NEW g \in Gates
               PROVE  /\ cfg.weights[g] \in 1 .. 50
                      /\ Least(50, (cfg.weights[g] * 11) \div 10) \in 1 .. 50
    BY DEF Reweighed
  <2>1. cfg.weights[g] \in 1 .. 50
    BY DEF ProperConfigs
  <2> QED
    BY <2>1 DEF Least
<1>2. silent \in Penalties
  <2>1. cfg.silent \in Penalties
    BY DEF ProperConfigs
  <2>2. \A p \in Penalties : Least(Points(50), (p * 11) \div 10) \in Penalties
    BY DEF Least, Penalties, Points
  <2> QED
    BY <2>1, <2>2 DEF Repriced
<1>3. pass \in PassMarks /\ warn \in WarnMarks /\ fail \in FailMarks
  <2>1. cfg.pass \in PassMarks /\ cfg.warn \in WarnMarks /\ cfg.fail \in FailMarks
    BY DEF ProperConfigs
  <2>2. Points(85) \in PassMarks /\ Points(65) \in WarnMarks /\ Points(45) \in FailMarks
    BY DEF Points, PassMarks, WarnMarks, FailMarks
  <2> HIDE DEF low
  <2> QED
    BY <2>1, <2>2
<1>4. cfg.hard = HardGates
  BY DEF ProperConfigs
<1>5. Learned(cfg, traces) =
        [ weights |-> weights, hard |-> HardGates, silent |-> silent,
          pass |-> pass, warn |-> warn, fail |-> fail ]
  BY <1>4 DEF Learned
<1> HIDE DEF weights, silent, pass, warn, fail
<1> QED
  BY <1>1, <1>2, <1>3, <1>5 DEF ProperConfigs

\* A moving average of two values of a range is in the range.
LEMMA EmaStays ==
  ASSUME NEW percent \in {9, 30}
  PROVE  /\ \A o \in PassMarks, n \in PassMarks : Ema(o, n, percent) \in PassMarks
         /\ \A o \in WarnMarks, n \in WarnMarks : Ema(o, n, percent) \in WarnMarks
         /\ \A o \in FailMarks, n \in FailMarks : Ema(o, n, percent) \in FailMarks
<1>1. \A o \in PassMarks, n \in PassMarks : Ema(o, n, percent) \in PassMarks
  BY DEF Ema, PassMarks
<1>2. \A o \in WarnMarks, n \in WarnMarks : Ema(o, n, percent) \in WarnMarks
  BY DEF Ema, WarnMarks
<1>3. \A o \in FailMarks, n \in FailMarks : Ema(o, n, percent) \in FailMarks
  BY DEF Ema, FailMarks
<1> QED
  BY <1>1, <1>2, <1>3

\* The store smooths a proper candidate into a proper configuration.
LEMMA SmoothedProper ==
  ASSUME NEW old \in ProperConfigs, NEW new \in ProperConfigs, NEW s
  PROVE  Smoothed(old, new, s) \in ProperConfigs
<1> DEFINE percent == IF Unstable(s) THEN 9 ELSE 30
           pass == Ema(old.pass, new.pass, percent)
           warn == Ema(old.warn, new.warn, percent)
           fail == Ema(old.fail, new.fail, percent)
<1>1. percent \in {9, 30}
  OBVIOUS
<1>2. /\ old.pass \in PassMarks /\ old.warn \in WarnMarks /\ old.fail \in FailMarks
      /\ new.pass \in PassMarks /\ new.warn \in WarnMarks /\ new.fail \in FailMarks
  BY DEF ProperConfigs
<1>3. Smoothed(old, new, s) = [new EXCEPT !.pass = pass, !.warn = warn, !.fail = fail]
  BY DEF Smoothed
<1> HIDE DEF percent
<1>4. pass \in PassMarks /\ warn \in WarnMarks /\ fail \in FailMarks
  BY <1>1, <1>2, EmaStays
<1> HIDE DEF pass, warn, fail
<1> QED
  BY <1>3, <1>4 DEF ProperConfigs

-----------------------------------------------------------------------------
(* Sequences *)

\* Appending and dropping from the front.
LEMMA AppendAndDrop ==
  ASSUME NEW S, NEW s \in Seq(S), NEW x \in S, NEW drop \in 0 .. Len(s)
  PROVE  LET all == Append(s, x)
             kept == SubSeq(all, 1 + drop, Len(all))
         IN  kept \in Seq(S) /\ Len(kept) = Len(s) + 1 - drop
<1> DEFINE all == Append(s, x)
<1>1. /\ all \in Seq(S) /\ Len(all) = Len(s) + 1
      /\ \A i \in 1 .. Len(all) : all[i] \in S
  BY AppendProperties
<1> HIDE DEF all
<1> QED
  BY <1>1, SubSeqProperties DEF all

\* The remembered inputs stay inputs, and at most MaxBuffer of them.
LEMMA RememberProperties ==
  ASSUME NEW S, NEW s \in Seq(S), NEW x \in S, Len(s) <= MaxBuffer
  PROVE  Remember(s, x) \in Seq(S) /\ Len(Remember(s, x)) <= MaxBuffer
<1> DEFINE all == Append(s, x)
           drop == IF Len(all) > MaxBuffer THEN Len(all) - MaxBuffer ELSE 0
<1>1. Len(all) = Len(s) + 1
  BY AppendProperties
<1>2. Len(s) \in Nat /\ MaxBuffer \in Nat \ {0}
  BY BoundsAssumption
<1>3. drop \in 0 .. Len(s) /\ Len(s) + 1 - drop <= MaxBuffer
  BY <1>1, <1>2
<1>4. Remember(s, x) = SubSeq(all, 1 + drop, Len(all))
  BY DEF Remember
<1> HIDE DEF drop
<1> QED
  BY <1>3, <1>4, AppendAndDrop

-----------------------------------------------------------------------------
(* The inductive invariant *)

\* Decisions with their traces.  Those taken with the default weights, gates and
\* penalties replay.
FaithfulLines == { line \in Lines : line.baseline => Replays(line.trace) }
Decisions ==
  { d \in [at : {"decided"}, input : GateInputs, trace : Traces, baseline : BOOLEAN] :
      d.baseline => Replays(d.trace) }
LearnerStates ==
  {Idle, [at |-> "learn"]} \cup [at : {"evaluate", "update"}, tuned : ProperConfigs]

\* Every configuration that is, was or may come in force is a proper one.
ConfigInv ==
  /\ config \in ProperConfigs
  /\ history \in Seq(ProperConfigs) /\ Len(history) <= MaxHistory
  /\ learning \in [Learners -> LearnerStates]

\* What has been decided, from Engine.Evaluate to the log.
DecisionInv ==
  /\ pending \in {Idle} \cup Decisions
  /\ log \in Seq(FaithfulLines \cup {Torn})
  /\ buffer \in Seq(GateInputs) /\ Len(buffer) <= MaxBuffer
  /\ scores \in [n : Nat, sum : Nat, squares : Nat]
  /\ rested \in BOOLEAN

IInv == ConfigInv /\ DecisionInv

\* The invariant holds at the start.
LEMMA InitIInv == Init => IInv
<1> SUFFICES ASSUME Init PROVE IInv
  OBVIOUS
<1>1. << >> \in Seq(ProperConfigs) /\ << >> \in Seq(GateInputs)
      /\ << >> \in Seq(FaithfulLines \cup {Torn}) /\ Len(<< >>) = 0
  BY EmptySeq
<1>2. ConfigInv
  BY <1>1, DefaultProper, BoundsAssumption DEF Init, ConfigInv, LearnerStates
<1>3. NoScores \in [n : Nat, sum : Nat, squares : Nat]
  BY DEF NoScores
<1>4. DecisionInv
  BY <1>1, <1>3, BoundsAssumption DEF Init, DecisionInv
<1> QED
  BY <1>2, <1>4 DEF IInv

\* The engine's decision, and what the trace rebuilds.
LEMMA DecideIInv ==
  ASSUME IInv, NEW in \in Inputs, Decide(in)
  PROVE  IInv'
<1> DEFINE checked == Checked(in)
           score == Score(config, checked)
           status == Status(config, checked)
           trace == BuildTrace(checked, score, status)
           baseline == Alike(config, DefaultTunedConfig)
<1>1. checked \in GateInputs
  <2>1. in.deterministic \in BOOLEAN /\ in.chaos \in BOOLEAN
    BY InputsAssumption
  <2>2. Fails(in) \in SUBSET Gates
    BY DEF Fails
  <2> QED
    BY <2>1, <2>2 DEF Checked, GateInputs
<1>2. Weighable(config) /\ Weighable(DefaultTunedConfig)
  BY ProperProperties, DefaultProper DEF IInv, ConfigInv
<1> HIDE DEF checked
<1>3. score \in Scores /\ Score(DefaultTunedConfig, checked) \in Scores
  BY <1>1, <1>2, ScoreProperties
<1>4. Rebuilt(checked) = Score(DefaultTunedConfig, checked)
  BY DEF Rebuilt, Score
<1>5. status \in Statuses
  BY DEF Status, Statuses
<1>6. baseline => score = Rebuilt(checked)
  BY <1>4 DEF Alike, Score, Penalised, Capped, Earned, Weigh
<1> HIDE DEF score, status
<1>7. trace \in Traces
  <2>1. checked.failed \in SUBSET Gates /\ (checked.chaos /\ checked.deterministic) \in BOOLEAN
    BY <1>1 DEF GateInputs
  <2> QED
    BY <1>3, <1>4, <1>5, <2>1 DEF BuildTrace, Traces
<1>8. baseline => Replays(trace)
  BY <1>6 DEF Replays, BuildTrace
<1>9. baseline \in BOOLEAN
  BY DEF Alike
<1>10. pending' = [at |-> "decided", input |-> checked, trace |-> trace, baseline |-> baseline]
  BY DEF Decide, checked, score, status
<1> HIDE DEF trace, baseline
<1>11. pending' \in Decisions
  BY <1>1, <1>7, <1>8, <1>9, <1>10 DEF Decisions
<1> QED
  BY <1>11 DEF Decide, IInv, ConfigInv, DecisionInv, storeVars

\* A decision becomes a line of the log, or part of one, and counts as a score.
LEMMA RecordIInv ==
  ASSUME IInv, Record
  PROVE  IInv'
<1> DEFINE line == [trace |-> pending.trace, baseline |-> pending.baseline]
<1>1. pending \in Decisions
  BY DEF Record, IInv, DecisionInv
<1>2. line \in FaithfulLines /\ pending.input \in GateInputs /\ pending.trace.score \in Scores
  BY <1>1 DEF Decisions, FaithfulLines, Lines, Traces
<1>3. log' \in Seq(FaithfulLines \cup {Torn})
  <2>1. log \in Seq(FaithfulLines \cup {Torn})
    BY DEF IInv, DecisionInv
  <2>2. \A x \in FaithfulLines \cup {Torn} : Append(log, x) \in Seq(FaithfulLines \cup {Torn})
    BY <2>1, AppendProperties
  <2>3. log' = Append(log, line) \/ log' = Append(log, Torn) \/ log' = log
    BY DEF Record, Logs, Written, CutShort
  <2> QED
    BY <1>2, <2>1, <2>2, <2>3
<1>4. buffer' \in Seq(GateInputs) /\ Len(buffer') <= MaxBuffer
  BY <1>2, RememberProperties DEF Record, IInv, DecisionInv
<1>5. scores' \in [n : Nat, sum : Nat, squares : Nat]
  <2>1. scores.n \in Nat /\ scores.sum \in Nat /\ scores.squares \in Nat
    BY DEF IInv, DecisionInv
  <2>2. PICK p \in Nat : p = pending.trace.score \div Points(1)
    BY <1>2, ScoreRange DEF Points
  <2>3. scores' = [n |-> scores.n + 1, sum |-> scores.sum + p, squares |-> scores.squares + p * p]
    BY <2>2 DEF Record, UpdateScore
  <2> QED
    BY <2>1, <2>3
<1>6. learning' \in [Learners -> LearnerStates]
  <2>1. learning \in [Learners -> LearnerStates]
    BY DEF IInv, ConfigInv
  <2>2. \/ learning' = learning
        \/ \E l \in Learners : learning' = [learning EXCEPT ![l] = [at |-> "learn"]]
    BY DEF Record
  <2> QED
    BY <2>1, <2>2 DEF LearnerStates
<1>7. ConfigInv'
  BY <1>6 DEF Record, IInv, ConfigInv
<1>8. DecisionInv'
  BY <1>3, <1>4, <1>5 DEF Record, IInv, DecisionInv
<1> QED
  BY <1>7, <1>8 DEF IInv

\* The goroutine that learns, tries and updates.
LEMMA LearnsIInv ==
  ASSUME IInv, NEW l \in Learners, Learns(l)
  PROVE  IInv'
<1>1. learning \in [Learners -> LearnerStates] /\ config \in ProperConfigs
  BY DEF IInv, ConfigInv
<1>2. learning[l].at \in {"evaluate", "update"} => learning[l].tuned \in ProperConfigs
  BY <1>1 DEF LearnerStates, Idle
<1>3. CASE LearnFromWAL(l)
  <2> DEFINE traces == [i \in DOMAIN Decoded(log) |-> Decoded(log)[i].trace]
             tuned == Learned(config, traces)
  <2>1. tuned \in ProperConfigs
    BY <1>1, LearnedProper
  <2>2. \/ learning' = [learning EXCEPT ![l] = [at |-> "evaluate", tuned |-> tuned]]
        \/ learning' = [learning EXCEPT ![l] = Idle]
    BY <1>3 DEF LearnFromWAL
  <2>3. rested' \in BOOLEAN
    BY <1>3 DEF LearnFromWAL, IInv, DecisionInv
  <2> HIDE DEF tuned
  <2>4. learning' \in [Learners -> LearnerStates]
    BY <1>1, <2>1, <2>2 DEF LearnerStates
  <2> QED
    BY <1>3, <2>3, <2>4 DEF LearnFromWAL, IInv, ConfigInv, DecisionInv, storeVars
<1>4. CASE Evaluate(l)
  <2>1. learning[l].tuned \in ProperConfigs
    BY <1>2, <1>4 DEF Evaluate
  <2>2. \/ learning' = [learning EXCEPT ![l] = [at |-> "update", tuned |-> learning[l].tuned]]
        \/ learning' = [learning EXCEPT ![l] = Idle]
    BY <1>4 DEF Evaluate
  <2>3. learning' \in [Learners -> LearnerStates]
    BY <1>1, <2>1, <2>2 DEF LearnerStates
  <2> QED
    BY <1>4, <2>3 DEF Evaluate, IInv, ConfigInv, DecisionInv, storeVars
<1>5. CASE Update(l)
  <2>1. config' \in ProperConfigs
    BY <1>1, <1>2, <1>5, SmoothedProper DEF Update
  <2>2. learning' \in [Learners -> LearnerStates]
    BY <1>1, <1>5 DEF Update, LearnerStates
  <2>3. history' \in Seq(ProperConfigs) /\ Len(history') <= MaxHistory
    <3> DEFINE all == Append(history, config)
               drop == IF Len(all) > MaxHistory THEN 1 ELSE 0
    <3>1. /\ history \in Seq(ProperConfigs) /\ Len(history) <= MaxHistory
          /\ MaxHistory \in Nat \ {0}
      BY BoundsAssumption DEF IInv, ConfigInv
    <3>2. Len(all) = Len(history) + 1 /\ Len(history) \in Nat
      BY <1>1, <3>1, AppendProperties
    <3>3. drop \in 0 .. Len(history) /\ Len(history) + 1 - drop <= MaxHistory
      BY <3>1, <3>2
    <3>4. history' = SubSeq(all, 1 + drop, Len(all))
      BY <1>5 DEF Update
    <3> HIDE DEF drop
    <3> QED
      BY <1>1, <3>1, <3>3, <3>4, AppendAndDrop
  <2> QED
    BY <1>5, <2>1, <2>2, <2>3 DEF Update, IInv, ConfigInv, DecisionInv
<1> QED
  BY <1>3, <1>4, <1>5 DEF Learns

\* The newest old configuration comes back.
LEMMA RollbackIInv ==
  ASSUME IInv, Rollback
  PROVE  IInv'
<1>1. history \in Seq(ProperConfigs) /\ Len(history) <= MaxHistory /\ history # << >>
  BY DEF Rollback, IInv, ConfigInv
<1>2. Len(history) \in Nat \ {0} /\ \A i \in 1 .. Len(history) : history[i] \in ProperConfigs
  BY <1>1, EmptySeq, ElementOfSeq
<1>3. config' \in ProperConfigs
  BY <1>2 DEF Rollback
<1>4. history' \in Seq(ProperConfigs) /\ Len(history') = Len(history) - 1
  <2> DEFINE n == Len(history) - 1
  <2>1. n \in Nat /\ \A i \in 1 .. n : history[i] \in ProperConfigs
    BY <1>2
  <2> HIDE DEF n
  <2>2. SubSeq(history, 1, n) \in Seq(ProperConfigs) /\ Len(SubSeq(history, 1, n)) = n
    BY <2>1, SubSeqProperties
  <2>3. history' = SubSeq(history, 1, n)
    BY DEF Rollback, n
  <2> QED
    BY <2>2, <2>3 DEF n
<1>5. Len(history') <= MaxHistory
  BY <1>1, <1>2, <1>4, BoundsAssumption
<1> QED
  BY <1>3, <1>4, <1>5 DEF Rollback, IInv, ConfigInv, DecisionInv

\* A restart goes back to the defaults and keeps the log.
LEMMA RestartIInv ==
  ASSUME IInv, Restart
  PROVE  IInv'
<1>1. << >> \in Seq(ProperConfigs) /\ << >> \in Seq(GateInputs) /\ Len(<< >>) = 0
  BY EmptySeq
<1>2. ConfigInv'
  BY <1>1, DefaultProper, BoundsAssumption DEF Restart, ConfigInv, LearnerStates
<1>3. NoScores \in [n : Nat, sum : Nat, squares : Nat]
  BY DEF NoScores
<1>4. DecisionInv'
  BY <1>1, <1>3, BoundsAssumption DEF Restart, IInv, DecisionInv
<1> QED
  BY <1>2, <1>4 DEF IInv

\* Every step keeps the invariant.
LEMMA NextIInv == IInv /\ [Next]_vars => IInv'
<1> SUFFICES ASSUME IInv, [Next]_vars PROVE IInv'
  OBVIOUS
<1>1. CASE \E in \in Inputs : Decide(in)
  BY <1>1, DecideIInv
<1>2. CASE Record
  BY <1>2, RecordIInv
<1>3. CASE \E l \in Learners : Learns(l)
  BY <1>3, LearnsIInv
<1>4. CASE IntervalPasses
  BY <1>4 DEF IntervalPasses, IInv, ConfigInv, DecisionInv, storeVars
<1>5. CASE Rollback
  BY <1>5, RollbackIInv
<1>6. CASE Restart
  BY <1>6, RestartIInv
<1>7. CASE UNCHANGED vars
  BY <1>7 DEF vars, IInv, ConfigInv, DecisionInv, storeVars
<1> QED
  BY <1>1, <1>2, <1>3, <1>4, <1>5, <1>6, <1>7 DEF Next

\* Every configuration in force keeps the hard-fail gates and thresholds above their
\* cap, and every decision taken with the defaults replays, at all times.
THEOREM Inductive == Spec => []IInv
BY InitIInv, NextIInv, PTL DEF Spec

-----------------------------------------------------------------------------
(* What follows *)

\* The types and limits of ConfigStore, the policy log and the input buffer.
THEOREM TypeCorrect == Spec => []TypeOK
<1>1. IInv => TypeOK
  <2> SUFFICES ASSUME IInv PROVE TypeOK
    OBVIOUS
  <2>1. config \in TunedConfigs
    BY ProperProperties DEF IInv, ConfigInv
  <2>2. \A i \in DOMAIN history : history[i] \in TunedConfigs
    BY ProperProperties DEF IInv, ConfigInv
  <2>3. pending # Idle => pending.trace \in Traces /\ pending.input \in GateInputs
    BY DEF IInv, DecisionInv, Decisions
  <2>4. \A i \in DOMAIN log : log[i] = Torn \/ log[i] \in Lines
    BY DEF IInv, DecisionInv, FaithfulLines
  <2>5. \A i \in DOMAIN buffer : buffer[i] \in GateInputs
    BY DEF IInv, DecisionInv
  <2>6. ASSUME NEW l \in Learners
        PROVE  \/ learning[l] \in {Idle, [at |-> "learn"]}
               \/ learning[l].at \in {"evaluate", "update"} /\ learning[l].tuned \in TunedConfigs
    <3>1. learning[l] \in LearnerStates
      BY DEF IInv, ConfigInv
    <3> QED
      BY <3>1, ProperProperties DEF LearnerStates
  <2>7. /\ Len(history) <= MaxHistory /\ Len(buffer) <= MaxBuffer /\ rested \in BOOLEAN
        /\ {scores.n, scores.sum, scores.squares} \subseteq Nat
    BY DEF IInv, ConfigInv, DecisionInv
  <2> QED
    BY <2>1, <2>2, <2>3, <2>4, <2>5, <2>6, <2>7 DEF TypeOK
<1> QED
  BY <1>1, Inductive, PTL

\* No configuration that can come in force lets a run with a failed hard-fail gate
\* pass (engine.go:85, learner.go:178).
THEOREM HardFailure == Spec => []HardFailNeverPasses
<1>1. IInv => HardFailNeverPasses
  <2> SUFFICES ASSUME IInv, NEW in \in Scored, in.failed \cap HardGates # {}
               PROVE  Status(config, in) \in {"FAIL", "BLOCK"}
    BY DEF HardFailNeverPasses
  <2>1. config \in ProperConfigs
    BY DEF IInv, ConfigInv
  <2>2. in \in GateInputs
    BY DEF Scored, GateInputs
  <2> DEFINE score == Score(config, in)
  <2>3. score \in Scores /\ score <= 6000
    BY <2>1, <2>2, ProperProperties, ScoreProperties
  <2>4. config.pass \in PassMarks /\ config.warn \in WarnMarks
    BY <2>1 DEF ProperConfigs
  <2>5. \A m \in PassMarks \cup WarnMarks : ~(score >= m)
    <3> HIDE DEF score
    <3> QED
      BY <2>3, ScoreRange DEF PassMarks, WarnMarks
  <2>6. ~(score >= config.pass) /\ ~(score >= config.warn)
    BY <2>4, <2>5
  <2> QED
    BY <2>6 DEF Status
<1> QED
  BY <1>1, Inductive, PTL

\* No configuration that can come in force rewards one more failed gate
\* (engine.go:53-90).
THEOREM FailingMore == Spec => []FailingMoreNeverHelps
<1>1. IInv => FailingMoreNeverHelps
  <2>1. IInv => Weighable(config)
    BY ProperProperties DEF IInv, ConfigInv
  <2> QED
    BY <2>1, ScoreMonotone DEF FailingMoreNeverHelps
<1> QED
  BY <1>1, Inductive, PTL

\* The trace of a decision taken with the defaults replays to its score
\* (explain.go:27).
THEOREM Replay == Spec => []TracesReplay
<1>1. IInv => TracesReplay
  BY DEF IInv, DecisionInv, FaithfulLines, TracesReplay
<1> QED
  BY <1>1, Inductive, PTL
===============================================================================
