--------------------------- MODULE StabilityWindow ---------------------------
(***************************************************************************)
(* The arithmetic of the sliding score windows: AntiCollapseDetector       *)
(* (anti_collapse.go) and the adaptive threshold of StabilityGate.Check    *)
(* (stability_gate.go).  Scores are the integers the evaluator returns;    *)
(* each inequality on float64 is multiplied out so that it is exact.       *)
(***************************************************************************)
EXTENDS Integers, Sequences
LOCAL INSTANCE Functions

\* What is left of s in a window of n: its last n elements.
Recent(s, n) == SubSeq(s, IF Len(s) > n THEN Len(s) - n + 1 ELSE 1, Len(s))

\* Mutant of Slide: the window is trimmed one score late.
SlideLate(w, n, x) == Recent(Append(w, x), n + 1)

\* AntiCollapseDetector.Add, and the same append-and-trim in StabilityGate.Check.
Slide(w, n, x) == Recent(Append(w, x), n)

Sum(w) == SumFunction(w)

\* Len(w)^2 times the variance of w.
Spread(w) == Len(w) * Sum([i \in DOMAIN w |-> w[i] * w[i]]) - Sum(w) * Sum(w)

\* Variance() < limit; the variance of fewer than two scores is 0.
IsStable(w, limit) ==
  IF Len(w) < 2 THEN 0 < limit ELSE Spread(w) < limit * Len(w) * Len(w)

Magnitude(x) == IF x < 0 THEN -x ELSE x

\* The slope changes its sign with a step of more than 1% of the mean.
IsOscillating(w) ==
  \E i \in 3 .. Len(w) :
    LET step == w[i] - w[i - 1]
        prev == w[i - 1] - w[i - 2]
    IN  step * prev < 0 /\ 100 * Magnitude(step) * Len(w) > Sum(w)

IsUnstable(w, limit) == ~IsStable(w, limit) \/ IsOscillating(w)

\* score >= min(100, 0.5 + 2 * standard deviation of w), w holding score already.
ReachesThreshold(score, w) ==
  IF Len(w) < 2 THEN 2 * score >= 1
  ELSE \/ score >= 100
       \/ /\ 2 * score >= 1
          /\ (2 * score - 1) * (2 * score - 1) * Len(w) * Len(w) >= 16 * Spread(w)
==============================================================================
