------------------------------ MODULE AgentCycles ------------------------------
(***************************************************************************)
(* What the coding agents do with a task: ask the language model           *)
(* (llm.go, code_agent.go), try its patch in a sandbox and write it to the *)
(* real file when the tests pass (sandbox.go), have the evolution loop     *)
(* judge it and credit an arm of the bandit (agent_loop.go), and commit it *)
(* (autonomous.go).  Two programs are put together from these parts:       *)
(*                                                                         *)
(*  - "service", cmd/evolution-api: the limiter's mutex lets one protected *)
(*    request run at a time, an autonomous cycle or a POST /agent/evolve,  *)
(*    next to the queue worker and the auto-save of the bandit; it may be  *)
(*    killed and started again;                                            *)
(*  - "pool", a program that uses AgentPool (pool.go): the agents of one   *)
(*    RunAll work in parallel on one file and share a minimal loop.        *)
(*                                                                         *)
(* One file is modelled, the target of every task: buildPlan makes plans   *)
(* of one write and one test command.  What a sandbox holds is that file   *)
(* with the patch, so only the verdict of its tests is kept.               *)
(***************************************************************************)
EXTENDS UcbBandit, StabilityWindow

CONSTANTS
  Wirings,       \* the programs to look at: a subset of {"service", "pool"}
  Agents,        \* the agents of the pool; each one's only arm has its name
  Modes,         \* the arms of the service's selector, the modes of its events
  MaxAttempts,   \* requests in one GenerateCode: maxRetries, 1 for Claude
  TripAfter,     \* failed calls in a row that open the breaker (5)
  PoolWindow,    \* window of the minimal loop (10)
  MaxPassed,     \* bound: packages whose tests pass while another one fails
  MaxRounds,     \* bound: requests to the service
  MaxRunAlls,    \* bound: calls of RunAll
  MaxEvents,     \* bound: events of the worker
  MaxEdits,      \* bound: edits of the file by its developer
  MaxKills       \* bound: kills of the service

ASSUME ArmsAssumption == Arms = Agents \cup Modes /\ Modes # {}
ASSUME NamesAssumption == {"request", "worker"} \cap Agents = {}
ASSUME SizesAssumption ==
  /\ IsFiniteSet(Agents) /\ IsFiniteSet(Modes)
  /\ {MaxAttempts, TripAfter, PoolWindow} \subseteq Nat \ {0}

VARIABLES
  wiring,    \* which program runs
  alive,     \* the process lives
  enabled,   \* Mode.enabled
  pc,        \* where each goroutine is
  patch,     \* the content each one proposes
  outcome,   \* what its sandbox said
  accepted,  \* the loop accepted its plan
  arm,       \* the arm it is about to credit
  attempt,   \* requests to the model so far in its GenerateCode
  failures,  \* per agent of the pool, whose client lives on: failed calls in a row
  breaker,   \* and the state of its circuit breaker
  window,    \* the detector of the minimal loop, in half points
  real,      \* the file on the real file system
  staged,    \* the file in the index of git
  head,      \* the file in the last commit
  results,   \* RunAll: the agents that have delivered, and how
  report,    \* the last RunCycleResult: what was committed, what was tested
  tested,    \* ghost: the contents that passed in a sandbox
  decided,   \* ghost: decisions of this process life that earn a pull
  restored,  \* ghost: the pulls loaded at the start of this process life
  rounds, events, edits, kills

taskVars == <<patch, outcome, accepted, arm>>
modelVars == <<attempt, failures, breaker>>
fileVars == <<real, tested, edits>>
gitVars == <<staged, head>>
learnVars == <<window, decided, restored>>
outVars == <<results, report>>
envVars == <<wiring, alive, enabled, rounds, events, kills>>
vars == <<pc, taskVars, modelVars, fileVars, gitVars, learnVars, outVars, envVars, banditVars>>

Actors == Agents \cup {"request", "worker"}

Patch(a, n) == [by |-> a, nr |-> n]
Original == Patch("repository", 0)
Torn == Patch("nobody", 0)
Contents == [by : Actors \cup {"developer", "repository", "nobody"}, nr : Nat]

Outcomes == {"none", "passed", "failed", "error"}
States == {"idle", "ask", "planned", "copied", "changed", "checked", "apply", "applying",
           "judge", "update", "schedule", "stage", "commit", "done"}
Results == {"none", "unsolved", "evaluated"}

TypeOK ==
  /\ BanditTypeOK
  /\ wiring \in Wirings /\ alive \in BOOLEAN /\ enabled \in BOOLEAN
  /\ pc \in [Actors -> States] /\ patch \in [Actors -> Contents]
  /\ outcome \in [Actors -> Outcomes] /\ accepted \in [Actors -> BOOLEAN]
  /\ arm \in [Actors -> Arms]
  /\ attempt \in [Actors -> 0 .. MaxAttempts - 1]
  /\ failures \in [Agents -> 0 .. TripAfter - 1]
  /\ breaker \in [Agents -> {"closed", "open", "half"}]
  /\ window \in Seq({0, 120}) /\ Len(window) <= PoolWindow
  /\ real \in Contents /\ staged \in Contents /\ head \in Contents
  /\ results \in [Agents -> Results]
  /\ report \in [committed : BOOLEAN, tested : BOOLEAN]
  /\ tested \subseteq Contents
  /\ decided \in Nat /\ restored \in Nat
  /\ rounds \in Nat /\ events \in Nat /\ edits \in Nat /\ kills \in Nat

AnyArm == CHOOSE a \in Arms : TRUE
NoCommit == [committed |-> FALSE, tested |-> FALSE]

Init ==
  /\ BanditInit
  /\ wiring \in Wirings /\ alive = TRUE /\ enabled \in BOOLEAN
  /\ pc = [a \in Actors |-> "idle"] /\ patch = [a \in Actors |-> Original]
  /\ outcome = [a \in Actors |-> "none"] /\ accepted = [a \in Actors |-> FALSE]
  /\ arm = [a \in Actors |-> AnyArm]
  /\ attempt = [a \in Actors |-> 0] /\ failures = [a \in Agents |-> 0]
  /\ breaker = [a \in Agents |-> "closed"]
  /\ window = << >> /\ decided = 0 /\ restored = 0
  /\ real = Original /\ staged = Original /\ head = Original
  /\ results = [a \in Agents |-> "none"]
  /\ report = NoCommit
  /\ tested = {} /\ rounds = 0 /\ events = 0 /\ edits = 0 /\ kills = 0

Goes(a, state) == pc' = [pc EXCEPT ![a] = state]
At(a, state) == alive /\ pc[a] = state

\* The locals of a goroutine go with it.
Leaves(a) ==
  /\ Goes(a, IF a \in Agents THEN "done" ELSE "idle")
  /\ patch' = [patch EXCEPT ![a] = Original]
  /\ outcome' = [outcome EXCEPT ![a] = "none"]
  /\ accepted' = [accepted EXCEPT ![a] = FALSE]
  /\ arm' = [arm EXCEPT ![a] = AnyArm]

\* A task ends without a judgement: RunCycle reports an error, an agent of the pool a
\* result without a score.
GivesUp(a) ==
  /\ Leaves(a)
  /\ results' = IF a \in Agents THEN [results EXCEPT ![a] = "unsolved"] ELSE results
  /\ report' = IF a = "request" THEN NoCommit ELSE report
  /\ UNCHANGED <<fileVars, gitVars, learnVars, envVars, banditVars>>

-----------------------------------------------------------------------------
(* GenerateCode: attempts inside, the circuit breaker around them *)

\* sony/gobreaker: a success closes, failures in a row or a failed probe open.  The client
\* of a request is new, and dropped after its one call.
Succeeds(a) ==
  IF a \in Agents
    THEN failures' = [failures EXCEPT ![a] = 0] /\ breaker' = [breaker EXCEPT ![a] = "closed"]
    ELSE UNCHANGED <<failures, breaker>>

Fails(a) ==
  IF a \in Agents
    THEN LET trips == breaker[a] = "half" \/ failures[a] + 1 >= TripAfter
         IN  /\ failures' = [failures EXCEPT ![a] = IF trips THEN 0 ELSE @ + 1]
             /\ breaker' = [breaker EXCEPT ![a] = IF trips THEN "open" ELSE @]
    ELSE UNCHANGED <<failures, breaker>>

IsOpen(a) == a \in Agents /\ breaker[a] = "open"

\* The open window of 30 seconds ends: one probe is let through.
OpenEnds(a) ==
  /\ alive /\ IsOpen(a)
  /\ breaker' = [breaker EXCEPT ![a] = "half"]
  /\ UNCHANGED <<pc, taskVars, attempt, failures, fileVars, gitVars, learnVars, outVars,
                 envVars, banditVars>>

\* Mutant of BreakerRefuses: the call waits for the breaker to close.
BreakerWaits(a) ==
  /\ At(a, "ask") /\ IsOpen(a)
  /\ UNCHANGED vars

\* Execute refuses the call without a request.
BreakerRefuses(a) ==
  /\ At(a, "ask") /\ IsOpen(a)
  /\ GivesUp(a)
  /\ UNCHANGED modelVars

\* No answer, a status that may pass, or a body that does not decode: the next
\* attempt, after a pause.
AttemptFails(a) ==
  /\ At(a, "ask") /\ ~IsOpen(a) /\ attempt[a] + 1 < MaxAttempts
  /\ attempt' = [attempt EXCEPT ![a] = @ + 1]
  /\ UNCHANGED <<pc, taskVars, failures, breaker, fileVars, gitVars, learnVars, outVars,
                 envVars, banditVars>>

\* A refusal (4xx), or the last attempt: the call counts as one failure.
CallFails(a) ==
  /\ At(a, "ask") /\ ~IsOpen(a)
  /\ Fails(a)
  /\ attempt' = [attempt EXCEPT ![a] = 0]
  /\ GivesUp(a)

\* An answer that Solve turns down: little confidence (the mock's, for one), or a
\* target that buildPlan refuses.
AnswerRefused(a) ==
  /\ At(a, "ask") /\ ~IsOpen(a)
  /\ Succeeds(a)
  /\ attempt' = [attempt EXCEPT ![a] = 0]
  /\ GivesUp(a)

\* An answer that buildPlan makes a plan of: write the target, run its test.
Answered(a) ==
  /\ At(a, "ask") /\ ~IsOpen(a)
  /\ Succeeds(a)
  /\ attempt' = [attempt EXCEPT ![a] = 0]
  /\ Goes(a, "planned")
  /\ patch' = [patch EXCEPT ![a] = Patch(a, rounds)]
  /\ outcome' = [outcome EXCEPT ![a] = "none"]
  /\ UNCHANGED <<accepted, arm, fileVars, gitVars, learnVars, outVars, envVars, banditVars>>

Solve(a) ==
  BreakerRefuses(a) \/ AttemptFails(a) \/ CallFails(a) \/ AnswerRefused(a) \/ Answered(a)

-----------------------------------------------------------------------------
(* ExecuteWithSandbox *)

Moves(a, from, to) ==
  /\ At(a, from) /\ Goes(a, to)
  /\ UNCHANGED <<taskVars, modelVars, fileVars, gitVars, learnVars, outVars, envVars,
                 banditVars>>

NewSandbox(a) == Moves(a, "planned", "copied")
ApplyChange(a) == Moves(a, "copied", "changed")
ExecuteCommand(a) == Moves(a, "changed", "checked")

\* SandboxResult.Error: RunCycle reports it; an agent of the pool has it judged.
Errs(a) ==
  \/ a = "request" /\ GivesUp(a)
  \/ /\ a \in Agents
     /\ Goes(a, "judge") /\ outcome' = [outcome EXCEPT ![a] = "error"]
     /\ UNCHANGED <<patch, accepted, arm, fileVars, gitVars, learnVars, outVars, envVars,
                    banditVars>>

\* The copy, the write, the command or the build of the tests fails.
SandboxErrs(a) ==
  /\ alive /\ pc[a] \in {"planned", "copied", "changed", "checked"}
  /\ Errs(a)
  /\ UNCHANGED modelVars

\* Mutant of RunTests: what the tests say is not looked at before the change is applied.
RunTestsAnyway(a) ==
  /\ At(a, "checked")
  /\ \/ /\ outcome' = [outcome EXCEPT ![a] = "passed"]
        /\ tested' = tested \cup {patch[a]}
     \/ outcome' = [outcome EXCEPT ![a] = "failed"] /\ UNCHANGED tested
  /\ Goes(a, "apply")
  /\ UNCHANGED <<patch, accepted, arm, modelVars, real, edits, gitVars, learnVars, outVars,
                 envVars, banditVars>>

\* RunTests builds and tests; a change that passes is going to be applied.
RunTests(a) ==
  /\ At(a, "checked")
  /\ \/ /\ outcome' = [outcome EXCEPT ![a] = "passed"]
        /\ tested' = tested \cup {patch[a]}
        /\ Goes(a, "apply")
     \/ /\ outcome' = [outcome EXCEPT ![a] = "failed"]
        /\ Goes(a, "judge")
        /\ UNCHANGED tested
  /\ UNCHANGED <<patch, accepted, arm, modelVars, real, edits, gitVars, learnVars, outVars,
                 envVars, banditVars>>

\* os.WriteFile on the real file: it is emptied, then written.
ApplyOpens(a) ==
  /\ At(a, "apply") /\ Goes(a, "applying")
  /\ real' = Torn
  /\ UNCHANGED <<taskVars, modelVars, tested, edits, gitVars, learnVars, outVars, envVars,
                 banditVars>>

ApplyEnds(a) ==
  /\ At(a, "applying") /\ Goes(a, "judge")
  /\ real' = patch[a]
  /\ UNCHANGED <<taskVars, modelVars, tested, edits, gitVars, learnVars, outVars, envVars,
                 banditVars>>

\* The write fails, at its start or half way: an error, though the tests have passed.
ApplyFails(a) ==
  /\ alive /\ pc[a] \in {"apply", "applying"}
  /\ Errs(a)
  /\ UNCHANGED modelVars

Sandbox(a) ==
  \/ NewSandbox(a) \/ ApplyChange(a) \/ ExecuteCommand(a) \/ SandboxErrs(a) \/ RunTests(a)
  \/ ApplyOpens(a) \/ ApplyEnds(a) \/ ApplyFails(a)

-----------------------------------------------------------------------------
(* The judgement of the evolution loop, and what the bandit learns of it *)

Confidence == 60     \* CodeAgent.MinConfidence, as a score

\* ComputeSandboxScore: 30 for a build without "error" in its output, 50 for the tests
\* (the share that passed, when one failed), 20 for no "warning".
Scores(a) ==
  LET shares == IF outcome[a] = "passed" THEN {50} ELSE {(50 * n) \div (n + 1) : n \in 0 .. MaxPassed}
  IN  {build + share + quiet : build \in {0, 30}, share \in shares, quiet \in {0, 20}}

\* MultiCycleEvaluator, behind the stability gate; an unstable loop answers with an error.
Verdicts(candidate, current) ==
  {"rejected", "rollback"} \cup (IF candidate >= current THEN {"accepted"} ELSE {})

\* The call of Evolve went through, and an arm is going to be credited for it.
Decides(a, chosen, accepts) ==
  /\ arm' = [arm EXCEPT ![a] = chosen]
  /\ accepted' = [accepted EXCEPT ![a] = accepts]
  /\ decided' = decided + 1
  /\ Goes(a, "update")

\* Mutant of EvaluateCycle: an error of Evolve is not looked at.
EvaluateCycleCredits ==
  /\ At("request", "judge")
  /\ \E current \in Scores("request"), chosen \in Selectable(Modes) :
       \E verdict \in Verdicts(Confidence, current) :
         /\ arm' = [arm EXCEPT !["request"] = chosen]
         /\ accepted' = [accepted EXCEPT !["request"] = verdict = "accepted"]
         /\ decided' = IF verdict = "rollback" THEN decided ELSE decided + 1
  /\ Goes("request", "update")
  /\ UNCHANGED <<patch, outcome, modelVars, fileVars, gitVars, window, restored, outVars,
                 envVars, banditVars>>

\* RunCycle passes the score of the sandbox as the score to beat, and the confidence as
\* the candidate's.  AgentLoop.Evaluate selects an arm, then calls Evolve; after an error
\* of Evolve nothing is credited.
EvaluateCycle ==
  /\ At("request", "judge")
  /\ \E current \in Scores("request"), chosen \in Selectable(Modes) :
       \E verdict \in Verdicts(Confidence, current) :
         \/ /\ verdict # "rollback"
            /\ Decides("request", chosen, verdict = "accepted")
            /\ UNCHANGED <<patch, outcome, fileVars, gitVars, window, restored, outVars,
                           envVars, banditVars>>
         \/ verdict = "rollback" /\ GivesUp("request")
  /\ UNCHANGED modelVars

\* The minimal loop of the pool: its gate and it feed the same detector, and it has no
\* WAL.  A detector that is unstable makes it ask the missing WAL for a snapshot, which
\* ends the process.
EvaluateAgent(a) ==
  LET candidate == IF outcome[a] = "error" THEN 0 ELSE Confidence
      twice     == Slide(Slide(window, PoolWindow, 2 * candidate), PoolWindow, 2 * candidate)
  IN  /\ At(a, "judge") /\ a \in Agents
      /\ window' = twice
      /\ \/ /\ ~IsUnstable(twice, 2)
            /\ Decides(a, a, candidate >= 50)
            /\ UNCHANGED alive
         \/ /\ IsUnstable(twice, 2)
            /\ alive' = FALSE
            /\ UNCHANGED <<pc, arm, accepted, decided>>
      /\ UNCHANGED <<patch, outcome, modelVars, fileVars, gitVars, restored, outVars,
                     wiring, enabled, rounds, events, kills, banditVars>>

\* POST /agent/evolve: a loop of its own judges; only then an arm is selected.
AgentEvolve ==
  /\ wiring = "service" /\ At("request", "idle") /\ rounds < MaxRounds
  /\ rounds' = rounds + 1
  /\ \E chosen \in Selectable(Modes) : Decides("request", chosen, FALSE)
  /\ UNCHANGED <<patch, outcome, modelVars, fileVars, gitVars, window, restored, outVars,
                 wiring, alive, enabled, events, kills, banditVars>>

\* Worker.process: the arm is the mode of the event; after an error nothing is credited.
WorkerEvolves ==
  /\ wiring = "service" /\ At("worker", "idle") /\ events < MaxEvents
  /\ events' = events + 1
  /\ \/ \E mode \in Modes : Decides("worker", mode, FALSE)
     \/ UNCHANGED <<pc, arm, accepted, decided>>
  /\ UNCHANGED <<patch, outcome, modelVars, fileVars, gitVars, window, restored, outVars,
                 wiring, alive, enabled, rounds, kills, banditVars>>

\* UCBSelector.Update.  The selectors of the pool save theirs in the same way, each to a
\* file of its own; that is left out.
Update(a) ==
  /\ At(a, "update")
  /\ Count(arm[a])
  /\ \/ /\ a \in Agents /\ Leaves(a)
        /\ results' = [results EXCEPT ![a] = "evaluated"]
     \/ /\ a \notin Agents /\ Goes(a, "schedule")
        /\ UNCHANGED <<taskVars, results>>
  /\ UNCHANGED <<modelVars, fileVars, gitVars, learnVars, report, envVars>>

Schedule(a) ==
  /\ At(a, "schedule")
  /\ ScheduleSave
  /\ \/ /\ accepted[a] /\ Goes(a, "stage")
        /\ UNCHANGED <<taskVars, report>>
     \/ /\ ~accepted[a] /\ Leaves(a)
        /\ report' = IF a = "request" THEN NoCommit ELSE report
  /\ UNCHANGED <<modelVars, fileVars, gitVars, learnVars, results, envVars>>

Judgement(a) == EvaluateAgent(a) \/ Update(a) \/ Schedule(a)

-----------------------------------------------------------------------------
(* applyAndCommit *)

\* git add takes the real file as it is.
GitAdd ==
  /\ At("request", "stage") /\ Goes("request", "commit")
  /\ staged' = real
  /\ UNCHANGED <<taskVars, modelVars, fileVars, head, learnVars, outVars, envVars, banditVars>>

\* git commit, which RunCycle reports as committed; so it does for "nothing to commit".
GitCommit ==
  /\ At("request", "commit") /\ Leaves("request")
  /\ head' = staged
  /\ report' = [committed |-> TRUE, tested |-> outcome["request"] = "passed"]
  /\ UNCHANGED <<modelVars, fileVars, staged, learnVars, results, envVars, banditVars>>

GitFails ==
  /\ alive /\ pc["request"] \in {"stage", "commit"}
  /\ GivesUp("request")
  /\ UNCHANGED modelVars

Commits == GitAdd \/ GitCommit \/ GitFails

-----------------------------------------------------------------------------
(* The programs *)

\* POST /autonomous/run: a client, an agent and an executor of its own.
BeginCycle ==
  /\ wiring = "service" /\ At("request", "idle") /\ enabled /\ rounds < MaxRounds
  /\ rounds' = rounds + 1
  /\ Goes("request", "ask")
  /\ UNCHANGED <<taskVars, modelVars, fileVars, gitVars, learnVars, outVars, wiring, alive, enabled,
                 events, kills, banditVars>>

CycleDisabled ==
  /\ wiring = "service" /\ At("request", "idle") /\ ~enabled
  /\ report' = NoCommit
  /\ UNCHANGED <<pc, taskVars, modelVars, fileVars, gitVars, learnVars, results, envVars,
                 banditVars>>

\* POST /autonomous/toggle
Toggle ==
  /\ wiring = "service" /\ At("request", "idle")
  /\ enabled' = ~enabled
  /\ UNCHANGED <<pc, taskVars, modelVars, fileVars, gitVars, learnVars, outVars, wiring,
                 alive, rounds, events, kills, banditVars>>

RunAll ==
  /\ wiring = "pool" /\ alive /\ rounds < MaxRunAlls
  /\ \A a \in Agents : pc[a] = "idle"
  /\ rounds' = rounds + 1
  /\ pc' = [a \in Actors |-> IF a \in Agents THEN "ask" ELSE pc[a]]
  /\ results' = [a \in Agents |-> "none"]
  /\ UNCHANGED <<taskVars, modelVars, fileVars, gitVars, learnVars, report, wiring, alive,
                 enabled, events, kills, banditVars>>

\* The channel is closed when the last agent has delivered.
RunAllReturns ==
  /\ wiring = "pool" /\ \A a \in Agents : At(a, "done")
  /\ pc' = [a \in Actors |-> IF a \in Agents THEN "idle" ELSE pc[a]]
  /\ UNCHANGED <<taskVars, modelVars, fileVars, gitVars, learnVars, outVars, envVars,
                 banditVars>>

Edit ==
  /\ edits < MaxEdits
  /\ edits' = edits + 1
  /\ real' = Patch("developer", edits')
  /\ UNCHANGED <<pc, taskVars, modelVars, tested, gitVars, learnVars, outVars, envVars,
                 banditVars>>

Kill ==
  /\ wiring = "service" /\ alive /\ kills < MaxKills
  /\ alive' = FALSE /\ kills' = kills + 1
  /\ pc' = [a \in Actors |-> "idle"] /\ attempt' = [a \in Actors |-> 0]
  /\ patch' = [a \in Actors |-> Original] /\ outcome' = [a \in Actors |-> "none"]
  /\ accepted' = [a \in Actors |-> FALSE] /\ arm' = [a \in Actors |-> AnyArm]
  /\ BanditDies
  /\ decided' = 0 /\ restored' = 0
  /\ UNCHANGED <<failures, breaker, fileVars, gitVars, window, outVars, wiring, enabled,
                 rounds, events>>

\* main: the selector loads its file, the mode comes from a flag.
Restart ==
  /\ wiring = "service" /\ ~alive
  /\ alive' = TRUE /\ enabled' \in BOOLEAN
  /\ BanditLoads
  /\ restored' = Pulled(Loaded)
  /\ UNCHANGED <<pc, taskVars, modelVars, fileVars, gitVars, window, decided, outVars,
                 wiring, rounds, events, kills>>

Saves ==
  /\ alive /\ AutoSave
  /\ UNCHANGED <<pc, taskVars, modelVars, fileVars, gitVars, learnVars, outVars, envVars>>

Works(a) ==
  \/ Solve(a) \/ Sandbox(a) \/ Judgement(a)
  \/ a = "request" /\ (EvaluateCycle \/ Commits)

Next ==
  \/ \E a \in Actors : Works(a)
  \/ \E a \in Agents : OpenEnds(a)
  \/ Saves
  \/ BeginCycle \/ CycleDisabled \/ Toggle \/ AgentEvolve \/ WorkerEvolves
  \/ RunAll \/ RunAllReturns
  \/ Edit \/ Kill \/ Restart

Spec == Init /\ [][Next]_vars

\* Goroutines are scheduled, requests to the model and tests end (a client's timeout,
\* a command that returns), and the auto-save ticks.
Fairness ==
  /\ \A a \in Actors : WF_vars(Works(a))
  /\ WF_vars(RunAllReturns) /\ WF_vars(Saves)

FairSpec == Spec /\ Fairness

-----------------------------------------------------------------------------
(* Properties *)

\* Whatever runs in parallel, fails or is killed: the real file, the index and the last
\* commit only ever hold what the developer wrote, what passed in a sandbox, or what a
\* write that was cut short has left.
OnlyTestedPersists ==
  \A content \in {real, staged, head} :
    content \in tested \cup {Original, Torn} \/ content.by = "developer"

\* The bandit learns exactly once of every decision that went through, the worker's and
\* the requests' alike, and of no other; a restart starts from the pulls it has loaded.
PullsMatchDecisions ==
  alive => Pulled(pulls) + Cardinality({a \in Actors : pc[a] = "update"}) = restored + decided

\* An update that the file does not hold yet waits to be saved, unless the last save
\* failed: none slips through between a save and the flag that asks for the next one.
NoUpdateUnsaved ==
  (wiring = "service" /\ alive) =>
    pulls = Loaded \/ timer \/ unsaved \/ \E a \in Actors : pc[a] = "schedule"

\* Every task ends, in the service and in the pool, whatever the model, the sandbox, git
\* and the other goroutines do, unless the process ends before.
TasksEnd == (\E a \in Actors : pc[a] # "idle") ~> ((\A a \in Actors : pc[a] = "idle") \/ ~alive)

\* What the design document says of the sandbox, for a commit: autonomous mode reports a
\* change as committed only when its tests have passed.
CommittedPassed == report.committed => report.tested

\* What the pool says of a sandbox that fails: "Even failures are learning events".  Its
\* process outlives them.
FailuresAreLearned == wiring = "pool" => alive
================================================================================
