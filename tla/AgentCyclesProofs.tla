-------------------------- MODULE AgentCyclesProofs ---------------------------
(***************************************************************************)
(* Proofs about AgentCycles, for both programs, every finite set of agents *)
(* and modes, and every bound: what may reach the files, what a save of    *)
(* the bandit may miss, how often the bandit learns of a decision, and the *)
(* types of all variables.                                                 *)
(***************************************************************************)
EXTENDS AgentCycles, FiniteSetTheorems, SequenceTheorems, TLAPS

-----------------------------------------------------------------------------
(* The inductive invariant *)

\* The types the rest needs; and in the service nothing runs in the name of an agent of
\* the pool.
ControlInv ==
  /\ pc \in [Actors -> States] /\ patch \in [Actors -> Contents]
  /\ arm \in [Actors -> Arms] /\ rounds \in Nat
  /\ BanditTypeOK
  /\ wiring = "service" => \A a \in Agents : pc[a] = "idle"

\* Who is going to write the real file, or is writing it, has a patch that was tested.
WritersTested == \A a \in Actors : pc[a] \in {"apply", "applying"} => patch[a] \in tested

FileInv == WritersTested /\ OnlyTestedPersists

\* An update that the goroutine of the auto-save did not copy is about to ask for another save.
CopyCurrent ==
  (wiring = "service" /\ saver = "writing") =>
    alive /\ timer /\ (copied = pulls \/ \E a \in Actors : pc[a] = "schedule")

SaveInv == CopyCurrent /\ NoUpdateUnsaved

Inv == ControlInv /\ FileInv /\ SaveInv

-----------------------------------------------------------------------------
(* Lemmas about the names and about the steps that change little *)

LEMMA ActorNames ==
  /\ \A a \in Agents : a \in Actors /\ a \in Arms
  /\ "request" \in Actors /\ "worker" \in Actors
  /\ "request" \notin Agents /\ "worker" \notin Agents
  /\ \A a \in Modes : a \in Arms
  /\ AnyArm \in Arms
<1>1. \E a \in Arms : TRUE
  BY ArmsAssumption
<1>2. AnyArm \in Arms
  BY <1>1 DEF AnyArm
<1> QED
  BY <1>2, ArmsAssumption, NamesAssumption DEF Actors

LEMMA PatchTyped ==
  /\ \A a \in Actors, n \in Nat : Patch(a, n) \in Contents
  /\ Original \in Contents
BY DEF Patch, Original, Contents

LEMMA SelectsArm ==
  ASSUME NEW chosen \in Selectable(Modes)
  PROVE  chosen \in Arms
BY ActorNames DEF Selectable

LEMMA LoadedTyped == BanditTypeOK => Loaded \in Counts /\ NoPulls \in Counts
BY DEF BanditTypeOK, Loaded, Counts, NoPulls

\* The files stay, and nobody comes to write.
FilesAlone ==
  /\ UNCHANGED <<real, staged, head, tested>>
  /\ \A a \in Actors : pc'[a] \in {"apply", "applying"} =>
       pc[a] \in {"apply", "applying"} /\ patch'[a] = patch[a]

\* The bandit stays, and nobody stops waiting for its turn to ask for a save.
BanditAlone ==
  /\ UNCHANGED <<banditVars, alive, wiring>>
  /\ \A a \in Actors : pc[a] = "schedule" => pc'[a] = "schedule"

LEMMA FilesAloneKeep == FileInv /\ FilesAlone => FileInv'
<1> SUFFICES ASSUME FileInv, FilesAlone  PROVE FileInv'
  OBVIOUS
<1>1. WritersTested'
  BY DEF FileInv, FilesAlone, WritersTested
<1>2. OnlyTestedPersists'
  BY DEF FileInv, FilesAlone, OnlyTestedPersists
<1> QED
  BY <1>1, <1>2 DEF FileInv

LEMMA BanditAloneKeep == SaveInv /\ BanditAlone => SaveInv'
<1> SUFFICES ASSUME SaveInv, BanditAlone  PROVE SaveInv'
  OBVIOUS
<1>1. /\ pulls' = pulls /\ timer' = timer /\ saver' = saver /\ copied' = copied
      /\ stored' = stored /\ unsaved' = unsaved /\ alive' = alive /\ wiring' = wiring
      /\ Loaded' = Loaded
  BY DEF BanditAlone, banditVars, Loaded
<1>2. (\E a \in Actors : pc[a] = "schedule") => \E a \in Actors : pc'[a] = "schedule"
  BY DEF BanditAlone
<1>3. CopyCurrent'
  BY <1>1, <1>2 DEF SaveInv, CopyCurrent
<1>4. NoUpdateUnsaved'
  BY <1>1, <1>2 DEF SaveInv, NoUpdateUnsaved
<1> QED
  BY <1>3, <1>4 DEF SaveInv

LEMMA BanditTyped == BanditTypeOK /\ UNCHANGED banditVars => BanditTypeOK'
BY DEF BanditTypeOK, banditVars

\* A goroutine that moves on elsewhere than to a write of the file or away from its
\* request for a save.
Harmless(a, state) ==
  state \in States \ {"apply", "applying"} /\ pc[a] # "schedule"

LEMMA GoesKeeps ==
  ASSUME NEW a \in Actors, NEW state, ControlInv, FileInv, SaveInv, Harmless(a, state),
         Goes(a, state), a \in Agents => wiring # "service" \/ state = "idle",
         \A b \in Actors : b # a => patch'[b] = patch[b],
         patch' \in [Actors -> Contents], arm' \in [Actors -> Arms], rounds' \in Nat,
         UNCHANGED <<fileVars, gitVars, banditVars, alive, wiring>>
  PROVE  Inv'
<1>1. pc' \in [Actors -> States] /\ \A b \in Actors : pc'[b] = IF b = a THEN state ELSE pc[b]
  BY DEF ControlInv, Goes, Harmless
<1>2. ControlInv'
  <2>1. BanditTypeOK'
    BY BanditTyped DEF ControlInv
  <2>2. (wiring = "service" => \A b \in Agents : pc[b] = "idle")'
    BY <1>1, ActorNames DEF ControlInv
  <2> QED
    BY <1>1, <2>1, <2>2 DEF ControlInv
<1>3. FilesAlone
  BY <1>1 DEF FilesAlone, Harmless, fileVars, gitVars
<1>4. BanditAlone
  BY <1>1 DEF BanditAlone, Harmless
<1> QED
  BY <1>2, <1>3, <1>4, FilesAloneKeep, BanditAloneKeep DEF Inv

\* In the service no agent of the pool is anywhere but idle.
LEMMA OnlyPool ==
  ASSUME NEW a \in Agents, ControlInv, pc[a] # "idle"
  PROVE  wiring # "service"
BY DEF ControlInv

LEMMA GivesUpKeeps ==
  ASSUME NEW a \in Actors, Inv, GivesUp(a), pc[a] \notin {"idle", "schedule"}
  PROVE  Inv'
<1> DEFINE state == IF a \in Agents THEN "done" ELSE "idle"
<1>1. Harmless(a, state)
  BY DEF Harmless, States
<1>2. a \in Agents => wiring # "service" \/ state = "idle"
  BY OnlyPool DEF Inv
<1>3. /\ Goes(a, state)
      /\ patch' = [patch EXCEPT ![a] = Original] /\ arm' = [arm EXCEPT ![a] = AnyArm]
      /\ UNCHANGED <<fileVars, gitVars, banditVars, alive, wiring, rounds>>
  BY DEF GivesUp, Leaves, envVars
<1>4. /\ patch' \in [Actors -> Contents] /\ arm' \in [Actors -> Arms] /\ rounds' \in Nat
      /\ \A b \in Actors : b # a => patch'[b] = patch[b]
  BY <1>3, ActorNames, PatchTyped DEF Inv, ControlInv
<1> HIDE DEF state
<1> QED
  BY <1>1, <1>2, <1>3, <1>4, GoesKeeps DEF Inv

\* A move with nothing else of interest.
LEMMA MovesKeep ==
  ASSUME NEW a \in Actors, NEW state, Inv, Goes(a, state), Harmless(a, state),
         pc[a] # "idle", UNCHANGED <<patch, fileVars, gitVars, banditVars, alive, wiring>>,
         arm' \in [Actors -> Arms], rounds' = rounds
  PROVE  Inv'
<1>1. a \in Agents => wiring # "service" \/ state = "idle"
  BY OnlyPool DEF Inv
<1>2. patch' \in [Actors -> Contents] /\ rounds' \in Nat
  BY DEF Inv, ControlInv
<1> QED
  BY <1>1, <1>2, GoesKeeps DEF Inv

\* A step that leaves everything the invariant speaks about.
LEMMA RestKeeps ==
  ASSUME Inv, UNCHANGED <<pc, patch, arm, rounds, fileVars, gitVars, banditVars, alive, wiring>>
  PROVE  Inv'
<1>1. ControlInv'
  BY BanditTyped DEF Inv, ControlInv
<1>2. FilesAlone
  BY DEF FilesAlone, fileVars, gitVars
<1>3. BanditAlone
  BY DEF BanditAlone
<1> QED
  BY <1>1, <1>2, <1>3, FilesAloneKeep, BanditAloneKeep DEF Inv

-----------------------------------------------------------------------------
(* The initial states *)

LEMMA InitInv == Init => Inv
<1> SUFFICES ASSUME Init  PROVE Inv
  OBVIOUS
<1>1. BanditTypeOK
  BY LoadedTyped DEF Init, BanditInit, BanditTypeOK, Counts, NoPulls
<1>2. ControlInv
  BY <1>1, ActorNames, PatchTyped DEF Init, ControlInv, States
<1>3. FileInv
  BY DEF Init, FileInv, WritersTested, OnlyTestedPersists
<1>4. SaveInv
  BY DEF Init, BanditInit, SaveInv, CopyCurrent, NoUpdateUnsaved, Loaded
<1> QED
  BY <1>2, <1>3, <1>4 DEF Inv

-----------------------------------------------------------------------------
(* Every action keeps the invariant *)

LEMMA SolveKeeps ==
  ASSUME NEW a \in Actors, Inv, Solve(a)
  PROVE  Inv'
<1>1. CASE BreakerRefuses(a)
  BY <1>1, GivesUpKeeps DEF BreakerRefuses, At
<1>2. CASE AttemptFails(a)
  BY <1>2, RestKeeps DEF AttemptFails, taskVars, envVars
<1>3. CASE CallFails(a)
  BY <1>3, GivesUpKeeps DEF CallFails, At
<1>4. CASE AnswerRefused(a)
  BY <1>4, GivesUpKeeps DEF AnswerRefused, At
<1>5. CASE Answered(a)
  <2>1. /\ Goes(a, "planned") /\ patch' = [patch EXCEPT ![a] = Patch(a, rounds)]
        /\ UNCHANGED <<arm, fileVars, gitVars, banditVars, alive, wiring, rounds>>
        /\ pc[a] = "ask"
    BY <1>5 DEF Answered, At, envVars
  <2>2. Harmless(a, "planned")
    BY <2>1 DEF Harmless, States
  <2>3. Patch(a, rounds) \in Contents
    BY PatchTyped DEF Inv, ControlInv
  <2>4. /\ patch' \in [Actors -> Contents] /\ arm' \in [Actors -> Arms] /\ rounds' \in Nat
        /\ \A b \in Actors : b # a => patch'[b] = patch[b]
    BY <2>1, <2>3 DEF Inv, ControlInv
  <2>5. a \in Agents => wiring # "service"
    BY <2>1, OnlyPool DEF Inv
  <2> QED
    BY <2>1, <2>2, <2>4, <2>5, GoesKeeps DEF Inv
<1> QED
  BY <1>1, <1>2, <1>3, <1>4, <1>5 DEF Solve

LEMMA ErrsKeeps ==
  ASSUME NEW a \in Actors, Inv, Errs(a), pc[a] \notin {"idle", "schedule"}
  PROVE  Inv'
<1>1. CASE GivesUp(a)
  BY <1>1, GivesUpKeeps
<1>2. CASE ~GivesUp(a)
  <2>1. /\ Goes(a, "judge")
        /\ UNCHANGED <<patch, arm, fileVars, gitVars, banditVars, alive, wiring, rounds>>
    BY <1>2 DEF Errs, envVars
  <2>2. Harmless(a, "judge") /\ arm' \in [Actors -> Arms]
    BY <2>1 DEF Harmless, States, Inv, ControlInv
  <2> QED
    BY <2>1, <2>2, MovesKeep
<1> QED
  BY <1>1, <1>2

\* A patch comes to be applied only after its tests have passed.
LEMMA RunTestsKeeps ==
  ASSUME NEW a \in Actors, Inv, RunTests(a)
  PROVE  Inv'
<1>1. /\ pc[a] = "checked"
      /\ UNCHANGED <<patch, arm, rounds, real, gitVars, banditVars, alive, wiring>>
      /\ \/ tested' = tested \cup {patch[a]} /\ Goes(a, "apply")
         \/ tested' = tested /\ Goes(a, "judge")
  BY DEF RunTests, At, envVars
<1>2. PICK state \in {"apply", "judge"} :
        /\ Goes(a, state)
        /\ tested \subseteq tested' /\ (state = "apply" => patch[a] \in tested')
  BY <1>1
<1>3. pc' \in [Actors -> States] /\ \A b \in Actors : pc'[b] = IF b = a THEN state ELSE pc[b]
  BY <1>2 DEF Goes, States, Inv, ControlInv
<1>4. ControlInv'
  <2>1. BanditTypeOK'
    BY <1>1, BanditTyped DEF Inv, ControlInv
  <2>2. (wiring = "service" => \A b \in Agents : pc[b] = "idle")'
    BY <1>1, <1>3, ActorNames DEF Inv, ControlInv
  <2> QED
    BY <1>1, <1>3, <2>1, <2>2 DEF Inv, ControlInv
<1>5. WritersTested'
  BY <1>1, <1>2, <1>3 DEF WritersTested, FileInv, Inv
<1>6. OnlyTestedPersists'
  BY <1>1, <1>2 DEF OnlyTestedPersists, FileInv, Inv, gitVars
<1>7. BanditAlone
  BY <1>1, <1>3 DEF BanditAlone
<1> QED
  BY <1>4, <1>5, <1>6, <1>7, BanditAloneKeep DEF Inv, FileInv

\* The two halves of the write.
LEMMA ApplyKeeps ==
  ASSUME NEW a \in Actors, Inv, ApplyOpens(a) \/ ApplyEnds(a)
  PROVE  Inv'
<1>1. /\ pc[a] \in {"apply", "applying"}
      /\ UNCHANGED <<patch, arm, rounds, tested, gitVars, banditVars, alive, wiring>>
      /\ real' \in {Torn, patch[a]}
  BY DEF ApplyOpens, ApplyEnds, At, taskVars, envVars
<1>2. PICK state \in {"applying", "judge"} : Goes(a, state)
  BY DEF ApplyOpens, ApplyEnds
<1>3. pc' \in [Actors -> States] /\ \A b \in Actors : pc'[b] = IF b = a THEN state ELSE pc[b]
  BY <1>2 DEF Goes, States, Inv, ControlInv
<1>4. ControlInv'
  <2>1. BanditTypeOK'
    BY <1>1, BanditTyped DEF Inv, ControlInv
  <2>2. (wiring = "service" => \A b \in Agents : pc[b] = "idle")'
    BY <1>1, <1>3, ActorNames DEF Inv, ControlInv
  <2> QED
    BY <1>1, <1>3, <2>1, <2>2 DEF Inv, ControlInv
<1>5. WritersTested'
  BY <1>1, <1>3 DEF WritersTested, FileInv, Inv
<1>6. patch[a] \in tested
  BY <1>1 DEF WritersTested, FileInv, Inv
<1>7. OnlyTestedPersists'
  BY <1>1, <1>6 DEF OnlyTestedPersists, FileInv, Inv, gitVars
<1>8. BanditAlone
  BY <1>1, <1>3 DEF BanditAlone
<1> QED
  BY <1>4, <1>5, <1>7, <1>8, BanditAloneKeep DEF Inv, FileInv

LEMMA SandboxKeeps ==
  ASSUME NEW a \in Actors, Inv, Sandbox(a)
  PROVE  Inv'
<1>1. ASSUME NEW from \in {"planned", "copied", "changed"},
             NEW to \in {"copied", "changed", "checked"}, Moves(a, from, to)
      PROVE  Inv'
  <2>1. /\ Goes(a, to) /\ pc[a] = from
        /\ UNCHANGED <<patch, arm, fileVars, gitVars, banditVars, alive, wiring, rounds>>
    BY <1>1 DEF Moves, At, taskVars, envVars
  <2>2. Harmless(a, to) /\ arm' \in [Actors -> Arms]
    BY <2>1 DEF Harmless, States, Inv, ControlInv
  <2> QED
    BY <2>1, <2>2, MovesKeep
<1>2. CASE NewSandbox(a) \/ ApplyChange(a) \/ ExecuteCommand(a)
  BY <1>1, <1>2 DEF NewSandbox, ApplyChange, ExecuteCommand
<1>3. CASE SandboxErrs(a)
  BY <1>3, ErrsKeeps DEF SandboxErrs
<1>4. CASE ApplyFails(a)
  BY <1>4, ErrsKeeps DEF ApplyFails
<1> QED
  BY <1>2, <1>3, <1>4, RunTestsKeeps, ApplyKeeps DEF Sandbox

LEMMA DecidesKeeps ==
  ASSUME NEW a \in Actors, NEW chosen \in Arms, NEW accepts, Inv,
         Decides(a, chosen, accepts), pc[a] # "schedule",
         a \in Agents => pc[a] # "idle", rounds' \in Nat,
         UNCHANGED <<patch, fileVars, gitVars, banditVars, alive, wiring>>
  PROVE  Inv'
<1>1. Goes(a, "update") /\ arm' = [arm EXCEPT ![a] = chosen]
  BY DEF Decides
<1>2. Harmless(a, "update")
  BY DEF Harmless, States
<1>3. a \in Agents => wiring # "service"
  BY OnlyPool DEF Inv
<1>4. patch' \in [Actors -> Contents] /\ arm' \in [Actors -> Arms]
  BY <1>1 DEF Inv, ControlInv
<1> QED
  BY <1>1, <1>2, <1>3, <1>4, GoesKeeps DEF Inv

LEMMA EvaluateCycleKeeps == Inv /\ EvaluateCycle => Inv'
<1> SUFFICES ASSUME Inv, EvaluateCycle  PROVE Inv'
  OBVIOUS
<1>1. pc["request"] = "judge"
  BY DEF EvaluateCycle, At
<1>2. CASE GivesUp("request")
  BY <1>1, <1>2, GivesUpKeeps, ActorNames
<1>3. CASE ~GivesUp("request")
  <2>1. PICK chosen \in Selectable(Modes), accepts \in BOOLEAN :
          /\ Decides("request", chosen, accepts)
          /\ UNCHANGED <<patch, fileVars, gitVars, banditVars, alive, wiring, rounds>>
    BY <1>3 DEF EvaluateCycle, envVars
  <2>2. chosen \in Arms /\ rounds' \in Nat
    BY <2>1, SelectsArm DEF Inv, ControlInv
  <2> QED
    BY <1>1, <2>1, <2>2, ActorNames, DecidesKeeps
<1> QED
  BY <1>2, <1>3

LEMMA RequestsKeep == Inv /\ (AgentEvolve \/ WorkerEvolves) => Inv'
<1> SUFFICES ASSUME Inv, AgentEvolve \/ WorkerEvolves  PROVE Inv'
  OBVIOUS
<1>1. CASE AgentEvolve
  <2>1. PICK chosen \in Selectable(Modes) : Decides("request", chosen, FALSE)
    BY <1>1 DEF AgentEvolve
  <2>2. chosen \in Arms
    BY <2>1, SelectsArm
  <2>3. rounds' \in Nat /\ pc["request"] = "idle"
    BY <1>1 DEF AgentEvolve, At, Inv, ControlInv
  <2> QED
    BY <1>1, <2>1, <2>2, <2>3, ActorNames, DecidesKeeps DEF AgentEvolve
<1>2. CASE WorkerEvolves
  <2>1. /\ pc["worker"] = "idle" /\ rounds' \in Nat
        /\ UNCHANGED <<patch, fileVars, gitVars, banditVars, alive, wiring, rounds>>
    BY <1>2 DEF WorkerEvolves, At, Inv, ControlInv
  <2>2. CASE UNCHANGED <<pc, arm, accepted, decided>>
    BY <2>1, <2>2, RestKeeps
  <2>3. CASE ~UNCHANGED <<pc, arm, accepted, decided>>
    <3>1. PICK mode \in Modes : Decides("worker", mode, FALSE)
      BY <1>2, <2>3 DEF WorkerEvolves
    <3> QED
      BY <2>1, <3>1, ActorNames, DecidesKeeps
  <2> QED
    BY <2>2, <2>3
<1> QED
  BY <1>1, <1>2
\* The process of the pool may end here; of the service's bandit that says nothing.
LEMMA EvaluateAgentKeeps ==
  ASSUME NEW a \in Actors, Inv, EvaluateAgent(a)
  PROVE  Inv'
<1>1. /\ pc[a] = "judge" /\ a \in Agents /\ a \in Arms
      /\ UNCHANGED <<patch, fileVars, gitVars, banditVars, wiring, rounds>>
      /\ rounds' \in Nat
  BY ActorNames DEF EvaluateAgent, At, Inv, ControlInv
<1>2. CASE alive' = FALSE /\ UNCHANGED <<pc, arm, accepted, decided>>
  <2>1. wiring # "service"
    BY <1>1, OnlyPool DEF Inv
  <2>2. ControlInv'
    BY <1>1, <1>2, BanditTyped DEF Inv, ControlInv
  <2>3. FilesAlone
    BY <1>1, <1>2 DEF FilesAlone, fileVars, gitVars
  <2>4. SaveInv'
    BY <1>1, <2>1 DEF SaveInv, CopyCurrent, NoUpdateUnsaved
  <2> QED
    BY <2>2, <2>3, <2>4, FilesAloneKeep DEF Inv
<1>3. CASE ~(alive' = FALSE /\ UNCHANGED <<pc, arm, accepted, decided>>)
  <2>1. PICK accepts \in BOOLEAN : Decides(a, a, accepts) /\ alive' = alive
    <3>1. \A candidate \in {0, Confidence} : (candidate >= 50) \in BOOLEAN
      OBVIOUS
    <3>2. \E candidate \in {0, Confidence} : Decides(a, a, candidate >= 50) /\ alive' = alive
      BY <1>3 DEF EvaluateAgent
    <3> QED
      BY <3>1, <3>2
  <2> QED
    BY <1>1, <2>1, DecidesKeeps
<1> QED
  BY <1>2, <1>3

\* Whoever has counted is going to ask for a save.
LEMMA UpdateKeeps ==
  ASSUME NEW a \in Actors, Inv, Update(a)
  PROVE  Inv'
<1>1. /\ pc[a] = "update"
      /\ pulls' = [pulls EXCEPT ![arm[a]] = @ + 1]
      /\ UNCHANGED <<timer, saver, copied, stored, unsaved, rounds, fileVars, gitVars, alive,
                     wiring>>
  BY DEF Update, At, Count, saveVars, envVars
<1>2. PICK state \in {"done", "schedule"} :
        /\ Goes(a, state) /\ (state = "done" <=> a \in Agents)
        /\ patch' \in [Actors -> Contents] /\ arm' \in [Actors -> Arms]
  <2>1. CASE a \in Agents
    <3>1. Goes(a, "done") /\ patch' = [patch EXCEPT ![a] = Original]
          /\ arm' = [arm EXCEPT ![a] = AnyArm]
      BY <2>1 DEF Update, Leaves
    <3> QED
      BY <2>1, <3>1, ActorNames, PatchTyped DEF Inv, ControlInv
  <2>2. CASE a \notin Agents
    <3>1. Goes(a, "schedule") /\ patch' = patch /\ arm' = arm
      BY <2>2 DEF Update, taskVars
    <3> QED
      BY <2>2, <3>1 DEF Inv, ControlInv
  <2> QED
    BY <2>1, <2>2
<1>3. pc' \in [Actors -> States] /\ \A b \in Actors : pc'[b] = IF b = a THEN state ELSE pc[b]
  BY <1>2 DEF Goes, States, Inv, ControlInv
<1>4. \A b \in Actors : b # a => patch'[b] = patch[b]
  BY DEF Update, Leaves, taskVars, Inv, ControlInv
<1>5. ControlInv'
  <2>1. pulls' \in Counts
    BY <1>1 DEF Inv, ControlInv, BanditTypeOK, Counts
  <2>2. BanditTypeOK'
    BY <1>1, <2>1 DEF Inv, ControlInv, BanditTypeOK
  <2>3. (wiring = "service" => \A b \in Agents : pc[b] = "idle")'
    <3>1. a \in Agents => wiring # "service"
      BY <1>1, OnlyPool DEF Inv
    <3> QED
      BY <1>1, <1>3, <3>1, ActorNames DEF Inv, ControlInv
  <2>4. rounds' \in Nat
    BY <1>1 DEF Inv, ControlInv
  <2> QED
    BY <1>2, <1>3, <2>2, <2>3, <2>4 DEF ControlInv
<1>6. FilesAlone
  BY <1>1, <1>3, <1>4 DEF FilesAlone, fileVars, gitVars
<1>7. SaveInv'
  <2>1. CASE wiring = "service"
    <3>1. pc'[a] = "schedule"
      BY <1>1, <1>2, <1>3, <2>1, OnlyPool DEF Inv
    <3>2. CopyCurrent'
      BY <1>1, <3>1 DEF Inv, SaveInv, CopyCurrent
    <3> QED
      BY <3>1, <3>2 DEF SaveInv, NoUpdateUnsaved
  <2>2. CASE wiring # "service"
    BY <1>1, <2>2 DEF SaveInv, CopyCurrent, NoUpdateUnsaved
  <2> QED
    BY <2>1, <2>2
<1> QED
  BY <1>5, <1>6, <1>7, FilesAloneKeep DEF Inv

\* The request for a save waits until no save is under way.
LEMMA ScheduleKeeps ==
  ASSUME NEW a \in Actors, Inv, Schedule(a)
  PROVE  Inv'
<1>1. /\ pc[a] = "schedule" /\ saver = "idle" /\ timer' = TRUE
      /\ UNCHANGED <<pulls, saver, copied, stored, unsaved, rounds, fileVars, gitVars, alive,
                     wiring>>
  BY DEF Schedule, At, ScheduleSave, saveVars, envVars
<1>2. PICK state \in {"stage", "done", "idle"} :
        /\ Goes(a, state)
        /\ patch' \in [Actors -> Contents] /\ arm' \in [Actors -> Arms]
        /\ \A b \in Actors : b # a => patch'[b] = patch[b]
  <2>1. CASE accepted[a]
    <3>1. Goes(a, "stage") /\ patch' = patch /\ arm' = arm
      BY <2>1 DEF Schedule, taskVars
    <3> QED
      BY <3>1 DEF Inv, ControlInv
  <2>2. CASE ~accepted[a]
    <3>1. /\ Goes(a, IF a \in Agents THEN "done" ELSE "idle")
          /\ patch' = [patch EXCEPT ![a] = Original] /\ arm' = [arm EXCEPT ![a] = AnyArm]
      BY <2>2 DEF Schedule, Leaves
    <3> QED
      BY <3>1, ActorNames, PatchTyped DEF Inv, ControlInv
  <2> QED
    BY <2>1, <2>2
<1>3. pc' \in [Actors -> States] /\ \A b \in Actors : pc'[b] = IF b = a THEN state ELSE pc[b]
  BY <1>2 DEF Goes, States, Inv, ControlInv
<1>4. ControlInv'
  <2>1. BanditTypeOK'
    BY <1>1 DEF Inv, ControlInv, BanditTypeOK
  <2>2. (wiring = "service" => \A b \in Agents : pc[b] = "idle")'
    <3>1. a \in Agents => wiring # "service"
      BY <1>1, OnlyPool DEF Inv
    <3> QED
      BY <1>1, <1>3, <3>1, ActorNames DEF Inv, ControlInv
  <2>3. rounds' \in Nat
    BY <1>1 DEF Inv, ControlInv
  <2> QED
    BY <1>2, <1>3, <2>1, <2>2, <2>3 DEF ControlInv
<1>5. FilesAlone
  BY <1>1, <1>2, <1>3 DEF FilesAlone, fileVars, gitVars
<1>6. SaveInv'
  BY <1>1 DEF SaveInv, CopyCurrent, NoUpdateUnsaved
<1> QED
  BY <1>4, <1>5, <1>6, FilesAloneKeep DEF Inv

LEMMA JudgementKeeps ==
  ASSUME NEW a \in Actors, Inv, Judgement(a)
  PROVE  Inv'
BY EvaluateAgentKeeps, UpdateKeeps, ScheduleKeeps DEF Judgement

\* The index and the last commit take what the real file and the index hold.
LEMMA CommitsKeep == Inv /\ Commits => Inv'
<1> SUFFICES ASSUME Inv, Commits  PROVE Inv'
  OBVIOUS
<1>1. CASE GitFails
  BY <1>1, GivesUpKeeps, ActorNames DEF GitFails
<1>2. CASE GitAdd \/ GitCommit
  <2>1. PICK state \in {"commit", "idle"} :
          /\ Goes("request", state)
          /\ patch' \in [Actors -> Contents] /\ arm' \in [Actors -> Arms]
          /\ \A b \in Actors : b # "request" => patch'[b] = patch[b]
    <3>1. CASE GitAdd
      <4>1. Goes("request", "commit") /\ patch' = patch /\ arm' = arm
        BY <3>1 DEF GitAdd, taskVars
      <4> QED
        BY <4>1 DEF Inv, ControlInv
    <3>2. CASE GitCommit
      <4>1. /\ Goes("request", "idle")
            /\ patch' = [patch EXCEPT !["request"] = Original]
            /\ arm' = [arm EXCEPT !["request"] = AnyArm]
        BY <3>2, ActorNames DEF GitCommit, Leaves
      <4> QED
        BY <4>1, ActorNames, PatchTyped DEF Inv, ControlInv
    <3> QED
      BY <1>2, <3>1, <3>2
  <2>2. /\ pc["request"] \in {"stage", "commit"}
        /\ {real', staged', head'} \subseteq {real, staged, head}
        /\ UNCHANGED <<tested, rounds, banditVars, alive, wiring>>
    BY <1>2 DEF GitAdd, GitCommit, At, fileVars, envVars
  <2>3. /\ pc' \in [Actors -> States]
        /\ \A b \in Actors : pc'[b] = IF b = "request" THEN state ELSE pc[b]
    BY <2>1, ActorNames DEF Goes, States, Inv, ControlInv
  <2>4. ControlInv'
    <3>1. BanditTypeOK'
      BY <2>2, BanditTyped DEF Inv, ControlInv
    <3>2. (wiring = "service" => \A b \in Agents : pc[b] = "idle")'
      BY <2>2, <2>3, ActorNames DEF Inv, ControlInv
    <3>3. rounds' \in Nat
      BY <2>2 DEF Inv, ControlInv
    <3> QED
      BY <2>1, <2>3, <3>1, <3>2, <3>3 DEF ControlInv
  <2>5. WritersTested'
    BY <2>1, <2>2, <2>3 DEF WritersTested, FileInv, Inv
  <2>6. OnlyTestedPersists'
    BY <2>2 DEF OnlyTestedPersists, FileInv, Inv
  <2>7. BanditAlone
    BY <2>2, <2>3 DEF BanditAlone
  <2> QED
    BY <2>4, <2>5, <2>6, <2>7, BanditAloneKeep DEF Inv, FileInv
<1> QED
  BY <1>1, <1>2 DEF Commits

\* What begins and ends a task, and what touches none.
LEMMA ProgramKeeps ==
  Inv /\ (BeginCycle \/ CycleDisabled \/ Toggle \/ RunAll \/ RunAllReturns
         \/ \E a \in Agents : OpenEnds(a)) => Inv'
<1> SUFFICES ASSUME Inv, BeginCycle \/ CycleDisabled \/ Toggle \/ RunAll \/ RunAllReturns
                         \/ \E a \in Agents : OpenEnds(a)
             PROVE  Inv'
  OBVIOUS
<1>1. CASE CycleDisabled \/ Toggle \/ \E a \in Agents : OpenEnds(a)
  BY <1>1, RestKeeps DEF CycleDisabled, Toggle, OpenEnds, taskVars, envVars
<1>2. CASE BeginCycle
  <2>1. /\ Goes("request", "ask") /\ pc["request"] = "idle"
        /\ UNCHANGED <<patch, arm, fileVars, gitVars, banditVars, alive, wiring>>
        /\ rounds' \in Nat
    BY <1>2 DEF BeginCycle, At, taskVars, Inv, ControlInv
  <2>2. Harmless("request", "ask")
    BY <2>1 DEF Harmless, States
  <2>3. patch' \in [Actors -> Contents] /\ arm' \in [Actors -> Arms]
    BY <2>1 DEF Inv, ControlInv
  <2> QED
    BY <2>1, <2>2, <2>3, ActorNames, GoesKeeps DEF Inv
<1>3. CASE RunAll \/ RunAllReturns
  <2>1. PICK state \in {"ask", "idle"} :
          pc' = [a \in Actors |-> IF a \in Agents THEN state ELSE pc[a]]
    BY <1>3 DEF RunAll, RunAllReturns
  <2>2. /\ wiring = "pool" /\ \A a \in Agents : pc[a] \in {"idle", "done"}
        /\ UNCHANGED <<patch, arm, fileVars, gitVars, banditVars, alive, wiring>>
        /\ rounds' \in Nat
    BY <1>3 DEF RunAll, RunAllReturns, At, taskVars, envVars, Inv, ControlInv
  <2>3. ControlInv'
    BY <2>1, <2>2, BanditTyped DEF Inv, ControlInv, States
  <2>4. FilesAlone
    BY <2>1, <2>2 DEF FilesAlone, fileVars, gitVars
  <2>5. BanditAlone
    BY <2>1, <2>2 DEF BanditAlone
  <2> QED
    BY <2>3, <2>4, <2>5, FilesAloneKeep, BanditAloneKeep DEF Inv
<1> QED
  BY <1>1, <1>2, <1>3

LEMMA EditKeeps == Inv /\ Edit => Inv'
<1> SUFFICES ASSUME Inv, Edit  PROVE Inv'
  OBVIOUS
<1>1. /\ real'.by = "developer"
      /\ UNCHANGED <<pc, patch, arm, rounds, tested, gitVars, banditVars, alive, wiring>>
  BY DEF Edit, Patch, taskVars, envVars
<1>2. ControlInv'
  BY <1>1, BanditTyped DEF Inv, ControlInv
<1>3. WritersTested'
  BY <1>1 DEF WritersTested, FileInv, Inv
<1>4. OnlyTestedPersists'
  BY <1>1 DEF OnlyTestedPersists, FileInv, Inv, gitVars
<1>5. BanditAlone
  BY <1>1 DEF BanditAlone
<1> QED
  BY <1>2, <1>3, <1>4, <1>5, BanditAloneKeep DEF Inv, FileInv

\* A save that begins while an update waits copies it or leaves it to the next one; one
\* that ends leaves what it has copied.
LEMMA SavesKeep == Inv /\ Saves => Inv'
<1> SUFFICES ASSUME Inv, Saves  PROVE Inv'
  OBVIOUS
<1>1. /\ UNCHANGED <<pc, patch, arm, rounds, fileVars, gitVars, alive, wiring, pulls>>
      /\ alive /\ AutoSave
  BY DEF Saves, AutoSave, SaveOpens, SaveEnds, SaveFails, taskVars, envVars
<1>2. pulls \in Counts /\ copied \in Counts /\ NoPulls \in Counts
  BY LoadedTyped DEF Inv, ControlInv, BanditTypeOK
<1>3. BanditTypeOK'
  BY <1>1, <1>2 DEF AutoSave, SaveOpens, SaveEnds, SaveFails, Inv, ControlInv, BanditTypeOK
<1>4. ControlInv'
  BY <1>1, <1>3 DEF Inv, ControlInv
<1>5. FilesAlone
  BY <1>1 DEF FilesAlone, fileVars, gitVars
<1>6. CopyCurrent'
  BY <1>1 DEF AutoSave, SaveOpens, SaveEnds, SaveFails, CopyCurrent
<1>7. NoUpdateUnsaved'
  <2>1. CASE SaveOpens \/ SaveFails
    BY <2>1 DEF SaveOpens, SaveFails, NoUpdateUnsaved
  <2>2. CASE SaveEnds
    <3>1. Loaded' = copied
      BY <1>2, <2>2, UnreadableAssumption DEF SaveEnds, Loaded
    <3> QED
      BY <1>1, <2>2, <3>1 DEF SaveEnds, Inv, SaveInv, CopyCurrent, NoUpdateUnsaved
  <2> QED
    BY <1>1, <2>1, <2>2 DEF AutoSave
<1> QED
  BY <1>4, <1>5, <1>6, <1>7, FilesAloneKeep DEF Inv, SaveInv

\* A killed service forgets; a started one has the pulls of the file.
LEMMA RestartsKeep == Inv /\ (Kill \/ Restart) => Inv'
<1> SUFFICES ASSUME Inv, Kill \/ Restart  PROVE Inv'
  OBVIOUS
<1>1. CASE Kill
  <2>1. /\ pc' = [a \in Actors |-> "idle"] /\ patch' = [a \in Actors |-> Original]
        /\ arm' = [a \in Actors |-> AnyArm] /\ alive' = FALSE
        /\ pulls' = NoPulls /\ timer' = FALSE /\ saver' = "idle" /\ copied' = NoPulls
        /\ unsaved' = FALSE
        /\ UNCHANGED <<stored, fileVars, gitVars, rounds>>
    BY <1>1 DEF Kill, BanditDies
  <2>2. BanditTypeOK'
    BY <2>1, LoadedTyped DEF Inv, ControlInv, BanditTypeOK
  <2>3. ControlInv'
    BY <2>1, <2>2, ActorNames, PatchTyped DEF Inv, ControlInv, States
  <2>4. FilesAlone
    BY <2>1 DEF FilesAlone, fileVars, gitVars
  <2>5. SaveInv'
    BY <2>1 DEF SaveInv, CopyCurrent, NoUpdateUnsaved
  <2> QED
    BY <2>3, <2>4, <2>5, FilesAloneKeep DEF Inv
<1>2. CASE Restart
  <2>1. /\ wiring = "service" /\ ~alive /\ pulls' = Loaded
        /\ UNCHANGED <<timer, saver, copied, stored, unsaved, pc, patch, arm, rounds, fileVars,
                       gitVars, wiring>>
    BY <1>2 DEF Restart, BanditLoads, saveVars, taskVars
  <2>2. BanditTypeOK'
    BY <2>1, LoadedTyped DEF Inv, ControlInv, BanditTypeOK
  <2>3. ControlInv'
    BY <2>1, <2>2 DEF Inv, ControlInv
  <2>4. FilesAlone
    BY <2>1 DEF FilesAlone, fileVars, gitVars
  <2>5. CopyCurrent'
    BY <2>1 DEF Inv, SaveInv, CopyCurrent
  <2>6. NoUpdateUnsaved'
    BY <2>1 DEF NoUpdateUnsaved, Loaded
  <2> QED
    BY <2>3, <2>4, <2>5, <2>6, FilesAloneKeep DEF Inv, SaveInv
<1> QED
  BY <1>1, <1>2

LEMMA NextInv == Inv /\ [Next]_vars => Inv'
<1> SUFFICES ASSUME Inv, [Next]_vars  PROVE Inv'
  OBVIOUS
<1>1. CASE \E a \in Actors : Works(a)
  <2>1. PICK a \in Actors : Works(a)
    BY <1>1
  <2> QED
    BY <2>1, SolveKeeps, SandboxKeeps, JudgementKeeps, EvaluateCycleKeeps, CommitsKeep DEF Works
<1>2. CASE UNCHANGED vars
  BY <1>2, RestKeeps DEF vars, taskVars, envVars
<1> QED
  BY <1>1, <1>2, ProgramKeeps, RequestsKeep, SavesKeep, EditKeeps, RestartsKeep DEF Next

-----------------------------------------------------------------------------
(* The pulls of the bandit, counted *)

\* Who is about to tell the bandit of a decision.
Updaters == {a \in Actors : pc[a] = "update"}

\* A service that was killed has decided nothing and does nothing.
DeadService ==
  (wiring = "service" /\ ~alive) => decided = 0 /\ \A a \in Actors : pc[a] = "idle"

LearnInv == decided \in Nat /\ restored \in Nat /\ DeadService /\ PullsMatchDecisions

LEMMA FiniteActors == IsFiniteSet(Actors) /\ IsFiniteSet(Arms)
<1>1. IsFiniteSet(Agents) /\ IsFiniteSet(Modes)
  BY SizesAssumption
<1>2. IsFiniteSet({"request", "worker"})
  <2>1. {"request", "worker"} = {"request"} \cup {"worker"}
    OBVIOUS
  <2>2. IsFiniteSet({"request"}) /\ IsFiniteSet({"worker"})
    BY FS_Singleton
  <2>3. IsFiniteSet({"request"} \cup {"worker"})
    BY ONLY <2>2, FS_Union
  <2> QED
    BY ONLY <2>1, <2>3
<1> QED
  BY <1>1, <1>2, FS_Union, ArmsAssumption DEF Actors

\* The set that Pulled counts is finite, as there are finitely many arms.
LEMMA FinitePulls ==
  ASSUME NEW count \in Counts
  PROVE  IsFiniteSet(Pulls(count)) /\ Pulled(count) \in Nat
<1> DEFINE Of(arm_) == {arm_} \X (1 .. count[arm_])
           f == [a \in Arms |-> Of(a)]
           All == {Of(a) : a \in Arms}
<1>1. f \in Surjection(Arms, All)
  BY DEF Surjection
<1>2. IsFiniteSet(All)
  BY <1>1, FiniteActors, FS_Surjection
<1>3. ASSUME NEW a \in Arms  PROVE IsFiniteSet(Of(a))
  <2>1. count[a] \in Nat
    BY DEF Counts
  <2>2. IsFiniteSet(1 .. count[a])
    BY <2>1, FS_Interval
  <2> QED
    BY <2>2, FS_Singleton, FS_Product
<1>4. \A T \in All : IsFiniteSet(T)
  BY <1>3
<1>5. Pulls(count) = UNION All
  BY DEF Pulls
<1>6. IsFiniteSet(Pulls(count))
  BY <1>2, <1>4, <1>5, FS_UNION
<1> QED
  BY <1>6, FS_CardinalityType DEF Pulled

LEMMA PullsMembers ==
  ASSUME NEW count \in Counts, NEW a \in Arms, NEW n \in Nat
  PROVE  <<a, n>> \in Pulls(count) <=> n \in 1 .. count[a]
BY DEF Pulls

\* One more pull of one arm is one more in the sum.
LEMMA CountsOne ==
  ASSUME NEW count \in Counts, NEW a \in Arms
  PROVE  Pulled([count EXCEPT ![a] = @ + 1]) = Pulled(count) + 1
<1> DEFINE more == [count EXCEPT ![a] = @ + 1]
           new == <<a, count[a] + 1>>
<1>1. count[a] \in Nat /\ more \in Counts
  BY DEF Counts
<1>2. \A b \in Arms : count[b] \in Nat /\ more[b] = IF b = a THEN count[a] + 1 ELSE count[b]
  BY DEF Counts
<1>3. new \notin Pulls(count)
  BY <1>1, PullsMembers
<1>4. Pulls(more) = Pulls(count) \cup {new}
  <2>1. \A b \in Arms :
          {b} \X (1 .. more[b]) =
            ({b} \X (1 .. count[b])) \cup (IF b = a THEN {new} ELSE {})
    <3>1. 1 .. count[a] + 1 = (1 .. count[a]) \cup {count[a] + 1}
      BY <1>1
    <3> HIDE DEF more
    <3> QED
      BY <1>2, <3>1
  <2> HIDE DEF more, new
  <2> QED
    BY <2>1 DEF Pulls
<1> HIDE DEF more, new
<1>5. Cardinality(Pulls(more)) = Cardinality(Pulls(count)) + 1
  BY <1>3, <1>4, FinitePulls, FS_AddElement
<1> QED
  BY <1>5 DEF Pulled, more

LEMMA NothingPulled == Pulled(NoPulls) = 0
<1>1. Pulls(NoPulls) = {}
  BY DEF Pulls, NoPulls
<1> QED
  BY <1>1, FS_EmptySet DEF Pulled

LEMMA FiniteUpdaters == IsFiniteSet(Updaters) /\ Cardinality(Updaters) \in Nat
BY FiniteActors, FS_Subset, FS_CardinalityType DEF Updaters

\* Nothing is decided or learned, and nobody comes to tell of a decision or goes away
\* without telling.
LearningAlone ==
  /\ UNCHANGED <<pulls, decided, restored, alive, wiring>>
  /\ \A a \in Actors : pc'[a] = "update" <=> pc[a] = "update"
  /\ (wiring = "service" /\ ~alive) => pc' = pc

LEMMA LearningAloneKeeps == LearnInv /\ LearningAlone => LearnInv'
<1> SUFFICES ASSUME LearnInv, LearningAlone  PROVE LearnInv'
  OBVIOUS
<1>1. Updaters' = Updaters
  BY DEF Updaters, LearningAlone
<1>2. Pulled(pulls)' = Pulled(pulls)
  BY DEF Pulled, Pulls, LearningAlone
<1>3. PullsMatchDecisions'
  BY <1>1, <1>2 DEF LearnInv, LearningAlone, PullsMatchDecisions, Updaters
<1> QED
  BY <1>3 DEF LearnInv, LearningAlone, DeadService

\* One more decision, and its updater.
LEMMA DecidesLearns ==
  ASSUME NEW a \in Actors, NEW chosen, NEW accepts, Inv, LearnInv,
         Decides(a, chosen, accepts), pc[a] # "update", alive,
         UNCHANGED <<pulls, restored, alive, wiring>>
  PROVE  LearnInv'
<1>1. decided' = decided + 1 /\ \A b \in Actors : pc'[b] = IF b = a THEN "update" ELSE pc[b]
  BY DEF Decides, Goes, Inv, ControlInv
<1>2. Updaters' = Updaters \cup {a} /\ a \notin Updaters
  BY <1>1 DEF Updaters
<1>3. Cardinality(Updaters') = Cardinality(Updaters) + 1
  BY <1>2, FiniteUpdaters, FS_AddElement
<1>4. Pulled(pulls)' = Pulled(pulls) /\ Pulled(pulls) \in Nat
  BY FinitePulls DEF Pulled, Pulls, Inv, ControlInv, BanditTypeOK
<1>5. PullsMatchDecisions'
  BY <1>1, <1>3, <1>4, FiniteUpdaters DEF LearnInv, PullsMatchDecisions, Updaters
<1> QED
  BY <1>1, <1>5 DEF LearnInv, DeadService

\* One more pull, and one updater less.
LEMMA UpdateLearns ==
  ASSUME NEW a \in Actors, Inv, LearnInv, Update(a)
  PROVE  LearnInv'
<1>1. /\ alive /\ pc[a] = "update" /\ arm[a] \in Arms
      /\ pulls' = [pulls EXCEPT ![arm[a]] = @ + 1]
      /\ UNCHANGED <<decided, restored, alive, wiring>>
  BY DEF Update, At, Count, learnVars, envVars, Inv, ControlInv
<1>2. \A b \in Actors : b # a => pc'[b] = pc[b]
  BY DEF Update, Leaves, Goes, Inv, ControlInv
<1>3. pc'[a] # "update"
  BY DEF Update, Leaves, Goes, Inv, ControlInv
<1>4. Updaters' = Updaters \ {a} /\ a \in Updaters
  BY <1>1, <1>2, <1>3 DEF Updaters
<1>5. Cardinality(Updaters') = Cardinality(Updaters) - 1
  BY <1>4, FiniteUpdaters, FS_RemoveElement
<1>6. pulls \in Counts
  BY DEF Inv, ControlInv, BanditTypeOK
<1>7. Pulled(pulls)' = Pulled([pulls EXCEPT ![arm[a]] = @ + 1])
  BY <1>1 DEF Pulled, Pulls
<1>8. Pulled(pulls)' = Pulled(pulls) + 1 /\ Pulled(pulls) \in Nat
  BY <1>1, <1>6, <1>7, CountsOne, FinitePulls
<1>9. PullsMatchDecisions'
  BY <1>1, <1>5, <1>8, FiniteUpdaters DEF LearnInv, PullsMatchDecisions, Updaters
<1> QED
  BY <1>1, <1>9 DEF LearnInv, DeadService

LEMMA InitLearn == Init => LearnInv
<1> SUFFICES ASSUME Init  PROVE LearnInv
  OBVIOUS
<1>1. Updaters = {} /\ pulls = NoPulls
  BY DEF Init, BanditInit, Updaters
<1>2. Cardinality(Updaters) = 0 /\ Pulled(pulls) = 0
  BY <1>1, NothingPulled, FS_EmptySet
<1>3. PullsMatchDecisions
  BY <1>2 DEF Init, PullsMatchDecisions, Updaters
<1> QED
  BY <1>3 DEF Init, LearnInv, DeadService

\* A move that neither begins nor ends the wait to tell the bandit.
LEMMA GoesLearns ==
  ASSUME NEW a \in Actors, NEW state, Inv, LearnInv, Goes(a, state), alive,
         pc[a] # "update", state # "update",
         UNCHANGED <<pulls, decided, restored, alive, wiring>>
  PROVE  LearnInv'
<1>1. LearningAlone
  BY DEF LearningAlone, Goes, Inv, ControlInv
<1> QED
  BY <1>1, LearningAloneKeeps

LEMMA GivesUpLearns ==
  ASSUME NEW a \in Actors, Inv, LearnInv, GivesUp(a), alive, pc[a] # "update"
  PROVE  LearnInv'
<1>1. /\ Goes(a, IF a \in Agents THEN "done" ELSE "idle")
      /\ UNCHANGED <<pulls, decided, restored, alive, wiring>>
  BY DEF GivesUp, Leaves, learnVars, envVars, banditVars
<1>2. (IF a \in Agents THEN "done" ELSE "idle") # "update"
  OBVIOUS
<1> QED
  BY <1>1, <1>2, GoesLearns

LEMMA SolveLearns ==
  ASSUME NEW a \in Actors, Inv, LearnInv, Solve(a)
  PROVE  LearnInv'
<1>1. CASE BreakerRefuses(a) \/ CallFails(a) \/ AnswerRefused(a)
  BY <1>1, GivesUpLearns DEF BreakerRefuses, CallFails, AnswerRefused, At
<1>2. CASE AttemptFails(a)
  <2>1. LearningAlone
    BY <1>2 DEF AttemptFails, LearningAlone, learnVars, envVars, banditVars
  <2> QED
    BY <2>1, LearningAloneKeeps
<1>3. CASE Answered(a)
  <2>1. /\ alive /\ pc[a] = "ask" /\ Goes(a, "planned")
        /\ UNCHANGED <<pulls, decided, restored, alive, wiring>>
    BY <1>3 DEF Answered, At, learnVars, envVars, banditVars
  <2> QED
    BY <2>1, GoesLearns
<1> QED
  BY <1>1, <1>2, <1>3 DEF Solve

LEMMA SandboxLearns ==
  ASSUME NEW a \in Actors, Inv, LearnInv, Sandbox(a)
  PROVE  LearnInv'
<1>1. alive /\ pc[a] \in {"planned", "copied", "changed", "checked", "apply", "applying"}
  BY DEF Sandbox, NewSandbox, ApplyChange, ExecuteCommand, Moves, SandboxErrs, RunTests,
         ApplyOpens, ApplyEnds, ApplyFails, At
<1>2. CASE GivesUp(a)
  BY <1>1, <1>2, GivesUpLearns
<1>3. CASE ~GivesUp(a)
  <2>1. \E state \in {"copied", "changed", "checked", "judge", "apply", "applying"} :
          /\ Goes(a, state)
          /\ UNCHANGED <<pulls, decided, restored, alive, wiring>>
    <3>1. CASE NewSandbox(a) \/ ApplyChange(a) \/ ExecuteCommand(a)
      BY <3>1 DEF NewSandbox, ApplyChange, ExecuteCommand, Moves, learnVars, envVars, banditVars
    <3>2. CASE SandboxErrs(a) \/ ApplyFails(a)
      BY <1>3, <3>2 DEF SandboxErrs, ApplyFails, Errs, learnVars, envVars, banditVars
    <3>3. CASE RunTests(a) \/ ApplyOpens(a) \/ ApplyEnds(a)
      BY <3>3 DEF RunTests, ApplyOpens, ApplyEnds, learnVars, envVars, banditVars
    <3> QED
      BY <3>1, <3>2, <3>3 DEF Sandbox
  <2> QED
    BY <1>1, <2>1, GoesLearns
<1> QED
  BY <1>2, <1>3

LEMMA JudgementLearns ==
  ASSUME NEW a \in Actors, Inv, LearnInv, Judgement(a)
  PROVE  LearnInv'
<1>1. CASE EvaluateAgent(a)
  <2>1. /\ alive /\ pc[a] = "judge" /\ a \in Agents
        /\ UNCHANGED <<pulls, restored, wiring>>
    BY <1>1 DEF EvaluateAgent, At, banditVars
  <2>2. CASE alive' = FALSE /\ UNCHANGED <<pc, arm, accepted, decided>>
    <3>1. wiring # "service"
      BY <2>1, OnlyPool DEF Inv
    <3> QED
      BY <2>1, <2>2, <3>1 DEF LearnInv, DeadService, PullsMatchDecisions
  <2>3. CASE ~(alive' = FALSE /\ UNCHANGED <<pc, arm, accepted, decided>>)
    <3>1. \E accepts : Decides(a, a, accepts) /\ alive' = alive
      BY <1>1, <2>3 DEF EvaluateAgent
    <3> QED
      BY <2>1, <3>1, DecidesLearns
  <2> QED
    BY <2>2, <2>3
<1>2. CASE Schedule(a)
  <2>1. /\ alive /\ pc[a] = "schedule"
        /\ UNCHANGED <<pulls, decided, restored, alive, wiring>>
    BY <1>2 DEF Schedule, At, ScheduleSave, learnVars, envVars
  <2>2. \E state \in {"stage", "done", "idle"} : Goes(a, state)
    BY <1>2 DEF Schedule, Leaves
  <2> QED
    BY <2>1, <2>2, GoesLearns
<1> QED
  BY <1>1, <1>2, UpdateLearns DEF Judgement

LEMMA RequestLearns ==
  ASSUME Inv, LearnInv, EvaluateCycle \/ Commits
  PROVE  LearnInv'
<1>1. CASE EvaluateCycle
  <2>1. alive /\ pc["request"] = "judge" /\ "request" \in Actors
    BY <1>1, ActorNames DEF EvaluateCycle, At
  <2>2. CASE GivesUp("request")
    BY <2>1, <2>2, GivesUpLearns
  <2>3. CASE ~GivesUp("request")
    <3>1. \E chosen, accepts :
            /\ Decides("request", chosen, accepts)
            /\ UNCHANGED <<pulls, restored, alive, wiring>>
      BY <1>1, <2>3 DEF EvaluateCycle, envVars, banditVars
    <3> QED
      BY <2>1, <3>1, DecidesLearns
  <2> QED
    BY <2>2, <2>3
<1>2. CASE Commits
  <2>1. alive /\ pc["request"] \in {"stage", "commit"} /\ "request" \in Actors
    BY <1>2, ActorNames DEF Commits, GitAdd, GitCommit, GitFails, At
  <2>2. CASE GivesUp("request")
    BY <2>1, <2>2, GivesUpLearns
  <2>3. CASE ~GivesUp("request")
    <3>1. \E state \in {"commit", "done", "idle"} :
            /\ Goes("request", state)
            /\ UNCHANGED <<pulls, decided, restored, alive, wiring>>
      BY <1>2, <2>3 DEF Commits, GitAdd, GitCommit, GitFails, Leaves, learnVars, envVars,
                        banditVars
    <3> QED
      BY <2>1, <3>1, GoesLearns
  <2> QED
    BY <2>2, <2>3
<1> QED
  BY <1>1, <1>2

LEMMA ProgramLearns ==
  ASSUME Inv, LearnInv,
         \/ BeginCycle \/ CycleDisabled \/ Toggle \/ AgentEvolve \/ WorkerEvolves
         \/ RunAll \/ RunAllReturns \/ Saves \/ Edit \/ \E a \in Agents : OpenEnds(a)
  PROVE  LearnInv'
<1>0. "request" \in Actors /\ "worker" \in Actors
  BY ActorNames
<1>1. CASE BeginCycle
  <2>1. /\ alive /\ pc["request"] = "idle" /\ Goes("request", "ask")
        /\ UNCHANGED <<pulls, decided, restored, alive, wiring>>
    BY <1>1 DEF BeginCycle, At, learnVars, banditVars
  <2> QED
    BY <1>0, <2>1, GoesLearns
<1>2. CASE CycleDisabled \/ Toggle \/ Saves \/ Edit \/ \E a \in Agents : OpenEnds(a)
  <2>1. LearningAlone
    BY <1>2 DEF CycleDisabled, Toggle, Saves, AutoSave, SaveOpens, SaveEnds, SaveFails, Edit,
                OpenEnds, LearningAlone, learnVars, envVars, banditVars
  <2> QED
    BY <2>1, LearningAloneKeeps
<1>3. CASE RunAll \/ RunAllReturns
  <2>1. PICK state \in {"ask", "idle"} :
          /\ pc' = [a \in Actors |-> IF a \in Agents THEN state ELSE pc[a]]
          /\ wiring = "pool" /\ \A a \in Agents : pc[a] \in {"idle", "done"}
          /\ UNCHANGED <<pulls, decided, restored, alive, wiring>>
    BY <1>3 DEF RunAll, RunAllReturns, At, learnVars, envVars, banditVars
  <2>2. LearningAlone
    BY <2>1 DEF LearningAlone
  <2> QED
    BY <2>2, LearningAloneKeeps
<1>4. CASE AgentEvolve
  <2>1. /\ alive /\ pc["request"] = "idle"
        /\ \E chosen : Decides("request", chosen, FALSE)
        /\ UNCHANGED <<pulls, restored, alive, wiring>>
    BY <1>4 DEF AgentEvolve, At, banditVars
  <2> QED
    BY <1>0, <2>1, DecidesLearns
<1>5. CASE WorkerEvolves
  <2>1. /\ alive /\ pc["worker"] = "idle"
        /\ UNCHANGED <<pulls, restored, alive, wiring>>
    BY <1>5 DEF WorkerEvolves, At, banditVars
  <2>2. CASE UNCHANGED <<pc, arm, accepted, decided>>
    <3>1. LearningAlone
      BY <2>1, <2>2 DEF LearningAlone
    <3> QED
      BY <3>1, LearningAloneKeeps
  <2>3. CASE ~UNCHANGED <<pc, arm, accepted, decided>>
    <3>1. \E mode : Decides("worker", mode, FALSE)
      BY <1>5, <2>3 DEF WorkerEvolves
    <3> QED
      BY <1>0, <2>1, <3>1, DecidesLearns
  <2> QED
    BY <2>2, <2>3
<1> QED
  BY <1>1, <1>2, <1>3, <1>4, <1>5

\* What a start loads is what it owes; nothing was decided since.
LEMMA RestartsLearn ==
  ASSUME Inv, LearnInv, Kill \/ Restart
  PROVE  LearnInv'
<1>1. CASE Kill
  <2>1. ~alive' /\ decided' = 0 /\ restored' = 0 /\ pc' = [a \in Actors |-> "idle"]
    BY <1>1 DEF Kill
  <2> QED
    BY <2>1 DEF LearnInv, DeadService, PullsMatchDecisions
<1>2. CASE Restart
  <2>1. /\ wiring = "service" /\ ~alive /\ alive' /\ pulls' = Loaded
        /\ restored' = Pulled(Loaded) /\ pc' = pc /\ decided' = decided
    BY <1>2 DEF Restart, BanditLoads
  <2>2. decided = 0 /\ \A a \in Actors : pc[a] = "idle"
    BY <2>1 DEF LearnInv, DeadService
  <2>3. Updaters' = {}
    BY <2>1, <2>2 DEF Updaters
  <2>4. Cardinality(Updaters') = 0
    BY <2>3, FS_EmptySet
  <2>5. Pulled(pulls)' = restored' /\ restored' \in Nat
    <3>1. Loaded \in Counts
      BY LoadedTyped DEF Inv, ControlInv
    <3>2. Pulled(pulls)' = Pulled(Loaded)
      BY <2>1 DEF Pulled, Pulls
    <3> QED
      BY <2>1, <3>1, <3>2, FinitePulls
  <2>6. PullsMatchDecisions'
    BY <2>1, <2>2, <2>4, <2>5 DEF PullsMatchDecisions, Updaters
  <2> QED
    BY <2>1, <2>2, <2>5, <2>6 DEF LearnInv, DeadService
<1> QED
  BY <1>1, <1>2

LEMMA NextLearns == Inv /\ LearnInv /\ [Next]_vars => LearnInv'
<1> SUFFICES ASSUME Inv, LearnInv, [Next]_vars  PROVE LearnInv'
  OBVIOUS
<1>1. CASE \E a \in Actors : Works(a)
  <2>1. PICK a \in Actors : Works(a)
    BY <1>1
  <2> QED
    BY <2>1, SolveLearns, SandboxLearns, JudgementLearns, RequestLearns DEF Works
<1>2. CASE UNCHANGED vars
  <2>1. LearningAlone
    BY <1>2 DEF vars, LearningAlone, learnVars, envVars, banditVars
  <2> QED
    BY <2>1, LearningAloneKeeps
<1> QED
  BY <1>1, <1>2, ProgramLearns, RestartsLearn DEF Next

-----------------------------------------------------------------------------
(* The types of all variables *)

\* What TypeOK says of the files, and of everything else that ControlInv leaves out.
FilesTyped ==
  /\ real \in Contents /\ staged \in Contents /\ head \in Contents
  /\ tested \subseteq Contents /\ edits \in Nat

ModelTyped ==
  /\ attempt \in [Actors -> 0 .. MaxAttempts - 1]
  /\ failures \in [Agents -> 0 .. TripAfter - 1]
  /\ breaker \in [Agents -> {"closed", "open", "half"}]

VerdictsTyped ==
  /\ outcome \in [Actors -> Outcomes] /\ accepted \in [Actors -> BOOLEAN]
  /\ results \in [Agents -> Results]
  /\ report \in [committed : BOOLEAN, tested : BOOLEAN]

WindowTyped == window \in Seq({0, 120}) /\ Len(window) <= PoolWindow

EnvTyped ==
  /\ wiring \in Wirings /\ alive \in BOOLEAN /\ enabled \in BOOLEAN
  /\ events \in Nat /\ kills \in Nat

RestTyped == FilesTyped /\ ModelTyped /\ VerdictsTyped /\ WindowTyped /\ EnvTyped

LEMMA TypeParts == ControlInv /\ LearnInv /\ RestTyped => TypeOK
BY DEF ControlInv, LearnInv, RestTyped, FilesTyped, ModelTyped, VerdictsTyped, WindowTyped,
       EnvTyped, TypeOK

\* A window keeps its length, and holds what was put into it.
LEMMA SlideTyped ==
  ASSUME NEW S, NEW w \in Seq(S), NEW x \in S
  PROVE  Slide(w, PoolWindow, x) \in Seq(S) /\ Len(Slide(w, PoolWindow, x)) <= PoolWindow
<1> DEFINE s == Append(w, x)
           first == IF Len(s) > PoolWindow THEN Len(s) - PoolWindow + 1 ELSE 1
<1>1. s \in Seq(S) /\ Len(s) \in Nat
  BY AppendProperties, LenProperties
<1>2. PoolWindow \in Nat \ {0}
  BY SizesAssumption
<1>3. /\ first \in 1 .. Len(s) + 1 /\ Len(s) - first + 1 <= PoolWindow
      /\ Len(s) \in first - 1 .. Len(s) /\ first <= Len(s) + 1
  BY <1>1, <1>2
<1> HIDE DEF s, first
<1>4. SubSeq(s, first, Len(s)) \in Seq(S)
  BY <1>1, <1>3, SubSeqProperties
<1>5. Len(SubSeq(s, first, Len(s))) = Len(s) - first + 1
  BY <1>1, <1>3, SubSeqProperties
<1>6. Slide(w, PoolWindow, x) = SubSeq(s, first, Len(s))
  BY DEF Slide, Recent, s, first
<1> QED
  BY ONLY <1>3, <1>4, <1>5, <1>6

LEMMA InitTyped == Init => RestTyped
<1> SUFFICES ASSUME Init  PROVE RestTyped
  OBVIOUS
<1>1. FilesTyped
  BY PatchTyped DEF Init, FilesTyped
<1>2. ModelTyped
  BY SizesAssumption DEF Init, ModelTyped
<1>3. VerdictsTyped
  BY DEF Init, VerdictsTyped, Outcomes, Results, NoCommit
<1>4. WindowTyped
  BY SizesAssumption DEF Init, WindowTyped
<1>5. EnvTyped
  BY DEF Init, EnvTyped
<1> QED
  BY <1>1, <1>2, <1>3, <1>4, <1>5 DEF RestTyped

LEMMA FilesTypedKept == Inv /\ RestTyped /\ [Next]_vars => FilesTyped'
<1> SUFFICES ASSUME Inv, FilesTyped, [Next]_vars  PROVE FilesTyped'
  BY DEF RestTyped
<1>1. ASSUME UNCHANGED <<fileVars, gitVars>>  PROVE FilesTyped'
  BY <1>1 DEF FilesTyped, fileVars, gitVars
<1>2. ASSUME NEW a \in Actors, Sandbox(a)  PROVE FilesTyped'
  <2>1. patch[a] \in Contents /\ Torn \in Contents
    BY DEF Inv, ControlInv, Torn, Patch, Contents
  <2>2. CASE RunTests(a)
    BY <2>1, <2>2 DEF RunTests, FilesTyped, gitVars
  <2>3. CASE ApplyOpens(a) \/ ApplyEnds(a)
    BY <2>1, <2>3 DEF ApplyOpens, ApplyEnds, FilesTyped, gitVars
  <2> QED
    BY <1>1, <1>2, <2>2, <2>3 DEF Sandbox, NewSandbox, ApplyChange, ExecuteCommand, Moves,
       SandboxErrs, ApplyFails, Errs, GivesUp
<1>3. CASE GitAdd \/ GitCommit
  BY <1>3 DEF GitAdd, GitCommit, FilesTyped, fileVars
<1>4. CASE Edit
  BY <1>4 DEF Edit, FilesTyped, gitVars, Patch, Contents
<1>5. ASSUME NEW a \in Actors, Works(a), ~Sandbox(a), ~GitAdd, ~GitCommit
      PROVE  UNCHANGED <<fileVars, gitVars>>
  BY <1>5 DEF Works, Solve, BreakerRefuses, AttemptFails, CallFails, AnswerRefused, Answered,
     GivesUp, Judgement, EvaluateAgent, Update, Schedule, EvaluateCycle, Commits, GitFails
<1>6. ASSUME Next, ~\E a \in Actors : Works(a), ~Edit
      PROVE  UNCHANGED <<fileVars, gitVars>>
  BY <1>6 DEF Next, OpenEnds, Saves, BeginCycle, CycleDisabled, Toggle, AgentEvolve,
     WorkerEvolves, RunAll, RunAllReturns, Kill, Restart
<1> QED
  BY <1>1, <1>2, <1>3, <1>4, <1>5, <1>6 DEF vars

LEMMA ModelTypedKept == Inv /\ RestTyped /\ [Next]_vars => ModelTyped'
<1> SUFFICES ASSUME Inv, ModelTyped, [Next]_vars  PROVE ModelTyped'
  BY DEF RestTyped
<1>1. ASSUME UNCHANGED modelVars  PROVE ModelTyped'
  BY <1>1 DEF ModelTyped, modelVars
<1>2. MaxAttempts \in Nat \ {0} /\ TripAfter \in Nat \ {0}
  BY SizesAssumption
<1>3. ASSUME NEW a \in Actors, Solve(a)  PROVE ModelTyped'
  <2>1. attempt[a] \in 0 .. MaxAttempts - 1
    BY DEF ModelTyped
  <2>2. CASE AttemptFails(a)
    <3>1. attempt[a] + 1 \in 0 .. MaxAttempts - 1
      BY <1>2, <2>1, <2>2 DEF AttemptFails
    <3> QED
      BY <2>2, <3>1 DEF AttemptFails, ModelTyped
  <2>3. CASE CallFails(a) \/ AnswerRefused(a) \/ Answered(a)
    <3>1. attempt' \in [Actors -> 0 .. MaxAttempts - 1]
      BY <1>2, <2>3 DEF CallFails, AnswerRefused, Answered, ModelTyped
    <3>2. ASSUME Fails(a)
          PROVE  /\ failures' \in [Agents -> 0 .. TripAfter - 1]
                 /\ breaker' \in [Agents -> {"closed", "open", "half"}]
      <4>1. CASE a \notin Agents
        BY <3>2, <4>1 DEF Fails, ModelTyped
      <4>2. CASE a \in Agents
        <5> DEFINE trips == breaker[a] = "half" \/ failures[a] + 1 >= TripAfter
        <5>1. failures[a] \in 0 .. TripAfter - 1
          BY <4>2 DEF ModelTyped
        <5>2. (IF trips THEN 0 ELSE failures[a] + 1) \in 0 .. TripAfter - 1
          BY <1>2, <5>1
        <5>3. /\ failures' = [failures EXCEPT ![a] = IF trips THEN 0 ELSE failures[a] + 1]
              /\ breaker' = [breaker EXCEPT ![a] = IF trips THEN "open" ELSE breaker[a]]
          BY <3>2, <4>2 DEF Fails
        <5> HIDE DEF trips
        <5> QED
          BY <4>2, <5>2, <5>3 DEF ModelTyped
      <4> QED
        BY <4>1, <4>2
    <3>3. ASSUME Succeeds(a)
          PROVE  /\ failures' \in [Agents -> 0 .. TripAfter - 1]
                 /\ breaker' \in [Agents -> {"closed", "open", "half"}]
      BY <1>2, <3>3 DEF Succeeds, ModelTyped
    <3> QED
      BY <2>3, <3>1, <3>2, <3>3 DEF CallFails, AnswerRefused, Answered, ModelTyped
  <2>4. CASE BreakerRefuses(a)
    BY <1>1, <2>4 DEF BreakerRefuses
  <2> QED
    BY <1>3, <2>2, <2>3, <2>4 DEF Solve
<1>4. ASSUME NEW a \in Agents, OpenEnds(a)  PROVE ModelTyped'
  BY <1>4 DEF OpenEnds, ModelTyped
<1>5. CASE Kill
  BY <1>2, <1>5 DEF Kill, ModelTyped
<1>6. ASSUME NEW a \in Actors, Works(a), ~Solve(a)  PROVE UNCHANGED modelVars
  <2>1. CASE Sandbox(a)
    BY <2>1 DEF Sandbox, NewSandbox, ApplyChange, ExecuteCommand, Moves, SandboxErrs, RunTests,
                ApplyOpens, ApplyEnds, ApplyFails
  <2>2. CASE Judgement(a)
    BY <2>2 DEF Judgement, EvaluateAgent, Update, Schedule
  <2>3. CASE EvaluateCycle \/ Commits
    BY <2>3 DEF EvaluateCycle, Commits, GitAdd, GitCommit, GitFails
  <2> QED
    BY <1>6, <2>1, <2>2, <2>3 DEF Works
<1>7. ASSUME Next, ~\E a \in Actors : Works(a), ~\E a \in Agents : OpenEnds(a), ~Kill
      PROVE  UNCHANGED modelVars
  BY <1>7 DEF Next, Saves, BeginCycle, CycleDisabled, Toggle, AgentEvolve, WorkerEvolves,
     RunAll, RunAllReturns, Edit, Restart
<1> QED
  BY <1>1, <1>3, <1>4, <1>5, <1>6, <1>7 DEF vars

LEMMA VerdictsTypedKept == Inv /\ RestTyped /\ [Next]_vars => VerdictsTyped'
<1> SUFFICES ASSUME VerdictsTyped, [Next]_vars  PROVE VerdictsTyped'
  BY DEF RestTyped
<1>1. ASSUME UNCHANGED <<outcome, accepted, results, report>>  PROVE VerdictsTyped'
  BY <1>1 DEF VerdictsTyped
<1>2. ASSUME NEW a \in Actors, GivesUp(a)  PROVE VerdictsTyped'
  BY <1>2 DEF GivesUp, Leaves, VerdictsTyped, NoCommit, Outcomes, Results
<1>3. ASSUME NEW a \in Actors, Solve(a)  PROVE VerdictsTyped'
  <2>1. CASE AttemptFails(a)
    BY <1>1, <2>1 DEF AttemptFails, taskVars, outVars
  <2>2. CASE Answered(a)
    BY <2>2 DEF Answered, outVars, VerdictsTyped, Outcomes
  <2> QED
    BY <1>2, <1>3, <2>1, <2>2 DEF Solve, BreakerRefuses, CallFails, AnswerRefused
<1>4. ASSUME NEW a \in Actors, Sandbox(a)  PROVE VerdictsTyped'
  <2>1. ASSUME NEW o \in Outcomes, outcome' = [outcome EXCEPT ![a] = o],
               UNCHANGED <<accepted, outVars>>
        PROVE  VerdictsTyped'
    BY <2>1 DEF VerdictsTyped, outVars
  <2>2. CASE SandboxErrs(a) \/ ApplyFails(a)
    BY <1>2, <2>1, <2>2 DEF SandboxErrs, ApplyFails, Errs, Outcomes
  <2>3. CASE RunTests(a)
    BY <2>1, <2>3 DEF RunTests, Outcomes
  <2>4. CASE NewSandbox(a) \/ ApplyChange(a) \/ ExecuteCommand(a) \/ ApplyOpens(a) \/ ApplyEnds(a)
    BY <1>1, <2>4 DEF NewSandbox, ApplyChange, ExecuteCommand, Moves, ApplyOpens, ApplyEnds,
                      taskVars, outVars
  <2> QED
    BY <1>4, <2>2, <2>3, <2>4 DEF Sandbox
<1>5. ASSUME NEW a \in Actors, Update(a) \/ Schedule(a)  PROVE VerdictsTyped'
  <2>1. CASE Update(a)
    BY <2>1 DEF Update, Leaves, taskVars, VerdictsTyped, Outcomes, Results
  <2>2. CASE Schedule(a)
    <3>1. results' = results /\ report' \in {report, NoCommit}
      BY <2>2 DEF Schedule
    <3>2. \/ UNCHANGED <<outcome, accepted>>
          \/ /\ outcome' = [outcome EXCEPT ![a] = "none"]
             /\ accepted' = [accepted EXCEPT ![a] = FALSE]
      BY <2>2 DEF Schedule, Leaves, taskVars
    <3>3. NoCommit \in [committed : BOOLEAN, tested : BOOLEAN]
      BY DEF NoCommit
    <3>4. results' \in [Agents -> Results] /\ report' \in [committed : BOOLEAN, tested : BOOLEAN]
      BY <3>1, <3>3 DEF VerdictsTyped
    <3>5. outcome' \in [Actors -> Outcomes] /\ accepted' \in [Actors -> BOOLEAN]
      BY <3>2 DEF VerdictsTyped, Outcomes
    <3> QED
      BY <3>4, <3>5 DEF VerdictsTyped
  <2> QED
    BY <1>5, <2>1, <2>2
<1>6. ASSUME NEW a \in Actors, NEW chosen, NEW accepts \in BOOLEAN, Decides(a, chosen, accepts),
             UNCHANGED <<outcome, outVars>>
      PROVE  VerdictsTyped'
  BY <1>6 DEF Decides, outVars, VerdictsTyped
<1>7. ASSUME NEW a \in Actors, EvaluateAgent(a)  PROVE VerdictsTyped'
  <2>1. UNCHANGED <<outcome, outVars>>
    BY <1>7 DEF EvaluateAgent, outVars
  <2>2. \A candidate \in {0, Confidence} : (candidate >= 50) \in BOOLEAN
    OBVIOUS
  <2>3. \/ \E candidate \in {0, Confidence} : Decides(a, a, candidate >= 50)
        \/ accepted' = accepted
    BY <1>7 DEF EvaluateAgent
  <2> QED
    BY <1>1, <1>6, <2>1, <2>2, <2>3 DEF outVars
<1>8. CASE EvaluateCycle
  <2>1. "request" \in Actors
    BY ActorNames
  <2>2. CASE GivesUp("request")
    BY <1>2, <2>1, <2>2
  <2>3. CASE ~GivesUp("request")
    <3>1. PICK chosen, verdict :
            /\ Decides("request", chosen, verdict = "accepted")
            /\ UNCHANGED <<outcome, outVars>>
      BY <1>8, <2>3 DEF EvaluateCycle
    <3>2. (verdict = "accepted") \in BOOLEAN
      OBVIOUS
    <3> QED
      BY <1>6, <2>1, <3>1, <3>2
  <2> QED
    BY <2>2, <2>3
<1>9. CASE Commits
  <2>1. "request" \in Actors
    BY ActorNames
  <2>2. CASE GitAdd
    BY <1>1, <2>2 DEF GitAdd, taskVars, outVars
  <2>3. CASE GitCommit
    BY <2>3 DEF GitCommit, Leaves, VerdictsTyped, Outcomes
  <2> QED
    BY <1>2, <1>9, <2>1, <2>2, <2>3 DEF Commits, GitFails
<1>10. CASE AgentEvolve
  BY <1>6, <1>10, ActorNames DEF AgentEvolve
<1>11. CASE WorkerEvolves
  BY <1>1, <1>6, <1>11, ActorNames DEF WorkerEvolves, outVars
<1>12. CASE CycleDisabled
  BY <1>12 DEF CycleDisabled, taskVars, VerdictsTyped, NoCommit
<1>13. CASE RunAll
  BY <1>13 DEF RunAll, taskVars, VerdictsTyped, Results
<1>14. CASE Kill
  BY <1>14 DEF Kill, outVars, VerdictsTyped, Outcomes
<1>15. CASE BeginCycle \/ Toggle \/ RunAllReturns \/ Saves \/ Edit \/ Restart
            \/ \E a \in Agents : OpenEnds(a)
  BY <1>1, <1>15 DEF BeginCycle, Toggle, RunAllReturns, Saves, Edit, Restart, OpenEnds,
                     taskVars, outVars
<1>16. CASE UNCHANGED vars
  BY <1>1, <1>16 DEF vars, taskVars, outVars
<1>17. ASSUME NEW a \in Actors, Works(a)  PROVE VerdictsTyped'
  BY <1>3, <1>4, <1>5, <1>7, <1>8, <1>9, <1>17 DEF Works, Judgement
<1> QED
  BY <1>10, <1>11, <1>12, <1>13, <1>14, <1>15, <1>16, <1>17 DEF Next

\* Only the judgement of the pool slides its window, twice in a step.
LEMMA WindowTypedKept == RestTyped /\ [Next]_vars => WindowTyped'
<1> SUFFICES ASSUME WindowTyped, [Next]_vars  PROVE WindowTyped'
  BY DEF RestTyped
<1>1. ASSUME window' = window  PROVE WindowTyped'
  BY <1>1 DEF WindowTyped
<1>2. ASSUME NEW a \in Actors, EvaluateAgent(a)  PROVE WindowTyped'
  <2>1. PICK twice \in {0, 120} :
          window' = Slide(Slide(window, PoolWindow, twice), PoolWindow, twice)
    <3>1. 2 * 0 \in {0, 120} /\ 2 * Confidence \in {0, 120}
      BY DEF Confidence
    <3> QED
      BY <1>2, <3>1 DEF EvaluateAgent
  <2>2. Slide(window, PoolWindow, twice) \in Seq({0, 120})
    BY SlideTyped DEF WindowTyped
  <2> QED
    BY <2>1, <2>2, SlideTyped DEF WindowTyped
<1>3. ASSUME NEW a \in Actors, Works(a), ~EvaluateAgent(a)  PROVE window' = window
  <2>1. ASSUME NEW b \in Actors, GivesUp(b)  PROVE window' = window
    BY <2>1 DEF GivesUp, learnVars
  <2>2. CASE Solve(a)
    BY <2>1, <2>2 DEF Solve, BreakerRefuses, AttemptFails, CallFails, AnswerRefused, Answered,
                      learnVars
  <2>3. CASE Sandbox(a)
    BY <2>1, <2>3 DEF Sandbox, NewSandbox, ApplyChange, ExecuteCommand, Moves, SandboxErrs,
                      RunTests, ApplyOpens, ApplyEnds, ApplyFails, Errs, learnVars
  <2>4. CASE Update(a) \/ Schedule(a)
    BY <2>4 DEF Update, Schedule, learnVars
  <2>5. CASE EvaluateCycle \/ Commits
    BY <2>1, <2>5, ActorNames DEF EvaluateCycle, Commits, GitAdd, GitCommit, GitFails, learnVars
  <2> QED
    BY <1>3, <2>2, <2>3, <2>4, <2>5 DEF Works, Judgement
<1>4. ASSUME Next, ~\E a \in Actors : Works(a)  PROVE window' = window
  BY <1>4 DEF Next, OpenEnds, Saves, BeginCycle, CycleDisabled, Toggle, AgentEvolve,
     WorkerEvolves, RunAll, RunAllReturns, Edit, Kill, Restart, learnVars
<1> QED
  BY <1>1, <1>2, <1>3, <1>4 DEF vars, learnVars

LEMMA EnvTypedKept == RestTyped /\ [Next]_vars => EnvTyped'
<1> SUFFICES ASSUME EnvTyped, [Next]_vars  PROVE EnvTyped'
  BY DEF RestTyped
<1>1. ASSUME UNCHANGED envVars  PROVE EnvTyped'
  BY <1>1 DEF EnvTyped, envVars
<1>2. ASSUME NEW a \in Actors, EvaluateAgent(a)  PROVE EnvTyped'
  BY <1>2 DEF EvaluateAgent, EnvTyped
<1>3. ASSUME NEW a \in Actors, Works(a), ~EvaluateAgent(a)  PROVE UNCHANGED envVars
  <2>1. ASSUME NEW b \in Actors, GivesUp(b)  PROVE UNCHANGED envVars
    BY <2>1 DEF GivesUp
  <2>2. CASE Solve(a)
    BY <2>1, <2>2 DEF Solve, BreakerRefuses, AttemptFails, CallFails, AnswerRefused, Answered
  <2>3. CASE Sandbox(a)
    BY <2>1, <2>3 DEF Sandbox, NewSandbox, ApplyChange, ExecuteCommand, Moves, SandboxErrs,
                      RunTests, ApplyOpens, ApplyEnds, ApplyFails, Errs
  <2>4. CASE Update(a) \/ Schedule(a)
    BY <2>4 DEF Update, Schedule
  <2>5. CASE EvaluateCycle \/ Commits
    BY <2>1, <2>5, ActorNames DEF EvaluateCycle, Commits, GitAdd, GitCommit, GitFails
  <2> QED
    BY <1>3, <2>2, <2>3, <2>4, <2>5 DEF Works, Judgement
<1>4. CASE BeginCycle \/ Toggle \/ AgentEvolve \/ RunAll \/ Restart
  <2>1. UNCHANGED <<wiring, events, kills>>
    BY <1>4 DEF BeginCycle, Toggle, AgentEvolve, RunAll, Restart
  <2>2. alive' \in {alive, TRUE}
    BY <1>4 DEF BeginCycle, Toggle, AgentEvolve, RunAll, Restart
  <2>3. enabled' \in BOOLEAN
    BY <1>4 DEF BeginCycle, Toggle, AgentEvolve, RunAll, Restart, EnvTyped
  <2> QED
    BY <2>1, <2>2, <2>3 DEF EnvTyped
<1>5. CASE WorkerEvolves
  <2>1. events' = events + 1 /\ UNCHANGED <<wiring, alive, enabled, kills>>
    BY <1>5 DEF WorkerEvolves
  <2> QED
    BY <2>1 DEF EnvTyped
<1>6. CASE Kill
  <2>1. alive' = FALSE /\ UNCHANGED <<wiring, enabled, events>>
    BY <1>6 DEF Kill
  <2>2. kills' = kills + 1
    BY <1>6 DEF Kill
  <2>3. kills' \in Nat
    BY ONLY <2>2, EnvTyped DEF EnvTyped
  <2>4. alive' \in BOOLEAN
    BY <2>1
  <2> QED
    BY ONLY <2>1, <2>3, <2>4, EnvTyped DEF EnvTyped
<1>7. CASE CycleDisabled \/ RunAllReturns \/ Saves \/ Edit \/ \E a \in Agents : OpenEnds(a)
  BY <1>1, <1>7 DEF CycleDisabled, RunAllReturns, Saves, Edit, OpenEnds
<1> QED
  BY <1>1, <1>2, <1>3, <1>4, <1>5, <1>6, <1>7 DEF Next, vars

LEMMA NextTyped == Inv /\ RestTyped /\ [Next]_vars => RestTyped'
BY FilesTypedKept, ModelTypedKept, VerdictsTypedKept, WindowTypedKept, EnvTypedKept DEF RestTyped

-----------------------------------------------------------------------------
(* The theorems *)

\* The invariant holds in every state of every program.
THEOREM Inductive == Spec => []Inv
<1>1. Init => Inv
  BY InitInv
<1>2. Inv /\ [Next]_vars => Inv'
  BY NextInv
<1> QED
  BY <1>1, <1>2, PTL DEF Spec

\* Whoever runs in parallel, whatever fails and whenever the process is killed: only what
\* the developer wrote, what passed in a sandbox, or a write cut short is in the real file,
\* in the index, in the last commit.
THEOREM TestedOnly == Spec => []OnlyTestedPersists
<1>1. Inv => OnlyTestedPersists
  BY DEF Inv, FileInv
<1> QED
  BY <1>1, Inductive, PTL

\* No update of the bandit slips through between a save and the flag that asks for the
\* next one.
THEOREM SaveFollows == Spec => []NoUpdateUnsaved
<1>1. Inv => NoUpdateUnsaved
  BY DEF Inv, SaveInv
<1> QED
  BY <1>1, Inductive, PTL

\* Whatever runs in parallel, is refused or rolled back, and whenever the service is killed:
\* the sum of the pulls is what was loaded and what was decided, but for the decisions the
\* bandit is about to be told of.
THEOREM LearnsOnce == Spec => []PullsMatchDecisions
<1>1. Init => LearnInv
  BY InitLearn
<1>2. Inv /\ LearnInv /\ [Next]_vars => LearnInv'
  BY NextLearns
<1>3. LearnInv => PullsMatchDecisions
  BY DEF LearnInv
<1> QED
  BY <1>1, <1>2, <1>3, Inductive, PTL DEF Spec

\* Every variable keeps its type: the attempts of a call below their limit, the failures
\* below the count that opens the breaker, the window of the pool below its size.
THEOREM TypeCorrect == Spec => []TypeOK
<1>1. Init => LearnInv /\ RestTyped
  BY InitLearn, InitTyped
<1>2. Inv /\ LearnInv /\ RestTyped /\ [Next]_vars => LearnInv' /\ RestTyped'
  BY NextLearns, NextTyped
<1>3. Inv /\ LearnInv /\ RestTyped => TypeOK
  BY TypeParts DEF Inv
<1> QED
  BY <1>1, <1>2, <1>3, Inductive, PTL DEF Spec

================================================================================
