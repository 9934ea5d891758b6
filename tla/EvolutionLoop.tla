---------------------------- MODULE EvolutionLoop ----------------------------
(***************************************************************************)
(* SafeEvolutionLoopV3.Evolve (safe_loop_v3.go) as cmd/evolution-api wires *)
(* it: the evaluator and the stability gate, the write-ahead log, the      *)
(* anti-collapse detector, the rollback decision and the event store; with *)
(* failing writes and a process that is killed and started again, and what *)
(* ReplayEngine.Rebuild makes of the event log.                            *)
(*                                                                         *)
(* Evolve holds the loop's write lock from its first to its last line, so  *)
(* the calls of the worker and of the agents come one after the other.     *)
(* The call in progress shows between its two writes, to evolution.wal and *)
(* to evolution.log.  Calls are numbered over all process lives; the       *)
(* number stands for the scores, the time stamp and the SHA-256 in a line. *)
(***************************************************************************)
EXTENDS JsonLines, StabilityWindow

CONSTANTS
  Candidates,     \* candidate scores
  Weights,        \* user-supplied weights
  DetectorSize,   \* window of the loop's detector, and of the gate's (5)
  LongSize,       \* StabilityGate.maxWindow (10)
  VarianceLimit,  \* variance threshold of both detectors (10)
  MaxCalls,       \* bound: calls of Evolve
  MaxCrashes,     \* bound: kills of the process
  MaxFaults       \* bound: failing writes

ASSUME ScoresAssumption == Candidates \subseteq Nat /\ Weights \subseteq Nat \ {0}
ASSUME WindowsAssumption ==
  DetectorSize \in Nat \ {0} /\ LongSize \in Nat \ {0} /\ VarianceLimit \in Nat \ {0}

VARIABLES
  calls,         \* ghost: for each call of Evolve, its input and its outcome
  up,            \* the process lives
  pending,       \* the call between its two writes, 0 if none
  detector,      \* SafeEvolutionLoopV3.detector.window
  gateDetector,  \* StabilityGate.detector.window
  longWindow,    \* StabilityGate.longWindow
  sequence,      \* SafeEvolutionLoopV3.sequence
  walLast,       \* the last of WAL.entries, 0 if none: the others are never read
  walFile,       \* evolution.wal
  eventFile,     \* evolution.log
  walFailed,     \* ghost: the calls whose WAL.Append returned an error
  born,          \* ghost: the number of calls before this process life
  crashes,
  faults

loopVars == <<detector, gateDetector, longWindow, sequence>>
diskVars == <<walFile, eventFile>>
vars == <<calls, up, pending, loopVars, walLast, diskVars, walFailed, born, crashes, faults>>

Outcomes == {"accepted", "rejected", "rollback", "unstored", "killed"}

Call == [candidate : Candidates, weight : Weights, outcome : Outcomes]
Entry == [op : Nat \ {0}, prev : Nat]
EventLine == [op : Nat \ {0}, seq : Nat \ {0}]

ASSUME TornAssumption == Torn \notin Entry \cup EventLine

ScoreOf(call) == call.candidate * call.weight

TypeOK ==
  /\ calls \in Seq(Call)
  /\ up \in BOOLEAN
  /\ pending \in 0 .. Len(calls)
  /\ detector \in Seq(Nat) /\ Len(detector) <= DetectorSize
  /\ gateDetector \in Seq(Nat)
  /\ longWindow \in Seq(Nat) /\ Len(longWindow) <= LongSize
  /\ sequence \in Nat
  /\ walLast \in 0 .. Len(calls)
  /\ walFile \in Seq(Entry \cup {Torn})
  /\ eventFile \in Seq(EventLine \cup {Torn})
  /\ walFailed \subseteq 1 .. Len(calls)
  /\ born \in 0 .. Len(calls)
  /\ crashes \in Nat
  /\ faults \in Nat

Init ==
  /\ calls = << >> /\ up = TRUE /\ pending = 0
  /\ detector = << >> /\ gateDetector = << >> /\ longWindow = << >> /\ sequence = 0
  /\ walLast = 0 /\ walFile = << >> /\ eventFile = << >>
  /\ walFailed = {} /\ born = 0 /\ crashes = 0 /\ faults = 0

-----------------------------------------------------------------------------
(* The parts that Evolve calls *)

\* Mutant of GateCheck: a score under the threshold returns before it is recorded.
GateCheckEarly(score) ==
  /\ gateDetector' = IF ReachesThreshold(score, longWindow)
                       THEN Slide(gateDetector, DetectorSize, score) ELSE gateDetector
  /\ longWindow' = Slide(longWindow, LongSize, score)

\* StabilityGate.Check, in the order of its lines: both windows take the score,
\* then the verdict is drawn from them.
GateCheck(score) ==
  /\ gateDetector' = Slide(gateDetector, DetectorSize, score)
  /\ longWindow' = Slide(longWindow, LongSize, score)

GateOk(score) ==
  ReachesThreshold(score, longWindow') /\ IsStable(gateDetector', VarianceLimit)

\* Mutant of WalAppend: the line is left to the append that follows.
WalAppendBehind(op) ==
  /\ walLast' = op
  /\ walFile' = IF walLast = 0 THEN walFile
                ELSE Written(walFile, [op |-> walLast, prev |-> walLast - 1])
  /\ UNCHANGED <<walFailed, faults>>

\* WAL.Append: the entry joins the chain in memory, then a line is written and
\* synced.  Evolve logs an error of it and goes on.
WalAppend(op) ==
  LET entry == [op |-> op, prev |-> walLast]
  IN  /\ walLast' = op
      /\ \/ /\ walFile' = Written(walFile, entry)
            /\ UNCHANGED <<walFailed, faults>>
         \/ /\ faults < MaxFaults
            /\ walFile' \in CutShort(walFile)
            /\ walFailed' = walFailed \cup {op}
            /\ faults' = faults + 1

\* The lines of Evolve up to the verdict of the rollback manager, for a call whose
\* outcome will be `outcome` if its decision is written.
Judge(candidate, weight, outcome) ==
  LET op    == Len(calls) + 1
      score == candidate * weight
  IN  /\ up /\ pending = 0 /\ op <= MaxCalls
      /\ GateCheck(score)
      /\ WalAppend(op)
      /\ detector' = Slide(detector, DetectorSize, score)
      /\ calls' = Append(calls, [candidate |-> candidate, weight |-> weight,
                                 outcome |-> outcome])
      /\ UNCHANGED <<up, eventFile, born, crashes>>

-----------------------------------------------------------------------------
(* Evolve *)

\* RollbackIfUnstable: Evolve returns an error.  The WAL entry and the scores in
\* the windows stay; nothing else is written and nothing is restored.
EvolveRollsBack ==
  \E candidate \in Candidates, weight \in Weights :
    /\ Judge(candidate, weight, "rollback")
    /\ IsUnstable(detector', VarianceLimit)
    /\ UNCHANGED <<pending, sequence>>

\* The decision is made; the event is still to be written.  `wins` stands for the
\* evaluator's comparison of the weighted scores.
EvolveDecides ==
  \E candidate \in Candidates, weight \in Weights, wins \in BOOLEAN :
    /\ \E outcome \in {"accepted", "rejected"} :
         /\ Judge(candidate, weight, outcome)
         /\ (outcome = "accepted") = (wins /\ GateOk(candidate * weight))
    /\ ~IsUnstable(detector', VarianceLimit)
    /\ pending' = Len(calls')
    /\ sequence' = sequence + 1

\* EventStore.Append, and Evolve returns nil.
StoreDecision ==
  /\ up /\ pending # 0
  /\ eventFile' = Written(eventFile, [op |-> pending, seq |-> sequence])
  /\ pending' = 0
  /\ UNCHANGED <<calls, up, loopVars, walLast, walFile, walFailed, born, crashes, faults>>

\* EventStore.Append fails, and Evolve returns the error.  The sequence number of
\* the event is spent.
StoreFails ==
  /\ up /\ pending # 0 /\ faults < MaxFaults
  /\ eventFile' \in CutShort(eventFile)
  /\ calls' = [calls EXCEPT ![pending].outcome = "unstored"]
  /\ pending' = 0
  /\ faults' = faults + 1
  /\ UNCHANGED <<up, loopVars, walLast, walFile, walFailed, born, crashes>>

-----------------------------------------------------------------------------
(* The process *)

Crash ==
  /\ up /\ crashes < MaxCrashes
  /\ up' = FALSE
  /\ calls' = IF pending = 0 THEN calls
              ELSE [calls EXCEPT ![pending].outcome = "killed"]
  /\ pending' = 0
  /\ detector' = << >> /\ gateDetector' = << >> /\ longWindow' = << >> /\ sequence' = 0
  /\ walLast' = 0
  /\ born' = Len(calls)
  /\ crashes' = crashes + 1
  /\ UNCHANGED <<diskVars, walFailed, faults>>

\* Mutant of Restart: NewWAL does not load the file.
RestartUnloaded ==
  /\ ~up
  /\ up' = TRUE
  /\ UNCHANGED <<calls, pending, loopVars, walLast, diskVars, walFailed, born, crashes, faults>>

\* buildSafeLoop: NewWAL reloads the entries (loadFromDisk); the windows and the
\* sequence of the new loop start from nothing.
Restart ==
  /\ ~up
  /\ up' = TRUE
  /\ LET loaded == Readable(walFile, 0)
     IN  \/ loaded = {} /\ walLast' = 0
         \/ \E k \in loaded : (\A j \in loaded : j <= k) /\ walLast' = walFile[k].op
  /\ UNCHANGED <<calls, pending, loopVars, diskVars, walFailed, born, crashes, faults>>

Next ==
  \/ EvolveRollsBack \/ EvolveDecides
  \/ StoreDecision \/ StoreFails
  \/ Crash \/ Restart

Spec == Init /\ [][Next]_vars

-----------------------------------------------------------------------------
(* ReplayEngine.Rebuild (replay_engine.go) of what EventStore.LoadAll returns *)

\* Mutant of Rebuild: both windows get the size of the detector's.
RebuildOneSize(events) ==
  LET scores == [k \in DOMAIN events |-> calls[events[k].op].candidate]
  IN  [detector     |-> Recent(scores, DetectorSize),
       gateDetector |-> << >>,
       longWindow   |-> Recent(scores, DetectorSize),
       sequence     |-> IF events = << >> THEN 0 ELSE events[Len(events)].seq]

\* The SystemState of the events, but for what does not change and what is computed from
\* the windows.  No line feeds gate.detector, and the events that Evolve writes leave out
\* the two fields that would let ImportState set it.
Rebuild(events) ==
  LET scores == [k \in DOMAIN events |-> calls[events[k].op].candidate]
  IN  [detector     |-> Recent(scores, DetectorSize),
       gateDetector |-> << >>,
       longWindow   |-> Recent(scores, LongSize),
       sequence     |-> IF events = << >> THEN 0 ELSE events[Len(events)].seq]

\* The same fields of the loop that runs.
Live == [detector |-> detector, gateDetector |-> gateDetector, longWindow |-> longWindow,
         sequence |-> sequence]

-----------------------------------------------------------------------------
(* Properties *)

\* The gate's own detector and the loop's are fed by different lines
\* (stability_gate.go:45, safe_loop_v3.go:78) and yet hold the same scores whatever
\* fails in between, so a decision that is not rolled back is never rejected for
\* the gate's stability clause.
GateInStep == gateDetector = detector

Logged(op) == \E k \in DOMAIN walFile : walFile[k] # Torn /\ walFile[k].op = op

\* Write-ahead: evolution.log is in the order of the calls, and each of its lines
\* has its entry in evolution.wal unless the WAL write of that very call failed
\* (safe_loop_v3.go:73-110).
WriteAhead ==
  /\ \A i, j \in DOMAIN eventFile :
       (i < j /\ eventFile[i] # Torn /\ eventFile[j] # Torn)
         => eventFile[i].op < eventFile[j].op
  /\ \A i \in DOMAIN eventFile :
       eventFile[i] # Torn => Logged(eventFile[i].op) \/ eventFile[i].op \in walFailed

\* The chain of the entries a restart would load points from each entry to the
\* one before it or to one that is gone: it reports no loss that did not happen.
\* And an entry of this process life names the very call before it, so that a
\* missing line breaks the chain (wal.go:66-89, 100-125).  A restart mends it.
ChainMarksLosses ==
  LET loaded == Decoded(walFile)
      present == { loaded[k].op : k \in DOMAIN loaded }
  IN  \A k \in DOMAIN loaded :
        LET before == IF k = 1 THEN 0 ELSE loaded[k - 1].op
        IN  /\ \/ loaded[k].prev = before
               \/ loaded[k].prev \in before + 1 .. loaded[k].op - 1 \ present
            /\ loaded[k].op > born + 1 => loaded[k].prev = loaded[k].op - 1

\* The events a reader of evolution.log gets.
Events == Decoded(eventFile)

\* The score of call op entered the live windows as Rebuild would have it: in this process
\* life, with weight 1, and its event can be read.
Restorable(op) ==
  /\ op > born
  /\ calls[op].weight = 1
  /\ \E k \in DOMAIN Events : Events[k].op = op

LastCalls(n) == { op \in DOMAIN calls : op > Len(calls) - n }

\* Replay forgets what it gets wrong.  Rolled back, weighted and unstored scores, kills and
\* torn lines make the rebuilt loop differ from the live one, but only until the next
\* window's worth of calls that it can restore: whatever came before them, each window and
\* the sequence number are then the live ones (replay_engine.go:33-62,
\* safe_loop_v3.go:67-112).  Not so the gate's detector, which Rebuild leaves empty.
ReplayCatchesUp ==
  /\ (\A op \in LastCalls(DetectorSize) : Restorable(op))
       => Rebuild(Events).detector = Live.detector
  /\ (\A op \in LastCalls(LongSize) : Restorable(op))
       => Rebuild(Events).longWindow = Live.longWindow
  /\ (\A op \in LastCalls(1) : Restorable(op))
       => Rebuild(Events).sequence = Live.sequence
==============================================================================
