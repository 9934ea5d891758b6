----------------------------- MODULE EventWorker -----------------------------
(***************************************************************************)
(* The persistent queue of the evolution API and the goroutine that drains *)
(* it: EventQueue (event_queue.go), Worker (worker.go) and the handler of  *)
(* POST /evolve that feeds them, with short writes, failed reads, a failed *)
(* Evolve, and a killed process started again.                             *)
(*                                                                         *)
(* A queued event is known by its position in event_queue.log; the chunk   *)
(* there is its ID.  Evolve itself is the module EvolutionLoop: here it    *)
(* either appends its decision to evolution.log or returns an error.       *)
(***************************************************************************)
EXTENDS JsonLines

CONSTANTS
  Ids,         \* what generateID may return
  Retention,   \* maxProcessedRetention (500)
  Threshold,   \* processedCleanupThreshold (1000)
  MaxChunks,   \* bound: writes to the queue file
  MaxCrashes,  \* bound: kills of the process
  MaxFaults    \* bound: failed system calls on the queue file

ASSUME IdsAssumption == Torn \notin Ids
ASSUME RetentionAssumption == Retention \in Nat
ASSUME ThresholdAssumption == Threshold \in Nat \ {0}

VARIABLES
  file,          \* event_queue.log
  acked,         \* ghost: the positions whose Enqueue returned nil (HTTP 202)
  offset,        \* EventQueue.offset, in chunks
  pc,            \* where the worker goroutine is
  batch,         \* the events the range loop has still to visit
  cur,           \* the event in process(), 0 if none
  processed,     \* Worker.processed
  processedOrd,  \* Worker.processedOrd
  processedCnt,  \* Worker.processedCnt
  decisions,     \* evolution.log, as the queue positions the decisions are about
  base,          \* ghost: how many of the decisions precede this life of the process
  handled,       \* ghost: the events visited in this life
  lost,          \* ghost: the events a failed read dropped in this life
  crashes,
  faults

queueVars == <<file, acked, offset>>
dedupVars == <<processed, processedOrd, processedCnt>>
ghostVars == <<base, handled, lost>>
boundVars == <<crashes, faults>>
vars == <<queueVars, pc, batch, cur, dedupVars, decisions, ghostVars, boundVars>>

TypeOK ==
  /\ file \in Seq(Ids \cup {Torn})
  /\ acked \subseteq 1 .. Len(file)
  /\ offset \in 0 .. Len(file)
  /\ pc \in {"loop", "evolving", "decided", "down"}
  /\ batch \subseteq 1 .. offset
  /\ cur \in 0 .. offset
  /\ processed \subseteq Ids
  /\ processedOrd \in Seq(Ids)
  /\ processedCnt \in Nat
  /\ decisions \in Seq(1 .. Len(file))
  /\ base \in 0 .. Len(decisions)
  /\ handled \subseteq 1 .. offset
  /\ lost \subseteq 1 .. offset
  /\ crashes \in Nat
  /\ faults \in Nat

Init ==
  /\ file = << >> /\ acked = {} /\ offset = 0
  /\ pc = "loop" /\ batch = {} /\ cur = 0
  /\ processed = {} /\ processedOrd = << >> /\ processedCnt = 0
  /\ decisions = << >>
  /\ base = 0 /\ handled = {} /\ lost = {}
  /\ crashes = 0 /\ faults = 0

Up == pc # "down"

-----------------------------------------------------------------------------
(* EventQueue.Enqueue, called by enqueueEvolve *)

\* Mutant of Enqueue: the shared descriptor's position, moved by the write, is
\* taken for the read offset.
EnqueueMovesOffset(id) ==
  /\ Up /\ Len(file) < MaxChunks
  /\ file' = Append(file, id)
  /\ acked' = acked \cup {Len(file) + 1}
  /\ offset' = Len(file) + 1
  /\ UNCHANGED <<pc, batch, cur, dedupVars, decisions, ghostVars, boundVars>>

\* Write and Sync succeed: the client is told that the event is queued.
Enqueue(id) ==
  /\ Up /\ Len(file) < MaxChunks
  /\ file' = Append(file, id)
  /\ acked' = acked \cup {Len(file) + 1}
  /\ UNCHANGED <<offset, pc, batch, cur, dedupVars, decisions, ghostVars, boundVars>>

\* Sync fails, or the process dies between the write and the reply: the line is
\* in the file and nobody was told so.
EnqueueUnacknowledged(id) ==
  /\ Up /\ Len(file) < MaxChunks /\ faults < MaxFaults
  /\ file' = Append(file, id)
  /\ faults' = faults + 1
  /\ UNCHANGED <<acked, offset, pc, batch, cur, dedupVars, decisions, ghostVars, crashes>>

\* Write stops inside the line.
EnqueueShort ==
  /\ Up /\ Len(file) < MaxChunks /\ faults < MaxFaults
  /\ file' = Append(file, Torn)
  /\ faults' = faults + 1
  /\ UNCHANGED <<acked, offset, pc, batch, cur, dedupVars, decisions, ghostVars, crashes>>

-----------------------------------------------------------------------------
(* Worker.Start *)

\* Mutant of OffsetAfterRead: one too far.
OffsetPastEnd == Len(file) + 1

\* ReadFrom leaves the offset at the end of what it has read.
OffsetAfterRead == Len(file)

ReadFrom ==
  /\ pc = "loop" /\ batch = {}
  /\ batch' = Readable(file, offset)
  /\ offset' = OffsetAfterRead
  /\ UNCHANGED <<file, acked, pc, cur, dedupVars, decisions, ghostVars, boundVars>>

\* The scan fails behind chunk k, or inside it, which leaves a rest that does not
\* decode: the offset still moves there, and Start drops the events that came with
\* the error.
ReadFails ==
  /\ pc = "loop" /\ batch = {} /\ faults < MaxFaults
  /\ \E k \in offset .. Len(file) :
       /\ offset' = k
       /\ lost' = lost \cup (Readable(file, offset) \cap 1 .. k)
  /\ faults' = faults + 1
  /\ UNCHANGED <<file, acked, pc, batch, cur, dedupVars, decisions, base, handled, crashes>>

\* Mutant of IsNext: the batch is visited from its end.
IsLast(i) == i \in batch /\ \A j \in batch : j <= i

\* The next event of the range loop.
IsNext(i) == i \in batch /\ \A j \in batch : i <= j

SkipProcessed ==
  /\ pc = "loop"
  /\ \E i \in batch :
       /\ IsNext(i)
       /\ file[i] \in processed
       /\ batch' = batch \ {i}
       /\ handled' = handled \cup {i}
  /\ UNCHANGED <<queueVars, pc, cur, dedupVars, decisions, base, lost, boundVars>>

StartEvolve ==
  /\ pc = "loop"
  /\ \E i \in batch :
       /\ IsNext(i)
       /\ file[i] \notin processed
       /\ cur' = i
       /\ batch' = batch \ {i}
       /\ handled' = handled \cup {i}
  /\ pc' = "evolving"
  /\ UNCHANGED <<queueVars, dedupVars, decisions, base, lost, boundVars>>

\* Mutant of EvolveFails: the failed event goes back to the head of the batch.
EvolveFailsRequeues ==
  /\ pc = "evolving"
  /\ pc' = "loop"
  /\ cur' = 0
  /\ batch' = batch \cup {cur}
  /\ UNCHANGED <<queueVars, dedupVars, decisions, ghostVars, boundVars>>

\* A rollback, or a failed write of the decision: Start goes on with the next
\* event and does not mark this one.
EvolveFails ==
  /\ pc = "evolving"
  /\ pc' = "loop"
  /\ cur' = 0
  /\ UNCHANGED <<queueVars, batch, dedupVars, decisions, ghostVars, boundVars>>

EvolveSucceeds ==
  /\ pc = "evolving"
  /\ decisions' = Append(decisions, cur)
  /\ pc' = "decided"
  /\ UNCHANGED <<queueVars, batch, cur, dedupVars, ghostVars, boundVars>>

-----------------------------------------------------------------------------
(* The dedup memory, with cleanupProcessed *)

\* Mutant of Excess: one entry too many is dropped.
ExcessAndOne(ord) == IF Len(ord) >= Retention THEN Len(ord) - Retention + 1 ELSE 0

\* How many of the oldest entries cleanupProcessed drops from ord.
Excess(ord) == IF Len(ord) > Retention THEN Len(ord) - Retention ELSE 0

\* Mutant of Removed: the loop over toRemove starts at its second entry.
RemovedButFirst(ord, drop) == { ord[k] : k \in 2 .. drop }

\* toRemove: the IDs deleted from the map.
Removed(ord, drop) == { ord[k] : k \in 1 .. drop }

MarkProcessed ==
  LET ord  == Append(processedOrd, file[cur])
      drop == IF processedCnt + 1 >= Threshold THEN Excess(ord) ELSE 0
  IN  /\ pc = "decided"
      /\ processedOrd' = SubSeq(ord, drop + 1, Len(ord))
      /\ processed' = (processed \cup {file[cur]}) \ Removed(ord, drop)
      /\ processedCnt' = IF processedCnt + 1 >= Threshold THEN 0 ELSE processedCnt + 1
      /\ pc' = "loop"
      /\ cur' = 0
      /\ UNCHANGED <<queueVars, batch, decisions, ghostVars, boundVars>>

-----------------------------------------------------------------------------
(* The process *)

\* The files survive; the offset, the batch and the dedup memory do not.
Crash ==
  /\ Up /\ crashes < MaxCrashes
  /\ crashes' = crashes + 1
  /\ pc' = "down"
  /\ offset' = 0 /\ batch' = {} /\ cur' = 0
  /\ processed' = {} /\ processedOrd' = << >> /\ processedCnt' = 0
  /\ base' = Len(decisions) /\ handled' = {} /\ lost' = {}
  /\ UNCHANGED <<file, acked, decisions, faults>>

\* main: NewEventQueue starts at offset 0, NewWorker with an empty memory.
Restart ==
  /\ pc = "down"
  /\ pc' = "loop"
  /\ UNCHANGED <<queueVars, batch, cur, dedupVars, decisions, ghostVars, boundVars>>

-----------------------------------------------------------------------------

Worker ==
  \/ ReadFrom \/ ReadFails
  \/ SkipProcessed \/ StartEvolve
  \/ EvolveFails \/ EvolveSucceeds
  \/ MarkProcessed

Next ==
  \/ \E id \in Ids : Enqueue(id) \/ EnqueueUnacknowledged(id)
  \/ EnqueueShort
  \/ Worker
  \/ Crash
  \/ Restart

Spec == Init /\ [][Next]_vars

\* The goroutine is scheduled, its sleeps end, and systemd restarts a killed
\* service (docs/DEPLOY.md:133).  Nobody is bound to enqueue or to crash.
Fairness == WF_vars(Worker) /\ WF_vars(Restart)

FairSpec == Spec /\ Fairness

-----------------------------------------------------------------------------
(* Properties *)

\* Deduplication works over a sliding window of the last Retention decisions,
\* wherever the cleanup of the memory falls (worker.go:72-78, 110-128): two
\* decisions of one process life about the same ID are more than Retention apart.
DedupWindow ==
  \A a, b \in base + 1 .. Len(decisions) :
    (a < b /\ file[decisions[a]] = file[decisions[b]]) => b - a > Retention

\* The map and the list of the dedup memory hold the same IDs, the list without
\* repetition, and the memory never outgrows Retention + Threshold
\* (worker.go:75-78, 110-128).
DedupMemoryBounded ==
  /\ processed = { processedOrd[k] : k \in 1 .. Len(processedOrd) }
  /\ \A j, k \in 1 .. Len(processedOrd) : processedOrd[j] = processedOrd[k] => j = k
  /\ Len(processedOrd) < Retention + Threshold

\* The reader accounts for every acknowledged event that it has gone past: it is
\* visited, waiting in the batch, or was dropped by a read that failed.  Only an
\* event glued to a torn line may be missing (event_queue.go:104-134).
NoAckedLineSkipped ==
  \A i \in acked :
    (i <= offset /\ ~Glued(file, i)) => i \in handled \cup batch \cup lost

\* Once requests, faults and crashes stop, the worker has visited every event that
\* a client was told is queued, the ones of former process lives included.
Drained ==
  <>[](\A i \in acked : ~Glued(file, i) => i \in handled \cup lost)

\* crash_test.go:51: no double processing after a crash, thanks to idempotence.
\* Every queued event is decided at most once.
NoDoubleProcessing ==
  \A a, b \in DOMAIN decisions : decisions[a] = decisions[b] => a = b

\* The worker implements the ordered delivery of OrderedDelivery.
Cursor == IF Len(decisions) > base THEN decisions[Len(decisions)] ELSE 0

Delivery == INSTANCE OrderedDelivery
              WITH size <- Len(file), cursor <- Cursor, out <- decisions

ImplementsDelivery == Delivery!Spec
==============================================================================
