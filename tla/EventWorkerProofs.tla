-------------------------- MODULE EventWorkerProofs --------------------------
(***************************************************************************)
(* Proofs about EventWorker, for every set of IDs, every Retention and     *)
(* Threshold and every bound.                                              *)
(***************************************************************************)
EXTENDS EventWorker, SequenceTheorems, TLAPS

\* What MarkProcessed keeps of the dedup list.
LEMMA DropOldest ==
  ASSUME NEW S, NEW s \in Seq(S), NEW drop \in 0 .. Len(s)
  PROVE  LET t == SubSeq(s, drop + 1, Len(s))
         IN  /\ t \in Seq(S)
             /\ Len(t) = Len(s) - drop
             /\ \A k \in 1 .. Len(t) : t[k] = s[drop + k]
BY SubSeqProperties

\* Appending to a sequence leaves what it holds where it is.
LEMMA AppendKeeps ==
  ASSUME NEW S, NEW s \in Seq(S), NEW x \in S
  PROVE  /\ Append(s, x) \in Seq(S)
         /\ Len(Append(s, x)) = Len(s) + 1
         /\ \A i \in 1 .. Len(s) : Append(s, x)[i] = s[i]
         /\ Append(s, x)[Len(s) + 1] = x
BY AppendProperties

\* A scan finds lines behind its start and within the file.
LEMMA ReadableInRange ==
  ASSUME NEW f \in Seq(Ids \cup {Torn}), NEW from \in 0 .. Len(f)
  PROVE  Readable(f, from) \subseteq from + 1 .. Len(f)
BY DEF Readable

-----------------------------------------------------------------------------
(* The inductive invariant *)

\* The decisions of this process life that the dedup memory has to know: all of
\* them but one that is decided and not marked yet.
Marked == IF pc = "decided" THEN Len(decisions) - 1 ELSE Len(decisions)

\* The program counter, the current event and the batch agree.
ControlInv ==
  /\ pc = "evolving" => cur # 0 /\ file[cur] \in Ids \ processed
  /\ pc = "decided" =>
       /\ cur # 0 /\ file[cur] \in Ids \ processed
       /\ Len(decisions) > base /\ decisions[Len(decisions)] = cur
  /\ pc = "down" => batch = {} /\ processedOrd = << >> /\ base = Len(decisions)
  /\ \A i \in batch \cup acked : file[i] \in Ids

\* The decisions of this life follow the file, and lie behind the current event,
\* which lies behind the batch.
OrderInv ==
  /\ \A a \in base + 1 .. Len(decisions) : decisions[a] \in 1 .. offset
  /\ \A a, b \in base + 1 .. Len(decisions) : a < b => decisions[a] < decisions[b]
  /\ \A a \in base + 1 .. Len(decisions), i \in batch : decisions[a] < i
  /\ pc = "evolving" => \A a \in base + 1 .. Len(decisions) : decisions[a] < cur
  /\ pc \in {"evolving", "decided"} => \A i \in batch : cur < i

\* The dedup list is the tail of the marked decisions, and it is all of them or
\* at least Retention of them.
MemoryInv ==
  /\ Len(processedOrd) <= Marked - base
  /\ Len(processedOrd) = Marked - base \/ Len(processedOrd) >= Retention
  /\ \A k \in 1 .. Len(processedOrd) :
       processedOrd[k] = file[decisions[Marked - Len(processedOrd) + k]]
  /\ processed = { processedOrd[k] : k \in 1 .. Len(processedOrd) }
  /\ \A j, k \in 1 .. Len(processedOrd) : processedOrd[j] = processedOrd[k] => j = k
  /\ Len(processedOrd) <= Retention + processedCnt
  /\ processedCnt < Threshold

IInv ==
  /\ TypeOK
  /\ ControlInv
  /\ OrderInv
  /\ MemoryInv
  /\ DedupWindow
  /\ NoAckedLineSkipped

\* The invariant holds when the process first starts.
LEMMA InitIInv == Init => IInv
<1> SUFFICES ASSUME Init PROVE IInv
  OBVIOUS
<1>1. TypeOK
  BY EmptySeq DEF Init, TypeOK
<1>2. ControlInv /\ OrderInv /\ DedupWindow /\ NoAckedLineSkipped
  BY DEF Init, ControlInv, OrderInv, DedupWindow, NoAckedLineSkipped
<1>3. MemoryInv
  BY RetentionAssumption, ThresholdAssumption DEF Init, MemoryInv, Marked
<1> QED
  BY <1>1, <1>2, <1>3 DEF IInv

-----------------------------------------------------------------------------
(* The writes to the queue: the file grows behind everything that was read *)

\* A write to the queue, complete or not, acknowledged or not, keeps the invariant:
\* it changes nothing at the positions that are acknowledged or decided.
LEMMA FileGrows ==
  ASSUME IInv,
         NEW x \in Ids \cup {Torn},
         file' = Append(file, x),
         acked' \subseteq acked \cup {Len(file) + 1},
         Len(file) + 1 \in acked' => x \in Ids,
         crashes' \in Nat, faults' \in Nat,
         UNCHANGED <<offset, pc, batch, cur, dedupVars, decisions, ghostVars>>
  PROVE  IInv'
<1> USE DEF dedupVars, ghostVars
<1>0. TypeOK /\ ControlInv /\ OrderInv /\ MemoryInv /\ DedupWindow /\ NoAckedLineSkipped
  BY DEF IInv
<1>1. /\ file \in Seq(Ids \cup {Torn})
      /\ file' \in Seq(Ids \cup {Torn})
      /\ Len(file) \in Nat
      /\ Len(file') = Len(file) + 1
      /\ \A i \in 1 .. Len(file) : file'[i] = file[i]
      /\ file'[Len(file) + 1] = x
  BY <1>0, AppendKeeps, LenProperties DEF TypeOK
<1>2. TypeOK'
  <2>1. decisions \in Seq(1 .. Len(file'))
    BY <1>0, <1>1, SeqMonotonic DEF TypeOK
  <2>2. acked' \subseteq 1 .. Len(file') /\ offset' \in 0 .. Len(file')
    <3>1. acked \subseteq 1 .. Len(file) /\ offset \in 0 .. Len(file)
      BY <1>0 DEF TypeOK
    <3> QED
      BY <1>1, <3>1
  <2>3. /\ pc' \in {"loop", "evolving", "decided", "down"}
        /\ batch' \subseteq 1 .. offset' /\ cur' \in 0 .. offset'
        /\ processed' \subseteq Ids /\ processedOrd' \in Seq(Ids) /\ processedCnt' \in Nat
        /\ decisions' \in Seq(1 .. Len(file')) /\ base' \in 0 .. Len(decisions')
        /\ handled' \subseteq 1 .. offset' /\ lost' \subseteq 1 .. offset'
    BY <1>0, <2>1 DEF TypeOK
  <2> QED
    BY <1>1, <2>2, <2>3 DEF TypeOK
<1>3. ControlInv'
  <2>1. \A i \in batch' \cup acked' : file'[i] \in Ids
    BY <1>0, <1>1 DEF ControlInv, TypeOK
  <2>2. cur # 0 => file'[cur] = file[cur]
    BY <1>0, <1>1 DEF TypeOK
  <2> QED
    BY <1>0, <2>1, <2>2 DEF ControlInv
<1>4. OrderInv'
  BY <1>0 DEF OrderInv
<1>5. \A a \in 1 .. Len(decisions) : decisions[a] \in 1 .. Len(file)
  BY <1>0, ElementOfSeq DEF TypeOK
<1>6. MemoryInv'
  <2>1. Marked' = Marked /\ Marked \in Int /\ Marked <= Len(decisions)
    BY <1>0, LenProperties DEF Marked, TypeOK
  <2>2. \A k \in 1 .. Len(processedOrd) :
          processedOrd'[k] = file'[decisions'[Marked' - Len(processedOrd') + k]]
    <3> SUFFICES ASSUME NEW k \in 1 .. Len(processedOrd)
                 PROVE  processedOrd[k] = file'[decisions[Marked - Len(processedOrd) + k]]
      BY <2>1
    <3>1. Len(processedOrd) \in Nat /\ Len(processedOrd) <= Marked - base /\ base \in Nat
      BY <1>0, LenProperties DEF MemoryInv, TypeOK
    <3>2. Len(decisions) \in Nat
      BY <1>0, LenProperties DEF TypeOK
    <3>3. Marked - Len(processedOrd) + k \in 1 .. Len(decisions)
      BY <2>1, <3>1, <3>2
    <3>4. processedOrd[k] = file[decisions[Marked - Len(processedOrd) + k]]
      BY <1>0 DEF MemoryInv
    <3>5. decisions[Marked - Len(processedOrd) + k] \in 1 .. Len(file)
      BY <3>3, <1>5
    <3> QED
      BY <3>4, <3>5, <1>1
  <2>3. processed' = processed /\ processedOrd' = processedOrd /\ processedCnt' = processedCnt
        /\ base' = base
    OBVIOUS
  <2>4. processed' = { processedOrd'[k] : k \in 1 .. Len(processedOrd') }
    BY <1>0, <2>3 DEF MemoryInv
  <2>5. \A j, k \in 1 .. Len(processedOrd') : processedOrd'[j] = processedOrd'[k] => j = k
    BY <1>0, <2>3 DEF MemoryInv
  <2>6. /\ Len(processedOrd') <= Marked' - base'
        /\ Len(processedOrd') = Marked' - base' \/ Len(processedOrd') >= Retention
        /\ Len(processedOrd') <= Retention + processedCnt'
        /\ processedCnt' < Threshold
    BY <1>0, <2>1, <2>3 DEF MemoryInv
  <2>7. \A k \in 1 .. Len(processedOrd') :
          processedOrd'[k] = file'[decisions'[Marked' - Len(processedOrd') + k]]
    BY <2>2, <2>3
  <2> QED
    BY ONLY <2>4, <2>5, <2>6, <2>7 DEF MemoryInv
<1>7. DedupWindow'
  <2>1. \A a \in base + 1 .. Len(decisions) : file'[decisions[a]] = file[decisions[a]]
    BY <1>0, <1>1, <1>5, LenProperties DEF TypeOK
  <2> QED
    BY <1>0, <2>1 DEF DedupWindow
<1>8. NoAckedLineSkipped'
  <2> SUFFICES ASSUME NEW i \in acked', i <= offset, ~Glued(file', i)
               PROVE  i \in handled \cup batch \cup lost
    BY DEF NoAckedLineSkipped
  <2>1. i \in acked /\ i \in 1 .. Len(file)
    BY <1>0, <1>1 DEF TypeOK
  <2>2. ~Glued(file, i)
    BY <1>1, <2>1 DEF Glued
  <2> QED
    BY <1>0, <2>1, <2>2 DEF NoAckedLineSkipped
<1> QED
  BY <1>2, <1>3, <1>4, <1>6, <1>7, <1>8 DEF IInv

-----------------------------------------------------------------------------
(* The steps of the worker that leave the dedup memory and the decisions alone *)

\* Nothing that MemoryInv and DedupWindow speak of changes.
LEMMA MemoryKept ==
  ASSUME MemoryInv, DedupWindow,
         UNCHANGED <<file, decisions, base, processed, processedOrd, processedCnt>>,
         pc # "decided", pc' # "decided"
  PROVE  MemoryInv' /\ DedupWindow'
<1>1. Marked' = Marked
  BY DEF Marked
<1>2. DedupWindow'
  BY DEF DedupWindow
<1>3. processed' = { processedOrd'[k] : k \in 1 .. Len(processedOrd') }
  BY DEF MemoryInv
<1>4. \A k \in 1 .. Len(processedOrd') :
        processedOrd'[k] = file'[decisions'[Marked' - Len(processedOrd') + k]]
  BY <1>1 DEF MemoryInv
<1>5. \A j, k \in 1 .. Len(processedOrd') : processedOrd'[j] = processedOrd'[k] => j = k
  BY DEF MemoryInv
<1>6. /\ Len(processedOrd') <= Marked' - base'
      /\ Len(processedOrd') = Marked' - base' \/ Len(processedOrd') >= Retention
      /\ Len(processedOrd') <= Retention + processedCnt'
      /\ processedCnt' < Threshold
  BY <1>1 DEF MemoryInv
<1>7. MemoryInv'
  BY ONLY <1>3, <1>4, <1>5, <1>6 DEF MemoryInv
<1> QED
  BY <1>2, <1>7

\* A read, complete or failing, keeps the invariant: every line up to the new
\* offset is in the batch or was there before, or is counted as lost.
LEMMA ReadStep ==
  ASSUME IInv, ReadFrom \/ ReadFails
  PROVE  IInv'
<1>0. TypeOK /\ ControlInv /\ OrderInv /\ MemoryInv /\ DedupWindow /\ NoAckedLineSkipped
  BY DEF IInv
<1>1. /\ Len(file) \in Nat /\ offset \in 0 .. Len(file)
      /\ Readable(file, offset) \subseteq offset + 1 .. Len(file)
  BY <1>0, ReadableInRange, LenProperties DEF TypeOK
<1>2. MemoryInv' /\ DedupWindow'
  <2>1. /\ UNCHANGED <<file, decisions, base, processed, processedOrd, processedCnt>>
        /\ pc = "loop" /\ pc' = "loop"
    BY DEF ReadFrom, ReadFails, dedupVars, ghostVars
  <2> QED
    BY ONLY <1>0, <2>1, MemoryKept
<1>3. \A i \in Readable(file, offset) : file[i] \in Ids
  <2>1. \A i \in 1 .. Len(file) : file[i] \in Ids \cup {Torn}
    BY <1>0, ElementOfSeq DEF TypeOK
  <2> QED
    BY <1>1, <2>1 DEF Readable
<1>4. CASE ReadFrom
  <2>1. /\ offset' = Len(file) /\ batch' = Readable(file, offset) /\ pc' = pc /\ pc = "loop"
        /\ UNCHANGED <<file, acked, cur, decisions, base, handled, lost, crashes, faults>>
        /\ UNCHANGED <<processed, processedOrd, processedCnt>>
        /\ batch = {}
    BY <1>4 DEF ReadFrom, OffsetAfterRead, dedupVars, ghostVars, boundVars
  <2>2. TypeOK'
    <3>1. /\ acked' \subseteq 1 .. Len(file') /\ offset' \in 0 .. Len(file')
          /\ batch' \subseteq 1 .. offset' /\ cur' \in 0 .. offset'
          /\ handled' \subseteq 1 .. offset' /\ lost' \subseteq 1 .. offset'
      BY <1>0, <1>1, <2>1 DEF TypeOK
    <3> QED
      BY <1>0, <2>1, <3>1 DEF TypeOK
  <2>3. ControlInv'
    <3>1. \A i \in batch' \cup acked' : file'[i] \in Ids
      BY <1>0, <1>3, <2>1 DEF ControlInv
    <3> QED
      BY <2>1, <3>1 DEF ControlInv
  <2>4. OrderInv'
    BY <1>0, <1>1, <2>1 DEF OrderInv, TypeOK
  <2>5. NoAckedLineSkipped'
    <3> SUFFICES ASSUME NEW i \in acked, i <= Len(file), ~Glued(file, i)
                 PROVE  i \in handled \cup Readable(file, offset) \cup lost
      BY <2>1 DEF NoAckedLineSkipped
    <3>1. CASE i <= offset
      BY <1>0, <2>1, <3>1 DEF NoAckedLineSkipped
    <3>2. CASE i > offset /\ file[i] # Torn
      BY <1>0, <1>1, <3>2 DEF Readable, TypeOK
    <3>3. file[i] # Torn
      BY <1>0, IdsAssumption DEF ControlInv
    <3> QED
      BY <1>0, <1>1, <3>1, <3>2, <3>3 DEF TypeOK
  <2> QED
    BY <1>2, <2>2, <2>3, <2>4, <2>5 DEF IInv
<1>5. CASE ReadFails
  <2>1. PICK k \in offset .. Len(file) :
          /\ offset' = k
          /\ lost' = lost \cup (Readable(file, offset) \cap 1 .. k)
    BY <1>5 DEF ReadFails
  <2>2. /\ pc' = pc /\ pc = "loop" /\ batch' = batch /\ batch = {} /\ faults' = faults + 1
        /\ UNCHANGED <<file, acked, cur, decisions, base, handled, crashes>>
        /\ UNCHANGED <<processed, processedOrd, processedCnt>>
    BY <1>5 DEF ReadFails, dedupVars
  <2>3. TypeOK'
    <3>1. /\ acked' \subseteq 1 .. Len(file') /\ offset' \in 0 .. Len(file')
          /\ batch' \subseteq 1 .. offset' /\ cur' \in 0 .. offset'
          /\ handled' \subseteq 1 .. offset'
      BY <1>0, <1>1, <2>1, <2>2 DEF TypeOK
    <3>2. lost' \subseteq 1 .. offset'
      <4>1. lost \subseteq 1 .. offset
        BY <1>0 DEF TypeOK
      <4>2. 1 .. offset \subseteq 1 .. k
        BY <1>1, <2>1
      <4> QED
        BY <2>1, <4>1, <4>2
    <3>3. faults' \in Nat
      BY <1>0, <2>2 DEF TypeOK
    <3> QED
      BY <1>0, <2>2, <3>1, <3>2, <3>3 DEF TypeOK
  <2>4. ControlInv'
    BY <1>0, <2>2 DEF ControlInv
  <2>5. OrderInv'
    <3>1. \A a \in base + 1 .. Len(decisions) : decisions[a] \in 1 .. offset'
      BY <1>0, <1>1, <2>1 DEF OrderInv
    <3> QED
      BY <1>0, <2>2, <3>1 DEF OrderInv
  <2>6. NoAckedLineSkipped'
    <3> SUFFICES ASSUME NEW i \in acked, i <= offset', ~Glued(file, i)
                 PROVE  i \in handled \cup batch \cup lost'
      BY <2>2 DEF NoAckedLineSkipped
    <3>1. CASE i <= offset
      BY <1>0, <2>1, <3>1 DEF NoAckedLineSkipped
    <3>2. i \in 1 .. Len(file) /\ file[i] # Torn
      BY <1>0, IdsAssumption DEF ControlInv, TypeOK
    <3>3. CASE i > offset
      <4>1. i \in Readable(file, offset)
        BY <1>1, <3>2, <3>3 DEF Readable
      <4> QED
        BY <1>1, <2>1, <3>2, <4>1
    <3> QED
      BY <1>1, <3>1, <3>2, <3>3
  <2> QED
    BY <1>2, <2>3, <2>4, <2>5, <2>6 DEF IInv
<1> QED
  BY <1>4, <1>5

\* Visiting the next event keeps the invariant, whether it is skipped or evolved.
LEMMA VisitStep ==
  ASSUME IInv, SkipProcessed \/ StartEvolve
  PROVE  IInv'
<1>0. TypeOK /\ ControlInv /\ OrderInv /\ MemoryInv /\ DedupWindow /\ NoAckedLineSkipped
  BY DEF IInv
<1>1. PICK i \in batch :
        /\ IsNext(i)
        /\ batch' = batch \ {i}
        /\ handled' = handled \cup {i}
        /\ StartEvolve => cur' = i /\ file[i] \notin processed
  BY DEF SkipProcessed, StartEvolve
<1>2. /\ pc = "loop"
      /\ UNCHANGED <<file, acked, offset, decisions, base, lost, crashes, faults>>
      /\ UNCHANGED <<processed, processedOrd, processedCnt>>
      /\ pc' \in {"loop", "evolving"}
      /\ pc' = "loop" => cur' = cur
      /\ pc' = "evolving" => StartEvolve
  <2>1. CASE SkipProcessed
    <3>1. pc = "loop" /\ pc' = "loop" /\ cur' = cur
      BY <2>1 DEF SkipProcessed
    <3>2. /\ UNCHANGED <<file, acked, offset, decisions, base, lost, crashes, faults>>
          /\ UNCHANGED <<processed, processedOrd, processedCnt>>
      BY <2>1 DEF SkipProcessed, queueVars, dedupVars, boundVars
    <3> QED
      BY <3>1, <3>2
  <2>2. CASE StartEvolve
    <3>1. pc = "loop" /\ pc' = "evolving"
      BY <2>2 DEF StartEvolve
    <3>2. /\ UNCHANGED <<file, acked, offset, decisions, base, lost, crashes, faults>>
          /\ UNCHANGED <<processed, processedOrd, processedCnt>>
      BY <2>2 DEF StartEvolve, queueVars, dedupVars, boundVars
    <3> QED
      BY <2>2, <3>1, <3>2
  <2> QED
    BY <2>1, <2>2
<1>3. MemoryInv' /\ DedupWindow'
  <2>1. pc # "decided" /\ pc' # "decided"
    BY <1>2
  <2>2. UNCHANGED <<file, decisions, base, processed, processedOrd, processedCnt>>
    BY <1>2
  <2> QED
    BY ONLY <1>0, <2>1, <2>2, MemoryKept
<1>4. offset \in Nat /\ batch \subseteq 1 .. offset /\ i \in 1 .. offset
  BY <1>0, <1>1, LenProperties DEF TypeOK
<1>5. TypeOK'
  <2>1. /\ batch' \subseteq 1 .. offset' /\ handled' \subseteq 1 .. offset'
        /\ cur' \in 0 .. offset'
    <3>1. handled \subseteq 1 .. offset /\ cur \in 0 .. offset
      BY <1>0 DEF TypeOK
    <3> QED
      BY <1>1, <1>2, <1>4, <3>1
  <2> QED
    BY <1>0, <1>2, <2>1 DEF TypeOK
<1>6. ControlInv'
  <2>1. \A j \in batch' \cup acked' : file'[j] \in Ids
    BY <1>0, <1>1, <1>2 DEF ControlInv
  <2>2. CASE pc' = "evolving"
    <3>1. StartEvolve
      BY <1>2, <2>2
    <3>2. cur' # 0 /\ file'[cur'] \in Ids \ processed'
      BY <1>0, <1>1, <1>2, <1>4, <3>1 DEF ControlInv
    <3> QED
      BY <2>1, <2>2, <3>2 DEF ControlInv
  <2>3. CASE pc' = "loop"
    BY <2>1, <2>3 DEF ControlInv
  <2> QED
    BY <1>2, <2>2, <2>3
<1>7. OrderInv'
  <2>1. \A j \in batch' : i < j
    BY <1>1, <1>4 DEF IsNext
  <2>2. \A a \in base + 1 .. Len(decisions) : decisions[a] < i
    BY <1>0, <1>1 DEF OrderInv
  <2>3. CASE pc' = "evolving"
    <3>1. cur' = i
      BY <1>1, <1>2, <2>3
    <3> QED
      BY <1>0, <1>1, <1>2, <2>1, <2>2, <2>3, <3>1 DEF OrderInv
  <2>4. CASE pc' = "loop"
    BY <1>0, <1>1, <1>2, <2>4 DEF OrderInv
  <2> QED
    BY <1>2, <2>3, <2>4
<1>8. NoAckedLineSkipped'
  BY <1>0, <1>1, <1>2 DEF NoAckedLineSkipped
<1> QED
  BY <1>3, <1>5, <1>6, <1>7, <1>8 DEF IInv

\* A failed Evolve keeps the invariant.
LEMMA EvolveFailsStep ==
  ASSUME IInv, EvolveFails
  PROVE  IInv'
<1>0. TypeOK /\ ControlInv /\ OrderInv /\ MemoryInv /\ DedupWindow /\ NoAckedLineSkipped
  BY DEF IInv
<1>1. /\ pc = "evolving" /\ pc' = "loop" /\ cur' = 0
      /\ UNCHANGED <<file, acked, offset, batch, decisions, base, handled, lost, crashes, faults>>
      /\ UNCHANGED <<processed, processedOrd, processedCnt>>
  BY DEF EvolveFails, queueVars, dedupVars, ghostVars, boundVars
<1>2. MemoryInv' /\ DedupWindow'
  BY ONLY <1>0, <1>1, MemoryKept
<1>3. TypeOK'
  <2>1. cur' \in 0 .. offset'
    BY <1>0, <1>1, LenProperties DEF TypeOK
  <2> QED
    BY <1>0, <1>1, <2>1 DEF TypeOK
<1>4. ControlInv' /\ OrderInv' /\ NoAckedLineSkipped'
  BY <1>0, <1>1 DEF ControlInv, OrderInv, NoAckedLineSkipped
<1> QED
  BY <1>2, <1>3, <1>4 DEF IInv

-----------------------------------------------------------------------------
(* The steps that decide and that mark *)

\* Every decision of this life that is at most Retention behind is in the dedup
\* memory: this is what the memory is for.
LEMMA RecentAreRemembered ==
  ASSUME TypeOK, MemoryInv, pc # "decided",
         NEW a \in base + 1 .. Len(decisions),
         Len(decisions) + 1 - a <= Retention
  PROVE  file[decisions[a]] \in processed
<1>1. /\ Len(processedOrd) \in Nat /\ Len(decisions) \in Nat /\ base \in Nat
      /\ Retention \in Nat
  BY LenProperties, RetentionAssumption DEF TypeOK
<1>2. Marked = Len(decisions)
  BY DEF Marked
<1> DEFINE k == a - (Len(decisions) - Len(processedOrd))
<1>3. k \in 1 .. Len(processedOrd)
  <2>1. \/ Len(processedOrd) = Len(decisions) - base
        \/ Len(processedOrd) >= Retention
    BY <1>2 DEF MemoryInv
  <2> QED
    BY <1>1, <2>1
<1>4. Len(decisions) - Len(processedOrd) + k = a
  BY <1>1
<1>5. processedOrd[k] = file[decisions[a]]
  BY <1>2, <1>3, <1>4 DEF MemoryInv
<1> QED
  BY <1>3, <1>5 DEF MemoryInv

\* Deciding an event keeps the invariant: its ID is not in the dedup memory.
LEMMA EvolveSucceedsStep ==
  ASSUME IInv, EvolveSucceeds
  PROVE  IInv'
<1>0. TypeOK /\ ControlInv /\ OrderInv /\ MemoryInv /\ DedupWindow /\ NoAckedLineSkipped
  BY DEF IInv
<1>1. pc = "evolving" /\ pc' = "decided" /\ decisions' = Append(decisions, cur)
  BY DEF EvolveSucceeds
<1>2. /\ UNCHANGED <<file, acked, offset, batch, cur, base, handled, lost, crashes, faults>>
      /\ UNCHANGED <<processed, processedOrd, processedCnt>>
  BY DEF EvolveSucceeds, queueVars, dedupVars, ghostVars, boundVars
<1>3. /\ Len(decisions) \in Nat /\ base \in 0 .. Len(decisions)
      /\ offset \in 0 .. Len(file) /\ Len(file) \in Nat
      /\ cur \in 1 .. offset /\ cur \in 1 .. Len(file)
      /\ file[cur] \in Ids \ processed
  BY <1>0, <1>1, LenProperties DEF TypeOK, ControlInv
<1>4. /\ decisions' \in Seq(1 .. Len(file))
      /\ Len(decisions') = Len(decisions) + 1
      /\ \A a \in 1 .. Len(decisions) : decisions'[a] = decisions[a]
      /\ decisions'[Len(decisions) + 1] = cur
  <2>1. decisions \in Seq(1 .. Len(file)) /\ cur \in 1 .. Len(file)
    BY <1>0, <1>3 DEF TypeOK
  <2> QED
    BY <1>1, <2>1, AppendKeeps
<1>5. TypeOK'
  <2>1. base' \in 0 .. Len(decisions')
    BY <1>2, <1>3, <1>4
  <2>2. decisions' \in Seq(1 .. Len(file'))
    BY <1>2, <1>4
  <2> QED
    BY <1>0, <1>1, <1>2, <2>1, <2>2 DEF TypeOK
<1>6. ControlInv'
  <2>1. Len(decisions') > base' /\ decisions'[Len(decisions')] = cur'
    BY <1>2, <1>3, <1>4
  <2>2. cur' # 0 /\ file'[cur'] \in Ids \ processed'
    BY <1>2, <1>3
  <2>3. \A i \in batch' \cup acked' : file'[i] \in Ids
    BY <1>0, <1>2 DEF ControlInv
  <2> QED
    BY <1>1, <2>1, <2>2, <2>3 DEF ControlInv
<1>7. OrderInv'
  <2>1. \A a \in base + 1 .. Len(decisions) : decisions'[a] = decisions[a]
    BY <1>3, <1>4
  <2>2. \A a \in base + 1 .. Len(decisions) :
          decisions[a] \in 1 .. offset /\ decisions[a] < cur
    BY <1>0, <1>1 DEF OrderInv
  <2>3. \A i \in batch : cur < i
    BY <1>0, <1>1 DEF OrderInv
  <2>4. \A a \in base + 1 .. Len(decisions') :
          a = Len(decisions) + 1 \/ a \in base + 1 .. Len(decisions)
    BY <1>3, <1>4
  <2>5. \A a \in base' + 1 .. Len(decisions') : decisions'[a] \in 1 .. offset'
    BY <1>2, <1>3, <1>4, <2>1, <2>2, <2>4
  <2>6. \A a, b \in base' + 1 .. Len(decisions') : a < b => decisions'[a] < decisions'[b]
    <3> SUFFICES ASSUME NEW a \in base + 1 .. Len(decisions'),
                        NEW b \in base + 1 .. Len(decisions'), a < b
                 PROVE  decisions'[a] < decisions'[b]
      BY <1>2
    <3>1. a \in base + 1 .. Len(decisions)
      BY <1>3, <1>4
    <3>2. CASE b = Len(decisions) + 1
      BY <1>4, <2>1, <2>2, <3>1, <3>2
    <3>3. CASE b \in base + 1 .. Len(decisions)
      BY <1>0, <2>1, <3>1, <3>3 DEF OrderInv
    <3> QED
      BY <2>4, <3>2, <3>3
  <2>7. \A a \in base' + 1 .. Len(decisions'), i \in batch' : decisions'[a] < i
    BY <1>0, <1>2, <1>4, <2>1, <2>3, <2>4 DEF OrderInv
  <2>8. pc' # "evolving" /\ \A i \in batch' : cur' < i
    BY <1>1, <1>2, <2>3
  <2> QED
    BY <2>5, <2>6, <2>7, <2>8 DEF OrderInv
<1>8. MemoryInv'
  <2>1. Marked' = Marked /\ Marked = Len(decisions)
    BY <1>1, <1>3, <1>4 DEF Marked
  <2>2. \A k \in 1 .. Len(processedOrd') :
          processedOrd'[k] = file'[decisions'[Marked' - Len(processedOrd') + k]]
    <3> SUFFICES ASSUME NEW k \in 1 .. Len(processedOrd)
                 PROVE  processedOrd[k] = file[decisions'[Marked - Len(processedOrd) + k]]
      BY <1>2, <2>1
    <3>1. Len(processedOrd) \in Nat /\ Len(processedOrd) <= Marked - base
      BY <1>0, LenProperties DEF MemoryInv, TypeOK
    <3>2. Marked - Len(processedOrd) + k \in 1 .. Len(decisions)
      BY <1>3, <2>1, <3>1
    <3> QED
      BY <1>0, <1>4, <3>2 DEF MemoryInv
  <2>3. processed' = { processedOrd'[k] : k \in 1 .. Len(processedOrd') }
    BY <1>0, <1>2 DEF MemoryInv
  <2>4. \A j, k \in 1 .. Len(processedOrd') : processedOrd'[j] = processedOrd'[k] => j = k
    BY <1>0, <1>2 DEF MemoryInv
  <2>5. /\ Len(processedOrd') <= Marked' - base'
        /\ Len(processedOrd') = Marked' - base' \/ Len(processedOrd') >= Retention
        /\ Len(processedOrd') <= Retention + processedCnt'
        /\ processedCnt' < Threshold
    BY <1>0, <1>2, <2>1 DEF MemoryInv
  <2> QED
    BY ONLY <2>2, <2>3, <2>4, <2>5 DEF MemoryInv
<1>9. DedupWindow'
  <2> SUFFICES ASSUME NEW a \in base + 1 .. Len(decisions'),
                      NEW b \in base + 1 .. Len(decisions'),
                      a < b, file[decisions'[a]] = file[decisions'[b]]
               PROVE  b - a > Retention
    BY <1>2 DEF DedupWindow
  <2>1. a \in base + 1 .. Len(decisions) /\ decisions'[a] = decisions[a]
    BY <1>3, <1>4
  <2>2. CASE b \in base + 1 .. Len(decisions)
    <3>1. decisions'[b] = decisions[b]
      BY <1>3, <1>4, <2>2
    <3> QED
      BY <1>0, <2>1, <2>2, <3>1 DEF DedupWindow
  <2>3. CASE b = Len(decisions) + 1
    <3>1. file[decisions[a]] \notin processed
      BY <1>3, <1>4, <2>1, <2>3
    <3>2. ~(Len(decisions) + 1 - a <= Retention)
      BY <1>0, <1>1, <2>1, <3>1, RecentAreRemembered
    <3> QED
      BY <1>3, <2>1, <2>3, <3>2, RetentionAssumption
  <2>4. b = Len(decisions) + 1 \/ b \in base + 1 .. Len(decisions)
    BY <1>3, <1>4
  <2> QED
    BY <2>2, <2>3, <2>4
<1>10. NoAckedLineSkipped'
  BY <1>0, <1>2 DEF NoAckedLineSkipped
<1> QED
  BY <1>5, <1>6, <1>7, <1>8, <1>9, <1>10 DEF IInv

\* Marking an event keeps the invariant, whether or not the memory is cleaned up.
LEMMA MarkStep ==
  ASSUME IInv, MarkProcessed
  PROVE  IInv'
<1> DEFINE ord  == Append(processedOrd, file[cur])
           drop == IF processedCnt + 1 >= Threshold THEN Excess(ord) ELSE 0
           m    == Len(processedOrd) + 1
<1>0. TypeOK /\ ControlInv /\ OrderInv /\ MemoryInv /\ DedupWindow /\ NoAckedLineSkipped
  BY DEF IInv
<1>1. /\ pc = "decided" /\ pc' = "loop" /\ cur' = 0
      /\ processedOrd' = SubSeq(ord, drop + 1, Len(ord))
      /\ processed' = (processed \cup {file[cur]}) \ { ord[k] : k \in 1 .. drop }
      /\ processedCnt' = IF processedCnt + 1 >= Threshold THEN 0 ELSE processedCnt + 1
  BY DEF MarkProcessed, Removed
<1>2. UNCHANGED <<file, acked, offset, batch, decisions, base, handled, lost, crashes, faults>>
  BY DEF MarkProcessed, queueVars, ghostVars, boundVars
<1>3. /\ Len(decisions) \in Nat /\ base \in 0 .. Len(decisions) /\ Len(decisions) > base
      /\ decisions[Len(decisions)] = cur
      /\ file[cur] \in Ids \ processed
      /\ Len(processedOrd) \in Nat /\ processedCnt \in Nat
      /\ Retention \in Nat /\ Threshold \in Nat \ {0}
  BY <1>0, <1>1, LenProperties, RetentionAssumption, ThresholdAssumption DEF TypeOK, ControlInv
<1>4. /\ ord \in Seq(Ids) /\ Len(ord) = m
      /\ \A k \in 1 .. Len(processedOrd) : ord[k] = processedOrd[k]
      /\ ord[m] = file[cur]
  <2>1. processedOrd \in Seq(Ids) /\ file[cur] \in Ids
    BY <1>0, <1>3 DEF TypeOK
  <2> HIDE DEF m
  <2> QED
    BY <2>1, AppendKeeps DEF m
<1>5. /\ drop \in 0 .. Len(ord)
      /\ drop = 0 \/ m - drop = Retention
      /\ processedCnt + 1 >= Threshold => m - drop <= Retention
  BY <1>3, <1>4 DEF Excess
<1> HIDE DEF ord, drop
<1>6. /\ processedOrd' \in Seq(Ids)
      /\ Len(processedOrd') = m - drop
      /\ \A k \in 1 .. m - drop : processedOrd'[k] = ord[drop + k]
  BY <1>1, <1>4, <1>5, DropOldest
<1>7. \A j, k \in 1 .. m : ord[j] = ord[k] => j = k
  <2>1. \A k \in 1 .. Len(processedOrd) : ord[k] # ord[m]
    BY <1>0, <1>3, <1>4 DEF MemoryInv
  <2>2. \A k \in 1 .. m : k = m \/ k \in 1 .. Len(processedOrd)
    BY <1>3
  <2>3. \A j, k \in 1 .. Len(processedOrd) : ord[j] = ord[k] => j = k
    BY <1>0, <1>4 DEF MemoryInv
  <2> QED
    BY <2>1, <2>2, <2>3
<1>8. processed \cup {file[cur]} = { ord[k] : k \in 1 .. m }
  <2>1. processed = { processedOrd[k] : k \in 1 .. Len(processedOrd) }
    BY <1>0 DEF MemoryInv
  <2>2. \A k \in 1 .. m : k = m \/ k \in 1 .. Len(processedOrd)
    BY <1>3
  <2>3. 1 .. Len(processedOrd) \subseteq 1 .. m /\ m \in 1 .. m
    BY <1>3
  <2> HIDE DEF m
  <2> QED
    BY <1>4, <2>1, <2>2, <2>3
<1>9. processed' = { processedOrd'[k] : k \in 1 .. Len(processedOrd') }
  <2>1. processed' = { ord[k] : k \in 1 .. m } \ { ord[k] : k \in 1 .. drop }
    BY <1>1, <1>8
  <2>2. ASSUME NEW x \in processed' PROVE x \in { processedOrd'[k] : k \in 1 .. m - drop }
    <3>1. PICK k \in 1 .. m : x = ord[k]
      BY <2>1
    <3>2. k \notin 1 .. drop
      BY <2>1, <3>1
    <3>3. k - drop \in 1 .. m - drop /\ drop + (k - drop) = k
      BY <1>3, <1>4, <1>5, <3>2
    <3> QED
      BY <1>6, <3>1, <3>3
  <2>3. ASSUME NEW x \in { processedOrd'[k] : k \in 1 .. m - drop } PROVE x \in processed'
    <3>1. PICK k \in 1 .. m - drop : x = ord[drop + k]
      BY <1>6
    <3>2. drop + k \in 1 .. m /\ 1 .. drop \subseteq 1 .. m /\ drop + k \notin 1 .. drop
      BY <1>3, <1>4, <1>5
    <3>3. \A j \in 1 .. drop : ord[j] # x
      BY <1>7, <3>1, <3>2
    <3> QED
      BY <2>1, <3>1, <3>2, <3>3
  <2> QED
    BY <1>6, <2>2, <2>3
<1>10. \A j, k \in 1 .. Len(processedOrd') : processedOrd'[j] = processedOrd'[k] => j = k
  <2> SUFFICES ASSUME NEW j \in 1 .. m - drop, NEW k \in 1 .. m - drop,
                      ord[drop + j] = ord[drop + k]
               PROVE  j = k
    BY <1>6
  <2>1. drop + j \in 1 .. m /\ drop + k \in 1 .. m
    BY <1>3, <1>4, <1>5
  <2>2. drop + j = drop + k
    BY <1>7, <2>1
  <2> QED
    BY <1>4, <1>5, <1>3, <2>2
<1>11. Marked' = Len(decisions) /\ Marked = Len(decisions) - 1
  BY <1>1, <1>2 DEF Marked
<1>12. /\ Len(processedOrd') <= Marked' - base'
       /\ Len(processedOrd') = Marked' - base' \/ Len(processedOrd') >= Retention
       /\ Len(processedOrd') <= Retention + processedCnt'
       /\ processedCnt' < Threshold
  <2>1. /\ Len(processedOrd) <= Len(decisions) - 1 - base
        /\ \/ Len(processedOrd) = Len(decisions) - 1 - base
           \/ Len(processedOrd) >= Retention
        /\ Len(processedOrd) <= Retention + processedCnt
        /\ processedCnt < Threshold
    BY <1>0, <1>11 DEF MemoryInv
  <2>2. drop \in Nat /\ Len(processedOrd') = Len(processedOrd) + 1 - drop
    BY <1>4, <1>3, <1>5, <1>6
  <2>3. processedCnt + 1 >= Threshold => processedCnt' = 0
    BY <1>1
  <2>4. ~(processedCnt + 1 >= Threshold) => drop = 0 /\ processedCnt' = processedCnt + 1
    BY <1>1 DEF drop
  <2>5. base' = base
    BY <1>2
  <2> QED
    BY <1>3, <1>5, <1>11, <2>1, <2>2, <2>3, <2>4, <2>5
<1>13. \A k \in 1 .. Len(processedOrd') :
         processedOrd'[k] = file'[decisions'[Marked' - Len(processedOrd') + k]]
  <2> SUFFICES ASSUME NEW k \in 1 .. m - drop
               PROVE  ord[drop + k] = file[decisions[Len(decisions) - (m - drop) + k]]
    BY <1>2, <1>6, <1>11
  <2>1. Len(decisions) - (m - drop) + k = Marked - Len(processedOrd) + (drop + k)
    BY <1>3, <1>4, <1>5, <1>11
  <2>2. CASE drop + k = m
    <3>1. Len(decisions) - (m - drop) + k = Len(decisions)
      BY <1>3, <1>4, <1>5, <2>2
    <3> QED
      BY <1>3, <1>4, <2>2, <3>1
  <2>3. CASE drop + k # m
    <3>1. drop + k \in 1 .. Len(processedOrd)
      BY <1>3, <1>4, <1>5, <2>3
    <3>2. ord[drop + k] = processedOrd[drop + k]
      BY <1>4, <3>1
    <3>3. processedOrd[drop + k] = file[decisions[Marked - Len(processedOrd) + (drop + k)]]
      BY <1>0, <3>1 DEF MemoryInv
    <3> QED
      BY <2>1, <3>2, <3>3
  <2> QED
    BY <2>2, <2>3
<1>14. MemoryInv'
  BY ONLY <1>9, <1>10, <1>12, <1>13 DEF MemoryInv
<1>15. TypeOK'
  <2>1. processed' \subseteq Ids /\ processedCnt' \in Nat
    BY <1>0, <1>1, <1>3 DEF TypeOK
  <2>2. cur' \in 0 .. offset'
    BY <1>0, <1>1, <1>2, LenProperties DEF TypeOK
  <2> QED
    BY <1>0, <1>1, <1>2, <1>6, <2>1, <2>2 DEF TypeOK
<1>16. ControlInv' /\ OrderInv' /\ NoAckedLineSkipped' /\ DedupWindow'
  BY <1>0, <1>1, <1>2 DEF ControlInv, OrderInv, NoAckedLineSkipped, DedupWindow
<1> QED
  BY <1>14, <1>15, <1>16 DEF IInv

-----------------------------------------------------------------------------
(* The process, and the whole next-state relation *)

\* A kill empties the memory and closes this life's decisions.
LEMMA CrashStep ==
  ASSUME IInv, Crash
  PROVE  IInv'
<1>0. TypeOK /\ ControlInv
  BY DEF IInv
<1>1. /\ crashes' = crashes + 1 /\ pc' = "down"
      /\ offset' = 0 /\ batch' = {} /\ cur' = 0
      /\ processed' = {} /\ processedOrd' = << >> /\ processedCnt' = 0
      /\ base' = Len(decisions) /\ handled' = {} /\ lost' = {}
      /\ UNCHANGED <<file, acked, decisions, faults>>
  BY DEF Crash
<1>2. Len(decisions) \in Nat /\ Len(file) \in Nat /\ acked \subseteq 1 .. Len(file)
  BY <1>0, LenProperties DEF TypeOK
<1>3. TypeOK'
  <2>1. base' \in 0 .. Len(decisions') /\ offset' \in 0 .. Len(file')
    BY <1>1, <1>2
  <2>2. processedOrd' \in Seq(Ids)
    BY <1>1, EmptySeq
  <2>3. crashes' \in Nat
    BY <1>0, <1>1 DEF TypeOK
  <2> QED
    BY <1>0, <1>1, <2>1, <2>2, <2>3 DEF TypeOK
<1>4. ControlInv'
  <2>1. \A i \in batch' \cup acked' : file'[i] \in Ids
    BY <1>0, <1>1 DEF ControlInv
  <2> QED
    BY <1>1, <2>1 DEF ControlInv
<1>5. OrderInv' /\ DedupWindow'
  BY <1>1, <1>2 DEF OrderInv, DedupWindow
<1>6. MemoryInv'
  <2>1. Marked' = Len(decisions) /\ Len(processedOrd') = 0
    BY <1>1 DEF Marked
  <2> QED
    BY <1>1, <1>2, <2>1, RetentionAssumption, ThresholdAssumption DEF MemoryInv
<1>7. NoAckedLineSkipped'
  BY <1>1, <1>2 DEF NoAckedLineSkipped
<1> QED
  BY <1>3, <1>4, <1>5, <1>6, <1>7 DEF IInv

\* A restart changes the program counter alone.
LEMMA RestartStep ==
  ASSUME IInv, Restart
  PROVE  IInv'
<1>0. TypeOK /\ ControlInv /\ OrderInv /\ MemoryInv /\ DedupWindow /\ NoAckedLineSkipped
  BY DEF IInv
<1>1. pc = "down" /\ pc' = "loop"
  BY DEF Restart
<1>2. /\ UNCHANGED <<file, acked, offset, batch, cur, decisions, base, handled, lost>>
      /\ UNCHANGED <<processed, processedOrd, processedCnt, crashes, faults>>
  BY DEF Restart, queueVars, dedupVars, ghostVars, boundVars
<1>3. MemoryInv' /\ DedupWindow'
  <2>1. pc # "decided" /\ pc' # "decided"
    BY <1>1
  <2>2. UNCHANGED <<file, decisions, base, processed, processedOrd, processedCnt>>
    BY <1>2
  <2> QED
    BY ONLY <1>0, <2>1, <2>2, MemoryKept
<1>4. TypeOK'
  BY <1>0, <1>1, <1>2 DEF TypeOK
<1>5. ControlInv' /\ OrderInv' /\ NoAckedLineSkipped'
  BY <1>0, <1>1, <1>2 DEF ControlInv, OrderInv, NoAckedLineSkipped
<1> QED
  BY <1>3, <1>4, <1>5 DEF IInv

\* A request that puts its whole line into the file, and is answered or not.
LEMMA EnqueueStep ==
  ASSUME IInv, NEW id \in Ids, Enqueue(id) \/ EnqueueUnacknowledged(id)
  PROVE  IInv'
<1>0. TypeOK
  BY DEF IInv
<1>2. CASE Enqueue(id)
  <2>1. /\ file' = Append(file, id) /\ acked' = acked \cup {Len(file) + 1}
        /\ UNCHANGED <<offset, pc, batch, cur, dedupVars, decisions, ghostVars>>
    BY <1>2 DEF Enqueue
  <2>2. crashes' \in Nat /\ faults' \in Nat
    BY <1>0, <1>2 DEF Enqueue, boundVars, TypeOK
  <2> QED
    BY <2>1, <2>2, FileGrows
<1>3. CASE EnqueueUnacknowledged(id)
  <2>1. /\ file' = Append(file, id) /\ acked' = acked
        /\ UNCHANGED <<offset, pc, batch, cur, dedupVars, decisions, ghostVars>>
    BY <1>3 DEF EnqueueUnacknowledged
  <2>2. crashes' \in Nat /\ faults' \in Nat
    BY <1>0, <1>3 DEF EnqueueUnacknowledged, TypeOK
  <2> QED
    BY <2>1, <2>2, FileGrows
<1> QED
  BY <1>2, <1>3

\* The next-state relation, flattened for the case splits below.
LEMMA NextCases ==
  ASSUME Next
  PROVE  \/ \E id \in Ids : Enqueue(id) \/ EnqueueUnacknowledged(id)
         \/ EnqueueShort
         \/ ReadFrom \/ ReadFails
         \/ SkipProcessed \/ StartEvolve
         \/ EvolveFails \/ EvolveSucceeds \/ MarkProcessed
         \/ Crash \/ Restart
BY DEF Next, Worker

\* Every step keeps the inductive invariant.
LEMMA NextIInv ==
  ASSUME IInv, [Next]_vars
  PROVE  IInv'
<1>1. ASSUME NEW id \in Ids, Enqueue(id) \/ EnqueueUnacknowledged(id)
      PROVE  IInv'
  BY <1>1, EnqueueStep
<1>2. CASE EnqueueShort
  <2>1. /\ file' = Append(file, Torn) /\ acked' = acked
        /\ UNCHANGED <<offset, pc, batch, cur, dedupVars, decisions, ghostVars>>
    BY <1>2 DEF EnqueueShort
  <2>2. TypeOK
    BY DEF IInv
  <2>3. crashes' \in Nat /\ faults' \in Nat
    BY <1>2, <2>2 DEF EnqueueShort, TypeOK
  <2>4. Torn \in Ids \cup {Torn} /\ Len(file) + 1 \notin acked'
    BY <2>1, <2>2, LenProperties DEF TypeOK
  <2> QED
    BY <2>1, <2>3, <2>4, FileGrows
<1>3. CASE ReadFrom \/ ReadFails
  BY <1>3, ReadStep
<1>4. CASE SkipProcessed \/ StartEvolve
  BY <1>4, VisitStep
<1>5. CASE EvolveFails
  BY <1>5, EvolveFailsStep
<1>6. CASE EvolveSucceeds
  BY <1>6, EvolveSucceedsStep
<1>7. CASE MarkProcessed
  BY <1>7, MarkStep
<1>8. CASE Crash
  BY <1>8, CrashStep
<1>9. CASE Restart
  BY <1>9, RestartStep
<1>10. CASE UNCHANGED vars
  BY <1>10 DEF vars, queueVars, dedupVars, ghostVars, boundVars, IInv, TypeOK, ControlInv,
       OrderInv, MemoryInv, Marked, DedupWindow, NoAckedLineSkipped
<1> QED
  BY <1>1, <1>2, <1>3, <1>4, <1>5, <1>6, <1>7, <1>8, <1>9, <1>10, NextCases

-----------------------------------------------------------------------------
(* The theorems *)

\* The strengthened invariant holds in every reachable state.
THEOREM Inductive == Spec => []IInv
<1>1. Init => IInv
  BY InitIInv
<1>2. IInv /\ [Next]_vars => IInv'
  BY NextIInv
<1> QED
  BY <1>1, <1>2, PTL DEF Spec

\* The worker's state has its types in every reachable state: among others, the
\* batch, the visited and the lost events never lie beyond EventQueue.offset.
THEOREM TypeCorrect == Spec => []TypeOK
<1>1. IInv => TypeOK
  BY DEF IInv
<1> QED
  BY <1>1, Inductive, PTL

\* cleanupProcessed (worker.go:110-128) never forgets one of the last Retention
\* decided IDs, for every Retention and Threshold.
THEOREM DedupCorrect == Spec => []DedupWindow
<1>1. IInv => DedupWindow
  BY DEF IInv
<1> QED
  BY <1>1, Inductive, PTL

\* The map and the list of the dedup memory agree and are bounded, for every
\* Retention and Threshold (worker.go:70-78, 110-128).
THEOREM DedupBounded == Spec => []DedupMemoryBounded
<1>1. ASSUME IInv PROVE DedupMemoryBounded
  <2>1. MemoryInv /\ TypeOK
    BY <1>1 DEF IInv
  <2>2. Len(processedOrd) < Retention + Threshold
    BY <2>1, LenProperties, RetentionAssumption, ThresholdAssumption DEF MemoryInv, TypeOK
  <2>3. processed = { processedOrd[k] : k \in 1 .. Len(processedOrd) }
    BY <2>1 DEF MemoryInv
  <2>4. \A j, k \in 1 .. Len(processedOrd) : processedOrd[j] = processedOrd[k] => j = k
    BY <2>1 DEF MemoryInv
  <2> QED
    BY ONLY <2>2, <2>3, <2>4 DEF DedupMemoryBounded
<1> QED
  BY <1>1, Inductive, PTL

\* ReadFrom and the range loop of Start account for every acknowledged event they
\* have gone past (event_queue.go:104-134, worker.go:54-80).
THEOREM NoLineSkipped == Spec => []NoAckedLineSkipped
<1>1. IInv => NoAckedLineSkipped
  BY DEF IInv
<1> QED
  BY <1>1, Inductive, PTL

-----------------------------------------------------------------------------
(* The refinement *)

\* A decision delivers the current event, which lies behind the cursor.
LEMMA EvolveDelivers ==
  ASSUME IInv, EvolveSucceeds
  PROVE  Delivery!Deliver
<1>0. TypeOK /\ ControlInv /\ OrderInv
  BY DEF IInv
<1>1. pc = "evolving" /\ decisions' = Append(decisions, cur) /\ file' = file /\ base' = base
  BY DEF EvolveSucceeds, queueVars, ghostVars
<1>2. /\ Len(decisions) \in Nat /\ base \in 0 .. Len(decisions)
      /\ cur \in 1 .. Len(file)
      /\ decisions \in Seq(1 .. Len(file))
  BY <1>0, <1>1, LenProperties DEF TypeOK, ControlInv
<1>3. Len(decisions') = Len(decisions) + 1 /\ decisions'[Len(decisions) + 1] = cur
  BY <1>1, <1>2, AppendKeeps
<1>4. Cursor' = cur
  BY <1>1, <1>2, <1>3 DEF Cursor
<1>5. cur \in Cursor + 1 .. Len(file)
  <2>1. CASE Len(decisions) > base
    <3>1. decisions[Len(decisions)] < cur
      BY <1>0, <1>1, <1>2, <2>1 DEF OrderInv
    <3>2. decisions[Len(decisions)] \in 1 .. Len(file)
      BY <1>2, <2>1, ElementOfSeq
    <3> QED
      BY <1>2, <2>1, <3>1, <3>2 DEF Cursor
  <2>2. CASE ~(Len(decisions) > base)
    BY <1>2, <2>2 DEF Cursor
  <2> QED
    BY <2>1, <2>2
<1> QED
  BY <1>1, <1>4, <1>5 DEF Delivery!Deliver

\* Every step of the worker is a step of the delivery or leaves it alone.
LEMMA StepRefines ==
  ASSUME IInv, [Next]_vars
  PROVE  [Delivery!Next]_(Delivery!vars)
<1>0. TypeOK
  BY DEF IInv
<1>1. ASSUME NEW id \in Ids, Enqueue(id) \/ EnqueueUnacknowledged(id) PROVE Delivery!Submit
  <2>1. file' = Append(file, id) /\ UNCHANGED <<decisions, base>>
    BY <1>1 DEF Enqueue, EnqueueUnacknowledged, ghostVars
  <2>2. Len(file') = Len(file) + 1
    BY <1>0, <2>1, AppendProperties DEF TypeOK
  <2> QED
    BY <2>1, <2>2 DEF Delivery!Submit, Cursor
<1>2. CASE EnqueueShort
  <2>1. file' = Append(file, Torn) /\ UNCHANGED <<decisions, base>>
    BY <1>2 DEF EnqueueShort, ghostVars
  <2>2. Len(file') = Len(file) + 1
    BY <1>0, <2>1, AppendProperties DEF TypeOK
  <2>3. Delivery!Submit
    BY <2>1, <2>2 DEF Delivery!Submit, Cursor
  <2> QED
    BY <2>3 DEF Delivery!Next
<1>3. CASE \/ ReadFrom \/ ReadFails \/ SkipProcessed \/ StartEvolve \/ EvolveFails
           \/ MarkProcessed \/ Restart \/ UNCHANGED vars
  <2>1. UNCHANGED <<file, decisions, base>>
    BY <1>3 DEF ReadFrom, ReadFails, SkipProcessed, StartEvolve, EvolveFails,
       MarkProcessed, Restart, vars, queueVars, ghostVars
  <2> QED
    BY <2>1 DEF Delivery!vars, Cursor
<1>4. CASE EvolveSucceeds
  BY <1>4, EvolveDelivers DEF Delivery!Next
<1>5. CASE Crash
  <2>1. UNCHANGED <<file, decisions>> /\ base' = Len(decisions)
    BY <1>5 DEF Crash
  <2>2. Cursor' = 0
    BY <1>0, <2>1, LenProperties DEF Cursor, TypeOK
  <2> QED
    BY <2>1, <2>2 DEF Delivery!Next, Delivery!Restart
<1> QED
  BY <1>1, <1>2, <1>3, <1>4, <1>5, NextCases DEF Delivery!Next

\* Within one process life the queue delivers in file order and at most once, and
\* only a restart takes it back: EventQueue and Worker implement OrderedDelivery.
THEOREM Refinement == Spec => ImplementsDelivery
<1>1. Init => Delivery!Init
  BY DEF Init, Delivery!Init, Cursor
<1>2. IInv /\ [Next]_vars => [Delivery!Next]_(Delivery!vars)
  BY StepRefines
<1> QED
  BY <1>1, <1>2, Inductive, PTL DEF Spec, ImplementsDelivery, Delivery!Spec
==============================================================================
