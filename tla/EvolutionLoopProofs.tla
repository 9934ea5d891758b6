------------------------- MODULE EvolutionLoopProofs -------------------------
(***************************************************************************)
(* Proofs about EvolutionLoop, for every set of scores and weights, every  *)
(* window size and every bound.                                            *)
(***************************************************************************)
EXTENDS EvolutionLoop, SequenceTheorems, FiniteSetTheorems, TLAPS

\* Appending to a sequence leaves what it holds where it is.
LEMMA AppendKeeps ==
  ASSUME NEW S, NEW s \in Seq(S), NEW x \in S
  PROVE  /\ Append(s, x) \in Seq(S)
         /\ Len(Append(s, x)) = Len(s) + 1
         /\ Len(s) \in Nat
         /\ \A i \in 1 .. Len(s) : Append(s, x)[i] = s[i]
         /\ Append(s, x)[Len(s) + 1] = x
BY AppendProperties, LenProperties

\* A window never holds more scores than its size.
LEMMA SlideBounded ==
  ASSUME NEW w \in Seq(Nat), NEW n \in Nat \ {0}, NEW x \in Nat
  PROVE  Slide(w, n, x) \in Seq(Nat) /\ Len(Slide(w, n, x)) <= n
<1> DEFINE s == Append(w, x)
           first == IF Len(s) > n THEN Len(s) - n + 1 ELSE 1
<1>1. s \in Seq(Nat) /\ Len(s) \in Nat
  BY AppendKeeps, LenProperties
<1>2. Len(s) = Len(w) + 1 /\ Len(w) \in Nat
  BY AppendKeeps
<1>3. /\ first \in 1 .. Len(s) + 1 /\ Len(s) - first + 1 <= n
      /\ Len(s) \in first - 1 .. Len(s) /\ first <= Len(s) + 1
  BY <1>1, <1>2
<1> HIDE DEF s, first
<1>4. SubSeq(s, first, Len(s)) \in Seq(Nat)
  BY <1>1, <1>3, SubSeqProperties
<1>5. Len(SubSeq(s, first, Len(s))) = Len(s) - first + 1
  BY <1>1, <1>3, SubSeqProperties
<1>6. Slide(w, n, x) = SubSeq(s, first, Len(s))
  BY DEF Slide, Recent, s, first
<1> QED
  BY ONLY <1>3, <1>4, <1>5, <1>6

\* Correcting the outcome of one call leaves the calls what they are.
LEMMA OutcomeReplaced ==
  ASSUME NEW s \in Seq(Call), NEW i \in 1 .. Len(s), NEW o \in Outcomes
  PROVE  /\ [s EXCEPT ![i].outcome = o] \in Seq(Call)
         /\ Len([s EXCEPT ![i].outcome = o]) = Len(s)
<1>1. s[i] \in Call
  BY ElementOfSeq
<1>2. [s[i] EXCEPT !.outcome = o] \in Call
  BY <1>1 DEF Call
<1>3. [s EXCEPT ![i].outcome = o] = [s EXCEPT ![i] = [s[i] EXCEPT !.outcome = o]]
  OBVIOUS
<1> QED
  BY <1>2, <1>3, ExceptSeq

-----------------------------------------------------------------------------
(* The inductive invariant *)

\* The call in progress is the last one, and the log and the WAL know no later one;
\* evolution.log does not know the call in progress yet.
ProgressInv ==
  /\ pending # 0 => up /\ pending = Len(calls) /\ sequence # 0
  /\ \A i \in 1 .. Len(eventFile) :
       eventFile[i] # Torn => /\ eventFile[i].op <= Len(calls)
                              /\ pending # 0 => eventFile[i].op < pending
  /\ \A k \in 1 .. Len(walFile) : walFile[k] # Torn => walFile[k].op <= Len(calls)

\* The call in progress is past its WAL write.
PendingLogged == pending # 0 => Logged(pending) \/ pending \in walFailed

IInv ==
  /\ TypeOK
  /\ ProgressInv
  /\ PendingLogged
  /\ WriteAhead
  /\ GateInStep

\* The invariant holds when the process first starts.
LEMMA InitIInv == Init => IInv
<1> SUFFICES ASSUME Init PROVE IInv
  OBVIOUS
<1>1. TypeOK
  BY EmptySeq, WindowsAssumption DEF Init, TypeOK
<1>2. ProgressInv /\ PendingLogged /\ WriteAhead /\ GateInStep
  BY DEF Init, ProgressInv, PendingLogged, WriteAhead, GateInStep
<1> QED
  BY <1>1, <1>2 DEF IInv

-----------------------------------------------------------------------------
(* The first half of Evolve *)

\* What WAL.Append does to the file, whether it succeeds or fails.
LEMMA WalGrows ==
  ASSUME TypeOK, NEW op \in Nat \ {0}, WalAppend(op)
  PROVE  /\ walFile' \in Seq(Entry \cup {Torn})
         /\ \A k \in 1 .. Len(walFile') :
              \/ k \in 1 .. Len(walFile) /\ walFile'[k] = walFile[k]
              \/ walFile'[k] = Torn
              \/ walFile'[k] \in Entry /\ walFile'[k].op = op
         /\ \A x : Logged(x) => Logged(x)'
         /\ Logged(op)' \/ op \in walFailed'
         /\ walFailed \subseteq walFailed' /\ walFailed' \subseteq walFailed \cup {op}
         /\ walLast' = op
         /\ faults' \in Nat
<1> DEFINE entry == [op |-> op, prev |-> walLast]
<1>1. /\ walFile \in Seq(Entry \cup {Torn}) /\ walLast \in Nat /\ faults \in Nat
      /\ Len(walFile) \in Nat /\ DOMAIN walFile = 1 .. Len(walFile)
  BY LenProperties DEF TypeOK
<1>2. entry \in Entry /\ entry # Torn /\ entry.op = op
  BY <1>1, TornAssumption DEF Entry
<1>3. ASSUME NEW x \in Entry \cup {Torn}, walFile' = Append(walFile, x)
      PROVE  /\ walFile' \in Seq(Entry \cup {Torn})
             /\ DOMAIN walFile' = 1 .. Len(walFile) + 1
             /\ Len(walFile') = Len(walFile) + 1
             /\ \A k \in 1 .. Len(walFile) : walFile'[k] = walFile[k]
             /\ walFile'[Len(walFile) + 1] = x
             /\ \A y : Logged(y) => Logged(y)'
  <2>1. /\ walFile' \in Seq(Entry \cup {Torn})
        /\ Len(walFile') = Len(walFile) + 1
        /\ \A k \in 1 .. Len(walFile) : walFile'[k] = walFile[k]
        /\ walFile'[Len(walFile) + 1] = x
    BY <1>1, <1>3, AppendKeeps
  <2>2. DOMAIN walFile' = 1 .. Len(walFile) + 1
    BY <2>1, LenProperties
  <2>3. \A y : Logged(y) => Logged(y)'
    BY <1>1, <2>1, <2>2 DEF Logged
  <2> QED
    BY <2>1, <2>2, <2>3
<1>4. CASE walFile' = Append(walFile, entry) /\ UNCHANGED <<walFailed, faults>>
  <2> HIDE DEF entry
  <2>1. /\ walFile' \in Seq(Entry \cup {Torn})
        /\ DOMAIN walFile' = 1 .. Len(walFile) + 1
        /\ Len(walFile') = Len(walFile) + 1
        /\ \A k \in 1 .. Len(walFile) : walFile'[k] = walFile[k]
        /\ walFile'[Len(walFile) + 1] = entry
        /\ \A y : Logged(y) => Logged(y)'
    BY <1>2, <1>3, <1>4
  <2>2. Logged(op)'
    BY <1>1, <1>2, <2>1 DEF Logged
  <2>3. walLast' = op
    BY DEF WalAppend
  <2>4. \A k \in 1 .. Len(walFile') : k \in 1 .. Len(walFile) \/ k = Len(walFile) + 1
    BY <1>1, <2>1
  <2> QED
    BY <1>1, <1>2, <1>4, <2>1, <2>2, <2>3, <2>4
<1>5. CASE walFile' \in CutShort(walFile) /\ walFailed' = walFailed \cup {op}
           /\ faults' = faults + 1
  <2>1. walLast' = op
    BY DEF WalAppend
  <2>2. CASE walFile' = walFile
    <3>1. \A y : Logged(y) => Logged(y)'
      BY <2>2 DEF Logged
    <3> QED
      BY <1>1, <1>5, <2>1, <2>2, <3>1
  <2>3. CASE walFile' = Append(walFile, Torn)
    <3>1. /\ walFile' \in Seq(Entry \cup {Torn})
          /\ Len(walFile') = Len(walFile) + 1
          /\ \A k \in 1 .. Len(walFile) : walFile'[k] = walFile[k]
          /\ walFile'[Len(walFile) + 1] = Torn
          /\ \A y : Logged(y) => Logged(y)'
      BY <1>3, <2>3
    <3>2. \A k \in 1 .. Len(walFile') : k \in 1 .. Len(walFile) \/ k = Len(walFile) + 1
      BY <1>1, <3>1
    <3> QED
      BY <1>1, <1>5, <2>1, <3>1, <3>2
  <2> QED
    BY <1>5, <2>2, <2>3 DEF CutShort
<1> QED
  BY <1>4, <1>5 DEF WalAppend, Written

\* The first half of Evolve keeps the invariant, whatever comes of the call.
LEMMA JudgeStep ==
  ASSUME IInv, NEW c \in Candidates, NEW w \in Weights, NEW o \in Outcomes,
         Judge(c, w, o),
         sequence' \in Nat,
         pending' = 0 \/ (pending' = Len(calls') /\ sequence' # 0)
  PROVE  IInv'
<1>0. TypeOK /\ ProgressInv /\ WriteAhead /\ GateInStep
  BY DEF IInv
<1> DEFINE score == c * w
<1>op. PICK op : op = Len(calls) + 1
  OBVIOUS
<1>1. /\ up /\ pending = 0
      /\ calls' = Append(calls, [candidate |-> c, weight |-> w, outcome |-> o])
      /\ detector' = Slide(detector, DetectorSize, score)
      /\ gateDetector' = Slide(gateDetector, DetectorSize, score)
      /\ longWindow' = Slide(longWindow, LongSize, score)
      /\ UNCHANGED <<up, eventFile, born, crashes>>
  BY DEF Judge, GateCheck
<1>2. /\ calls \in Seq(Call) /\ Len(calls) \in Nat
      /\ calls' \in Seq(Call) /\ Len(calls') = op
      /\ op \in Nat \ {0}
  <2>1. [candidate |-> c, weight |-> w, outcome |-> o] \in Call
    BY DEF Call
  <2>2. calls \in Seq(Call)
    BY <1>0 DEF TypeOK
  <2> QED
    BY <1>op, <1>1, <2>1, <2>2, AppendKeeps
<1>3. /\ walFile' \in Seq(Entry \cup {Torn})
      /\ \A k \in 1 .. Len(walFile') :
           \/ k \in 1 .. Len(walFile) /\ walFile'[k] = walFile[k]
           \/ walFile'[k] = Torn
           \/ walFile'[k] \in Entry /\ walFile'[k].op = op
      /\ \A x : Logged(x) => Logged(x)'
      /\ Logged(op)' \/ op \in walFailed'
      /\ walFailed \subseteq walFailed' /\ walFailed' \subseteq walFailed \cup {op}
      /\ walLast' = op
      /\ faults' \in Nat
  <2>1. WalAppend(op)
    BY <1>op DEF Judge
  <2> QED
    BY ONLY <1>0, <1>2, <2>1, WalGrows
<1>4. score \in Nat
  BY ScoresAssumption
<1>5. GateInStep'
  BY <1>0, <1>1 DEF GateInStep
<1>6. TypeOK'
  <2> HIDE DEF score
  <2>1. /\ detector' \in Seq(Nat) /\ Len(detector') <= DetectorSize
        /\ gateDetector' \in Seq(Nat)
        /\ longWindow' \in Seq(Nat) /\ Len(longWindow') <= LongSize
    BY <1>0, <1>1, <1>4, SlideBounded, WindowsAssumption DEF TypeOK
  <2>2. /\ pending' \in 0 .. Len(calls') /\ walLast' \in 0 .. Len(calls')
        /\ born' \in 0 .. Len(calls')
    BY <1>0, <1>1, <1>2, <1>3 DEF TypeOK
  <2>3. walFailed' \subseteq 1 .. Len(calls')
    <3>1. walFailed \subseteq 1 .. Len(calls)
      BY <1>0 DEF TypeOK
    <3> QED
      BY ONLY <1>op, <1>2, <1>3, <3>1
  <2>4. up' \in BOOLEAN /\ eventFile' \in Seq(EventLine \cup {Torn}) /\ crashes' \in Nat
    BY <1>0, <1>1 DEF TypeOK
  <2> QED
    BY <1>2, <1>3, <2>1, <2>2, <2>3, <2>4 DEF TypeOK
<1>7. \A i \in 1 .. Len(eventFile) :
        eventFile[i] # Torn => eventFile[i].op \in Nat /\ eventFile[i].op < op
  <2>1. \A i \in 1 .. Len(eventFile) : eventFile[i] # Torn => eventFile[i] \in EventLine
    <3>1. eventFile \in Seq(EventLine \cup {Torn})
      BY <1>0 DEF TypeOK
    <3> QED
      BY <3>1, ElementOfSeq
  <2>2. \A i \in 1 .. Len(eventFile) : eventFile[i] # Torn => eventFile[i].op \in Nat
    BY <2>1 DEF EventLine
  <2>3. \A i \in 1 .. Len(eventFile) : eventFile[i] # Torn => eventFile[i].op <= Len(calls)
    BY <1>0 DEF ProgressInv
  <2> QED
    BY <1>op, <1>2, <2>2, <2>3
<1>8. ProgressInv'
  <2>1. \A k \in 1 .. Len(walFile') : walFile'[k] # Torn => walFile'[k].op <= Len(calls')
    <3> SUFFICES ASSUME NEW k \in 1 .. Len(walFile'), walFile'[k] # Torn
                 PROVE  walFile'[k].op <= op
      BY <1>2
    <3>1. CASE k \in 1 .. Len(walFile) /\ walFile'[k] = walFile[k]
      <4>1. walFile[k] \in Entry
        <5>1. walFile \in Seq(Entry \cup {Torn})
          BY <1>0 DEF TypeOK
        <5> QED
          BY <3>1, <5>1, ElementOfSeq
      <4>2. walFile[k].op \in Nat
        BY <4>1 DEF Entry
      <4>3. walFile[k].op <= Len(calls)
        BY <1>0, <3>1 DEF ProgressInv
      <4> QED
        BY <1>op, <1>2, <3>1, <4>2, <4>3
    <3>2. CASE walFile'[k].op = op
      BY <1>2, <3>2
    <3> QED
      BY <1>3, <3>1, <3>2
  <2>2. pending' # 0 => up' /\ pending' = Len(calls') /\ sequence' # 0
    BY <1>1
  <2>3. \A i \in 1 .. Len(eventFile') :
          eventFile'[i] # Torn => /\ eventFile'[i].op <= Len(calls')
                                  /\ pending' # 0 => eventFile'[i].op < pending'
    <3> SUFFICES ASSUME NEW i \in 1 .. Len(eventFile), eventFile[i] # Torn
                 PROVE  eventFile[i].op <= op /\ (pending' # 0 => eventFile[i].op < op)
      BY <1>1, <1>2
    <3> QED
      BY <1>2, <1>7
  <2> QED
    BY ONLY <2>1, <2>2, <2>3 DEF ProgressInv
<1>9. PendingLogged'
  <2>1. pending' # 0 => pending' = op
    BY <1>2
  <2> QED
    BY <1>3, <2>1 DEF PendingLogged, Logged
<1>10. WriteAhead'
  <2>1. eventFile' = eventFile
    BY <1>1
  <2>2. \A i, j \in DOMAIN eventFile' :
          (i < j /\ eventFile'[i] # Torn /\ eventFile'[j] # Torn)
            => eventFile'[i].op < eventFile'[j].op
    BY <1>0, <2>1 DEF WriteAhead
  <2>3. \A i \in DOMAIN eventFile :
          eventFile[i] # Torn => Logged(eventFile[i].op)' \/ eventFile[i].op \in walFailed'
    <3> SUFFICES ASSUME NEW i \in DOMAIN eventFile, eventFile[i] # Torn
                 PROVE  Logged(eventFile[i].op)' \/ eventFile[i].op \in walFailed'
      OBVIOUS
    <3>1. Logged(eventFile[i].op) \/ eventFile[i].op \in walFailed
      BY <1>0 DEF WriteAhead
    <3>2. CASE eventFile[i].op \in walFailed
      BY <1>3, <3>2
    <3>3. CASE Logged(eventFile[i].op)
      <4>1. PICK x : x = eventFile[i].op
        OBVIOUS
      <4>2. Logged(x)'
        BY <1>3, <3>3, <4>1
      <4> QED
        BY <2>1, <4>1, <4>2 DEF Logged
    <3> QED
      BY <3>1, <3>2, <3>3
  <2> QED
    BY <2>1, <2>2, <2>3 DEF WriteAhead, Logged
<1> QED
  BY <1>5, <1>6, <1>8, <1>9, <1>10 DEF IInv

-----------------------------------------------------------------------------
(* The second half of Evolve, and the process *)

\* A line that is neither in the file yet nor to be read changes nothing in what
\* WriteAhead says of the others.
LEMMA WriteAheadKept ==
  ASSUME WriteAhead, UNCHANGED <<eventFile, walFile, walFailed>>
  PROVE  WriteAhead'
<1>1. \A i, j \in DOMAIN eventFile' :
        (i < j /\ eventFile'[i] # Torn /\ eventFile'[j] # Torn)
          => eventFile'[i].op < eventFile'[j].op
  BY DEF WriteAhead
<1>2. \A x : Logged(x) <=> Logged(x)'
  BY DEF Logged
<1>3. \A i \in DOMAIN eventFile :
        eventFile[i] # Torn => Logged(eventFile[i].op)' \/ eventFile[i].op \in walFailed
  <2> SUFFICES ASSUME NEW i \in DOMAIN eventFile, eventFile[i] # Torn
               PROVE  Logged(eventFile[i].op)' \/ eventFile[i].op \in walFailed
    OBVIOUS
  <2>1. Logged(eventFile[i].op) \/ eventFile[i].op \in walFailed
    BY DEF WriteAhead
  <2> QED
    BY <2>1 DEF Logged
<1> QED
  BY <1>1, <1>3 DEF WriteAhead, Logged

\* The event's write keeps the invariant, whole or cut short: the call in progress
\* is past its WAL write and later than all that evolution.log knows.
LEMMA StoreStep ==
  ASSUME IInv, StoreDecision \/ StoreFails
  PROVE  IInv'
<1>0. TypeOK /\ ProgressInv /\ PendingLogged /\ WriteAhead /\ GateInStep
  BY DEF IInv
<1> DEFINE line == [op |-> pending, seq |-> sequence]
<1>1. /\ up /\ pending # 0 /\ pending' = 0
      /\ UNCHANGED <<up, detector, gateDetector, longWindow, sequence, walLast>>
      /\ UNCHANGED <<walFile, walFailed, born, crashes>>
      /\ faults' = faults \/ faults' = faults + 1
  BY DEF StoreDecision, StoreFails, loopVars
<1>2. calls' \in Seq(Call) /\ Len(calls') = Len(calls) /\ Len(calls) \in Nat
  <2>1. calls \in Seq(Call) /\ pending \in 1 .. Len(calls) /\ Len(calls) \in Nat
    BY <1>0, <1>1, LenProperties DEF TypeOK
  <2>2. CASE StoreDecision
    BY <2>1, <2>2 DEF StoreDecision
  <2>3. CASE StoreFails
    <3>1. calls' = [calls EXCEPT ![pending].outcome = "unstored"]
      BY <2>3 DEF StoreFails
    <3>2. "unstored" \in Outcomes
      BY DEF Outcomes
    <3> QED
      BY <2>1, <3>1, <3>2, OutcomeReplaced
  <2> QED
    BY <2>2, <2>3
<1>3. /\ eventFile \in Seq(EventLine \cup {Torn}) /\ Len(eventFile) \in Nat
      /\ DOMAIN eventFile = 1 .. Len(eventFile)
      /\ \A i \in 1 .. Len(eventFile) :
           eventFile[i] # Torn => eventFile[i].op \in Nat /\ eventFile[i].op < pending
  <2>1. eventFile \in Seq(EventLine \cup {Torn})
    BY <1>0 DEF TypeOK
  <2>2. \A i \in 1 .. Len(eventFile) : eventFile[i] # Torn => eventFile[i] \in EventLine
    BY <2>1, ElementOfSeq
  <2>3. \A i \in 1 .. Len(eventFile) : eventFile[i] # Torn => eventFile[i].op < pending
    BY <1>0, <1>1 DEF ProgressInv
  <2> QED
    BY <2>1, <2>2, <2>3, LenProperties DEF EventLine
<1>4. line.op = pending
  OBVIOUS
<1>5. /\ pending \in Nat \ {0} /\ pending <= Len(calls)
      /\ line \in EventLine
  <2>1. pending \in Nat \ {0} /\ pending <= Len(calls) /\ sequence \in Nat \ {0}
    BY <1>0, <1>1, <1>2 DEF TypeOK, ProgressInv
  <2> QED
    BY <2>1 DEF EventLine
<1>6. /\ walFailed' \subseteq 1 .. Len(calls') /\ born' \in 0 .. Len(calls')
      /\ walLast' \in 0 .. Len(calls') /\ pending' \in 0 .. Len(calls')
  BY <1>0, <1>1, <1>2 DEF TypeOK
<1>7. faults' \in Nat /\ detector' \in Seq(Nat) /\ Len(detector') <= DetectorSize
      /\ gateDetector' \in Seq(Nat) /\ sequence' \in Nat
      /\ longWindow' \in Seq(Nat) /\ Len(longWindow') <= LongSize
      /\ walFile' \in Seq(Entry \cup {Torn}) /\ crashes' \in Nat /\ up' \in BOOLEAN
  BY <1>0, <1>1 DEF TypeOK
<1>8. ASSUME eventFile' \in Seq(EventLine \cup {Torn})
      PROVE  TypeOK'
  BY <1>2, <1>6, <1>7, <1>8 DEF TypeOK
<1>9. PendingLogged' /\ GateInStep'
  BY <1>0, <1>1 DEF PendingLogged, GateInStep
<1>10. ASSUME \A i \in 1 .. Len(eventFile') :
                eventFile'[i] # Torn => eventFile'[i].op <= Len(calls')
       PROVE  ProgressInv'
  <2>1. \A k \in 1 .. Len(walFile') : walFile'[k] # Torn => walFile'[k].op <= Len(calls')
    BY <1>0, <1>1, <1>2 DEF ProgressInv
  <2> QED
    BY <1>1, <1>10, <2>1 DEF ProgressInv
<1>11. CASE eventFile' = eventFile
  <2>1. WriteAhead'
    BY <1>0, <1>1, <1>11, WriteAheadKept
  <2>2. ProgressInv'
    <3>1. \A i \in 1 .. Len(eventFile') :
            eventFile'[i] # Torn => eventFile'[i].op <= Len(calls')
      BY <1>0, <1>2, <1>11 DEF ProgressInv
    <3> QED
      BY <1>10, <3>1
  <2>3. TypeOK'
    BY <1>3, <1>8, <1>11
  <2> QED
    BY <1>9, <2>1, <2>2, <2>3 DEF IInv
<1>12. ASSUME NEW x \in EventLine \cup {Torn},
              eventFile' = Append(eventFile, x),
              x # Torn => x.op = pending
       PROVE  IInv'
  <2>1. /\ eventFile' \in Seq(EventLine \cup {Torn})
        /\ Len(eventFile') = Len(eventFile) + 1
        /\ \A i \in 1 .. Len(eventFile) : eventFile'[i] = eventFile[i]
        /\ eventFile'[Len(eventFile) + 1] = x
    BY <1>3, <1>12, AppendKeeps
  <2>2. DOMAIN eventFile' = 1 .. Len(eventFile) + 1
    BY <2>1, LenProperties
  <2>3. \A i \in 1 .. Len(eventFile) + 1 : i = Len(eventFile) + 1 \/ i \in 1 .. Len(eventFile)
    BY <1>3
  <2>4. ProgressInv'
    <3>1. \A i \in 1 .. Len(eventFile') :
            eventFile'[i] # Torn => eventFile'[i].op <= Len(calls')
      BY <1>2, <1>3, <1>5, <1>12, <2>1, <2>3
    <3> QED
      BY <1>10, <3>1
  <2>5. WriteAhead'
    <3>1. ASSUME NEW i \in DOMAIN eventFile', NEW j \in DOMAIN eventFile',
                 i < j, eventFile'[i] # Torn, eventFile'[j] # Torn
          PROVE  eventFile'[i].op < eventFile'[j].op
      <4>1. i \in 1 .. Len(eventFile) /\ eventFile'[i] = eventFile[i]
        BY <1>3, <2>1, <2>2, <3>1
      <4>2. CASE j = Len(eventFile) + 1
        BY <1>3, <1>12, <2>1, <3>1, <4>1, <4>2
      <4>3. CASE j \in 1 .. Len(eventFile)
        <5>1. eventFile'[j] = eventFile[j]
          BY <2>1, <4>3
        <5> QED
          BY <1>0, <1>3, <3>1, <4>1, <4>3, <5>1 DEF WriteAhead
      <4> QED
        BY <2>2, <2>3, <4>2, <4>3
    <3>2. ASSUME NEW i \in DOMAIN eventFile', eventFile'[i] # Torn
          PROVE  Logged(eventFile'[i].op) \/ eventFile'[i].op \in walFailed
      <4>1. CASE i = Len(eventFile) + 1
        <5>1. eventFile'[i].op = pending
          BY <1>12, <2>1, <3>2, <4>1
        <5>2. Logged(pending) \/ pending \in walFailed
          BY <1>0, <1>1 DEF PendingLogged
        <5> QED
          BY <5>1, <5>2 DEF Logged
      <4>2. CASE i \in 1 .. Len(eventFile)
        <5>1. eventFile'[i] = eventFile[i]
          BY <2>1, <4>2
        <5>2. Logged(eventFile[i].op) \/ eventFile[i].op \in walFailed
          BY <1>0, <1>3, <3>2, <4>2, <5>1 DEF WriteAhead
        <5> QED
          BY <5>1, <5>2 DEF Logged
      <4> QED
        BY <2>2, <2>3, <4>1, <4>2
    <3>3. walFile' = walFile /\ walFailed' = walFailed
      BY <1>1
    <3> QED
      BY <3>1, <3>2, <3>3 DEF WriteAhead, Logged
  <2> QED
    BY <1>8, <1>9, <2>1, <2>4, <2>5 DEF IInv
<1>13. CASE StoreDecision
  <2>1. eventFile' = Append(eventFile, line)
    BY <1>13 DEF StoreDecision, Written
  <2>2. PICK x : x = line
    OBVIOUS
  <2> QED
    BY <1>4, <1>5, <1>12, <2>1, <2>2
<1>14. CASE StoreFails
  <2>1. eventFile' = Append(eventFile, Torn) \/ eventFile' = eventFile
    BY <1>14 DEF StoreFails, CutShort
  <2> QED
    BY <1>11, <1>12, <2>1
<1> QED
  BY <1>13, <1>14

\* A kill closes the call in progress; the files stay.
LEMMA CrashStep ==
  ASSUME IInv, Crash
  PROVE  IInv'
<1>0. TypeOK /\ ProgressInv /\ WriteAhead
  BY DEF IInv
<1>1. /\ up' = FALSE /\ pending' = 0
      /\ detector' = << >> /\ gateDetector' = << >> /\ longWindow' = << >> /\ sequence' = 0
      /\ walLast' = 0 /\ born' = Len(calls) /\ crashes' = crashes + 1
      /\ UNCHANGED <<walFile, eventFile, walFailed, faults>>
  BY DEF Crash, diskVars
<1>2. calls' \in Seq(Call) /\ Len(calls') = Len(calls) /\ Len(calls) \in Nat
  <2>1. calls \in Seq(Call) /\ pending \in 0 .. Len(calls) /\ Len(calls) \in Nat
    BY <1>0, LenProperties DEF TypeOK
  <2>2. CASE pending = 0
    BY <2>1, <2>2 DEF Crash
  <2>3. CASE pending # 0
    <3>1. calls' = [calls EXCEPT ![pending].outcome = "killed"]
      BY <2>3 DEF Crash
    <3>2. "killed" \in Outcomes /\ pending \in 1 .. Len(calls)
      BY <2>1, <2>3 DEF Outcomes
    <3> QED
      BY <2>1, <3>1, <3>2, OutcomeReplaced
  <2> QED
    BY <2>2, <2>3
<1>3. WriteAhead'
  BY <1>0, <1>1, WriteAheadKept
<1>4. ProgressInv'
  BY <1>0, <1>1, <1>2 DEF ProgressInv
<1>5. PendingLogged' /\ GateInStep'
  BY <1>1 DEF PendingLogged, GateInStep
<1>6. TypeOK'
  <2>1. << >> \in Seq(Nat) /\ Len(<< >>) = 0
    BY EmptySeq
  <2>2. walFailed' \subseteq 1 .. Len(calls') /\ crashes' \in Nat /\ faults' \in Nat
        /\ walFile' \in Seq(Entry \cup {Torn}) /\ eventFile' \in Seq(EventLine \cup {Torn})
    BY <1>0, <1>1, <1>2 DEF TypeOK
  <2>3. /\ detector' \in Seq(Nat) /\ Len(detector') <= DetectorSize
        /\ gateDetector' \in Seq(Nat)
        /\ longWindow' \in Seq(Nat) /\ Len(longWindow') <= LongSize
    BY <1>1, <2>1, WindowsAssumption
  <2>4. /\ up' \in BOOLEAN /\ pending' \in 0 .. Len(calls') /\ walLast' \in 0 .. Len(calls')
        /\ sequence' \in Nat /\ born' \in 0 .. Len(calls')
    <3>1. 0 \in 0 .. Len(calls') /\ Len(calls) \in 0 .. Len(calls')
      BY <1>2
    <3>2. up' = FALSE /\ pending' = 0 /\ walLast' = 0 /\ sequence' = 0 /\ born' = Len(calls)
      BY <1>1
    <3> QED
      BY <3>1, <3>2
  <2> QED
    BY <1>2, <2>2, <2>3, <2>4 DEF TypeOK
<1> QED
  BY <1>3, <1>4, <1>5, <1>6 DEF IInv

\* NewWAL puts the last entry it can read at the end of the chain.
LEMMA RestartStep ==
  ASSUME IInv, Restart
  PROVE  IInv'
<1>0. TypeOK /\ ProgressInv /\ PendingLogged /\ WriteAhead /\ GateInStep
  BY DEF IInv
<1>1. /\ ~up /\ up' = TRUE
      /\ UNCHANGED <<calls, pending, detector, gateDetector, longWindow, sequence>>
      /\ UNCHANGED <<walFile, eventFile, walFailed, born, crashes, faults>>
  BY DEF Restart, loopVars, diskVars
<1>2. pending = 0
  BY <1>0, <1>1 DEF ProgressInv
<1>3. walLast' \in 0 .. Len(calls')
  <2>1. CASE walLast' = 0
    BY <1>0, <1>1, <2>1, LenProperties DEF TypeOK
  <2>2. CASE \E k \in Readable(walFile, 0) : walLast' = walFile[k].op
    <3>1. PICK k \in Readable(walFile, 0) : walLast' = walFile[k].op
      BY <2>2
    <3>2. walFile \in Seq(Entry \cup {Torn}) /\ Len(walFile) \in Nat /\ Len(calls) \in Nat
      BY <1>0, LenProperties DEF TypeOK
    <3>3. k \in 1 .. Len(walFile) /\ walFile[k] # Torn
      BY <3>2 DEF Readable
    <3>4. walFile[k] \in Entry
      BY <3>2, <3>3, ElementOfSeq
    <3>5. walFile[k].op \in Nat /\ walFile[k].op <= Len(calls)
      BY <1>0, <3>3, <3>4 DEF Entry, ProgressInv
    <3> QED
      BY <1>1, <3>1, <3>2, <3>5
  <2> QED
    BY <2>1, <2>2 DEF Restart
<1>4. TypeOK'
  BY <1>0, <1>1, <1>3 DEF TypeOK
<1>5. WriteAhead'
  BY <1>0, <1>1, WriteAheadKept
<1>6. ProgressInv' /\ PendingLogged' /\ GateInStep'
  BY <1>0, <1>1, <1>2 DEF ProgressInv, PendingLogged, GateInStep
<1> QED
  BY <1>4, <1>5, <1>6 DEF IInv

-----------------------------------------------------------------------------

\* Every step keeps the inductive invariant.
LEMMA NextIInv ==
  ASSUME IInv, [Next]_vars
  PROVE  IInv'
<1>0. TypeOK /\ ProgressInv /\ PendingLogged /\ WriteAhead /\ GateInStep
  BY DEF IInv
<1>1. CASE EvolveRollsBack
  <2>1. PICK c \in Candidates, w \in Weights : Judge(c, w, "rollback")
    BY <1>1 DEF EvolveRollsBack
  <2>2. sequence' \in Nat /\ (pending' = 0 \/ (pending' = Len(calls') /\ sequence' # 0))
    <3>1. UNCHANGED <<pending, sequence>>
      BY <1>1 DEF EvolveRollsBack
    <3>2. pending = 0
      BY <2>1 DEF Judge
    <3>3. sequence \in Nat
      BY <1>0 DEF TypeOK
    <3> QED
      BY <3>1, <3>2, <3>3
  <2>3. "rollback" \in Outcomes
    BY DEF Outcomes
  <2> QED
    BY ONLY IInv, <2>1, <2>2, <2>3, JudgeStep
<1>2. CASE EvolveDecides
  <2>1. PICK c \in Candidates, w \in Weights, o \in {"accepted", "rejected"} : Judge(c, w, o)
    BY <1>2 DEF EvolveDecides
  <2>2. pending' = Len(calls') /\ sequence' = sequence + 1
    BY <1>2 DEF EvolveDecides
  <2>3. sequence' \in Nat /\ sequence' # 0
    BY <1>0, <2>2 DEF TypeOK
  <2>4. o \in Outcomes
    BY DEF Outcomes
  <2> QED
    BY ONLY IInv, <2>1, <2>2, <2>3, <2>4, JudgeStep
<1>3. CASE StoreDecision \/ StoreFails
  BY <1>3, StoreStep
<1>4. CASE Crash
  BY <1>4, CrashStep
<1>5. CASE Restart
  BY <1>5, RestartStep
<1>6. CASE UNCHANGED vars
  <2>1. /\ UNCHANGED <<calls, up, pending, detector, gateDetector, longWindow, sequence>>
        /\ UNCHANGED <<walLast, walFile, eventFile, walFailed, born, crashes, faults>>
    BY <1>6 DEF vars, loopVars, diskVars
  <2>2. WriteAhead'
    BY <1>0, <2>1, WriteAheadKept
  <2>3. TypeOK'
    BY <1>0, <2>1 DEF TypeOK
  <2>4. ProgressInv' /\ PendingLogged' /\ GateInStep'
    BY <1>0, <2>1 DEF ProgressInv, PendingLogged, Logged, GateInStep
  <2> QED
    BY <2>2, <2>3, <2>4 DEF IInv
<1> QED
  BY <1>1, <1>2, <1>3, <1>4, <1>5, <1>6 DEF Next

-----------------------------------------------------------------------------
(* What a reader makes of a file *)

\* Nth lists the members of a finite set of positions once each, in ascending order.
LEMMA NthEnumerates ==
  ASSUME NEW S \in SUBSET Nat, IsFiniteSet(S)
  PROVE  /\ Cardinality(S) \in Nat
         /\ \A k \in 1 .. Cardinality(S) : Nth(S, k) \in S
         /\ \A x \in S : \E k \in 1 .. Cardinality(S) : Nth(S, k) = x
         /\ \A i, j \in 1 .. Cardinality(S) : i < j => Nth(S, i) < Nth(S, j)
<1> DEFINE n == Cardinality(S)
           Below(x) == { m \in S : m < x }
           Rank(x) == Cardinality(Below(x))
<1>1. n \in Nat
  BY FS_CardinalityType
<1>2. ASSUME NEW x \in S
      PROVE  IsFiniteSet(Below(x)) /\ Rank(x) \in Nat /\ Rank(x) <= n - 1
  <2>1. Below(x) \subseteq S \ {x}
    OBVIOUS
  <2>2. IsFiniteSet(S \ {x}) /\ Cardinality(S \ {x}) = n - 1
    BY FS_RemoveElement
  <2> HIDE DEF Below
  <2>3. IsFiniteSet(Below(x)) /\ Cardinality(Below(x)) <= n - 1
    BY <2>1, <2>2, FS_Subset
  <2>4. Cardinality(Below(x)) \in Nat
    BY <2>3, FS_CardinalityType
  <2> QED
    BY <2>3, <2>4
<1>3. ASSUME NEW x \in S, NEW y \in S, x < y
      PROVE  Rank(x) < Rank(y)
  <2>1. Below(x) \cup {x} \subseteq Below(y) /\ x \notin Below(x)
    <3>1. x \in Nat /\ y \in Nat
      OBVIOUS
    <3>2. x \notin Below(x) /\ x \in Below(y)
      BY <1>3, <3>1
    <3>3. ASSUME NEW m \in Below(x) PROVE m \in Below(y)
      <4>1. m \in Nat /\ m < x
        OBVIOUS
      <4>2. m < y
        BY <1>3, <3>1, <4>1
      <4> QED
        BY <4>2
    <3> HIDE DEF Below
    <3> QED
      BY <3>2, <3>3
  <2>2. IsFiniteSet(Below(x)) /\ IsFiniteSet(Below(y)) /\ Rank(x) \in Nat /\ Rank(y) \in Nat
    BY <1>2
  <2> HIDE DEF Below
  <2>3. Cardinality(Below(x) \cup {x}) = Cardinality(Below(x)) + 1
    BY <2>1, <2>2, FS_AddElement
  <2>4. Cardinality(Below(x) \cup {x}) <= Cardinality(Below(y))
    BY <2>1, <2>2, FS_Subset
  <2> QED
    BY <2>2, <2>3, <2>4
<1> HIDE DEF n, Below, Rank
<1>4. ASSUME NEW x \in S, NEW y \in S, Rank(x) = Rank(y)
      PROVE  x = y
  <2>1. ~ (x < y) /\ ~ (y < x)
    BY <1>2, <1>3, <1>4
  <2> QED
    BY <2>1
<1>5. ASSUME NEW k \in 1 .. n PROVE \E x \in S : Rank(x) = k - 1
  <2> DEFINE places == 0 .. n - 1
             rank == [x \in S |-> Rank(x)]
  <2>1. IsFiniteSet(places) /\ Cardinality(places) = n
    BY <1>1, FS_Interval
  <2>2. rank \in [S -> places] /\ k - 1 \in places
    BY <1>1, <1>2
  <2>3. \A x \in S : rank[x] = Rank(x)
    OBVIOUS
  <2> HIDE DEF rank, places
  <2>4. rank \in Injection(S, places)
    BY <1>4, <2>2, <2>3 DEF Injection, IsInjective
  <2>5. rank \in Surjection(S, places)
    BY <2>1, <2>4, FS_Injection DEF n
  <2> QED
    BY <2>2, <2>3, <2>5 DEF Surjection
<1>6. ASSUME NEW k \in 1 .. n
      PROVE  Nth(S, k) \in S /\ Rank(Nth(S, k)) = k - 1
  BY <1>5 DEF Nth, Rank, Below
<1>7. ASSUME NEW x \in S PROVE \E k \in 1 .. n : Nth(S, k) = x
  <2>1. PICK k \in 1 .. n : k - 1 = Rank(x)
    <3>1. ASSUME NEW r \in Nat, r <= n - 1 PROVE \E k \in 1 .. n : k - 1 = r
      <4>1. r + 1 \in 1 .. n /\ (r + 1) - 1 = r
        BY <1>1, <3>1
      <4> QED
        BY <4>1
    <3> QED
      BY <1>2, <3>1
  <2> QED
    BY <1>4, <1>6, <2>1
<1>8. ASSUME NEW i \in 1 .. n, NEW j \in 1 .. n, i < j
       PROVE  Nth(S, i) < Nth(S, j)
  <2> DEFINE x == Nth(S, i)
             y == Nth(S, j)
  <2>1. x \in S /\ y \in S /\ Rank(x) = i - 1 /\ Rank(y) = j - 1
    BY <1>6
  <2> HIDE DEF x, y
  <2>2. ~ (y < x) /\ x # y
    BY <1>1, <1>3, <1>8, <2>1
  <2>3. x < y
    BY <2>1, <2>2
  <2> QED
    BY <2>3 DEF x, y
<1> QED
  BY <1>1, <1>6, <1>7, <1>8 DEF n


\* A chunk joins the end of a file: what was readable stays so.
LEMMA ReadableGrows ==
  ASSUME NEW S, NEW f \in Seq(S), NEW x \in S
  PROVE  /\ \A i \in 1 .. Len(f) : i \in Readable(Append(f, x), 0) <=> i \in Readable(f, 0)
         /\ Readable(Append(f, x), 0) \subseteq 1 .. Len(f) + 1
         /\ Len(f) + 1 \in Readable(Append(f, x), 0) => x # Torn
<1> DEFINE g == Append(f, x)
<1>1. /\ g \in Seq(S) /\ Len(g) = Len(f) + 1 /\ Len(f) \in Nat
      /\ \A i \in 1 .. Len(f) : g[i] = f[i]
      /\ g[Len(f) + 1] = x
  BY AppendKeeps
<1> HIDE DEF g
<1>2. ASSUME NEW i \in 1 .. Len(f)
      PROVE  i \in Readable(g, 0) <=> i \in Readable(f, 0)
  <2>1. i \in 0 + 1 .. Len(f) /\ i \in 0 + 1 .. Len(g) /\ g[i] = f[i]
    BY <1>1
  <2>2. Glued(g, i) <=> Glued(f, i)
    <3>1. CASE i > 1
      <4>1. i - 1 \in 1 .. Len(f)
        BY <1>1, <3>1
      <4> QED
        BY <1>1, <4>1 DEF Glued
    <3>2. CASE ~ (i > 1)
      BY <3>2 DEF Glued
    <3> QED
      BY <3>1, <3>2
  <2> QED
    BY <2>1, <2>2 DEF Readable
<1>3. Readable(g, 0) \subseteq 1 .. Len(f) + 1
  BY <1>1 DEF Readable
<1>4. Len(f) + 1 \in Readable(g, 0) => x # Torn
  BY <1>1 DEF Readable
<1> QED
  BY <1>2, <1>3, <1>4 DEF g

-----------------------------------------------------------------------------
(* The chain of the entries in the WAL *)

Lines == Readable(walFile, 0)

\* The chain as the positions of the file have it: whole entries are in the order of their
\* calls, an entry points before its own call but not before an entry that can be read,
\* and in this process life at the very call before.
ChainOnFile ==
  /\ \A i, j \in 1 .. Len(walFile) :
       (i < j /\ walFile[i] # Torn /\ walFile[j] # Torn) => walFile[i].op < walFile[j].op
  /\ \A i \in Lines : walFile[i].prev < walFile[i].op
  /\ \A i, j \in Lines : i < j => walFile[i].op <= walFile[j].prev
  /\ \A i \in Lines : walFile[i].op > born + 1 => walFile[i].prev = walFile[i].op - 1

\* The end of the chain in memory: no entry that can be read is later, and since this
\* process has called Evolve it is the last call.
EndOfChain ==
  /\ up => \A i \in Lines : walFile[i].op <= walLast
  /\ up /\ Len(calls) > born => walLast = Len(calls)
  /\ ~up => born = Len(calls)

ChainInv == ChainOnFile /\ EndOfChain

\* Which chunks of the WAL can be read, and that they are entries.
LEMMA WalFacts ==
  ASSUME TypeOK
  PROVE  /\ walFile \in Seq(Entry \cup {Torn}) /\ Len(walFile) \in Nat
         /\ Len(calls) \in Nat /\ born \in Nat /\ born <= Len(calls)
         /\ walLast \in Nat /\ walLast <= Len(calls)
         /\ Lines \subseteq 1 .. Len(walFile)
         /\ \A i \in Lines : walFile[i] # Torn
         /\ \A i \in 1 .. Len(walFile) :
              walFile[i] # Torn => walFile[i].op \in Nat /\ walFile[i].prev \in Nat
<1>1. /\ walFile \in Seq(Entry \cup {Torn}) /\ Len(walFile) \in Nat
      /\ calls \in Seq(Call) /\ Len(calls) \in Nat
      /\ born \in 0 .. Len(calls) /\ walLast \in 0 .. Len(calls)
  BY LenProperties DEF TypeOK
<1>2. \A i \in 1 .. Len(walFile) : walFile[i] # Torn => walFile[i] \in Entry
  BY <1>1, ElementOfSeq
<1>3. Lines \subseteq 1 .. Len(walFile) /\ \A i \in Lines : walFile[i] # Torn
  BY <1>1 DEF Lines, Readable
<1> QED
  BY <1>1, <1>2, <1>3 DEF Entry

LEMMA InitChain == Init => ChainInv
<1> SUFFICES ASSUME Init  PROVE ChainInv
  OBVIOUS
<1>1. Len(walFile) = 0 /\ Len(calls) = 0 /\ up /\ born = 0
  BY EmptySeq DEF Init
<1>2. Lines = {}
  BY <1>1 DEF Lines, Readable
<1> QED
  BY <1>1, <1>2 DEF ChainInv, ChainOnFile, EndOfChain

\* An append of the call's entry, whole or cut short, or none.
LEMMA AppendChains ==
  ASSUME IInv, ChainInv, up, NEW op \in Nat, op = Len(calls) + 1, WalAppend(op),
         Len(calls') = op, UNCHANGED <<up, born>>
  PROVE  ChainInv'
<1>0. TypeOK /\ ProgressInv
  BY DEF IInv
<1>1. /\ walFile \in Seq(Entry \cup {Torn}) /\ Len(walFile) \in Nat
      /\ Len(calls) \in Nat /\ born \in Nat /\ born <= Len(calls)
      /\ walLast \in Nat /\ walLast <= Len(calls)
      /\ Lines \subseteq 1 .. Len(walFile)
      /\ \A i \in Lines : walFile[i] # Torn
      /\ \A i \in 1 .. Len(walFile) :
           walFile[i] # Torn => walFile[i].op \in Nat /\ walFile[i].prev \in Nat
  BY <1>0, WalFacts
<1>2. \A i \in 1 .. Len(walFile) : walFile[i] # Torn => walFile[i].op < op
  BY <1>0, <1>1 DEF ProgressInv
<1>3. walLast' = op
  BY DEF WalAppend
<1>4. PICK entry : entry = [op |-> op, prev |-> walLast]
  OBVIOUS
<1>5. entry \in Entry /\ entry # Torn /\ entry.op = op /\ entry.prev = walLast
  BY <1>1, <1>4, TornAssumption DEF Entry
<1>6. PICK n : n = Len(walFile) + 1
  OBVIOUS
<1>7. ASSUME NEW x \in Entry \cup {Torn}, x \in {entry, Torn}, walFile' = Append(walFile, x)
      PROVE  /\ \A i \in 1 .. Len(walFile') : walFile'[i] # Torn =>
                  \/ i \in 1 .. Len(walFile) /\ walFile'[i] = walFile[i]
                  \/ i = n /\ walFile'[i] = entry
             /\ \A i \in Lines' :
                  \/ i \in Lines /\ walFile'[i] = walFile[i]
                  \/ i = n /\ walFile'[i] = entry
  <2>1. /\ Len(walFile') = n
        /\ \A i \in 1 .. Len(walFile) : walFile'[i] = walFile[i]
        /\ walFile'[n] = x
    BY <1>1, <1>6, <1>7, AppendKeeps
  <2>2. /\ \A i \in 1 .. Len(walFile) : i \in Lines' <=> i \in Lines
        /\ Lines' \subseteq 1 .. n
        /\ n \in Lines' => x # Torn
    BY <1>1, <1>6, <1>7, ReadableGrows DEF Lines
  <2>3. \A i \in 1 .. n : i \in 1 .. Len(walFile) \/ i = n
    BY <1>1, <1>6
  <2> QED
    BY <1>7, <2>1, <2>2, <2>3
<1>8. /\ \A i \in 1 .. Len(walFile') : walFile'[i] # Torn =>
           \/ i \in 1 .. Len(walFile) /\ walFile'[i] = walFile[i]
           \/ i = n /\ walFile'[i] = entry
      /\ \A i \in Lines' :
           \/ i \in Lines /\ walFile'[i] = walFile[i]
           \/ i = n /\ walFile'[i] = entry
  <2>1. CASE walFile' = walFile
    BY <2>1 DEF Lines
  <2>2. CASE walFile' = Append(walFile, entry)
    BY <1>5, <1>7, <2>2
  <2>3. CASE walFile' = Append(walFile, Torn)
    BY <1>7, <2>3
  <2>4. walFile' \in {walFile, Append(walFile, entry), Append(walFile, Torn)}
    BY <1>4 DEF WalAppend, Written, CutShort
  <2> QED
    BY <2>1, <2>2, <2>3, <2>4
<1>9. ASSUME NEW i \in Lines
      PROVE  /\ i \in Nat /\ i < n
             /\ walFile[i].op \in Nat /\ walFile[i].op < op /\ walFile[i].op <= walLast
             /\ walFile[i].prev \in Nat
  BY <1>1, <1>2, <1>6 DEF ChainInv, EndOfChain
<1>10. ASSUME NEW i \in 1 .. Len(walFile'), NEW j \in 1 .. Len(walFile'), i < j,
              walFile'[i] # Torn, walFile'[j] # Torn
       PROVE  walFile'[i].op < walFile'[j].op
  <2>1. i \in 1 .. Len(walFile) /\ walFile'[i] = walFile[i]
    <3>1. CASE i = n
      <4>1. j \in 1 .. Len(walFile) \/ j = n
        BY <1>8, <1>10
      <4> QED
        BY <1>1, <1>6, <1>10, <3>1, <4>1
    <3> QED
      BY <1>8, <1>10, <3>1
  <2>2. CASE j \in 1 .. Len(walFile) /\ walFile'[j] = walFile[j]
    BY <1>10, <2>1, <2>2 DEF ChainInv, ChainOnFile
  <2>3. CASE walFile'[j] = entry
    BY <1>2, <1>5, <1>10, <2>1, <2>3
  <2> QED
    BY <1>8, <1>10, <2>2, <2>3
<1>11. ASSUME NEW i \in Lines'
       PROVE  /\ walFile'[i].prev < walFile'[i].op
              /\ walFile'[i].op > born' + 1 => walFile'[i].prev = walFile'[i].op - 1
              /\ walFile'[i].op <= op
  <2>1. CASE i \in Lines /\ walFile'[i] = walFile[i]
    <3>1. born' = born
      OBVIOUS
    <3> QED
      BY <1>9, <2>1, <3>1 DEF ChainInv, ChainOnFile
  <2>2. CASE walFile'[i] = entry
    <3>1. walLast < op
      BY <1>1
    <3>2. op > born + 1 => walLast = op - 1
      BY <1>1 DEF ChainInv, EndOfChain
    <3> QED
      BY <1>5, <2>2, <3>1, <3>2
  <2> QED
    BY <1>8, <2>1, <2>2
<1>12. ASSUME NEW i \in Lines', NEW j \in Lines', i < j
       PROVE  walFile'[i].op <= walFile'[j].prev
  <2>1. CASE i \in Lines /\ walFile'[i] = walFile[i]
    <3>1. CASE j \in Lines /\ walFile'[j] = walFile[j]
      BY <1>12, <2>1, <3>1 DEF ChainInv, ChainOnFile
    <3>2. CASE walFile'[j] = entry
      BY <1>5, <1>9, <2>1, <3>2
    <3> QED
      BY <1>8, <3>1, <3>2
  <2>2. CASE i = n
    <3>1. CASE j \in Lines
      <4>1. j \in Nat /\ j < n
        BY <1>9, <3>1
      <4> QED
        BY <1>1, <1>6, <1>12, <2>2, <4>1
    <3>2. CASE j = n
      BY <1>1, <1>6, <1>12, <2>2, <3>2
    <3> QED
      BY <1>8, <3>1, <3>2
  <2> QED
    BY <1>8, <2>1, <2>2
<1>13. ChainOnFile'
  BY <1>10, <1>11, <1>12 DEF ChainOnFile
<1>14. EndOfChain'
  BY <1>3, <1>11 DEF EndOfChain
<1> QED
  BY <1>13, <1>14 DEF ChainInv

\* The steps that do not write to the WAL.
LEMMA RestChains ==
  ASSUME IInv, ChainInv, UNCHANGED walFile, Len(calls') = Len(calls),
         \/ UNCHANGED <<up, born, walLast>>
         \/ ~up' /\ born' = Len(calls)
  PROVE  ChainInv'
<1>0. TypeOK /\ ProgressInv
  BY DEF IInv
<1>1. Lines' = Lines
  BY DEF Lines
<1>2. CASE UNCHANGED <<up, born, walLast>>
  <2>1. ChainOnFile'
    BY <1>1, <1>2 DEF ChainInv, ChainOnFile
  <2>2. EndOfChain'
    BY <1>1, <1>2 DEF ChainInv, EndOfChain
  <2> QED
    BY <2>1, <2>2 DEF ChainInv
<1>3. CASE ~up' /\ born' = Len(calls)
  <2>1. \A i \in Lines : ~ (walFile[i].op > born' + 1)
    <3>1. ASSUME NEW i \in Lines  PROVE walFile[i].op \in Nat /\ walFile[i].op <= Len(calls)
      BY <1>0, WalFacts DEF ProgressInv
    <3>2. Len(calls) \in Nat
      BY <1>0, WalFacts
    <3> QED
      BY <1>3, <3>1, <3>2
  <2>2. ChainOnFile'
    BY <1>1, <2>1 DEF ChainInv, ChainOnFile
  <2>3. EndOfChain'
    BY <1>3 DEF EndOfChain
  <2> QED
    BY <2>2, <2>3 DEF ChainInv
<1> QED
  BY <1>2, <1>3

\* NewWAL: the last entry it can read is the latest.
LEMMA RestartChains == ASSUME IInv, ChainInv, Restart PROVE ChainInv'
<1>1. /\ ~up /\ up' /\ UNCHANGED <<calls, walFile, born>>
      /\ \/ Lines = {} /\ walLast' = 0
         \/ \E k \in Lines : (\A j \in Lines : j <= k) /\ walLast' = walFile[k].op
  BY DEF Restart, diskVars, Lines
<1>2. Lines' = Lines /\ ChainOnFile'
  BY <1>1 DEF Lines, ChainInv, ChainOnFile
<1>3. ASSUME NEW i \in Lines  PROVE walFile[i].op <= walLast'
  <2>1. PICK k \in Lines : (\A j \in Lines : j <= k) /\ walLast' = walFile[k].op
    BY <1>1, <1>3
  <2>2. /\ i \in 1 .. Len(walFile) /\ k \in 1 .. Len(walFile) /\ Len(walFile) \in Nat
        /\ walFile[i] # Torn /\ walFile[k] # Torn
        /\ walFile[i].op \in Nat /\ walFile[k].op \in Nat
    BY WalFacts DEF IInv
  <2>3. CASE i = k
    BY <2>1, <2>2, <2>3
  <2>4. CASE i < k
    <3>1. walFile[i].op < walFile[k].op
      BY <2>2, <2>4 DEF ChainInv, ChainOnFile
    <3> QED
      BY <2>1, <2>2, <3>1
  <2>5. i <= k /\ i \in Nat /\ k \in Nat
    BY <2>1, <2>2
  <2> QED
    BY <2>3, <2>4, <2>5
<1>4. EndOfChain'
  <2>1. born' = Len(calls')
    BY <1>1 DEF ChainInv, EndOfChain
  <2>2. Len(calls') \in Nat
    BY <1>1, WalFacts DEF IInv
  <2> QED
    BY <1>1, <1>2, <1>3, <2>1, <2>2 DEF EndOfChain
<1> QED
  BY <1>2, <1>4 DEF ChainInv

LEMMA NextChains == IInv /\ ChainInv /\ [Next]_vars => ChainInv'
<1> SUFFICES ASSUME IInv, ChainInv, [Next]_vars  PROVE ChainInv'
  OBVIOUS
<1>0. calls \in Seq(Call) /\ Len(calls) \in Nat /\ pending \in 0 .. Len(calls)
  BY LenProperties DEF IInv, TypeOK
<1>1. ASSUME NEW c \in Candidates, NEW w \in Weights, NEW o \in Outcomes, Judge(c, w, o)
      PROVE  ChainInv'
  <2>1. PICK op : op = Len(calls) + 1
    OBVIOUS
  <2>2. /\ up /\ WalAppend(op) /\ UNCHANGED <<up, born>>
        /\ calls' = Append(calls, [candidate |-> c, weight |-> w, outcome |-> o])
    BY <1>1, <2>1 DEF Judge
  <2>3. [candidate |-> c, weight |-> w, outcome |-> o] \in Call
    BY DEF Call
  <2>4. Len(calls') = op /\ op \in Nat
    BY <1>0, <2>1, <2>2, <2>3, AppendKeeps
  <2> QED
    BY <2>1, <2>2, <2>4, AppendChains
<1>2. CASE EvolveRollsBack \/ EvolveDecides
  <2>1. {"rollback", "accepted", "rejected"} \subseteq Outcomes
    BY DEF Outcomes
  <2> QED
    BY <1>1, <1>2, <2>1 DEF EvolveRollsBack, EvolveDecides
<1>3. ASSUME NEW o \in Outcomes, pending # 0, calls' = [calls EXCEPT ![pending].outcome = o]
      PROVE  Len(calls') = Len(calls)
  BY <1>0, <1>3, OutcomeReplaced
<1>4. CASE StoreDecision
  BY <1>4, RestChains DEF StoreDecision
<1>5. CASE StoreFails
  <2>1. "unstored" \in Outcomes
    BY DEF Outcomes
  <2>2. Len(calls') = Len(calls)
    BY <1>3, <1>5, <2>1 DEF StoreFails
  <2> QED
    BY <1>5, <2>2, RestChains DEF StoreFails
<1>6. CASE Crash
  <2>1. "killed" \in Outcomes
    BY DEF Outcomes
  <2>2. Len(calls') = Len(calls)
    BY <1>3, <1>6, <2>1 DEF Crash
  <2> QED
    BY <1>6, <2>2, RestChains DEF Crash, diskVars
<1>7. CASE Restart
  BY <1>7, RestartChains
<1>8. CASE UNCHANGED vars
  BY <1>8, RestChains DEF vars, diskVars
<1> QED
  BY <1>2, <1>4, <1>5, <1>6, <1>7, <1>8 DEF Next

\* What the positions say, said of the lines that a restart would load.
LEMMA ChainLoaded == IInv /\ ChainInv => ChainMarksLosses
<1> SUFFICES ASSUME TypeOK, ChainOnFile  PROVE ChainMarksLosses
  BY DEF IInv, ChainInv
<1>1. /\ Len(walFile) \in Nat /\ Lines \subseteq 1 .. Len(walFile)
      /\ \A i \in Lines : /\ walFile[i] # Torn
                          /\ walFile[i].op \in Nat /\ walFile[i].prev \in Nat
  BY WalFacts
<1>2. Lines \in SUBSET Nat /\ IsFiniteSet(Lines)
  <2>1. IsFiniteSet(1 .. Len(walFile))
    BY <1>1, FS_Interval
  <2>2. IsFiniteSet(Lines)
    BY ONLY <1>1, <2>1, FS_Subset
  <2> QED
    BY <1>1, <2>2
<1>3. PICK n \in Nat : n = Cardinality(Lines)
  BY <1>2, NthEnumerates
<1>4. PICK at : at = [k \in 1 .. n |-> Nth(Lines, k)]
  OBVIOUS
<1>5. /\ \A k \in 1 .. n : at[k] \in Lines /\ at[k] = Nth(Lines, k)
      /\ \A i, j \in 1 .. n : i < j => at[i] < at[j]
  BY <1>2, <1>3, <1>4, NthEnumerates
<1>6. PICK loaded : loaded = [k \in 1 .. n |-> walFile[at[k]]]
  OBVIOUS
<1>7. Decoded(walFile) = loaded
  BY <1>3, <1>5, <1>6 DEF Decoded, Lines
<1>8. DOMAIN loaded = 1 .. n
  BY <1>6
<1>9. ASSUME NEW k \in 1 .. n
      PROVE  /\ loaded[k].op \in Nat /\ loaded[k].prev \in Nat
             /\ loaded[k].prev < loaded[k].op
             /\ loaded[k].op > born + 1 => loaded[k].prev = loaded[k].op - 1
  BY <1>1, <1>5, <1>6 DEF ChainOnFile
<1>10. ASSUME NEW i \in 1 .. n, NEW j \in 1 .. n, i < j
       PROVE  loaded[i].op < loaded[j].op /\ loaded[i].op <= loaded[j].prev
  <2>1. at[i] \in Lines /\ at[j] \in Lines /\ at[i] < at[j]
    BY <1>5, <1>10
  <2>2. loaded[i] = walFile[at[i]] /\ loaded[j] = walFile[at[j]]
    BY <1>6
  <2> QED
    BY <1>1, <2>1, <2>2 DEF ChainOnFile
<1> DEFINE present == { loaded[k].op : k \in DOMAIN loaded }
           before(k) == IF k = 1 THEN 0 ELSE loaded[k - 1].op
<1>11. ASSUME NEW k \in 1 .. n
       PROVE  /\ \/ loaded[k].prev = before(k)
                 \/ loaded[k].prev \in (before(k) + 1 .. loaded[k].op - 1) \ present
              /\ loaded[k].op > born + 1 => loaded[k].prev = loaded[k].op - 1
  <2>1. PICK b \in Nat : /\ b = before(k) /\ b <= loaded[k].prev
                         /\ \A m \in 1 .. n : m < k => loaded[m].op <= b
    <3>1. CASE k = 1
      BY <1>9, <3>1
    <3>2. CASE k # 1
      <4>1. PICK h \in 1 .. n : h = k - 1
        BY <3>2
      <4>2. h < k /\ before(k) = loaded[h].op
        BY <3>2, <4>1
      <4>3. loaded[h].op \in Nat /\ loaded[h].op <= loaded[k].prev
        BY <1>9, <1>10, <4>2
      <4>4. ASSUME NEW m \in 1 .. n, m < k  PROVE loaded[m].op <= loaded[h].op
        <5>1. m = h \/ m < h
          BY <4>1, <4>4
        <5>2. loaded[m].op \in Nat
          BY <1>9
        <5> QED
          BY <1>10, <4>3, <5>1, <5>2
      <4> HIDE DEF before
      <4> QED
        BY <4>2, <4>3, <4>4
    <3> QED
      BY <3>1, <3>2
  <2>2. PICK p \in Nat, o \in Nat : p = loaded[k].prev /\ o = loaded[k].op /\ p < o
    BY <1>9
  <2>3. CASE p # b
    <3>1. p \in b + 1 .. o - 1
      BY <2>1, <2>2, <2>3
    <3>2. ASSUME NEW m \in 1 .. n  PROVE loaded[m].op # p
      <4>1. loaded[m].op \in Nat
        BY <1>9
      <4>2. CASE m < k
        BY <2>1, <3>1, <4>1, <4>2
      <4>3. CASE m = k
        BY <2>2, <4>1, <4>3
      <4>4. CASE k < m
        <5>1. o < loaded[m].op
          BY <1>10, <2>2, <4>4
        <5> QED
          BY <2>2, <4>1, <5>1
      <4> QED
        BY <4>2, <4>3, <4>4
    <3>3. p \notin present
      BY <1>8, <3>2
    <3> HIDE DEF present, before
    <3> QED
      BY <1>9, <2>1, <2>2, <3>1, <3>3
  <2> QED
    BY <1>9, <2>1, <2>2, <2>3
<1> QED
  BY <1>7, <1>8, <1>11 DEF ChainMarksLosses

-----------------------------------------------------------------------------
(* What is rebuilt from evolution.log *)

\* A sequence without its first elements.
LEMMA SuffixIs ==
  ASSUME NEW s \in Seq(Nat), NEW d \in 0 .. Len(s)
  PROVE  LET t == SubSeq(s, d + 1, Len(s))
         IN  /\ t \in Seq(Nat)
             /\ Len(t) = Len(s) - d
             /\ \A i \in 1 .. Len(t) : t[i] = s[d + i]
BY SubSeqProperties

\* r holds the last m elements of s, m being the smaller of n and the length of s.
LastElements(r, s, n, L, m) ==
  /\ r \in Seq(Nat)
  /\ L \in Nat /\ Len(s) = L
  /\ m \in Nat /\ Len(r) = m
  /\ (L > n /\ m = n) \/ (L <= n /\ m = L)
  /\ \A i \in 1 .. m : r[i] = s[(L - m) + i]

IsRecent(r, s, n) == \E L, m \in Nat : LastElements(r, s, n, L, m)

\* What is left of a sequence in a window: its last elements.
LEMMA RecentIs ==
  ASSUME NEW s \in Seq(Nat), NEW n \in Nat \ {0}
  PROVE  IsRecent(Recent(s, n), s, n)
<1>0. PICK L \in Nat : L = Len(s)
  BY LenProperties
<1>1. PICK d \in 0 .. L : (L > n /\ d = L - n) \/ (L <= n /\ d = 0)
  <2>1. CASE L > n
    <3>1. L - n \in 0 .. L
      BY <2>1
    <3> QED
      BY <2>1, <3>1
  <2>2. CASE L <= n
    <3>1. 0 \in 0 .. L
      OBVIOUS
    <3> QED
      BY <2>2, <3>1
  <2> QED
    BY <2>1, <2>2
<1>2. PICK m \in Nat : m = L - d
  OBVIOUS
<1>3. (IF L > n THEN L - n + 1 ELSE 1) = d + 1
  BY <1>1
<1>4. PICK t : t = SubSeq(s, d + 1, L)
  OBVIOUS
<1>5. Recent(s, n) = t
  BY <1>0, <1>3, <1>4 DEF Recent
<1>6. /\ t \in Seq(Nat) /\ Len(t) = L - d
      /\ \A i \in 1 .. Len(t) : t[i] = s[d + i]
  BY <1>0, <1>4, SuffixIs
<1>7. (L > n /\ m = n) \/ (L <= n /\ m = L)
  BY <1>1, <1>2
<1>8. L - m = d
  BY <1>2
<1>9. LastElements(t, s, n, L, m)
  BY <1>0, <1>2, <1>6, <1>7, <1>8 DEF LastElements
<1> QED
  BY <1>5, <1>9 DEF IsRecent

\* A window that slides along holds what is recent of all that was ever put into it.
LEMMA SlideIsRecent ==
  ASSUME NEW s \in Seq(Nat), NEW n \in Nat \ {0}, NEW x \in Nat
  PROVE  Slide(Recent(s, n), n, x) = Recent(Append(s, x), n)
<1>1. PICK r : r = Recent(s, n)
  OBVIOUS
<1>2. PICK t : t = Append(r, x)
  OBVIOUS
<1>3. PICK u : u = Append(s, x)
  OBVIOUS
<1>4. IsRecent(r, s, n)
  BY <1>1, RecentIs
<1>5. PICK L, m \in Nat : LastElements(r, s, n, L, m)
  BY <1>4 DEF IsRecent
<1>6. /\ r \in Seq(Nat) /\ Len(r) = m /\ Len(s) = L
      /\ \A i \in 1 .. m : r[i] = s[(L - m) + i]
  BY <1>5 DEF LastElements
<1>7. (L > n /\ m = n) \/ (L <= n /\ m = L)
  BY <1>5 DEF LastElements
<1>8. /\ t \in Seq(Nat) /\ Len(t) = m + 1
      /\ \A i \in 1 .. m : t[i] = r[i]
      /\ t[m + 1] = x
  BY <1>2, <1>6, AppendKeeps
<1>9. /\ u \in Seq(Nat) /\ Len(u) = L + 1
      /\ \A i \in 1 .. L : u[i] = s[i]
      /\ u[L + 1] = x
  BY <1>3, <1>6, AppendKeeps
<1>10. ASSUME NEW i \in 1 .. m + 1  PROVE t[i] = u[L - m + i]
  <2>1. CASE i = m + 1
    <3>1. L - m + i = L + 1
      BY <2>1
    <3> QED
      BY <1>8, <1>9, <2>1, <3>1
  <2>2. CASE i \in 1 .. m
    <3>1. m <= L
      BY <1>7
    <3>2. PICK j \in 1 .. L : j = L - m + i
      BY ONLY <2>2, <3>1, m \in Nat, L \in Nat
    <3> QED
      BY <1>6, <1>8, <1>9, <2>2, <3>2
  <2> QED
    BY <2>1, <2>2
<1>11. IsRecent(Recent(t, n), t, n)
  BY <1>8, RecentIs
<1>12. IsRecent(Recent(u, n), u, n)
  BY <1>9, RecentIs
<1>13. PICK a, b \in Nat : LastElements(Recent(t, n), t, n, a, b)
  BY <1>11 DEF IsRecent
<1>14. PICK c, k \in Nat : LastElements(Recent(u, n), u, n, c, k)
  BY <1>12 DEF IsRecent
<1>15. Len(t) = a /\ ((a > n /\ b = n) \/ (a <= n /\ b = a))
  BY <1>13 DEF LastElements
<1>16. Len(u) = c /\ ((c > n /\ k = n) \/ (c <= n /\ k = c))
  BY <1>14 DEF LastElements
<1>17. a = m + 1 /\ c = L + 1
  BY <1>8, <1>9, <1>15, <1>16
<1>18. b = k /\ k <= m + 1
  BY <1>7, <1>15, <1>16, <1>17
<1>19. /\ Recent(t, n) \in Seq(Nat) /\ Len(Recent(t, n)) = k
       /\ \A i \in 1 .. k : Recent(t, n)[i] = t[((m + 1) - k) + i]
  BY <1>13, <1>17, <1>18 DEF LastElements
<1>20. /\ Recent(u, n) \in Seq(Nat) /\ Len(Recent(u, n)) = k
       /\ \A i \in 1 .. k : Recent(u, n)[i] = u[((L + 1) - k) + i]
  BY <1>14, <1>17 DEF LastElements
<1>21. ASSUME NEW i \in 1 .. k  PROVE Recent(t, n)[i] = Recent(u, n)[i]
  <2>1. PICK j \in 1 .. m + 1 : j = (m + 1) - k + i
    BY ONLY <1>18, m \in Nat, k \in Nat, i \in 1 .. k
  <2>2. L - m + j = (L + 1) - k + i
    BY <2>1
  <2>3. t[j] = u[L - m + j]
    BY <1>10
  <2> QED
    BY <1>19, <1>20, <2>1, <2>2, <2>3
<1>22. Recent(t, n) = Recent(u, n)
  BY <1>19, <1>20, <1>21, SeqEqual
<1> QED
  BY <1>1, <1>2, <1>3, <1>22 DEF Slide

\* The scores of this process life, in the order of its calls.
LifeScores == [k \in 1 .. Len(calls) - born |-> ScoreOf(calls[born + k])]

\* The windows hold the last of them.
WindowsRecent ==
  /\ detector = Recent(LifeScores, DetectorSize)
  /\ longWindow = Recent(LifeScores, LongSize)

\* The line of this life's last call has the sequence number of the loop, which is 0
\* before the first call.
LastNumbered ==
  /\ \A i \in 1 .. Len(eventFile) :
       (eventFile[i] # Torn /\ eventFile[i].op = Len(calls) /\ Len(calls) > born)
         => eventFile[i].seq = sequence
  /\ Len(calls) = born => sequence = 0

ReplayInv == WindowsRecent /\ LastNumbered

LEMMA CallFacts ==
  ASSUME TypeOK
  PROVE  /\ calls \in Seq(Call) /\ Len(calls) \in Nat /\ DOMAIN calls = 1 .. Len(calls)
         /\ born \in Nat /\ born <= Len(calls)
         /\ \A k \in 1 .. Len(calls) :
              calls[k].candidate \in Nat /\ calls[k].weight \in Nat /\ ScoreOf(calls[k]) \in Nat
         /\ LifeScores \in Seq(Nat) /\ Len(LifeScores) = Len(calls) - born
<1>1. /\ calls \in Seq(Call) /\ Len(calls) \in Nat /\ DOMAIN calls = 1 .. Len(calls)
      /\ born \in 0 .. Len(calls)
  BY LenProperties DEF TypeOK
<1>2. ASSUME NEW k \in 1 .. Len(calls)
      PROVE  /\ calls[k].candidate \in Nat /\ calls[k].weight \in Nat
             /\ ScoreOf(calls[k]) \in Nat
  <2>1. calls[k] \in Call
    BY <1>1, ElementOfSeq
  <2>2. PICK c \in Nat, w \in Nat : c = calls[k].candidate /\ w = calls[k].weight
    BY <2>1, ScoresAssumption DEF Call
  <2>3. c * w \in Nat
    BY <2>2
  <2> QED
    BY <2>2, <2>3 DEF ScoreOf
<1>3. PICK n \in Nat : n = Len(calls) - born
  <2>1. Len(calls) \in Nat
    BY <1>1
  <2>2. born \in 0 .. Len(calls)
    BY <1>1
  <2>3. Len(calls) - born \in Nat
    BY ONLY <2>1, <2>2
  <2> QED
    BY <2>3
<1>4. ASSUME NEW k \in 1 .. n  PROVE ScoreOf(calls[born + k]) \in Nat
  <2>1. PICK j \in 1 .. Len(calls) : j = born + k
    BY <1>1, <1>3
  <2> QED
    BY <1>2, <2>1
<1>5. LifeScores \in [1 .. n -> Nat]
  BY <1>3, <1>4 DEF LifeScores
<1>6. LifeScores \in Seq(Nat) /\ DOMAIN LifeScores = 1 .. n
  BY <1>5, SeqDef
<1>7. Len(LifeScores) = n
  <2>1. Len(LifeScores) \in Nat /\ 1 .. Len(LifeScores) = 1 .. n
    BY <1>6, LenProperties
  <2> QED
    BY ONLY <2>1, n \in Nat
<1> QED
  BY <1>1, <1>2, <1>3, <1>6, <1>7

\* Nothing is recent before the first call of a process life.
LEMMA NothingRecent ==
  ASSUME NEW s \in Seq(Nat), Len(s) = 0, NEW n \in Nat \ {0}
  PROVE  Recent(s, n) = << >>
<1>1. IsRecent(Recent(s, n), s, n)
  BY RecentIs
<1>2. PICK L, m \in Nat : LastElements(Recent(s, n), s, n, L, m)
  BY <1>1 DEF IsRecent
<1>3. L = 0 /\ ((L > n /\ m = n) \/ (L <= n /\ m = L))
  BY <1>2 DEF LastElements
<1>4. m = 0
  BY <1>3
<1>5. Recent(s, n) \in Seq(Nat) /\ Len(Recent(s, n)) = 0
  BY <1>2, <1>4 DEF LastElements
<1> QED
  BY <1>5, EmptySeq

LEMMA InitReplay == Init => ReplayInv
<1> SUFFICES ASSUME Init  PROVE ReplayInv
  OBVIOUS
<1>1. /\ calls = << >> /\ eventFile = << >> /\ born = 0
      /\ detector = << >> /\ longWindow = << >> /\ sequence = 0
  BY DEF Init
<1>2. Len(calls) = 0 /\ Len(eventFile) = 0
  BY <1>1, EmptySeq
<1>3. TypeOK
  BY InitIInv DEF IInv
<1>4. LifeScores \in Seq(Nat) /\ Len(LifeScores) = 0
  BY <1>1, <1>2, <1>3, CallFacts
<1>5. WindowsRecent
  BY <1>1, <1>4, NothingRecent, WindowsAssumption DEF WindowsRecent
<1>6. LastNumbered
  BY <1>1, <1>2 DEF LastNumbered
<1> QED
  BY <1>5, <1>6 DEF ReplayInv

\* A call of Evolve: one more score, which no line of the log knows.
LEMMA JudgeReplays ==
  ASSUME IInv, ReplayInv, NEW c \in Candidates, NEW w \in Weights, NEW o \in Outcomes,
         Judge(c, w, o)
  PROVE  ReplayInv'
<1>0. TypeOK /\ ProgressInv
  BY DEF IInv
<1>1. /\ eventFile' = eventFile /\ born' = born
      /\ detector' = Slide(detector, DetectorSize, c * w)
      /\ longWindow' = Slide(longWindow, LongSize, c * w)
  BY DEF Judge, GateCheck
<1>2. PICK call \in Call : call = [candidate |-> c, weight |-> w, outcome |-> o]
  BY DEF Call
<1>3. calls' = Append(calls, call)
  BY <1>2 DEF Judge
<1>4. PICK n \in Nat, b \in Nat : n = Len(calls) /\ b = born /\ b <= n
  BY <1>0, CallFacts
<1>5. /\ Len(calls') = n + 1
      /\ \A i \in 1 .. n : calls'[i] = calls[i]
      /\ calls'[n + 1] = call
  BY <1>0, <1>3, <1>4, AppendKeeps, CallFacts
<1>6. PICK x \in Nat : x = c * w
  BY ScoresAssumption
<1>7. ScoreOf(call) = x
  BY <1>2, <1>6 DEF ScoreOf
<1>8. PICK s \in Seq(Nat), k \in Nat : s = LifeScores /\ k = n - b /\ Len(s) = k
  <2>1. LifeScores \in Seq(Nat) /\ Len(LifeScores) = n - b
    BY <1>0, <1>4, CallFacts
  <2>2. n - b \in Nat
    BY ONLY <1>4, n \in Nat, b \in Nat
  <2> QED
    BY <2>1, <2>2
<1>9. LifeScores' = Append(s, x)
  <2>1. PICK t : t = Append(s, x)
    OBVIOUS
  <2>2. /\ t \in Seq(Nat) /\ Len(t) = k + 1
        /\ \A i \in 1 .. k : t[i] = s[i]
        /\ t[k + 1] = x
    BY <1>8, <2>1, AppendKeeps
  <2>3. LifeScores' = [i \in 1 .. k + 1 |-> ScoreOf(calls'[b + i])]
    <3>1. (n + 1) - b = k + 1
      BY <1>8
    <3> QED
      BY <1>1, <1>4, <1>5, <3>1 DEF LifeScores, ScoreOf
  <2>4. ASSUME NEW i \in 1 .. k + 1  PROVE t[i] = ScoreOf(calls'[b + i])
    <3>1. CASE i = k + 1
      <4>1. b + i = n + 1
        BY <1>8, <3>1
      <4> QED
        BY <1>5, <1>7, <2>2, <3>1, <4>1
    <3>2. CASE i \in 1 .. k
      <4>1. PICK j \in 1 .. n : j = b + i
        BY <1>4, <1>8, <3>2
      <4>2. s[i] = ScoreOf(calls[j])
        BY <1>4, <1>8, <3>2, <4>1 DEF LifeScores
      <4> QED
        BY <1>5, <2>2, <3>2, <4>1, <4>2
    <3> QED
      BY <3>1, <3>2
  <2>5. t = [i \in 1 .. k + 1 |-> t[i]]
    BY <2>2, LenProperties
  <2> QED
    BY <2>1, <2>3, <2>4, <2>5
<1>10. detector = Recent(s, DetectorSize) /\ longWindow = Recent(s, LongSize)
  BY <1>8 DEF ReplayInv, WindowsRecent
<1>11. WindowsRecent'
  <2>1. DetectorSize \in Nat \ {0} /\ LongSize \in Nat \ {0}
    BY WindowsAssumption
  <2>2. Slide(detector, DetectorSize, x) = Recent(LifeScores', DetectorSize)
    BY <1>9, <1>10, <2>1, SlideIsRecent
  <2>3. Slide(longWindow, LongSize, x) = Recent(LifeScores', LongSize)
    BY <1>9, <1>10, <2>1, SlideIsRecent
  <2>4. detector' = Recent(LifeScores', DetectorSize)
    BY <1>1, <1>6, <2>2
  <2>5. longWindow' = Recent(LifeScores', LongSize)
    BY <1>1, <1>6, <2>3
  <2> QED
    BY <2>4, <2>5 DEF WindowsRecent
<1>12. LastNumbered'
  <2>1. ASSUME NEW i \in 1 .. Len(eventFile), eventFile[i] # Torn
        PROVE  eventFile[i].op # n + 1
    <3>1. eventFile[i].op <= n
      BY <1>0, <1>4, <2>1 DEF ProgressInv
    <3> QED
      BY <3>1
  <2>2. n + 1 # b
    BY <1>4
  <2> QED
    BY <1>1, <1>4, <1>5, <2>1, <2>2 DEF LastNumbered
<1> QED
  BY <1>11, <1>12 DEF ReplayInv

\* A step that leaves the scores of the calls and the windows alone.
LEMMA SameScores ==
  ASSUME IInv, ReplayInv, Len(calls') = Len(calls),
         \A k \in 1 .. Len(calls) : ScoreOf(calls'[k]) = ScoreOf(calls[k]),
         UNCHANGED <<born, detector, longWindow>>
  PROVE  WindowsRecent'
<1>1. PICK n \in Nat, b \in Nat : n = Len(calls) /\ b = born /\ b <= n
  BY CallFacts DEF IInv
<1>2. ASSUME NEW k \in 1 .. n - b  PROVE ScoreOf(calls'[b + k]) = ScoreOf(calls[b + k])
  <2>1. PICK j \in 1 .. n : j = b + k
    BY <1>1
  <2> QED
    BY <1>1, <2>1
<1>3. LifeScores' = [k \in 1 .. n - b |-> ScoreOf(calls'[b + k])]
  BY <1>1 DEF LifeScores, ScoreOf
<1>4. LifeScores = [k \in 1 .. n - b |-> ScoreOf(calls[b + k])]
  BY <1>1 DEF LifeScores
<1>5. LifeScores' = LifeScores
  BY <1>2, <1>3, <1>4
<1> QED
  BY <1>5 DEF ReplayInv, WindowsRecent

\* The outcome of a call is no part of its score.
LEMMA OutcomeKeepsScores ==
  ASSUME TypeOK, NEW i \in 1 .. Len(calls), NEW o \in Outcomes,
         calls' = [calls EXCEPT ![i].outcome = o]
  PROVE  /\ Len(calls') = Len(calls)
         /\ \A k \in 1 .. Len(calls) : ScoreOf(calls'[k]) = ScoreOf(calls[k])
<1>1. Len(calls') = Len(calls)
  BY CallFacts, OutcomeReplaced
<1>2. ASSUME NEW k \in 1 .. Len(calls)
      PROVE  calls'[k].candidate = calls[k].candidate /\ calls'[k].weight = calls[k].weight
  <2>1. calls[k] \in Call /\ DOMAIN calls = 1 .. Len(calls)
    BY CallFacts, ElementOfSeq
  <2> QED
    BY <2>1 DEF Call
<1> QED
  BY <1>1, <1>2 DEF ScoreOf

\* The second half of Evolve: the event of the last call, if it is written whole, has the
\* sequence number of the loop.
LEMMA StoreReplays ==
  ASSUME IInv, ReplayInv, StoreDecision \/ StoreFails
  PROVE  ReplayInv'
<1>0. TypeOK /\ ProgressInv
  BY DEF IInv
<1>1. pending # 0 /\ UNCHANGED <<born, detector, longWindow, sequence>>
  BY DEF StoreDecision, StoreFails, loopVars
<1>2. PICK n \in Nat : n = Len(calls)
  BY <1>0, CallFacts
<1>3. pending = n /\ n # 0 /\ n \in 1 .. n
  BY <1>0, <1>1, <1>2 DEF ProgressInv
<1>4. Len(calls') = n /\ \A k \in 1 .. n : ScoreOf(calls'[k]) = ScoreOf(calls[k])
  <2>1. CASE StoreDecision
    BY <1>2, <2>1 DEF StoreDecision, ScoreOf
  <2>2. CASE StoreFails
    <3>1. calls' = [calls EXCEPT ![n].outcome = "unstored"] /\ "unstored" \in Outcomes
      BY <1>3, <2>2 DEF StoreFails, Outcomes
    <3> QED
      BY <1>0, <1>2, <1>3, <3>1, OutcomeKeepsScores
  <2> QED
    BY <2>1, <2>2
<1>5. WindowsRecent'
  BY <1>1, <1>2, <1>4, SameScores
<1>6. eventFile \in Seq(EventLine \cup {Torn}) /\ Len(eventFile) \in Nat
  BY <1>0, LenProperties DEF TypeOK
<1>7. ASSUME NEW i \in 1 .. Len(eventFile), eventFile[i] # Torn
      PROVE  eventFile[i].op # n
  <2>1. eventFile[i].op < n
    BY <1>0, <1>1, <1>3, <1>7 DEF ProgressInv
  <2>2. eventFile[i] \in EventLine
    BY <1>6, <1>7, ElementOfSeq
  <2>3. eventFile[i].op \in Nat
    BY <2>2 DEF EventLine
  <2> QED
    BY <2>1, <2>3
<1>8. ASSUME NEW x \in EventLine \cup {Torn}, eventFile' = Append(eventFile, x),
             x # Torn => x.seq = sequence
      PROVE  LastNumbered'
  <2>1. /\ Len(eventFile') = Len(eventFile) + 1
        /\ \A i \in 1 .. Len(eventFile) : eventFile'[i] = eventFile[i]
        /\ eventFile'[Len(eventFile) + 1] = x
    BY <1>6, <1>8, AppendKeeps
  <2>2. ASSUME NEW i \in 1 .. Len(eventFile'), eventFile'[i] # Torn, eventFile'[i].op = n
        PROVE  eventFile'[i].seq = sequence
    <3>1. CASE i \in 1 .. Len(eventFile)
      BY <1>7, <2>1, <2>2, <3>1
    <3>2. CASE i = Len(eventFile) + 1
      BY <1>8, <2>1, <2>2, <3>2
    <3> QED
      BY <1>6, <2>1, <3>1, <3>2
  <2> QED
    BY <1>1, <1>2, <1>4, <2>2 DEF ReplayInv, LastNumbered
<1>9. LastNumbered'
  <2>1. CASE eventFile' = eventFile
    BY <1>1, <1>2, <1>4, <2>1 DEF ReplayInv, LastNumbered
  <2>2. CASE eventFile' = Append(eventFile, Torn)
    BY <1>8, <2>2
  <2>3. CASE StoreDecision
    <3>1. PICK line : line = [op |-> pending, seq |-> sequence]
      OBVIOUS
    <3>2. sequence \in Nat \ {0}
      BY <1>0, <1>1 DEF TypeOK, ProgressInv
    <3>3. line \in EventLine /\ line.seq = sequence
      BY <1>2, <1>3, <3>1, <3>2 DEF EventLine
    <3>4. eventFile' = Append(eventFile, line)
      BY <2>3, <3>1 DEF StoreDecision, Written
    <3> QED
      BY <1>8, <3>3, <3>4
  <2> QED
    BY <2>1, <2>2, <2>3 DEF StoreFails, CutShort
<1> QED
  BY <1>5, <1>9 DEF ReplayInv

\* A new life begins with empty windows and no calls.
LEMMA CrashReplays ==
  ASSUME IInv, Crash
  PROVE  ReplayInv'
<1>0. TypeOK'
  BY CrashStep DEF IInv
<1>1. detector' = << >> /\ longWindow' = << >> /\ sequence' = 0 /\ born' = Len(calls)
  BY DEF Crash
<1>2. Len(calls') = Len(calls) /\ Len(calls) \in Nat
  <2>1. TypeOK /\ Len(calls) \in Nat /\ pending \in 0 .. Len(calls)
    BY CallFacts DEF IInv, TypeOK
  <2>2. CASE pending = 0
    BY <2>1, <2>2 DEF Crash
  <2>3. CASE pending # 0
    <3>1. calls' = [calls EXCEPT ![pending].outcome = "killed"] /\ "killed" \in Outcomes
      BY <2>3 DEF Crash, Outcomes
    <3>2. pending \in 1 .. Len(calls)
      BY <2>1, <2>3
    <3> QED
      BY <2>1, <3>1, <3>2, OutcomeKeepsScores
  <2> QED
    BY <2>2, <2>3
<1>3. LifeScores' \in Seq(Nat) /\ Len(LifeScores') = 0
  <2>1. TypeOK => LifeScores \in Seq(Nat) /\ Len(LifeScores) = Len(calls) - born
    BY CallFacts
  <2>2. (TypeOK => LifeScores \in Seq(Nat) /\ Len(LifeScores) = Len(calls) - born)'
    BY CallFacts, PTL
  <2> QED
    BY <1>0, <1>1, <1>2, <2>2
<1>4. WindowsRecent'
  BY <1>1, <1>3, NothingRecent, WindowsAssumption DEF WindowsRecent
<1>5. LastNumbered'
  BY <1>1, <1>2 DEF LastNumbered
<1> QED
  BY <1>4, <1>5 DEF ReplayInv

LEMMA NextReplay == IInv /\ ReplayInv /\ [Next]_vars => ReplayInv'
<1> SUFFICES ASSUME IInv, ReplayInv, [Next]_vars  PROVE ReplayInv'
  OBVIOUS
<1>1. CASE EvolveRollsBack \/ EvolveDecides
  <2>1. {"rollback", "accepted", "rejected"} \subseteq Outcomes
    BY DEF Outcomes
  <2> QED
    BY <1>1, <2>1, JudgeReplays DEF EvolveRollsBack, EvolveDecides
<1>2. CASE StoreDecision \/ StoreFails
  BY <1>2, StoreReplays
<1>3. CASE Crash
  BY <1>3, CrashReplays
<1>4. CASE Restart \/ UNCHANGED vars
  <2>1. UNCHANGED <<calls, born, detector, longWindow, sequence, eventFile>>
    BY <1>4 DEF Restart, vars, loopVars, diskVars
  <2> QED
    BY <2>1 DEF ReplayInv, WindowsRecent, LifeScores, LastNumbered, ScoreOf
<1> QED
  BY <1>1, <1>2, <1>3, <1>4 DEF Next

\* What a reader of evolution.log gets: lines of the file, in the order of their calls.
LEMMA EventsInOrder ==
  ASSUME IInv
  PROVE  \E n \in Nat :
           /\ Events \in Seq(EventLine) /\ Len(Events) = n /\ DOMAIN Events = 1 .. n
           /\ \A k \in 1 .. n :
                \E i \in 1 .. Len(eventFile) : eventFile[i] # Torn /\ Events[k] = eventFile[i]
           /\ \A k \in 1 .. n : Events[k].op \in 1 .. Len(calls)
           /\ \A i, j \in 1 .. n : i < j => Events[i].op < Events[j].op
<1>1. TypeOK /\ ProgressInv /\ WriteAhead
  BY DEF IInv
<1>2. /\ eventFile \in Seq(EventLine \cup {Torn}) /\ Len(eventFile) \in Nat
      /\ DOMAIN eventFile = 1 .. Len(eventFile) /\ Len(calls) \in Nat
  BY <1>1, CallFacts, LenProperties DEF TypeOK
<1>3. PICK lines : lines = Readable(eventFile, 0)
  OBVIOUS
<1>4. lines \subseteq 1 .. Len(eventFile) /\ \A i \in lines : eventFile[i] # Torn
  BY <1>2, <1>3 DEF Readable
<1>5. lines \in SUBSET Nat /\ IsFiniteSet(lines)
  <2>1. IsFiniteSet(1 .. Len(eventFile))
    BY <1>2, FS_Interval
  <2>2. IsFiniteSet(lines)
    BY ONLY <1>4, <2>1, FS_Subset
  <2> QED
    BY <1>2, <1>4, <2>2
<1>6. PICK n \in Nat : n = Cardinality(lines)
  BY <1>5, NthEnumerates
<1>7. PICK at : at = [k \in 1 .. n |-> Nth(lines, k)]
  OBVIOUS
<1>8. /\ \A k \in 1 .. n : at[k] \in lines /\ at[k] = Nth(lines, k)
      /\ \A i, j \in 1 .. n : i < j => at[i] < at[j]
  BY <1>5, <1>6, <1>7, NthEnumerates
<1>9. Events = [k \in 1 .. n |-> eventFile[at[k]]]
  BY <1>3, <1>6, <1>8 DEF Events, Decoded
<1>10. ASSUME NEW k \in 1 .. n
       PROVE  /\ at[k] \in 1 .. Len(eventFile) /\ eventFile[at[k]] # Torn
              /\ Events[k] = eventFile[at[k]] /\ Events[k] \in EventLine
              /\ Events[k].op \in 1 .. Len(calls)
  <2>1. PICK i \in 1 .. Len(eventFile) : i = at[k] /\ eventFile[i] # Torn
    BY <1>4, <1>8
  <2>2. eventFile[i] \in EventLine /\ eventFile[i].op <= Len(calls)
    BY <1>1, <1>2, <2>1, ElementOfSeq DEF ProgressInv
  <2>3. eventFile[i].op \in Nat \ {0}
    BY <2>2 DEF EventLine
  <2> QED
    BY <1>2, <1>9, <2>1, <2>2, <2>3
<1>11. ASSUME NEW i \in 1 .. n, NEW j \in 1 .. n, i < j
       PROVE  Events[i].op < Events[j].op
  <2>1. /\ at[i] \in DOMAIN eventFile /\ at[j] \in DOMAIN eventFile /\ at[i] < at[j]
        /\ eventFile[at[i]] # Torn /\ eventFile[at[j]] # Torn
    BY <1>2, <1>8, <1>10, <1>11
  <2> QED
    BY <1>1, <1>10, <2>1 DEF WriteAhead
<1>12. Events \in Seq(EventLine) /\ DOMAIN Events = 1 .. n
  <2>1. Events \in [1 .. n -> EventLine]
    BY <1>9, <1>10
  <2> QED
    BY <2>1, SeqDef
<1>13. Len(Events) = n
  <2>1. Len(Events) \in Nat /\ 1 .. Len(Events) = 1 .. n
    BY <1>12, LenProperties
  <2> QED
    BY ONLY <2>1, n \in Nat
<1> QED
  BY <1>10, <1>11, <1>12, <1>13

\* In a strictly ascending list of numbers up to C, the member that has all the numbers
\* behind it in the list is as far from the end as it is from C.
LEMMA AscendingEnd ==
  ASSUME NEW n \in Nat, NEW C \in Nat, NEW f \in [1 .. n -> 1 .. C],
         \A i, j \in 1 .. n : i < j => f[i] < f[j],
         NEW k \in 1 .. n, \A op \in f[k] + 1 .. C : \E i \in 1 .. n : f[i] = op
  PROVE  n - k = C - f[k]
<1>1. PICK a \in 1 .. C : a = f[k]
  OBVIOUS
<1>2. PICK g : g = [i \in k + 1 .. n |-> f[i]]
  OBVIOUS
<1>3. ASSUME NEW i \in k + 1 .. n  PROVE g[i] = f[i] /\ i \in 1 .. n /\ g[i] \in a + 1 .. C
  <2>1. i \in 1 .. n /\ k < i
    OBVIOUS
  <2>2. f[k] < f[i] /\ f[i] \in 1 .. C
    BY <2>1
  <2> QED
    BY <1>1, <1>2, <2>1, <2>2
<1>4. g \in Injection(k + 1 .. n, a + 1 .. C)
  <2>1. g \in [k + 1 .. n -> a + 1 .. C]
    BY <1>2, <1>3
  <2>2. ASSUME NEW i \in k + 1 .. n, NEW j \in k + 1 .. n, i # j  PROVE g[i] # g[j]
    <3>1. g[i] \in Nat /\ g[j] \in Nat /\ (i < j => g[i] < g[j]) /\ (j < i => g[j] < g[i])
      BY <1>3
    <3>2. i < j \/ j < i
      BY <2>2
    <3> QED
      BY <3>1, <3>2
  <2> QED
    BY <2>1, <2>2 DEF Injection, IsInjective
<1>5. g \in Surjection(k + 1 .. n, a + 1 .. C)
  <2>1. ASSUME NEW op \in a + 1 .. C  PROVE \E i \in k + 1 .. n : g[i] = op
    <3>1. PICK i \in 1 .. n : f[i] = op
      BY <1>1
    <3>2. i # k /\ ~ (i < k)
      BY <1>1, <3>1
    <3>3. i \in k + 1 .. n
      BY <3>2
    <3> QED
      BY <1>2, <3>1, <3>3
  <2> QED
    BY <1>4, <2>1 DEF Injection, Surjection
<1>6. g \in Bijection(k + 1 .. n, a + 1 .. C)
  BY <1>4, <1>5 DEF Bijection
<1>7. IsFiniteSet(k + 1 .. n) /\ Cardinality(k + 1 .. n) = n - k
  <2>1. k + 1 \in Int /\ n \in Int /\ (k + 1 > n => n - k = 0)
    OBVIOUS
  <2> QED
    BY <2>1, FS_Interval
<1>8. Cardinality(a + 1 .. C) = C - a
  <2>1. a + 1 \in Int /\ C \in Int /\ (a + 1 > C => C - a = 0)
    OBVIOUS
  <2> QED
    BY <2>1, FS_Interval
<1>9. Cardinality(k + 1 .. n) = Cardinality(a + 1 .. C)
  BY <1>6, <1>7, FS_Bijection DEF ExistsBijection
<1> QED
  BY <1>1, <1>7, <1>8, <1>9

\* The last m of k and of l elements are the same.
SameEnd(s, t, k, l, m) == \A i \in 1 .. m : s[(k - m) + i] = t[(l - m) + i]

\* Two sequences with the same end leave the same in a window.
LEMMA SameRecent ==
  ASSUME NEW s \in Seq(Nat), NEW t \in Seq(Nat), NEW n \in Nat \ {0},
         NEW k \in Nat, NEW l \in Nat, NEW m \in Nat, Len(s) = k, Len(t) = l,
         (k > n /\ m = n) \/ (k <= n /\ m = k),
         (l > n /\ m = n) \/ (l <= n /\ m = l),
         SameEnd(s, t, k, l, m)
  PROVE  Recent(s, n) = Recent(t, n)
<1>1. IsRecent(Recent(s, n), s, n) /\ IsRecent(Recent(t, n), t, n)
  BY RecentIs
<1>2. PICK a, c \in Nat : LastElements(Recent(s, n), s, n, a, c)
  BY <1>1 DEF IsRecent
<1>3. PICK b, d \in Nat : LastElements(Recent(t, n), t, n, b, d)
  BY <1>1 DEF IsRecent
<1>4. Len(s) = a /\ ((a > n /\ c = n) \/ (a <= n /\ c = a))
  BY <1>2 DEF LastElements
<1>5. Len(t) = b /\ ((b > n /\ d = n) \/ (b <= n /\ d = b))
  BY <1>3 DEF LastElements
<1>6. a = k /\ b = l /\ c = m /\ d = m
  BY <1>4, <1>5
<1>7. /\ Recent(s, n) \in Seq(Nat) /\ Len(Recent(s, n)) = m
      /\ \A i \in 1 .. m : Recent(s, n)[i] = s[(k - m) + i]
  BY <1>2, <1>6 DEF LastElements
<1>8. /\ Recent(t, n) \in Seq(Nat) /\ Len(Recent(t, n)) = m
      /\ \A i \in 1 .. m : Recent(t, n)[i] = t[(l - m) + i]
  BY <1>3, <1>6 DEF LastElements
<1>9. \A i \in 1 .. m : Recent(s, n)[i] = Recent(t, n)[i]
  BY <1>7, <1>8 DEF SameEnd
<1> QED
  BY <1>7, <1>8, <1>9, SeqEqual

\* When the last n calls can be restored, the log ends with the scores that the window ends
\* with, and it does not end with fewer.
LEMMA WindowCatchesUp ==
  ASSUME IInv, NEW n \in Nat \ {0}, \A op \in LastCalls(n) : Restorable(op)
  PROVE  Recent([k \in DOMAIN Events |-> calls[Events[k].op].candidate], n)
           = Recent(LifeScores, n)
<1>0. TypeOK
  BY DEF IInv
<1>1. PICK N \in Nat :
        /\ DOMAIN Events = 1 .. N
        /\ \A k \in 1 .. N : Events[k].op \in 1 .. Len(calls)
        /\ \A i, j \in 1 .. N : i < j => Events[i].op < Events[j].op
  BY EventsInOrder
<1>2. PICK C \in Nat, b \in Nat : C = Len(calls) /\ b = born /\ b <= C
  BY <1>0, CallFacts
<1>3. PICK f : f = [k \in 1 .. N |-> Events[k].op]
  OBVIOUS
<1>4. /\ f \in [1 .. N -> 1 .. C]
      /\ \A i, j \in 1 .. N : i < j => f[i] < f[j]
  BY <1>1, <1>2, <1>3
<1>5. PICK m \in Nat : (C > n /\ m = n) \/ (C <= n /\ m = C)
  <2>1. CASE C > n
    BY <2>1
  <2>2. CASE C <= n
    BY <2>2
  <2> QED
    BY <2>1, <2>2
<1>6. ASSUME NEW op \in C - m + 1 .. C
      PROVE  /\ op \in 1 .. C /\ op > b
             /\ calls[op].weight = 1
             /\ \E k \in 1 .. N : f[k] = op
  <2>1. op \in 1 .. C /\ op > C - n
    BY <1>5
  <2>2. op \in LastCalls(n)
    BY <1>0, <1>2, <2>1, CallFacts DEF LastCalls
  <2>3. Restorable(op)
    BY <2>2
  <2>4. op > b /\ calls[op].weight = 1
    BY <1>2, <2>3 DEF Restorable
  <2>5. PICK k \in 1 .. N : Events[k].op = op
    BY <1>1, <2>3 DEF Restorable
  <2>6. f[k] = op
    BY <1>3, <2>5
  <2> QED
    BY <2>1, <2>4, <2>6
<1>7. ASSUME NEW op \in C - m + 1 .. C
      PROVE  \E k \in 1 .. N : f[k] = op /\ N - k = C - op
  <2>1. PICK k \in 1 .. N : f[k] = op
    BY <1>6
  <2>2. \A later \in f[k] + 1 .. C : later \in C - m + 1 .. C
    BY <1>5, <2>1
  <2>3. \A later \in f[k] + 1 .. C : \E i \in 1 .. N : f[i] = later
    BY <1>6, <2>2
  <2>4. N - k = C - f[k]
    BY <1>4, <2>3, AscendingEnd
  <2> QED
    BY <2>1, <2>4
<1>8. PICK s : s = [k \in 1 .. N |-> calls[f[k]].candidate]
  OBVIOUS
<1>9. s \in Seq(Nat) /\ Len(s) = N
  <2>1. \A k \in 1 .. N : calls[f[k]].candidate \in Nat
    BY <1>0, <1>2, <1>4, CallFacts
  <2>2. s \in [1 .. N -> Nat]
    BY <1>8, <2>1
  <2>3. s \in Seq(Nat) /\ DOMAIN s = 1 .. N
    BY <2>2, SeqDef
  <2>4. Len(s) \in Nat /\ 1 .. Len(s) = 1 .. N
    BY <2>3, LenProperties
  <2>5. Len(s) = N
    BY ONLY <2>4, N \in Nat
  <2> QED
    BY <2>3, <2>5
<1>10. [k \in DOMAIN Events |-> calls[Events[k].op].candidate] = s
  BY <1>1, <1>3, <1>8
<1>11. PICK l \in Nat : l = C - b
  <2>1. C - b \in Nat
    BY ONLY <1>2, C \in Nat, b \in Nat
  <2> QED
    BY <2>1
<1>12. LifeScores \in Seq(Nat) /\ Len(LifeScores) = l
  BY <1>0, <1>2, <1>11, CallFacts
<1>13. /\ (N > n /\ m = n) \/ (N <= n /\ m = N)
       /\ (l > n /\ m = n) \/ (l <= n /\ m = l)
  <2>1. CASE m = 0
    <3>1. C = 0
      BY <1>5, <2>1
    <3>2. N = 0
      <4>1. ASSUME N # 0  PROVE FALSE
        <5>1. 1 \in 1 .. N
          BY <4>1
        <5>2. f[1] \in 1 .. C
          BY <1>4, <5>1
        <5> QED
          BY <3>1, <5>2
      <4> QED
        BY <4>1
    <3>3. l = 0
      BY <1>2, <1>11, <3>1
    <3> QED
      BY <2>1, <3>2, <3>3
  <2>2. CASE m # 0
    <3>1. PICK op \in C - m + 1 .. C : op = C - m + 1
      BY <1>5, <2>2
    <3>2. PICK k \in 1 .. N : f[k] = op /\ N - k = C - op
      BY <1>7
    <3>3. N - k = m - 1 /\ N >= m
      BY <3>1, <3>2
    <3>4. op > b
      BY <1>6
    <3>5. l >= m
      BY <1>2, <1>11, <3>1, <3>4
    <3>6. CASE C > n
      BY <1>5, <3>3, <3>5, <3>6
    <3>7. CASE C <= n
      <4>1. m = C /\ op = 1
        BY <1>5, <3>1, <3>7
      <4>2. k = 1
        <5>1. ASSUME k # 1  PROVE FALSE
          <6>1. 1 \in 1 .. N /\ 1 < k
            BY <5>1
          <6>2. f[1] < f[k] /\ f[1] \in 1 .. C
            BY <1>4, <6>1
          <6> QED
            BY <3>2, <4>1, <6>2
        <5> QED
          BY <5>1
      <4>3. N = m
        BY <3>3, <4>2
      <4>4. l = m
        BY <1>2, <1>11, <3>5, <4>1
      <4> QED
        BY <3>7, <4>1, <4>3, <4>4
    <3> QED
      BY <3>6, <3>7
  <2> QED
    BY <2>1, <2>2
<1>14. ASSUME NEW i \in 1 .. m
       PROVE  s[(N - m) + i] = LifeScores[(l - m) + i]
  <2>1. PICK op \in C - m + 1 .. C : op = C - m + i
    BY <1>5
  <2>2. PICK k \in 1 .. N : f[k] = op /\ N - k = C - op
    BY <1>7
  <2>3. k = (N - m) + i
    BY <2>1, <2>2
  <2>4. s[k] = calls[op].candidate
    BY <1>8, <2>2
  <2>5. op \in 1 .. C /\ op > b /\ calls[op].weight = 1
    BY <1>6
  <2>6. PICK j \in 1 .. l : j = op - b
    BY <1>2, <1>11, <2>5
  <2>7. j = (l - m) + i
    BY <1>11, <2>1, <2>6
  <2>8. LifeScores[j] = ScoreOf(calls[op])
    <3>1. b + j = op
      BY <2>6
    <3> QED
      BY <1>2, <1>11, <3>1 DEF LifeScores
  <2>9. ScoreOf(calls[op]) = calls[op].candidate
    <3>1. PICK c \in Nat : c = calls[op].candidate
      BY <1>0, <1>2, <2>5, CallFacts
    <3>2. c * 1 = c
      OBVIOUS
    <3> QED
      BY <2>5, <3>1, <3>2 DEF ScoreOf
  <2> QED
    BY <2>3, <2>4, <2>7, <2>8, <2>9
<1>15. Recent(s, n) = Recent(LifeScores, n)
  <2>1. SameEnd(s, LifeScores, N, l, m)
    BY <1>14 DEF SameEnd
  <2> QED
    BY <1>9, <1>12, <1>13, <2>1, SameRecent
<1> QED
  BY <1>10, <1>15

\* The same for the sequence number and the last call.
LEMMA SequenceCatchesUp ==
  ASSUME IInv, LastNumbered, \A op \in LastCalls(1) : Restorable(op)
  PROVE  (IF Events = << >> THEN 0 ELSE Events[Len(Events)].seq) = sequence
<1>1. PICK N \in Nat :
        /\ Events \in Seq(EventLine) /\ Len(Events) = N /\ DOMAIN Events = 1 .. N
        /\ \A k \in 1 .. N :
             \E i \in 1 .. Len(eventFile) : eventFile[i] # Torn /\ Events[k] = eventFile[i]
        /\ \A k \in 1 .. N : Events[k].op \in 1 .. Len(calls)
        /\ \A i, j \in 1 .. N : i < j => Events[i].op < Events[j].op
  BY EventsInOrder
<1>2. PICK C \in Nat, b \in Nat : C = Len(calls) /\ b = born /\ b <= C /\ DOMAIN calls = 1 .. C
  BY CallFacts DEF IInv
<1>3. CASE C = 0
  <2>1. N = 0
    <3>1. ASSUME N # 0  PROVE FALSE
      <4>1. 1 \in 1 .. N
        BY <3>1
      <4>2. Events[1].op \in 1 .. C
        BY <1>1, <1>2, <4>1
      <4> QED
        BY <1>3, <4>2
    <3> QED
      BY <3>1
  <2>2. Events = << >>
    BY <1>1, <2>1, EmptySeq
  <2>3. b = C
    BY <1>2, <1>3
  <2>4. sequence = 0
    BY <1>2, <2>3 DEF LastNumbered
  <2> QED
    BY <2>2, <2>4
<1>4. CASE C # 0
  <2>1. C \in 1 .. C /\ C > C - 1
    BY <1>4
  <2>2. C \in LastCalls(1)
    BY <1>2, <2>1 DEF LastCalls
  <2>3. Restorable(C)
    BY <2>2
  <2>4. C > born
    BY <2>3 DEF Restorable
  <2>5. PICK k \in 1 .. N : Events[k].op = C
    BY <1>1, <2>3 DEF Restorable
  <2>6. k = N
    <3>1. ASSUME k # N  PROVE FALSE
      <4>1. N \in 1 .. N /\ k < N
        BY <3>1
      <4>2. Events[k].op < Events[N].op
        BY <1>1, <4>1
      <4>3. Events[N].op \in 1 .. C
        BY <1>1, <1>2, <4>1
      <4> QED
        BY <2>5, <4>2, <4>3
    <3> QED
      BY <3>1
  <2>7. PICK i \in 1 .. Len(eventFile) : eventFile[i] # Torn /\ Events[k] = eventFile[i]
    BY <1>1
  <2>8. eventFile[i].seq = sequence
    BY <1>2, <2>4, <2>5, <2>7 DEF LastNumbered
  <2>9. Events # << >>
    <3>1. N # 0
      BY <2>5
    <3> QED
      BY <1>1, <3>1, EmptySeq
  <2> QED
    BY <1>1, <2>6, <2>7, <2>8, <2>9
<1> QED
  BY <1>3, <1>4

LEMMA ReplayRebuilds == IInv /\ ReplayInv => ReplayCatchesUp
<1> SUFFICES ASSUME IInv, ReplayInv  PROVE ReplayCatchesUp
  OBVIOUS
<1>1. /\ detector = Recent(LifeScores, DetectorSize)
      /\ longWindow = Recent(LifeScores, LongSize)
  BY DEF ReplayInv, WindowsRecent
<1>2. DetectorSize \in Nat \ {0} /\ LongSize \in Nat \ {0}
  BY WindowsAssumption
<1>3. (\A op \in LastCalls(DetectorSize) : Restorable(op))
        => Rebuild(Events).detector = Live.detector
  BY <1>1, <1>2, WindowCatchesUp DEF Rebuild, Live
<1>4. (\A op \in LastCalls(LongSize) : Restorable(op))
        => Rebuild(Events).longWindow = Live.longWindow
  BY <1>1, <1>2, WindowCatchesUp DEF Rebuild, Live
<1>5. (\A op \in LastCalls(1) : Restorable(op))
        => Rebuild(Events).sequence = Live.sequence
  BY SequenceCatchesUp DEF ReplayInv, Rebuild, Live
<1> QED
  BY <1>3, <1>4, <1>5 DEF ReplayCatchesUp

-----------------------------------------------------------------------------
(* The theorems *)

\* The strengthened invariant holds in every reachable state.
THEOREM Inductive == Spec => []IInv
<1>1. Init => IInv
  BY InitIInv
<1>2. IInv /\ [Next]_vars => IInv'
  BY NextIInv
<1> QED
  BY <1>1, <1>2, PTL DEF Spec

\* The loop's state has its types in every reachable state: among others, no window
\* outgrows its size (anti_collapse.go:19-24, stability_gate.go:44-49).
THEOREM TypeCorrect == Spec => []TypeOK
<1>1. IInv => TypeOK
  BY DEF IInv
<1> QED
  BY <1>1, Inductive, PTL

\* The gate's detector and the loop's never part, whatever write fails
\* (stability_gate.go:45, safe_loop_v3.go:78).
THEOREM GateNeverParts == Spec => []GateInStep
<1>1. IInv => GateInStep
  BY DEF IInv
<1> QED
  BY <1>1, Inductive, PTL

\* Every decision in evolution.log was logged ahead in evolution.wal, or its WAL
\* write failed (safe_loop_v3.go:73-110).
THEOREM LoggedAhead == Spec => []WriteAhead
<1>1. IInv => WriteAhead
  BY DEF IInv
<1> QED
  BY <1>1, Inductive, PTL

\* The chain that a restart would load marks each loss and no other, whatever writes were
\* cut short and however often the process was killed (wal.go:66-89, 100-125).
THEOREM LossesMarked == Spec => []ChainMarksLosses
<1>1. Init => ChainInv
  BY InitChain
<1>2. IInv /\ ChainInv /\ [Next]_vars => ChainInv'
  BY NextChains
<1>3. IInv /\ ChainInv => ChainMarksLosses
  BY ChainLoaded
<1> QED
  BY <1>1, <1>2, <1>3, Inductive, PTL DEF Spec

\* Whatever was rolled back, weighted, lost or killed before: once the calls of the last
\* window can be restored, the state rebuilt from evolution.log has the live windows and
\* the live sequence number, for every size of the windows and every number of calls
\* (replay_engine.go:33-62, safe_loop_v3.go:67-112).
THEOREM RebuiltCatchesUp == Spec => []ReplayCatchesUp
<1>1. Init => ReplayInv
  BY InitReplay
<1>2. IInv /\ ReplayInv /\ [Next]_vars => ReplayInv'
  BY NextReplay
<1>3. IInv /\ ReplayInv => ReplayCatchesUp
  BY ReplayRebuilds
<1> QED
  BY <1>1, <1>2, <1>3, Inductive, PTL DEF Spec
==============================================================================
