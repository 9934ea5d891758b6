------------------------- MODULE HttpFrontendProofs -------------------------
(***************************************************************************)
(* Proofs about RateLimiter and HttpFrontend, for every set of tokens and  *)
(* requests, every limit, window and cap, and every bound.                 *)
(***************************************************************************)
EXTENDS HttpFrontend, FiniteSetTheorems, SequenceTheorems, TLAPS

-----------------------------------------------------------------------------
(* The limiter *)

\* What the quota rests on: the admissions of a token are in the order of time, and
\* the limiter remembers every one that is younger than the window.
Remembered ==
  \A tok \in Tokens :
    /\ \A i \in 1 .. Len(served[tok]) :
         /\ served[tok][i] <= now
         /\ now - served[tok][i] < Window => i \in requests[tok]
    /\ \A i, j \in 1 .. Len(served[tok]) : i <= j => served[tok][i] <= served[tok][j]

LimiterInv == LimiterTypeOK /\ Remembered /\ QuotaPerWindow

\* The young stamps are finitely many admissions.
LEMMA ValidIsFinite ==
  ASSUME LimiterTypeOK, NEW tok \in Tokens
  PROVE  /\ Valid(tok) \subseteq requests[tok]
         /\ Valid(tok) \subseteq 1 .. Len(served[tok])
         /\ IsFiniteSet(Valid(tok)) /\ Cardinality(Valid(tok)) \in Nat
<1>1. Len(served[tok]) \in Nat
  BY DEF LimiterTypeOK
<1>2. Valid(tok) \subseteq 1 .. Len(served[tok])
  BY DEF LimiterTypeOK, Valid
<1>3. IsFiniteSet(1 .. Len(served[tok]))
  BY <1>1, FS_Interval
<1>4. IsFiniteSet(Valid(tok))
  BY <1>2, <1>3, FS_Subset
<1> QED
  BY <1>2, <1>4, FS_CardinalityType DEF Valid

\* The heart of the quota: if the admission before the last Limit ones is young, they
\* all are, and the token is full.
LEMMA FullWhenYoung ==
  ASSUME LimiterTypeOK, Remembered, NEW tok \in Tokens,
         NEW i \in 1 .. Len(served[tok]), i + Limit = Len(served[tok]) + 1,
         now - served[tok][i] < Window
  PROVE  IsFull(tok)
<1>1. Len(served[tok]) \in Nat /\ Limit \in Nat /\ now \in Nat /\ Window \in Nat
  BY LimiterAssumption DEF LimiterTypeOK
<1>2. \A k \in 1 .. Len(served[tok]) : served[tok][k] \in Nat
  BY <1>1 DEF LimiterTypeOK
<1>3. i .. Len(served[tok]) \subseteq Valid(tok)
  <2> SUFFICES ASSUME NEW k \in i .. Len(served[tok])
               PROVE  k \in Valid(tok)
    OBVIOUS
  <2>1. k \in 1 .. Len(served[tok])
    BY <1>1
  <2>2. served[tok][i] <= served[tok][k]
    BY <2>1 DEF Remembered
  <2>3. now - served[tok][k] < Window
    BY <1>1, <1>2, <2>1, <2>2
  <2>4. k \in requests[tok]
    BY <2>1, <2>3 DEF Remembered
  <2> QED
    BY <2>3, <2>4 DEF Valid
<1>4. Cardinality(i .. Len(served[tok])) = Limit
  <2>1. i \in Int /\ Len(served[tok]) \in Int /\ i <= Len(served[tok]) + 1
    BY <1>1
  <2>2. Cardinality(i .. Len(served[tok]))
          = IF i > Len(served[tok]) THEN 0 ELSE Len(served[tok]) - i + 1
    BY <2>1, FS_Interval
  <2> QED
    BY <1>1, <2>1, <2>2
<1>5. Cardinality(i .. Len(served[tok])) <= Cardinality(Valid(tok))
  BY <1>3, ValidIsFinite, FS_Subset
<1> QED
  BY <1>1, <1>4, <1>5, ValidIsFinite DEF IsFull

LEMMA LimiterInitInv == LimiterInit => LimiterInv
BY EmptySeq DEF LimiterInit, LimiterInv, LimiterTypeOK, Remembered, QuotaPerWindow

LEMMA AdmitStep ==
  ASSUME LimiterInv, NEW tok \in Tokens, Admit(tok)
  PROVE  LimiterInv'
<1> DEFINE n == Len(served[tok])
           s == served[tok]
<1>1. /\ LimiterTypeOK /\ Remembered /\ QuotaPerWindow
      /\ s \in Seq(Nat) /\ n \in Nat /\ now \in Nat /\ now' = now
      /\ Limit \in Nat /\ Window \in Nat
  BY LimiterAssumption DEF LimiterInv, LimiterTypeOK, Admit
<1>2. served' = [served EXCEPT ![tok] = Append(s, now)]
  BY DEF Admit
<1>3. requests' = [requests EXCEPT ![tok] = Valid(tok) \cup {n + 1}]
  BY DEF Admit
<1>4. /\ served'[tok] = Append(s, now)
      /\ requests'[tok] = Valid(tok) \cup {n + 1}
      /\ \A u \in Tokens \ {tok} : served'[u] = served[u] /\ requests'[u] = requests[u]
  BY <1>1, <1>2, <1>3 DEF LimiterTypeOK
<1>5. /\ Append(s, now) \in Seq(Nat) /\ Len(Append(s, now)) = n + 1
      /\ \A i \in 1 .. n : Append(s, now)[i] = s[i]
      /\ Append(s, now)[n + 1] = now
  BY <1>1, AppendProperties
<1>6. \A i \in 1 .. n : s[i] \in Nat /\ s[i] <= now
  BY <1>1 DEF Remembered
<1>7. LimiterTypeOK'
  <2>1. served' \in [Tokens -> Seq(Nat)]
    BY <1>1, <1>2, <1>5 DEF LimiterTypeOK
  <2>2. Valid(tok) \subseteq 1 .. n
    BY <1>1, ValidIsFinite
  <2>3. Valid(tok) \cup {n + 1} \subseteq 1 .. n + 1
    BY <1>1, <2>2
  <2>4. requests' \in [Tokens -> SUBSET Nat]
    BY <1>1, <1>3, <2>3 DEF LimiterTypeOK
  <2>5. \A u \in Tokens : requests'[u] \subseteq 1 .. Len(served'[u])
    BY <1>1, <1>4, <1>5, <2>3 DEF LimiterTypeOK
  <2> QED
    BY <1>1, <2>1, <2>4, <2>5 DEF LimiterTypeOK
<1>8. Remembered'
  <2> SUFFICES ASSUME NEW u \in Tokens
               PROVE  /\ \A i \in 1 .. Len(served'[u]) :
                           /\ served'[u][i] <= now'
                           /\ now' - served'[u][i] < Window => i \in requests'[u]
                      /\ \A i, j \in 1 .. Len(served'[u]) :
                           i <= j => served'[u][i] <= served'[u][j]
    BY DEF Remembered
  <2>1. CASE u # tok
    BY <1>1, <1>4, <2>1 DEF Remembered
  <2>2. CASE u = tok
    <3>1. \A i \in 1 .. n + 1 : i \in 1 .. n \/ i = n + 1
      BY <1>1
    <3>2. ASSUME NEW i \in 1 .. n + 1
          PROVE  /\ served'[u][i] <= now'
                 /\ now' - served'[u][i] < Window => i \in requests'[u]
      <4>1. CASE i = n + 1
        BY <1>1, <1>4, <1>5, <2>2, <4>1
      <4>2. CASE i \in 1 .. n
        <5>1. served'[u][i] = s[i]
          BY <1>4, <1>5, <2>2, <4>2
        <5>2. now - s[i] < Window => i \in Valid(tok)
          BY <1>1, <4>2 DEF Remembered, Valid
        <5> QED
          BY <1>1, <1>4, <1>6, <2>2, <4>2, <5>1, <5>2
      <4> QED
        BY <3>1, <4>1, <4>2
    <3>3. ASSUME NEW i \in 1 .. n + 1, NEW j \in 1 .. n + 1, i <= j
          PROVE  served'[u][i] <= served'[u][j]
      <4>1. CASE j = n + 1
        <5>1. served'[u][j] = now'
          BY <1>1, <1>4, <1>5, <2>2, <4>1
        <5> QED
          BY <3>2, <5>1
      <4>2. CASE j \in 1 .. n
        <5>1. i \in 1 .. n
          BY <1>1, <3>3, <4>2
        <5>2. s[i] <= s[j]
          BY <1>1, <3>3, <4>2, <5>1 DEF Remembered
        <5> QED
          BY <1>4, <1>5, <2>2, <4>2, <5>1, <5>2
      <4> QED
        BY <3>1, <4>1, <4>2
    <3> QED
      BY <1>4, <1>5, <2>2, <3>2, <3>3
  <2> QED
    BY <2>1, <2>2
<1>9. QuotaPerWindow'
  <2> SUFFICES ASSUME NEW u \in Tokens,
                      NEW i \in 1 .. Len(served'[u]), NEW j \in 1 .. Len(served'[u]),
                      j = i + Limit
               PROVE  served'[u][j] - served'[u][i] >= Window
    BY DEF QuotaPerWindow
  <2>1. CASE u # tok
    BY <1>4, <2>1, <1>1 DEF QuotaPerWindow
  <2>2. CASE u = tok /\ j \in 1 .. n
    <3>1. i \in 1 .. n
      BY <1>1, <1>4, <1>5, <2>2
    <3>2. s[j] - s[i] >= Window
      BY <1>1, <2>2, <3>1 DEF QuotaPerWindow
    <3> QED
      BY <1>4, <1>5, <2>2, <3>1, <3>2
  <2>3. CASE u = tok /\ j = n + 1
    <3>1. ~IsFull(tok)
      BY DEF Admit
    <3>2. Limit # 0
      BY <1>1, <3>1, ValidIsFinite DEF IsFull
    <3>3. i \in 1 .. n
      BY <1>1, <1>4, <1>5, <2>3, <3>2
    <3>4. ~(now - s[i] < Window)
      BY <1>1, <2>3, <3>1, <3>3, FullWhenYoung
    <3>5. served'[u][j] = now /\ served'[u][i] = s[i]
      BY <1>4, <1>5, <2>3, <3>3
    <3> QED
      BY <1>1, <1>6, <3>3, <3>4, <3>5
  <2> QED
    BY <1>1, <1>4, <1>5, <2>1, <2>2, <2>3
<1> QED
  BY <1>7, <1>8, <1>9 DEF LimiterInv

\* Dropping stale stamps, or a token with its history, keeps the invariant.
LEMMA TrimStep ==
  ASSUME LimiterInv, UNCHANGED now,
         NEW gone \in SUBSET Tokens, NEW kept \in [Tokens -> SUBSET Nat],
         served' = [tok \in Tokens |-> IF tok \in gone THEN << >> ELSE served[tok]],
         requests' = [tok \in Tokens |-> IF tok \in gone THEN {} ELSE kept[tok]],
         \A tok \in Tokens : Valid(tok) \subseteq kept[tok] /\ kept[tok] \subseteq requests[tok]
  PROVE  LimiterInv'
<1>1. LimiterTypeOK /\ Remembered /\ QuotaPerWindow
  BY DEF LimiterInv
<1>2. \A tok \in Tokens :
         \/ served'[tok] = << >> /\ requests'[tok] = {}
         \/ served'[tok] = served[tok] /\ requests'[tok] = kept[tok]
  OBVIOUS
<1>3. LimiterTypeOK'
  <2>1. served' \in [Tokens -> Seq(Nat)]
    BY <1>1, EmptySeq DEF LimiterTypeOK
  <2>2. requests' \in [Tokens -> SUBSET Nat]
    BY <1>1
  <2>3. \A tok \in Tokens : requests'[tok] \subseteq 1 .. Len(served'[tok])
    BY <1>1, <1>2 DEF LimiterTypeOK
  <2> QED
    BY <1>1, <2>1, <2>2, <2>3 DEF LimiterTypeOK
<1>4. Remembered'
  <2> SUFFICES ASSUME NEW tok \in Tokens
               PROVE  /\ \A i \in 1 .. Len(served'[tok]) :
                           /\ served'[tok][i] <= now'
                           /\ now' - served'[tok][i] < Window => i \in requests'[tok]
                      /\ \A i, j \in 1 .. Len(served'[tok]) :
                           i <= j => served'[tok][i] <= served'[tok][j]
    BY DEF Remembered
  <2>1. CASE served'[tok] = << >>
    BY <2>1
  <2>2. CASE served'[tok] = served[tok] /\ requests'[tok] = kept[tok]
    BY <1>1, <2>2 DEF Remembered, Valid
  <2> QED
    BY <1>2, <2>1, <2>2
<1>5. QuotaPerWindow'
  BY <1>1, <1>2 DEF QuotaPerWindow
<1> QED
  BY <1>3, <1>4, <1>5 DEF LimiterInv

LEMMA RefuseStep ==
  ASSUME LimiterInv, NEW tok \in Tokens, Refuse(tok)
  PROVE  LimiterInv'
<1> DEFINE kept == [requests EXCEPT ![tok] = Valid(tok)]
<1>1. LimiterTypeOK
  BY DEF LimiterInv
<1>2. Valid(tok) \in SUBSET Nat
  BY <1>1 DEF LimiterTypeOK, Valid
<1>3. kept \in [Tokens -> SUBSET Nat]
  BY <1>1, <1>2 DEF LimiterTypeOK
<1>4. \A u \in Tokens : Valid(u) \subseteq kept[u] /\ kept[u] \subseteq requests[u]
  BY <1>1 DEF Valid, LimiterTypeOK
<1>5. served' = [u \in Tokens |-> IF u \in {} THEN << >> ELSE served[u]]
  BY <1>1 DEF Refuse, LimiterTypeOK
<1>6. requests' = [u \in Tokens |-> IF u \in {} THEN {} ELSE kept[u]]
  BY <1>1 DEF Refuse, LimiterTypeOK
<1>7. UNCHANGED now
  BY DEF Refuse
<1> HIDE DEF kept
<1>8. {} \in SUBSET Tokens
  OBVIOUS
<1> QED
  BY <1>3, <1>4, <1>5, <1>6, <1>7, <1>8, TrimStep

LEMMA CleanupStep ==
  ASSUME LimiterInv, Cleanup
  PROVE  LimiterInv'
<1> DEFINE kept == [tok \in Tokens |-> Valid(tok)]
<1>1. LimiterTypeOK
  BY DEF LimiterInv
<1>2. PICK gone \in SUBSET Tokens :
        /\ requests' = [tok \in Tokens |-> IF tok \in gone THEN {} ELSE Valid(tok)]
        /\ served' = [tok \in Tokens |-> IF tok \in gone THEN << >> ELSE served[tok]]
        /\ UNCHANGED now
  BY DEF Cleanup
<1>3. kept \in [Tokens -> SUBSET Nat]
  BY <1>1 DEF LimiterTypeOK, Valid
<1>4. \A u \in Tokens : Valid(u) \subseteq kept[u] /\ kept[u] \subseteq requests[u]
  BY DEF Valid
<1>5. requests' = [tok \in Tokens |-> IF tok \in gone THEN {} ELSE kept[tok]]
  BY <1>2
<1> HIDE DEF kept
<1> QED
  BY <1>2, <1>3, <1>4, <1>5, TrimStep

LEMMA ForgetStep ==
  ASSUME LimiterInv, Forget
  PROVE  LimiterInv'
BY EmptySeq DEF LimiterInv, Forget, LimiterTypeOK, Remembered, QuotaPerWindow

LEMMA TickStep ==
  ASSUME LimiterInv, Tick
  PROVE  LimiterInv'
<1>1. LimiterTypeOK /\ Remembered /\ QuotaPerWindow
  BY DEF LimiterInv
<1>2. now \in Nat /\ now' = now + 1 /\ served' = served /\ requests' = requests /\ Window \in Nat
  BY <1>1, LimiterAssumption DEF Tick, LimiterTypeOK
<1>3. \A tok \in Tokens : \A i \in 1 .. Len(served[tok]) : served[tok][i] \in Nat
  BY <1>1 DEF LimiterTypeOK
<1>4. LimiterTypeOK'
  BY <1>1, <1>2 DEF LimiterTypeOK
<1>5. Remembered'
  BY <1>1, <1>2, <1>3 DEF Remembered
<1>6. QuotaPerWindow'
  BY <1>1, <1>2 DEF QuotaPerWindow
<1> QED
  BY <1>4, <1>5, <1>6 DEF LimiterInv

\* Every step of the limiter keeps its invariant.
LEMMA LimiterStep ==
  ASSUME LimiterInv, [LimiterNext]_limiterVars
  PROVE  LimiterInv'
<1>1. CASE \E tok \in Tokens : Admit(tok) \/ Refuse(tok)
  BY <1>1, AdmitStep, RefuseStep
<1>2. CASE Cleanup \/ Forget \/ Tick
  BY <1>2, CleanupStep, ForgetStep, TickStep
<1>3. CASE UNCHANGED limiterVars
  BY <1>3 DEF limiterVars, LimiterInv, LimiterTypeOK, Remembered, QuotaPerWindow
<1> QED
  BY <1>1, <1>2, <1>3 DEF LimiterNext

\* The limiter alone: Limit + 1 admissions of a token in a row span at least a
\* window, for every limit, window and cap (ratelimit.go:66-161).
THEOREM LimiterQuota == LimiterSpec => []QuotaPerWindow
<1>1. LimiterInv /\ [LimiterNext]_limiterVars => LimiterInv'
  BY LimiterStep
<1>2. LimiterInv => QuotaPerWindow
  BY DEF LimiterInv
<1> QED
  BY LimiterInitInv, <1>1, <1>2, PTL DEF LimiterSpec

-----------------------------------------------------------------------------
(* The front end: its invariant *)

\* Who is in a handler holds the mutex and was checked against the token of now.
MutexInv ==
  \A r \in Requests :
    /\ pc[r] = "waiting" => up /\ asked[r].token \in Tokens
    /\ pc[r] \in InHandler => up /\ holder = r /\ asked[r].token = authToken

\* Tokens that exist are never given out again, so the file and the token in memory
\* are ahead of every rotation that has ended.
TokenInv ==
  /\ EnvToken \in issued
  /\ retired \subseteq issued \cup {Stub}
  /\ authToken \in issued \cup {Stub, None}
  /\ tokenFile \in issued \cup {Stub, Empty}
  /\ tokenFile \in retired => tokenFile = Stub
  /\ \A r \in Requests :
       /\ pc[r] \in {"truncated", "persisted"} =>
            newToken \in issued \ (retired \cup {Stub, authToken})
       /\ pc[r] = "persisted" => tokenFile = newToken

\* Only requests that have ended have a line or a final answer.
QueueInv ==
  /\ \A k \in 1 .. Len(queue) :
       pc[queue[k]] = "done" /\ reply[queue[k]] \in {"202", "500", "503"}
  /\ \A r \in Requests : pc[r] # "done" => reply[r] \in {"none", "503"}

FrontendInv ==
  TypeOK /\ MutexInv /\ TokenInv /\ QueueInv /\ RepliesTruthful /\ RetiredStaysOut

LEMMA FrontendInit == Init => FrontendInv
<1> SUFFICES ASSUME Init PROVE FrontendInv
  OBVIOUS
<1>1. TypeOK
  BY LimiterInitInv, EmptySeq, FrontendAssumption
     DEF Init, TypeOK, LimiterInv, Codes, InHandler, Paths
<1>2. MutexInv /\ QueueInv /\ RepliesTruthful /\ RetiredStaysOut
  BY DEF Init, MutexInv, QueueInv, RepliesTruthful, RetiredStaysOut, InHandler
<1>3. TokenInv
  BY FrontendAssumption DEF Init, TokenInv
<1> QED
  BY <1>1, <1>2, <1>3 DEF FrontendInv

\* With the mutex free or held by r, nobody else is in a handler.
LEMMA Alone ==
  ASSUME MutexInv, NEW r \in Requests, holder \in {None, r}
  PROVE  \A q \in Requests : q # r => pc[q] \notin InHandler
BY FrontendAssumption DEF MutexInv

\* What Finish does.
LEMMA FinishFacts ==
  ASSUME TypeOK, NEW r \in Requests, NEW code \in Codes, Finish(r, code)
  PROVE  /\ pc' \in [Requests -> {"idle", "waiting", "done", "gone"} \cup InHandler]
         /\ reply' \in [Requests -> Codes]
         /\ holder' = None
         /\ pc'[r] = "done"
         /\ reply'[r] = IF reply[r] = "none" THEN code ELSE reply[r]
         /\ \A q \in Requests : q # r => pc'[q] = pc[q] /\ reply'[q] = reply[q]
<1>1. /\ pc \in [Requests -> {"idle", "waiting", "done", "gone"} \cup InHandler]
      /\ reply \in [Requests -> Codes]
  BY DEF TypeOK
<1>2. (IF reply[r] = "none" THEN code ELSE reply[r]) \in Codes
  BY <1>1
<1> QED
  BY <1>1, <1>2 DEF Finish

\* A request ends without a line, without a rotation, and without success.
LEMMA RefusalStep ==
  ASSUME FrontendInv, LimiterTypeOK', NEW r \in Requests,
         NEW code \in {"400", "401", "429", "500"}, Finish(r, code),
         pc[r] # "done", holder \in {None, r},
         tokenFile' \in {tokenFile, Empty, Stub}, faults' \in Nat,
         UNCHANGED <<up, env, asked, newToken, authToken, issued, retired, queue, crashes>>
  PROVE  FrontendInv'
<1>1. TypeOK /\ MutexInv /\ TokenInv /\ QueueInv /\ RepliesTruthful /\ RetiredStaysOut
  BY DEF FrontendInv
<1>2. code \in Codes
  BY DEF Codes
<1>3. /\ pc' \in [Requests -> {"idle", "waiting", "done", "gone"} \cup InHandler]
      /\ reply' \in [Requests -> Codes]
      /\ holder' = None
      /\ pc'[r] = "done"
      /\ reply'[r] = IF reply[r] = "none" THEN code ELSE reply[r]
      /\ \A q \in Requests : q # r => pc'[q] = pc[q] /\ reply'[q] = reply[q]
  BY <1>1, <1>2, FinishFacts
<1>4. \A q \in Requests : q # r => pc[q] \notin InHandler
  BY <1>1, Alone
<1>5. \A k \in 1 .. Len(queue) : queue[k] \in Requests /\ queue[k] # r
  <2>1. \A k \in 1 .. Len(queue) : queue[k] \in Requests
    BY <1>1 DEF TypeOK
  <2> QED
    BY <1>1, <2>1 DEF QueueInv
<1>6. TypeOK'
  BY <1>1, <1>3, FrontendAssumption DEF TypeOK
<1>7. MutexInv'
  <2> SUFFICES ASSUME NEW q \in Requests
               PROVE  /\ pc'[q] = "waiting" => up /\ asked[q].token \in Tokens
                      /\ pc'[q] \notin InHandler
    BY DEF MutexInv
  <2> QED
    BY <1>1, <1>3, <1>4 DEF MutexInv, InHandler
<1>8. TokenInv'
  <2>1. \A q \in Requests : pc'[q] \notin {"truncated", "persisted"}
    BY <1>3, <1>4 DEF InHandler
  <2>2. /\ tokenFile' \in issued \cup {Stub, Empty}
        /\ tokenFile' \in retired => tokenFile' = Stub
    <3>1. Empty \notin retired
      BY <1>1, FrontendAssumption DEF TypeOK
    <3> QED
      BY <1>1, <3>1 DEF TokenInv
  <2> QED
    BY <1>1, <2>1, <2>2 DEF TokenInv
<1>9. QueueInv'
  <2>1. \A k \in 1 .. Len(queue) :
          pc'[queue[k]] = "done" /\ reply'[queue[k]] \in {"202", "500", "503"}
    BY <1>1, <1>3, <1>5 DEF QueueInv
  <2>2. \A q \in Requests : pc'[q] # "done" => reply'[q] \in {"none", "503"}
    BY <1>1, <1>3 DEF QueueInv
  <2> QED
    BY <2>1, <2>2 DEF QueueInv
<1>10. RepliesTruthful'
  <2>1. reply'[r] # "202"
    BY <1>1, <1>3 DEF QueueInv
  <2> SUFFICES ASSUME NEW q \in Requests
               PROVE  /\ reply'[q] = "202" => \E k \in 1 .. Len(queue) : queue[k] = q
                      /\ reply'[q] \in {"400", "401", "429"} =>
                           \A k \in 1 .. Len(queue) : queue[k] # q
    BY <1>1 DEF RepliesTruthful
  <2>2. CASE q = r
    BY <1>5, <2>1, <2>2
  <2>3. CASE q # r
    BY <1>1, <1>3, <2>3 DEF RepliesTruthful
  <2> QED
    BY <2>2, <2>3
<1>11. RetiredStaysOut'
  BY <1>1 DEF RetiredStaysOut
<1> QED
  BY <1>6, <1>7, <1>8, <1>9, <1>10, <1>11 DEF FrontendInv

\* The line of r joins the queue, and r ends.
LEMMA EnqueueStep ==
  ASSUME FrontendInv, UNCHANGED limiterVars, NEW r \in Requests,
         NEW code \in {"202", "500"}, Finish(r, code), queue' = Append(queue, r),
         pc[r] = "handling", faults' \in Nat,
         UNCHANGED <<up, env, asked, tokenVars, crashes>>
  PROVE  FrontendInv'
<1>1. TypeOK /\ MutexInv /\ TokenInv /\ QueueInv /\ RepliesTruthful /\ RetiredStaysOut
  BY DEF FrontendInv
<1>2. code \in Codes
  BY DEF Codes
<1>3. /\ pc' \in [Requests -> {"idle", "waiting", "done", "gone"} \cup InHandler]
      /\ reply' \in [Requests -> Codes]
      /\ holder' = None
      /\ pc'[r] = "done"
      /\ reply'[r] = IF reply[r] = "none" THEN code ELSE reply[r]
      /\ \A q \in Requests : q # r => pc'[q] = pc[q] /\ reply'[q] = reply[q]
  BY <1>1, <1>2, FinishFacts
<1>4. \A q \in Requests : q # r => pc[q] \notin InHandler
  BY <1>1, Alone DEF MutexInv, InHandler
<1>5. \A k \in 1 .. Len(queue) : queue[k] \in Requests /\ queue[k] # r
  <2>1. \A k \in 1 .. Len(queue) : queue[k] \in Requests
    BY <1>1 DEF TypeOK
  <2> QED
    BY <1>1, <2>1 DEF QueueInv
<1>6. /\ queue' \in Seq(Requests) /\ Len(queue') = Len(queue) + 1 /\ Len(queue) \in Nat
      /\ \A k \in 1 .. Len(queue) : queue'[k] = queue[k]
      /\ queue'[Len(queue) + 1] = r
      /\ \A k \in 1 .. Len(queue') : k \in 1 .. Len(queue) \/ k = Len(queue) + 1
  <2>1. queue \in Seq(Requests) /\ Len(queue) \in Nat
    BY <1>1 DEF TypeOK
  <2> QED
    BY <2>1, AppendProperties
<1>7. TypeOK'
  <2>1. LimiterTypeOK'
    BY <1>1 DEF TypeOK, LimiterTypeOK, limiterVars
  <2> QED
    BY <1>1, <1>3, <1>6, <2>1 DEF TypeOK, tokenVars
<1>8. MutexInv'
  <2> SUFFICES ASSUME NEW q \in Requests
               PROVE  /\ pc'[q] = "waiting" => up /\ asked[q].token \in Tokens
                      /\ pc'[q] \notin InHandler
    BY DEF MutexInv
  <2> QED
    BY <1>1, <1>3, <1>4 DEF MutexInv, InHandler
<1>9. TokenInv'
  <2>1. \A q \in Requests : pc'[q] \notin {"truncated", "persisted"}
    BY <1>3, <1>4 DEF InHandler
  <2> QED
    BY <1>1, <2>1 DEF TokenInv, tokenVars
<1>10. reply'[r] \in {"202", "500", "503"}
  BY <1>1, <1>3 DEF QueueInv
<1>11. QueueInv'
  <2>1. \A k \in 1 .. Len(queue') :
          pc'[queue'[k]] = "done" /\ reply'[queue'[k]] \in {"202", "500", "503"}
    <3> SUFFICES ASSUME NEW k \in 1 .. Len(queue')
                 PROVE pc'[queue'[k]] = "done" /\ reply'[queue'[k]] \in {"202", "500", "503"}
      OBVIOUS
    <3>1. CASE k \in 1 .. Len(queue)
      BY <1>1, <1>3, <1>5, <1>6, <3>1 DEF QueueInv
    <3>2. CASE k = Len(queue) + 1
      BY <1>3, <1>6, <1>10, <3>2
    <3> QED
      BY <1>6, <3>1, <3>2
  <2>2. \A q \in Requests : pc'[q] # "done" => reply'[q] \in {"none", "503"}
    BY <1>1, <1>3 DEF QueueInv
  <2> QED
    BY <2>1, <2>2 DEF QueueInv
<1>12. RepliesTruthful'
  <2>1. \A k, l \in 1 .. Len(queue') : queue'[k] = queue'[l] => k = l
    <3> SUFFICES ASSUME NEW k \in 1 .. Len(queue'), NEW l \in 1 .. Len(queue'),
                        queue'[k] = queue'[l]
                 PROVE  k = l
      OBVIOUS
    <3>1. CASE k \in 1 .. Len(queue) /\ l \in 1 .. Len(queue)
      BY <1>1, <1>6, <3>1 DEF RepliesTruthful
    <3>2. CASE k = Len(queue) + 1 \/ l = Len(queue) + 1
      BY <1>5, <1>6, <3>2
    <3> QED
      BY <1>6, <3>1, <3>2
  <2> SUFFICES ASSUME NEW q \in Requests
               PROVE  /\ reply'[q] = "202" => \E k \in 1 .. Len(queue') : queue'[k] = q
                      /\ reply'[q] \in {"400", "401", "429"} =>
                           \A k \in 1 .. Len(queue') : queue'[k] # q
    BY <2>1 DEF RepliesTruthful
  <2>2. CASE q = r
    <3>1. Len(queue) + 1 \in 1 .. Len(queue')
      BY <1>6
    <3> QED
      BY <1>6, <1>10, <2>2, <3>1
  <2>3. CASE q # r
    <3>1. ASSUME reply'[q] = "202" PROVE \E k \in 1 .. Len(queue') : queue'[k] = q
      <4>1. PICK k \in 1 .. Len(queue) : queue[k] = q
        BY <1>1, <1>3, <2>3, <3>1 DEF RepliesTruthful
      <4>2. k \in 1 .. Len(queue')
        BY <1>6
      <4> QED
        BY <1>6, <4>1, <4>2
    <3>2. ASSUME reply'[q] \in {"400", "401", "429"}, NEW k \in 1 .. Len(queue')
          PROVE  queue'[k] # q
      <4>1. CASE k \in 1 .. Len(queue)
        BY <1>1, <1>3, <1>6, <2>3, <3>2, <4>1 DEF RepliesTruthful
      <4>2. CASE k = Len(queue) + 1
        BY <1>6, <2>3, <4>2
      <4> QED
        BY <1>6, <4>1, <4>2
    <3> QED
      BY <3>1, <3>2
  <2> QED
    BY <2>2, <2>3
<1>13. RetiredStaysOut'
  BY <1>1 DEF RetiredStaysOut, tokenVars
<1> QED
  BY <1>7, <1>8, <1>9, <1>11, <1>12, <1>13 DEF FrontendInv

\* Steps that only move requests which hold nothing, and answer none but a timeout.
LEMMA QuietStep ==
  ASSUME FrontendInv, LimiterTypeOK',
         asked' \in [Requests -> [token : Tokens \cup {None}, path : Paths]],
         pc' \in [Requests -> {"idle", "waiting", "done", "gone"} \cup InHandler],
         reply' \in [Requests -> Codes],
         \A q \in Requests :
           /\ pc'[q] = "waiting" => up /\ asked'[q].token \in Tokens
           /\ pc'[q] \in InHandler => pc'[q] = pc[q] /\ asked'[q] = asked[q]
           /\ pc[q] = "done" => pc'[q] = "done" /\ reply'[q] = reply[q]
           /\ pc'[q] # "done" => reply'[q] \in {"none", "503"}
           /\ reply'[q] # reply[q] => reply'[q] \in {"401", "503"},
         UNCHANGED <<up, env, holder, tokenVars, queue, boundVars>>
  PROVE  FrontendInv'
<1>1. TypeOK /\ MutexInv /\ TokenInv /\ QueueInv /\ RepliesTruthful /\ RetiredStaysOut
  BY DEF FrontendInv
<1>2. TypeOK'
  BY <1>1 DEF TypeOK, tokenVars, boundVars
<1>3. MutexInv'
  BY <1>1 DEF MutexInv, tokenVars
<1>4. TokenInv'
  BY <1>1 DEF TokenInv, tokenVars, InHandler
<1>5. \A k \in 1 .. Len(queue) : queue[k] \in Requests
  BY <1>1 DEF TypeOK
<1>6. QueueInv'
  BY <1>1, <1>5 DEF QueueInv
<1>7. RepliesTruthful'
  <2> SUFFICES ASSUME NEW q \in Requests
               PROVE  /\ reply'[q] = "202" => \E k \in 1 .. Len(queue) : queue[k] = q
                      /\ reply'[q] \in {"400", "401", "429"} =>
                           \A k \in 1 .. Len(queue) : queue[k] # q
    BY <1>1 DEF RepliesTruthful
  <2>1. CASE pc[q] = "done"
    BY <1>1, <2>1 DEF RepliesTruthful
  <2>2. CASE pc[q] # "done"
    <3>1. \A k \in 1 .. Len(queue) : queue[k] # q
      BY <1>1, <1>5, <2>2 DEF QueueInv
    <3>2. reply[q] # "202"
      BY <1>1, <2>2 DEF QueueInv
    <3> QED
      BY <3>1, <3>2
  <2> QED
    BY <2>1, <2>2
<1>8. RetiredStaysOut'
  BY <1>1 DEF RetiredStaysOut, tokenVars
<1> QED
  BY <1>2, <1>3, <1>4, <1>6, <1>7, <1>8 DEF FrontendInv

LEMMA ArriveStep ==
  ASSUME FrontendInv, NEW r \in Requests, Arrive(r)
  PROVE  FrontendInv'
<1>1. TypeOK /\ QueueInv /\ MutexInv
  BY DEF FrontendInv
<1>2. PICK token \in Tokens \cup {None}, path \in Paths :
        /\ asked' = [asked EXCEPT ![r] = [token |-> token, path |-> path]]
        /\ pc' = [pc EXCEPT ![r] = IF token = None THEN "done" ELSE "waiting"]
        /\ reply' = [reply EXCEPT ![r] = IF token = None THEN "401" ELSE @]
  BY DEF Arrive
<1>3. /\ up /\ pc[r] = "idle"
      /\ UNCHANGED <<limiterVars, up, env, holder, tokenVars, queue, boundVars>>
  BY DEF Arrive
<1>4. LimiterTypeOK'
  BY <1>1, <1>3 DEF TypeOK, LimiterTypeOK, limiterVars
<1>5. asked' \in [Requests -> [token : Tokens \cup {None}, path : Paths]]
  BY <1>1, <1>2 DEF TypeOK
<1>6. pc' \in [Requests -> {"idle", "waiting", "done", "gone"} \cup InHandler]
  BY <1>1, <1>2 DEF TypeOK
<1>7. reply' \in [Requests -> Codes]
  BY <1>1, <1>2 DEF TypeOK, Codes
<1>8. ASSUME NEW q \in Requests
      PROVE  /\ pc'[q] = "waiting" => up /\ asked'[q].token \in Tokens
             /\ pc'[q] \in InHandler => pc'[q] = pc[q] /\ asked'[q] = asked[q]
             /\ pc[q] = "done" => pc'[q] = "done" /\ reply'[q] = reply[q]
             /\ pc'[q] # "done" => reply'[q] \in {"none", "503"}
             /\ reply'[q] # reply[q] => reply'[q] \in {"401", "503"}
  <2>1. CASE q = r
    BY <1>1, <1>2, <1>3, <2>1 DEF TypeOK, InHandler, QueueInv
  <2>2. CASE q # r
    BY <1>1, <1>2, <2>2 DEF TypeOK, QueueInv, MutexInv
  <2> QED
    BY <2>1, <2>2
<1> QED
  BY <1>3, <1>4, <1>5, <1>6, <1>7, <1>8, QuietStep

LEMMA TimesOutStep ==
  ASSUME FrontendInv, NEW r \in Requests, TimesOut(r)
  PROVE  FrontendInv'
<1>1. TypeOK /\ QueueInv /\ MutexInv
  BY DEF FrontendInv
<1>2. /\ up /\ pc[r] # "done"
      /\ reply' = [reply EXCEPT ![r] = "503"]
      /\ UNCHANGED <<limiterVars, up, env, asked, pc, holder, tokenVars, queue, boundVars>>
  BY DEF TimesOut, InHandler
<1>3. LimiterTypeOK'
  BY <1>1, <1>2 DEF TypeOK, LimiterTypeOK, limiterVars
<1>4. reply' \in [Requests -> Codes]
  BY <1>1, <1>2 DEF TypeOK, Codes
<1>5. /\ asked' \in [Requests -> [token : Tokens \cup {None}, path : Paths]]
      /\ pc' \in [Requests -> {"idle", "waiting", "done", "gone"} \cup InHandler]
  BY <1>1, <1>2 DEF TypeOK
<1>6. \A q \in Requests :
        /\ pc'[q] = "waiting" => up /\ asked'[q].token \in Tokens
        /\ pc'[q] \in InHandler => pc'[q] = pc[q] /\ asked'[q] = asked[q]
        /\ pc[q] = "done" => pc'[q] = "done" /\ reply'[q] = reply[q]
        /\ pc'[q] # "done" => reply'[q] \in {"none", "503"}
        /\ reply'[q] # reply[q] => reply'[q] \in {"401", "503"}
  BY <1>1, <1>2 DEF TypeOK, QueueInv, MutexInv
<1> QED
  BY <1>2, <1>3, <1>4, <1>5, <1>6, QuietStep

LEMMA OwnStep ==
  ASSUME FrontendInv, LimiterTypeOK',
         UNCHANGED <<up, env, asked, pc, reply, holder, tokenVars, queue, boundVars>>
  PROVE  FrontendInv'
<1>1. TypeOK /\ MutexInv /\ QueueInv
  BY DEF FrontendInv
<1>2. /\ asked' \in [Requests -> [token : Tokens \cup {None}, path : Paths]]
      /\ pc' \in [Requests -> {"idle", "waiting", "done", "gone"} \cup InHandler]
      /\ reply' \in [Requests -> Codes]
  BY <1>1 DEF TypeOK
<1>3. \A q \in Requests :
        /\ pc'[q] = "waiting" => up /\ asked'[q].token \in Tokens
        /\ pc'[q] \in InHandler => pc'[q] = pc[q] /\ asked'[q] = asked[q]
        /\ pc[q] = "done" => pc'[q] = "done" /\ reply'[q] = reply[q]
        /\ pc'[q] # "done" => reply'[q] \in {"none", "503"}
        /\ reply'[q] # reply[q] => reply'[q] \in {"401", "503"}
  BY <1>1 DEF MutexInv, QueueInv
<1> QED
  BY <1>2, <1>3, QuietStep

\* The handler starts.
LEMMA AcceptStep ==
  ASSUME FrontendInv, LimiterTypeOK', NEW r \in Requests, Accept(r)
  PROVE  FrontendInv'
<1>1. TypeOK /\ MutexInv /\ TokenInv /\ QueueInv /\ RepliesTruthful /\ RetiredStaysOut
  BY DEF FrontendInv
<1>2. /\ up /\ pc[r] = "waiting" /\ holder = None
      /\ asked[r].token = authToken
      /\ holder' = r
      /\ UNCHANGED <<up, env, asked, reply, tokenVars, queue, boundVars>>
  BY DEF Accept, Locks
<1>3. \A q \in Requests : q # r => pc[q] \notin InHandler
  BY <1>1, <1>2, Alone
<1>4. PICK step \in {"reading", "handling"} : pc' = [pc EXCEPT ![r] = step]
  BY DEF Accept, FirstSteps
<1>5. TypeOK'
  BY <1>1, <1>2, <1>4 DEF TypeOK, tokenVars, boundVars, InHandler
<1>6. pc'[r] \in {"reading", "handling"} /\ \A q \in Requests : q # r => pc'[q] = pc[q]
  BY <1>1, <1>2, <1>4 DEF TypeOK
<1>7. MutexInv'
  BY <1>1, <1>2, <1>3, <1>6 DEF MutexInv, tokenVars
<1>8. TokenInv'
  BY <1>1, <1>2, <1>6 DEF TokenInv, tokenVars
<1>9. \A k \in 1 .. Len(queue) : queue[k] \in Requests
  BY <1>1 DEF TypeOK
<1>10. QueueInv'
  BY <1>1, <1>2, <1>6, <1>9 DEF QueueInv
<1>11. RepliesTruthful' /\ RetiredStaysOut'
  BY <1>1, <1>2 DEF RepliesTruthful, RetiredStaysOut, tokenVars
<1> QED
  BY <1>5, <1>7, <1>8, <1>10, <1>11 DEF FrontendInv

\* The handler of /evolve has its body.
LEMMA BodyStep ==
  ASSUME FrontendInv, NEW r \in Requests, BodyEnds(r)
  PROVE  FrontendInv'
<1>1. TypeOK /\ MutexInv /\ TokenInv /\ QueueInv /\ RepliesTruthful /\ RetiredStaysOut
  BY DEF FrontendInv
<1>2. /\ pc[r] = "reading" /\ pc' = [pc EXCEPT ![r] = "handling"]
      /\ UNCHANGED <<limiterVars, up, env, asked, reply, holder, tokenVars, queue, boundVars>>
  BY DEF BodyEnds
<1>3. pc'[r] = "handling" /\ \A q \in Requests : q # r => pc'[q] = pc[q]
  BY <1>1, <1>2 DEF TypeOK
<1>4. TypeOK'
  <2>1. LimiterTypeOK'
    BY <1>1, <1>2 DEF TypeOK, LimiterTypeOK, limiterVars
  <2> QED
    BY <1>1, <1>2, <2>1 DEF TypeOK, tokenVars, boundVars, InHandler
<1>5. MutexInv'
  BY <1>1, <1>2, <1>3 DEF MutexInv, InHandler, tokenVars
<1>6. TokenInv'
  BY <1>1, <1>2, <1>3 DEF TokenInv, tokenVars
<1>7. \A k \in 1 .. Len(queue) : queue[k] \in Requests
  BY <1>1 DEF TypeOK
<1>8. QueueInv'
  BY <1>1, <1>2, <1>3, <1>7 DEF QueueInv
<1>9. RepliesTruthful' /\ RetiredStaysOut'
  BY <1>1, <1>2 DEF RepliesTruthful, RetiredStaysOut, tokenVars
<1> QED
  BY <1>4, <1>5, <1>6, <1>8, <1>9 DEF FrontendInv

\* The rotation draws its token and empties the file.
LEMMA TruncateStep ==
  ASSUME FrontendInv, NEW r \in Requests, RotateTruncates(r)
  PROVE  FrontendInv'
<1>1. TypeOK /\ MutexInv /\ TokenInv /\ QueueInv /\ RepliesTruthful /\ RetiredStaysOut
  BY DEF FrontendInv
<1>2. PICK token \in Fresh : newToken' = token /\ issued' = issued \cup {token}
  BY DEF RotateTruncates
<1>3. /\ pc[r] = "handling" /\ tokenFile' = Empty
      /\ pc' = [pc EXCEPT ![r] = "truncated"]
      /\ UNCHANGED <<limiterVars, up, env, asked, reply, holder, authToken, retired, queue,
                     boundVars>>
  BY DEF RotateTruncates
<1>4. token \in Tokens /\ token \notin issued /\ token # Stub /\ token # None
  BY <1>2, FrontendAssumption DEF Fresh
<1>5. holder = r
  BY <1>1, <1>3 DEF MutexInv, InHandler
<1>6. \A q \in Requests : q # r => pc[q] \notin InHandler
  BY <1>1, <1>5, Alone
<1>7. pc'[r] = "truncated" /\ \A q \in Requests : q # r => pc'[q] = pc[q]
  BY <1>1, <1>3 DEF TypeOK
<1>8. TypeOK'
  <2>1. LimiterTypeOK'
    BY <1>1, <1>3 DEF TypeOK, LimiterTypeOK, limiterVars
  <2> QED
    BY <1>1, <1>2, <1>3, <1>4, <2>1 DEF TypeOK, boundVars, InHandler
<1>9. MutexInv'
  BY <1>1, <1>3, <1>7 DEF MutexInv, InHandler
<1>10. TokenInv'
  <2>1. Empty \notin retired
    BY <1>1, FrontendAssumption DEF TypeOK
  <2>2. \A q \in Requests : /\ pc'[q] \in {"truncated", "persisted"} => q = r
                            /\ pc'[q] # "persisted"
    BY <1>6, <1>7 DEF InHandler
  <2>3. newToken' \in issued' \ (retired' \cup {Stub, authToken'})
    BY <1>1, <1>2, <1>3, <1>4 DEF TokenInv
  <2> QED
    BY <1>1, <1>2, <1>3, <2>1, <2>2, <2>3 DEF TokenInv
<1>11. \A k \in 1 .. Len(queue) : queue[k] \in Requests
  BY <1>1 DEF TypeOK
<1>12. QueueInv'
  BY <1>1, <1>3, <1>7, <1>11 DEF QueueInv
<1>13. RepliesTruthful' /\ RetiredStaysOut'
  BY <1>1, <1>3 DEF RepliesTruthful, RetiredStaysOut
<1> QED
  BY <1>8, <1>9, <1>10, <1>12, <1>13 DEF FrontendInv

\* The rotation writes the file.
LEMMA WriteStep ==
  ASSUME FrontendInv, NEW r \in Requests, RotateWrites(r)
  PROVE  FrontendInv'
<1>1. TypeOK /\ MutexInv /\ TokenInv /\ QueueInv /\ RepliesTruthful /\ RetiredStaysOut
  BY DEF FrontendInv
<1>2. /\ pc[r] = "truncated" /\ tokenFile' = newToken
      /\ pc' = [pc EXCEPT ![r] = "persisted"]
      /\ UNCHANGED <<limiterVars, up, env, asked, reply, holder, newToken, authToken, issued,
                     retired, queue, boundVars>>
  BY DEF RotateWrites
<1>3. newToken \in issued \ (retired \cup {Stub, authToken})
  BY <1>1, <1>2 DEF TokenInv
<1>4. pc'[r] = "persisted" /\ \A q \in Requests : q # r => pc'[q] = pc[q]
  BY <1>1, <1>2 DEF TypeOK
<1>5. TypeOK'
  <2>1. LimiterTypeOK'
    BY <1>1, <1>2 DEF TypeOK, LimiterTypeOK, limiterVars
  <2> QED
    BY <1>1, <1>2, <1>3, <2>1 DEF TypeOK, boundVars, InHandler
<1>6. MutexInv'
  BY <1>1, <1>2, <1>4 DEF MutexInv, InHandler
<1>7. TokenInv'
  BY <1>1, <1>2, <1>3, <1>4 DEF TokenInv
<1>8. \A k \in 1 .. Len(queue) : queue[k] \in Requests
  BY <1>1 DEF TypeOK
<1>9. QueueInv'
  BY <1>1, <1>2, <1>4, <1>8 DEF QueueInv
<1>10. RepliesTruthful' /\ RetiredStaysOut'
  BY <1>1, <1>2 DEF RepliesTruthful, RetiredStaysOut
<1> QED
  BY <1>5, <1>6, <1>7, <1>9, <1>10 DEF FrontendInv

\* The rotation takes effect.
LEMMA AssignStep ==
  ASSUME FrontendInv, NEW r \in Requests, RotateAssigns(r)
  PROVE  FrontendInv'
<1>1. TypeOK /\ MutexInv /\ TokenInv /\ QueueInv /\ RepliesTruthful /\ RetiredStaysOut
  BY DEF FrontendInv
<1>2. /\ pc[r] = "persisted" /\ Finish(r, "204")
      /\ authToken' = newToken /\ retired' = retired \cup {authToken}
      /\ UNCHANGED <<limiterVars, up, env, asked, newToken, tokenFile, issued, queue, boundVars>>
  BY DEF RotateAssigns
<1>3. /\ pc' \in [Requests -> {"idle", "waiting", "done", "gone"} \cup InHandler]
      /\ reply' \in [Requests -> Codes]
      /\ holder' = None
      /\ pc'[r] = "done"
      /\ reply'[r] = IF reply[r] = "none" THEN "204" ELSE reply[r]
      /\ \A q \in Requests : q # r => pc'[q] = pc[q] /\ reply'[q] = reply[q]
  <2>1. "204" \in Codes
    BY DEF Codes
  <2> QED
    BY <1>1, <1>2, <2>1, FinishFacts
<1>4. up /\ holder = r
  BY <1>1, <1>2 DEF MutexInv, InHandler
<1>5. \A q \in Requests : q # r => pc[q] \notin InHandler
  BY <1>1, <1>4, Alone
<1>6. /\ newToken \in issued /\ newToken \notin retired
      /\ newToken # Stub /\ newToken # authToken /\ tokenFile = newToken
      /\ authToken \in Tokens /\ authToken \in issued \cup {Stub}
  BY <1>1, <1>2, <1>4 DEF TokenInv, TypeOK
<1>7. TypeOK'
  <2>1. LimiterTypeOK'
    BY <1>1, <1>2 DEF TypeOK, LimiterTypeOK, limiterVars
  <2>2. /\ authToken' \in Tokens /\ authToken' # None /\ retired' \subseteq Tokens
    BY <1>1, <1>2, <1>6, FrontendAssumption DEF TypeOK
  <2> QED
    BY <1>1, <1>2, <1>3, <2>1, <2>2 DEF TypeOK, boundVars
<1>8. MutexInv'
  <2> SUFFICES ASSUME NEW q \in Requests
               PROVE  /\ pc'[q] = "waiting" => up' /\ asked'[q].token \in Tokens
                      /\ pc'[q] \notin InHandler
    BY DEF MutexInv
  <2> QED
    BY <1>1, <1>2, <1>3, <1>5 DEF MutexInv, InHandler
<1>9. TokenInv'
  <2>1. \A q \in Requests : pc'[q] \notin {"truncated", "persisted"}
    BY <1>3, <1>5 DEF InHandler
  <2> QED
    BY <1>1, <1>2, <1>6, <2>1 DEF TokenInv
<1>10. \A k \in 1 .. Len(queue) : queue[k] \in Requests /\ queue[k] # r
  <2>1. \A k \in 1 .. Len(queue) : queue[k] \in Requests
    BY <1>1 DEF TypeOK
  <2> QED
    BY <1>1, <1>2, <2>1 DEF QueueInv
<1>11. QueueInv'
  <2>1. \A k \in 1 .. Len(queue) :
          pc'[queue[k]] = "done" /\ reply'[queue[k]] \in {"202", "500", "503"}
    BY <1>1, <1>3, <1>10 DEF QueueInv
  <2>2. \A q \in Requests : pc'[q] # "done" => reply'[q] \in {"none", "503"}
    BY <1>1, <1>3 DEF QueueInv
  <2> QED
    BY <1>2, <2>1, <2>2 DEF QueueInv
<1>12. RepliesTruthful'
  <2>1. reply'[r] \in {"204", "503"}
    BY <1>1, <1>2, <1>3 DEF QueueInv
  <2>2. \A q \in Requests : q = r \/ reply'[q] = reply[q]
    BY <1>3
  <2> QED
    BY <1>1, <1>2, <2>1, <2>2 DEF RepliesTruthful
<1>13. RetiredStaysOut'
  BY <1>2, <1>6 DEF RetiredStaysOut
<1> QED
  BY <1>7, <1>8, <1>9, <1>11, <1>12, <1>13 DEF FrontendInv

\* The process is killed.
LEMMA CrashStep ==
  ASSUME FrontendInv, LimiterTypeOK', Crash
  PROVE  FrontendInv'
<1>1. TypeOK /\ MutexInv /\ TokenInv /\ QueueInv /\ RepliesTruthful /\ RetiredStaysOut
  BY DEF FrontendInv
<1>2. /\ crashes' = crashes + 1 /\ up' = FALSE
      /\ pc' = [r \in Requests |-> IF pc[r] \in {"waiting"} \cup InHandler THEN "gone" ELSE pc[r]]
      /\ holder' = None /\ authToken' = None /\ newToken' = None
      /\ UNCHANGED <<env, asked, reply, tokenFile, issued, retired, queue, faults>>
  BY DEF Crash
<1>3. ASSUME NEW q \in Requests
      PROVE  /\ pc'[q] \notin {"waiting"} \cup InHandler
             /\ pc'[q] = "done" <=> pc[q] = "done"
  <2>1. pc'[q] = IF pc[q] \in {"waiting"} \cup InHandler THEN "gone" ELSE pc[q]
    BY <1>2
  <2> QED
    BY <2>1 DEF InHandler
<1>4. TypeOK'
  <2>1. pc' \in [Requests -> {"idle", "waiting", "done", "gone"} \cup InHandler]
    BY <1>1, <1>2 DEF TypeOK
  <2>2. crashes' \in Nat
    BY <1>1, <1>2 DEF TypeOK
  <2> QED
    BY <1>1, <1>2, <2>1, <2>2 DEF TypeOK
<1>5. MutexInv'
  BY <1>3 DEF MutexInv
<1>6. TokenInv'
  BY <1>1, <1>2, <1>3 DEF TokenInv, InHandler
<1>7. \A k \in 1 .. Len(queue) : queue[k] \in Requests
  BY <1>1 DEF TypeOK
<1>8. QueueInv'
  BY <1>1, <1>2, <1>3, <1>7 DEF QueueInv
<1>9. RepliesTruthful' /\ RetiredStaysOut'
  BY <1>1, <1>2 DEF RepliesTruthful, RetiredStaysOut
<1> QED
  BY <1>4, <1>5, <1>6, <1>8, <1>9 DEF FrontendInv

\* The process starts and finds its token.
LEMMA RestartStep ==
  ASSUME FrontendInv, Restart
  PROVE  FrontendInv'
<1>1. TypeOK /\ MutexInv /\ TokenInv /\ QueueInv /\ RepliesTruthful /\ RetiredStaysOut
  BY DEF FrontendInv
<1>2. /\ ~up /\ up' = TRUE /\ TokenAtStart
      /\ UNCHANGED <<limiterVars, env, asked, pc, reply, holder, newToken, retired, queue,
                     crashes>>
  BY DEF Restart
<1>3. \A q \in Requests : pc'[q] \notin {"waiting"} \cup InHandler
  BY <1>1, <1>2 DEF MutexInv
<1>4. /\ authToken' \in Tokens /\ tokenFile' \in Tokens \cup {Empty}
      /\ issued' \subseteq Tokens /\ issued \subseteq issued' /\ faults' \in Nat
      /\ authToken' \in issued' \cup {Stub}
      /\ tokenFile' \in issued' \cup {Stub, Empty}
      /\ tokenFile' \in retired => tokenFile' = Stub
      /\ authToken' \in retired => authToken' \in {env, Stub}
  <2>0. /\ EnvToken \in Tokens /\ Stub \in Tokens
        /\ retired \subseteq issued \cup {Stub} /\ Empty \notin retired /\ EnvToken \in issued
    BY <1>1, FrontendAssumption DEF TypeOK, TokenInv
  <2>1. CASE env # None /\ authToken' = env /\ UNCHANGED <<tokenFile, issued, faults>>
    BY <1>1, <2>0, <2>1 DEF TypeOK, TokenInv
  <2>2. CASE /\ env = None /\ tokenFile # Empty /\ authToken' = tokenFile
             /\ UNCHANGED <<tokenFile, issued, faults>>
    BY <1>1, <2>0, <2>2 DEF TypeOK, TokenInv
  <2>3. CASE /\ env = None /\ tokenFile = Empty
             /\ authToken' \in Fresh
             /\ issued' = issued \cup {authToken'}
             /\ \/ tokenFile' = authToken' /\ UNCHANGED faults
                \/ faults < MaxFaults /\ tokenFile' \in {Empty, Stub} /\ faults' = faults + 1
    <3>1. authToken' \in Tokens /\ authToken' \notin issued /\ authToken' # Stub
      BY <2>3 DEF Fresh
    <3>2. faults' \in Nat
      BY <1>1, <2>3 DEF TypeOK
    <3>3. tokenFile' \in {authToken', Empty, Stub}
      BY <2>3
    <3>4. authToken' \notin retired
      BY <2>0, <3>1
    <3> QED
      BY <1>1, <2>0, <2>3, <3>1, <3>2, <3>3, <3>4 DEF TypeOK
  <2> QED
    BY <1>2, <2>1, <2>2, <2>3 DEF TokenAtStart
<1>5. TypeOK'
  <2>1. LimiterTypeOK'
    BY <1>1, <1>2 DEF TypeOK, LimiterTypeOK, limiterVars
  <2>2. authToken' # None
    BY <1>4, FrontendAssumption
  <2> QED
    BY <1>1, <1>2, <1>4, <2>1, <2>2 DEF TypeOK
<1>6. MutexInv'
  BY <1>3 DEF MutexInv
<1>7. TokenInv'
  <2>1. \A q \in Requests : pc'[q] \notin {"truncated", "persisted"}
    BY <1>3 DEF InHandler
  <2> QED
    BY <1>1, <1>2, <1>4, <2>1 DEF TokenInv
<1>8. QueueInv' /\ RepliesTruthful'
  BY <1>1, <1>2 DEF QueueInv, RepliesTruthful
<1>9. RetiredStaysOut'
  BY <1>2, <1>4 DEF RetiredStaysOut
<1> QED
  BY <1>5, <1>6, <1>7, <1>8, <1>9 DEF FrontendInv

-----------------------------------------------------------------------------
(* The front end: its theorems *)

\* Seen from the limiter, a step of the front end is a step of the limiter.
LEMMA UsesLimiter ==
  ASSUME FrontendInv, [Next]_vars
  PROVE  [LimiterNext]_limiterVars
<1>1. MutexInv
  BY DEF FrontendInv
<1>2. ASSUME NEW r \in Requests, Arrive(r) \/ BodyEnds(r) \/ Handle(r) \/ TimesOut(r)
      PROVE  UNCHANGED limiterVars
  BY <1>2 DEF Arrive, BodyEnds, Handle, TimesOut, HandlerRefuses, EnqueueEvolve,
              EnqueueFails, RotateTruncates, RotateWrites, RotateFails, RotateDrawsNone,
              RotateAssigns
<1>3. ASSUME NEW r \in Requests, Enter(r)
      PROVE  LimiterNext
  <2>1. asked[r].token \in Tokens
    BY <1>1, <1>3 DEF Enter, RefuseBusy, RefuseToken, Accept, Locks, MutexInv
  <2>2. Admit(asked[r].token) \/ Refuse(asked[r].token)
    BY <1>3 DEF Enter, RefuseBusy, RefuseToken, Accept
  <2> QED
    BY <2>1, <2>2 DEF LimiterNext
<1>4. CASE CleansUp \/ Passes \/ Crash
  BY <1>4 DEF CleansUp, Passes, Crash, LimiterNext
<1>5. CASE Restart
  BY <1>5 DEF Restart
<1>6. CASE UNCHANGED vars
  BY <1>6 DEF vars
<1> QED
  BY <1>2, <1>3, <1>4, <1>5, <1>6 DEF Next

\* A step in a handler keeps the invariant.
LEMMA HandleStep ==
  ASSUME FrontendInv, LimiterTypeOK', NEW r \in Requests, Handle(r)
  PROVE  FrontendInv'
<1>1. TypeOK /\ MutexInv /\ faults \in Nat /\ (pc[r] \in InHandler => holder = r)
  BY DEF FrontendInv, TypeOK, MutexInv
<1>2. CASE HandlerRefuses(r)
  <2>1. /\ Finish(r, "400") /\ pc[r] = "handling"
        /\ UNCHANGED <<up, env, asked, tokenVars, queue, boundVars>>
    BY <1>2 DEF HandlerRefuses
  <2>2. holder \in {None, r} /\ pc[r] # "done" /\ faults' \in Nat
    BY <1>1, <2>1 DEF InHandler, boundVars
  <2>3. /\ tokenFile' \in {tokenFile, Empty, Stub}
        /\ UNCHANGED <<up, env, asked, newToken, authToken, issued, retired, queue, crashes>>
    BY <2>1 DEF tokenVars, boundVars
  <2> QED
    BY <2>1, <2>2, <2>3, RefusalStep
<1>3. CASE EnqueueEvolve(r)
  <2>1. /\ Finish(r, "202") /\ pc[r] = "handling" /\ queue' = Append(queue, r)
        /\ UNCHANGED <<limiterVars, up, env, asked, tokenVars, crashes>> /\ faults' = faults
    BY <1>3 DEF EnqueueEvolve, boundVars
  <2> QED
    BY <1>1, <2>1, EnqueueStep
<1>4. CASE EnqueueFails(r)
  <2>1. /\ Finish(r, "500") /\ pc[r] = "handling" /\ queue' \in {queue, Append(queue, r)}
        /\ UNCHANGED <<limiterVars, up, env, asked, tokenVars, crashes>>
        /\ faults' = faults + 1
    BY <1>4 DEF EnqueueFails
  <2>2. holder \in {None, r} /\ pc[r] # "done" /\ faults' \in Nat
    BY <1>1, <2>1 DEF InHandler
  <2>3. CASE queue' = queue
    <3>1. /\ tokenFile' \in {tokenFile, Empty, Stub}
          /\ UNCHANGED <<up, env, asked, newToken, authToken, issued, retired, queue, crashes>>
      BY <2>1, <2>3 DEF tokenVars
    <3> QED
      BY <2>1, <2>2, <3>1, RefusalStep
  <2>4. CASE queue' = Append(queue, r)
    BY <2>1, <2>2, <2>4, EnqueueStep
  <2> QED
    BY <2>1, <2>3, <2>4
<1>5. CASE RotateFails(r)
  <2>1. /\ Finish(r, "500") /\ pc[r] \in {"handling", "truncated"}
        /\ tokenFile' \in {tokenFile, Empty, Stub} /\ faults' = faults + 1
        /\ UNCHANGED <<up, env, asked, newToken, authToken, issued, retired, queue, crashes>>
    BY <1>5 DEF RotateFails
  <2>2. holder \in {None, r} /\ pc[r] # "done" /\ faults' \in Nat
    BY <1>1, <2>1 DEF InHandler
  <2> QED
    BY <2>1, <2>2, RefusalStep
<1>6. CASE RotateDrawsNone(r)
  <2>1. /\ Finish(r, "500") /\ pc[r] = "handling"
        /\ UNCHANGED <<up, env, asked, tokenVars, queue, boundVars>>
    BY <1>6 DEF RotateDrawsNone
  <2>2. holder \in {None, r} /\ pc[r] # "done" /\ faults' \in Nat
    BY <1>1, <2>1 DEF InHandler, boundVars
  <2>3. /\ tokenFile' \in {tokenFile, Empty, Stub}
        /\ UNCHANGED <<up, env, asked, newToken, authToken, issued, retired, queue, crashes>>
    BY <2>1 DEF tokenVars, boundVars
  <2> QED
    BY <2>1, <2>2, <2>3, RefusalStep
<1> QED
  BY <1>2, <1>3, <1>4, <1>5, <1>6, TruncateStep, WriteStep, AssignStep DEF Handle

\* What happens under the limiter's mutex before a handler starts.
LEMMA EnterStep ==
  ASSUME FrontendInv, LimiterTypeOK', NEW r \in Requests, Enter(r)
  PROVE  FrontendInv'
<1>1. CASE Accept(r)
  BY <1>1, AcceptStep
<1>2. CASE RefuseBusy(r) \/ RefuseToken(r)
  <2>1. PICK code \in {"400", "401", "429", "500"} : Finish(r, code)
    BY <1>2 DEF RefuseBusy, RefuseToken
  <2>2. /\ pc[r] = "waiting" /\ holder = None
        /\ UNCHANGED <<up, env, asked, tokenVars, queue, boundVars>>
    BY <1>2 DEF RefuseBusy, RefuseToken, Locks
  <2>3. /\ holder \in {None, r} /\ pc[r] # "done" /\ faults' \in Nat
    BY <2>2 DEF FrontendInv, TypeOK, boundVars
  <2>4. /\ tokenFile' \in {tokenFile, Empty, Stub}
        /\ UNCHANGED <<up, env, asked, newToken, authToken, issued, retired, queue, crashes>>
    BY <2>2 DEF tokenVars, boundVars
  <2> QED
    BY <2>1, <2>2, <2>3, <2>4, RefusalStep
<1> QED
  BY <1>1, <1>2 DEF Enter

\* Every step keeps both invariants.
LEMMA FrontendStep ==
  ASSUME FrontendInv /\ LimiterInv, [Next]_vars
  PROVE  FrontendInv' /\ LimiterInv'
<1>1. LimiterInv'
  BY UsesLimiter, LimiterStep
<1>2. LimiterTypeOK'
  BY <1>1 DEF LimiterInv
<1>3. ASSUME NEW r \in Requests,
             Arrive(r) \/ Enter(r) \/ BodyEnds(r) \/ Handle(r) \/ TimesOut(r)
      PROVE  FrontendInv'
  BY <1>2, <1>3, ArriveStep, EnterStep, BodyStep, HandleStep, TimesOutStep
<1>4. ASSUME CleansUp \/ Passes PROVE FrontendInv'
  <2>1. UNCHANGED <<up, env, asked, pc, reply, holder, tokenVars, queue, boundVars>>
    BY <1>4 DEF CleansUp, Passes
  <2> QED
    BY <1>2, <2>1, OwnStep
<1>5. ASSUME Crash PROVE FrontendInv'
  BY <1>2, <1>5, CrashStep
<1>6. ASSUME Restart PROVE FrontendInv'
  BY <1>6, RestartStep
<1>7. ASSUME UNCHANGED vars PROVE FrontendInv'
  <2>1. UNCHANGED <<up, env, asked, pc, reply, holder, tokenVars, queue, boundVars>>
    BY <1>7 DEF vars
  <2> QED
    BY <1>2, <2>1, OwnStep
<1> QED
  BY <1>1, <1>3, <1>4, <1>5, <1>6, <1>7 DEF Next

\* The invariant of the front end and the one of its limiter hold together.
THEOREM Inductive == Spec => [](FrontendInv /\ LimiterInv)
<1>1. Init => FrontendInv /\ LimiterInv
  BY FrontendInit, LimiterInitInv DEF Init
<1>2. (FrontendInv /\ LimiterInv) /\ [Next]_vars => (FrontendInv /\ LimiterInv)'
  BY FrontendStep
<1> QED
  BY <1>1, <1>2, PTL DEF Spec

\* Type correctness of limiter and front end.
THEOREM TypeCorrect == Spec => []TypeOK
<1>1. FrontendInv /\ LimiterInv => TypeOK
  BY DEF FrontendInv
<1> QED
  BY <1>1, Inductive, PTL

\* The token a request was checked against is the server's token until its handler
\* returns, though nothing but the limiter's mutex orders the requests
\* (main.go:208-258, ratelimit.go:144).
THEOREM CheckedTokenHolds == Spec => []AuthStillValid
<1>1. FrontendInv /\ LimiterInv => AuthStillValid
  BY DEF FrontendInv, MutexInv, AuthStillValid
<1> QED
  BY <1>1, Inductive, PTL

\* A token that a rotation has replaced stays out, over any number of kills, torn
\* files and failed writes (main.go:57-75, 239-264).
THEOREM RotationSticks == Spec => []RetiredStaysOut
<1>1. FrontendInv /\ LimiterInv => RetiredStaysOut
  BY DEF FrontendInv
<1> QED
  BY <1>1, Inductive, PTL

\* What a client is told is what happened to its line (main.go:158, 278-304).
THEOREM AnswersTrue == Spec => []RepliesTruthful
<1>1. FrontendInv /\ LimiterInv => RepliesTruthful
  BY DEF FrontendInv
<1> QED
  BY <1>1, Inductive, PTL

\* The quota of the limiter holds in the service, with its kills and its clock.
THEOREM ServiceQuota == Spec => []QuotaPerWindow
<1>1. FrontendInv /\ LimiterInv => QuotaPerWindow
  BY DEF LimiterInv
<1> QED
  BY <1>1, Inductive, PTL
==============================================================================
