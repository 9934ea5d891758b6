---------------------------- MODULE RateLimiter ----------------------------
(***************************************************************************)
(* The limiter of the protected endpoints, RateLimiter (ratelimit.go): a   *)
(* sliding window of time stamps per bearer token, and the cleanup that    *)
(* drops stale stamps and, over a cap, whole tokens.  Each of its steps    *)
(* runs under RateLimiter.mu.                                              *)
(*                                                                         *)
(* Time is a count of ticks.  The list of stamps kept for a token is a set *)
(* of positions in `served`, the history of its admissions.                *)
(***************************************************************************)
EXTENDS Naturals, Sequences, FiniteSets

CONSTANTS
  Tokens,     \* what a client may present as a bearer token
  Limit,      \* RateLimiter.limit (10)
  Window,     \* RateLimiter.window (one minute), in ticks
  MaxTokens,  \* RateLimiter.maxTokens (1000)
  MaxTime     \* bound: ticks

ASSUME LimiterAssumption == Limit \in Nat /\ Window \in Nat /\ MaxTokens \in Nat

VARIABLES
  now,       \* the clock
  requests,  \* RateLimiter.requests: for each token, the admissions it remembers
  served     \* ghost: for each token, the times of its admissions since the limiter
             \* was made or dropped the token

limiterVars == <<now, requests, served>>

\* Each remembered stamp is one of the history, and the history is in order.
LimiterTypeOK ==
  /\ now \in Nat
  /\ served \in [Tokens -> Seq(Nat)]
  /\ requests \in [Tokens -> SUBSET Nat]
  /\ \A tok \in Tokens : requests[tok] \subseteq 1 .. Len(served[tok])

LimiterInit ==
  /\ now = 0
  /\ requests = [tok \in Tokens |-> {}]
  /\ served = [tok \in Tokens |-> << >>]

\* Mutant of Valid: a stamp is forgotten one tick early.
ValidShort(tok) == { n \in requests[tok] : now - served[tok][n] + 1 < Window }

\* The stamps of tok that are younger than the window.
Valid(tok) == { n \in requests[tok] : now - served[tok][n] < Window }

IsFull(tok) == Cardinality(Valid(tok)) >= Limit

\* Middleware below the limit: the request is counted and goes on.
Admit(tok) ==
  /\ ~IsFull(tok)
  /\ served' = [served EXCEPT ![tok] = Append(@, now)]
  /\ requests' = [requests EXCEPT ![tok] = Valid(tok) \cup {Len(served[tok]) + 1}]
  /\ UNCHANGED now

\* Middleware at the limit: HTTP 429; the stale stamps go all the same.
Refuse(tok) ==
  /\ IsFull(tok)
  /\ requests' = [requests EXCEPT ![tok] = Valid(tok)]
  /\ UNCHANGED <<now, served>>

\* valid[0] is the first stamp, so the one with the smallest position.
OlderOrEqual(a, b) ==
  \E i \in Valid(a) : (\A n \in Valid(a) : i <= n)
                      /\ \A j \in Valid(b) : served[a][i] <= served[b][j]

\* cleanup: tokens without a young stamp go; above MaxTokens, those whose first
\* young stamp is oldest go too (sort.Slice leaves ties open).
Cleanup ==
  LET active == { tok \in Tokens : Valid(tok) # {} }
      excess == IF Cardinality(active) > MaxTokens THEN Cardinality(active) - MaxTokens ELSE 0
  IN  \E evicted \in SUBSET active :
        /\ Cardinality(evicted) = excess
        /\ \A e \in evicted, k \in active \ evicted : OlderOrEqual(e, k)
        /\ requests' = [tok \in Tokens |-> IF tok \in evicted THEN {} ELSE Valid(tok)]
        /\ served' = [tok \in Tokens |-> IF tok \in evicted THEN << >> ELSE served[tok]]
        /\ UNCHANGED now

\* A process ends, and with it its limiter; NewRateLimiter starts from nothing.
Forget ==
  /\ requests' = [tok \in Tokens |-> {}]
  /\ served' = [tok \in Tokens |-> << >>]
  /\ UNCHANGED now

Tick ==
  /\ now < MaxTime
  /\ now' = now + 1
  /\ UNCHANGED <<requests, served>>

LimiterNext ==
  \/ \E tok \in Tokens : Admit(tok) \/ Refuse(tok)
  \/ Cleanup \/ Forget \/ Tick

LimiterSpec == LimiterInit /\ [][LimiterNext]_limiterVars

\* DESIGN.md:86: a token has Limit requests per Window.  However admissions,
\* refusals and cleanups fall, Limit + 1 admissions of one token in a row span at
\* least a Window, unless the cap made the cleanup drop the token in between
\* (ratelimit.go:66-121, 146-161).
QuotaPerWindow ==
  \A tok \in Tokens : \A i, j \in 1 .. Len(served[tok]) :
    j = i + Limit => served[tok][j] - served[tok][i] >= Window
==============================================================================
