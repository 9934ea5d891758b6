---------------------------- MODULE HttpFrontend ----------------------------
(***************************************************************************)
(* The protected endpoints of cmd/evolution-api (main.go): the middleware  *)
(* chain, the token and its rotation, the handler of POST /evolve as far   *)
(* as the queue file, http.TimeoutHandler around all of it, and a process  *)
(* that is killed and started again.                                       *)
(*                                                                         *)
(* The limiter is the outer middleware and defers its Unlock, so           *)
(* authentication and handler run under RateLimiter.mu.  net/http runs a   *)
(* goroutine for each request; a timeout answers the client and leaves the *)
(* goroutine alone.  The server has no read timeout: the handler of        *)
(* /evolve reads its body, under the mutex, for as long as the client      *)
(* takes to send it.  What Enqueue may do to the file besides adding a     *)
(* line is in EventWorker.                                                 *)
(***************************************************************************)
EXTENDS RateLimiter

CONSTANTS
  Requests,    \* bound: the requests clients may send
  None,        \* no bearer token; no holder of the mutex; PADS_TOKEN unset
  Empty,       \* an empty or missing token file
  Stub,        \* the token that a short write of the token file leaves
  EnvToken,    \* the token an operator may set in PADS_TOKEN
  MaxCrashes,  \* bound: kills of the process
  MaxFaults    \* bound: failed system calls

ASSUME FrontendAssumption ==
  /\ None \notin Tokens \cup Requests /\ Empty \notin Tokens
  /\ {Stub, EnvToken} \subseteq Tokens

VARIABLES
  up,         \* the process lives
  env,        \* PADS_TOKEN
  asked,      \* the token and the endpoint of each request
  pc,         \* where the goroutine of each request is
  reply,      \* what the client of each request was told
  holder,     \* the request that holds RateLimiter.mu, None if none does
  newToken,   \* handleRotate's newToken
  authToken,  \* Server.authToken
  tokenFile,  \* token.txt
  queue,      \* event_queue.log, as the requests its lines come from
  issued,     \* ghost: the tokens that exist, crypto/rand never repeats one
  retired,    \* ghost: the tokens that a rotation has replaced
  crashes,
  faults

tokenVars == <<newToken, authToken, tokenFile, issued, retired>>
boundVars == <<crashes, faults>>
vars == <<limiterVars, up, env, asked, pc, reply, holder, tokenVars, queue, boundVars>>

Paths == {"/evolve", "/rotate"}
InHandler == {"reading", "handling", "truncated", "persisted"}
Codes == {"none", "202", "204", "400", "401", "429", "500", "503"}

TypeOK ==
  /\ LimiterTypeOK
  /\ up \in BOOLEAN /\ env \in {None, EnvToken}
  /\ asked \in [Requests -> [token : Tokens \cup {None}, path : Paths]]
  /\ pc \in [Requests -> {"idle", "waiting", "done", "gone"} \cup InHandler]
  /\ reply \in [Requests -> Codes]
  /\ holder \in Requests \cup {None}
  /\ newToken \in Tokens \cup {None}
  /\ authToken \in Tokens \cup {None} /\ (up => authToken # None)
  /\ tokenFile \in Tokens \cup {Empty}
  /\ queue \in Seq(Requests)
  /\ issued \subseteq Tokens /\ retired \subseteq Tokens
  /\ crashes \in Nat /\ faults \in Nat

Init ==
  /\ LimiterInit
  /\ up = FALSE /\ env \in {None, EnvToken}
  /\ asked = [r \in Requests |-> [token |-> None, path |-> "/evolve"]]
  /\ pc = [r \in Requests |-> "idle"]
  /\ reply = [r \in Requests |-> "none"]
  /\ holder = None
  /\ newToken = None /\ authToken = None /\ tokenFile = Empty
  /\ queue = << >>
  /\ issued = {EnvToken} /\ retired = {}
  /\ crashes = 0 /\ faults = 0

\* What rand.Read may yield.
Fresh == Tokens \ (issued \cup {Stub})

-----------------------------------------------------------------------------
(* The middleware chain *)

\* The handler of r returns, or its middleware does: the client hears `code` unless
\* the timeout was first, and the deferred Unlock runs.
Finish(r, code) ==
  /\ pc' = [pc EXCEPT ![r] = "done"]
  /\ reply' = [reply EXCEPT ![r] = IF @ = "none" THEN code ELSE @]
  /\ holder' = None

\* A request comes in; without a bearer token the limiter turns it away unlocked.
Arrive(r) ==
  /\ up /\ pc[r] = "idle"
  /\ \E token \in Tokens \cup {None}, path \in Paths :
       /\ asked' = [asked EXCEPT ![r] = [token |-> token, path |-> path]]
       /\ pc' = [pc EXCEPT ![r] = IF token = None THEN "done" ELSE "waiting"]
       /\ reply' = [reply EXCEPT ![r] = IF token = None THEN "401" ELSE @]
  /\ UNCHANGED <<limiterVars, up, env, holder, tokenVars, queue, boundVars>>

Locks(r) == up /\ pc[r] = "waiting" /\ holder = None

RefuseBusy(r) ==
  /\ Locks(r)
  /\ Refuse(asked[r].token)
  /\ Finish(r, "429")
  /\ UNCHANGED <<up, env, asked, tokenVars, queue, boundVars>>

\* Mutant of RefuseToken: no return after denied.
RefuseTokenGoesOn(r) ==
  /\ Locks(r)
  /\ Admit(asked[r].token)
  /\ asked[r].token # authToken
  /\ holder' = r
  /\ pc' = [pc EXCEPT ![r] = "handling"]
  /\ reply' = [reply EXCEPT ![r] = IF @ = "none" THEN "401" ELSE @]
  /\ UNCHANGED <<up, env, asked, tokenVars, queue, boundVars>>

\* Mutant of RefuseToken: the mutex is not unlocked.
RefuseTokenLocked(r) ==
  /\ Locks(r)
  /\ Admit(asked[r].token)
  /\ asked[r].token # authToken
  /\ holder' = r
  /\ pc' = [pc EXCEPT ![r] = "done"]
  /\ reply' = [reply EXCEPT ![r] = IF @ = "none" THEN "401" ELSE @]
  /\ UNCHANGED <<up, env, asked, tokenVars, queue, boundVars>>

\* authMiddleware denies; the request has been counted.
RefuseToken(r) ==
  /\ Locks(r)
  /\ Admit(asked[r].token)
  /\ asked[r].token # authToken
  /\ Finish(r, "401")
  /\ UNCHANGED <<up, env, asked, tokenVars, queue, boundVars>>

\* Where a handler starts: the one of /evolve with its body, unless it came with the
\* headers or the method is wrong.
FirstSteps(path) == {"handling"} \cup IF path = "/evolve" THEN {"reading"} ELSE {}

\* Mutant of Accept: the limiter unlocks before it calls next.
AcceptUnlocked(r) ==
  /\ Locks(r)
  /\ Admit(asked[r].token)
  /\ asked[r].token = authToken
  /\ \E step \in FirstSteps(asked[r].path) : pc' = [pc EXCEPT ![r] = step]
  /\ UNCHANGED <<up, env, asked, reply, holder, tokenVars, queue, boundVars>>

Accept(r) ==
  /\ Locks(r)
  /\ Admit(asked[r].token)
  /\ asked[r].token = authToken
  /\ holder' = r
  /\ \E step \in FirstSteps(asked[r].path) : pc' = [pc EXCEPT ![r] = step]
  /\ UNCHANGED <<up, env, asked, reply, tokenVars, queue, boundVars>>

\* http.TimeoutHandler answers for a goroutine that goes on.
TimesOut(r) ==
  /\ up /\ pc[r] \in {"waiting"} \cup InHandler /\ reply[r] = "none"
  /\ reply' = [reply EXCEPT ![r] = "503"]
  /\ UNCHANGED <<limiterVars, up, env, asked, pc, holder, tokenVars, queue, boundVars>>

\* The limiter's cleanup goroutine takes the mutex.
CleansUp ==
  /\ up /\ holder = None
  /\ Cleanup
  /\ UNCHANGED <<up, env, asked, pc, reply, holder, tokenVars, queue, boundVars>>

-----------------------------------------------------------------------------
(* The handlers *)

\* The client has sent its body, or closes the connection; nothing makes it do so.
BodyEnds(r) ==
  /\ pc[r] = "reading"
  /\ pc' = [pc EXCEPT ![r] = "handling"]
  /\ UNCHANGED <<limiterVars, up, env, asked, reply, holder, tokenVars, queue, boundVars>>

\* A wrong method, or a body that does not decode or validate.
HandlerRefuses(r) ==
  /\ pc[r] = "handling"
  /\ Finish(r, "400")
  /\ UNCHANGED <<limiterVars, up, env, asked, tokenVars, queue, boundVars>>

EnqueueEvolve(r) ==
  /\ pc[r] = "handling" /\ asked[r].path = "/evolve"
  /\ queue' = Append(queue, r)
  /\ Finish(r, "202")
  /\ UNCHANGED <<limiterVars, up, env, asked, tokenVars, boundVars>>

\* Write or Sync fails: the line may be in the file.
EnqueueFails(r) ==
  /\ pc[r] = "handling" /\ asked[r].path = "/evolve" /\ faults < MaxFaults
  /\ queue' \in {queue, Append(queue, r)}
  /\ Finish(r, "500")
  /\ faults' = faults + 1
  /\ UNCHANGED <<limiterVars, up, env, asked, tokenVars, crashes>>

\* os.WriteFile in handleRotate opens the file with O_TRUNC ...
RotateTruncates(r) ==
  /\ pc[r] = "handling" /\ asked[r].path = "/rotate"
  /\ \E token \in Fresh : newToken' = token /\ issued' = issued \cup {token}
  /\ tokenFile' = Empty
  /\ pc' = [pc EXCEPT ![r] = "truncated"]
  /\ UNCHANGED <<limiterVars, up, env, asked, reply, holder, authToken, retired, queue,
                 boundVars>>

\* ... and then writes it.
RotateWrites(r) ==
  /\ pc[r] = "truncated"
  /\ tokenFile' = newToken
  /\ pc' = [pc EXCEPT ![r] = "persisted"]
  /\ UNCHANGED <<limiterVars, up, env, asked, reply, holder, newToken, authToken, issued,
                 retired, queue, boundVars>>

\* Mutant of RotateFails: a failed write is logged and the rotation goes on.
RotateFailsUnseen(r) ==
  /\ faults < MaxFaults
  /\ pc[r] = "handling" /\ asked[r].path = "/rotate"
  /\ \E token \in Fresh : newToken' = token /\ issued' = issued \cup {token}
  /\ pc' = [pc EXCEPT ![r] = "persisted"]
  /\ faults' = faults + 1
  /\ UNCHANGED <<limiterVars, up, env, asked, reply, holder, authToken, tokenFile, retired,
                 queue, crashes>>

\* rand.Read, the open or the write fails: the token in memory stays.
RotateFails(r) ==
  /\ faults < MaxFaults
  /\ \/ pc[r] = "handling" /\ asked[r].path = "/rotate" /\ UNCHANGED tokenFile
     \/ pc[r] = "truncated" /\ tokenFile' \in {Empty, Stub}
  /\ Finish(r, "500")
  /\ faults' = faults + 1
  /\ UNCHANGED <<limiterVars, up, env, asked, newToken, authToken, issued, retired, queue,
                 crashes>>

\* Bound: when the tokens of the model are used up, rand.Read fails.
RotateDrawsNone(r) ==
  /\ pc[r] = "handling" /\ asked[r].path = "/rotate" /\ Fresh = {}
  /\ Finish(r, "500")
  /\ UNCHANGED <<limiterVars, up, env, asked, tokenVars, queue, boundVars>>

RotateAssigns(r) ==
  /\ pc[r] = "persisted"
  /\ authToken' = newToken
  /\ retired' = retired \cup {authToken}
  /\ Finish(r, "204")
  /\ UNCHANGED <<limiterVars, up, env, asked, newToken, tokenFile, issued, queue, boundVars>>

-----------------------------------------------------------------------------
(* The process *)

Crash ==
  /\ up /\ crashes < MaxCrashes
  /\ crashes' = crashes + 1
  /\ up' = FALSE
  /\ Forget
  /\ pc' = [r \in Requests |-> IF pc[r] \in {"waiting"} \cup InHandler THEN "gone" ELSE pc[r]]
  /\ holder' = None /\ authToken' = None /\ newToken' = None
  /\ UNCHANGED <<env, asked, reply, tokenFile, issued, retired, queue, faults>>

\* Mutant of TokenAtStart: an empty file is taken for a token.
TokenAtStartUnchecked ==
  /\ authToken' = IF env # None THEN env ELSE tokenFile
  /\ UNCHANGED <<tokenFile, issued, faults>>

\* main: PADS_TOKEN, else the file, else a new token, whose failed write is only
\* logged.
TokenAtStart ==
  \/ env # None /\ authToken' = env /\ UNCHANGED <<tokenFile, issued, faults>>
  \/ env = None /\ tokenFile # Empty /\ authToken' = tokenFile
     /\ UNCHANGED <<tokenFile, issued, faults>>
  \/ /\ env = None /\ tokenFile = Empty
     /\ authToken' \in Fresh
     /\ issued' = issued \cup {authToken'}
     /\ \/ tokenFile' = authToken' /\ UNCHANGED faults
        \/ faults < MaxFaults /\ tokenFile' \in {Empty, Stub} /\ faults' = faults + 1

Restart ==
  /\ ~up
  /\ up' = TRUE
  /\ TokenAtStart
  /\ UNCHANGED <<limiterVars, env, asked, pc, reply, holder, newToken, retired, queue, crashes>>

Passes ==
  /\ Tick
  /\ UNCHANGED <<up, env, asked, pc, reply, holder, tokenVars, queue, boundVars>>

-----------------------------------------------------------------------------

Enter(r) == RefuseBusy(r) \/ RefuseToken(r) \/ Accept(r)

Handle(r) ==
  \/ HandlerRefuses(r)
  \/ EnqueueEvolve(r) \/ EnqueueFails(r)
  \/ RotateTruncates(r) \/ RotateWrites(r) \/ RotateAssigns(r)
  \/ RotateFails(r) \/ RotateDrawsNone(r)

Next ==
  \/ \E r \in Requests : Arrive(r) \/ Enter(r) \/ BodyEnds(r) \/ Handle(r) \/ TimesOut(r)
  \/ CleansUp \/ Passes
  \/ Crash \/ Restart

Spec == Init /\ [][Next]_vars

\* A goroutine in a handler is scheduled once it has its body, and sync.Mutex hands
\* itself to a goroutine that has waited for more than a millisecond.  Clients are not
\* fair, and neither is the timeout.
Fairness == \A r \in Requests : WF_vars(Handle(r)) /\ SF_vars(Enter(r))

FairSpec == Spec /\ Fairness

-----------------------------------------------------------------------------
(* Properties *)

\* Nothing but RateLimiter.mu orders the requests, and authToken is read and written
\* without a lock of its own.  The token a request was checked against is the
\* server's token until its handler returns: no rotation falls in between
\* (main.go:208-221, 258, ratelimit.go:144).
AuthStillValid ==
  \A r \in Requests : pc[r] \in InHandler => asked[r].token = authToken

\* A token that a rotation has replaced does not come back with a kill, a torn token
\* file or a failed write, unless the operator's PADS_TOKEN sets it again, or two
\* short writes leave the same stub (main.go:57-75, 252-258).
RetiredStaysOut == (up /\ authToken \in retired) => authToken \in {env, Stub}

\* What the client is told is what happened, whoever answers: 202 for a line in the
\* queue, 400, 401 and 429 for none, and no request has two (main.go:158, 278-304).
RepliesTruthful ==
  /\ \A k, l \in 1 .. Len(queue) : queue[k] = queue[l] => k = l
  /\ \A r \in Requests :
       /\ reply[r] = "202" => \E k \in 1 .. Len(queue) : queue[k] = r
       /\ reply[r] \in {"400", "401", "429"} => \A k \in 1 .. Len(queue) : queue[k] # r

\* As long as every client sends its body or gives up in the end, a request that waits
\* for the mutex is served or refused, also after its client was told that it timed
\* out (ratelimit.go:135-165).
ServedUnlessStalled ==
  (\A q \in Requests : []<>(pc[q] # "reading"))
    => \A r \in Requests : (pc[r] = "waiting") ~> (pc[r] \in {"done", "gone"})
==============================================================================
