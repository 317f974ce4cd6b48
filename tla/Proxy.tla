-------------------------------- MODULE Proxy --------------------------------
(***************************************************************************)
(* The proxy path of one provider: the concurrent request handlers of      *)
(* executeProxy (internal/server/handlers.go), the key pool, the per-key   *)
(* breakers and the upstream breaker they share, the health check that     *)
(* feeds the same upstream breaker (internal/server/lifecycle.go), and the *)
(* admin endpoints that disable and cool keys.  The pool keeps its keys:   *)
(* adding, removing and reloading are not part of this module.             *)
(*                                                                         *)
(* A handler holds no lock between two calls on the shared objects, so     *)
(* each call is a step; what it does between two calls is its own and is   *)
(* merged into the step before or after.                                   *)
(***************************************************************************)
EXTENDS Integers, Sequences

CONSTANTS Clients,          \* the concurrent requests
          NumKeys,          \* keys of the provider
          MaxRetries,       \* cfg.MaxRetries
          CooldownSec,      \* cfg.CooldownSec: pool cooldown and backoff base
          RetryAfters,      \* the cooldowns a Retry-After header may ask for
          BackoffCap, MultNum, MultDen,
          Threshold, ResetTimeout,
          Backoff,          \* sleep of a request the upstream breaker refuses
          AdminKeys         \* the keys an administrator may disable or cool

ASSUME ProxyAssumption ==
  /\ NumKeys \in Nat \ {0}
  /\ MaxRetries \in Nat /\ Backoff \in Nat
  /\ CooldownSec \in Nat /\ RetryAfters \subseteq Int
  /\ BackoffCap \in Nat \ {0} /\ MultNum \in Nat \ {0} /\ MultDen \in Nat \ {0}
  /\ Threshold \in Nat \ {0} /\ ResetTimeout \in Nat \ {0}
  /\ AdminKeys \subseteq 1..NumKeys

VARIABLES upState, failureCount, resetLeft, halfOpenProbed,
          keyCBs,
          counter, keys, cooldowns, disabled,
          pc,               \* the next call of each request, or "idle"
          attempt,          \* its loop variable
          idx,              \* the key it holds; 0 when it holds none
          sleepLeft,        \* what is left of its time.Sleep
          answer            \* the answer to its latest request

upVars      == <<upState, failureCount, resetLeft, halfOpenProbed>>
poolVars    == <<counter, keys, cooldowns, disabled>>
requestVars == <<pc, attempt, idx, sleepLeft, answer>>
vars        == <<upVars, keyCBs, poolVars, requestVars>>

Indices == 1..NumKeys

\* The pool cooldown of a rate-limited key.
Durations == {CooldownSec} \cup RetryAfters

Up   == INSTANCE UpstreamBreaker
CB   == INSTANCE KeyBreaker WITH Base <- CooldownSec
Pool == INSTANCE KeyPool WITH KeyIds <- Indices, CounterPeriod <- NumKeys

Init ==
  /\ Up!Init
  /\ CB!Init
  /\ Pool!NewKeyPool([i \in Indices |-> i])
  /\ pc = [c \in Clients |-> "idle"]
  /\ attempt = [c \in Clients |-> 0]
  /\ idx = [c \in Clients |-> 0]
  /\ sleepLeft = [c \in Clients |-> 0]
  /\ answer = [c \in Clients |-> "none"]

------------------------------------------------------------------------------
(* How a step of a request ends.                                           *)

Goto(c, label) ==
  /\ pc' = [pc EXCEPT ![c] = label]
  /\ UNCHANGED <<attempt, idx, sleepLeft, answer>>

Hold(c, label, i) ==
  /\ pc' = [pc EXCEPT ![c] = label]
  /\ idx' = [idx EXCEPT ![c] = i]
  /\ UNCHANGED <<attempt, sleepLeft, answer>>

\* Mutant: the attempt is not counted.
RetryUncounted(c) ==
  /\ pc' = [pc EXCEPT ![c] = "admit"]
  /\ idx' = [idx EXCEPT ![c] = 0]
  /\ UNCHANGED <<attempt, sleepLeft, answer>>

\* continue: the next iteration of the loop.
Retry(c) ==
  /\ pc' = [pc EXCEPT ![c] = "admit"]
  /\ attempt' = [attempt EXCEPT ![c] = @ + 1]
  /\ idx' = [idx EXCEPT ![c] = 0]
  /\ UNCHANGED <<sleepLeft, answer>>

Sleep(c, d) ==
  /\ pc' = [pc EXCEPT ![c] = "sleep"]
  /\ idx' = [idx EXCEPT ![c] = 0]
  /\ sleepLeft' = [sleepLeft EXCEPT ![c] = d]
  /\ UNCHANGED <<attempt, answer>>

Finish(c, a) ==
  /\ pc' = [pc EXCEPT ![c] = "idle"]
  /\ idx' = [idx EXCEPT ![c] = 0]
  /\ attempt' = [attempt EXCEPT ![c] = 0]
  /\ answer' = [answer EXCEPT ![c] = a]
  /\ UNCHANGED sleepLeft

------------------------------------------------------------------------------
(* A request, call by call.                                                *)

Arrive(c) ==
  /\ pc[c] = "idle"
  /\ pc' = [pc EXCEPT ![c] = "admit"]
  /\ answer' = [answer EXCEPT ![c] = "none"]
  /\ UNCHANGED <<attempt, idx, sleepLeft, upVars, keyCBs, poolVars>>

\* The body is above 10 MB or cannot be read.
RejectBody(c) ==
  /\ pc[c] = "idle"
  /\ Finish(c, "BAD_REQUEST")
  /\ UNCHANGED <<upVars, keyCBs, poolVars>>

Exhausted(c) ==
  /\ pc[c] = "admit" /\ attempt[c] >= MaxRetries
  /\ Finish(c, "EXHAUSTED_RETRIES")
  /\ UNCHANGED <<upVars, keyCBs, poolVars>>

\* Mutant: <= for <.
AdmittedOnceMore(c) ==
  /\ pc[c] = "admit" /\ attempt[c] <= MaxRetries
  /\ Up!Admit
  /\ Goto(c, "pick")
  /\ UNCHANGED <<keyCBs, poolVars>>

Admitted(c) ==
  /\ pc[c] = "admit" /\ attempt[c] < MaxRetries
  /\ Up!Admit
  /\ Goto(c, "pick")
  /\ UNCHANGED <<keyCBs, poolVars>>

Refused(c) ==
  /\ pc[c] = "admit" /\ attempt[c] < MaxRetries
  /\ Up!Refuse
  /\ Sleep(c, Backoff)
  /\ UNCHANGED <<keyCBs, poolVars>>

PickKey(c) ==
  /\ pc[c] = "pick"
  /\ \E i \in Indices : Pool!NextKey(i) /\ Hold(c, "gate", i)
  /\ UNCHANGED <<upVars, keyCBs>>

NoKey(c) ==
  /\ pc[c] = "pick"
  /\ Pool!NextKey(0)
  /\ Goto(c, "wait")
  /\ UNCHANGED <<upVars, keyCBs>>

\* pool.TimeUntilAvailable, called after the lock of Next was released.  The
\* jitter is below a tick.
WaitForKey(c) ==
  /\ pc[c] = "wait" /\ Pool!TimeUntilAvailable >= 0
  /\ Sleep(c, Pool!TimeUntilAvailable)
  /\ UNCHANGED <<upVars, keyCBs, poolVars>>

\* Mutant: <= for <: a key became ready since Next found none.
NoKeyReadyYet(c) ==
  /\ pc[c] = "wait" /\ Pool!TimeUntilAvailable <= 0
  /\ Finish(c, "ALL_KEYS_INVALID")
  /\ UNCHANGED <<upVars, keyCBs, poolVars>>

NoKeyLeft(c) ==
  /\ pc[c] = "wait" /\ Pool!TimeUntilAvailable < 0
  /\ Finish(c, "ALL_KEYS_INVALID")
  /\ UNCHANGED <<upVars, keyCBs, poolVars>>

\* keyCBs[idx].Allow() is true: the upstream request is built and sent.
Send(c) ==
  /\ pc[c] = "gate" /\ CB!Allows(idx[c])
  /\ Goto(c, "inflight")
  /\ UNCHANGED <<upVars, keyCBs, poolVars>>

BuildFails(c) ==
  /\ pc[c] = "gate" /\ CB!Allows(idx[c])
  /\ Finish(c, "UPSTREAM_ERROR")
  /\ UNCHANGED <<upVars, keyCBs, poolVars>>

Gated(c) ==
  /\ pc[c] = "gate" /\ ~CB!Allows(idx[c])
  /\ Goto(c, "remaining")
  /\ UNCHANGED <<upVars, keyCBs, poolVars>>

\* A cooldown that ran out since Allow is slept off in 10 ms, below a tick.
SleepOffBackoff(c) ==
  /\ pc[c] = "remaining" /\ CB!CooldownRemaining(idx[c]) >= 0
  /\ Sleep(c, CB!CooldownRemaining(idx[c]))
  /\ UNCHANGED <<upVars, keyCBs, poolVars>>

KeyIsRetired(c) ==
  /\ pc[c] = "remaining" /\ CB!CooldownRemaining(idx[c]) < 0
  /\ Goto(c, "scan")
  /\ UNCHANGED <<upVars, keyCBs, poolVars>>

\* The loop over keyCBs reads each state under its own lock.  PERMANENT is
\* final, so its result is the one an atomic scan has at the last read.
AllPermanent == \A i \in Indices : CB!IsPermanent(i)

ScanFindsOther(c) ==
  /\ pc[c] = "scan" /\ ~AllPermanent
  /\ Retry(c)
  /\ UNCHANGED <<upVars, keyCBs, poolVars>>

ScanFindsNone(c) ==
  /\ pc[c] = "scan" /\ AllPermanent
  /\ Finish(c, "ALL_KEYS_INVALID")
  /\ UNCHANGED <<upVars, keyCBs, poolVars>>

Wake(c) ==
  /\ pc[c] = "sleep" /\ sleepLeft[c] = 0
  /\ Retry(c)
  /\ UNCHANGED <<upVars, keyCBs, poolVars>>

------------------------------------------------------------------------------
(* The answer of the upstream to a request that holds a key.  It can come  *)
(* at any time, at the latest when client.Timeout ends the call, and       *)
(* includes the first call that the handler makes because of it.           *)

\* 2xx and 3xx.
Succeeds(c) ==
  /\ pc[c] = "inflight"
  /\ CB!RecordSuccess(idx[c])
  /\ Goto(c, "succeedUp")
  /\ UNCHANGED <<upVars, poolVars>>

SucceedUpstream(c) ==
  /\ pc[c] = "succeedUp"
  /\ Up!RecordSuccess
  /\ Goto(c, "stream")
  /\ UNCHANGED <<keyCBs, poolVars>>

\* The body is copied until it ends or one side breaks off; nothing of that is
\* reported to the breakers.  No timeout ends a write to the client.
Relay(c) ==
  /\ pc[c] = "stream"
  /\ Finish(c, "RELAYED")
  /\ UNCHANGED <<upVars, keyCBs, poolVars>>

\* Other 4xx, and 501: nothing is recorded, and the body is copied too.
ClientError(c) ==
  /\ pc[c] = "inflight"
  /\ Goto(c, "stream")
  /\ UNCHANGED <<upVars, keyCBs, poolVars>>

ClientAborts(c) ==
  /\ pc[c] = "inflight"
  /\ Finish(c, "ABORTED")
  /\ UNCHANGED <<upVars, keyCBs, poolVars>>

\* A network error, 502, 503 or another 5xx.
UpstreamFails(c) ==
  /\ pc[c] = "inflight"
  /\ Up!RecordFailure
  /\ Retry(c)
  /\ UNCHANGED <<keyCBs, poolVars>>

\* 429.
RateLimited(c) ==
  /\ pc[c] = "inflight"
  /\ CB!RecordFailure(idx[c])
  /\ Goto(c, "cool")
  /\ UNCHANGED <<upVars, poolVars>>

CoolKey(c) ==
  /\ pc[c] = "cool"
  /\ \E d \in Durations : Pool!Cooldown(idx[c], d)
  /\ Goto(c, "verdict")
  /\ UNCHANGED <<upVars, keyCBs>>

\* Mutant: the verdict of the breaker is not asked for.
KeySurvivesAlways(c) ==
  /\ pc[c] = "verdict"
  /\ Retry(c)
  /\ UNCHANGED <<upVars, keyCBs, poolVars>>

KeySurvives(c) ==
  /\ pc[c] = "verdict" /\ ~CB!IsPermanent(idx[c])
  /\ Retry(c)
  /\ UNCHANGED <<upVars, keyCBs, poolVars>>

QuotaExhausted(c) ==
  /\ pc[c] = "verdict" /\ CB!IsPermanent(idx[c])
  /\ Goto(c, "disable")
  /\ UNCHANGED <<upVars, keyCBs, poolVars>>

DisableExhausted(c) ==
  /\ pc[c] = "disable"
  /\ Pool!Disable(idx[c])
  /\ Goto(c, "active")
  /\ UNCHANGED <<upVars, keyCBs>>

\* 401 and 403.
AuthRejected(c) ==
  /\ pc[c] = "inflight"
  /\ Pool!Disable(idx[c])
  /\ Goto(c, "perma")
  /\ UNCHANGED <<upVars, keyCBs>>

RecordAuthRejected(c) ==
  /\ pc[c] = "perma"
  /\ CB!RecordPerma(idx[c])
  /\ Goto(c, "active")
  /\ UNCHANGED <<upVars, poolVars>>

OthersActive(c) ==
  /\ pc[c] = "active" /\ Pool!ActiveKeys # {}
  /\ Retry(c)
  /\ UNCHANGED <<upVars, keyCBs, poolVars>>

NoneActive(c) ==
  /\ pc[c] = "active" /\ Pool!ActiveKeys = {}
  /\ Finish(c, "ALL_KEYS_INVALID")
  /\ UNCHANGED <<upVars, keyCBs, poolVars>>

------------------------------------------------------------------------------
(* The other users of the shared objects.                                  *)

\* Mutant: the health check asks the breaker first, like a request.
HealthCheckAsking ==
  /\ upState = "CLOSED" \/ Up!ResetElapsed
  /\ Up!RecordSuccess \/ Up!RecordFailure
  /\ UNCHANGED <<keyCBs, poolVars, requestVars>>

\* One round of ActiveHealthCheck: it asks the upstream, not the breaker, and
\* records the outcome.
HealthCheck ==
  /\ Up!RecordSuccess \/ Up!RecordFailure
  /\ UNCHANGED <<keyCBs, poolVars, requestVars>>

AdminDisable(i) ==
  /\ Pool!Disable(i)
  /\ UNCHANGED <<upVars, keyCBs, requestVars>>

AdminCooldown(i) ==
  /\ Pool!Cooldown(i, CooldownSec)
  /\ UNCHANGED <<upVars, keyCBs, requestVars>>

\* One tick of the clock, for every timer that runs.
Tick ==
  /\ Up!Elapse /\ CB!Elapse /\ Pool!Elapse
  /\ sleepLeft' = [c \in Clients |-> IF sleepLeft[c] > 0 THEN sleepLeft[c] - 1
                                     ELSE 0]
  /\ UNCHANGED <<pc, attempt, idx, answer>>

\* A step of a request after its arrival: a call, or the upstream's answer.
Step(c) ==
  \/ Exhausted(c) \/ Admitted(c) \/ Refused(c) \/ PickKey(c) \/ NoKey(c)
  \/ WaitForKey(c) \/ NoKeyLeft(c) \/ Send(c) \/ BuildFails(c) \/ Gated(c)
  \/ SleepOffBackoff(c) \/ KeyIsRetired(c) \/ ScanFindsOther(c)
  \/ ScanFindsNone(c) \/ Wake(c) \/ Succeeds(c) \/ SucceedUpstream(c)
  \/ Relay(c) \/ ClientError(c) \/ ClientAborts(c) \/ UpstreamFails(c)
  \/ RateLimited(c) \/ CoolKey(c) \/ KeySurvives(c) \/ QuotaExhausted(c)
  \/ DisableExhausted(c) \/ AuthRejected(c) \/ RecordAuthRejected(c)
  \/ OthersActive(c) \/ NoneActive(c)

Next ==
  \/ \E c \in Clients : Arrive(c) \/ RejectBody(c) \/ Step(c)
  \/ HealthCheck
  \/ \E i \in AdminKeys : AdminDisable(i) \/ AdminCooldown(i)
  \/ Tick

Spec == Init /\ [][Next]_vars

\* The Go scheduler runs every handler that is not asleep, client.Timeout ends
\* every upstream call, timers fire, and the health check's ticker ticks.  A
\* handler that copies a body waits for its client as long as that likes:
\* http.Server has no timeouts (manager.go:94).
Fairness ==
  /\ \A c \in Clients : WF_vars(pc[c] # "stream" /\ Step(c))
  /\ WF_vars(Tick)
  /\ WF_vars(HealthCheck)

FairSpec == Spec /\ Fairness

==============================================================================
