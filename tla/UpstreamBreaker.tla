--------------------------- MODULE UpstreamBreaker ---------------------------
(***************************************************************************)
(* UpstreamCircuitBreaker of internal/circuitbreaker/upstream.go: one      *)
(* breaker per provider, shared by every request handler and by the health *)
(* check.  Each method holds u.mu from start to end, so each is one step.  *)
(*                                                                         *)
(* Time: resetLeft is what is left of resetTimeout since openedAt, and     *)
(* time.Now().After(openedAt + resetTimeout) is resetLeft = 0.             *)
(***************************************************************************)
EXTENDS Naturals

CONSTANTS Threshold,        \* consecutive failures that trip the breaker
          ResetTimeout      \* ticks an OPEN breaker refuses everything

\* NewProxyEngine replaces values below 1 by 5 and 30.
ASSUME BreakerAssumption ==
  /\ Threshold \in Nat \ {0}
  /\ ResetTimeout \in Nat \ {0}

VARIABLES upState, failureCount, resetLeft, halfOpenProbed

breakerVars == <<upState, failureCount, resetLeft, halfOpenProbed>>

Init ==
  /\ upState = "CLOSED"
  /\ failureCount = 0
  /\ resetLeft = 0
  /\ halfOpenProbed = FALSE

Trip == upState' = "OPEN" /\ resetLeft' = ResetTimeout

\* Mutant: > for >=.
FailWhileClosedLate ==
  /\ upState = "CLOSED"
  /\ failureCount' = failureCount + 1
  /\ IF failureCount + 1 > Threshold
     THEN Trip
     ELSE UNCHANGED <<upState, resetLeft>>
  /\ UNCHANGED halfOpenProbed

FailWhileClosed ==
  /\ upState = "CLOSED"
  /\ failureCount' = failureCount + 1
  /\ IF failureCount + 1 >= Threshold
     THEN Trip
     ELSE UNCHANGED <<upState, resetLeft>>
  /\ UNCHANGED halfOpenProbed

\* Mutant: a failed probe reopens the breaker on its old timestamp.
FailWhileHalfOpenStale ==
  /\ upState = "HALF_OPEN"
  /\ failureCount' = 1
  /\ upState' = "OPEN"
  /\ UNCHANGED <<resetLeft, halfOpenProbed>>

FailWhileHalfOpen ==
  /\ upState = "HALF_OPEN"
  /\ failureCount' = 1
  /\ Trip
  /\ UNCHANGED halfOpenProbed

\* Mutant: failures are counted while the breaker is open.
FailWhileOpenCounting ==
  /\ upState = "OPEN"
  /\ failureCount' = failureCount + 1
  /\ UNCHANGED <<upState, resetLeft, halfOpenProbed>>

FailWhileOpen == upState = "OPEN" /\ UNCHANGED breakerVars

RecordFailure == FailWhileClosed \/ FailWhileHalfOpen \/ FailWhileOpen

\* Also from OPEN and HALF_OPEN, whoever reports it: the breaker does not ask
\* whether the report is the probe's.
RecordSuccess ==
  /\ failureCount' = 0
  /\ upState' = "CLOSED"
  /\ UNCHANGED <<resetLeft, halfOpenProbed>>

ResetElapsed == upState = "OPEN" /\ resetLeft = 0

\* Mutants: the probe passes while the breaker stays OPEN; the probe is not
\* marked as used.
AdmitStayingOpen ==
  \/ upState = "CLOSED" /\ UNCHANGED breakerVars
  \/ /\ ResetElapsed
     /\ halfOpenProbed' = TRUE
     /\ UNCHANGED <<upState, failureCount, resetLeft>>
AdmitUnmarked ==
  \/ upState = "CLOSED" /\ UNCHANGED breakerVars
  \/ /\ ResetElapsed \/ (upState = "HALF_OPEN" /\ ~halfOpenProbed)
     /\ upState' = "HALF_OPEN"
     /\ UNCHANGED <<failureCount, resetLeft, halfOpenProbed>>

\* Allow() returning true; the caller goes on to the upstream.
Admit ==
  \/ upState = "CLOSED" /\ UNCHANGED breakerVars
  \/ /\ ResetElapsed \/ (upState = "HALF_OPEN" /\ ~halfOpenProbed)
     /\ upState' = "HALF_OPEN"
     /\ halfOpenProbed' = TRUE
     /\ UNCHANGED <<failureCount, resetLeft>>

\* Allow() returning false.
Refuse ==
  /\ \/ upState = "OPEN" /\ ~ResetElapsed
     \/ upState = "HALF_OPEN" /\ halfOpenProbed
  /\ UNCHANGED breakerVars

\* One tick of the clock.
Elapse ==
  /\ resetLeft' = IF resetLeft > 0 THEN resetLeft - 1 ELSE 0
  /\ UNCHANGED <<upState, failureCount, halfOpenProbed>>

Next == RecordFailure \/ RecordSuccess \/ Admit \/ Refuse \/ Elapse

Spec == Init /\ [][Next]_breakerVars

------------------------------------------------------------------------------
TypeOK ==
  /\ upState \in {"CLOSED", "OPEN", "HALF_OPEN"}
  /\ failureCount \in 0..Threshold
  /\ resetLeft \in 0..ResetTimeout
  /\ halfOpenProbed \in BOOLEAN

StreakBelowThreshold == upState = "CLOSED" => failureCount < Threshold
HalfOpenIsSpent == upState = "HALF_OPEN" => halfOpenProbed

\* State, streak and probe agree, whatever order late successes and failures were
\* recorded in.  A breaker that lets everybody pass has counted fewer failures in
\* a row than trip it (upstream.go:52), and a HALF_OPEN one has spent its probe:
\* the test of halfOpenProbed in Allow (upstream.go:95) never finds a probe left.
FieldsAgree == StreakBelowThreshold /\ HalfOpenIsSpent

\* Refinement: whatever failures, successes and ticks do to the counters, the
\* callers see a Circuit: a lockout after each trip, then one admission.
Gate == CASE upState = "CLOSED"    -> "all"
          [] upState = "OPEN"      -> "trial"
          [] upState = "HALF_OPEN" -> "shut"

C == INSTANCE Circuit WITH
       gate    <- Gate,
       lockout <- IF upState = "OPEN" THEN resetLeft ELSE 0,
       Lockout <- ResetTimeout

KeepsCircuit == C!Spec

==============================================================================
