--------------------------- MODULE TrialAdmissions ---------------------------
(***************************************************************************)
(* UpstreamBreaker observed by its callers: a history variable counts who  *)
(* was let through since the breaker last tripped.                         *)
(***************************************************************************)
EXTENDS UpstreamBreaker

VARIABLE admitted           \* admissions since the breaker tripped; 0 while
                            \* it is closed, when they are not limited

historyVars == <<breakerVars, admitted>>

HistoryInit == Init /\ admitted = 0

HistoryCall ==
  \/ Admit /\ admitted' = IF upState = "CLOSED" THEN 0 ELSE admitted + 1
  \/ RecordFailure /\ admitted' = IF upState' = upState THEN admitted ELSE 0
  \/ RecordSuccess /\ admitted' = 0
  \/ Refuse /\ UNCHANGED admitted

HistoryElapse == Elapse /\ UNCHANGED admitted

HistoryNext == HistoryCall \/ HistoryElapse

HistorySpec == HistoryInit /\ [][HistoryNext]_historyVars

\* "After a reset timeout, it allows a single probe request" (upstream.go:20):
\* from the trip until an outcome is recorded at most one caller gets through,
\* nobody before the timeout, and the HALF_OPEN state means that one did.
OneTrialPerTrip ==
  /\ upState = "OPEN" => admitted = 0
  /\ upState = "HALF_OPEN" => admitted = 1

==============================================================================
