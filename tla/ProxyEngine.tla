----------------------------- MODULE ProxyEngine -----------------------------
(***************************************************************************)
(* ProxyEngine of internal/server/server.go: the upstream breaker of a     *)
(* provider and the breakers of its keys, called by anyone in any order    *)
(* while one clock runs for all of them.  Proxy has the callers that the   *)
(* program has.                                                            *)
(***************************************************************************)
EXTENDS TrialAdmissions

CONSTANTS NumKeys, Base, BackoffCap, MultNum, MultDen

VARIABLE keyCBs

engineVars == <<historyVars, keyCBs>>

KB == INSTANCE KeyBreaker

\* NewProxyEngine replaces a cap or a multiplier that is not positive; it
\* leaves CooldownSec as configured.
ASSUME EngineAssumption == KB!BackoffAssumption

EngineInit == HistoryInit /\ KB!Init

UseUpstream == HistoryCall /\ UNCHANGED keyCBs

UseKey(i) == KB!Record(i) /\ UNCHANGED historyVars

Tick == HistoryElapse /\ KB!Elapse

EngineNext == UseUpstream \/ (\E i \in KB!Indices : UseKey(i)) \/ Tick

EngineSpec == EngineInit /\ [][EngineNext]_engineVars

------------------------------------------------------------------------------
\* Both kinds of breaker are well typed: the failures in a row stop at the
\* threshold, and no backoff, jitter included, exceeds the cap (key.go:72).
EngineTypeOK == TypeOK /\ KB!TypeOK

\* The properties of KeyBreaker, of every breaker of the engine.
BackoffConsistent == KB!BackoffConsistent
StrikesBounded    == KB!StrikesBounded
PermanentIsFinal  == KB!PermanentIsFinal

==============================================================================
