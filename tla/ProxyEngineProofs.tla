-------------------------- MODULE ProxyEngineProofs --------------------------
(***************************************************************************)
(* The breakers of an engine.  For every threshold and timeout the         *)
(* upstream breaker is type correct, keeps its streak below the threshold, *)
(* implements Circuit, and admits one trial per trip.  The breakers of     *)
(* keys keep what KeyBreaker says of them for every number of keys, every  *)
(* base, cap and multiplier.                                               *)
(***************************************************************************)
EXTENDS ProxyEngine, WellFoundedInduction, TLAPS

BreakerInv == TypeOK /\ StreakBelowThreshold /\ HalfOpenIsSpent

\* The initial states satisfy the inductive invariant.
LEMMA InitInv == Init => BreakerInv
<1> SUFFICES ASSUME Init
             PROVE  BreakerInv
  OBVIOUS
<1>1. 0 \in 0..Threshold /\ 0 \in 0..ResetTimeout /\ 0 < Threshold
  BY BreakerAssumption
<1> QED
  BY <1>1, Zenon
     DEF Init, BreakerInv, TypeOK, StreakBelowThreshold, HalfOpenIsSpent

\* Every call on the breaker and every tick keeps the inductive invariant.
LEMMA NextInv == BreakerInv /\ [Next]_breakerVars => BreakerInv'
<1> SUFFICES ASSUME BreakerInv, [Next]_breakerVars
             PROVE  BreakerInv'
  OBVIOUS
<1> USE BreakerAssumption
    DEF BreakerInv, TypeOK, StreakBelowThreshold, HalfOpenIsSpent
<1>1. CASE FailWhileClosed
  BY <1>1 DEF FailWhileClosed, Trip
<1>2. CASE FailWhileHalfOpen
  BY <1>2 DEF FailWhileHalfOpen, Trip
<1>3. CASE FailWhileOpen \/ Refuse
  BY <1>3 DEF FailWhileOpen, Refuse, breakerVars
<1>4. CASE RecordSuccess
  BY <1>4 DEF RecordSuccess
<1>5. CASE Admit
  BY <1>5 DEF Admit, ResetElapsed, breakerVars
<1>6. CASE Elapse
  BY <1>6 DEF Elapse
<1>7. CASE UNCHANGED breakerVars
  BY <1>7 DEF breakerVars
<1> QED
  BY <1>1, <1>2, <1>3, <1>4, <1>5, <1>6, <1>7 DEF Next, RecordFailure

\* The type invariant, and the two facts about the streak and the probe, for
\* RecordFailure, RecordSuccess and Allow in any order (upstream.go:45-103).
THEOREM BreakerCorrect == Spec => [](TypeOK /\ FieldsAgree)
BY InitInv, NextInv, PTL DEF Spec, BreakerInv, FieldsAgree

\* The initial states of the breaker are initial states of Circuit.
LEMMA InitCircuit == Init => C!Init
BY DEF Init, C!Init, Gate

\* Every call on the breaker is a step of Circuit or a stutter.
LEMMA NextCircuit ==
  BreakerInv /\ BreakerInv' /\ [Next]_breakerVars => [C!Next]_(C!circuitVars)
<1> SUFFICES ASSUME BreakerInv, BreakerInv', [Next]_breakerVars
             PROVE  [C!Next]_(C!circuitVars)
  OBVIOUS
<1> USE BreakerAssumption DEF BreakerInv, TypeOK, HalfOpenIsSpent, Gate, C!circuitVars
<1>1. CASE FailWhileClosed
  <2>1. CASE failureCount + 1 >= Threshold
    BY <1>1, <2>1 DEF FailWhileClosed, Trip, C!Next, C!Bad
  <2>2. CASE ~(failureCount + 1 >= Threshold)
    BY <1>1, <2>2 DEF FailWhileClosed
  <2> QED
    BY <2>1, <2>2
<1>2. CASE FailWhileHalfOpen
  BY <1>2 DEF FailWhileHalfOpen, Trip, C!Next, C!Bad
<1>3. CASE FailWhileOpen \/ Refuse
  BY <1>3 DEF FailWhileOpen, Refuse, breakerVars
<1>4. CASE RecordSuccess
  BY <1>4 DEF RecordSuccess, C!Next, C!Good
<1>5. CASE Admit
  <2>1. CASE upState = "CLOSED"
    BY <1>5, <2>1 DEF Admit, ResetElapsed, breakerVars
  <2>2. CASE ResetElapsed
    BY <1>5, <2>2 DEF Admit, ResetElapsed, C!Next, C!AdmitTrial
  <2> QED
    BY <1>5, <2>1, <2>2 DEF Admit
<1>6. CASE Elapse
  <2>1. CASE upState = "OPEN" /\ resetLeft > 0
    BY <1>6, <2>1 DEF Elapse, C!Next, C!Elapse
  <2>2. CASE ~(upState = "OPEN" /\ resetLeft > 0)
    BY <1>6, <2>2 DEF Elapse
  <2> QED
    BY <2>1, <2>2
<1>7. CASE UNCHANGED breakerVars
  BY <1>7 DEF breakerVars
<1> QED
  BY <1>1, <1>2, <1>3, <1>4, <1>5, <1>6, <1>7 DEF Next, RecordFailure

\* The breaker of upstream.go implements Circuit: each trip starts a full
\* lockout, and after it exactly one caller is admitted until an outcome is
\* recorded.
THEOREM BreakerKeepsCircuit == Spec => KeepsCircuit
<1>1. Spec => []BreakerInv
  BY InitInv, NextInv, PTL DEF Spec
<1> QED
  BY <1>1, InitCircuit, NextCircuit, PTL DEF Spec, KeepsCircuit, C!Spec

TrialInv == BreakerInv /\ OneTrialPerTrip

\* Nobody was admitted before the first trip.
LEMMA HistoryInitInv == HistoryInit => TrialInv
BY InitInv DEF HistoryInit, TrialInv, OneTrialPerTrip, Init

\* No step lets a second caller through after a trip.
LEMMA HistoryNextInv == TrialInv /\ [HistoryNext]_historyVars => TrialInv'
<1> SUFFICES ASSUME TrialInv, [HistoryNext]_historyVars
             PROVE  TrialInv'
  OBVIOUS
<1>1. BreakerInv'
  BY NextInv DEF TrialInv, HistoryNext, HistoryCall, HistoryElapse, historyVars, Next
<1>2. OneTrialPerTrip'
  <2> USE DEF TrialInv, BreakerInv, TypeOK, HalfOpenIsSpent, OneTrialPerTrip
  <2>1. CASE Admit /\ admitted' = IF upState = "CLOSED" THEN 0 ELSE admitted + 1
    BY <2>1 DEF Admit, ResetElapsed, breakerVars
  <2>2. CASE RecordFailure
             /\ admitted' = IF upState' = upState THEN admitted ELSE 0
    BY <2>2 DEF RecordFailure, FailWhileClosed, FailWhileHalfOpen, FailWhileOpen,
                Trip, breakerVars
  <2>3. CASE RecordSuccess /\ admitted' = 0
    BY <2>3 DEF RecordSuccess
  <2>4. CASE (Refuse \/ Elapse \/ UNCHANGED breakerVars) /\ UNCHANGED admitted
    BY <2>4 DEF Refuse, Elapse, breakerVars
  <2> QED
    BY <2>1, <2>2, <2>3, <2>4 DEF HistoryNext, HistoryCall, HistoryElapse, historyVars
<1> QED
  BY <1>1, <1>2 DEF TrialInv

\* "After a reset timeout, it allows a single probe request" (upstream.go:20),
\* however many callers ask, for every threshold and timeout.
THEOREM OneTrial == HistorySpec => []OneTrialPerTrip
<1>1. TrialInv => OneTrialPerTrip
  BY DEF TrialInv
<1> QED
  BY <1>1, HistoryInitInv, HistoryNextInv, PTL DEF HistorySpec

------------------------------------------------------------------------------
\* The upstream breaker goes its own way.
LEMMA EngineUsesUpstream ==
  [EngineNext]_engineVars => [HistoryNext]_historyVars
BY DEF EngineNext, UseUpstream, UseKey, Tick, HistoryNext, engineVars

\* And so do the breakers of the keys.
LEMMA EngineUsesKeys ==
  [EngineNext]_engineVars => [KB!Next]_keyCBs
BY DEF EngineNext, UseUpstream, UseKey, Tick, KB!Next, engineVars

\* The callers of the upstream breaker are those that the history counts.
LEMMA HistoryUsesBreaker ==
  [HistoryNext]_historyVars => [Next]_breakerVars
BY DEF HistoryNext, HistoryCall, HistoryElapse, historyVars, Next

\* What KeyBreaker and TrialAdmissions say of their breakers holds in an engine,
\* in which one clock runs for all (server.go:28-56).
THEOREM EngineIsBoth == EngineSpec => HistorySpec /\ Spec /\ KB!Spec
<1>1. EngineInit => HistoryInit /\ Init /\ KB!Init
  BY DEF EngineInit, HistoryInit
<1> QED
  BY <1>1, EngineUsesUpstream, EngineUsesKeys, HistoryUsesBreaker, PTL
     DEF EngineSpec, HistorySpec, Spec, KB!Spec

------------------------------------------------------------------------------
KeyInv == KB!TypeOK /\ BackoffConsistent

\* New breakers are CLOSED and have no strikes.
LEMMA KeyInit == KB!Init => KeyInv
BY EngineAssumption
   DEF KB!Init, KB!Fresh, KB!BackoffAssumption, KeyInv, KB!TypeOK, BackoffConsistent,
       KB!BackoffConsistent

\* One breaker takes up a new value that agrees with itself; the others stay.
LEMMA OneBreaker ==
  ASSUME KeyInv, NEW i \in KB!Indices,
         NEW b \in [state : {"CLOSED", "OPEN", "PERMANENT"}, attempt : Nat,
                    left : 0..BackoffCap],
         keyCBs' = [keyCBs EXCEPT ![i] = b],
         b.state = "CLOSED" => b = KB!Fresh,
         b.state = "OPEN" => b.attempt > 0 /\ ~KB!ReachesCap(b.attempt - 1)
  PROVE  KeyInv'
<1> USE DEF KeyInv, KB!TypeOK
<1>1. KB!TypeOK'
  OBVIOUS
<1>2. ASSUME NEW j \in KB!Indices
      PROVE  keyCBs'[j] = IF j = i THEN b ELSE keyCBs[j]
  OBVIOUS
<1>3. BackoffConsistent'
  BY <1>2 DEF BackoffConsistent, KB!BackoffConsistent, KB!Fresh
<1> QED
  BY <1>1, <1>3

\* The three outcomes of a request, in any order, and the clock.
LEMMA KeyNext == KeyInv /\ [KB!Next]_keyCBs => KeyInv'
<1> SUFFICES ASSUME KeyInv, [KB!Next]_keyCBs
             PROVE  KeyInv'
  OBVIOUS
<1> USE EngineAssumption DEF KB!BackoffAssumption, KeyInv, KB!TypeOK
<1>1. ASSUME NEW i \in KB!Indices, KB!BackOff(i)
      PROVE  KeyInv'
  <2>1. PICK d \in KB!Cooldowns(KB!Raw(keyCBs[i].attempt)) :
          keyCBs' = [keyCBs EXCEPT ![i] = [state   |-> "OPEN",
                                           attempt |-> keyCBs[i].attempt + 1,
                                           left    |-> d]]
    BY <1>1 DEF KB!BackOff
  <2> DEFINE b == [state |-> "OPEN", attempt |-> keyCBs[i].attempt + 1, left |-> d]
  <2>2. d \in 0..BackoffCap
    BY DEF KB!Cooldowns
  <2>3. keyCBs[i].attempt \in Nat
    OBVIOUS
  <2>4. b.attempt > 0 /\ b.attempt - 1 = keyCBs[i].attempt
    BY <2>3
  <2>5. ~KB!ReachesCap(b.attempt - 1)
    BY <1>1, <2>4 DEF KB!BackOff
  <2>6. /\ b \in [state : {"CLOSED", "OPEN", "PERMANENT"}, attempt : Nat,
                   left : 0..BackoffCap]
        /\ b.state = "OPEN"
    BY <2>2, <2>3
  <2>7. keyCBs' = [keyCBs EXCEPT ![i] = b]
    BY <2>1
  <2> HIDE DEF b
  <2> QED
    BY <2>4, <2>5, <2>6, <2>7, OneBreaker
<1>2. ASSUME NEW i \in KB!Indices, KB!MakePermanent(i)
      PROVE  KeyInv'
  <2> DEFINE b == [keyCBs[i] EXCEPT !.state = "PERMANENT"]
  <2>1. keyCBs' = [keyCBs EXCEPT ![i] = b]
    BY <1>2 DEF KB!MakePermanent
  <2>2. b.state = "PERMANENT"
    OBVIOUS
  <2> QED
    BY <2>1, <2>2, OneBreaker
<1>3. ASSUME NEW i \in KB!Indices, KB!RecordSuccess(i)
      PROVE  KeyInv'
  <2>1. CASE UNCHANGED keyCBs
    BY <2>1 DEF BackoffConsistent, KB!BackoffConsistent
  <2>2. CASE keyCBs' = [keyCBs EXCEPT ![i] = KB!Fresh]
    <3>1. KB!Fresh \in [state : {"CLOSED", "OPEN", "PERMANENT"}, attempt : Nat,
                        left : 0..BackoffCap]
      BY DEF KB!Fresh
    <3>2. KB!Fresh.state = "CLOSED"
      BY DEF KB!Fresh
    <3> QED
      BY <2>2, <3>1, <3>2, OneBreaker
  <2> QED
    BY <1>3, <2>1, <2>2 DEF KB!RecordSuccess
<1>4. CASE KB!Elapse
  <2>1. ASSUME NEW j \in KB!Indices
        PROVE  /\ keyCBs'[j] \in [state : {"CLOSED", "OPEN", "PERMANENT"}, attempt : Nat,
                                  left : 0..BackoffCap]
               /\ keyCBs'[j].state = keyCBs[j].state
               /\ keyCBs'[j].attempt = keyCBs[j].attempt
               /\ keyCBs[j] = KB!Fresh => keyCBs'[j] = KB!Fresh
    BY <1>4 DEF KB!Elapse, KB!Fresh
  <2>2. KB!TypeOK'
    BY <1>4, <2>1 DEF KB!Elapse
  <2>3. BackoffConsistent'
    BY <2>1 DEF BackoffConsistent, KB!BackoffConsistent
  <2> QED
    BY <2>2, <2>3
<1>5. CASE UNCHANGED keyCBs
  BY <1>5 DEF BackoffConsistent, KB!BackoffConsistent
<1> QED
  BY <1>1, <1>2, <1>3, <1>4, <1>5
     DEF KB!Next, KB!Record, KB!RecordFailure, KB!RecordPerma, KB!Exhaust

\* Both kinds of breaker are well typed, and no backoff, jitter included, exceeds
\* the cap (key.go:72).
THEOREM EngineTypeCorrect == EngineSpec => []EngineTypeOK
<1>1. EngineSpec => []TypeOK
  BY EngineIsBoth, BreakerCorrect, PTL
<1>2. EngineSpec => []KeyInv
  BY EngineIsBoth, KeyInit, KeyNext, PTL DEF KB!Spec
<1>3. KeyInv /\ TypeOK => EngineTypeOK
  BY DEF KeyInv, EngineTypeOK
<1> QED
  BY <1>1, <1>2, <1>3, PTL

\* A key breaker's state, strikes and wait agree (key.go:56), whatever the order
\* in which late successes and rate limits are recorded.
THEOREM EngineBackoffs == EngineSpec => []BackoffConsistent
<1>1. EngineSpec => []KeyInv
  BY EngineIsBoth, KeyInit, KeyNext, PTL DEF KB!Spec
<1>2. KeyInv => BackoffConsistent
  BY DEF KeyInv
<1> QED
  BY <1>1, <1>2, PTL

------------------------------------------------------------------------------
\* Some backoff within the bound reaches the cap.  It does with a base and a
\* multiplier that grow (the defaults of config.go:70 do at the second strike); with a
\* base of zero or a multiplier of one the code never retires a key for its rate
\* limits.
CapIsReached == \E a \in 0..(KB!MaxStrikes - 1) : KB!ReachesCap(a)

\* No strike that a key survived had a backoff at the cap.
SurvivedBelowCap ==
  \A i \in KB!Indices :
    \A a \in Nat : a < keyCBs[i].attempt => ~KB!ReachesCap(a)

StrikesInv == KeyInv /\ SurvivedBelowCap

\* New breakers have survived no strike.
LEMMA StrikesInit == KB!Init => StrikesInv
<1> SUFFICES ASSUME KB!Init
             PROVE  StrikesInv
  OBVIOUS
<1>1. \A i \in KB!Indices : keyCBs[i].attempt = 0
  BY DEF KB!Init, KB!Fresh
<1> QED
  BY <1>1, KeyInit DEF StrikesInv, SurvivedBelowCap

\* Only a rate limit adds a strike, and only when its backoff is below the cap.
LEMMA StrikesNext == StrikesInv /\ [KB!Next]_keyCBs => StrikesInv'
<1> SUFFICES ASSUME StrikesInv, [KB!Next]_keyCBs
             PROVE  StrikesInv'
  OBVIOUS
<1>1. KeyInv'
  BY KeyNext DEF StrikesInv
<1>2. ASSUME NEW j \in KB!Indices
      PROVE  \/ keyCBs'[j].attempt \in {0, keyCBs[j].attempt}
             \/ /\ keyCBs'[j].attempt = keyCBs[j].attempt + 1
                /\ ~KB!ReachesCap(keyCBs[j].attempt)
  <2> USE DEF StrikesInv, KeyInv, KB!TypeOK
  <2>1. ASSUME NEW i \in KB!Indices, KB!BackOff(i)
        PROVE  \/ keyCBs'[j].attempt = keyCBs[j].attempt
               \/ /\ keyCBs'[j].attempt = keyCBs[j].attempt + 1
                  /\ ~KB!ReachesCap(keyCBs[j].attempt)
    BY <2>1 DEF KB!BackOff
  <2>2. ASSUME NEW i \in KB!Indices, KB!MakePermanent(i)
        PROVE  keyCBs'[j].attempt = keyCBs[j].attempt
    BY <2>2 DEF KB!MakePermanent
  <2>3. ASSUME NEW i \in KB!Indices, KB!RecordSuccess(i)
        PROVE  keyCBs'[j].attempt \in {0, keyCBs[j].attempt}
    BY <2>3 DEF KB!RecordSuccess, KB!Fresh
  <2>4. CASE KB!Elapse
    BY <2>4 DEF KB!Elapse
  <2> QED
    BY <2>1, <2>2, <2>3, <2>4
       DEF KB!Next, KB!Record, KB!RecordFailure, KB!RecordPerma, KB!Exhaust
<1>3. \A j \in KB!Indices : keyCBs[j].attempt \in Nat
  BY DEF StrikesInv, KeyInv, KB!TypeOK
<1>4. SurvivedBelowCap'
  BY <1>2, <1>3 DEF StrikesInv, SurvivedBelowCap
<1> QED
  BY <1>1, <1>4 DEF StrikesInv

\* When the cap is reached, Strikes is the first strike whose backoff reaches it.
LEMMA StrikesIsFirst ==
  ASSUME CapIsReached
  PROVE  KB!Strikes \in Nat /\ KB!ReachesCap(KB!Strikes)
<1> DEFINE S == {a \in 0..(KB!MaxStrikes - 1) : KB!ReachesCap(a)}
           R == OpToRel(<, Nat)
           First(n) == /\ \A a \in 0..KB!MaxStrikes : a < n => ~KB!ReachesCap(a)
                       /\ n < KB!MaxStrikes => KB!ReachesCap(n)
<1>1. S \subseteq Nat /\ S # {}
  BY DEF CapIsReached
<1>2. IsWellFoundedOn(R, Nat)
  BY NatLessThanWellFounded
<1>3. \A m, n \in Nat : n < m => <<n, m>> \in R
  BY DEF OpToRel
<1> HIDE DEF R
<1>4. PICK m \in S : \A n \in S : ~(<<n, m>> \in R)
  BY <1>1, <1>2, WFMin
<1>5. \A n \in S : ~(n < m)
  BY <1>1, <1>3, <1>4
<1>6. m \in 0..KB!MaxStrikes /\ First(m)
  BY <1>4, <1>5 DEF KB!MaxStrikes
<1>7. KB!Strikes \in 0..KB!MaxStrikes /\ First(KB!Strikes)
  BY <1>6 DEF KB!Strikes
<1>8. KB!Strikes < KB!MaxStrikes
  BY <1>4, <1>7 DEF KB!MaxStrikes
<1> QED
  BY <1>7, <1>8 DEF KB!MaxStrikes

\* The strike after the last backoff below the cap retires the key (key.go:57),
\* for every base, cap and multiplier with which the backoff reaches the cap,
\* however rate limits and late successes are interleaved.
THEOREM EngineStrikes ==
  ASSUME CapIsReached
  PROVE  EngineSpec => []StrikesBounded
<1>1. StrikesInv => StrikesBounded
  <2> SUFFICES ASSUME StrikesInv, NEW i \in KB!Indices
               PROVE  keyCBs[i].attempt <= KB!Strikes
    BY DEF StrikesBounded, KB!StrikesBounded
  <2>1. keyCBs[i].attempt \in Nat
    BY DEF StrikesInv, KeyInv, KB!TypeOK
  <2>2. ~(KB!Strikes < keyCBs[i].attempt)
    BY StrikesIsFirst DEF StrikesInv, SurvivedBelowCap
  <2> QED
    BY <2>1, <2>2, StrikesIsFirst
<1>2. EngineSpec => []StrikesInv
  BY EngineIsBoth, StrikesInit, StrikesNext, PTL DEF KB!Spec
<1> QED
  BY <1>1, <1>2, PTL

------------------------------------------------------------------------------
\* In an engine too, the failures in a row stay below the threshold while the
\* upstream breaker is CLOSED, and a HALF_OPEN one has given its probe away
\* (upstream.go:52, 92).
THEOREM EngineFieldsAgree == EngineSpec => []FieldsAgree
BY EngineIsBoth, BreakerCorrect, PTL

\* In an engine too, one caller at most is let through between a trip and the
\* next recorded outcome (upstream.go:87-98).
THEOREM EngineTrials == EngineSpec => []OneTrialPerTrip
BY EngineIsBoth, OneTrial, PTL

\* In an engine too, the upstream breaker implements Circuit.
THEOREM EngineKeepsCircuit == EngineSpec => KeepsCircuit
BY EngineIsBoth, BreakerKeepsCircuit, PTL

\* A retired key stays retired, whatever is recorded later (key.go:48, 94).
THEOREM EngineRetiresForGood == EngineSpec => PermanentIsFinal
<1>1. KeyInv /\ [KB!Next]_keyCBs
        => [\A i \in KB!Indices : KB!IsPermanent(i) => KB!IsPermanent(i)']_keyCBs
  <2> SUFFICES ASSUME KeyInv, KB!Next, NEW i \in KB!Indices, KB!IsPermanent(i)
               PROVE  KB!IsPermanent(i)'
    OBVIOUS
  <2> USE DEF KeyInv, KB!TypeOK, KB!IsPermanent
  <2>1. ASSUME NEW j \in KB!Indices, KB!Record(j)
        PROVE  KB!IsPermanent(i)'
    BY <2>1 DEF KB!Record, KB!RecordFailure, KB!RecordPerma, KB!RecordSuccess,
                KB!BackOff, KB!Exhaust, KB!MakePermanent
  <2>2. CASE KB!Elapse
    BY <2>2 DEF KB!Elapse
  <2> QED
    BY <2>1, <2>2 DEF KB!Next
<1>2. EngineSpec => []KeyInv
  BY EngineIsBoth, KeyInit, KeyNext, PTL DEF KB!Spec
<1> QED
  BY <1>1, <1>2, EngineIsBoth, PTL DEF KB!Spec, PermanentIsFinal, KB!PermanentIsFinal

==============================================================================
