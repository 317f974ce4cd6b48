----------------------------- MODULE ProxyProofs -----------------------------
(***************************************************************************)
(* The proxy path is type correct, uses its breakers through their methods *)
(* only, and retires keys safely, for any number of concurrent requests,   *)
(* keys and retries.                                                       *)
(*                                                                         *)
(* The inductive invariant is ProxyInv.  Types alone are not inductive: a  *)
(* failure count stays within its type only because a CLOSED breaker is    *)
(* below its threshold, and PermanentIsDisabled survives the last step of  *)
(* an authentication failure only because the key was disabled before      *)
(* (DisabledFirst).  That a key, once disabled or PERMANENT, stays so is   *)
(* what lets an answer outlive the state it was computed from.             *)
(***************************************************************************)
EXTENDS ProxyProperties, WellFoundedInduction, TLAPS

\* A step of the proxy is at most one call on the upstream breaker.
LEMMA UpStep ==
  [Next]_vars => [Up!Next]_upVars
<1> SUFFICES ASSUME [Next]_vars
             PROVE  [Up!Next]_upVars
  OBVIOUS
<1>1. ASSUME NEW c \in Clients, Step(c)
      PROVE  [Up!Next]_upVars
  BY <1>1 DEF Step, Exhausted, Admitted, Refused, PickKey, NoKey, WaitForKey,
     NoKeyLeft, Send, BuildFails, Gated, SleepOffBackoff, KeyIsRetired,
     ScanFindsOther, ScanFindsNone, Wake, Succeeds, SucceedUpstream, Relay,
     ClientError, ClientAborts, UpstreamFails, RateLimited, CoolKey, KeySurvives,
     QuotaExhausted, DisableExhausted, AuthRejected, RecordAuthRejected,
     OthersActive, NoneActive, Up!Next
<1>2. ASSUME NEW c \in Clients, Arrive(c) \/ RejectBody(c)
      PROVE  UNCHANGED upVars
  BY <1>2 DEF Arrive, RejectBody
<1>3. CASE HealthCheck
  BY <1>3 DEF HealthCheck, Up!Next
<1>4. ASSUME NEW i \in AdminKeys, AdminDisable(i) \/ AdminCooldown(i)
      PROVE  UNCHANGED upVars
  BY <1>4 DEF AdminDisable, AdminCooldown
<1>5. CASE Tick
  BY <1>5 DEF Tick, Up!Next
<1>6. CASE UNCHANGED vars
  BY <1>6 DEF vars
<1> QED
  BY <1>1, <1>2, <1>3, <1>4, <1>5, <1>6 DEF Next

\* A request at a holding label has an index of the pool.
LEMMA HoldsIndex ==
  ASSUME TypeOK, NEW c \in Clients, pc[c] \in Holding
  PROVE  idx[c] \in Indices
BY DEF TypeOK, RequestTypeOK, Indices

\* A step of the proxy is at most one call on one key's breaker.
LEMMA CBStep ==
  TypeOK /\ [Next]_vars => [CB!Next]_keyCBs
<1> SUFFICES ASSUME TypeOK, [Next]_vars
             PROVE  [CB!Next]_keyCBs
  OBVIOUS
<1>1. ASSUME NEW c \in Clients, Step(c)
      PROVE  [CB!Next]_keyCBs
  <2>1. CASE Succeeds(c) \/ RateLimited(c) \/ RecordAuthRejected(c)
    <3>1. idx[c] \in Indices
      BY <2>1, HoldsIndex DEF Succeeds, RateLimited, RecordAuthRejected, Holding
    <3> QED
      BY <2>1, <3>1 DEF Succeeds, RateLimited, RecordAuthRejected, CB!Next, CB!Record,
         CB!Indices, Indices
  <2>2. CASE ~(Succeeds(c) \/ RateLimited(c) \/ RecordAuthRejected(c))
    BY <1>1, <2>2 DEF Step, Exhausted, Admitted, Refused, PickKey, NoKey,
       WaitForKey, NoKeyLeft, Send, BuildFails, Gated, SleepOffBackoff,
       KeyIsRetired, ScanFindsOther, ScanFindsNone, Wake, SucceedUpstream, Relay,
       ClientError, ClientAborts, UpstreamFails, CoolKey, KeySurvives,
       QuotaExhausted, DisableExhausted, AuthRejected, OthersActive, NoneActive
  <2> QED
    BY <2>1, <2>2
<1>2. ASSUME NEW c \in Clients, Arrive(c) \/ RejectBody(c)
      PROVE  UNCHANGED keyCBs
  BY <1>2 DEF Arrive, RejectBody
<1>3. CASE HealthCheck
  BY <1>3 DEF HealthCheck
<1>4. ASSUME NEW i \in AdminKeys, AdminDisable(i) \/ AdminCooldown(i)
      PROVE  UNCHANGED keyCBs
  BY <1>4 DEF AdminDisable, AdminCooldown
<1>5. CASE Tick
  BY <1>5 DEF Tick, CB!Next, CB!Record
<1>6. CASE UNCHANGED vars
  BY <1>6 DEF vars
<1> QED
  BY <1>1, <1>2, <1>3, <1>4, <1>5, <1>6 DEF Next

\* What the steps of the proxy do to the pool: calls of its methods.
PoolCall ==
  \/ \E i \in 0..NumKeys : Pool!NextKey(i)
  \/ \E i \in Indices : Pool!Disable(i) \/ \E d \in Durations : Pool!Cooldown(i, d)
  \/ Pool!Elapse

\* A step of the proxy is at most one call on the key pool.
LEMMA PoolStep ==
  TypeOK /\ [Next]_vars => [PoolCall]_poolVars
<1> SUFFICES ASSUME TypeOK, [Next]_vars
             PROVE  [PoolCall]_poolVars
  OBVIOUS
<1>1. ASSUME NEW c \in Clients, Step(c)
      PROVE  [PoolCall]_poolVars
  <2>1. CASE PickKey(c)
    <3>1. PICK i \in Indices : Pool!NextKey(i)
      BY <2>1 DEF PickKey
    <3>2. i \in 0..NumKeys
      BY ProxyAssumption DEF Indices
    <3> QED
      BY <3>1, <3>2 DEF PoolCall
  <2>2. CASE NoKey(c)
    <3>1. 0 \in 0..NumKeys
      BY ProxyAssumption
    <3> QED
      BY <2>2, <3>1 DEF NoKey, PoolCall
  <2>3. CASE CoolKey(c) \/ DisableExhausted(c) \/ AuthRejected(c)
    <3>1. idx[c] \in Indices
      BY <2>3, HoldsIndex DEF CoolKey, DisableExhausted, AuthRejected, Holding
    <3> QED
      BY <2>3, <3>1 DEF CoolKey, DisableExhausted, AuthRejected, PoolCall
  <2>4. CASE ~(\/ PickKey(c) \/ NoKey(c) \/ CoolKey(c) \/ DisableExhausted(c)
               \/ AuthRejected(c))
    BY <1>1, <2>4 DEF Step, Exhausted, Admitted, Refused, WaitForKey, NoKeyLeft,
       Send, BuildFails, Gated, SleepOffBackoff, KeyIsRetired, ScanFindsOther,
       ScanFindsNone, Wake, Succeeds, SucceedUpstream, Relay, ClientError,
       ClientAborts, UpstreamFails, RateLimited, KeySurvives, QuotaExhausted,
       RecordAuthRejected, OthersActive, NoneActive
  <2> QED
    BY <2>1, <2>2, <2>3, <2>4
<1>2. ASSUME NEW c \in Clients, Arrive(c) \/ RejectBody(c)
      PROVE  UNCHANGED poolVars
  BY <1>2 DEF Arrive, RejectBody
<1>3. CASE HealthCheck
  BY <1>3 DEF HealthCheck
<1>4. ASSUME NEW i \in AdminKeys, AdminDisable(i) \/ AdminCooldown(i)
      PROVE  PoolCall
  BY <1>4, ProxyAssumption DEF AdminDisable, AdminCooldown, PoolCall, Indices, Durations
<1>5. CASE Tick
  BY <1>5 DEF Tick, PoolCall
<1>6. CASE UNCHANGED vars
  BY <1>6 DEF vars
<1> QED
  BY <1>1, <1>2, <1>3, <1>4, <1>5, <1>6 DEF Next

------------------------------------------------------------------------------
(* Type correctness, component by component.                               *)

UpInv == Up!TypeOK /\ Up!StreakBelowThreshold

\* A call on the upstream breaker keeps its types, and its streak below the
\* threshold while it is CLOSED.
LEMMA UpInvStep == UpInv /\ [Up!Next]_upVars => UpInv'
<1> SUFFICES ASSUME UpInv, [Up!Next]_upVars
             PROVE  UpInv'
  OBVIOUS
<1> USE ProxyAssumption DEF UpInv, Up!TypeOK, Up!StreakBelowThreshold
<1>1. CASE Up!FailWhileClosed
  BY <1>1 DEF Up!FailWhileClosed, Up!Trip
<1>2. CASE Up!FailWhileHalfOpen
  BY <1>2 DEF Up!FailWhileHalfOpen, Up!Trip
<1>3. CASE Up!FailWhileOpen \/ Up!Refuse
  BY <1>3 DEF Up!FailWhileOpen, Up!Refuse, Up!breakerVars
<1>4. CASE Up!RecordSuccess
  BY <1>4 DEF Up!RecordSuccess
<1>5. CASE Up!Admit
  BY <1>5 DEF Up!Admit, Up!ResetElapsed, Up!breakerVars
<1>6. CASE Up!Elapse
  BY <1>6 DEF Up!Elapse
<1>7. CASE UNCHANGED upVars
  BY <1>7 DEF upVars
<1> QED
  BY <1>1, <1>2, <1>3, <1>4, <1>5, <1>6, <1>7 DEF Up!Next, Up!RecordFailure

\* A call on a key's breaker keeps the breakers' types.
LEMMA CBTypeStep == CB!TypeOK /\ [CB!Next]_keyCBs => CB!TypeOK'
<1> SUFFICES ASSUME CB!TypeOK, [CB!Next]_keyCBs
             PROVE  CB!TypeOK'
  OBVIOUS
<1> USE ProxyAssumption DEF CB!TypeOK, CB!Indices, CB!IsPermanent
<1>1. ASSUME NEW i \in CB!Indices, CB!MakePermanent(i)
      PROVE  CB!TypeOK'
  BY <1>1 DEF CB!MakePermanent
<1>2. ASSUME NEW i \in CB!Indices, CB!BackOff(i)
      PROVE  CB!TypeOK'
  BY <1>2 DEF CB!BackOff, CB!Cooldowns
<1>3. ASSUME NEW i \in CB!Indices, CB!RecordSuccess(i)
      PROVE  CB!TypeOK'
  BY <1>3 DEF CB!RecordSuccess, CB!Fresh
<1>4. CASE CB!Elapse
  <2> SUFFICES ASSUME NEW i \in CB!Indices
               PROVE  keyCBs'[i] \in [state   : {"CLOSED", "OPEN", "PERMANENT"},
                                      attempt : Nat, left : 0..BackoffCap]
    BY <1>4 DEF CB!Elapse
  <2> DEFINE left == IF keyCBs[i].left > 0 THEN keyCBs[i].left - 1 ELSE 0
  <2>1. left \in 0..BackoffCap
    BY DEF CB!TypeOK
  <2>2. keyCBs'[i] = [keyCBs[i] EXCEPT !.left = left]
    BY <1>4 DEF CB!Elapse
  <2> HIDE DEF left
  <2> QED
    BY <2>1, <2>2
<1>5. CASE UNCHANGED keyCBs
  BY <1>5
<1> QED
  BY <1>1, <1>2, <1>3, <1>4, <1>5
     DEF CB!Next, CB!Record, CB!RecordFailure, CB!Exhaust, CB!RecordPerma

PoolType == Pool!TypeOK /\ Len(keys) = NumKeys

\* A call on the key pool keeps the pool's types and its length.
LEMMA PoolTypeStep == PoolType /\ [PoolCall]_poolVars => PoolType'
<1> SUFFICES ASSUME PoolType, [PoolCall]_poolVars
             PROVE  PoolType'
  OBVIOUS
<1> USE ProxyAssumption DEF PoolType, Pool!TypeOK, Indices
<1>1. ASSUME NEW i \in 0..NumKeys, Pool!NextKey(i)
      PROVE  PoolType'
  BY <1>1 DEF Pool!NextKey
<1>2. ASSUME NEW i \in Indices, Pool!Disable(i)
      PROVE  PoolType'
  <2>1. /\ i \in 1..Len(disabled) /\ i \in DOMAIN keys
        /\ disabled \in Seq(BOOLEAN) /\ TRUE \in BOOLEAN
    OBVIOUS
  <2>2. disabled' = [disabled EXCEPT ![i] = TRUE]
        /\ UNCHANGED <<counter, keys, cooldowns>>
    BY <1>2, <2>1 DEF Pool!Disable, Pool!OutOfRange
  <2>3. disabled' \in Seq(BOOLEAN) /\ Len(disabled') = Len(disabled)
    BY <2>1, <2>2
  <2> QED
    BY <2>2, <2>3
<1>3. ASSUME NEW i \in Indices, NEW d \in Durations, Pool!Cooldown(i, d)
      PROVE  PoolType'
  <2> DEFINE until == IF cooldowns[i] < d THEN d ELSE cooldowns[i]
  <2>1. /\ i \in 1..Len(cooldowns) /\ i \in DOMAIN keys
        /\ cooldowns \in Seq(Nat)
    OBVIOUS
  <2>2. cooldowns' = [cooldowns EXCEPT ![i] = until]
        /\ UNCHANGED <<counter, keys, disabled>>
    BY <1>3, <2>1 DEF Pool!Cooldown, Pool!OutOfRange
  <2>3. until \in Nat
    BY <2>1 DEF Durations
  <2>4. cooldowns' \in Seq(Nat) /\ Len(cooldowns') = Len(cooldowns)
    <3> HIDE DEF until
    <3> QED
      BY <2>1, <2>2, <2>3
  <2> QED
    BY <2>2, <2>4
<1>4. CASE Pool!Elapse
  BY <1>4 DEF Pool!Elapse
<1>5. CASE UNCHANGED poolVars
  BY <1>5 DEF poolVars
<1> QED
  BY <1>1, <1>2, <1>3, <1>4, <1>5 DEF PoolCall

\* A nonempty set of naturals has a least element, which is what Min returns.
LEMMA LeastNatural ==
  ASSUME NEW S \in SUBSET Nat, S # {}
  PROVE  \E m \in S : \A n \in S : m <= n
<1> DEFINE R == OpToRel(<, Nat)
<1>1. IsWellFoundedOn(R, Nat)
  BY NatLessThanWellFounded
<1>2. \A m, n \in Nat : n < m => <<n, m>> \in R
  BY DEF OpToRel
<1> HIDE DEF R
<1>3. PICK m \in S : \A n \in S : ~(<<n, m>> \in R)
  BY <1>1, WFMin
<1>4. \A n \in S : ~(n < m)
  BY <1>2, <1>3, Zenon
<1> QED
  BY <1>4

\* TimeUntilAvailable returns a sleep, or -1 when every key is disabled.
LEMMA WaitType ==
  ASSUME PoolType
  PROVE  /\ Pool!TimeUntilAvailable \in Nat \cup {-1}
         /\ Pool!TimeUntilAvailable < 0 => \A i \in Indices : disabled[i]
<1> DEFINE waits == {cooldowns[i] : i \in Pool!ActiveKeys}
<1>1. waits \subseteq Nat
  BY DEF PoolType, Pool!TypeOK, Pool!ActiveKeys
<1>2. CASE waits = {}
  <2>1. Pool!TimeUntilAvailable = -1
    BY <1>2 DEF Pool!TimeUntilAvailable
  <2>2. ASSUME NEW i \in Indices
        PROVE  disabled[i]
    <3>1. i \in DOMAIN keys
      BY DEF PoolType, Pool!TypeOK, Indices
    <3>2. ~disabled[i] => cooldowns[i] \in waits
      BY <3>1 DEF Pool!ActiveKeys
    <3> QED
      BY <1>2, <3>2
  <2> QED
    BY <2>1, <2>2
<1>3. CASE waits # {}
  <2>1. \E w \in waits : \A v \in waits : w <= v
    BY <1>1, <1>3, LeastNatural
  <2>2. Pool!Min(waits) \in waits
    BY <2>1 DEF Pool!Min
  <2>3. Pool!TimeUntilAvailable = Pool!Min(waits)
    BY <1>3 DEF Pool!TimeUntilAvailable
  <2> QED
    BY <1>1, <2>2, <2>3
<1> QED
  BY <1>2, <1>3

\* ActiveCount is zero only if every key is disabled.
LEMMA NoneActiveMeans ==
  ASSUME PoolType, Pool!ActiveKeys = {}
  PROVE  \A i \in Indices : disabled[i]
<1>1. DOMAIN keys = Indices
  BY DEF PoolType, Pool!TypeOK, Indices
<1> QED
  BY <1>1 DEF Pool!ActiveKeys

\* The ways in which a step of a request ends keep the requests well typed.
LEMMA EndsType ==
  ASSUME RequestTypeOK, NEW c \in Clients
  PROVE  /\ \A l \in Labels :
              /\ l \in Holding <=> pc[c] \in Holding
              /\ attempt[c] < MaxRetries
              /\ Goto(c, l)
              => RequestTypeOK'
         /\ \A i \in Indices :
              attempt[c] < MaxRetries /\ Hold(c, "gate", i) => RequestTypeOK'
         /\ attempt[c] < MaxRetries /\ Retry(c) => RequestTypeOK'
         /\ \A d \in Nat :
              attempt[c] < MaxRetries /\ Sleep(c, d) => RequestTypeOK'
         /\ \A a \in Answers : Finish(c, a) => RequestTypeOK'
<1> USE ProxyAssumption DEF RequestTypeOK, Labels, Holding
<1>1. ASSUME NEW l \in Labels, l \in Holding <=> pc[c] \in Holding,
             attempt[c] < MaxRetries, Goto(c, l)
      PROVE  RequestTypeOK'
  BY <1>1 DEF Goto
<1>2. ASSUME NEW i \in Indices, attempt[c] < MaxRetries, Hold(c, "gate", i)
      PROVE  RequestTypeOK'
  BY <1>2 DEF Hold, Indices
<1>3. ASSUME attempt[c] < MaxRetries, Retry(c)
      PROVE  RequestTypeOK'
  BY <1>3 DEF Retry
<1>4. ASSUME NEW d \in Nat, attempt[c] < MaxRetries, Sleep(c, d)
      PROVE  RequestTypeOK'
  BY <1>4 DEF Sleep
<1>5. ASSUME NEW a \in Answers, Finish(c, a)
      PROVE  RequestTypeOK'
  BY <1>5 DEF Finish
<1> QED
  BY <1>1, <1>2, <1>3, <1>4, <1>5

\* The value CooldownRemaining returns is a sleep, unless the key is retired.
LEMMA RemainingType ==
  ASSUME CB!TypeOK, NEW i \in Indices
  PROVE  CB!CooldownRemaining(i) \in Nat \cup {-1}
BY ProxyAssumption DEF CB!TypeOK, CB!CooldownRemaining, CB!Indices, Indices

\* A step keeps the requests' types, and a key held exactly where one is used.
LEMMA RequestTypeStep == TypeOK /\ [Next]_vars => RequestTypeOK'
<1> SUFFICES ASSUME TypeOK, [Next]_vars
             PROVE  RequestTypeOK'
  OBVIOUS
<1>0. RequestTypeOK /\ PoolType /\ CB!TypeOK
  BY DEF TypeOK, PoolType
<1>1. ASSUME NEW c \in Clients, Step(c)
      PROVE  RequestTypeOK'
  <2>0. pc[c] \notin {"idle", "admit"} => attempt[c] < MaxRetries
    BY <1>0 DEF RequestTypeOK
  <2>1. CASE \/ Admitted(c) \/ NoKey(c) \/ Send(c) \/ Gated(c) \/ KeyIsRetired(c)
             \/ Succeeds(c) \/ SucceedUpstream(c) \/ RateLimited(c) \/ CoolKey(c)
             \/ QuotaExhausted(c) \/ DisableExhausted(c) \/ AuthRejected(c)
             \/ RecordAuthRejected(c) \/ ClientError(c)
    <3>1. \E l \in Labels :
            /\ l \in Holding <=> pc[c] \in Holding
            /\ attempt[c] < MaxRetries
            /\ Goto(c, l)
      BY <2>0, <2>1 DEF Admitted, ClientError, NoKey, Send, Gated, KeyIsRetired, Succeeds,
         SucceedUpstream, RateLimited, CoolKey, QuotaExhausted, DisableExhausted,
         AuthRejected, RecordAuthRejected, Labels, Holding
    <3> QED
      BY <1>0, <3>1, EndsType
  <2>2. CASE PickKey(c)
    BY <1>0, <2>0, <2>2, EndsType DEF PickKey
  <2>3. CASE \/ ScanFindsOther(c) \/ Wake(c) \/ UpstreamFails(c) \/ KeySurvives(c)
             \/ OthersActive(c)
    BY <1>0, <2>0, <2>3, EndsType
       DEF ScanFindsOther, Wake, UpstreamFails, KeySurvives, OthersActive
  <2>4. CASE Refused(c) \/ WaitForKey(c) \/ SleepOffBackoff(c)
    <3>1. \E d \in Nat : attempt[c] < MaxRetries /\ Sleep(c, d)
      <4>1. CASE Refused(c)
        BY <4>1, ProxyAssumption DEF Refused
      <4>2. CASE WaitForKey(c)
        BY <1>0, <2>0, <4>2, WaitType DEF WaitForKey
      <4>3. CASE SleepOffBackoff(c)
        <5>1. idx[c] \in Indices
          BY <4>3, HoldsIndex DEF SleepOffBackoff, Holding
        <5> QED
          BY <1>0, <2>0, <4>3, <5>1, RemainingType DEF SleepOffBackoff
      <4> QED
        BY <2>4, <4>1, <4>2, <4>3
    <3> QED
      BY <1>0, <3>1, EndsType
  <2>5. CASE \/ Exhausted(c) \/ NoKeyLeft(c) \/ BuildFails(c) \/ ScanFindsNone(c)
             \/ Relay(c) \/ ClientAborts(c) \/ NoneActive(c)
    <3>1. \E a \in Answers : Finish(c, a)
      BY <2>5 DEF Exhausted, NoKeyLeft, BuildFails, ScanFindsNone, Relay,
         ClientAborts, NoneActive, Answers
    <3> QED
      BY <1>0, <3>1, EndsType
  <2> QED
    BY <1>1, <2>1, <2>2, <2>3, <2>4, <2>5 DEF Step
<1>2. ASSUME NEW c \in Clients, Arrive(c)
      PROVE  RequestTypeOK'
  BY <1>0, <1>2 DEF Arrive, RequestTypeOK, Labels, Holding, Answers
<1>3. ASSUME NEW c \in Clients, RejectBody(c)
      PROVE  RequestTypeOK'
  <2>1. Finish(c, "BAD_REQUEST") /\ "BAD_REQUEST" \in Answers
    BY <1>3 DEF RejectBody, Answers
  <2> QED
    BY <1>0, <2>1, EndsType
<1>4. CASE Tick
  BY <1>0, <1>4 DEF Tick, RequestTypeOK
<1>5. CASE UNCHANGED requestVars
  BY <1>0, <1>5 DEF requestVars, RequestTypeOK
<1> QED
  BY <1>1, <1>2, <1>3, <1>4, <1>5
     DEF Next, HealthCheck, AdminDisable, AdminCooldown, vars, requestVars

TypeInv == TypeOK /\ Up!StreakBelowThreshold

\* The initial states are well typed.
LEMMA TypeInit == Init => TypeInv
<1> SUFFICES ASSUME Init
             PROVE  TypeInv
  OBVIOUS
<1>1. Up!TypeOK /\ Up!StreakBelowThreshold
  <2>1. 0 \in 0..Threshold /\ 0 \in 0..ResetTimeout /\ 0 < Threshold
    BY ProxyAssumption
  <2> QED
    BY <2>1, Zenon DEF Init, Up!Init, Up!TypeOK, Up!StreakBelowThreshold
<1>2. CB!TypeOK
  BY ProxyAssumption DEF Init, CB!Init, CB!TypeOK, CB!Fresh
<1>3. Pool!TypeOK /\ Len(keys) = NumKeys
  BY ProxyAssumption DEF Init, Pool!NewKeyPool, Pool!TypeOK, Indices
<1>4. RequestTypeOK
  BY ProxyAssumption DEF Init, RequestTypeOK, Labels, Holding, Answers
<1> QED
  BY <1>1, <1>2, <1>3, <1>4 DEF TypeInv, TypeOK

\* Every step keeps the types.
LEMMA TypeNext == TypeInv /\ [Next]_vars => TypeInv'
<1> SUFFICES ASSUME TypeInv, [Next]_vars
             PROVE  TypeInv'
  OBVIOUS
<1>1. UpInv'
  BY UpStep, UpInvStep DEF TypeInv, TypeOK, UpInv
<1>2. CB!TypeOK'
  BY CBStep, CBTypeStep DEF TypeInv, TypeOK
<1>3. PoolType'
  BY PoolStep, PoolTypeStep DEF TypeInv, TypeOK, PoolType
<1>4. RequestTypeOK'
  BY RequestTypeStep DEF TypeInv
<1> QED
  BY <1>1, <1>2, <1>3, <1>4 DEF TypeInv, TypeOK, UpInv, PoolType

\* Types of the shared objects and of the requests, for any number of clients,
\* keys and retries.
THEOREM ProxyTypeOK == Spec => []TypeOK
<1>1. TypeInv => TypeOK
  BY DEF TypeInv
<1> QED
  BY <1>1, TypeInit, TypeNext, PTL DEF Spec

\* The handlers, the health check and the clock use the breakers through their
\* methods only, so that whatever is proved of the breakers holds in the proxy.
THEOREM ProxyUsesBreakers == Spec => Up!Spec /\ CB!Spec
<1>1. Spec => []TypeOK
  BY ProxyTypeOK
<1>2. Init => Up!Init /\ CB!Init
  BY DEF Init
<1>3. [Next]_vars => [Up!Next]_(Up!breakerVars)
  BY UpStep DEF upVars, Up!breakerVars
<1> QED
  BY <1>1, <1>2, <1>3, CBStep, PTL DEF Spec, Up!Spec, CB!Spec

------------------------------------------------------------------------------
(* Retirement of keys.  Both records of it are final, so what a handler    *)
(* has seen of them stays true while it acts on it.                        *)

\* No call on the pool enables a disabled key.
LEMMA DisabledIsFinal ==
  ASSUME PoolType, [PoolCall]_poolVars, NEW i \in Indices, disabled[i]
  PROVE  disabled'[i]
<1>1. i \in DOMAIN disabled
  BY DEF PoolType, Pool!TypeOK, Indices
<1>2. ASSUME NEW j \in Indices, Pool!Disable(j)
      PROVE  disabled'[i]
  BY <1>1, <1>2 DEF Pool!Disable, Pool!OutOfRange, Pool!poolVars
<1>3. CASE UNCHANGED disabled
  BY <1>3
<1>4. CASE \/ \E j \in 0..NumKeys : Pool!NextKey(j)
           \/ \E j \in Indices : \E d \in Durations : Pool!Cooldown(j, d)
           \/ Pool!Elapse
           \/ UNCHANGED poolVars
  BY <1>3, <1>4 DEF Pool!NextKey, Pool!Cooldown, Pool!OutOfRange, Pool!poolVars,
     Pool!Elapse, poolVars
<1> QED
  BY <1>2, <1>4 DEF PoolCall

\* No call on the breakers revives a PERMANENT one.
LEMMA PermanentIsFinal ==
  ASSUME CB!TypeOK, [CB!Next]_keyCBs, NEW i \in Indices, CB!IsPermanent(i)
  PROVE  CB!IsPermanent(i)'
<1> USE DEF CB!TypeOK, CB!IsPermanent, CB!Indices, Indices
<1>1. ASSUME NEW j \in CB!Indices, CB!RecordFailure(j)
      PROVE  CB!IsPermanent(i)'
  BY <1>1 DEF CB!RecordFailure, CB!BackOff, CB!Exhaust, CB!MakePermanent
<1>2. ASSUME NEW j \in CB!Indices, CB!RecordPerma(j)
      PROVE  CB!IsPermanent(i)'
  BY <1>2 DEF CB!RecordPerma, CB!MakePermanent
<1>3. ASSUME NEW j \in CB!Indices, CB!RecordSuccess(j)
      PROVE  CB!IsPermanent(i)'
  BY <1>3 DEF CB!RecordSuccess
<1>4. CASE CB!Elapse
  BY <1>4 DEF CB!Elapse
<1>5. CASE UNCHANGED keyCBs
  BY <1>5
<1> QED
  BY <1>1, <1>2, <1>3, <1>4, <1>5 DEF CB!Next, CB!Record

\* Both records of a key's retirement are final in the proxy.
LEMMA BothFinal ==
  ASSUME TypeInv, [Next]_vars, NEW i \in Indices
  PROVE  /\ disabled[i] => disabled'[i]
         /\ CB!IsPermanent(i) => CB!IsPermanent(i)'
BY PoolStep, CBStep, DisabledIsFinal, PermanentIsFinal DEF TypeInv, TypeOK, PoolType

\* A step of one request leaves the others where they are.
LEMMA OthersStay ==
  ASSUME NEW c \in Clients, Step(c) \/ Arrive(c) \/ RejectBody(c), RequestTypeOK,
         NEW d \in Clients \ {c}
  PROVE  pc'[d] = pc[d] /\ idx'[d] = idx[d] /\ answer'[d] = answer[d]
<1> USE DEF RequestTypeOK
<1>1. CASE \E l \in Labels : Goto(c, l)
  BY <1>1 DEF Goto
<1>2. CASE \E i \in Indices : Hold(c, "gate", i)
  BY <1>2 DEF Hold
<1>3. CASE Retry(c)
  BY <1>3 DEF Retry
<1>4. CASE \E w : Sleep(c, w)
  BY <1>4 DEF Sleep
<1>5. CASE \E a \in Answers : Finish(c, a)
  BY <1>5 DEF Finish
<1>6. CASE Arrive(c)
  BY <1>6 DEF Arrive
<1>7. CASE Step(c) \/ RejectBody(c)
  <2>1. \/ \E l \in Labels : Goto(c, l)
        \/ \E i \in Indices : Hold(c, "gate", i)
        \/ Retry(c)
        \/ \E w : Sleep(c, w)
        \/ \E a \in Answers : Finish(c, a)
    BY <1>7 DEF Step, Exhausted, Admitted, Refused, PickKey, NoKey, WaitForKey,
       NoKeyLeft, Send, BuildFails, Gated, SleepOffBackoff, KeyIsRetired,
       ScanFindsOther, ScanFindsNone, Wake, Succeeds, SucceedUpstream, Relay,
       ClientError, ClientAborts, UpstreamFails, RateLimited, CoolKey,
       KeySurvives, QuotaExhausted, DisableExhausted, AuthRejected,
       RecordAuthRejected, OthersActive, NoneActive, RejectBody, Labels, Answers
  <2> QED
    BY <1>1, <1>2, <1>3, <1>4, <1>5, <2>1
<1> QED
  BY <1>6, <1>7

\* What a step did to a request is a step of that request.
LEMMA RequestMoved ==
  ASSUME TypeInv, [Next]_vars, NEW d \in Clients,
         pc'[d] # pc[d] \/ idx'[d] # idx[d] \/ answer'[d] # answer[d]
  PROVE  Step(d) \/ Arrive(d) \/ RejectBody(d)
<1>1. RequestTypeOK
  BY DEF TypeInv, TypeOK
<1>2. PICK c \in Clients : Step(c) \/ Arrive(c) \/ RejectBody(c)
  BY DEF Next, HealthCheck, AdminDisable, AdminCooldown, Tick, vars, requestVars
<1>3. CASE c = d
  BY <1>2, <1>3
<1>4. CASE c # d
  BY <1>1, <1>2, <1>4, OthersStay
<1> QED
  BY <1>3, <1>4

\* What keeps PermanentIsDisabled: a handler that was refused with 401 or 403 disables the key
\* before it marks the breaker, never after (handlers.go:283-284).
DisabledFirst ==
  \A c \in Clients : pc[c] \in {"perma", "active"} => disabled[idx[c]]

\* A handler on its way to mark a breaker PERMANENT has disabled the key.
LEMMA DisabledFirstStep ==
  ASSUME TypeInv, TypeInv', [Next]_vars, DisabledFirst
  PROVE  DisabledFirst'
<1> SUFFICES ASSUME NEW d \in Clients, pc'[d] \in {"perma", "active"}
             PROVE  disabled'[idx'[d]]
  BY DEF DisabledFirst
<1>1. CASE pc'[d] = pc[d] /\ idx'[d] = idx[d]
  <2>1. disabled[idx[d]] /\ idx[d] \in Indices
    BY <1>1, HoldsIndex DEF DisabledFirst, TypeInv, Holding
  <2> QED
    BY <1>1, <2>1, BothFinal
<1>2. CASE ~(pc'[d] = pc[d] /\ idx'[d] = idx[d])
  <2>0. RequestTypeOK /\ PoolType
    BY DEF TypeInv, TypeOK, PoolType
  <2>1. Step(d) \/ Arrive(d) \/ RejectBody(d)
    BY <1>2, RequestMoved
  <2>2. CASE AuthRejected(d) \/ DisableExhausted(d)
    <3>1. idx[d] \in Indices
      BY <2>2, HoldsIndex DEF AuthRejected, DisableExhausted, TypeInv, Holding
    <3>2. Pool!Disable(idx[d]) /\ idx'[d] = idx[d]
      BY <2>2 DEF AuthRejected, DisableExhausted, Goto
    <3> QED
      BY <2>0, <3>1, <3>2 DEF Pool!Disable, Pool!OutOfRange, PoolType, Pool!TypeOK,
         Indices
  <2>3. CASE RecordAuthRejected(d)
    <3>1. pc[d] = "perma" /\ idx'[d] = idx[d]
      BY <2>3 DEF RecordAuthRejected, Goto
    <3>2. disabled[idx[d]] /\ idx[d] \in Indices
      BY <3>1, HoldsIndex DEF DisabledFirst, TypeInv, Holding
    <3> QED
      BY <3>1, <3>2, BothFinal
  <2>4. CASE ~(AuthRejected(d) \/ DisableExhausted(d) \/ RecordAuthRejected(d))
    BY <2>0, <2>1, <2>4 DEF RequestTypeOK, Step, Exhausted, Admitted, Refused,
       PickKey, NoKey, WaitForKey, NoKeyLeft, Send, BuildFails, Gated,
       SleepOffBackoff, KeyIsRetired, ScanFindsOther, ScanFindsNone, Wake,
       Succeeds, SucceedUpstream, Relay, ClientError, ClientAborts, UpstreamFails,
       RateLimited, CoolKey, KeySurvives, QuotaExhausted, OthersActive, NoneActive,
       Arrive, RejectBody, Goto, Hold, Retry, Sleep, Finish
  <2> QED
    BY <2>2, <2>3, <2>4
<1> QED
  BY <1>1, <1>2

\* A breaker turns PERMANENT because a handler was told 429, 401 or 403.
LEMMA TurnsPermanent ==
  ASSUME TypeInv, [Next]_vars, NEW i \in Indices,
         ~CB!IsPermanent(i), CB!IsPermanent(i)'
  PROVE  \E c \in Clients :
           idx[c] = i /\ (RateLimited(c) \/ RecordAuthRejected(c))
<1>0. CB!TypeOK
  BY DEF TypeInv, TypeOK
<1>1. keyCBs' # keyCBs
  BY DEF CB!IsPermanent
<1>2. ~CB!Elapse
  BY <1>0 DEF CB!Elapse, CB!IsPermanent, CB!TypeOK, CB!Indices, Indices
<1>3. ASSUME NEW c \in Clients, Succeeds(c)
      PROVE  FALSE
  <2>1. idx[c] \in Indices /\ CB!RecordSuccess(idx[c])
    BY <1>3, HoldsIndex DEF Succeeds, TypeInv, Holding
  <2>2. keyCBs' = [keyCBs EXCEPT ![idx[c]] = CB!Fresh]
    BY <1>1, <2>1 DEF CB!RecordSuccess
  <2>3. keyCBs'[i] = CB!Fresh \/ keyCBs'[i] = keyCBs[i]
    BY <1>0, <2>1, <2>2 DEF CB!TypeOK, CB!Indices, Indices
  <2> QED
    BY <2>3 DEF CB!IsPermanent, CB!Fresh
<1>4. PICK c \in Clients : RateLimited(c) \/ RecordAuthRejected(c)
  <2>1. PICK c \in Clients : Step(c)
    BY <1>1, <1>2 DEF Next, Arrive, RejectBody, HealthCheck, AdminDisable,
       AdminCooldown, Tick, vars
  <2>2. RateLimited(c) \/ RecordAuthRejected(c) \/ Succeeds(c)
    BY <1>1, <2>1 DEF Step, Exhausted, Admitted, Refused, PickKey, NoKey,
       WaitForKey, NoKeyLeft, Send, BuildFails, Gated, SleepOffBackoff,
       KeyIsRetired, ScanFindsOther, ScanFindsNone, Wake, SucceedUpstream, Relay,
       ClientError, ClientAborts, UpstreamFails, CoolKey, KeySurvives,
       QuotaExhausted, DisableExhausted, AuthRejected, OthersActive, NoneActive
  <2> QED
    BY <1>3, <2>2
<1>5. idx[c] = i
  <2>1. idx[c] \in Indices
    BY <1>4, HoldsIndex DEF RateLimited, RecordAuthRejected, TypeInv, Holding
  <2>2. CB!RecordFailure(idx[c]) \/ CB!RecordPerma(idx[c])
    BY <1>4 DEF RateLimited, RecordAuthRejected
  <2> QED
    BY <1>0, <2>1, <2>2 DEF CB!RecordFailure, CB!RecordPerma, CB!BackOff,
       CB!Exhaust, CB!MakePermanent, CB!IsPermanent, CB!TypeOK, CB!Indices, Indices
<1> QED
  BY <1>4, <1>5

\* A step that makes a breaker PERMANENT leaves the key disabled, or its
\* handler on the way to disable it; a step that ends that way disables it.
LEMMA PermanentIsDisabledStep ==
  ASSUME TypeInv, TypeInv', [Next]_vars, DisabledFirst, PermanentIsDisabled
  PROVE  PermanentIsDisabled'
<1> SUFFICES ASSUME NEW i \in Indices, CB!IsPermanent(i)'
             PROVE  disabled'[i] \/ \E c \in Clients : Retiring(c, i)'
  BY DEF PermanentIsDisabled
<1>0. RequestTypeOK /\ PoolType
  BY DEF TypeInv, TypeOK, PoolType
<1>1. CASE ~CB!IsPermanent(i)
  <2>1. PICK c \in Clients : idx[c] = i /\ (RateLimited(c) \/ RecordAuthRejected(c))
    BY <1>1, TurnsPermanent
  <2>2. CASE RateLimited(c)
    BY <1>0, <2>1, <2>2 DEF RateLimited, Goto, Retiring, RequestTypeOK
  <2>3. CASE RecordAuthRejected(c)
    <3>1. disabled[i]
      BY <2>1, <2>3 DEF RecordAuthRejected, DisabledFirst
    <3> QED
      BY <3>1, BothFinal
  <2> QED
    BY <2>1, <2>2, <2>3
<1>2. CASE CB!IsPermanent(i) /\ disabled[i]
  BY <1>2, BothFinal
<1>3. CASE CB!IsPermanent(i) /\ ~disabled[i]
  <2>1. PICK c \in Clients : Retiring(c, i)
    BY <1>3 DEF PermanentIsDisabled
  <2>2. CASE pc'[c] = pc[c] /\ idx'[c] = idx[c]
    BY <2>1, <2>2 DEF Retiring
  <2>3. CASE ~(pc'[c] = pc[c] /\ idx'[c] = idx[c])
    <3>1. Step(c) \/ Arrive(c) \/ RejectBody(c)
      BY <2>3, RequestMoved
    <3>2. CoolKey(c) \/ KeySurvives(c) \/ QuotaExhausted(c) \/ DisableExhausted(c)
      BY <2>1, <3>1 DEF Retiring, Step, Exhausted, Admitted, Refused, PickKey,
         NoKey, WaitForKey, NoKeyLeft, Send, BuildFails, Gated, SleepOffBackoff,
         KeyIsRetired, ScanFindsOther, ScanFindsNone, Wake, Succeeds,
         SucceedUpstream, Relay, ClientError, ClientAborts, UpstreamFails,
         RateLimited, AuthRejected, RecordAuthRejected, OthersActive, NoneActive,
         Arrive, RejectBody
    <3>3. CASE CoolKey(c) \/ QuotaExhausted(c)
      BY <1>0, <2>1, <3>3 DEF CoolKey, QuotaExhausted, Goto, Retiring, RequestTypeOK
    <3>4. CASE KeySurvives(c)
      BY <1>3, <2>1, <3>4 DEF KeySurvives, Retiring
    <3>5. CASE DisableExhausted(c)
      BY <1>0, <2>1, <3>5 DEF DisableExhausted, Retiring, Pool!Disable,
         Pool!OutOfRange, PoolType, Pool!TypeOK, Indices
    <3> QED
      BY <3>2, <3>3, <3>4, <3>5
  <2> QED
    BY <2>2, <2>3
<1> QED
  BY <1>1, <1>2, <1>3

\* The answer that all keys are invalid is given only when they are, and
\* stays true.
LEMMA AllKeysInvalidStep ==
  ASSUME TypeInv, TypeInv', [Next]_vars, AllKeysInvalidIsTrue
  PROVE  AllKeysInvalidIsTrue'
<1> SUFFICES ASSUME NEW d \in Clients, answer'[d] = "ALL_KEYS_INVALID"
             PROVE  (\A i \in Indices : disabled'[i]) \/ AllPermanent'
  BY DEF AllKeysInvalidIsTrue
<1>0. RequestTypeOK /\ PoolType
  BY DEF TypeInv, TypeOK, PoolType
<1>1. (\A i \in Indices : disabled[i]) \/ AllPermanent
  <2>1. CASE answer'[d] = answer[d]
    BY <2>1 DEF AllKeysInvalidIsTrue
  <2>2. CASE answer'[d] # answer[d]
    <3>1. Step(d) \/ Arrive(d) \/ RejectBody(d)
      BY <2>2, RequestMoved
    <3>2. NoKeyLeft(d) \/ ScanFindsNone(d) \/ NoneActive(d)
      BY <1>0, <2>2, <3>1 DEF RequestTypeOK, Step, Exhausted, Admitted, Refused,
         PickKey, NoKey, WaitForKey, Send, BuildFails, Gated, SleepOffBackoff,
         KeyIsRetired, ScanFindsOther, Wake, Succeeds, SucceedUpstream, Relay,
         ClientError, ClientAborts, UpstreamFails, RateLimited, CoolKey,
         KeySurvives, QuotaExhausted, DisableExhausted, AuthRejected,
         RecordAuthRejected, OthersActive, Arrive, RejectBody, Goto, Hold, Retry,
         Sleep, Finish
    <3> QED
      BY <1>0, <3>2, WaitType, NoneActiveMeans
         DEF NoKeyLeft, ScanFindsNone, NoneActive
  <2> QED
    BY <2>1, <2>2
<1> QED
  BY <1>1, BothFinal DEF AllPermanent

ProxyInv ==
  TypeInv /\ DisabledFirst /\ PermanentIsDisabled /\ AllKeysInvalidIsTrue

\* The initial states satisfy the inductive invariant.
LEMMA ProxyInit == Init => ProxyInv
<1> SUFFICES ASSUME Init
             PROVE  ProxyInv
  OBVIOUS
<1>1. DisabledFirst /\ AllKeysInvalidIsTrue
  BY DEF Init, DisabledFirst, AllKeysInvalidIsTrue
<1>2. PermanentIsDisabled
  BY DEF Init, CB!Init, CB!Fresh, CB!IsPermanent, CB!Indices, Indices,
     PermanentIsDisabled
<1> QED
  BY <1>1, <1>2, TypeInit DEF ProxyInv

\* Every step keeps the inductive invariant.
LEMMA ProxyNext == ProxyInv /\ [Next]_vars => ProxyInv'
BY TypeNext, DisabledFirstStep, PermanentIsDisabledStep, AllKeysInvalidStep
   DEF ProxyInv

\* A key's two records of retirement agree (handlers.go:249-261, 283-284), and a
\* client is told that all keys are invalid only when they are, for any number
\* of concurrent requests, keys and retries.
THEOREM RetirementIsSafe ==
  Spec => [](PermanentIsDisabled /\ AllKeysInvalidIsTrue)
<1>1. ProxyInv => PermanentIsDisabled /\ AllKeysInvalidIsTrue
  BY DEF ProxyInv
<1> QED
  BY <1>1, ProxyInit, ProxyNext, PTL DEF Spec

\* The first of the two: a retired key is disabled, or about to be by the handler
\* that retired it.
THEOREM RetiredIsDisabled == Spec => []PermanentIsDisabled
BY RetirementIsSafe, PTL

==============================================================================
