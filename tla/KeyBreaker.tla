----------------------------- MODULE KeyBreaker ------------------------------
(***************************************************************************)
(* KeyCircuitBreaker of internal/circuitbreaker/key.go, as the slice       *)
(* ProxyEngine.keyCBs that NewProxyEngine allocates, one breaker per key.  *)
(* Each method holds k.mu from start to end, so each is one step.          *)
(*                                                                         *)
(* Time: left is what is left until cooldownUntil, rounded up to a tick.   *)
(* trippedReason is only shown and is left out.                            *)
(***************************************************************************)
EXTENDS Integers

CONSTANTS NumKeys,          \* number of breakers: the keys at start-up
          Base,             \* cooldown of the first rate limit (CooldownSec)
          BackoffCap,       \* BackoffCapSec
          MultNum, MultDen  \* BackoffMultiplier = MultNum / MultDen

\* NewProxyEngine replaces a cap or a multiplier that is not positive; it
\* leaves CooldownSec as configured.
BackoffAssumption ==
  /\ NumKeys \in Nat
  /\ Base \in Nat
  /\ BackoffCap \in Nat \ {0}
  /\ MultNum \in Nat \ {0} /\ MultDen \in Nat \ {0}

VARIABLE keyCBs             \* keyCBs[i]: state, attempt and left of breaker i

Indices == 1..NumKeys

Fresh == [state |-> "CLOSED", attempt |-> 0, left |-> 0]

Init == keyCBs = [i \in Indices |-> Fresh]

\* base * time.Duration(math.Pow(multiplier, attempt)): the conversion drops
\* the fraction of the power before it is multiplied.
Raw(attempt) == Base * (MultNum ^ attempt \div MultDen ^ attempt)

\* The backoff that retires a key instead of cooling it.
ReachesCap(attempt) == Raw(attempt) >= BackoffCap

\* raw + jitter, cut to the cap.  defaultJitter is below half of raw, rounded up
\* to whole ticks.  Mutant: not cut.
CooldownsUncapped(raw) ==
  {d \in 0..(2 * BackoffCap) : raw <= d /\ 2 * (d - raw) <= raw + 1}

Cooldowns(raw) == {d \in 0..BackoffCap : raw <= d /\ 2 * (d - raw) <= raw + 1}

IsPermanent(i) == keyCBs[i].state = "PERMANENT"

MakePermanent(i) == keyCBs' = [keyCBs EXCEPT ![i].state = "PERMANENT"]

\* Mutant: a backoff equal to the cap does not retire the key.
BackOffAtCap(i) ==
  /\ Raw(keyCBs[i].attempt) <= BackoffCap
  /\ keyCBs' = [keyCBs EXCEPT ![i] = [state   |-> "OPEN",
                                      attempt |-> @.attempt + 1,
                                      left    |-> BackoffCap]]

BackOff(i) ==
  /\ ~ReachesCap(keyCBs[i].attempt)
  /\ \E d \in Cooldowns(Raw(keyCBs[i].attempt)) :
       keyCBs' = [keyCBs EXCEPT ![i] = [state   |-> "OPEN",
                                        attempt |-> @.attempt + 1,
                                        left    |-> d]]

Exhaust(i) == ReachesCap(keyCBs[i].attempt) /\ MakePermanent(i)

RecordFailure(i) ==
  \/ IsPermanent(i) /\ UNCHANGED keyCBs
  \/ ~IsPermanent(i) /\ (BackOff(i) \/ Exhaust(i))

RecordPerma(i) == MakePermanent(i)

\* Mutants: a success forgets the cooldown but not the strikes; a success
\* revives a retired key.
RecordSuccessKeepingAttempt(i) ==
  \/ IsPermanent(i) /\ UNCHANGED keyCBs
  \/ /\ ~IsPermanent(i)
     /\ keyCBs' = [keyCBs EXCEPT ![i].state = "CLOSED", ![i].left = 0]
RecordSuccessReviving(i) == keyCBs' = [keyCBs EXCEPT ![i] = Fresh]

RecordSuccess(i) ==
  \/ IsPermanent(i) /\ UNCHANGED keyCBs
  \/ ~IsPermanent(i) /\ keyCBs' = [keyCBs EXCEPT ![i] = Fresh]

\* The results of Allow and CooldownRemaining, which change nothing.
Allows(i) ==
  \/ keyCBs[i].state = "CLOSED"
  \/ keyCBs[i].state = "OPEN" /\ keyCBs[i].left = 0

CooldownRemaining(i) ==
  CASE keyCBs[i].state = "PERMANENT" -> -1
    [] keyCBs[i].state = "CLOSED"    -> 0
    [] keyCBs[i].state = "OPEN"      -> keyCBs[i].left

\* One tick of the clock.
Elapse ==
  keyCBs' = [i \in Indices |->
               [keyCBs[i] EXCEPT !.left = IF @ > 0 THEN @ - 1 ELSE 0]]

Record(i) == RecordFailure(i) \/ RecordPerma(i) \/ RecordSuccess(i)

Next == (\E i \in Indices : Record(i)) \/ Elapse

Spec == Init /\ [][Next]_keyCBs

------------------------------------------------------------------------------
TypeOK ==
  keyCBs \in [Indices -> [state   : {"CLOSED", "OPEN", "PERMANENT"},
                          attempt : Nat,
                          left    : 0..BackoffCap]]

\* A breaker's three fields agree: free of strikes and of waiting when CLOSED;
\* cooling, when OPEN, on a backoff below the cap that some earlier strike
\* computed ("if raw cooldown reaches or exceeds backoffCap, mark as
\* permanent", key.go:56).
BackoffConsistent ==
  \A i \in Indices :
    /\ keyCBs[i].state = "CLOSED" => keyCBs[i] = Fresh
    /\ keyCBs[i].state = "OPEN" => /\ keyCBs[i].attempt > 0
                                   /\ ~ReachesCap(keyCBs[i].attempt - 1)

\* The strikes a key survives without a success in between: with a growing
\* backoff, the number of cooldowns below the cap.  MaxStrikes bounds the count.
MaxStrikes == 64
Strikes ==
  CHOOSE n \in 0..MaxStrikes :
    /\ \A a \in 0..MaxStrikes : a < n => ~ReachesCap(a)
    /\ n < MaxStrikes => ReachesCap(n)

\* The strike after the last backoff below the cap retires the key, however
\* its rate limits and ticks are interleaved with late successes.
StrikesBounded == \A i \in Indices : keyCBs[i].attempt <= Strikes

\* A retired key stays retired ("no longer recovers", architecture.md:56), late
\* answers to requests sent before its retirement included.
PermanentIsFinal ==
  [][\A i \in Indices : IsPermanent(i) => IsPermanent(i)']_keyCBs

==============================================================================
