----------------------------- MODULE KeyRotation -----------------------------
(***************************************************************************)
(* A key pool in use: request handlers ask for keys and report cooldowns   *)
(* and revocations, administrators add, remove, disable and cool keys.     *)
(* Two history variables record what Next answered and how long each key   *)
(* has been passed over.                                                   *)
(***************************************************************************)
EXTENDS KeyPool

CONSTANTS MaxKeys,          \* bound: longest pool that is modelled
          Durations         \* lengths of a cooldown, in ticks

ASSUME RotationAssumption ==
  /\ MaxKeys \in Nat
  /\ Durations \subseteq Int
  /\ \A n \in 1..MaxKeys : CounterPeriod % n = 0

VARIABLES given,            \* the latest answer of Next
          passedOver        \* for each key, the calls of Next since it was
                            \* last returned, unavailable or re-indexed

rotationVars == <<poolVars, given, passedOver>>

NoAnswer == [index |-> 0]

RotationInit ==
  /\ \E n \in 0..MaxKeys : \E ks \in [1..n -> KeyIds] : NewKeyPool(ks)
  /\ given = NoAnswer
  /\ passedOver = [i \in DOMAIN keys |-> 0]

Ask(i) ==
  /\ NextKey(i)
  /\ given' = IF i = 0 THEN NoAnswer ELSE [index |-> i, key |-> keys[i]]
  /\ passedOver' = [j \in DOMAIN keys |->
                      IF Ready(j) /\ j # i THEN passedOver[j] + 1 ELSE 0]

\* Adding or removing a key changes what counter % n points at.
Reindexed == passedOver' = [i \in DOMAIN keys' |-> 0]

RotationNext ==
  \/ \E i \in 0..MaxKeys : Ask(i)
  \/ \E i \in 1..MaxKeys :
       /\ Disable(i) \/ \E d \in Durations : Cooldown(i, d)
       /\ UNCHANGED <<given, passedOver>>
  \/ /\ \/ Len(keys) < MaxKeys /\ \E k \in KeyIds : AddKey(k)
        \/ \E i \in 1..MaxKeys : RemoveKey(i)
     /\ Reindexed
     /\ UNCHANGED given
  \/ Elapse /\ UNCHANGED <<given, passedOver>>

RotationSpec == RotationInit /\ [][RotationNext]_rotationVars

------------------------------------------------------------------------------
\* Bounded waiting: a key that is ready whenever somebody asks is returned at
\* the latest by the n-th call in a pool of n keys, whatever the other keys'
\* cooldowns do meanwhile (Next is "round-robin", keypool.go:85).
RoundRobin == \A i \in DOMAIN keys : passedOver[i] < Len(keys)

\* Refinement: the parallel slices, kept in step by every method, are a list
\* of keys that each carry their own cooldown and disabled flag.
Ring == INSTANCE KeyRing WITH
  ring <- [i \in DOMAIN keys |->
             [key |-> keys[i], rest |-> cooldowns[i], retired |-> disabled[i]]]

KeepsRing == Ring!RingSpec

==============================================================================
