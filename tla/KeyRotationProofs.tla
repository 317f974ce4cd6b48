-------------------------- MODULE KeyRotationProofs --------------------------
(***************************************************************************)
(* What a pool of keys promises, for pools of any length, any keys and any *)
(* cooldowns: its slices stay in step, every ready key has its turn, and   *)
(* it is a KeyRing.                                                        *)
(***************************************************************************)
EXTENDS KeyRotation, TLAPS

------------------------------------------------------------------------------
(* Remainders.                                                             *)

LEMMA DivMod ==
  ASSUME NEW n \in Nat \ {0}, NEW c \in Int
  PROVE  c = n * (c \div n) + (c % n) /\ c \div n \in Int /\ c % n \in 0..(n - 1)
OBVIOUS

LEMMA AtLeastOnce ==
  ASSUME NEW n \in Nat \ {0}, NEW q \in Nat \ {0}
  PROVE  n * q >= n
OBVIOUS

\* A quotient and a remainder are unique.
LEMMA ModUnique ==
  ASSUME NEW n \in Nat \ {0}, NEW q \in Int, NEW r \in 0..(n - 1)
  PROVE  (n * q + r) % n = r
<1> DEFINE c == n * q + r
           p == c \div n
           s == c % n
<1>1. c \in Int /\ c = n * p + s /\ p \in Int /\ s \in 0..(n - 1)
  <2>1. c \in Int
    OBVIOUS
  <2> HIDE DEF c
  <2> QED
    BY <2>1, DivMod
<1>2. n * (q - p) = s - r
  <2> HIDE DEF p, s
  <2>1. n * (q - p) = n * q - n * p
    BY <1>1
  <2> QED
    BY <1>1, <2>1
<1>3. ~(q > p)
  <2> HIDE DEF p, s, c
  <2>1. q > p => n * (q - p) >= n
    BY <1>1, AtLeastOnce
  <2> QED
    BY <1>1, <1>2, <2>1
<1>4. ~(q < p)
  <2> HIDE DEF p, s, c
  <2>1. q < p => n * (p - q) >= n
    BY <1>1, AtLeastOnce
  <2>2. n * (p - q) = 0 - (n * (q - p))
    BY <1>1
  <2> QED
    BY <1>1, <1>2, <2>1, <2>2
<1>5. s = r
  <2> HIDE DEF p, s, c
  <2>1. q = p
    BY <1>1, <1>3, <1>4
  <2>2. n * (q - p) = 0
    BY <1>1, <2>1
  <2> QED
    BY <1>1, <1>2, <2>2
<1> QED
  BY <1>5 DEF s, c

LEMMA ModSucc ==
  ASSUME NEW n \in Nat \ {0}, NEW c \in Nat
  PROVE  (c + 1) % n = IF c % n = n - 1 THEN 0 ELSE (c % n) + 1
<1> DEFINE p == c \div n
           s == c % n
<1>1. c = n * p + s /\ p \in Int /\ s \in 0..(n - 1)
  BY DivMod
<1> HIDE DEF p, s
<1>2. CASE s = n - 1
  <2>1. c + 1 = n * (p + 1) + 0
    BY <1>1, <1>2
  <2>2. (n * (p + 1) + 0) % n = 0
    BY <1>1, ModUnique
  <2> QED
    BY <1>2, <2>1, <2>2 DEF s
<1>3. CASE s # n - 1
  <2>1. c + 1 = n * p + (s + 1)
    BY <1>1
  <2>2. (n * p + (s + 1)) % n = s + 1
    BY <1>1, <1>3, ModUnique
  <2> QED
    BY <1>3, <2>1, <2>2 DEF s
<1> QED
  BY <1>2, <1>3

\* The counter's period is a multiple of the length, so that its wrapping round
\* does not disturb the turns.
LEMMA TurnMovesOn ==
  ASSUME NEW n \in 1..MaxKeys, NEW c \in 0..(CounterPeriod - 1)
  PROVE  ((c + 1) % CounterPeriod) % n = IF c % n = n - 1 THEN 0 ELSE (c % n) + 1
<1>1. CounterPeriod \in Nat \ {0} /\ CounterPeriod % n = 0 /\ n \in Nat \ {0} /\ c \in Nat
  BY PeriodAssumption, RotationAssumption
<1>2. (c + 1) % n = IF c % n = n - 1 THEN 0 ELSE (c % n) + 1
  BY <1>1, ModSucc
<1>3. CASE c + 1 = CounterPeriod
  <2>1. (c + 1) % CounterPeriod = 0 /\ 0 % n = 0
    BY <1>1, <1>3
  <2>2. (c + 1) % n = 0
    BY <1>1, <1>3
  <2>3. (c % n) + 1 # 0
    BY <1>1
  <2> QED
    BY <1>2, <2>1, <2>2, <2>3
<1>4. CASE c + 1 # CounterPeriod
  <2>1. (c + 1) % CounterPeriod = c + 1
    BY <1>1, <1>4
  <2> QED
    BY <1>2, <2>1
<1> QED
  BY <1>3, <1>4

\* The way of the scan from a start r to an index i.
LEMMA Way ==
  ASSUME NEW n \in Nat \ {0}, NEW r \in 0..(n - 1), NEW i \in 1..n
  PROVE  (i - 1 - r) % n = IF r <= i - 1 THEN i - 1 - r ELSE i - 1 - r + n
<1>1. CASE r <= i - 1
  BY <1>1
<1>2. CASE r > i - 1
  <2>1. i - 1 - r \in Int /\ -n <= i - 1 - r /\ i - 1 - r < 0
    BY <1>2
  <2> QED
    BY <1>2, <2>1
<1> QED
  BY <1>1, <1>2

------------------------------------------------------------------------------
(* The slices.                                                             *)

\* What Append makes of a sequence.
LEMMA AppendIs ==
  ASSUME NEW S, NEW s \in Seq(S), NEW e \in S
  PROVE  Append(s, e) = [i \in 1..(Len(s) + 1) |-> IF i = Len(s) + 1 THEN e ELSE s[i]]
<1>1. Append(s, e) \in Seq(S) /\ Len(Append(s, e)) = Len(s) + 1 /\ Len(s) \in Nat
  OBVIOUS
<1>2. \A i \in 1..(Len(s) + 1) : Append(s, e)[i] = IF i = Len(s) + 1 THEN e ELSE s[i]
  OBVIOUS
<1>3. Append(s, e) = [i \in 1..(Len(s) + 1) |-> Append(s, e)[i]]
  <2> DEFINE t == Append(s, e)
  <2>1. t \in Seq(S) /\ DOMAIN t = 1..(Len(s) + 1)
    BY <1>1
  <2> HIDE DEF t
  <2>2. t = [i \in 1..(Len(s) + 1) |-> t[i]]
    BY <2>1
  <2> QED
    BY <2>2 DEF t
<1> QED
  BY <1>2, <1>3

\* What RemoveAt leaves of a sequence.
LEMMA RemoveAtIs ==
  ASSUME NEW S, NEW s \in Seq(S), NEW i \in DOMAIN s
  PROVE  /\ RemoveAt(s, i) \in Seq(S)
         /\ Len(RemoveAt(s, i)) = Len(s) - 1
         /\ RemoveAt(s, i) = [j \in 1..(Len(s) - 1) |-> IF j < i THEN s[j] ELSE s[j + 1]]
<1>1. i \in 1..Len(s) /\ Len(s) \in Nat
  OBVIOUS
<1>2. SubSeq(s, 1, i - 1) \in Seq(S) /\ SubSeq(s, i + 1, Len(s)) \in Seq(S)
  BY <1>1
<1>3. RemoveAt(s, i) \in Seq(S) /\ Len(RemoveAt(s, i)) = Len(s) - 1
  BY <1>1, <1>2 DEF RemoveAt
<1>4. ASSUME NEW j \in 1..(Len(s) - 1)
      PROVE  RemoveAt(s, i)[j] = IF j < i THEN s[j] ELSE s[j + 1]
  <2> DEFINE a == SubSeq(s, 1, i - 1)
             b == SubSeq(s, i + 1, Len(s))
  <2>1. Len(a) = i - 1 /\ Len(b) = Len(s) - i
    BY <1>1
  <2>2. j < i => a[j] = s[j]
    BY <1>1
  <2>3. j >= i => b[j - (i - 1)] = s[j + 1]
    BY <1>1
  <2>4. RemoveAt(s, i) = a \o b /\ a \in Seq(S) /\ b \in Seq(S)
    BY <1>2 DEF RemoveAt
  <2> HIDE DEF a, b
  <2>5. (a \o b)[j] = IF j <= Len(a) THEN a[j] ELSE b[j - Len(a)]
    BY <1>1, <2>1, <2>4
  <2> QED
    BY <1>1, <2>1, <2>2, <2>3, <2>4, <2>5
<1> QED
  BY <1>1, <1>3, <1>4

PoolInv == TypeOK /\ Len(keys) <= MaxKeys

LEMMA PoolInit == RotationInit => PoolInv
<1> SUFFICES ASSUME RotationInit PROVE PoolInv
  OBVIOUS
<1>1. PICK n \in 0..MaxKeys : \E ks \in [1..n -> KeyIds] : NewKeyPool(ks)
  BY DEF RotationInit
<1>2. PICK ks \in [1..n -> KeyIds] : NewKeyPool(ks)
  BY <1>1
<1>3. ks \in Seq(KeyIds) /\ Len(ks) = n /\ MaxKeys \in Nat
  BY RotationAssumption
<1> QED
  BY <1>2, <1>3, PeriodAssumption DEF NewKeyPool, PoolInv, TypeOK

LEMMA PoolNext == PoolInv /\ [RotationNext]_rotationVars => PoolInv'
<1> SUFFICES ASSUME PoolInv, [RotationNext]_rotationVars PROVE PoolInv'
  OBVIOUS
<1> USE DEF PoolInv, TypeOK
<1>1. ASSUME NEW i \in 0..MaxKeys, Ask(i)
      PROVE  PoolInv'
  <2>1. (counter + 1) % CounterPeriod \in 0..(CounterPeriod - 1)
    BY PeriodAssumption
  <2> QED
    BY <1>1, <2>1 DEF Ask, NextKey
<1>2. ASSUME NEW i \in 1..MaxKeys, Disable(i)
      PROVE  PoolInv'
  <2>1. CASE OutOfRange(i)
    BY <2>1 DEF OutOfRange, poolVars
  <2>2. CASE ~OutOfRange(i)
    <3>1. /\ i \in 1..Len(disabled) /\ UNCHANGED <<counter, keys, cooldowns>>
          /\ disabled' = [disabled EXCEPT ![i] = TRUE]
      BY <1>2, <2>2 DEF Disable
    <3>2. disabled' \in Seq(BOOLEAN) /\ Len(disabled') = Len(disabled)
      BY <3>1
    <3> QED
      BY <3>1, <3>2
  <2> QED
    BY <2>1, <2>2
<1>3. ASSUME NEW i \in 1..MaxKeys, NEW d \in Durations, Cooldown(i, d)
      PROVE  PoolInv'
  <2>1. d \in Int
    BY RotationAssumption
  <2>2. CASE OutOfRange(i)
    BY <2>2 DEF OutOfRange, poolVars
  <2>3. CASE ~OutOfRange(i)
    <3>1. /\ i \in 1..Len(keys) /\ UNCHANGED <<counter, keys, disabled>>
          /\ cooldowns' = [cooldowns EXCEPT ![i] = IF @ < d THEN d ELSE @]
      BY <1>3, <2>3 DEF Cooldown
    <3>2. cooldowns[i] \in Nat
      BY <3>1
    <3>3. (IF cooldowns[i] < d THEN d ELSE cooldowns[i]) \in Nat
      BY <2>1, <3>2
    <3>4. cooldowns' \in Seq(Nat) /\ Len(cooldowns') = Len(cooldowns)
      BY <3>1, <3>3
    <3> QED
      BY <3>1, <3>4
  <2> QED
    BY <2>2, <2>3
<1>4. ASSUME NEW k \in KeyIds, Len(keys) < MaxKeys, AddKey(k)
      PROVE  PoolInv'
  BY <1>4, RotationAssumption DEF AddKey
<1>5. ASSUME NEW i \in 1..MaxKeys, RemoveKey(i)
      PROVE  PoolInv'
  <2>1. CASE OutOfRange(i)
    BY <2>1 DEF OutOfRange, poolVars
  <2>2. CASE ~OutOfRange(i)
    <3>1. /\ i \in DOMAIN keys /\ i \in DOMAIN cooldowns /\ i \in DOMAIN disabled
          /\ keys' = RemoveAt(keys, i) /\ cooldowns' = RemoveAt(cooldowns, i)
          /\ disabled' = RemoveAt(disabled, i) /\ UNCHANGED counter
      BY <1>5, <2>2 DEF RemoveKey
    <3>2. keys' \in Seq(KeyIds) /\ Len(keys') = Len(keys) - 1
      BY <3>1, RemoveAtIs
    <3>3. cooldowns' \in Seq(Nat) /\ Len(cooldowns') = Len(keys) - 1
      BY <3>1, RemoveAtIs
    <3>4. disabled' \in Seq(BOOLEAN) /\ Len(disabled') = Len(keys) - 1
      BY <3>1, RemoveAtIs
    <3> QED
      BY <3>1, <3>2, <3>3, <3>4, RotationAssumption
  <2> QED
    BY <2>1, <2>2
<1>6. CASE Elapse
  <2>1. DOMAIN cooldowns = 1..Len(cooldowns) /\ Len(cooldowns) \in Nat
    OBVIOUS
  <2>2. \A i \in DOMAIN cooldowns :
          (IF cooldowns[i] > 0 THEN cooldowns[i] - 1 ELSE 0) \in Nat
    OBVIOUS
  <2>3. cooldowns' \in Seq(Nat) /\ Len(cooldowns') = Len(cooldowns)
    BY <1>6, <2>1, <2>2 DEF Elapse
  <2> QED
    BY <1>6, <2>3 DEF Elapse
<1>7. CASE UNCHANGED rotationVars
  BY <1>7 DEF rotationVars, poolVars
<1> QED
  BY <1>1, <1>2, <1>3, <1>4, <1>5, <1>6, <1>7 DEF RotationNext

\* The parallel slices stay as long as each other under every method
\* (keypool.go:15-24, 284-325).
THEOREM RotationTypeCorrect == RotationSpec => []TypeOK
<1>1. PoolInv => TypeOK
  BY DEF PoolInv
<1> QED
  BY <1>1, PoolInit, PoolNext, PTL DEF RotationSpec

------------------------------------------------------------------------------
(* Turns.                                                                  *)

\* Where the scan of Next starts, and how far it is from there to a key.
LEMMA DistanceIs ==
  ASSUME PoolInv, NEW i \in DOMAIN keys
  PROVE  /\ Len(keys) \in 1..MaxKeys /\ i \in 1..Len(keys)
         /\ counter % Len(keys) \in 0..(Len(keys) - 1)
         /\ Distance(i) = IF counter % Len(keys) <= i - 1
                          THEN i - 1 - (counter % Len(keys))
                          ELSE i - 1 - (counter % Len(keys)) + Len(keys)
         /\ Distance(i) \in 0..(Len(keys) - 1)
<1>1. /\ Len(keys) \in 1..MaxKeys /\ i \in 1..Len(keys) /\ Len(keys) \in Nat \ {0}
      /\ counter \in Int
  BY RotationAssumption, PeriodAssumption DEF PoolInv, TypeOK
<1>2. counter % Len(keys) \in 0..(Len(keys) - 1)
  BY <1>1, DivMod
<1>3. Distance(i) = IF counter % Len(keys) <= i - 1
                    THEN i - 1 - (counter % Len(keys))
                    ELSE i - 1 - (counter % Len(keys)) + Len(keys)
  BY <1>1, <1>2, Way DEF Distance
<1> QED
  BY <1>1, <1>2, <1>3

\* No two keys are equally far.
LEMMA DistancesDiffer ==
  ASSUME PoolInv, NEW i \in DOMAIN keys, NEW j \in DOMAIN keys, i # j
  PROVE  Distance(i) # Distance(j)
<1> DEFINE n == Len(keys)
           r == counter % n
<1>1. /\ n \in Nat /\ i \in 1..n /\ j \in 1..n /\ r \in 0..(n - 1)
      /\ Distance(i) = IF r <= i - 1 THEN i - 1 - r ELSE i - 1 - r + n
      /\ Distance(j) = IF r <= j - 1 THEN j - 1 - r ELSE j - 1 - r + n
  BY DistanceIs
<1> HIDE DEF n, r
<1> QED
  BY <1>1

\* Every call of Next brings the scan one key nearer to each key, but for the key
\* it started at, which is then the last.
LEMMA DistanceShrinks ==
  ASSUME PoolInv, NEW i \in DOMAIN keys, keys' = keys,
         counter' = (counter + 1) % CounterPeriod
  PROVE  Distance(i)' = IF Distance(i) = 0 THEN Len(keys) - 1 ELSE Distance(i) - 1
<1> DEFINE n == Len(keys)
           r == counter % n
           s == counter' % n
<1>1. /\ n \in 1..MaxKeys /\ i \in 1..n /\ r \in 0..(n - 1)
      /\ Distance(i) = IF r <= i - 1 THEN i - 1 - r ELSE i - 1 - r + n
  BY DistanceIs
<1>2. n \in Nat \ {0} /\ counter \in 0..(CounterPeriod - 1)
  BY <1>1, RotationAssumption DEF PoolInv, TypeOK
<1>3. s = IF r = n - 1 THEN 0 ELSE r + 1
  BY <1>1, <1>2, TurnMovesOn
<1>4. Distance(i)' = (i - 1 - s) % n
  BY DEF Distance
<1> HIDE DEF n, r, s
<1>5. s \in 0..(n - 1)
  BY <1>1, <1>2, <1>3
<1>6. Distance(i)' = IF s <= i - 1 THEN i - 1 - s ELSE i - 1 - s + n
  BY <1>1, <1>2, <1>4, <1>5, Way
<1>7. CASE r = n - 1
  BY <1>1, <1>2, <1>3, <1>6, <1>7 DEF n
<1>8. CASE r < n - 1 /\ r <= i - 1
  BY <1>1, <1>2, <1>3, <1>6, <1>8 DEF n
<1>9. CASE r < n - 1 /\ r > i - 1
  <2>1. s = r + 1 /\ ~(s <= i - 1) /\ ~(r <= i - 1)
    BY <1>1, <1>2, <1>3, <1>9
  <2>2. Distance(i) = i - 1 - r + n /\ Distance(i)' = i - 1 - (r + 1) + n
    BY <1>1, <1>6, <2>1
  <2>3. i - 1 - r + n # 0 /\ i - 1 - (r + 1) + n = (i - 1 - r + n) - 1
    BY <1>1, <1>2, <1>9
  <2> QED
    BY <2>2, <2>3
<1> QED
  BY <1>1, <1>2, <1>7, <1>8, <1>9

\* A key that was passed over so many times is at most as far from its turn as the
\* other keys are many, less those times.
TurnInv ==
  /\ passedOver \in [DOMAIN keys -> Nat]
  /\ \A i \in DOMAIN keys : passedOver[i] + Distance(i) < Len(keys)

NobodyWaits == passedOver = [i \in DOMAIN keys |-> 0]

LEMMA TurnFresh == PoolInv /\ NobodyWaits => TurnInv
<1> SUFFICES ASSUME PoolInv, NobodyWaits PROVE TurnInv
  OBVIOUS
<1> USE DEF NobodyWaits
<1>1. ASSUME NEW i \in DOMAIN keys
      PROVE  passedOver[i] = 0 /\ passedOver[i] + Distance(i) < Len(keys)
  BY <1>1, DistanceIs
<1> QED
  BY <1>1 DEF TurnInv

LEMMA TurnAsk ==
  ASSUME PoolInv, PoolInv', TurnInv, NEW i \in 0..MaxKeys, Ask(i)
  PROVE  TurnInv'
<1>1. /\ i \in 0..Len(keys) /\ FirstReady(i) /\ keys' = keys
      /\ passedOver' = [j \in DOMAIN keys |->
                          IF Ready(j) /\ j # i THEN passedOver[j] + 1 ELSE 0]
      /\ keys # <<>> => counter' = (counter + 1) % CounterPeriod
  BY DEF Ask, NextKey
<1>2. ASSUME NEW j \in DOMAIN keys
      PROVE  /\ passedOver'[j] \in Nat
             /\ passedOver'[j] + Distance(j)' < Len(keys)
  <2>1. /\ Distance(j) \in 0..(Len(keys) - 1) /\ Len(keys) \in Nat \ {0}
        /\ keys # <<>>
    BY <1>2, DistanceIs
  <2>2. Distance(j)' = IF Distance(j) = 0 THEN Len(keys) - 1 ELSE Distance(j) - 1
    BY <1>1, <2>1, DistanceShrinks
  <2>3. passedOver[j] \in Nat /\ passedOver[j] + Distance(j) < Len(keys)
    BY DEF TurnInv
  <2>4. CASE Ready(j) /\ j # i
    <3>1. i \in DOMAIN keys /\ Distance(i) <= Distance(j)
      BY <1>1, <2>4 DEF FirstReady, PoolInv, TypeOK
    <3>2. Distance(i) # Distance(j) /\ Distance(i) \in 0..(Len(keys) - 1)
      BY <2>4, <3>1, DistancesDiffer, DistanceIs
    <3>3. Distance(j) >= 1
      BY <2>1, <3>1, <3>2
    <3>4. passedOver'[j] = passedOver[j] + 1
      BY <1>1, <2>4
    <3> QED
      BY <2>1, <2>2, <2>3, <3>3, <3>4
  <2>5. CASE ~(Ready(j) /\ j # i)
    <3>1. passedOver'[j] = 0
      BY <1>1, <2>5
    <3> QED
      BY <2>1, <2>2, <3>1
  <2> QED
    BY <2>4, <2>5
<1>3. passedOver' \in [DOMAIN keys' -> Nat]
  BY <1>1, <1>2
<1> QED
  BY <1>1, <1>2, <1>3 DEF TurnInv

LEMMA TurnNext ==
  PoolInv /\ PoolInv' /\ TurnInv /\ [RotationNext]_rotationVars => TurnInv'
<1> SUFFICES ASSUME PoolInv, PoolInv', TurnInv, [RotationNext]_rotationVars
             PROVE  TurnInv'
  OBVIOUS
<1>1. ASSUME NEW i \in 0..MaxKeys, Ask(i)
      PROVE  TurnInv'
  BY <1>1, TurnAsk
<1>2. CASE UNCHANGED <<counter, keys, passedOver>>
  BY <1>2 DEF TurnInv, Distance
<1>3. CASE Reindexed
  <2>1. NobodyWaits'
    BY <1>3 DEF Reindexed, NobodyWaits
  <2> QED
    BY <2>1, TurnFresh, PTL
<1>4. ASSUME NEW i \in 1..MaxKeys, Disable(i) \/ \E d \in Durations : Cooldown(i, d),
             UNCHANGED <<given, passedOver>>
      PROVE  TurnInv'
  BY <1>2, <1>4 DEF Disable, Cooldown, OutOfRange, poolVars
<1>5. CASE Elapse /\ UNCHANGED <<given, passedOver>>
  BY <1>2, <1>5 DEF Elapse
<1>6. CASE UNCHANGED rotationVars
  BY <1>2, <1>6 DEF rotationVars, poolVars
<1> QED
  BY <1>1, <1>3, <1>4, <1>5, <1>6 DEF RotationNext

\* In a pool of n keys a ready key is returned by the n-th call of Next at the
\* latest, whatever cooldowns, disabled keys and the wrap-around of the counter do
\* (keypool.go:86-101).
THEOREM EveryKeyHasItsTurn == RotationSpec => []RoundRobin
<1>1. RotationInit => TurnInv
  BY PoolInit, TurnFresh DEF RotationInit, NobodyWaits
<1>2. PoolInv /\ TurnInv => RoundRobin
  <2> SUFFICES ASSUME PoolInv, TurnInv, NEW i \in DOMAIN keys
               PROVE  passedOver[i] < Len(keys)
    BY DEF RoundRobin
  <2>1. Distance(i) \in 0..(Len(keys) - 1) /\ Len(keys) \in Nat
    BY DistanceIs
  <2> QED
    BY <2>1 DEF TurnInv
<1> QED
  BY <1>1, <1>2, PoolInit, PoolNext, TurnNext, PTL DEF RotationSpec

------------------------------------------------------------------------------
(* The ring.                                                               *)

Entries == [key : KeyIds, rest : Nat, retired : BOOLEAN]

TheRing == [i \in DOMAIN keys |->
              [key |-> keys[i], rest |-> cooldowns[i], retired |-> disabled[i]]]

LEMMA RingIs ==
  ASSUME PoolInv
  PROVE  /\ TheRing \in Seq(Entries) /\ Len(TheRing) = Len(keys)
         /\ DOMAIN keys = 1..Len(keys) /\ DOMAIN TheRing = DOMAIN keys
         /\ \A i \in DOMAIN keys :
              /\ TheRing[i] = [key |-> keys[i], rest |-> cooldowns[i], retired |-> disabled[i]]
              /\ TheRing[i] \in Entries
              /\ Ring!Available(i) <=> Ready(i)
<1>1. /\ DOMAIN keys = 1..Len(keys) /\ Len(keys) \in Nat
      /\ \A i \in 1..Len(keys) :
           keys[i] \in KeyIds /\ cooldowns[i] \in Nat /\ disabled[i] \in BOOLEAN
  BY DEF PoolInv, TypeOK
<1>2. \A i \in 1..Len(keys) :
        [key |-> keys[i], rest |-> cooldowns[i], retired |-> disabled[i]] \in Entries
  BY <1>1 DEF Entries
<1>3. TheRing \in Seq(Entries) /\ Len(TheRing) = Len(keys)
  BY <1>1, <1>2 DEF TheRing
<1>4. \A i \in DOMAIN keys : Ring!Available(i) <=> Ready(i)
  BY DEF Ring!Available, Ready
<1> QED
  BY <1>1, <1>2, <1>3, <1>4 DEF TheRing

\* Next gives a ready key, or none when there is none.
LEMMA RingAsk ==
  ASSUME PoolInv, NEW i \in 0..MaxKeys, Ask(i)
  PROVE  Ring!Give \/ Ring!GiveNobody
<1>1. /\ FirstReady(i) /\ i \in 0..Len(keys)
      /\ UNCHANGED <<keys, cooldowns, disabled>>
      /\ given' = IF i = 0 THEN NoAnswer ELSE [index |-> i, key |-> keys[i]]
  BY DEF Ask, NextKey
<1>2. TheRing' = TheRing
  BY <1>1 DEF TheRing
<1>3. CASE i = 0
  <2>1. \A j \in DOMAIN TheRing : ~Ring!Available(j)
    BY <1>1, <1>3, RingIs DEF FirstReady
  <2> QED
    BY <1>1, <1>2, <1>3, <2>1 DEF Ring!GiveNobody, Ring!Nobody, NoAnswer, TheRing
<1>4. CASE i # 0
  <2>1. DOMAIN keys = 1..Len(keys) /\ DOMAIN TheRing = DOMAIN keys
    BY RingIs
  <2>2. i \in DOMAIN keys
    BY <1>1, <1>4, <2>1
  <2>3. Ready(i)
    BY <1>1, <1>4 DEF FirstReady
  <2>4. i \in DOMAIN TheRing /\ Ring!Available(i)
    BY <2>1, <2>2, <2>3, RingIs
  <2>5. TheRing[i].key = keys[i]
    BY <2>2 DEF TheRing
  <2>6. given' = [index |-> i, key |-> TheRing[i].key]
    BY <1>1, <1>4, <2>5
  <2> QED
    BY <1>2, <2>4, <2>6 DEF Ring!Give, TheRing
<1> QED
  BY <1>3, <1>4

LEMMA RetiredEntry ==
  ASSUME NEW k, NEW r, NEW d, NEW e,
         NEW entry, entry = [key |-> k, rest |-> r, retired |-> d]
  PROVE  [key |-> k, rest |-> r, retired |-> e] = [entry EXCEPT !.retired = e]
OBVIOUS

\* A change of the entry at i changes the ring at i.
LEMMA RingAt ==
  ASSUME PoolInv, PoolInv', keys' = keys, NEW i \in DOMAIN keys, NEW e,
         \A j \in DOMAIN keys :
           j # i => cooldowns'[j] = cooldowns[j] /\ disabled'[j] = disabled[j],
         [key |-> keys[i], rest |-> cooldowns'[i], retired |-> disabled'[i]] = e
  PROVE  TheRing' = [TheRing EXCEPT ![i] = e]
BY DEF TheRing

LEMMA RingDisable ==
  ASSUME PoolInv, PoolInv', NEW i \in DOMAIN keys, Disable(i), UNCHANGED given
  PROVE  Ring!Retire(i)
<1>1. /\ UNCHANGED <<keys, cooldowns>> /\ disabled' = [disabled EXCEPT ![i] = TRUE]
      /\ i \in DOMAIN disabled
  BY DEF Disable, OutOfRange, PoolInv, TypeOK
<1>2. [key |-> keys[i], rest |-> cooldowns'[i], retired |-> disabled'[i]]
        = [TheRing[i] EXCEPT !.retired = TRUE]
  <2>1. TheRing[i] = [key |-> keys[i], rest |-> cooldowns[i], retired |-> disabled[i]]
    BY RingIs, Zenon
  <2>2. cooldowns'[i] = cooldowns[i]
    BY <1>1
  <2>3. disabled'[i] = TRUE
    BY <1>1, Zenon
  <2> DEFINE yes == TRUE
  <2>4. disabled'[i] = yes
    BY <2>3
  <2> HIDE DEF yes
  <2>5. [key |-> keys[i], rest |-> cooldowns[i], retired |-> yes]
          = [TheRing[i] EXCEPT !.retired = yes]
    BY <2>1, RetiredEntry
  <2>6. [key |-> keys[i], rest |-> cooldowns'[i], retired |-> disabled'[i]]
          = [TheRing[i] EXCEPT !.retired = yes]
    BY <2>2, <2>4, <2>5, Zenon
  <2> QED
    BY <2>6 DEF yes
<1>3. TheRing' = [TheRing EXCEPT ![i] = [TheRing[i] EXCEPT !.retired = TRUE]]
  <2>1. \A j \in DOMAIN keys :
          j # i => cooldowns'[j] = cooldowns[j] /\ disabled'[j] = disabled[j]
    BY <1>1 DEF PoolInv, TypeOK
  <2> QED
    BY <1>1, <1>2, <2>1, RingAt, Zenon
<1> QED
  BY <1>3 DEF Ring!Retire, TheRing

LEMMA RingCooldown ==
  ASSUME PoolInv, PoolInv', NEW i \in DOMAIN keys, NEW d \in Durations, Cooldown(i, d),
         UNCHANGED given
  PROVE  Ring!Rest(i, d)
<1> DEFINE rest == IF cooldowns[i] < d THEN d ELSE cooldowns[i]
<1>1. /\ UNCHANGED <<keys, disabled>> /\ cooldowns' = [cooldowns EXCEPT ![i] = rest]
      /\ i \in DOMAIN cooldowns
  BY DEF Cooldown, OutOfRange, PoolInv, TypeOK
<1>2. TheRing[i].rest = cooldowns[i]
  BY DEF TheRing
<1>3. [key |-> keys[i], rest |-> cooldowns'[i], retired |-> disabled'[i]]
        = [TheRing[i] EXCEPT !.rest = rest]
  BY <1>1 DEF TheRing
<1>4. TheRing' = [TheRing EXCEPT ![i] = [TheRing[i] EXCEPT !.rest = rest]]
  BY <1>1, <1>3, RingAt
<1> QED
  BY <1>2, <1>4 DEF Ring!Rest, TheRing

LEMMA RingAdd ==
  ASSUME PoolInv, PoolInv', NEW k \in KeyIds, AddKey(k), UNCHANGED given
  PROVE  Ring!Add(k)
<1> DEFINE e == [key |-> k, rest |-> 0, retired |-> FALSE]
<1>1. /\ keys' = Append(keys, k) /\ cooldowns' = Append(cooldowns, 0)
      /\ disabled' = Append(disabled, FALSE)
  BY DEF AddKey
<1>2. /\ Len(keys) \in Nat /\ Len(cooldowns) = Len(keys) /\ Len(disabled) = Len(keys)
      /\ DOMAIN keys' = 1..(Len(keys) + 1)
  BY <1>1 DEF PoolInv, TypeOK
<1>3. /\ keys' = [i \in 1..(Len(keys) + 1) |->
                   IF i = Len(keys) + 1 THEN k ELSE keys[i]]
      /\ cooldowns' = [i \in 1..(Len(keys) + 1) |->
                        IF i = Len(keys) + 1 THEN 0 ELSE cooldowns[i]]
      /\ disabled' = [i \in 1..(Len(keys) + 1) |->
                       IF i = Len(keys) + 1 THEN FALSE ELSE disabled[i]]
  <2>1. keys \in Seq(KeyIds) /\ cooldowns \in Seq(Nat) /\ disabled \in Seq(BOOLEAN)
    BY DEF PoolInv, TypeOK
  <2>2. 0 \in Nat /\ FALSE \in BOOLEAN
    OBVIOUS
  <2>3. Append(keys, k) = [i \in 1..(Len(keys) + 1) |->
                             IF i = Len(keys) + 1 THEN k ELSE keys[i]]
    BY <2>1, AppendIs
  <2>4. Append(cooldowns, 0) = [i \in 1..(Len(cooldowns) + 1) |->
                                  IF i = Len(cooldowns) + 1 THEN 0 ELSE cooldowns[i]]
    <3> DEFINE none == 0
    <3>1. cooldowns \in Seq(Nat) /\ none \in Nat
      BY <2>1
    <3> HIDE DEF none
    <3>2. Append(cooldowns, none) = [i \in 1..(Len(cooldowns) + 1) |->
                                      IF i = Len(cooldowns) + 1 THEN none ELSE cooldowns[i]]
      BY <3>1, AppendIs
    <3> QED
      BY <3>2 DEF none
  <2>5. Append(disabled, FALSE) = [i \in 1..(Len(disabled) + 1) |->
                                     IF i = Len(disabled) + 1 THEN FALSE ELSE disabled[i]]
    BY <2>1, <2>2, AppendIs, Zenon
  <2>6. Len(cooldowns) = Len(keys) /\ Len(disabled) = Len(keys)
    BY <1>2
  <2>7. disabled' = [i \in 1..(Len(keys) + 1) |->
                       IF i = Len(keys) + 1 THEN FALSE ELSE disabled[i]]
    BY <1>1, <2>5, <2>6, Zenon
  <2> QED
    BY <1>1, <2>3, <2>4, <2>6, <2>7, Zenon
<1>5. TheRing' = [i \in 1..(Len(keys) + 1) |-> IF i = Len(keys) + 1 THEN e ELSE TheRing[i]]
  <2>1. \A i \in 1..Len(keys) :
          TheRing[i] = [key |-> keys[i], rest |-> cooldowns[i], retired |-> disabled[i]]
    BY RingIs
  <2>2. TheRing' = [i \in 1..(Len(keys) + 1) |->
                      [key |-> keys'[i], rest |-> cooldowns'[i], retired |-> disabled'[i]]]
    BY <1>2 DEF TheRing
  <2>3. \A i \in 1..(Len(keys) + 1) :
          [key |-> keys'[i], rest |-> cooldowns'[i], retired |-> disabled'[i]]
            = IF i = Len(keys) + 1 THEN e ELSE TheRing[i]
    <3> SUFFICES ASSUME NEW i \in 1..(Len(keys) + 1)
                 PROVE  [key |-> keys'[i], rest |-> cooldowns'[i], retired |-> disabled'[i]]
                          = IF i = Len(keys) + 1 THEN e ELSE TheRing[i]
      OBVIOUS
    <3>1. CASE i = Len(keys) + 1
      <4>1. keys'[i] = k /\ cooldowns'[i] = 0
        BY <1>3, <3>1
      <4>2. disabled'[i] = FALSE
        BY <1>3, <3>1, Zenon
      <4> QED
        BY <3>1, <4>1, <4>2, Zenon
    <3>2. CASE i # Len(keys) + 1
      <4>1. i \in 1..Len(keys)
        BY <1>2, <3>2
      <4>2. keys'[i] = keys[i] /\ cooldowns'[i] = cooldowns[i]
        BY <1>3, <3>2
      <4>3. disabled'[i] = disabled[i]
        BY <1>3, <3>2, Zenon
      <4> QED
        BY <2>1, <3>2, <4>1, <4>2, <4>3, Zenon
    <3> QED
      BY <3>1, <3>2
  <2> HIDE DEF e
  <2> QED
    BY <2>2, <2>3
<1>6. Append(TheRing, e)
        = [i \in 1..(Len(keys) + 1) |-> IF i = Len(keys) + 1 THEN e ELSE TheRing[i]]
  <2>1. e \in Entries
    BY DEF Entries
  <2>2. TheRing \in Seq(Entries) /\ Len(TheRing) = Len(keys)
    BY RingIs
  <2> HIDE DEF e
  <2>3. Append(TheRing, e) = [i \in 1..(Len(TheRing) + 1) |->
                                IF i = Len(TheRing) + 1 THEN e ELSE TheRing[i]]
    BY <2>1, <2>2, AppendIs
  <2> QED
    BY <2>2, <2>3, Zenon
<1> QED
  BY <1>5, <1>6 DEF Ring!Add, TheRing

LEMMA RingRemove ==
  ASSUME PoolInv, PoolInv', NEW i \in DOMAIN keys, RemoveKey(i), UNCHANGED given
  PROVE  Ring!Drop(i)
<1>1. /\ keys' = RemoveAt(keys, i) /\ cooldowns' = RemoveAt(cooldowns, i)
      /\ disabled' = RemoveAt(disabled, i)
      /\ i \in DOMAIN cooldowns /\ i \in DOMAIN disabled
  BY DEF RemoveKey, OutOfRange, PoolInv, TypeOK
<1> DEFINE n == Len(keys) - 1
<1>2. /\ keys' = [j \in 1..n |-> IF j < i THEN keys[j] ELSE keys[j + 1]]
      /\ cooldowns' = [j \in 1..n |-> IF j < i THEN cooldowns[j] ELSE cooldowns[j + 1]]
      /\ disabled' = [j \in 1..n |-> IF j < i THEN disabled[j] ELSE disabled[j + 1]]
  BY <1>1, RemoveAtIs DEF PoolInv, TypeOK
<1>3. DOMAIN keys = 1..Len(keys) /\ Len(keys) \in Nat /\ n + 1 = Len(keys)
  BY DEF PoolInv, TypeOK
<1>4. TheRing' = [j \in 1..n |-> IF j < i THEN TheRing[j] ELSE TheRing[j + 1]]
  <2>1. TheRing' = [j \in 1..n |->
                      [key |-> keys'[j], rest |-> cooldowns'[j], retired |-> disabled'[j]]]
    BY <1>2 DEF TheRing
  <2>2. \A j \in DOMAIN keys :
          TheRing[j] = [key |-> keys[j], rest |-> cooldowns[j], retired |-> disabled[j]]
    BY RingIs
  <2>3. \A j \in 1..n :
          [key |-> keys'[j], rest |-> cooldowns'[j], retired |-> disabled'[j]]
            = IF j < i THEN TheRing[j] ELSE TheRing[j + 1]
    <3> SUFFICES ASSUME NEW j \in 1..n
                 PROVE  [key |-> keys'[j], rest |-> cooldowns'[j], retired |-> disabled'[j]]
                          = IF j < i THEN TheRing[j] ELSE TheRing[j + 1]
      OBVIOUS
    <3>1. j \in DOMAIN keys /\ j + 1 \in DOMAIN keys
      BY <1>3
    <3>2. CASE j < i
      BY <1>2, <2>2, <3>1, <3>2
    <3>3. CASE ~(j < i)
      BY <1>2, <2>2, <3>1, <3>3
    <3> QED
      BY <3>2, <3>3
  <2> QED
    BY <2>1, <2>3
<1>5. RemoveAt(TheRing, i) = [j \in 1..n |-> IF j < i THEN TheRing[j] ELSE TheRing[j + 1]]
  <2>1. /\ TheRing \in Seq(Entries) /\ Len(TheRing) = Len(keys)
        /\ i \in DOMAIN TheRing
    BY RingIs
  <2> QED
    BY <2>1, RemoveAtIs
<1> QED
  BY <1>4, <1>5 DEF Ring!Drop, TheRing, RemoveAt, Ring!RemoveAt

LEMMA RingElapse ==
  ASSUME PoolInv, PoolInv', Elapse, UNCHANGED given
  PROVE  Ring!Elapse
<1>1. TheRing' = [i \in DOMAIN TheRing |->
                    [TheRing[i] EXCEPT !.rest = IF @ > 0 THEN @ - 1 ELSE 0]]
  <2>1. UNCHANGED <<keys, disabled>> /\ DOMAIN cooldowns = DOMAIN keys
    BY DEF Elapse, PoolInv, TypeOK
  <2>2. \A i \in DOMAIN keys :
          cooldowns'[i] = IF cooldowns[i] > 0 THEN cooldowns[i] - 1 ELSE 0
    BY <2>1 DEF Elapse
  <2> QED
    BY <2>1, <2>2 DEF TheRing
<1> QED
  BY <1>1 DEF Ring!Elapse, TheRing

LEMMA RingStep ==
  PoolInv /\ PoolInv' /\ [RotationNext]_rotationVars => [Ring!RingNext]_Ring!ringVars
<1> SUFFICES ASSUME PoolInv, PoolInv', [RotationNext]_rotationVars
             PROVE  Ring!RingNext \/ UNCHANGED Ring!ringVars
  OBVIOUS
<1>1. ASSUME NEW i \in 0..MaxKeys, Ask(i)
      PROVE  Ring!RingNext
  BY <1>1, RingAsk DEF Ring!RingNext
<1>2. CASE UNCHANGED <<keys, cooldowns, disabled, given>>
  BY <1>2 DEF Ring!ringVars
<1>3. ASSUME NEW i \in 1..MaxKeys, Disable(i) \/ \E d \in Durations : Cooldown(i, d),
             UNCHANGED <<given, passedOver>>
      PROVE  Ring!RingNext \/ UNCHANGED Ring!ringVars
  <2>1. CASE i \notin DOMAIN keys
    BY <1>2, <1>3, <2>1 DEF Disable, Cooldown, OutOfRange, poolVars
  <2>2. CASE i \in DOMAIN keys
    <3>1. Ring!Retire(i) \/ \E d \in Durations : Ring!Rest(i, d)
      BY <1>3, <2>2, RingDisable, RingCooldown
    <3> QED
      BY <2>2, <3>1, RingIs DEF Ring!RingNext, TheRing
  <2> QED
    BY <2>1, <2>2
<1>4. ASSUME NEW k \in KeyIds, AddKey(k), UNCHANGED given
      PROVE  Ring!RingNext
  BY <1>4, RingAdd DEF Ring!RingNext
<1>5. ASSUME NEW i \in 1..MaxKeys, RemoveKey(i), UNCHANGED given
      PROVE  Ring!RingNext \/ UNCHANGED Ring!ringVars
  <2>1. CASE i \notin DOMAIN keys
    BY <1>2, <1>5, <2>1 DEF RemoveKey, OutOfRange, poolVars
  <2>2. CASE i \in DOMAIN keys
    <3>1. Ring!Drop(i)
      BY <1>5, <2>2, RingRemove
    <3> QED
      BY <2>2, <3>1, RingIs DEF Ring!RingNext, TheRing
  <2> QED
    BY <2>1, <2>2
<1>6. CASE Elapse /\ UNCHANGED <<given, passedOver>>
  BY <1>6, RingElapse DEF Ring!RingNext
<1>7. CASE UNCHANGED rotationVars
  BY <1>2, <1>7 DEF rotationVars, poolVars
<1> QED
  BY <1>1, <1>3, <1>4, <1>5, <1>6, <1>7 DEF RotationNext

LEMMA RingStart == RotationInit => Ring!RingInit
<1> SUFFICES ASSUME RotationInit PROVE Ring!RingInit
  OBVIOUS
<1> DEFINE New == [key : KeyIds, rest : {0}, retired : {FALSE}]
<1>1. \A i \in DOMAIN keys : cooldowns[i] = 0 /\ disabled[i] = FALSE
  BY DEF RotationInit, NewKeyPool
<1>2. keys \in Seq(KeyIds) /\ Len(keys) \in Nat /\ DOMAIN keys = 1..Len(keys)
  BY PoolInit DEF PoolInv, TypeOK
<1>3. \A i \in 1..Len(keys) :
        [key |-> keys[i], rest |-> cooldowns[i], retired |-> disabled[i]] \in New
  <2> SUFFICES ASSUME NEW i \in 1..Len(keys)
               PROVE  [key |-> keys[i], rest |-> cooldowns[i], retired |-> disabled[i]] \in New
    OBVIOUS
  <2>1. keys[i] \in KeyIds
    BY <1>2
  <2>2. cooldowns[i] = 0 /\ disabled[i] = FALSE
    BY <1>1, <1>2, Zenon
  <2>3. [key |-> keys[i], rest |-> 0, retired |-> FALSE] \in New
    BY <2>1
  <2> QED
    BY <2>2, <2>3, Zenon
<1> HIDE DEF New
<1>4. TheRing \in Seq(New)
  BY <1>2, <1>3 DEF TheRing
<1> QED
  BY <1>4 DEF RotationInit, Ring!RingInit, Ring!Nobody, NoAnswer, TheRing, New

\* The pool's seven slices are one list of keys: whatever is added, removed,
\* disabled and cooled, every key keeps its own cooldown and its own flag, and
\* whoever asks gets a ready one if there is any (keypool.go:86-168, 284-325).
THEOREM RotationKeepsRing == RotationSpec => KeepsRing
BY PoolInit, PoolNext, RingStart, RingStep, PTL DEF RotationSpec, KeepsRing, Ring!RingSpec
==============================================================================
