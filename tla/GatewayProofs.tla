---------------------------- MODULE GatewayProofs ----------------------------
(***************************************************************************)
(* For any number of requests, keys, retries and reloads: an index names   *)
(* its key until a removal moves it.  A step either keeps every key of     *)
(* every pool where it is (KeysStay), or it is a removal, which moves only *)
(* what lies at or behind the removed key.                                 *)
(***************************************************************************)
EXTENDS Gateway, SequenceTheorems, TLAPS

Healths == {"ready", "resting", "disabled"}

Entries == [key : KeyIds, health : Healths]

KeysStay ==
  /\ Len(pools) <= Len(pools')
  /\ \A g \in DOMAIN pools :
       /\ Len(pools[g]) <= Len(pools'[g])
       /\ \A i \in DOMAIN pools[g] : pools'[g][i].key = pools[g][i].key

Inv == TypeOK /\ IndexNamesKey

------------------------------------------------------------------------------
(* The pools.                                                              *)

\* What RemoveAt leaves of a sequence.
LEMMA RemoveAtFacts ==
  ASSUME NEW S, NEW s \in Seq(S), NEW i \in DOMAIN s
  PROVE  /\ RemoveAt(s, i) \in Seq(S)
         /\ Len(RemoveAt(s, i)) = Len(s) - 1
         /\ \A j \in 1..(i - 1) : RemoveAt(s, i)[j] = s[j]
<1>1. i \in 1..Len(s) /\ Len(s) \in Nat
  OBVIOUS
<1>2. SubSeq(s, 1, i - 1) \in Seq(S) /\ SubSeq(s, i + 1, Len(s)) \in Seq(S)
  BY <1>1
<1> QED
  BY <1>1, <1>2 DEF RemoveAt

\* A change of a key's health keeps every key where it is.
LEMMA WithHealthKeeps ==
  ASSUME PoolsOK, NEW g \in DOMAIN pools, NEW i \in DOMAIN pools[g],
         NEW h \in Healths, pools' = [pools EXCEPT ![g] = WithHealth(pools[g], i, h)]
  PROVE  PoolsOK' /\ KeysStay
<1> USE DEF PoolsOK
<1> DEFINE new == WithHealth(pools[g], i, h)
<1>1. pools[g] \in KeyPools
  OBVIOUS
<1>2. /\ new \in KeyPools
      /\ Len(new) = Len(pools[g])
      /\ \A j \in DOMAIN pools[g] : new[j].key = pools[g][j].key
  <2>1. KeyPools = Seq(Entries)
    BY DEF KeyPools, Entries, Healths
  <2>2. pools[g][i] \in Entries /\ i \in 1..Len(pools[g])
    BY <1>1, <2>1
  <2>3. [key |-> pools[g][i].key, health |-> h] \in Entries
    BY <2>2 DEF Entries
  <2> QED
    BY <1>1, <2>1, <2>2, <2>3, ExceptSeq DEF WithHealth
<1> QED
  BY <1>1, <1>2 DEF KeysStay

LEMMA SetHealthKeeps ==
  ASSUME PoolsOK, NEW g \in DOMAIN pools, NEW i, NEW h \in Healths,
         SetHealth(g, i, h)
  PROVE  PoolsOK' /\ KeysStay
<1>1. CASE i \notin Usable(pools[g])
  BY <1>1 DEF SetHealth, KeysStay, KeyPools, PoolsOK
<1>2. CASE i \in Usable(pools[g])
  BY <1>2, WithHealthKeeps DEF SetHealth, Usable
<1> QED
  BY <1>1, <1>2

\* A new key comes last, and a reload leaves the pools before it alone.
LEMMA GrowthKeeps ==
  ASSUME PoolsOK,
         \/ \E g \in DOMAIN pools : \E k \in KeyIds : AddKey(g, k)
         \/ Reload
  PROVE  PoolsOK' /\ KeysStay
<1> USE DEF PoolsOK
<1>1. CASE Reload
  <2>1. NewKeyPool(<<>>) \in KeyPools
    BY DEF NewKeyPool, KeyPools
  <2>2. pools' = Append(pools, NewKeyPool(<<>>))
    BY <1>1 DEF Reload
  <2>3. /\ PoolsOK' /\ Len(pools) <= Len(pools')
        /\ \A g \in DOMAIN pools : pools'[g] = pools[g] /\ pools[g] \in KeyPools
    BY <2>1, <2>2, AppendProperties
  <2> QED
    BY <2>3 DEF KeysStay, KeyPools
<1>2. ASSUME NEW g \in DOMAIN pools, NEW k \in KeyIds, AddKey(g, k)
      PROVE  PoolsOK' /\ KeysStay
  <2> DEFINE new == Append(pools[g], [key |-> k, health |-> "ready"])
  <2>1. pools' = [pools EXCEPT ![g] = new]
    BY <1>2 DEF AddKey
  <2>2. pools[g] \in KeyPools
    OBVIOUS
  <2>3. /\ new \in KeyPools
        /\ Len(pools[g]) <= Len(new)
        /\ \A j \in DOMAIN pools[g] : new[j].key = pools[g][j].key
    BY <2>2 DEF KeyPools
  <2> QED
    BY <2>1, <2>2, <2>3 DEF KeysStay
<1> QED
  BY <1>1, <1>2

\* The end of a cooldown keeps every key where it is.
LEMMA CooldownEndsKeeps ==
  ASSUME PoolsOK, NEW g \in DOMAIN pools, NEW i \in DOMAIN pools[g],
         CooldownEnds(g, i)
  PROVE  PoolsOK' /\ KeysStay
BY WithHealthKeeps DEF CooldownEnds, Healths

------------------------------------------------------------------------------
(* The requests.                                                           *)

\* No pool is ever dropped, and the breakers stay those of the start.
LEMMA DomainsKeep ==
  ASSUME PoolsOK, PoolsOK', Len(pools) <= Len(pools'), BreakersOK, BreakersOK'
  PROVE  DOMAIN pools \subseteq DOMAIN pools' /\ DOMAIN keyCBs' = DOMAIN keyCBs
BY DEF PoolsOK, BreakersOK

\* An index that is good stays good, and for the same key.
LEMMA IndexStays ==
  ASSUME PoolsOK, PoolsOK', KeysStay, NEW g \in DOMAIN pools,
         NEW i \in DOMAIN pools[g]
  PROVE  i \in DOMAIN pools'[g] /\ pools'[g][i].key = pools[g][i].key
<1>1. pools[g] \in KeyPools /\ pools'[g] \in KeyPools
  BY DEF PoolsOK, KeysStay
<1> QED
  BY <1>1 DEF KeysStay, KeyPools

\* A key that a request held before the step and holds after it keeps its index.
LEMMA NamesStay ==
  ASSUME Inv, PoolsOK', KeysStay,
         \A c \in Clients :
           pc'[c] \in Holding /\ ~moved'[c] =>
             /\ pc[c] \in Holding /\ ~moved[c]
             /\ pool'[c] = pool[c] /\ idx'[c] = idx[c] /\ key'[c] = key[c]
  PROVE  IndexNamesKey'
<1> SUFFICES ASSUME NEW c \in Clients, (pc[c] \in Holding)', ~moved[c]'
             PROVE  InRange(c)' /\ (Mine(c)[idx[c]].key = key[c])'
  BY DEF IndexNamesKey
<1>1. pc[c] \in Holding /\ ~moved[c] /\ pool[c] \in DOMAIN pools
  BY DEF Inv, TypeOK, RequestsOK
<1>2. idx[c] \in DOMAIN pools[pool[c]] /\ pools[pool[c]][idx[c]].key = key[c]
  BY <1>1 DEF Inv, IndexNamesKey, InRange, Mine
<1> QED
  BY <1>1, <1>2, IndexStays DEF Inv, TypeOK, InRange, Mine

\* A step of a request that leaves it where it holds its key.
LEMMA GotoKeeps ==
  ASSUME Inv, PoolsOK', KeysStay, BreakersOK', NEW c \in Clients,
         NEW label \in Labels, Goto(c, label),
         label \in Holding <=> pc[c] \in Holding,
         label \in Trying => attempt[c] < MaxRetries,
         label \in Holding \ {"gate"} => idx[c] \in DOMAIN keyCBs
  PROVE  Inv'
<1> USE DEF Inv, TypeOK
<1>1. RequestsOK'
  <2>1. pool' \in [Clients -> DOMAIN pools']
    BY DomainsKeep DEF RequestsOK, Goto, KeysStay
  <2>2. ASSUME NEW d \in Clients
        PROVE  /\ idx'[d] # 0 <=> pc'[d] \in Holding
               /\ pc'[d] \in Trying => attempt'[d] < MaxRetries
               /\ pc'[d] \in Holding => key'[d] \in KeyIds
               /\ pc'[d] \in Holding \ {"gate"} => idx'[d] \in DOMAIN keyCBs'
    BY DomainsKeep DEF RequestsOK, Goto, KeysStay
  <2> QED
    BY <2>1, <2>2 DEF RequestsOK, Goto
<1>2. IndexNamesKey'
  BY NamesStay DEF RequestsOK, Goto
<1> QED
  BY <1>1, <1>2

\* A step after which the request holds no key.
LEMMA ReleaseKeeps ==
  ASSUME Inv, PoolsOK', KeysStay, BreakersOK', NEW c \in Clients,
         NEW label \in Labels \ Trying, NEW n \in 0..MaxRetries,
         pc' = [pc EXCEPT ![c] = label],
         attempt' = [attempt EXCEPT ![c] = n],
         Release(c)
  PROVE  Inv'
<1> USE DEF Inv, TypeOK
<1>1. RequestsOK'
  <2>1. pool' \in [Clients -> DOMAIN pools']
    BY DomainsKeep DEF RequestsOK, Release, KeysStay
  <2>2. ASSUME NEW d \in Clients
        PROVE  /\ idx'[d] # 0 <=> pc'[d] \in Holding
               /\ pc'[d] \in Trying => attempt'[d] < MaxRetries
               /\ pc'[d] \in Holding => key'[d] \in KeyIds
               /\ pc'[d] \in Holding \ {"gate"} => idx'[d] \in DOMAIN keyCBs'
    BY DomainsKeep DEF RequestsOK, Release, KeysStay, Trying
  <2> QED
    BY <2>1, <2>2 DEF RequestsOK, Release
<1>2. IndexNamesKey'
  BY NamesStay DEF RequestsOK, Release, Trying
<1> QED
  BY <1>1, <1>2

LEMMA RetryKeeps ==
  ASSUME Inv, PoolsOK', KeysStay, BreakersOK', NEW c \in Clients,
         attempt[c] < MaxRetries, Retry(c)
  PROVE  Inv'
<1>1. attempt[c] + 1 \in 0..MaxRetries /\ "next" \in Labels \ Trying
  BY GatewayAssumption DEF Inv, TypeOK, RequestsOK, Labels, Trying, Holding
<1> QED
  BY <1>1, ReleaseKeeps DEF Retry

LEMMA LeaveKeeps ==
  ASSUME Inv, PoolsOK', KeysStay, BreakersOK', NEW c \in Clients,
         Return(c) \/ Panic(c)
  PROVE  Inv'
<1>1. 0 \in 0..MaxRetries /\ {"idle", "panicked"} \subseteq Labels \ Trying
  BY GatewayAssumption DEF Labels, Trying, Holding
<1> QED
  BY <1>1, ReleaseKeeps DEF Return, Panic, Leave

\* A step of somebody else that leaves the keys where they are.
LEMMA OthersKeep ==
  ASSUME Inv, PoolsOK', KeysStay, UNCHANGED <<keyCBs, requestVars, moved>>
  PROVE  Inv'
<1> USE DEF Inv, TypeOK, requestVars
<1>1. BreakersOK'
  BY DEF BreakersOK
<1>2. RequestsOK'
  BY <1>1, DomainsKeep DEF RequestsOK, KeysStay
<1>3. IndexNamesKey'
  BY NamesStay
<1> QED
  BY <1>1, <1>2, <1>3

------------------------------------------------------------------------------
(* Every action.                                                           *)

\* A step that does not touch the pools keeps every key where it is.
LEMMA UntouchedStay ==
  ASSUME PoolsOK, UNCHANGED pools
  PROVE  PoolsOK' /\ KeysStay
BY DEF PoolsOK, KeysStay, KeyPools

\* A breaker's new state is one of its three.
LEMMA SetBreakerType ==
  ASSUME BreakersOK, NEW c \in Clients, NEW s \in {"CLOSED", "OPEN", "PERMANENT"},
         SetBreaker(c, s)
  PROVE  BreakersOK'
BY DEF BreakersOK, SetBreaker

LEMMA ArriveKeeps ==
  ASSUME Inv, NEW c \in Clients, Arrive(c)
  PROVE  Inv'
<1> USE DEF Inv, TypeOK
<1>1. PoolsOK' /\ KeysStay /\ BreakersOK'
  BY UntouchedStay DEF Arrive, BreakersOK
<1>2. Len(pools) \in DOMAIN pools
  BY DEF PoolsOK
<1>3. \A label \in {"idle", "panicked", "read"} :
        label \in Labels /\ label \notin Trying /\ label \notin Holding
  BY DEF Labels, Trying, Holding
<1>4. /\ pc'[c] = "read" /\ pc[c] \notin Holding
      /\ \A d \in Clients : d # c => pc'[d] = pc[d] /\ pool'[d] = pool[d]
  BY <1>3 DEF RequestsOK, Arrive
<1>5. RequestsOK'
  <2>1. pool' \in [Clients -> DOMAIN pools'] /\ pc' \in [Clients -> Labels]
    BY <1>2, <1>3 DEF RequestsOK, Arrive
  <2>2. ASSUME NEW d \in Clients
        PROVE  /\ idx'[d] # 0 <=> pc'[d] \in Holding
               /\ pc'[d] \in Trying => attempt'[d] < MaxRetries
               /\ pc'[d] \in Holding => key'[d] \in KeyIds
               /\ pc'[d] \in Holding \ {"gate"} => idx'[d] \in DOMAIN keyCBs'
    BY <1>3, <1>4 DEF RequestsOK, Arrive
  <2> QED
    BY <2>1, <2>2 DEF RequestsOK, Arrive
<1>6. \A d \in Clients :
        pc'[d] \in Holding =>
          /\ pc[d] \in Holding /\ pool'[d] = pool[d]
          /\ idx'[d] = idx[d] /\ key'[d] = key[d] /\ moved'[d] = moved[d]
  BY <1>3, <1>4 DEF Arrive
<1>7. IndexNamesKey'
  BY <1>1, <1>6, NamesStay
<1> QED
  BY <1>1, <1>5, <1>7

\* Next returns an index of the pool and the key that is there.
LEMMA PickKeyKeeps ==
  ASSUME Inv, NEW c \in Clients, PickKey(c)
  PROVE  Inv'
<1> USE DEF Inv, TypeOK
<1>1. PoolsOK' /\ KeysStay /\ BreakersOK'
  BY UntouchedStay DEF PickKey, BreakersOK
<1>2. PICK i \in Ready(Mine(c)) :
        /\ idx' = [idx EXCEPT ![c] = i]
        /\ key' = [key EXCEPT ![c] = Mine(c)[i].key]
  BY DEF PickKey
<1>3. i \in DOMAIN Mine(c) /\ i \in Nat \ {0} /\ Mine(c)[i].key \in KeyIds
  <2>1. Mine(c) \in KeyPools
    BY DEF Mine, PoolsOK, RequestsOK
  <2>2. Mine(c) \in Seq(Entries) /\ i \in 1..Len(Mine(c))
    BY <2>1 DEF Ready, KeyPools, Entries, Healths
  <2>3. Mine(c)[i] \in Entries
    BY <2>2, ElementOfSeq
  <2> QED
    BY <2>2, <2>3 DEF Entries
<1>4. "gate" \in Labels /\ "gate" \in Holding
  BY DEF Labels, Trying, Holding
<1>5. RequestsOK'
  <2>1. ASSUME NEW d \in Clients
        PROVE  /\ idx'[d] # 0 <=> pc'[d] \in Holding
               /\ pc'[d] \in Trying => attempt'[d] < MaxRetries
               /\ pc'[d] \in Holding => key'[d] \in KeyIds
               /\ pc'[d] \in Holding \ {"gate"} => idx'[d] \in DOMAIN keyCBs'
    BY <1>2, <1>3, <1>4 DEF RequestsOK, PickKey
  <2> QED
    BY <1>2, <1>3, <1>4, <2>1 DEF RequestsOK, PickKey
<1>6. IndexNamesKey'
  BY <1>2, <1>3 DEF IndexNamesKey, InRange, Mine, RequestsOK, PickKey
<1> QED
  BY <1>1, <1>5, <1>6

\* The one step that moves keys marks the requests whose keys it moves.
LEMMA RemoveKeyKeeps ==
  ASSUME Inv, NEW g \in DOMAIN pools, NEW i \in DOMAIN pools[g], RemoveKey(g, i)
  PROVE  Inv'
<1> USE DEF Inv, TypeOK, requestVars
<1> DEFINE rest == RemoveAt(pools[g], i)
<1>1. pools[g] \in KeyPools /\ i \in 1..Len(pools[g])
  BY DEF PoolsOK, KeyPools
<1>2. rest \in KeyPools /\ Len(rest) = Len(pools[g]) - 1
      /\ \A j \in 1..(i - 1) : rest[j] = pools[g][j]
  BY <1>1, RemoveAtFacts DEF KeyPools
<1>3. pools' = [pools EXCEPT ![g] = rest]
  BY DEF RemoveKey
<1> HIDE DEF rest
<1>4. PoolsOK' /\ DOMAIN pools' = DOMAIN pools
  BY <1>2, <1>3 DEF PoolsOK
<1>5. BreakersOK' /\ RequestsOK'
  BY <1>4 DEF RemoveKey, BreakersOK, RequestsOK
<1>6. IndexNamesKey'
  <2> SUFFICES ASSUME NEW c \in Clients, (pc[c] \in Holding)', ~moved[c]'
               PROVE  InRange(c)' /\ (Mine(c)[idx[c]].key = key[c])'
    BY DEF IndexNamesKey
  <2>1. /\ pc[c] \in Holding /\ ~moved[c]
        /\ ~(pool[c] = g /\ idx[c] # 0 /\ i <= idx[c])
        /\ idx[c] \in Nat \ {0} /\ pool[c] \in DOMAIN pools
    BY DEF RemoveKey, RequestsOK
  <2>2. idx[c] \in DOMAIN pools[pool[c]] /\ pools[pool[c]][idx[c]].key = key[c]
    BY <2>1 DEF IndexNamesKey, InRange, Mine
  <2>3. CASE pool[c] # g
    BY <2>1, <2>2, <2>3, <1>3 DEF InRange, Mine, RemoveKey
  <2>4. CASE pool[c] = g
    <3>1. idx[c] \in 1..(i - 1)
      BY <2>1, <2>4, <1>1 DEF KeyPools
    <3>2. idx[c] \in DOMAIN rest /\ rest[idx[c]].key = key[c]
      BY <3>1, <2>2, <2>4, <1>1, <1>2 DEF KeyPools
    <3> QED
      BY <3>2, <2>1, <2>4, <1>3 DEF InRange, Mine, RemoveKey
  <2> QED
    BY <2>3, <2>4
<1> QED
  BY <1>4, <1>5, <1>6

\* The calls that leave pools and breakers alone.
LEMMA LocalStepKeeps ==
  ASSUME Inv, NEW c \in Clients, UNCHANGED <<pools, keyCBs>>,
         \/ ReadBody(c) \/ Exhausted(c) \/ Refused(c) \/ NoKey(c)
         \/ WaitForKey(c) \/ NoBreaker(c) \/ Send(c) \/ BackOff(c)
         \/ KeyIsRetired(c) \/ CountRequest(c) \/ EndsHere(c)
         \/ UpstreamFails(c) \/ CheckActive(c)
  PROVE  Inv'
<1>1. PoolsOK' /\ KeysStay /\ BreakersOK'
  BY UntouchedStay DEF Inv, TypeOK, BreakersOK
<1>2. attempt[c] < MaxRetries \/ pc[c] \notin Trying
  BY DEF Inv, TypeOK, RequestsOK
<1> USE <1>1 DEF Trying, Holding
<1>3. CASE ReadBody(c)
  BY <1>3, GotoKeeps, LeaveKeeps DEF ReadBody, Labels
<1>4. CASE Exhausted(c)
  BY <1>4, LeaveKeeps DEF Exhausted
<1>5. CASE Refused(c)
  BY <1>5, RetryKeeps DEF Refused
<1>6. CASE NoKey(c)
  BY <1>6, GotoKeeps DEF NoKey, Labels
<1>7. CASE WaitForKey(c)
  BY <1>2, <1>7, RetryKeeps, LeaveKeeps DEF WaitForKey
<1>8. CASE NoBreaker(c)
  BY <1>8, LeaveKeeps DEF NoBreaker
<1>9. CASE Send(c)
  BY <1>2, <1>9, GotoKeeps DEF Send, Labels
<1>10. CASE BackOff(c)
  BY <1>2, <1>10, RetryKeeps DEF BackOff
<1>11. CASE KeyIsRetired(c)
  BY <1>2, <1>11, RetryKeeps, LeaveKeeps DEF KeyIsRetired
<1>12. CASE CountRequest(c)
  BY <1>12, LeaveKeeps DEF CountRequest
<1>13. CASE EndsHere(c)
  BY <1>13, LeaveKeeps DEF EndsHere
<1>14. CASE UpstreamFails(c)
  BY <1>2, <1>14, RetryKeeps DEF UpstreamFails
<1>15. CASE CheckActive(c)
  BY <1>2, <1>15, RetryKeeps, LeaveKeeps DEF CheckActive
<1> QED
  BY <1>3, <1>4, <1>5, <1>6, <1>7, <1>8, <1>9, <1>10, <1>11, <1>12, <1>13,
     <1>14, <1>15

\* The calls that record the upstream's answer.
LEMMA RecordStepKeeps ==
  ASSUME Inv, NEW c \in Clients,
         \/ Succeeds(c) \/ RateLimited(c) \/ CoolKey(c) \/ Verdict(c)
         \/ AuthRejected(c) \/ RecordPerma(c)
  PROVE  Inv'
<1> USE DEF Inv, TypeOK
<1>1. /\ attempt[c] < MaxRetries \/ pc[c] \notin Trying
      /\ pool[c] \in DOMAIN pools
      /\ pc[c] \in Holding \ {"gate"} => idx[c] \in DOMAIN keyCBs
  BY DEF RequestsOK
<1>2. CASE Succeeds(c)
  <2>1. PoolsOK' /\ KeysStay /\ BreakersOK'
    BY <1>2, UntouchedStay, SetBreakerType DEF Succeeds
  <2> QED
    BY <1>1, <1>2, <2>1, GotoKeeps DEF Succeeds, Labels, Trying, Holding
<1>3. CASE RateLimited(c)
  <2>1. PoolsOK' /\ KeysStay /\ BreakersOK'
    BY <1>3, UntouchedStay, SetBreakerType DEF RateLimited
  <2> QED
    BY <1>1, <1>3, <2>1, GotoKeeps DEF RateLimited, Labels, Trying, Holding
<1>4. CASE CoolKey(c)
  <2>1. PoolsOK' /\ KeysStay /\ BreakersOK'
    BY <1>1, <1>4, SetHealthKeeps DEF CoolKey, Mark, Healths, BreakersOK
  <2> QED
    BY <1>1, <1>4, <2>1, GotoKeeps DEF CoolKey, Labels, Trying, Holding
<1>5. CASE Verdict(c)
  <2>1. PoolsOK' /\ KeysStay /\ BreakersOK'
    BY <1>1, <1>5, SetHealthKeeps, UntouchedStay
       DEF Verdict, Mark, Healths, BreakersOK
  <2> QED
    BY <1>1, <1>5, <2>1, GotoKeeps, RetryKeeps
       DEF Verdict, Labels, Trying, Holding
<1>6. CASE AuthRejected(c)
  <2>1. PoolsOK' /\ KeysStay /\ BreakersOK'
    BY <1>1, <1>6, SetHealthKeeps DEF AuthRejected, Mark, Healths, BreakersOK
  <2> QED
    BY <1>1, <1>6, <2>1, GotoKeeps DEF AuthRejected, Labels, Trying, Holding
<1>7. CASE RecordPerma(c)
  <2>1. PoolsOK' /\ KeysStay /\ BreakersOK'
    BY <1>7, UntouchedStay, SetBreakerType DEF RecordPerma
  <2> QED
    BY <1>1, <1>7, <2>1, GotoKeeps DEF RecordPerma, Labels, Trying, Holding
<1> QED
  BY <1>2, <1>3, <1>4, <1>5, <1>6, <1>7

LEMMA NextInv == Inv /\ [Next]_vars => Inv'
<1> SUFFICES ASSUME Inv, [Next]_vars
             PROVE  Inv'
  OBVIOUS
<1>1. ASSUME NEW c \in Clients, Step(c)
      PROVE  Inv'
  BY <1>1, PickKeyKeeps, LocalStepKeeps, RecordStepKeeps
     DEF Step, ReadBody, Exhausted, Refused, NoKey, WaitForKey, NoBreaker, Send,
         BackOff, KeyIsRetired, CountRequest, EndsHere, UpstreamFails, CheckActive
<1>2. ASSUME NEW c \in Clients, Arrive(c)
      PROVE  Inv'
  BY <1>2, ArriveKeeps
<1>3. CASE (\E g \in DOMAIN pools : \E k \in KeyIds : AddKey(g, k)) \/ Reload
  BY <1>3, GrowthKeeps, OthersKeep DEF Inv, TypeOK, AddKey, Reload
<1>4. ASSUME NEW g \in DOMAIN pools, NEW i \in DOMAIN pools[g], RemoveKey(g, i)
      PROVE  Inv'
  BY <1>4, RemoveKeyKeeps
<1>5. ASSUME NEW g \in DOMAIN pools, NEW i \in DOMAIN pools[g],
             DisableOrCool(g, i)
      PROVE  Inv'
  BY <1>5, SetHealthKeeps, OthersKeep DEF Inv, TypeOK, DisableOrCool, Healths
<1>6. ASSUME NEW g \in DOMAIN pools, NEW i \in DOMAIN pools[g],
             CooldownEnds(g, i)
      PROVE  Inv'
  BY <1>6, CooldownEndsKeeps, OthersKeep DEF Inv, TypeOK, CooldownEnds
<1>7. CASE UNCHANGED vars
  BY <1>7, UntouchedStay, OthersKeep DEF Inv, TypeOK, vars
<1> QED
  BY <1>1, <1>2, <1>3, <1>4, <1>5, <1>6, <1>7 DEF Next

LEMMA InitInv == Init => Inv
<1> SUFFICES ASSUME Init
             PROVE  Inv
  OBVIOUS
<1> USE DEF Init
<1>1. NewKeyPool(StartKeys) \in KeyPools
  <2>1. DOMAIN StartKeys = 1..Len(StartKeys) /\ Len(StartKeys) \in Nat
    BY GatewayAssumption
  <2>2. NewKeyPool(StartKeys) \in [1..Len(StartKeys) -> Entries]
    BY <2>1, GatewayAssumption DEF NewKeyPool, Entries, Healths
  <2> QED
    <3>1. NewKeyPool(StartKeys) \in UNION {[1..n -> Entries] : n \in Nat}
      BY <2>1, <2>2, Zenon
    <3>2. NewKeyPool(StartKeys) \in Seq(Entries)
      BY <3>1, SeqDef, Zenon
    <3> QED
      BY <3>2 DEF KeyPools, Entries, Healths
<1>2. PoolsOK /\ DOMAIN pools = {1}
  BY <1>1 DEF PoolsOK
<1>3. BreakersOK
  BY DEF BreakersOK
<1>4. 0 \in 0..MaxRetries /\ "idle" \in Labels \ Trying
  BY GatewayAssumption DEF Labels, Trying, Holding
<1>5. RequestsOK
  BY <1>2, <1>4 DEF RequestsOK, Trying
<1>6. IndexNamesKey
  BY <1>4 DEF IndexNamesKey, Trying
<1> QED
  BY <1>2, <1>3, <1>5, <1>6 DEF Inv, TypeOK

\* The types, and what a request may rely on between two calls.
THEOREM GatewayTypeCorrect == Spec => []TypeOK
BY InitInv, NextInv, PTL DEF Spec, Inv

\* However requests, key changes and reloads interleave, the index that Next
\* returned names the request's key until a removal in its pool moves it
\* (handlers.go:182-354, keypool.go:284-325).
THEOREM IndexSound == Spec => []IndexNamesKey
BY InitInv, NextInv, PTL DEF Spec, Inv

------------------------------------------------------------------------------
\* Only its own step changes where a request is.
LEMMA MoverSteps ==
  ASSUME Inv, Next, NEW c \in Clients, pc'[c] # pc[c]
  PROVE  Arrive(c) \/ Step(c)
<1> USE DEF Inv, TypeOK, RequestsOK
<1>1. PICK d \in Clients : Arrive(d) \/ Step(d)
  BY DEF Next, AddKey, RemoveKey, DisableOrCool, CooldownEnds, Reload, requestVars
<1>2. CASE d = c
  BY <1>1, <1>2
<1>3. CASE d # c
  <2>1. \E l : pc' = [pc EXCEPT ![d] = l]
    BY <1>1, Zenon
       DEF Arrive, Step, ReadBody, Exhausted, Refused, PickKey, NoKey, WaitForKey,
           NoBreaker, Send, BackOff, KeyIsRetired, Succeeds, CountRequest, EndsHere,
           UpstreamFails, RateLimited, CoolKey, Verdict, AuthRejected, RecordPerma,
           CheckActive, Goto, Retry, Return, Panic, Leave
  <2> QED
    BY <1>3, <2>1
<1> QED
  BY <1>2, <1>3

\* What a request does to pools is to mark the key at its index.
LEMMA StepsMark ==
  ASSUME NEW c \in Clients, Arrive(c) \/ Step(c)
  PROVE  UNCHANGED pools \/ \E h \in Healths : Mark(c, h)
BY DEF Arrive, Step, ReadBody, Exhausted, Refused, PickKey, NoKey, WaitForKey,
       NoBreaker, Send, BackOff, KeyIsRetired, Succeeds, CountRequest, EndsHere,
       UpstreamFails, RateLimited, CoolKey, Verdict, AuthRejected, RecordPerma,
       CheckActive, Healths

\* An answer is held against the key it was sent with (handlers.go:245, 258, 280),
\* for any number of requests, keys and reloads.
THEOREM OwnKeySuffers == Spec => OnlyOwnKeySuffers
<1>1. Inv /\ [Next]_vars =>
        [\A c \in Clients : pc[c]' # pc[c] /\ ~moved[c] =>
           \A g \in DOMAIN pools : \A i \in DOMAIN pools[g] :
             pools[g][i]' # pools[g][i] =>
               g = pool[c] /\ pools[g][i].key = key[c]]_vars
  <2> SUFFICES ASSUME Inv, Next, NEW c \in Clients, pc'[c] # pc[c], ~moved[c],
                      NEW g \in DOMAIN pools, NEW i \in DOMAIN pools[g],
                      pools'[g][i] # pools[g][i]
               PROVE  g = pool[c] /\ pools[g][i].key = key[c]
    OBVIOUS
  <2>1. Arrive(c) \/ Step(c)
    BY MoverSteps
  <2>2. PICK h \in Healths : Mark(c, h)
    BY <2>1, StepsMark
  <2>3. /\ idx[c] \in Usable(pools[pool[c]])
        /\ pools' = [pools EXCEPT ![pool[c]] = WithHealth(pools[pool[c]], idx[c], h)]
    BY <2>2 DEF Mark, SetHealth
  <2>4. g = pool[c] /\ i = idx[c]
    <3>1. pools \in Seq(KeyPools) /\ pool[c] \in DOMAIN pools
      BY DEF Inv, TypeOK, PoolsOK, RequestsOK
    <3>2. g = pool[c]
      BY <2>3, <3>1
    <3>3. pools'[g] = WithHealth(pools[g], idx[c], h)
      BY <2>3, <3>1, <3>2
    <3> QED
      BY <3>1, <3>2, <3>3 DEF WithHealth, KeyPools
  <2>5. idx[c] # 0
    BY <2>3, <2>4 DEF Inv, TypeOK, PoolsOK, KeyPools
  <2>6. pc[c] \in Holding
    BY <2>5 DEF Inv, TypeOK, RequestsOK
  <2> QED
    BY <2>4, <2>6 DEF Inv, IndexNamesKey, Mine
<1> QED
  BY <1>1, InitInv, NextInv, PTL DEF Spec, OnlyOwnKeySuffers

\* A handler panics only for a key added since start-up, or for an index that a
\* removal has moved (handlers.go:196, 354).
THEOREM PanicsAreChanges == Spec => PanicsOnlyOnChange
<1>1. Inv /\ [Next]_vars =>
        [\A c \in Clients : pc[c]' = "panicked" /\ pc[c] # "panicked" =>
           moved[c] \/ idx[c] > Len(StartKeys)]_vars
  <2> SUFFICES ASSUME Inv, Next, NEW c \in Clients, pc'[c] = "panicked",
                      pc[c] # "panicked", ~moved[c]
               PROVE  idx[c] > Len(StartKeys)
    OBVIOUS
  <2>1. Arrive(c) \/ Step(c)
    BY MoverSteps
  <2>2. NoBreaker(c) \/ (CountRequest(c) /\ ~InRange(c))
    BY <2>1
       DEF Arrive, Step, ReadBody, Exhausted, Refused, PickKey, NoKey, WaitForKey,
           NoBreaker, Send, BackOff, KeyIsRetired, Succeeds, CountRequest, EndsHere,
           UpstreamFails, RateLimited, CoolKey, Verdict, AuthRejected, RecordPerma,
           CheckActive, Goto, Retry, Return, Panic, Leave, Inv, TypeOK, RequestsOK
  <2>3. pc[c] \in Holding
    BY <2>2 DEF NoBreaker, CountRequest, Holding
  <2>4. NoBreaker(c)
    BY <2>2, <2>3 DEF Inv, IndexNamesKey
  <2>5. idx[c] \in Nat \ {0} /\ idx[c] \notin 1..Len(StartKeys)
    <3>1. idx[c] \notin DOMAIN StartKeys /\ StartKeys \in Seq(KeyIds)
      BY <2>4, GatewayAssumption DEF NoBreaker, Inv, TypeOK, BreakersOK
    <3> QED
      BY <2>3, <3>1 DEF Inv, TypeOK, RequestsOK
  <2> QED
    BY <2>5, GatewayAssumption
<1> QED
  BY <1>1, InitInv, NextInv, PTL DEF Spec, PanicsOnlyOnChange

==============================================================================
