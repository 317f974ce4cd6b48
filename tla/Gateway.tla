------------------------------- MODULE Gateway -------------------------------
(***************************************************************************)
(* The proxy path of one provider while its keys change under it:          *)
(* executeProxy against the key endpoints and reloadHandler, all of        *)
(* internal/server/handlers.go.                                            *)
(*                                                                         *)
(* A request takes ps.Pool once and keeps it, a reload puts another pool   *)
(* in its place, and the breakers stay those of the keys at start-up; an   *)
(* index that Next returned is used on all of them until the request ends. *)
(* So pools holds every pool so far, the one in use last.                  *)
(*                                                                         *)
(* Proxy models the counters and the clock.  They are left open here: which*)
(* ready key Next returns, when a cooldown is over, what the upstream      *)
(* breaker decides and which failure exhausts a key.  A pool is a list of  *)
(* keys as in KeyRing; a disabled key never comes back, so that what is    *)
(* left of its cooldown does not matter.                                   *)
(***************************************************************************)
EXTENDS Integers, SequencesExt

CONSTANTS Clients,          \* the concurrent requests
          KeyIds,           \* the API keys
          NoKeyHeld,        \* the key of a request that holds none
          StartKeys,        \* the keys that the provider was started with
          MaxRetries,       \* cfg.MaxRetries
          MaxKeys,          \* bound: longest pool that is modelled
          MaxReloads        \* bound: reloads of the configuration

ASSUME GatewayAssumption ==
  /\ StartKeys \in Seq(KeyIds) /\ NoKeyHeld \notin KeyIds
  /\ MaxRetries \in Nat /\ MaxKeys \in Nat /\ MaxReloads \in Nat

VARIABLES pools,            \* pools[g][i]: key and health of a key
          keyCBs,           \* the state of each breaker
          pc,               \* the next call of each request, or "idle"
          attempt,          \* its loop variable
          pool,             \* the pool it took, as an index of pools
          idx, key,         \* what Next returned to it; idx 0 when it holds no key
          moved             \* history: a key was removed at or before idx since

requestVars == <<pc, attempt, pool, idx, key>>
vars == <<pools, keyCBs, requestVars, moved>>

NewKeyPool(ks) == [i \in DOMAIN ks |-> [key |-> ks[i], health |-> "ready"]]

Init ==
  /\ pools = <<NewKeyPool(StartKeys)>>
  /\ keyCBs = [i \in DOMAIN StartKeys |-> "CLOSED"]
  /\ pc = [c \in Clients |-> "idle"]
  /\ attempt = [c \in Clients |-> 0]
  /\ pool = [c \in Clients |-> 1]
  /\ idx = [c \in Clients |-> 0]
  /\ key = [c \in Clients |-> NoKeyHeld]
  /\ moved = [c \in Clients |-> FALSE]

------------------------------------------------------------------------------
(* The pool of a request, by the index it holds.  Cooldown and Disable     *)
(* return an error that executeProxy ignores when there is no such key.    *)

Mine(c) == pools[pool[c]]

InRange(c) == idx[c] \in DOMAIN Mine(c)

Usable(p) == {i \in DOMAIN p : p[i].health # "disabled"}

Ready(p) == {i \in DOMAIN p : p[i].health = "ready"}

WithHealth(p, i, h) == [p EXCEPT ![i] = [key |-> p[i].key, health |-> h]]

\* A disabled key stays disabled.
SetHealth(g, i, h) ==
  IF i \in Usable(pools[g])
  THEN pools' = [pools EXCEPT ![g] = WithHealth(pools[g], i, h)]
  ELSE UNCHANGED pools

\* Mutant: the request asks the provider for its pool again.
MarkCurrent(c, h) == SetHealth(Len(pools), idx[c], h)

Mark(c, h) == SetHealth(pool[c], idx[c], h)

------------------------------------------------------------------------------
(* How a step of a request ends.                                           *)

Goto(c, label) ==
  /\ pc' = [pc EXCEPT ![c] = label]
  /\ UNCHANGED <<attempt, pool, idx, key, moved>>

Release(c) ==
  /\ idx' = [idx EXCEPT ![c] = 0]
  /\ key' = [key EXCEPT ![c] = NoKeyHeld]
  /\ moved' = [moved EXCEPT ![c] = FALSE]
  /\ UNCHANGED pool

\* Mutant: the attempt is not counted.
RetryUncounted(c) ==
  /\ pc' = [pc EXCEPT ![c] = "next"]
  /\ Release(c)
  /\ UNCHANGED attempt

\* continue: the next iteration of the loop, after a sleep if the code sleeps.
Retry(c) ==
  /\ pc' = [pc EXCEPT ![c] = "next"]
  /\ attempt' = [attempt EXCEPT ![c] = @ + 1]
  /\ Release(c)

Leave(c, label) ==
  /\ pc' = [pc EXCEPT ![c] = label]
  /\ attempt' = [attempt EXCEPT ![c] = 0]
  /\ Release(c)

Return(c) == Leave(c, "idle")

\* net/http recovers from the panic and closes the connection.
Panic(c) == Leave(c, "panicked")

------------------------------------------------------------------------------
(* A request, call by call.                                                *)

Arrive(c) ==
  /\ pc[c] \in {"idle", "panicked"}
  /\ pc' = [pc EXCEPT ![c] = "read"]
  /\ pool' = [pool EXCEPT ![c] = Len(pools)]
  /\ UNCHANGED <<pools, keyCBs, attempt, idx, key, moved>>

\* The pool is taken before the body is read.
ReadBody(c) ==
  /\ pc[c] = "read"
  /\ Goto(c, "next") \/ Return(c)
  /\ UNCHANGED <<pools, keyCBs>>

Exhausted(c) ==
  /\ pc[c] = "next" /\ attempt[c] >= MaxRetries
  /\ Return(c)
  /\ UNCHANGED <<pools, keyCBs>>

\* The upstream breaker is open.
Refused(c) ==
  /\ pc[c] = "next" /\ attempt[c] < MaxRetries
  /\ Retry(c)
  /\ UNCHANGED <<pools, keyCBs>>

\* Mutant: the loop goes on after the last attempt.
PickKeyOnceMore(c) ==
  /\ pc[c] = "next" /\ attempt[c] <= MaxRetries
  /\ \E i \in Ready(Mine(c)) :
       /\ idx' = [idx EXCEPT ![c] = i]
       /\ key' = [key EXCEPT ![c] = Mine(c)[i].key]
  /\ pc' = [pc EXCEPT ![c] = "gate"]
  /\ UNCHANGED <<pools, keyCBs, attempt, pool, moved>>

PickKey(c) ==
  /\ pc[c] = "next" /\ attempt[c] < MaxRetries
  /\ \E i \in Ready(Mine(c)) :
       /\ idx' = [idx EXCEPT ![c] = i]
       /\ key' = [key EXCEPT ![c] = Mine(c)[i].key]
  /\ pc' = [pc EXCEPT ![c] = "gate"]
  /\ UNCHANGED <<pools, keyCBs, attempt, pool, moved>>

NoKey(c) ==
  /\ pc[c] = "next" /\ attempt[c] < MaxRetries
  /\ Ready(Mine(c)) = {}
  /\ Goto(c, "wait")
  /\ UNCHANGED <<pools, keyCBs>>

\* TimeUntilAvailable: -1 when no key is left, or none was ever there.
WaitForKey(c) ==
  /\ pc[c] = "wait"
  /\ IF Usable(Mine(c)) # {} THEN Retry(c) ELSE Return(c)
  /\ UNCHANGED <<pools, keyCBs>>

\* keyCBs[idx] of a key that came after start-up.
NoBreaker(c) ==
  /\ pc[c] = "gate" /\ idx[c] \notin DOMAIN keyCBs
  /\ Panic(c)
  /\ UNCHANGED <<pools, keyCBs>>

\* Allow: always when CLOSED, after the backoff when OPEN.
Send(c) ==
  /\ pc[c] = "gate" /\ idx[c] \in DOMAIN keyCBs
  /\ keyCBs[idx[c]] \in {"CLOSED", "OPEN"}
  /\ Goto(c, "inflight")
  /\ UNCHANGED <<pools, keyCBs>>

BackOff(c) ==
  /\ pc[c] = "gate" /\ idx[c] \in DOMAIN keyCBs
  /\ keyCBs[idx[c]] = "OPEN"
  /\ Retry(c)
  /\ UNCHANGED <<pools, keyCBs>>

KeyIsRetired(c) ==
  /\ pc[c] = "gate" /\ idx[c] \in DOMAIN keyCBs
  /\ keyCBs[idx[c]] = "PERMANENT"
  /\ IF \A i \in DOMAIN keyCBs : keyCBs[i] = "PERMANENT"
     THEN Return(c) ELSE Retry(c)
  /\ UNCHANGED <<pools, keyCBs>>

------------------------------------------------------------------------------
(* The answer of the upstream, with the first call the handler makes.      *)

\* The breaker takes up a new state unless it is PERMANENT.
SetBreaker(c, s) ==
  keyCBs' = [keyCBs EXCEPT ![idx[c]] = IF @ = "PERMANENT" THEN @ ELSE s]

Succeeds(c) ==
  /\ pc[c] = "inflight"
  /\ SetBreaker(c, "CLOSED")
  /\ Goto(c, "count")
  /\ UNCHANGED pools

\* Mutant: the request is counted in the pool that the provider has by now.
CountRequestCurrent(c) ==
  /\ pc[c] = "count"
  /\ IF idx[c] \in DOMAIN pools[Len(pools)] THEN Return(c) ELSE Panic(c)
  /\ UNCHANGED <<pools, keyCBs>>

\* IncrementRequestCount, after the body was copied: it does not check its index.
CountRequest(c) ==
  /\ pc[c] = "count"
  /\ IF InRange(c) THEN Return(c) ELSE Panic(c)
  /\ UNCHANGED <<pools, keyCBs>>

\* Another 4xx or a 501, relayed as it is; or the client went away, or the
\* upstream request could not even be built.  The key is used no more.
EndsHere(c) ==
  /\ pc[c] = "inflight"
  /\ Return(c)
  /\ UNCHANGED <<pools, keyCBs>>

\* A network error or a 5xx: no matter of the key.
UpstreamFails(c) ==
  /\ pc[c] = "inflight"
  /\ Retry(c)
  /\ UNCHANGED <<pools, keyCBs>>

\* 429.
RateLimited(c) ==
  /\ pc[c] = "inflight"
  /\ \E s \in {"OPEN", "PERMANENT"} : SetBreaker(c, s)
  /\ Goto(c, "cool")
  /\ UNCHANGED pools

CoolKey(c) ==
  /\ pc[c] = "cool"
  /\ Mark(c, "resting")
  /\ Goto(c, "verdict")
  /\ UNCHANGED keyCBs

\* The breaker at idx is asked, and the key at idx disabled.
Verdict(c) ==
  /\ pc[c] = "verdict"
  /\ IF keyCBs[idx[c]] = "PERMANENT"
     THEN Mark(c, "disabled") /\ Goto(c, "active")
     ELSE Retry(c) /\ UNCHANGED pools
  /\ UNCHANGED keyCBs

\* 401 and 403.
AuthRejected(c) ==
  /\ pc[c] = "inflight"
  /\ Mark(c, "disabled")
  /\ Goto(c, "perma")
  /\ UNCHANGED keyCBs

RecordPerma(c) ==
  /\ pc[c] = "perma"
  /\ SetBreaker(c, "PERMANENT")
  /\ Goto(c, "active")
  /\ UNCHANGED pools

CheckActive(c) ==
  /\ pc[c] = "active"
  /\ IF Usable(Mine(c)) # {} THEN Retry(c) ELSE Return(c)
  /\ UNCHANGED <<pools, keyCBs>>

------------------------------------------------------------------------------
(* The administrators, and time.  A handler that took its pool before a    *)
(* reload changes the old one, so these reach every pool.                  *)

\* Mutant: a new key is put first.
AddKeyFirst(g, k) ==
  /\ Len(pools[g]) < MaxKeys
  /\ pools' = [pools EXCEPT ![g] = <<[key |-> k, health |-> "ready"]>> \o @]
  /\ UNCHANGED <<keyCBs, requestVars, moved>>

AddKey(g, k) ==
  /\ Len(pools[g]) < MaxKeys
  /\ pools' = [pools EXCEPT ![g] = Append(pools[g], [key |-> k, health |-> "ready"])]
  /\ UNCHANGED <<keyCBs, requestVars, moved>>

\* The keys behind the removed one move up.
RemoveKey(g, i) ==
  /\ pools' = [pools EXCEPT ![g] = RemoveAt(pools[g], i)]
  /\ moved' = [c \in Clients |->
                 moved[c] \/ (pool[c] = g /\ idx[c] # 0 /\ i <= idx[c])]
  /\ UNCHANGED <<keyCBs, requestVars>>

DisableOrCool(g, i) ==
  /\ \E h \in {"resting", "disabled"} : SetHealth(g, i, h)
  /\ UNCHANGED <<keyCBs, requestVars, moved>>

\* The configuration file holds no keys.
Reload ==
  /\ Len(pools) <= MaxReloads
  /\ pools' = Append(pools, NewKeyPool(<<>>))
  /\ UNCHANGED <<keyCBs, requestVars, moved>>

CooldownEnds(g, i) ==
  /\ pools[g][i].health = "resting"
  /\ pools' = [pools EXCEPT ![g] = WithHealth(pools[g], i, "ready")]
  /\ UNCHANGED <<keyCBs, requestVars, moved>>

------------------------------------------------------------------------------
Step(c) ==
  \/ ReadBody(c) \/ Exhausted(c) \/ Refused(c) \/ PickKey(c) \/ NoKey(c)
  \/ WaitForKey(c) \/ NoBreaker(c) \/ Send(c) \/ BackOff(c) \/ KeyIsRetired(c)
  \/ Succeeds(c) \/ CountRequest(c) \/ EndsHere(c) \/ UpstreamFails(c)
  \/ RateLimited(c) \/ CoolKey(c) \/ Verdict(c)
  \/ AuthRejected(c) \/ RecordPerma(c) \/ CheckActive(c)

Next ==
  \/ \E c \in Clients : Arrive(c) \/ Step(c)
  \/ \E g \in DOMAIN pools : \E k \in KeyIds : AddKey(g, k)
  \/ \E g \in DOMAIN pools : \E i \in DOMAIN pools[g] :
       RemoveKey(g, i) \/ DisableOrCool(g, i) \/ CooldownEnds(g, i)
  \/ Reload

Spec == Init /\ [][Next]_vars

\* client.Timeout ends every call of the upstream, and the scheduler runs every
\* handler.  One that reads its request or copies its answer waits for its
\* client as long as that likes: http.Server has no timeouts.
Fairness ==
  \A c \in Clients : WF_vars(Step(c) /\ pc[c] \notin {"read", "count"})

FairSpec == Spec /\ Fairness

------------------------------------------------------------------------------
Holding == {"gate", "inflight", "count", "cool", "verdict", "perma", "active"}

Trying == {"wait"} \cup Holding

Labels == {"idle", "panicked", "read", "next"} \cup Trying

KeyPools == Seq([key : KeyIds, health : {"ready", "resting", "disabled"}])

PoolsOK == pools \in Seq(KeyPools) /\ pools # <<>>

BreakersOK == keyCBs \in [DOMAIN StartKeys -> {"CLOSED", "OPEN", "PERMANENT"}]

RequestsOK ==
  /\ pc \in [Clients -> Labels]
  /\ attempt \in [Clients -> 0..MaxRetries]
  /\ pool \in [Clients -> DOMAIN pools]
  /\ idx \in [Clients -> Nat]
  /\ key \in [Clients -> KeyIds \cup {NoKeyHeld}]
  /\ moved \in [Clients -> BOOLEAN]
  /\ \A c \in Clients :
       /\ idx[c] # 0 <=> pc[c] \in Holding
       /\ pc[c] \in Trying => attempt[c] < MaxRetries
       /\ pc[c] \in Holding => key[c] \in KeyIds
       /\ pc[c] \in Holding \ {"gate"} => idx[c] \in DOMAIN keyCBs

\* Types; a request holds an index exactly while it uses one, and beyond the gate
\* the index has a breaker, which the code does not check (handlers.go:244, 281).
TypeOK == PoolsOK /\ BreakersOK /\ RequestsOK

\* The index that a request took from Next (handlers.go:182) names its key until
\* it is done with it, two minutes later perhaps, whatever is added, disabled and
\* reloaded meanwhile: only a removal at or before it in its own pool moves it.
IndexNamesKey ==
  \A c \in Clients :
    pc[c] \in Holding /\ ~moved[c] => InRange(c) /\ Mine(c)[idx[c]].key = key[c]

\* An answer of the upstream is held against the key it was sent with and no
\* other: what a request changes in any pool is its own key in its own pool,
\* unless a removal has moved it (handlers.go:245, 258, 280).
OnlyOwnKeySuffers ==
  [][\A c \in Clients : pc[c]' # pc[c] /\ ~moved[c] =>
       \A g \in DOMAIN pools : \A i \in DOMAIN pools[g] :
         pools[g][i]' # pools[g][i] =>
           g = pool[c] /\ pools[g][i].key = key[c]]_vars

\* A handler panics only for an index beyond the breakers, that is a key added
\* since start-up, or for one that a removal has moved (handlers.go:196, 354).
PanicsOnlyOnChange ==
  [][\A c \in Clients :
       pc[c]' = "panicked" /\ pc[c] # "panicked" =>
         moved[c] \/ idx[c] > Len(StartKeys)]_vars

\* A key that is gone from the pool in use for good, by a removal or a reload,
\* is in the end sent to the upstream no more: the requests that still hold the
\* pool it was in have bounded retries.
InUse(k) == \E i \in DOMAIN pools[Len(pools)] : pools[Len(pools)][i].key = k

SentWith(k) == \E c \in Clients : pc[c] = "inflight" /\ key[c] = k

GoneKeyDrains == \A k \in KeyIds : <>[]~InUse(k) => <>[]~SentWith(k)

\* "Each API key has an independent circuit breaker of its own"
\* (architecture.md:33): at the gate, the breaker that is asked is the one made
\* for the key that will be sent.
EachKeyItsOwnBreaker ==
  \A c \in Clients :
    pc[c] = "gate" => idx[c] \in DOMAIN StartKeys /\ StartKeys[idx[c]] = key[c]

==============================================================================
