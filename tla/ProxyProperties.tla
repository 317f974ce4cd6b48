--------------------------- MODULE ProxyProperties ---------------------------
(***************************************************************************)
(* What the proxy path of a provider has to guarantee to its clients and   *)
(* to the owner of the keys.                                               *)
(***************************************************************************)
EXTENDS Proxy

Labels == {"idle", "admit", "pick", "wait", "gate", "remaining", "scan",
           "sleep", "inflight", "succeedUp", "stream", "cool", "verdict",
           "disable", "perma", "active"}

Answers == {"none", "RELAYED", "ABORTED", "BAD_REQUEST",
            "UPSTREAM_ERROR", "ALL_KEYS_INVALID", "EXHAUSTED_RETRIES"}

\* A request at one of these labels has taken a key from the pool.
Holding == {"gate", "remaining", "scan", "inflight", "succeedUp", "stream",
            "cool", "verdict", "disable", "perma", "active"}

RequestTypeOK ==
  /\ pc \in [Clients -> Labels]
  /\ attempt \in [Clients -> 0..MaxRetries]
  /\ idx \in [Clients -> 0..NumKeys]
  /\ sleepLeft \in [Clients -> Nat]
  /\ answer \in [Clients -> Answers]
  /\ \A c \in Clients :
       /\ pc[c] \in Holding <=> idx[c] # 0
       /\ pc[c] \notin {"idle", "admit"} => attempt[c] < MaxRetries

\* Types of the shared objects and of the requests; a request holds a key
\* exactly at the labels that use one, and never runs more than MaxRetries
\* iterations of the loop (handlers.go:175).
TypeOK ==
  /\ Up!TypeOK
  /\ CB!TypeOK
  /\ Pool!TypeOK /\ Len(keys) = NumKeys
  /\ RequestTypeOK

\* The two records of a key's retirement agree: once its breaker is PERMANENT
\* the pool has disabled it too, except while the handler whose 429 exhausted
\* it is still between keyCBs[idx].RecordFailure and pool.Disable
\* (handlers.go:249-261).
Retiring(c, i) == idx[c] = i /\ pc[c] \in {"cool", "verdict", "disable"}

PermanentIsDisabled ==
  \A i \in Indices :
    CB!IsPermanent(i) => disabled[i] \/ \E c \in Clients : Retiring(c, i)

\* A client is told that all keys are invalid (handlers.go:186, 207, 263, 286)
\* only if they are, and then for good: the pool has disabled all of them or
\* the breakers of all of them are PERMANENT.
AllKeysInvalidIsTrue ==
  \A c \in Clients :
    answer[c] = "ALL_KEYS_INVALID" =>
      (\A i \in Indices : disabled[i]) \/ AllPermanent

\* Every request is answered, or begins to be passed an answer: retries are
\* bounded, no sleep is prolonged by cooldowns that others set meanwhile, and no
\* request waits for another one, nor for another one's client, however long
\* that takes to read what it is sent (handlers.go:175-365).
EveryRequestAnswered ==
  \A c \in Clients : pc[c] # "idle" ~> pc[c] \in {"idle", "stream"}

\* A disabled key drains: requests that hold it finish with it and none picks
\* it up again, late answers and sleeps included.  Only a request that is past
\* the upstream's answer may keep it, for as long as its client reads.
DisabledKeyDrains ==
  \A i \in Indices :
    disabled[i] ~> [](\A c \in Clients : idx[c] = i => pc[c] = "stream")

\* "HALF_OPEN: allows a single probe; success -> CLOSED, failure -> OPEN"
\* (architecture.md:89): a half-open breaker does not stay so.
ProbeDecides == upState = "HALF_OPEN" ~> upState # "HALF_OPEN"

\* The same sentence as a safety property: a half-open breaker waits for the
\* outcome of a request that it has admitted and that has not ended.
Probing == Labels \ {"idle", "admit", "sleep"}

HalfOpenIsProbing ==
  upState = "HALF_OPEN" => \E c \in Clients : pc[c] \in Probing

==============================================================================
