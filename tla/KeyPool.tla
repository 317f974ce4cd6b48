------------------------------- MODULE KeyPool -------------------------------
(***************************************************************************)
(* KeyPool of internal/keypool/keypool.go.  The pool keeps its keys in     *)
(* parallel slices; every method holds p.mu from start to end, so each is  *)
(* one step.  Indices count from 1 here, and 0 is the code's -1.           *)
(*                                                                         *)
(* Time: cooldowns[i] is what is left of key i's cooldown, rounded up to a *)
(* tick; time.Now().After(p.cooldowns[i]) is cooldowns[i] = 0.             *)
(* The names, lastUsed and requestHistory slices are only reported, never  *)
(* read by a decision, and are left out with IncrementRequestCount.        *)
(***************************************************************************)
EXTENDS Integers, SequencesExt

CONSTANTS KeyIds,           \* the key strings
          CounterPeriod     \* the uint64 counter is kept modulo a multiple of
                            \* every length the pool has: counter % n, its
                            \* only use, is the same

ASSUME PeriodAssumption == CounterPeriod \in Nat \ {0}

VARIABLES counter, keys, cooldowns, disabled

poolVars == <<counter, keys, cooldowns, disabled>>

NewKeyPool(ks) ==
  /\ counter = 0
  /\ keys = ks
  /\ cooldowns = [i \in DOMAIN ks |-> 0]
  /\ disabled = [i \in DOMAIN ks |-> FALSE]

\* Mutant: the disabled flag is not asked for.
ReadyAfterDisable(i) == cooldowns[i] = 0

Ready(i) == ~disabled[i] /\ cooldowns[i] = 0

\* How far the scan of Next, which starts at counter % n, goes to reach i.
Distance(i) == (i - 1 - (counter % Len(keys))) % Len(keys)

\* The index Next returns: the first ready key on the scan, 0 when none is.
FirstReady(i) ==
  IF i = 0 THEN \A j \in DOMAIN keys : ~Ready(j)
  ELSE /\ Ready(i)
       /\ \A j \in DOMAIN keys : Ready(j) => Distance(i) <= Distance(j)

\* Mutant: the counter moves on only when the scan had to skip a key.
NextKeySticky(i) ==
  /\ i \in 0..Len(keys)
  /\ FirstReady(i)
  /\ counter' = IF i = 0 \/ Distance(i) = 0 THEN counter
                ELSE (counter + 1) % CounterPeriod
  /\ UNCHANGED <<keys, cooldowns, disabled>>

\* Next(): the counter moves on whether a key was found or not.
NextKey(i) ==
  /\ i \in 0..Len(keys)
  /\ FirstReady(i)
  /\ counter' = IF keys = <<>> THEN counter ELSE (counter + 1) % CounterPeriod
  /\ UNCHANGED <<keys, cooldowns, disabled>>

\* The keys that ActiveCount counts; its callers ask whether there are any.
ActiveKeys == {i \in DOMAIN keys : ~disabled[i]}

\* Ticks until some key that is not disabled is ready; -1 when all are disabled.
TimeUntilAvailable ==
  LET waits == {cooldowns[i] : i \in ActiveKeys}
  IN  IF waits = {} THEN -1 ELSE Min(waits)

\* The methods that take an index return an error when there is no such key.
OutOfRange(i) == i \notin DOMAIN keys /\ UNCHANGED poolVars

\* A cooldown never ends earlier than one that is already running.
Cooldown(i, d) ==
  \/ OutOfRange(i)
  \/ /\ i \in DOMAIN keys
     /\ cooldowns' = [cooldowns EXCEPT ![i] = IF @ < d THEN d ELSE @]
     /\ UNCHANGED <<counter, keys, disabled>>

Disable(i) ==
  \/ OutOfRange(i)
  \/ /\ i \in DOMAIN keys
     /\ disabled' = [disabled EXCEPT ![i] = TRUE]
     /\ UNCHANGED <<counter, keys, cooldowns>>

\* Mutant: one of the parallel slices is not extended.
AddKeyUnflagged(k) ==
  /\ keys' = Append(keys, k)
  /\ cooldowns' = Append(cooldowns, 0)
  /\ UNCHANGED <<counter, disabled>>

AddKey(k) ==
  /\ keys' = Append(keys, k)
  /\ cooldowns' = Append(cooldowns, 0)
  /\ disabled' = Append(disabled, FALSE)
  /\ UNCHANGED counter

\* Mutant: one of the parallel slices is cut at its end.
RemoveKeyMisaligned(i) ==
  \/ OutOfRange(i)
  \/ /\ i \in DOMAIN keys
     /\ keys' = RemoveAt(keys, i)
     /\ cooldowns' = RemoveAt(cooldowns, i)
     /\ disabled' = RemoveAt(disabled, Len(disabled))
     /\ UNCHANGED counter

RemoveKey(i) ==
  \/ OutOfRange(i)
  \/ /\ i \in DOMAIN keys
     /\ keys' = RemoveAt(keys, i)
     /\ cooldowns' = RemoveAt(cooldowns, i)
     /\ disabled' = RemoveAt(disabled, i)
     /\ UNCHANGED counter

\* One tick of the clock.
Elapse ==
  /\ cooldowns' = [i \in DOMAIN cooldowns |->
                     IF cooldowns[i] > 0 THEN cooldowns[i] - 1 ELSE 0]
  /\ UNCHANGED <<counter, keys, disabled>>

------------------------------------------------------------------------------
TypeOK ==
  /\ counter \in 0..(CounterPeriod - 1)
  /\ keys \in Seq(KeyIds)
  /\ cooldowns \in Seq(Nat) /\ Len(cooldowns) = Len(keys)
  /\ disabled \in Seq(BOOLEAN) /\ Len(disabled) = Len(keys)

==============================================================================
