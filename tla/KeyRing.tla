------------------------------- MODULE KeyRing -------------------------------
(***************************************************************************)
(* What the users of a provider's key pool may rely on: an ordered list of *)
(* keys, each with the rest it still has to take and its own retired flag; *)
(* whoever asks gets a key that is neither resting nor retired, whichever, *)
(* and is turned away only when there is none.  A rest is only ever        *)
(* extended, a retired key never returns, and removing one key leaves the  *)
(* others as they were.                                                    *)
(***************************************************************************)
EXTENDS Integers, SequencesExt

CONSTANTS KeyIds, Durations

VARIABLES ring,             \* the keys in order: key, rest and retired
          given             \* the answer to the latest request for a key

ringVars == <<ring, given>>

Nobody == [index |-> 0]

Available(i) == ~ring[i].retired /\ ring[i].rest = 0

RingInit ==
  /\ ring \in Seq([key : KeyIds, rest : {0}, retired : {FALSE}])
  /\ given = Nobody

Give ==
  /\ \E i \in DOMAIN ring :
       Available(i) /\ given' = [index |-> i, key |-> ring[i].key]
  /\ UNCHANGED ring

GiveNobody ==
  /\ \A i \in DOMAIN ring : ~Available(i)
  /\ given' = Nobody
  /\ UNCHANGED ring

Rest(i, d) ==
  /\ ring' = [ring EXCEPT ![i].rest = IF @ < d THEN d ELSE @]
  /\ UNCHANGED given

Retire(i) == ring' = [ring EXCEPT ![i].retired = TRUE] /\ UNCHANGED given

Add(k) ==
  /\ ring' = Append(ring, [key |-> k, rest |-> 0, retired |-> FALSE])
  /\ UNCHANGED given

Drop(i) ==
  /\ ring' = RemoveAt(ring, i)
  /\ UNCHANGED given

Elapse ==
  /\ ring' = [i \in DOMAIN ring |->
                [ring[i] EXCEPT !.rest = IF @ > 0 THEN @ - 1 ELSE 0]]
  /\ UNCHANGED given

RingNext ==
  \/ Give \/ GiveNobody \/ Elapse
  \/ \E k \in KeyIds : Add(k)
  \/ \E i \in DOMAIN ring : Retire(i) \/ Drop(i) \/ \E d \in Durations : Rest(i, d)

RingSpec == RingInit /\ [][RingNext]_ringVars

==============================================================================
