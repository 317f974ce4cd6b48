------------------------------- MODULE MCProxy -------------------------------
(***************************************************************************)
(* Instances of the proxy for model checking.  A tick is a minute: with    *)
(* the default settings a cooldown is 1 tick and the cap 2, so that a      *)
(* key's second rate limit in a row exhausts it; the 30 s reset of the     *)
(* upstream breaker is rounded up, the 1 s sleep of a refused request      *)
(* rounded down, so that it may wake before or after the reset.            *)
(***************************************************************************)
EXTENDS ProxyProperties, TLC

ClientSymmetry == Permutations(Clients)
==============================================================================
