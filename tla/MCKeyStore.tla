----------------------------- MODULE MCKeyStore ------------------------------
\* Instances of the key store for model checking, with at most two keys.
EXTENDS KeyStore, TLC

Symmetry == Permutations(KeyIds) \cup Permutations(Admins)

AllListings ==
  UNION {[1..n -> [key : Strings, disabled : BOOLEAN]] : n \in 0..2}

\* The commands add one key, once and for all.
OneKey == {<<[key |-> k, disabled |-> FALSE]>> : k \in Strings}
==============================================================================
