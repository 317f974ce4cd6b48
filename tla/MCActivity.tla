------------------------------ MODULE MCActivity ------------------------------
\* Instances of the activity records for model checking.  Requests are alike, and
\* so are listings; no property tells them apart.
EXTENDS Activity, TLC

Symmetry == Permutations(Requests) \cup Permutations(Listings)
==============================================================================
