---------------------------- MODULE MCKeyRotation ----------------------------
\* A pool of at most three keys, with cooldowns of one and two ticks and one
\* that a negative Retry-After header puts into the past.
EXTENDS KeyRotation

MCDurations == {-1, 1, 2}
==============================================================================
