------------------------------- MODULE Circuit -------------------------------
(***************************************************************************)
(* What callers may rely on from the upstream circuit breaker, whatever    *)
(* makes it trip: while it is tripped nobody is admitted until the lockout *)
(* has run out, then exactly one caller is, and nobody else until an       *)
(* outcome is recorded.  How failures are counted is not visible here.     *)
(***************************************************************************)
EXTENDS Naturals

CONSTANT Lockout            \* how long a tripped circuit admits nobody

VARIABLES gate,             \* "all": admit everybody; "trial": one caller,
                            \* once the lockout is over; "shut": nobody
          lockout           \* what is left of the lockout

circuitVars == <<gate, lockout>>

Init == gate = "all" /\ lockout = 0

AdmitAny == gate = "all" /\ UNCHANGED circuitVars

AdmitTrial ==
  /\ gate = "trial" /\ lockout = 0
  /\ gate' = "shut"
  /\ UNCHANGED lockout

\* A failure trips an open gate at the breaker's discretion, and always the
\* one that is waiting for the outcome of its trial.
Bad ==
  /\ gate \in {"all", "shut"}
  /\ gate' = "trial"
  /\ lockout' = Lockout

Good == gate' = "all" /\ lockout' = 0

Elapse ==
  /\ gate = "trial" /\ lockout > 0
  /\ lockout' = lockout - 1
  /\ UNCHANGED gate

Next == AdmitAny \/ AdmitTrial \/ Bad \/ Good \/ Elapse

Spec == Init /\ [][Next]_circuitVars

==============================================================================
