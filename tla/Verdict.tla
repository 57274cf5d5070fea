------------------------------ MODULE Verdict ------------------------------
(***************************************************************************)
(* What the verifier promises about its verdict (enum Verification in      *)
(* src/verify.rs): every required rule comes before the upgradeable ones,  *)
(* whatever the order in which inputs and rules are looked at, and a       *)
(* verdict is final.  A proof beyond the bound on verification effort is   *)
(* inconclusive whatever rules it breaks.                                  *)
(***************************************************************************)
VARIABLES
    bounded,    \* whether the proof is within the bound
    broken,     \* the required rules that the proof breaks
    reserved,   \* the upgradeable rules that it relies on
    verdict     \* "pending" until the verifier returns

proof == <<bounded, broken, reserved>>
vars == <<proof, verdict>>

Init == verdict = "pending"

Outcome ==
    IF ~bounded THEN "Inconclusive"
    ELSE IF broken # {} THEN "Invalid"
    ELSE IF reserved # {} THEN "Inconclusive"
    ELSE "Valid"

Decide ==
    /\ verdict = "pending"
    /\ verdict' = Outcome
    /\ UNCHANGED proof

Next == Decide

Safety == Init /\ [][Next]_vars
Spec == Safety /\ WF_vars(Decide)
=============================================================================
