--------------------------- MODULE CommitConfirmed ---------------------------
(***************************************************************************)
(* What a connectivity-safe change promises, apart from how it is made: a  *)
(* value is tried over the current one while the current one is kept as    *)
(* the fallback; then the new one is kept, or the fallback comes back.     *)
(* Nothing else ever changes the value, and a trial does not last.         *)
(* The contract is the one stated over DefaultKeepTimeout and KeepSession  *)
(* in internal/backup/staging.go.                                          *)
(***************************************************************************)
CONSTANTS Values, NoFallback

VARIABLES current, fallback

Init == current \in Values /\ fallback = NoFallback

Try ==
    /\ fallback = NoFallback
    /\ fallback' = current
    /\ current' \in Values

Keep ==
    /\ fallback # NoFallback
    /\ fallback' = NoFallback
    /\ UNCHANGED current

Revert ==
    /\ fallback # NoFallback
    /\ current' = fallback
    /\ fallback' = NoFallback

Next == Try \/ Keep \/ Revert

Spec == Init /\ [][Next]_<<current, fallback>>

(* A trial ends.                                                           *)
TrialEnds == fallback # NoFallback ~> fallback = NoFallback
=============================================================================
