---------------------------- MODULE DurableCounter -----------------------------
(***************************************************************************)
(* What a persisted counter promises its readers: a value that was told is *)
(* never taken back, and no crash or failed write makes it jump.           *)
(***************************************************************************)
EXTENDS Naturals

VARIABLE known    \* the last value told: to a caller, or by a restart

Init == known = 0
Tell == known' = known + 1

Spec == Init /\ [][Tell]_known
================================================================================
