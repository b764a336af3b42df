-------------------------- MODULE BoundWorkContract --------------------------
(***************************************************************************)
(* What one row of bound work promises to the product that filed it,       *)
(* whatever the engine, the workers and the sweeps do: at most MaxAttempts *)
(* attempts begin, success follows the effect, a retry is scheduled only   *)
(* while an attempt is left, and a terminal state is final.                *)
(***************************************************************************)
EXTENDS Naturals

CONSTANT MaxAttempts

VARIABLES
  state,      \* DurableState of the row
  attempts,   \* attempts begun
  effect      \* the work's effect has been performed at least once

vars == <<state, attempts, effect>>

Ended == {"succeeded", "failed", "cancelled"}

Init == state = "pending" /\ attempts = 0 /\ effect = FALSE

Begin ==
  /\ state \in {"pending", "running"}
  /\ attempts < MaxAttempts
  /\ state' = "running"
  /\ attempts' = attempts + 1
  /\ UNCHANGED effect

Perform == attempts > 0 /\ effect' = TRUE /\ UNCHANGED <<state, attempts>>

Retry ==
  /\ state = "running"
  /\ attempts < MaxAttempts
  /\ state' = "pending"
  /\ UNCHANGED <<attempts, effect>>

Settle(to) == state' = to /\ UNCHANGED <<attempts, effect>>

Succeed == state = "running" /\ effect /\ Settle("succeeded")
Fail    == state = "running" /\ Settle("failed")
Cancel  == state \notin Ended /\ Settle("cancelled")

Next == Begin \/ Perform \/ Retry \/ Succeed \/ Fail \/ Cancel

Spec == Init /\ [][Next]_vars
=============================================================================
