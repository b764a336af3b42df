----------------------------- MODULE MCSchedule -----------------------------
EXTENDS Schedule, TLC

CONSTANTS d1, d2

(* Three occurrences, owed one by one or at once, and a rule that ends     *)
(* before its last candidate.                                              *)
MCDefinitions ==
  { [rule |-> [times |-> {1, 2, 3}, ends |-> 4], policy |-> "fire_all"],
    [rule |-> [times |-> {1, 2, 3}, ends |-> 2], policy |-> "coalesce"] }
=============================================================================
