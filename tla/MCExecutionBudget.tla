--------------------------- MODULE MCExecutionBudget ---------------------------
EXTENDS ExecutionBudget, TLC

Amount(tokens, time, cost) ==
  [d \in Dimensions |-> CASE d = "tokens" -> tokens [] d = "time" -> time [] d = "cost" -> cost]

(* Room for two runs and not for three; and a policy with larger single    *)
(* envelopes, of which it admits one, at another rate.                     *)
Wide  == [runs |-> 2, max |-> Amount(4, 2, 4), each |-> Amount(2, 1, 1), rate |-> 1]
Large == [runs |-> 3, max |-> Amount(3, 3, 4), each |-> Amount(3, 2, 3), rate |-> 2]

MCPolicies == {Wide, Large}

Symmetry == Permutations(Runs)
=============================================================================
