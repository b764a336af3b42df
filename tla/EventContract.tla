--------------------------- MODULE EventContract ---------------------------
(***************************************************************************)
(* What the durable event outbox promises the consumer of a fact: from the *)
(* transaction that files the fact on, its delivery is owed; the consumer's*)
(* changes are committed at most once, and never after the delivery was    *)
(* given up.                                                               *)
(***************************************************************************)
CONSTANT Deliveries

VARIABLES
  fate,    \* what has become of each delivery
  applied  \* how often the consumer's changes were committed

vars == <<fate, applied>>

TypeOK ==
  /\ fate \in [Deliveries -> {"unfiled", "owed", "applied", "dead"}]
  /\ applied \in [Deliveries -> {0, 1}]

Init ==
  /\ fate = [d \in Deliveries |-> "unfiled"]
  /\ applied = [d \in Deliveries |-> 0]

File(d) ==
  /\ fate[d] = "unfiled"
  /\ fate' = [fate EXCEPT ![d] = "owed"]
  /\ UNCHANGED applied

Apply(d) ==
  /\ fate[d] = "owed"
  /\ fate' = [fate EXCEPT ![d] = "applied"]
  /\ applied' = [applied EXCEPT ![d] = 1]

Bury(d) ==
  /\ fate[d] = "owed"
  /\ fate' = [fate EXCEPT ![d] = "dead"]
  /\ UNCHANGED applied

Next == \E d \in Deliveries : File(d) \/ Apply(d) \/ Bury(d)

Spec == Init /\ [][Next]_vars
=============================================================================
