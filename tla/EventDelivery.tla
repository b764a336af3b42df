--------------------------- MODULE EventDelivery ---------------------------
(***************************************************************************)
(* The durable event outbox (events/durable): a fact is filed, with one    *)
(* delivery for its consumer, in the transaction that makes it true; a     *)
(* task is spawned and bound to the delivery afterwards, and executes the  *)
(* consumer until a receipt is committed or the delivery is given up.      *)
(*                                                                         *)
(* A delivery is identified with its task.  The consumer's own changes are *)
(* conjoined by the module that extends this one: Consume is the           *)
(* transaction both commit in.                                             *)
(***************************************************************************)
EXTENDS AbsurdPool

CONSTANT Deliveries  \* the delivery of each fact's one consumer

ASSUME DeliveriesAssumption == Deliveries \subseteq Tasks

VARIABLES
  delivery,  \* the delivery rows
  receipt,   \* the inbox receipts
  applied    \* history: how often the consumer's changes were committed

deliveryVars == <<delivery, receipt, applied>>

DeliverySettled == {"succeeded", "dead_letter"}

DeliveryRow ==
  [state : {"none", "pending", "running"} \union DeliverySettled,
   bound : BOOLEAN, attempts : 0..MaxTries]

DeliverySteps == {"begin", "consume", "failing", "burying"}

DeliveryTypeOK ==
  /\ delivery \in [Deliveries -> DeliveryRow]
  /\ receipt \in SUBSET Deliveries
  /\ applied \in [Deliveries -> 0..2]

DeliveryInit ==
  /\ delivery = [d \in Deliveries |-> [state |-> "none", bound |-> FALSE, attempts |-> 0]]
  /\ receipt = {}
  /\ applied = [d \in Deliveries |-> 0]

-----------------------------------------------------------------------------
(* file: under the advisory lock of the event's identity, the second filing*)
(* of an event finds the first one and leaves it alone.                    *)
Filed(d) ==
  [delivery EXCEPT ![d].state = IF @ = "none" THEN "pending" ELSE @]

(* The producer's nudge, or the sweep of unbound deliveries: spawn, then   *)
(* bind in a transaction of its own.                                       *)
SpawnDelivery(d) ==
  /\ delivery[d].state = "pending"
  /\ ~delivery[d].bound
  /\ task[d].state = "none"
  /\ task' = Spawned(d)
  /\ UNCHANGED <<lane, upsets, deliveryVars>>

BindDelivery(d) ==
  /\ delivery[d].state = "pending"
  /\ ~delivery[d].bound
  /\ task[d].state # "none"
  /\ delivery' = [delivery EXCEPT ![d].bound = TRUE]
  /\ UNCHANGED <<pool, receipt, applied>>

ClaimDelivery(l, d) ==
  /\ Claim(l, d, "begin")
  /\ UNCHANGED deliveryVars

-----------------------------------------------------------------------------
(* EventDeliveryWorkflow.execute *)

BeginSettledDelivery(l) ==
  /\ At(l, "begin")
  /\ delivery[Job(l)].state \in DeliverySettled
  /\ Returns(l)
  /\ UNCHANGED deliveryVars

(* EventDeliveryBindingPending *)
BeginUnboundDelivery(l) ==
  /\ At(l, "begin")
  /\ ~delivery[Job(l)].bound
  /\ GivesBack(l) /\ Upset
  /\ UNCHANGED deliveryVars

(* begin_attempt; without a try left for its attempts the delivery is given*)
(* up, which the handler returns.                                          *)
BeginDelivery(l) ==
  LET d == Job(l)
      spent == delivery[d].attempts >= MaxTries
  IN /\ At(l, "begin")
     /\ delivery[d].state \in {"pending", "running"}
     /\ delivery[d].bound
     /\ delivery' = [delivery EXCEPT
          ![d].state = IF spent THEN "dead_letter" ELSE "running",
          ![d].attempts = IF spent THEN @ ELSE @ + 1]
     /\ IF spent THEN Returns(l) ELSE Goto(l, "consume")
     /\ UNCHANGED <<receipt, applied>>

(* consume finds the receipt of another attempt.                           *)
ConsumeAgain(l) ==
  /\ At(l, "consume")
  /\ Job(l) \in receipt
  /\ Returns(l)
  /\ UNCHANGED deliveryVars

(* consume raises: the delivery was given up, or the consumer fails.       *)
ConsumeConflicts(l) ==
  /\ At(l, "consume")
  /\ Job(l) \notin receipt
  /\ delivery[Job(l)].state # "running"
  /\ Goto(l, "failing")
  /\ UNCHANGED deliveryVars

ConsumeFails(l) ==
  /\ At(l, "consume")
  /\ Job(l) \notin receipt
  /\ delivery[Job(l)].state = "running"
  /\ Trips(l, "failing")
  /\ UNCHANGED deliveryVars

(* The consumer rejects the fact for good (PermanentEventConsumerError).   *)
ConsumeRejects(l) ==
  /\ At(l, "consume")
  /\ Job(l) \notin receipt
  /\ delivery[Job(l)].state = "running"
  /\ Trips(l, "burying")
  /\ UNCHANGED deliveryVars

(* Mutant: neither the receipt nor the state of the delivery is looked at. *)
ConsumableWheneverBegun(d) == delivery[d].state # "none"

Consumable(d) == d \notin receipt /\ delivery[d].state = "running"

Consume(l) ==
  LET d == Job(l) IN
    /\ At(l, "consume")
    /\ Consumable(d)
    /\ applied' = [applied EXCEPT ![d] = IF @ < 2 THEN @ + 1 ELSE @]
    /\ receipt' = receipt \union {d}
    /\ delivery' = [delivery EXCEPT ![d].state = "succeeded"]
    /\ Returns(l)

(* record_failure: the last attempt, and a rejection, give the delivery up;*)
(* what is settled stays so.                                               *)
RecordFailure(l) ==
  LET d == Job(l)
      last == At(l, "burying") \/ delivery[d].attempts >= MaxTries
  IN /\ At(l, "failing") \/ At(l, "burying")
     /\ delivery' = [delivery EXCEPT
          ![d].state = IF @ = "running" /\ last THEN "dead_letter" ELSE @]
     /\ IF At(l, "burying") THEN Returns(l) ELSE Raises(l)
     /\ UNCHANGED <<receipt, applied>>

(* The heartbeat around the handler finds the claim lost and stops it.     *)
DeliveryStopped(l) ==
  /\ lane[l].pc \in DeliverySteps
  /\ ~lane[l].holds
  /\ Raises(l)
  /\ UNCHANGED deliveryVars

-----------------------------------------------------------------------------
(* What the consumer may rely on. *)

Fate(d) ==
  CASE delivery[d].state = "none"        -> "unfiled"
    [] delivery[d].state = "succeeded"   -> "applied"
    [] delivery[d].state = "dead_letter" -> "dead"
    [] OTHER                             -> "owed"

Contract == INSTANCE EventContract WITH fate <- [d \in Deliveries |-> Fate(d)]
=============================================================================
