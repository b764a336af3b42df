-------------------------- MODULE OutboundAttempt --------------------------
(***************************************************************************)
(* The shared boundary of external effects: one row for each effect that   *)
(* may cost or reach somebody, committed before the provider is called, so *)
(* that a handler that is replayed, or overtaken by its successor, never   *)
(* sends again what may have arrived.                                      *)
(*                                                                         *)
(* Each operator on `out' is one transaction holding the row's lock.  The  *)
(* provider is external: of each effect the model keeps how often it may   *)
(* have taken place.                                                       *)
(***************************************************************************)
EXTENDS Naturals

CONSTANT Effects  \* owners of an effect, each with one row

VARIABLES
  out,     \* state of the outbound row of each effect
  reached  \* how often the provider may have performed it, at most two

OutStates  == {"prepared", "in_flight", "succeeded", "retryable", "terminal", "unknown"}
FinalStates == {"succeeded", "terminal"}
Outcomes   == {"succeeded", "retryable", "terminal", "unknown"}

OutboundInit ==
  /\ out = [e \in Effects |-> "prepared"]
  /\ reached = [e \in Effects |-> 0]

OutboundTypeOK ==
  /\ out \in [Effects -> OutStates]
  /\ reached \in [Effects -> 0..2]

(* prepare inserts the row unless it exists.  The model starts with the    *)
(* rows in place: until its first send nobody but the sender reads one.    *)
-----------------------------------------------------------------------------
(* _authorize_or_recover: a row found in flight belongs to a send whose    *)
(* end was not recorded, and is not sent again.                            *)

(* Mutant: a row in flight is sent again.                                  *)
SendableUnlessDone(e) == out[e] \notin FinalStates \union {"unknown"}

Sendable(e) == out[e] \in {"prepared", "retryable"}

BeginSend(e) ==
  /\ Sendable(e)
  /\ out' = [out EXCEPT ![e] = "in_flight"]
  /\ reached' = reached

Recovered(e) == [out EXCEPT ![e] = IF @ = "in_flight" THEN "unknown" ELSE @]

RecoverSend(e) ==
  /\ ~Sendable(e)
  /\ out' = Recovered(e)
  /\ reached' = reached

(* The provider refuses an effect for good or for now, or performs it, and *)
(* even then its answer may get lost.  That it did not perform what it did *)
(* not answer is, to the program, a provider that never calls back.        *)
ProviderPerforms(e, answer) ==
  /\ answer \in {"succeeded", "unknown"}
  /\ reached' = [reached EXCEPT ![e] = IF @ < 2 THEN @ + 1 ELSE @]
  /\ out' = out

ProviderDeclines(e, answer) ==
  /\ answer \in {"terminal", "retryable"}
  /\ UNCHANGED <<out, reached>>

(* record_outcome; from a row that is neither in flight nor final it raises*)
(* and _recover_unknown_if_in_flight leaves the row as it found it.        *)
RecordOutcome(e, answer) ==
  /\ out' = [out EXCEPT ![e] = IF @ = "in_flight" THEN answer ELSE @]
  /\ reached' = reached

(* An authenticated callback of the provider proves that the effect took   *)
(* place.                                                                  *)
Reconcile(e) ==
  /\ out[e] \in {"in_flight", "unknown"}
  /\ out' = [out EXCEPT ![e] = "succeeded"]
  /\ reached' = reached

-----------------------------------------------------------------------------
(* However handlers crash, stall and replay each other, the provider is    *)
(* never asked to perform an effect that may have been performed already.  *)
AtMostOncePerEffect == \A e \in Effects : reached[e] <= 1
=============================================================================
