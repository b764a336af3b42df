-------------------------- MODULE AgentRunContract --------------------------
(***************************************************************************)
(* What an AgentRun promises to the rest of the product, with workers,     *)
(* queue, input requests and API calls abstracted away: the lifecycle of   *)
(* docs/reference/lifecycles.md as domain.py and the guards of service.py  *)
(* enforce it, the cancellation request, and whether the run holds a share *)
(* of its organization's execution capacity.                               *)
(***************************************************************************)

VARIABLES
  lifecycle,               \* AgentRunModel.lifecycle
  cancellationRequested,   \* AgentRunModel.cancellation_requested_at is set
  holdsCapacity            \* the run's reservation is active

vars == <<lifecycle, cancellationRequested, holdsCapacity>>

Waiting  == {"waiting_for_input", "waiting_for_approval", "waiting_for_tool"}
Terminal == {"completed", "failed", "cancelled"}
Open     == {"queued", "running"} \union Waiting

Init ==
  /\ lifecycle = "queued"
  /\ cancellationRequested = FALSE
  /\ holdsCapacity = TRUE

(* Nothing but cancellation happens to a run whose cancellation has been   *)
(* requested: no start, no wait, no resume, no result and no failure.      *)
Move(from, to, holds) ==
  /\ lifecycle \in from
  /\ ~cancellationRequested
  /\ lifecycle' \in to
  /\ holdsCapacity' = holds
  /\ UNCHANGED cancellationRequested

Start  == Move({"queued"}, {"running"}, TRUE)
Wait   == Move({"running"}, Waiting, FALSE)
Resume == Move(Waiting, {"running"}, TRUE)
Finish == Move({"running"}, {"completed"}, FALSE)
Fail   == Move(Open, {"failed"}, FALSE)

RequestCancellation ==
  /\ lifecycle \in Open
  /\ ~cancellationRequested
  /\ cancellationRequested' = TRUE
  /\ UNCHANGED <<lifecycle, holdsCapacity>>

Cancel ==
  /\ lifecycle \in Open
  /\ lifecycle' = "cancelled"
  /\ cancellationRequested' = TRUE
  /\ holdsCapacity' = FALSE

Next == Start \/ Wait \/ Resume \/ Finish \/ Fail \/ RequestCancellation \/ Cancel

Spec == Init /\ [][Next]_vars
=============================================================================
