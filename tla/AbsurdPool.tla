----------------------------- MODULE AbsurdPool -----------------------------
(***************************************************************************)
(* The Absurd engine as the product workflows see it: spawned tasks,       *)
(* claimed by a pool of worker lanes, retried a bounded number of times.   *)
(* A lane executes the handler of one task.  It may die, which loses the   *)
(* handler, or stall, which loses its claim and leaves the handler running *)
(* beside the next attempt.                                                *)
(*                                                                         *)
(* The engine is an external library: its actions are what the handlers in *)
(* src/ rely on.  The workflows extend this module and conjoin them with   *)
(* what their own transactions do.                                         *)
(***************************************************************************)
EXTENDS Naturals, FiniteSets

CONSTANTS
  Lanes,     \* worker lanes
  Tasks,     \* the tasks under their idempotency keys
  NoTask,    \* what an idle lane works on
  MaxTries,  \* max_attempts of every task
  MaxUpsets  \* bound: how many upsets strike in all: a lane dies or stalls
             \* past its claim, a statement fails, a provider does not
             \* answer, an operator intervenes

ASSUME PoolAssumption ==
  /\ IsFiniteSet(Lanes)
  /\ NoTask \notin Tasks
  /\ MaxTries \in Nat \ {0}
  /\ MaxUpsets \in Nat

VARIABLES
  task,  \* the engine's record of each task
  lane,  \* what each lane is executing
  upsets \* how many upsets have struck

pool == <<task, lane, upsets>>

Idle == [pc |-> "idle", job |-> NoTask, holds |-> FALSE, res |-> "none"]

PoolInit ==
  /\ task = [t \in Tasks |-> [state |-> "none", tries |-> 0]]
  /\ lane = [l \in Lanes |-> Idle]
  /\ upsets = 0

Over == {"ended", "failed", "cancelled"}

TaskRow == [state : {"none", "ready", "running"} \union Over, tries : 0..MaxTries]

LaneRow(pcs, results) ==
  [pc : pcs, job : Tasks \union {NoTask}, holds : BOOLEAN, res : results]

-----------------------------------------------------------------------------
(* Spawning under an idempotency key creates the task once.                *)
Spawned(t) ==
  IF task[t].state = "none" THEN [task EXCEPT ![t].state = "ready"] ELSE task

(* A try that failed is retried later, unless it was the last one.         *)
Failed(t) ==
  [task EXCEPT ![t].state = IF task[t].tries < MaxTries THEN "ready" ELSE "failed"]

Smooth == upsets' = upsets
Upset == upsets < MaxUpsets /\ upsets' = upsets + 1

At(l, pc) == lane[l].pc = pc
Job(l)    == lane[l].job

Claim(l, t, first) ==
  /\ At(l, "idle")
  /\ task[t].state = "ready"
  /\ task' = [task EXCEPT ![t] = [state |-> "running", tries |-> @.tries + 1]]
  /\ lane' = [lane EXCEPT ![l] = [pc |-> first, job |-> t, holds |-> TRUE, res |-> "none"]]
  /\ Smooth

(* The handler goes on, with a result it carries or without one.           *)
Step(l, pc, res) == lane' = [lane EXCEPT ![l].pc = pc, ![l].res = res] /\ task' = task

Goto(l, pc)          == Step(l, pc, "none") /\ Smooth
GotoWith(l, pc, res) == Step(l, pc, res) /\ Smooth

(* A statement of the handler fails, for which pc is the handler's answer. *)
Trips(l, pc) == Step(l, pc, "none") /\ Upset

(* The handler returns, or raises: a lane without the claim is ignored.    *)
Returns(l) ==
  /\ lane' = [lane EXCEPT ![l] = Idle]
  /\ task' = IF lane[l].holds THEN [task EXCEPT ![Job(l)].state = "ended"] ELSE task
  /\ Smooth

GivesBack(l) ==
  /\ lane' = [lane EXCEPT ![l] = Idle]
  /\ task' = IF lane[l].holds THEN Failed(Job(l)) ELSE task

Raises(l) == GivesBack(l) /\ Smooth

Dies(l) ==
  /\ ~At(l, "idle")
  /\ lane' = [lane EXCEPT ![l] = Idle]
  /\ task' = task
  /\ Upset

(* The claim of a dead lane runs out, or that of a stalled one.            *)
ClaimRunsOut(t) ==
  /\ task[t].state = "running"
  /\ task' = Failed(t)
  /\ lane' = [l \in Lanes |-> IF Job(l) = t THEN [lane[l] EXCEPT !.holds = FALSE] ELSE lane[l]]
  /\ IF \E l \in Lanes : Job(l) = t /\ lane[l].holds THEN Upset ELSE Smooth

(* cancel_task: who executes the task learns of it from the engine.        *)
CancelTask(t) ==
  /\ task' = IF task[t].state \in {"ready", "running"}
             THEN [task EXCEPT ![t].state = "cancelled"] ELSE task
  /\ lane' = [l \in Lanes |-> IF Job(l) = t THEN [lane[l] EXCEPT !.holds = FALSE] ELSE lane[l]]
  /\ Smooth
=============================================================================
