------------------------------ MODULE BoundWork ------------------------------
(***************************************************************************)
(* One row of bound work (absurd_work): knowledge ingestion, memory        *)
(* formation, reindexing, recordings and campaign attempts are executed    *)
(* this way.  The row is filed in the producer's transaction; a task is    *)
(* spawned and bound to it afterwards; worker attempts execute it; the     *)
(* product may cancel it.                                                  *)
(*                                                                         *)
(* Each action on `row' is one transaction holding the row's lock.  The    *)
(* worker is KnowledgeIngestionWorkflow, which loads what it needs in the  *)
(* transaction that begins the attempt; the others differ only in doing    *)
(* that in a second transaction, where a failure is like one of the step.  *)
(***************************************************************************)
EXTENDS Naturals, FiniteSets

CONSTANTS
  Workers,      \* worker lanes that can claim the task
  Spawners,     \* calls of spawn_bound_work: the producer's, the sweeps'
  MaxAttempts,  \* max_attempts of the row and of its task
  Crashes,      \* TRUE: a process may die between any two steps
  Stalls,       \* TRUE: a worker may outlive the claim it lost
  LoadFailures  \* TRUE: loading may fail while an attempt begins

ASSUME BoundWorkAssumption ==
  /\ IsFiniteSet(Workers)
  /\ MaxAttempts \in Nat \ {0}
  /\ Crashes \in BOOLEAN
  /\ Stalls \in BOOLEAN
  /\ LoadFailures \in BOOLEAN

VARIABLES
  row,         \* the product row
  task,        \* the Absurd task under the row's idempotency key
  checkpoint,  \* the task has the result of its step
  effect,      \* the step's operation has been performed
  worker,      \* what each worker lane is doing
  spawner,     \* where each call of spawn_bound_work stands
  canceller,   \* where cancel_bound_work stands
  lost         \* history: how engine attempts ended without a record on the row

vars == <<row, task, checkpoint, effect, worker, spawner, canceller, lost>>
engine  == <<task, checkpoint>>
clients == <<spawner, canceller>>

-----------------------------------------------------------------------------
(* Values *)

Terminal   == {"succeeded", "failed", "cancelled"}
TaskEnded  == {"completed", "failed", "cancelled"}
TaskStates == {"none", "pending", "running", "sleeping"} \union TaskEnded

(* An attempt executes the handler until it has a receipt to return, or an *)
(* exception to report to the engine.                                      *)
Executing == {"claimed", "step", "checkpoint", "project", "failing", "rejecting"}
PCs       == {"idle", "receipt", "cancelling", "reporting"} \union Executing

Row  == [state : {"pending", "running"} \union Terminal,
         bound : BOOLEAN, attempts : 0..MaxAttempts]
Task == [state : TaskStates, attempt : 1..MaxAttempts]
Lane == [pc : PCs, token : 0..MaxAttempts]
Idle == [pc |-> "idle", token |-> 0]

TypeOK ==
  /\ row \in Row
  /\ task \in Task
  /\ checkpoint \in BOOLEAN
  /\ effect \in BOOLEAN
  /\ worker \in [Workers -> Lane]
  /\ spawner \in [Spawners -> {"idle", "spawn", "bind", "cancel"}]
  /\ canceller \in {"idle", "signal"}
  /\ lost \subseteq {"claim", "binding", "conflict"}

Init ==
  /\ row = [state |-> "pending", bound |-> FALSE, attempts |-> 0]
  /\ task = [state |-> "none", attempt |-> 1]
  /\ checkpoint = FALSE
  /\ effect = FALSE
  /\ worker = [w \in Workers |-> Idle]
  /\ spawner = [s \in Spawners |-> "idle"]
  /\ canceller = "idle"
  /\ lost = {}

-----------------------------------------------------------------------------
(* Absurd *)

Holds(w) == task.state = "running" /\ task.attempt = worker[w].token

Claimable == task.state \in {"pending", "sleeping"}     \* the retry delay ends

(* Mutant: the attempt that failed is not counted.                         *)
TaskFailedUncounted == [task EXCEPT !.state = "sleeping"]

(* Mutant: one attempt too many.                                           *)
TaskFailedLate ==
  IF task.attempt <= MaxAttempts
  THEN [state |-> "sleeping", attempt |-> task.attempt + 1]
  ELSE [task EXCEPT !.state = "failed"]

TaskFailed ==
  IF task.attempt < MaxAttempts
  THEN [state |-> "sleeping", attempt |-> task.attempt + 1]
  ELSE [task EXCEPT !.state = "failed"]

TaskCancelled ==
  IF task.state \in {"pending", "running", "sleeping"}
  THEN [task EXCEPT !.state = "cancelled"]
  ELSE task

(* The claim of a dead worker runs out, or that of a stalled one.          *)
ClaimExpires ==
  /\ task.state = "running"
  /\ Stalls \/ \A w \in Workers : worker[w].pc = "idle" \/ worker[w].token # task.attempt
  /\ task' = TaskFailed
  /\ lost' = lost \union {"claim"}
  /\ UNCHANGED <<row, checkpoint, effect, worker, clients>>

-----------------------------------------------------------------------------
(* One attempt of the workflow. *)

At(w, pc) == worker[w].pc = pc

Goto(w, pc) == worker' = [worker EXCEPT ![w].pc = pc]

Leave(w) == worker' = [worker EXCEPT ![w] = Idle]

ClaimTask(w) ==
  /\ At(w, "idle")
  /\ Claimable
  /\ task' = [task EXCEPT !.state = "running"]
  /\ worker' = [worker EXCEPT ![w] = [pc |-> "claimed", token |-> task.attempt]]
  /\ UNCHANGED <<row, checkpoint, effect, clients, lost>>

(* begin_attempt, and the loads in its transaction.                        *)
BeginSettled(w) ==
  /\ At(w, "claimed")
  /\ row.state \in Terminal
  /\ Goto(w, "receipt")
  /\ UNCHANGED <<row, engine, effect, clients, lost>>

BeginUnbound(w) ==
  /\ At(w, "claimed")
  /\ row.state \notin Terminal
  /\ ~row.bound
  /\ Goto(w, "reporting")
  /\ lost' = lost \union {"binding"}
  /\ UNCHANGED <<row, engine, effect, clients>>

(* Mutant: the attempt does not wait for the binding.                      *)
BeginAttemptEarly(w) ==
  /\ At(w, "claimed")
  /\ row.state \notin Terminal
  /\ row' = [row EXCEPT !.state = "running", !.attempts = @ + 1]
  /\ Goto(w, "step")
  /\ UNCHANGED <<engine, effect, clients, lost>>

BeginAttempt(w) ==
  /\ At(w, "claimed")
  /\ row.state \notin Terminal
  /\ row.bound
  /\ row' = [row EXCEPT !.state = "running", !.attempts = @ + 1]
  /\ Goto(w, "step")
  /\ UNCHANGED <<engine, effect, clients, lost>>

(* A load raises: the transaction, and the attempt begun in it, roll back. *)
LoadFails(w) ==
  /\ LoadFailures
  /\ At(w, "claimed")
  /\ row.state \notin Terminal
  /\ row.bound
  /\ Goto(w, "failing") \/ Goto(w, "rejecting")
  /\ UNCHANGED <<row, engine, effect, clients, lost>>

(* The durable step: a checkpoint of an earlier attempt is its result.     *)
StepReplays(w) ==
  /\ At(w, "step")
  /\ checkpoint
  /\ Goto(w, "project")
  /\ UNCHANGED <<row, engine, effect, clients, lost>>

StepPerforms(w) ==
  /\ At(w, "step")
  /\ ~checkpoint
  /\ effect' = TRUE
  /\ Goto(w, "checkpoint")
  /\ UNCHANGED <<row, engine, clients, lost>>

StepRecords(w) ==
  /\ At(w, "checkpoint")
  /\ Holds(w)
  /\ checkpoint' = TRUE
  /\ Goto(w, "project")
  /\ UNCHANGED <<row, task, effect, clients, lost>>

(* The operation raises, retryably or not; its result may be unusable.     *)
StepFails(w) ==
  /\ \/ At(w, "step") /\ ~checkpoint /\ Goto(w, "failing")
     \/ At(w, "step") /\ ~checkpoint /\ Goto(w, "rejecting")
     \/ At(w, "project") /\ Goto(w, "rejecting")
  /\ UNCHANGED <<row, engine, effect, clients, lost>>

(* A claim was lost: a heartbeat or checkpoint of the step raises, or the  *)
(* heartbeat around the handler stops it, or the engine says CancelledTask.*)
EngineRejects(w) ==
  /\ ~Holds(w)
  /\ \/ worker[w].pc \in {"step", "checkpoint"} /\ Goto(w, "failing")
     \/ worker[w].pc \in Executing /\ Goto(w, "reporting")
     \/ worker[w].pc \in Executing /\ task.state = "cancelled" /\ Goto(w, "cancelling")
  /\ UNCHANGED <<row, engine, effect, clients, lost>>

(* Mutant: the result is projected whatever the row's state.               *)
SucceedRegardless(w) ==
  /\ At(w, "project")
  /\ row' = [row EXCEPT !.state = "succeeded"]
  /\ Goto(w, "receipt")
  /\ UNCHANGED <<engine, effect, clients, lost>>

Succeed(w) ==
  /\ At(w, "project")
  /\ row' = IF row.state = "running" THEN [row EXCEPT !.state = "succeeded"] ELSE row
  /\ Goto(w, "receipt")
  /\ UNCHANGED <<engine, effect, clients, lost>>

(* Mutant: off by one.                                                     *)
ExhaustedLate(w) == At(w, "rejecting") \/ row.attempts > MaxAttempts

(* _handle_failure and AbsurdBoundWorkService.fail                         *)
Exhausted(w) == At(w, "rejecting") \/ row.attempts >= MaxAttempts

Failing(w) == At(w, "failing") \/ At(w, "rejecting")

FailSettled(w) ==
  /\ Failing(w)
  /\ row.state \in Terminal
  /\ Goto(w, "receipt")
  /\ UNCHANGED <<row, engine, effect, clients, lost>>

FailFinally(w) ==
  /\ Failing(w)
  /\ row.state = "running"
  /\ Exhausted(w)
  /\ row' = [row EXCEPT !.state = "failed"]
  /\ Goto(w, "receipt")
  /\ UNCHANGED <<engine, effect, clients, lost>>

(* Mutant: the retry counts as an attempt before it begins.                *)
FailForRetryCounting(w) ==
  /\ Failing(w)
  /\ row.state = "running"
  /\ ~Exhausted(w)
  /\ row' = [row EXCEPT !.state = "pending", !.attempts = @ + 1]
  /\ Goto(w, "reporting")
  /\ UNCHANGED <<engine, effect, clients, lost>>

FailForRetry(w) ==
  /\ Failing(w)
  /\ row.state = "running"
  /\ ~Exhausted(w)
  /\ row' = [row EXCEPT !.state = "pending"]
  /\ Goto(w, "reporting")
  /\ UNCHANGED <<engine, effect, clients, lost>>

(* DurableWorkConflict: nothing is recorded of the failure.                *)
FailConflicts(w) ==
  /\ Failing(w)
  /\ row.state = "pending"
  /\ Goto(w, "reporting")
  /\ lost' = lost \union {"conflict"}
  /\ UNCHANGED <<row, engine, effect, clients>>

CancelRow == row' = IF row.state \in Terminal THEN row ELSE [row EXCEPT !.state = "cancelled"]

CancelledTask(w) ==
  /\ At(w, "cancelling")
  /\ CancelRow
  /\ Goto(w, "reporting")
  /\ UNCHANGED <<engine, effect, clients, lost>>

(* The worker hands the outcome to the engine, which ignores a lost claim. *)
Report(w) ==
  /\ At(w, "reporting")
  /\ task' = IF Holds(w) THEN TaskFailed ELSE task
  /\ Leave(w)
  /\ UNCHANGED <<row, checkpoint, effect, clients, lost>>

Complete(w) ==
  /\ At(w, "receipt")
  /\ task' = IF Holds(w) THEN [task EXCEPT !.state = "completed"] ELSE task
  /\ Leave(w)
  /\ UNCHANGED <<row, checkpoint, effect, clients, lost>>

Crash(w) ==
  /\ Crashes
  /\ ~At(w, "idle")
  /\ Leave(w)
  /\ UNCHANGED <<row, engine, effect, clients, lost>>

Attempt(w) ==
  \/ BeginSettled(w) \/ BeginUnbound(w) \/ BeginAttempt(w) \/ LoadFails(w)
  \/ StepReplays(w) \/ StepPerforms(w) \/ StepRecords(w) \/ StepFails(w)
  \/ EngineRejects(w) \/ Succeed(w)
  \/ FailSettled(w) \/ FailFinally(w) \/ FailForRetry(w) \/ FailConflicts(w)
  \/ CancelledTask(w) \/ Report(w) \/ Complete(w)

-----------------------------------------------------------------------------
(* spawn_bound_work: read the row, spawn idempotently, bind, and cancel    *)
(* the task of a row cancelled in the meantime.                            *)

(* Mutant: a row whose task exists already is not spawned again.           *)
SpawnLoadFresh(s) ==
  /\ spawner[s] = "idle"
  /\ ~row.bound /\ row.state = "pending" /\ task.state = "none"
  /\ spawner' = [spawner EXCEPT ![s] = "spawn"]
  /\ UNCHANGED <<row, engine, effect, worker, canceller, lost>>

SpawnLoad(s) ==
  /\ spawner[s] = "idle"
  /\ ~row.bound
  /\ row.state = "pending"
  /\ spawner' = [spawner EXCEPT ![s] = "spawn"]
  /\ UNCHANGED <<row, engine, effect, worker, canceller, lost>>

SpawnTask(s) ==
  /\ spawner[s] = "spawn"
  /\ task' = IF task.state = "none" THEN [task EXCEPT !.state = "pending"] ELSE task
  /\ spawner' = [spawner EXCEPT ![s] = "bind"]
  /\ UNCHANGED <<row, checkpoint, effect, worker, canceller, lost>>

(* A conflict (the row is neither pending nor cancelled) binds nothing.    *)
BindTask(s) ==
  /\ spawner[s] = "bind"
  /\ row' = [row EXCEPT !.bound = @ \/ row.state \in {"pending", "cancelled"}]
  /\ spawner' = [spawner EXCEPT ![s] = IF row.state = "cancelled" THEN "cancel" ELSE "idle"]
  /\ UNCHANGED <<engine, effect, worker, canceller, lost>>

SpawnCancel(s) ==
  /\ spawner[s] = "cancel"
  /\ task' = TaskCancelled
  /\ spawner' = [spawner EXCEPT ![s] = "idle"]
  /\ UNCHANGED <<row, checkpoint, effect, worker, canceller, lost>>

SpawnCrash(s) ==
  /\ Crashes
  /\ spawner[s] # "idle"
  /\ spawner' = [spawner EXCEPT ![s] = "idle"]
  /\ UNCHANGED <<row, engine, effect, worker, canceller, lost>>

(* cancel_bound_work: commit, then notify the engine of a bound task.      *)
Cancel ==
  /\ canceller = "idle"
  /\ row.state \notin Terminal
  /\ CancelRow
  /\ canceller' = IF row.bound THEN "signal" ELSE "idle"
  /\ UNCHANGED <<engine, effect, worker, spawner, lost>>

CancelSignal ==
  /\ canceller = "signal"
  /\ task' = TaskCancelled
  /\ canceller' = "idle"
  /\ UNCHANGED <<row, checkpoint, effect, worker, spawner, lost>>

CancelCrash ==
  /\ Crashes
  /\ canceller = "signal"
  /\ canceller' = "idle"
  /\ UNCHANGED <<row, engine, effect, worker, spawner, lost>>

-----------------------------------------------------------------------------
Next ==
  \/ \E w \in Workers : ClaimTask(w) \/ Attempt(w) \/ Crash(w)
  \/ \E s \in Spawners : SpawnLoad(s) \/ SpawnTask(s) \/ BindTask(s)
                         \/ SpawnCancel(s) \/ SpawnCrash(s)
  \/ Cancel \/ CancelSignal \/ CancelCrash
  \/ ClaimExpires

Spec == Init /\ [][Next]_vars

(* Worker lanes poll and their claims are swept; recovery sweeps spawn     *)
(* unbound rows for ever, and one of them gets through in the end.         *)
Fairness ==
  /\ \A w \in Workers : WF_vars(ClaimTask(w)) /\ WF_vars(Attempt(w))
  /\ WF_vars(ClaimExpires)
  /\ \A s \in Spawners : /\ WF_vars(SpawnLoad(s))
                         /\ SF_vars(SpawnTask(s))
                         /\ SF_vars(BindTask(s))

LiveSpec == Spec /\ Fairness

-----------------------------------------------------------------------------
(* Properties *)

(* However claims expire, workers stall and failures are recorded twice,   *)
(* the row never counts more attempts than the engine has started.         *)
AttemptsWithinBudget == row.attempts <= task.attempt

(* Until a task is bound the row has not been worked on, so that binding   *)
(* it never conflicts: bind_task accepts only pending and cancelled rows.  *)
UnboundIsUntouched ==
  ~row.bound => row.state \in {"pending", "cancelled"} /\ row.attempts = 0

(* When the task has run out of attempts or completed, the row is settled, *)
(* unless some attempt ended without recording anything on it: its claim   *)
(* expired, the binding was not visible to it, or its failure was refused. *)
Settled == row.state \in Terminal
UnsettledOnlyByLoss == task.state \in {"completed", "failed"} => Settled \/ lost # {}

(* durable_execution.py: "load failure is product state": with no claim    *)
(* lost and the binding visible, the failure settles the row.              *)
LoadFailureIsProductState ==
  task.state \in {"completed", "failed"} => Settled \/ lost \intersect {"claim", "binding"} # {}

(* docs/explanation/events-and-durable-work.md: durable work is attempted  *)
(* until it reaches a terminal state, so the engine is not done before.    *)
AttemptedUntilTerminal == task.state \in {"completed", "failed"} => Settled

(* The row keeps the promise of BoundWorkContract.                         *)
Contract == INSTANCE BoundWorkContract WITH state <- row.state, attempts <- row.attempts
ImplementsContract == Contract!Spec

(* A filed row is bound to a task, or cancelled before, whatever crashes.  *)
PendingIsBound == row.state = "pending" /\ ~row.bound ~> row.bound \/ Settled

(* The task of a settled row ends: no engine work is left for the row, even*)
(* when the notification of its cancellation was lost.                     *)
SettledRowEndsTask ==
  Settled /\ task.state # "none" ~> task.state \in TaskEnded
=============================================================================
