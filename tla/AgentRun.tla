------------------------------ MODULE AgentRun ------------------------------
(***************************************************************************)
(* One AgentRun: its product rows (run, input requests, execution          *)
(* reservation), the Absurd task that executes it, the worker attempts,    *)
(* and the API calls and periodic sweeps that touch it.                    *)
(*                                                                         *)
(* Every action on `run' and `requests' is one database transaction; the   *)
(* row lock taken by AgentRunRepository.get(for_update=True) makes it      *)
(* atomic.  Calls to the engine are actions of their own, because the code *)
(* makes them outside the transaction, so that other actors and crashes    *)
(* fall between the two.                                                   *)
(*                                                                         *)
(* Filing (the run row with its active reservation) is Init.  Optimistic   *)
(* state_revision checks only refuse calls, so they are left out: a client *)
(* here may always hold the current revision.                              *)
(***************************************************************************)
EXTENDS Naturals, Sequences

CONSTANTS
  Workers,       \* worker lanes that can claim the task
  Kinds,         \* kinds of input request: "input", "approval"
  MaxRequests,   \* bound: input waits one run may start
  MaxAttempts,   \* DURABLE_MAX_ATTEMPTS
  Stalls,        \* TRUE: a worker may outlive the claim it lost
  ApiCrashes     \* TRUE: an API process may die between commit and engine call

ASSUME AgentRunAssumption ==
  /\ Kinds \subseteq {"input", "approval"}
  /\ MaxRequests \in Nat
  /\ MaxAttempts \in Nat \ {0}
  /\ Stalls \in BOOLEAN
  /\ ApiCrashes \in BOOLEAN

VARIABLES
  run,         \* AgentRunModel row and the `active' flag of its reservation
  requests,    \* AgentInputRequestModel rows of the run, in filing order
  tool,        \* the one durable tool operation (SOR command) of the run
  authorised,  \* the pinned revision is published and the principal active
  task,        \* the Absurd task spawned under the run's idempotency key
  emitted,     \* engine events emitted so far
  worker,      \* what each worker lane is doing
  spawner,     \* spawn_run, called by the producer and by recovery sweeps
  canceller,   \* cancel_agent_run
  responder    \* answer_input_request

vars == <<run, requests, tool, authorised, task, emitted, worker,
          spawner, canceller, responder>>
rows    == <<run, requests>>
clients == <<spawner, canceller, responder>>
world   == <<tool, authorised>>
engine  == <<task, emitted>>

-----------------------------------------------------------------------------
(* Values *)

Terminal   == {"completed", "failed", "cancelled"}
WaitingFor == [input |-> "waiting_for_input", approval |-> "waiting_for_approval"]
InputWaits == {WaitingFor[k] : k \in {"input", "approval"}}
Lifecycles == {"queued", "running", "waiting_for_tool"} \union InputWaits \union Terminal

Statuses == {"pending", "answered", "cancelled"}
Request  == [kind : Kinds, status : Statuses]

ToolEvent == 0                      \* request i wakes the run through event i
Events    == 0..MaxRequests

TaskEnded  == {"completed", "failed", "cancelled"}
TaskStates == {"none", "pending", "running", "sleeping"} \union TaskEnded

(* A worker that executes the handler; in Unwinding it runs an except      *)
(* clause, in "reporting" it hands the exception to the engine.            *)
Executing == {"claimed", "loading", "awaiting", "resuming", "turn", "reloading",
              "tool_awaiting", "tool_resuming"}
Unwinding == {"unwinding", "suspending", "cancelling"}
PCs       == {"idle", "over_budget", "receipt", "reporting"} \union Executing \union Unwinding

RunRow  == [lifecycle : Lifecycles, cancellationRequested : BOOLEAN,
            bound : BOOLEAN, active : BOOLEAN]
TaskRow == [state : TaskStates, attempt : Nat, wake : SUBSET Events]
Lane    == [pc : PCs, token : Nat, wait : Events]

Idle == [pc |-> "idle", token |-> 0, wait |-> 0]

TypeOK ==
  /\ run \in RunRow
  /\ requests \in Seq(Request) /\ Len(requests) <= MaxRequests
  /\ tool \in {"none", "pending", "terminal", "consumed"}
  /\ authorised \in BOOLEAN
  /\ task \in TaskRow
  /\ emitted \subseteq Events
  /\ worker \in [Workers -> Lane]
  /\ spawner \in {"idle", "spawn", "bind", "cancel"}
  /\ canceller \in [pc : {"idle", "observe", "signal", "accept"}, seen : TaskStates]
  /\ responder \in [pc : {"idle", "emit"}, request : Events]

Init ==
  /\ run = [lifecycle |-> "queued", cancellationRequested |-> FALSE,
            bound |-> FALSE, active |-> TRUE]
  /\ requests = <<>>
  /\ tool = "none"
  /\ authorised = TRUE
  /\ task = [state |-> "none", attempt |-> 1, wake |-> {}]
  /\ emitted = {}
  /\ worker = [w \in Workers |-> Idle]
  /\ spawner = "idle"
  /\ canceller = [pc |-> "idle", seen |-> "none"]
  /\ responder = [pc |-> "idle", request |-> 0]

-----------------------------------------------------------------------------
(* Transitions of the product rows, as the transactions that make them.    *)

CloseRequests ==
  requests' = [i \in DOMAIN requests |->
                 IF requests[i].status = "pending"
                 THEN [requests[i] EXCEPT !.status = "cancelled"]
                 ELSE requests[i]]

Move(lifecycle, active) ==
  run' = [run EXCEPT !.lifecycle = lifecycle, !.active = active]

(* Mutant: the cancelled run keeps its reservation.                        *)
AcceptCancellationKeepsCapacity ==
  IF run.lifecycle \in Terminal
  THEN UNCHANGED rows
  ELSE /\ run' = [run EXCEPT !.lifecycle = "cancelled", !.cancellationRequested = TRUE]
       /\ CloseRequests

AcceptCancellation ==
  IF run.lifecycle \in Terminal
  THEN UNCHANGED rows
  ELSE /\ run' = [run EXCEPT !.lifecycle = "cancelled", !.active = FALSE,
                             !.cancellationRequested = TRUE]
       /\ CloseRequests

(* Mutant: a failure is accepted while the run is cancelling.              *)
CanFailCancelling == run.lifecycle \notin Terminal

CanFail == run.lifecycle \notin Terminal /\ ~run.cancellationRequested

FailRun ==
  /\ CanFail
  /\ Move("failed", FALSE)
  /\ CloseRequests

Latest == requests[Len(requests)]

(* load_agent_run_wait: the wait to resume, none, or an inconsistency.     *)
Answered == requests # <<>> /\ Latest.status = "answered"

HasWait ==
  /\ requests # <<>>
  /\ \/ run.lifecycle = "running" /\ Answered
     \/ /\ run.lifecycle = WaitingFor[Latest.kind]
        /\ Latest.status \in {"pending", "answered"}

HasNoWait ==
  \/ run.lifecycle = "running" /\ ~Answered
  \/ run.lifecycle \notin InputWaits \union {"running"}

-----------------------------------------------------------------------------
(* Absurd: the vendored SQL for spawn and failure, the rest as the code    *)
(* uses it.                                                                *)

Holds(w) == task.state = "running" /\ task.attempt = worker[w].token

TaskFailed ==
  IF task.attempt < MaxAttempts
  THEN [state |-> "sleeping", attempt |-> task.attempt + 1, wake |-> {}]
  ELSE [task EXCEPT !.state = "failed"]

TaskCancelled ==
  IF task.state \in {"pending", "running", "sleeping"}
  THEN [task EXCEPT !.state = "cancelled", !.wake = {}]
  ELSE task

Claimable ==
  \/ task.state = "pending"
  \/ task.state = "sleeping" /\ task.wake = {}     \* the retry delay is over

Emit(event) ==
  /\ emitted' = emitted \union {event}
  /\ task' = IF task.state = "sleeping" /\ event \in task.wake
             THEN [task EXCEPT !.state = "pending", !.wake = {}]
             ELSE task

(* await_event: returns at once when the event was emitted, else suspends. *)
AwaitEvent(w, event, returned) ==
  /\ Holds(w)
  /\ \/ /\ event \in emitted
        /\ worker' = [worker EXCEPT ![w].pc = returned]
        /\ UNCHANGED task
     \/ /\ event \notin emitted
        /\ task' = [task EXCEPT !.state = "sleeping", !.wake = {event}]
        /\ worker' = [worker EXCEPT ![w].pc = "suspending"]
  /\ UNCHANGED <<rows, world, emitted, clients>>

(* A claim nobody renews runs out: the process died, or it stalls.         *)
ClaimExpires ==
  /\ task.state = "running"
  /\ \/ Stalls
     \/ \A w \in Workers : worker[w].pc \in {"idle", "suspending"}
                           \/ worker[w].token # task.attempt
  /\ task' = TaskFailed
  /\ UNCHANGED <<rows, world, emitted, worker, clients>>

-----------------------------------------------------------------------------
(* AgentRunWorkflow.execute, one worker attempt.                           *)

At(w, pc) == worker[w].pc = pc

Goto(w, pc) == worker' = [worker EXCEPT ![w].pc = pc]

Leave(w) == worker' = [worker EXCEPT ![w] = Idle]

ClaimTask(w) ==
  /\ At(w, "idle")
  /\ Claimable
  /\ task' = [task EXCEPT !.state = "running"]
  /\ worker' = [worker EXCEPT ![w] = [pc |-> "claimed", token |-> task.attempt, wait |-> 0]]
  /\ UNCHANGED <<rows, world, emitted, clients>>

(* A heartbeat, step or wait of a worker that lost its claim raises: the   *)
(* heartbeat task cancels the handler, a call of the handler's own raises  *)
(* CancelledTask when the task was cancelled.                              *)
EngineRejects(w) ==
  /\ worker[w].pc \in Executing
  /\ ~Holds(w)
  /\ \/ Goto(w, "unwinding")
     \/ task.state = "cancelled" /\ Goto(w, "cancelling")
  /\ UNCHANGED <<rows, world, engine, clients>>

(* _claim_run *)
ClaimSettled(w) ==
  /\ At(w, "claimed")
  /\ run.lifecycle \in Terminal
  /\ Goto(w, "receipt")
  /\ UNCHANGED <<rows, world, engine, clients>>

ClaimUnbound(w) ==
  /\ At(w, "claimed")
  /\ run.lifecycle \notin Terminal
  /\ ~run.bound
  /\ Goto(w, "unwinding")
  /\ UNCHANGED <<rows, world, engine, clients>>

(* Mutant: the cancelling claim leaves the requests open.                  *)
ClaimCancelledLeavesOpen(w) ==
  /\ At(w, "claimed")
  /\ run.bound /\ run.cancellationRequested /\ run.lifecycle \notin Terminal
  /\ Move("cancelled", FALSE)
  /\ Goto(w, "receipt")
  /\ UNCHANGED <<requests, world, engine, clients>>

ClaimCancelled(w) ==
  /\ At(w, "claimed")
  /\ run.lifecycle \notin Terminal
  /\ run.bound
  /\ run.cancellationRequested
  /\ Move("cancelled", FALSE)
  /\ CloseRequests
  /\ Goto(w, "receipt")
  /\ UNCHANGED <<world, engine, clients>>

(* Mutant: a worker does not wait for the binding.                         *)
ClaimAllowedUnbound == CanFail

ClaimAllowed == run.bound /\ CanFail

(* _refuse_run: the pinned revision or the principal is gone.  The input   *)
(* requests stay as they are.                                              *)
ClaimRefused(w) ==
  /\ At(w, "claimed")
  /\ ClaimAllowed
  /\ ~authorised
  /\ Move("failed", FALSE)
  /\ Goto(w, "receipt")
  /\ UNCHANGED <<requests, world, engine, clients>>

(* Mutant: every claim sets the run running, whatever it waits for.        *)
ClaimStartsWaiting(w) ==
  /\ At(w, "claimed")
  /\ ClaimAllowed
  /\ authorised
  /\ Move("running", TRUE)
  /\ Goto(w, "loading")
  /\ UNCHANGED <<requests, world, engine, clients>>

ClaimStarts(w) ==
  /\ At(w, "claimed")
  /\ ClaimAllowed
  /\ authorised
  /\ IF run.lifecycle \in {"queued", "running"}
     THEN Move("running", TRUE)
     ELSE UNCHANGED run
  /\ Goto(w, "loading")
  /\ UNCHANGED <<requests, world, engine, clients>>

(* Mutant: the executor returns without failing the run.                   *)
OriginInvalidReturns(w) ==
  /\ At(w, "loading")
  /\ Goto(w, "receipt")
  /\ UNCHANGED <<rows, world, engine, clients>>

(* The executor cannot use the run's origin: it fails the run and returns. *)
OriginInvalid(w) ==
  /\ At(w, "loading")
  /\ FailRun
  /\ Goto(w, "receipt")
  /\ UNCHANGED <<world, engine, clients>>

LoadWait(w) ==
  /\ worker[w].pc \in {"loading", "reloading"}
  /\ HasWait
  /\ worker' = [worker EXCEPT ![w].pc = "awaiting", ![w].wait = Len(requests)]
  /\ UNCHANGED <<rows, world, engine, clients>>

LoadNoWait(w) ==
  /\ At(w, "loading")
  /\ HasNoWait
  /\ Goto(w, "turn")
  /\ UNCHANGED <<rows, world, engine, clients>>

LoadRaises(w) ==
  /\ \/ worker[w].pc \in {"loading", "reloading"} /\ ~HasWait /\ ~HasNoWait
     \/ At(w, "reloading") /\ HasNoWait
  /\ Goto(w, "unwinding")
  /\ UNCHANGED <<rows, world, engine, clients>>

AwaitAnswer(w) == At(w, "awaiting") /\ AwaitEvent(w, worker[w].wait, "resuming")

(* resume_agent_run_in_transaction: the request the event named must be    *)
(* answered, and the lifecycle must be the wait of that request's kind.    *)
ResumeAllowed(request) ==
  /\ request.status = "answered"
  /\ ~run.cancellationRequested
  /\ run.lifecycle \in {"running", WaitingFor[request.kind]}

Resume(w) ==
  /\ At(w, "resuming")
  /\ worker[w].wait \in DOMAIN requests
  /\ ResumeAllowed(requests[worker[w].wait])
  /\ IF run.lifecycle = "running" THEN UNCHANGED run ELSE Move("running", TRUE)
  /\ Goto(w, "turn")
  /\ UNCHANGED <<requests, world, engine, clients>>

(* Refused, or no capacity left to reactivate the reservation.             *)
ResumeRaises(w) ==
  /\ At(w, "resuming")
  /\ ~(/\ run.lifecycle = "running"
       /\ worker[w].wait \in DOMAIN requests
       /\ ResumeAllowed(requests[worker[w].wait]))
  /\ Goto(w, "unwinding")
  /\ UNCHANGED <<rows, world, engine, clients>>

-----------------------------------------------------------------------------
(* The turn: the framework run and the transaction that persists its end.  *)

TurnAllowed == run.lifecycle = "running" /\ ~run.cancellationRequested

(* Mutant: the kind of the request is stored as the lifecycle.             *)
TurnPauseAsKind(w) ==
  /\ At(w, "turn")
  /\ TurnAllowed
  /\ Len(requests) < MaxRequests
  /\ \E k \in Kinds :
       /\ requests' = Append(requests, [kind |-> k, status |-> "pending"])
       /\ Move(k, FALSE)
  /\ Goto(w, "reloading")
  /\ UNCHANGED <<world, engine, clients>>

(* Mutant: an approval is waited for as an input.                          *)
TurnPauseOneLifecycle(w) ==
  /\ At(w, "turn")
  /\ TurnAllowed
  /\ Len(requests) < MaxRequests
  /\ \E k \in Kinds :
       /\ requests' = Append(requests, [kind |-> k, status |-> "pending"])
       /\ Move("waiting_for_input", FALSE)
  /\ Goto(w, "reloading")
  /\ UNCHANGED <<world, engine, clients>>

(* pause_agent_run_in_transaction *)
TurnPause(w) ==
  /\ At(w, "turn")
  /\ TurnAllowed
  /\ Len(requests) < MaxRequests
  /\ \E k \in Kinds :
       /\ requests' = Append(requests, [kind |-> k, status |-> "pending"])
       /\ Move(WaitingFor[k], FALSE)
  /\ Goto(w, "reloading")
  /\ UNCHANGED <<world, engine, clients>>

(* finish_agent_run_in_transaction *)
TurnFinish(w) ==
  /\ At(w, "turn")
  /\ TurnAllowed
  /\ \E result \in {"completed", "failed"} : Move(result, FALSE)
  /\ Goto(w, "receipt")
  /\ UNCHANGED <<requests, world, engine, clients>>

(* A durable tool: the operation is filed once, the run waits for it.      *)
ToolFile(w) ==
  /\ At(w, "turn")
  /\ tool = "none"
  /\ tool' = "pending"
  /\ UNCHANGED <<rows, authorised, engine, worker, clients>>

(* pause_agent_run_for_tool_in_transaction *)
TurnPauseForTool(w) ==
  /\ At(w, "turn")
  /\ tool \in {"pending", "terminal"}
  /\ ~run.cancellationRequested
  /\ run.lifecycle \in {"running", "waiting_for_tool"}
  /\ IF run.lifecycle = "running" THEN Move("waiting_for_tool", FALSE) ELSE UNCHANGED run
  /\ Goto(w, "tool_awaiting")
  /\ UNCHANGED <<requests, world, engine, clients>>

(* The receipt is terminal already: no wait.                               *)
TurnToolDone(w) ==
  /\ At(w, "turn")
  /\ tool = "terminal"
  /\ Goto(w, "tool_resuming")
  /\ UNCHANGED <<rows, world, engine, clients>>

ToolAwait(w) == At(w, "tool_awaiting") /\ AwaitEvent(w, ToolEvent, "tool_resuming")

(* resume_agent_run_from_tool_in_transaction.  A refusal is an ordinary    *)
(* tool error: the turn goes on.  Only the holder of the claim records the *)
(* tool's outcome as a step, after which a replay skips the operation; for *)
(* another worker that step raises.                                        *)
ToolResume(w) ==
  /\ At(w, "tool_resuming")
  /\ IF run.lifecycle = "waiting_for_tool" /\ ~run.cancellationRequested
     THEN Move("running", TRUE)
     ELSE UNCHANGED run
  /\ IF Holds(w)
     THEN tool' = "consumed" /\ Goto(w, "turn")
     ELSE UNCHANGED tool /\ Goto(w, "unwinding")
  /\ UNCHANGED <<requests, authorised, engine, clients>>

(* No capacity is left to reactivate the reservation.                      *)
ToolResumeRaises(w) ==
  /\ At(w, "tool_resuming")
  /\ run.lifecycle = "waiting_for_tool"
  /\ ~run.cancellationRequested
  /\ Goto(w, "unwinding")
  /\ UNCHANGED <<rows, world, engine, clients>>

(* A provider or database error, or a conflict of pause or finish: the     *)
(* transaction of the turn is rolled back.                                 *)
ExecutorRaises(w) ==
  /\ worker[w].pc \in {"loading", "turn"}
  /\ Goto(w, "unwinding")
  /\ UNCHANGED <<rows, world, engine, clients>>

(* ExecutionBudgetExceeded, from the meter or from the release of a pause  *)
(* or a finish, which it rolls back.                                       *)
TurnOverBudget(w) ==
  /\ At(w, "turn")
  /\ run.active
  /\ Goto(w, "over_budget")
  /\ UNCHANGED <<rows, world, engine, clients>>

(* The budget's except clause: _fail_run refuses a cancelling or a         *)
(* completed run, and repeats a failure only under the same summary.       *)
BudgetFail(w) ==
  /\ At(w, "over_budget")
  /\ \/ FailRun /\ Goto(w, "receipt")
     \/ run.lifecycle = "failed" /\ Goto(w, "receipt") /\ UNCHANGED rows
     \/ ~CanFail /\ Goto(w, "reporting") /\ UNCHANGED rows
  /\ UNCHANGED <<world, engine, clients>>

(* except CancelledTask / except BaseException, then raise.                *)
Unwind(w) ==
  /\ worker[w].pc \in Unwinding
  /\ IF run.cancellationRequested \/ At(w, "cancelling")
     THEN AcceptCancellation
     ELSE UNCHANGED rows
  /\ worker' = [worker EXCEPT ![w] =
                  IF @.pc = "unwinding" THEN [@ EXCEPT !.pc = "reporting"] ELSE Idle]
  /\ UNCHANGED <<world, engine, clients>>

(* The engine's fail_run and complete_run ignore a claim that is lost.     *)
Report(w) ==
  /\ At(w, "reporting")
  /\ task' = IF Holds(w) THEN TaskFailed ELSE task
  /\ Leave(w)
  /\ UNCHANGED <<rows, world, emitted, clients>>

Complete(w) ==
  /\ At(w, "receipt")
  /\ task' = IF Holds(w) THEN [task EXCEPT !.state = "completed"] ELSE task
  /\ Leave(w)
  /\ UNCHANGED <<rows, world, emitted, clients>>

(* The worker process dies; ClaimExpires notices.                          *)
Crash(w) ==
  /\ ~At(w, "idle")
  /\ Leave(w)
  /\ UNCHANGED <<rows, world, engine, clients>>

Attempt(w) ==
  \/ ClaimSettled(w) \/ ClaimUnbound(w) \/ ClaimCancelled(w) \/ ClaimRefused(w)
  \/ ClaimStarts(w) \/ OriginInvalid(w) \/ LoadWait(w) \/ LoadNoWait(w)
  \/ LoadRaises(w) \/ AwaitAnswer(w) \/ Resume(w) \/ ResumeRaises(w)
  \/ TurnPause(w) \/ TurnFinish(w) \/ ToolFile(w) \/ TurnPauseForTool(w)
  \/ TurnToolDone(w) \/ ToolAwait(w) \/ ToolResume(w) \/ ToolResumeRaises(w)
  \/ ExecutorRaises(w) \/ TurnOverBudget(w) \/ EngineRejects(w)
  \/ BudgetFail(w) \/ Unwind(w) \/ Report(w) \/ Complete(w)

-----------------------------------------------------------------------------
(* spawn_run: read the run, spawn the task idempotently, bind, and deliver *)
(* a cancellation that was requested meanwhile.                            *)

SpawnLoad ==
  /\ spawner = "idle"
  /\ ~run.bound
  /\ run.lifecycle = "queued"
  /\ spawner' = "spawn"
  /\ UNCHANGED <<rows, world, engine, worker, canceller, responder>>

SpawnTask ==
  /\ spawner = "spawn"
  /\ task' = IF task.state = "none" THEN [task EXCEPT !.state = "pending"] ELSE task
  /\ spawner' = "bind"
  /\ UNCHANGED <<rows, world, emitted, worker, canceller, responder>>

BindTask ==
  /\ spawner = "bind"
  /\ run' = [run EXCEPT !.bound = TRUE]
  /\ spawner' = IF run.cancellationRequested THEN "cancel" ELSE "idle"
  /\ UNCHANGED <<requests, world, engine, worker, canceller, responder>>

SpawnCancel ==
  /\ spawner = "cancel"
  /\ task' = TaskCancelled
  /\ spawner' = "idle"
  /\ UNCHANGED <<rows, world, emitted, worker, canceller, responder>>

SpawnCrash ==
  /\ ApiCrashes
  /\ spawner # "idle"
  /\ spawner' = "idle"
  /\ UNCHANGED <<rows, world, engine, worker, canceller, responder>>

Spawn == SpawnLoad \/ SpawnTask \/ BindTask \/ SpawnCancel

-----------------------------------------------------------------------------
(* cancel_agent_run, then cancel_bound_agent_run: the state is observed    *)
(* before the engine is told, and used after.                              *)

(* Mutant: the engine is signalled before the request is recorded.         *)
CancelRequestUnrecorded ==
  /\ canceller.pc = "idle"
  /\ run.lifecycle \notin Terminal
  /\ run.bound
  /\ canceller' = [canceller EXCEPT !.pc = "observe"]
  /\ UNCHANGED <<rows, world, engine, worker, spawner, responder>>

CancelRequest ==
  /\ canceller.pc = "idle"
  /\ run.lifecycle \notin Terminal
  /\ run' = IF run.lifecycle = "queued" /\ ~run.bound /\ ~run.cancellationRequested
            THEN [run EXCEPT !.cancellationRequested = TRUE,
                             !.lifecycle = "cancelled", !.active = FALSE]
            ELSE [run EXCEPT !.cancellationRequested = TRUE]
  /\ canceller' = IF run.bound THEN [canceller EXCEPT !.pc = "observe"] ELSE canceller
  /\ UNCHANGED <<requests, world, engine, worker, spawner, responder>>

CancelObserve ==
  /\ canceller.pc = "observe"
  /\ canceller' = [pc |-> "signal", seen |-> task.state]
  /\ UNCHANGED <<rows, world, engine, worker, spawner, responder>>

CancelSignal ==
  /\ canceller.pc = "signal"
  /\ task' = TaskCancelled
  /\ canceller' = [pc |-> IF canceller.seen \in {"pending", "sleeping", "cancelled"}
                          THEN "accept" ELSE "idle",
                   seen |-> "none"]
  /\ UNCHANGED <<rows, world, emitted, worker, spawner, responder>>

CancelAccept ==
  /\ canceller.pc = "accept"
  /\ AcceptCancellation
  /\ canceller' = [canceller EXCEPT !.pc = "idle"]
  /\ UNCHANGED <<world, engine, worker, spawner, responder>>

CancelCrash ==
  /\ ApiCrashes
  /\ canceller.pc # "idle"
  /\ canceller' = [pc |-> "idle", seen |-> "none"]
  /\ UNCHANGED <<rows, world, engine, worker, spawner, responder>>

-----------------------------------------------------------------------------
(* answer_input_request, then emit_agent_run_event.  Repeating the same    *)
(* answer while the run waits emits the event again.                       *)

Answer(i) ==
  /\ responder.pc = "idle"
  /\ ~run.cancellationRequested
  /\ run.lifecycle = WaitingFor[requests[i].kind]
  /\ requests[i].status \in {"pending", "answered"}
  /\ requests' = [requests EXCEPT ![i].status = "answered"]
  /\ responder' = [pc |-> "emit", request |-> i]
  /\ UNCHANGED <<run, world, engine, worker, spawner, canceller>>

(* Mutant: only a task that sleeps already is woken.                       *)
EmitAnswerToSleeper ==
  /\ responder.pc = "emit"
  /\ IF task.state = "sleeping" THEN Emit(responder.request) ELSE UNCHANGED engine
  /\ responder' = [pc |-> "idle", request |-> 0]
  /\ UNCHANGED <<rows, world, worker, spawner, canceller>>

EmitAnswer ==
  /\ responder.pc = "emit"
  /\ Emit(responder.request)
  /\ responder' = [pc |-> "idle", request |-> 0]
  /\ UNCHANGED <<rows, world, worker, spawner, canceller>>

ResponderCrash ==
  /\ ApiCrashes
  /\ responder.pc = "emit"
  /\ responder' = [pc |-> "idle", request |-> 0]
  /\ UNCHANGED <<rows, world, engine, worker, spawner, canceller>>

-----------------------------------------------------------------------------
(* reconcile_terminal_agent_runs: what it reads (the task has ended, a     *)
(* cancellation was requested) never becomes untrue, and the commands it   *)
(* calls check the row again, so that one step stands for read and write.  *)

(* Mutant: the request on the row is not looked at.                        *)
ReconcileByEngineOnly ==
  /\ run.bound
  /\ run.lifecycle \notin Terminal
  /\ task.state \in TaskEnded
  /\ IF task.state = "cancelled" THEN AcceptCancellation ELSE FailRun
  /\ UNCHANGED <<world, engine, worker, clients>>

(* Mutant: queued runs are not scanned.                                    *)
ReconcileStartedOnly ==
  /\ run.bound
  /\ run.lifecycle \notin Terminal \union {"queued"}
  /\ task.state \in TaskEnded
  /\ IF task.state = "cancelled" \/ run.cancellationRequested
     THEN AcceptCancellation
     ELSE FailRun
  /\ UNCHANGED <<world, engine, worker, clients>>

Reconcile ==
  /\ run.bound
  /\ run.lifecycle \notin Terminal
  /\ task.state \in TaskEnded
  /\ IF task.state = "cancelled" \/ run.cancellationRequested
     THEN AcceptCancellation
     ELSE FailRun
  /\ UNCHANGED <<world, engine, worker, clients>>

(* The world outside: authority is lost, the durable tool ends, its event  *)
(* is emitted.                                                             *)
Revoke ==
  /\ authorised
  /\ authorised' = FALSE
  /\ UNCHANGED <<rows, tool, engine, worker, clients>>

ToolFinish ==
  /\ tool = "pending"
  /\ tool' = "terminal"
  /\ UNCHANGED <<rows, authorised, engine, worker, clients>>

ToolEmit ==
  /\ tool \in {"terminal", "consumed"}
  /\ ToolEvent \notin emitted
  /\ Emit(ToolEvent)
  /\ UNCHANGED <<rows, world, worker, clients>>

Next ==
  \/ \E w \in Workers : ClaimTask(w) \/ Attempt(w) \/ Crash(w)
  \/ ClaimExpires
  \/ Spawn \/ SpawnCrash
  \/ CancelRequest \/ CancelObserve \/ CancelSignal \/ CancelAccept \/ CancelCrash
  \/ \E i \in DOMAIN requests : Answer(i)
  \/ EmitAnswer \/ ResponderCrash
  \/ Reconcile \/ Revoke \/ ToolFinish \/ ToolEmit

Spec == Init /\ [][Next]_vars

-----------------------------------------------------------------------------
(* Fairness.  Worker lanes poll without end; an attempt that is alive goes *)
(* on; the engine sweeps expired claims; the recovery sweeps respawn       *)
(* unbound queued runs and reconcile every minute; an API call that        *)
(* committed goes on to its engine call.  Nobody has to answer, to cancel, *)
(* to revoke or to crash; and a durable tool need not end, nor its end be  *)
(* told: it may run for ever, and the emission of its event may be lost.   *)
Fairness ==
  /\ WF_vars(\E w \in Workers : ClaimTask(w))
  /\ \A w \in Workers : WF_vars(Attempt(w))
  /\ WF_vars(ClaimExpires)
  /\ WF_vars(Spawn)
  /\ WF_vars(CancelObserve \/ CancelSignal \/ CancelAccept)
  /\ WF_vars(EmitAnswer)
  /\ WF_vars(Reconcile)

LiveSpec == Spec /\ Fairness

-----------------------------------------------------------------------------
(* Properties *)

(* The rows of a run, whatever workers and clients do, change only as the  *)
(* contract of AgentRunContract allows: no way out of a terminal state, no *)
(* failure, result or resume after a cancellation request, no cancelled    *)
(* run without a request, and capacity returned and reacquired with each   *)
(* wait.                                                                   *)
Contract == INSTANCE AgentRunContract WITH
  lifecycle <- run.lifecycle,
  cancellationRequested <- run.cancellationRequested,
  holdsCapacity <- run.active

ImplementsContract == Contract!Spec

(* A run occupies a share of its organization's capacity exactly while it  *)
(* is queued or running, so a waiting or ended run never leaks capacity    *)
(* and a running one never executes without it.                            *)
ReservationMatchesLifecycle ==
  run.active <=> run.lifecycle \in {"queued", "running"}

(* The engine records a completed task only after the product result is    *)
(* committed: the reconciler's summary for the opposite is never used.     *)
CompletedTaskHasResult ==
  task.state = "completed" => run.lifecycle \in Terminal

(* A cancellation is on record before the engine is told of it, so that a  *)
(* cancelled task, found by worker or reconciler, always has a request.    *)
EngineCancelIsRequested ==
  task.state = "cancelled" => run.cancellationRequested

(* The database constraint on absurd_task_id: a run leaves the queue only  *)
(* when it is bound to its task, or by cancellation.                       *)
LeavesQueueOnlyBound ==
  \/ run.lifecycle = "queued"
  \/ run.bound
  \/ run.lifecycle = "cancelled" /\ run.cancellationRequested

(* The run's wait and its requests tell one story, so that                 *)
(* load_agent_run_wait never finds them inconsistent: the last request is  *)
(* the one waited for, every earlier one was answered, and a run that is   *)
(* running has no open request.                                            *)
WaitMatchesRequest ==
  /\ run.lifecycle \in InputWaits =>
       /\ requests # <<>>
       /\ run.lifecycle = WaitingFor[Latest.kind]
       /\ Latest.status \in {"pending", "answered"}
       /\ \A i \in 1..Len(requests) - 1 : requests[i].status = "answered"
  /\ run.lifecycle \in {"running", "waiting_for_tool"} =>
       \A i \in DOMAIN requests : requests[i].status = "answered"
  /\ run.lifecycle = "queued" => requests = <<>>

(* A run leaves an input wait for running only when the request it waits   *)
(* for, the latest, has been answered.                                     *)
ResumeNeedsAnswer ==
  [][(run.lifecycle \in InputWaits /\ run'.lifecycle = "running")
       => Latest.status = "answered"]_vars

(* A cancelled or completed run leaves no request for a person to answer.  *)
SettledRunHasNoOpenRequest ==
  run.lifecycle \in {"completed", "cancelled"} =>
    \A i \in DOMAIN requests : requests[i].status # "pending"

(* What the helper that closes requests says of every ended run: they are  *)
(* closed with their parent.  A refusal by _claim_run forgets it.          *)
TerminalClosesRequests ==
  run.lifecycle \in Terminal =>
    \A i \in DOMAIN requests : requests[i].status # "pending"

(* A requested cancellation is eventually the run's end, whichever of      *)
(* canceller, spawner, worker and reconciler delivers it.                  *)
CancellationHappens == run.cancellationRequested ~> run.lifecycle = "cancelled"

(* An answered request wakes its run, even when the process that executes  *)
(* it crashes or capacity to resume is refused.                            *)
AnswerWakesRun ==
  (run.lifecycle \in InputWaits /\ Latest.status = "answered")
    ~> run.lifecycle \notin InputWaits

(* A run is never stuck in the queue, in execution, or behind a tool whose *)
(* event was emitted, be it before the run waited for it: it ends, or it   *)
(* waits for a person or for a tool nothing was heard of.                  *)
RunMakesProgress ==
  run.lifecycle \in {"queued", "running", "waiting_for_tool"}
    ~> \/ run.lifecycle \in InputWaits \union Terminal
       \/ run.lifecycle = "waiting_for_tool" /\ ToolEvent \notin emitted

=============================================================================
