--------------------------- MODULE AgentRun_proofs ---------------------------
(***************************************************************************)
(* Proofs about AgentRun for any number of workers, requests and attempts, *)
(* with stalled workers and crashing API processes.                        *)
(***************************************************************************)
EXTENDS AgentRun, TLAPS

-----------------------------------------------------------------------------
(* Types: the members of the small sets, and what the helpers return.      *)

LEMMA LifecycleNames ==
  /\ "queued" \in Lifecycles /\ "running" \in Lifecycles /\ "waiting_for_tool" \in Lifecycles
  /\ "completed" \in Lifecycles /\ "failed" \in Lifecycles /\ "cancelled" \in Lifecycles
  /\ \A k \in Kinds : WaitingFor[k] \in Lifecycles
BY AgentRunAssumption DEF Lifecycles, InputWaits, Terminal, WaitingFor

LEMMA PcNames ==
  /\ "idle" \in PCs /\ "over_budget" \in PCs /\ "receipt" \in PCs /\ "reporting" \in PCs
  /\ "claimed" \in PCs /\ "loading" \in PCs /\ "awaiting" \in PCs /\ "resuming" \in PCs
  /\ "turn" \in PCs /\ "reloading" \in PCs /\ "tool_awaiting" \in PCs
  /\ "tool_resuming" \in PCs /\ "unwinding" \in PCs /\ "suspending" \in PCs
  /\ "cancelling" \in PCs
BY DEF PCs, Executing, Unwinding

LEMMA TaskNames ==
  /\ "none" \in TaskStates /\ "pending" \in TaskStates /\ "running" \in TaskStates
  /\ "sleeping" \in TaskStates /\ "completed" \in TaskStates /\ "failed" \in TaskStates
  /\ "cancelled" \in TaskStates
BY DEF TaskStates, TaskEnded

LEMMA EventNames == ToolEvent \in Events /\ 0 \in Events
BY AgentRunAssumption DEF ToolEvent, Events

LEMMA MoveType ==
  ASSUME run \in RunRow, NEW l \in Lifecycles, NEW a \in BOOLEAN, Move(l, a)
  PROVE  run' \in RunRow
BY DEF RunRow, Move

LEMMA GotoType ==
  ASSUME worker \in [Workers -> Lane], NEW w \in Workers, NEW pc \in PCs, Goto(w, pc)
  PROVE  worker' \in [Workers -> Lane]
BY DEF Lane, Goto

LEMMA LeaveType ==
  ASSUME worker \in [Workers -> Lane], NEW w \in Workers, Leave(w)
  PROVE  worker' \in [Workers -> Lane]
BY PcNames, EventNames DEF Lane, Leave, Idle

LEMMA TaskStateType ==
  ASSUME task \in TaskRow, NEW s \in TaskStates
  PROVE  [task EXCEPT !.state = s] \in TaskRow
BY DEF TaskRow

LEMMA TaskSleepsType ==
  ASSUME task \in TaskRow, NEW e \in Events
  PROVE  [task EXCEPT !.state = "sleeping", !.wake = {e}] \in TaskRow
<1>1. {e} \in SUBSET Events
  OBVIOUS
<1> QED
  BY <1>1, TaskNames DEF TaskRow

LEMMA TaskWokenType ==
  ASSUME task \in TaskRow, NEW s \in TaskStates
  PROVE  [task EXCEPT !.state = s, !.wake = {}] \in TaskRow
<1>1. {} \in SUBSET Events
  OBVIOUS
<1> QED
  BY <1>1 DEF TaskRow

LEMMA TaskFailedType ==
  ASSUME task \in TaskRow
  PROVE  TaskFailed \in TaskRow
<1>1. {} \in SUBSET Events /\ task.attempt + 1 \in Nat
  BY DEF TaskRow
<1>2. [state |-> "sleeping", attempt |-> task.attempt + 1, wake |-> {}] \in TaskRow
  BY <1>1, TaskNames DEF TaskRow
<1>3. [task EXCEPT !.state = "failed"] \in TaskRow
  BY TaskStateType, TaskNames
<1> QED
  BY <1>2, <1>3 DEF TaskFailed

LEMMA TaskCancelledType ==
  ASSUME task \in TaskRow
  PROVE  TaskCancelled \in TaskRow
BY TaskWokenType, TaskNames DEF TaskCancelled

LEMMA EmitType ==
  ASSUME task \in TaskRow, emitted \subseteq Events, NEW e \in Events, Emit(e)
  PROVE  task' \in TaskRow /\ emitted' \subseteq Events
BY TaskWokenType, TaskNames DEF Emit

LEMMA CloseRequestsType ==
  ASSUME requests \in Seq(Request), Len(requests) <= MaxRequests, CloseRequests
  PROVE  requests' \in Seq(Request) /\ Len(requests') <= MaxRequests
<1>1. \A i \in 1..Len(requests) : requests[i] \in Request
  OBVIOUS
<1>2. \A i \in 1..Len(requests) : requests'[i] \in Request
  BY <1>1 DEF CloseRequests, Request, Statuses
<1>3. DOMAIN requests' = 1..Len(requests) /\ requests' = [i \in 1..Len(requests) |-> requests'[i]]
  BY DEF CloseRequests
<1>4. requests' \in [1..Len(requests) -> Request]
  BY <1>2, <1>3
<1> QED
  BY <1>4

LEMMA AcceptCancellationType ==
  ASSUME TypeOK, AcceptCancellation
  PROVE  run' \in RunRow /\ requests' \in Seq(Request) /\ Len(requests') <= MaxRequests
<1>1. CASE run.lifecycle \in Terminal
  BY <1>1 DEF TypeOK, AcceptCancellation, rows
<1>2. CASE run.lifecycle \notin Terminal
  <2>1. run' \in RunRow
    BY <1>2, LifecycleNames DEF TypeOK, AcceptCancellation, RunRow
  <2> QED
    BY <1>2, <2>1, CloseRequestsType DEF TypeOK, AcceptCancellation
<1> QED
  BY <1>1, <1>2

LEMMA FailRunType ==
  ASSUME TypeOK, FailRun
  PROVE  run' \in RunRow /\ requests' \in Seq(Request) /\ Len(requests') <= MaxRequests
BY CloseRequestsType, MoveType, LifecycleNames DEF TypeOK, FailRun

LEMMA AwaitEventType ==
  ASSUME TypeOK, NEW w \in Workers, NEW e \in Events, NEW pc \in PCs, AwaitEvent(w, e, pc)
  PROVE  task' \in TaskRow /\ worker' \in [Workers -> Lane]
<1>1. \A q \in PCs : [worker EXCEPT ![w].pc = q] \in [Workers -> Lane]
  BY DEF TypeOK, Lane
<1>2. worker' \in [Workers -> Lane]
  BY <1>1, PcNames DEF AwaitEvent
<1>3. task' \in TaskRow
  <2>1. task \in TaskRow /\ [task EXCEPT !.state = "sleeping", !.wake = {e}] \in TaskRow
    BY TaskSleepsType DEF TypeOK
  <2> QED
    BY <2>1 DEF AwaitEvent
<1> QED
  BY <1>2, <1>3

(* Every step keeps the variables in the sets TypeOK names.                *)
LEMMA TypeStep == TypeOK /\ [Next]_vars => TypeOK'
<1> SUFFICES ASSUME TypeOK, [Next]_vars PROVE TypeOK'
  OBVIOUS
<1> USE DEF TypeOK, rows, clients, world, engine
<1>1. CASE UNCHANGED vars
  BY <1>1 DEF vars
<1>2. ASSUME NEW w \in Workers, ClaimTask(w) PROVE TypeOK'
  <2>1. worker' \in [Workers -> Lane]
    BY <1>2, PcNames, EventNames DEF ClaimTask, Lane, TaskRow
  <2> QED
    BY <1>2, <2>1, TaskStateType, TaskNames DEF ClaimTask
<1>3. ASSUME NEW w \in Workers, EngineRejects(w) PROVE TypeOK'
  BY <1>3, GotoType, PcNames DEF EngineRejects
<1>4. ASSUME NEW w \in Workers, ClaimSettled(w) PROVE TypeOK'
  BY <1>4, GotoType, PcNames DEF ClaimSettled
<1>5. ASSUME NEW w \in Workers, ClaimUnbound(w) PROVE TypeOK'
  BY <1>5, GotoType, PcNames DEF ClaimUnbound
<1>6. ASSUME NEW w \in Workers, ClaimCancelled(w) PROVE TypeOK'
  BY <1>6, CloseRequestsType, MoveType, LifecycleNames, GotoType, PcNames DEF
      ClaimCancelled
<1>7. ASSUME NEW w \in Workers, ClaimRefused(w) PROVE TypeOK'
  BY <1>7, MoveType, LifecycleNames, GotoType, PcNames DEF ClaimRefused
<1>8. ASSUME NEW w \in Workers, ClaimStarts(w) PROVE TypeOK'
  BY <1>8, MoveType, LifecycleNames, GotoType, PcNames DEF ClaimStarts
<1>9. ASSUME NEW w \in Workers, OriginInvalid(w) PROVE TypeOK'
  BY <1>9, FailRunType, GotoType, PcNames DEF OriginInvalid
<1>10. ASSUME NEW w \in Workers, LoadWait(w) PROVE TypeOK'
  <2>1. Len(requests) \in Events
    BY AgentRunAssumption DEF Events
  <2>2. worker' \in [Workers -> Lane]
    BY <1>10, <2>1, PcNames DEF LoadWait, Lane
  <2> QED
    BY <1>10, <2>2 DEF LoadWait
<1>11. ASSUME NEW w \in Workers, LoadNoWait(w) PROVE TypeOK'
  BY <1>11, GotoType, PcNames DEF LoadNoWait
<1>12. ASSUME NEW w \in Workers, LoadRaises(w) PROVE TypeOK'
  BY <1>12, GotoType, PcNames DEF LoadRaises
<1>13. ASSUME NEW w \in Workers, AwaitAnswer(w) PROVE TypeOK'
  <2>1. worker[w].wait \in Events
    BY DEF Lane
  <2> QED
    BY <1>13, <2>1, AwaitEventType, PcNames DEF AwaitAnswer, AwaitEvent
<1>14. ASSUME NEW w \in Workers, Resume(w) PROVE TypeOK'
  BY <1>14, MoveType, LifecycleNames, GotoType, PcNames DEF Resume
<1>15. ASSUME NEW w \in Workers, ResumeRaises(w) PROVE TypeOK'
  BY <1>15, GotoType, PcNames DEF ResumeRaises
<1>16. ASSUME NEW w \in Workers, TurnPause(w) PROVE TypeOK'
  <2>1. PICK k \in Kinds :
          /\ requests' = Append(requests, [kind |-> k, status |-> "pending"])
          /\ Move(WaitingFor[k], FALSE)
    BY <1>16 DEF TurnPause
  <2>2. [kind |-> k, status |-> "pending"] \in Request
    BY DEF Request, Statuses
  <2>3. requests' \in Seq(Request) /\ Len(requests') <= MaxRequests
    BY <1>16, <2>1, <2>2, AgentRunAssumption DEF TurnPause
  <2>4. run' \in RunRow
    BY <2>1, MoveType, LifecycleNames
  <2> QED
    BY <1>16, <2>3, <2>4, GotoType, PcNames DEF TurnPause
<1>17. ASSUME NEW w \in Workers, TurnFinish(w) PROVE TypeOK'
  BY <1>17, MoveType, LifecycleNames, GotoType, PcNames DEF TurnFinish
<1>18. ASSUME NEW w \in Workers, ToolFile(w) PROVE TypeOK'
  BY <1>18 DEF ToolFile
<1>19. ASSUME NEW w \in Workers, TurnPauseForTool(w) PROVE TypeOK'
  BY <1>19, MoveType, LifecycleNames, GotoType, PcNames DEF TurnPauseForTool
<1>20. ASSUME NEW w \in Workers, TurnToolDone(w) PROVE TypeOK'
  BY <1>20, GotoType, PcNames DEF TurnToolDone
<1>21. ASSUME NEW w \in Workers, ToolAwait(w) PROVE TypeOK'
  BY <1>21, AwaitEventType, EventNames, PcNames DEF ToolAwait, AwaitEvent
<1>22. ASSUME NEW w \in Workers, ToolResume(w) PROVE TypeOK'
  BY <1>22, MoveType, LifecycleNames, GotoType, PcNames DEF ToolResume
<1>23. ASSUME NEW w \in Workers, ToolResumeRaises(w) PROVE TypeOK'
  BY <1>23, GotoType, PcNames DEF ToolResumeRaises
<1>24. ASSUME NEW w \in Workers, ExecutorRaises(w) PROVE TypeOK'
  BY <1>24, GotoType, PcNames DEF ExecutorRaises
<1>25. ASSUME NEW w \in Workers, TurnOverBudget(w) PROVE TypeOK'
  BY <1>25, GotoType, PcNames DEF TurnOverBudget
<1>26. ASSUME NEW w \in Workers, BudgetFail(w) PROVE TypeOK'
  BY <1>26, FailRunType, GotoType, PcNames DEF BudgetFail
<1>27. ASSUME NEW w \in Workers, Unwind(w) PROVE TypeOK'
  <2>1. run' \in RunRow /\ requests' \in Seq(Request) /\ Len(requests') <= MaxRequests
    BY <1>27, AcceptCancellationType DEF Unwind
  <2>2. worker' \in [Workers -> Lane]
    BY <1>27, PcNames, EventNames DEF Unwind, Lane, Idle
  <2> QED
    BY <1>27, <2>1, <2>2 DEF Unwind
<1>28. ASSUME NEW w \in Workers, Report(w) PROVE TypeOK'
  BY <1>28, LeaveType, TaskFailedType DEF Report
<1>29. ASSUME NEW w \in Workers, Complete(w) PROVE TypeOK'
  BY <1>29, LeaveType, TaskStateType, TaskNames DEF Complete
<1>30. ASSUME NEW w \in Workers, Crash(w) PROVE TypeOK'
  BY <1>30, LeaveType DEF Crash
<1>31. CASE ClaimExpires
  BY <1>31, TaskFailedType DEF ClaimExpires
<1>32. CASE SpawnLoad
  BY <1>32 DEF SpawnLoad
<1>33. CASE SpawnTask
  BY <1>33, TaskStateType, TaskNames DEF SpawnTask
<1>34. CASE BindTask
  <2>1. run' \in RunRow
    BY <1>34 DEF BindTask, RunRow
  <2> QED
    BY <1>34, <2>1 DEF BindTask
<1>35. CASE SpawnCancel
  BY <1>35, TaskCancelledType DEF SpawnCancel
<1>36. CASE SpawnCrash
  BY <1>36 DEF SpawnCrash
<1>37. CASE CancelRequest
  <2>1. run' \in RunRow
    BY <1>37, LifecycleNames DEF CancelRequest, RunRow
  <2> QED
    BY <1>37, <2>1 DEF CancelRequest
<1>38. CASE CancelObserve
  BY <1>38 DEF CancelObserve, TaskRow
<1>39. CASE CancelSignal
  BY <1>39, TaskCancelledType, TaskNames DEF CancelSignal
<1>40. CASE CancelAccept
  BY <1>40, AcceptCancellationType DEF CancelAccept
<1>41. CASE CancelCrash
  BY <1>41, TaskNames DEF CancelCrash
<1>42. CASE EmitAnswer
  BY <1>42, EmitType, EventNames DEF EmitAnswer
<1>43. CASE ResponderCrash
  BY <1>43, EventNames DEF ResponderCrash
<1>44. CASE Reconcile
  BY <1>44, AcceptCancellationType, FailRunType DEF Reconcile
<1>45. CASE Revoke
  BY <1>45 DEF Revoke
<1>46. CASE ToolFinish
  BY <1>46 DEF ToolFinish
<1>47. CASE ToolEmit
  BY <1>47, EmitType, EventNames DEF ToolEmit
<1>48. ASSUME NEW i \in DOMAIN requests, Answer(i) PROVE TypeOK'
  <2>1. requests[i] \in Request /\ i \in Events
    BY AgentRunAssumption DEF Events
  <2>2. [requests[i] EXCEPT !.status = "answered"] \in Request
    BY <2>1 DEF Request, Statuses
  <2>3. requests' \in Seq(Request) /\ Len(requests') <= MaxRequests
    BY <1>48, <2>2 DEF Answer
  <2> QED
    BY <1>48, <2>1, <2>3 DEF Answer
<1> QED
  BY <1>1, <1>2, <1>3, <1>4, <1>5, <1>6, <1>7, <1>8, <1>9, <1>10, <1>11,
      <1>12, <1>13, <1>14, <1>15, <1>16, <1>17, <1>18, <1>19, <1>20, <1>21,
      <1>22, <1>23, <1>24, <1>25, <1>26, <1>27, <1>28, <1>29, <1>30, <1>31,
      <1>32, <1>33, <1>34, <1>35, <1>36, <1>37, <1>38, <1>39, <1>40, <1>41,
      <1>42, <1>43, <1>44, <1>45, <1>46, <1>47, <1>48 DEF Next, Attempt, Spawn

LEMMA InitType == Init => TypeOK
<1> SUFFICES ASSUME Init PROVE TypeOK
  OBVIOUS
<1>1. run \in RunRow
  BY LifecycleNames DEF Init, RunRow
<1>2. task \in TaskRow
  BY TaskNames DEF Init, TaskRow
<1>3. worker \in [Workers -> Lane]
  BY PcNames, EventNames DEF Init, Idle, Lane
<1>4. requests \in Seq(Request) /\ Len(requests) <= MaxRequests
  BY AgentRunAssumption DEF Init
<1> QED
  BY <1>1, <1>2, <1>3, <1>4, TaskNames, EventNames DEF Init, TypeOK

(* Type correctness: every variable stays in the set TypeOK names, in      *)
(* particular every event a worker waits for is that of a filed request.   *)
THEOREM TypeCorrect == Spec => []TypeOK
BY InitType, TypeStep, PTL DEF Spec

-----------------------------------------------------------------------------
(* The inductive invariant: what the safety properties need to know of the *)
(* lanes and of the two clients that talk to the engine.                   *)

BoundPCs == {"loading", "awaiting", "resuming", "turn", "reloading",
             "tool_awaiting", "tool_resuming", "over_budget"}

(* A worker beyond its claim has seen the run bound.                       *)
WorkerKnowsBinding ==
  \A w \in Workers : worker[w].pc \in BoundPCs => run.bound

(* A worker that returns a receipt has seen the run settled.               *)
ReceiptMeansSettled ==
  \A w \in Workers : worker[w].pc = "receipt" => run.lifecycle \in Terminal

(* Whoever is about to cancel the task has seen the request on record.     *)
CancelRecorded ==
  spawner = "cancel" \/ canceller.pc # "idle" => run.cancellationRequested

Others ==
  /\ WorkerKnowsBinding
  /\ ReceiptMeansSettled
  /\ CancelRecorded
  /\ EngineCancelIsRequested
  /\ CompletedTaskHasResult

IInv ==
  /\ TypeOK
  /\ ReservationMatchesLifecycle
  /\ LeavesQueueOnlyBound
  /\ Others

(* How a step may change the row of the run: as the contract says, without *)
(* losing the binding, and out of the queue only with it.                  *)
RowStep ==
  /\ [Contract!Next]_(Contract!vars)
  /\ run.bound => run'.bound
  /\ \/ run'.lifecycle = run.lifecycle
     \/ run'.bound
     \/ run'.lifecycle = "cancelled" /\ run'.cancellationRequested

LEMMA OpenOrTerminal ==
  ASSUME TypeOK
  PROVE  run.lifecycle \in Terminal \/ run.lifecycle \in Contract!Open
BY DEF TypeOK, RunRow, Lifecycles, InputWaits, WaitingFor, Contract!Open, Contract!Waiting

LEMMA WaitingNames == \A k \in Kinds : WaitingFor[k] \in Contract!Waiting
BY AgentRunAssumption DEF WaitingFor, Contract!Waiting

(* The steps of the contract, as updates of the row.                       *)
LEMMA FailStep ==
  ASSUME TypeOK, CanFail, run.bound, Move("failed", FALSE)
  PROVE  RowStep
BY OpenOrTerminal DEF TypeOK, RunRow, CanFail, Move, RowStep,
   Contract!Next, Contract!Fail, Contract!Move

LEMMA CancelStep ==
  ASSUME TypeOK, run.lifecycle \notin Terminal,
         run' = [run EXCEPT !.lifecycle = "cancelled", !.active = FALSE,
                            !.cancellationRequested = TRUE]
  PROVE  RowStep
BY OpenOrTerminal DEF TypeOK, RunRow, RowStep, Contract!Next, Contract!Cancel

LEMMA FailRunStep ==
  ASSUME TypeOK, run.bound, FailRun
  PROVE  RowStep
BY FailStep DEF FailRun

LEMMA AcceptCancellationStep ==
  ASSUME TypeOK, AcceptCancellation
  PROVE  RowStep
<1>1. CASE run.lifecycle \in Terminal
  BY <1>1 DEF AcceptCancellation, rows, RowStep, Contract!vars
<1>2. CASE run.lifecycle \notin Terminal
  BY <1>2, CancelStep DEF AcceptCancellation
<1> QED
  BY <1>1, <1>2

(* Every step is a RowStep: one contract step, or none, for each action.   *)
LEMMA RunStep ==
  TypeOK /\ WorkerKnowsBinding /\ ReservationMatchesLifecycle /\ [Next]_vars => RowStep
<1> SUFFICES ASSUME TypeOK, WorkerKnowsBinding, ReservationMatchesLifecycle, [Next]_vars
             PROVE  RowStep
  OBVIOUS
<1>0. ASSUME UNCHANGED run PROVE RowStep
  BY <1>0 DEF RowStep, Contract!vars
<1>1. CASE UNCHANGED vars
  BY <1>0, <1>1 DEF vars
<1>2. ASSUME NEW w \in Workers, ClaimTask(w) PROVE RowStep
  BY <1>0, <1>2 DEF ClaimTask, rows
<1>3. ASSUME NEW w \in Workers, EngineRejects(w) PROVE RowStep
  BY <1>0, <1>3 DEF EngineRejects, rows
<1>4. ASSUME NEW w \in Workers, ClaimSettled(w) PROVE RowStep
  BY <1>0, <1>4 DEF ClaimSettled, rows
<1>5. ASSUME NEW w \in Workers, ClaimUnbound(w) PROVE RowStep
  BY <1>0, <1>5 DEF ClaimUnbound, rows
<1>6. ASSUME NEW w \in Workers, ClaimCancelled(w) PROVE RowStep
  <2>1. run' = [run EXCEPT !.lifecycle = "cancelled", !.active = FALSE,
                           !.cancellationRequested = TRUE]
    BY <1>6 DEF ClaimCancelled, Move, TypeOK, RunRow
  <2> QED
    BY <1>6, <2>1, CancelStep DEF ClaimCancelled
<1>7. ASSUME NEW w \in Workers, ClaimRefused(w) PROVE RowStep
  BY <1>7, FailStep DEF ClaimRefused, ClaimAllowed
<1>8. ASSUME NEW w \in Workers, ClaimStarts(w) PROVE RowStep
  BY <1>8 DEF TypeOK, RunRow, RowStep, ReservationMatchesLifecycle,
      Contract!Next, Contract!Move, Contract!Start, Contract!vars, Terminal,
      Move, CanFail, At, ClaimAllowed, ClaimStarts
<1>9. ASSUME NEW w \in Workers, OriginInvalid(w) PROVE RowStep
  BY <1>0, <1>9, FailRunStep DEF WorkerKnowsBinding, BoundPCs, At,
      OriginInvalid, rows
<1>10. ASSUME NEW w \in Workers, LoadWait(w) PROVE RowStep
  BY <1>0, <1>10 DEF LoadWait, rows
<1>11. ASSUME NEW w \in Workers, LoadNoWait(w) PROVE RowStep
  BY <1>0, <1>11 DEF LoadNoWait, rows
<1>12. ASSUME NEW w \in Workers, LoadRaises(w) PROVE RowStep
  BY <1>0, <1>12 DEF LoadRaises, rows
<1>13. ASSUME NEW w \in Workers, AwaitAnswer(w) PROVE RowStep
  BY <1>0, <1>13 DEF AwaitAnswer, AwaitEvent, rows
<1>14. ASSUME NEW w \in Workers, Resume(w) PROVE RowStep
  <2>1. run.bound
    BY <1>14 DEF Resume, At, WorkerKnowsBinding, BoundPCs
  <2>2. CASE run.lifecycle = "running"
    BY <1>14, <1>0, <2>2 DEF Resume
  <2>3. CASE run.lifecycle # "running"
    <3> DEFINE request == requests[worker[w].wait]
    <3>1. request \in Request
      BY <1>14 DEF Resume, TypeOK
    <3>2. run.lifecycle = WaitingFor[request.kind] /\ request.kind \in Kinds
      BY <1>14, <2>3, <3>1 DEF Resume, ResumeAllowed, Request
    <3>3. run.lifecycle \in Contract!Waiting /\ ~run.cancellationRequested
      BY <1>14, <3>2, WaitingNames DEF Resume, ResumeAllowed
    <3> QED
      BY <1>14, <2>1, <2>3, <3>3 DEF Resume, Move, TypeOK, RunRow, RowStep,
         Contract!Next, Contract!Resume, Contract!Move
  <2> QED
    BY <2>2, <2>3
<1>15. ASSUME NEW w \in Workers, ResumeRaises(w) PROVE RowStep
  BY <1>0, <1>15 DEF ResumeRaises, rows
<1>16. ASSUME NEW w \in Workers, TurnPause(w) PROVE RowStep
  <2>1. PICK k \in Kinds : Move(WaitingFor[k], FALSE)
    BY <1>16 DEF TurnPause
  <2>2. run.bound
    BY <1>16 DEF TurnPause, At, WorkerKnowsBinding, BoundPCs
  <2> QED
    BY <1>16, <2>1, <2>2, WaitingNames DEF TurnPause, TurnAllowed, Move, TypeOK,
       RunRow, RowStep, Contract!Next, Contract!Wait, Contract!Move
<1>17. ASSUME NEW w \in Workers, TurnFinish(w) PROVE RowStep
  BY <1>17 DEF TypeOK, RunRow, RowStep, WorkerKnowsBinding, BoundPCs,
      Contract!Next, Contract!Move, Contract!Finish, Contract!Fail,
      Contract!Open, Move, At, TurnAllowed, TurnFinish
<1>18. ASSUME NEW w \in Workers, ToolFile(w) PROVE RowStep
  BY <1>0, <1>18 DEF ToolFile, rows
<1>19. ASSUME NEW w \in Workers, TurnPauseForTool(w) PROVE RowStep
  BY <1>19 DEF TypeOK, RunRow, RowStep, WorkerKnowsBinding, BoundPCs,
      Contract!Next, Contract!Move, Contract!Wait, Contract!Waiting,
      Contract!vars, Move, At, TurnPauseForTool
<1>20. ASSUME NEW w \in Workers, TurnToolDone(w) PROVE RowStep
  BY <1>0, <1>20 DEF TurnToolDone, rows
<1>21. ASSUME NEW w \in Workers, ToolAwait(w) PROVE RowStep
  BY <1>0, <1>21 DEF ToolAwait, AwaitEvent, rows
<1>22. ASSUME NEW w \in Workers, ToolResume(w) PROVE RowStep
  BY <1>22 DEF TypeOK, RunRow, RowStep, WorkerKnowsBinding, BoundPCs,
      Contract!Next, Contract!Move, Contract!Resume, Contract!Waiting,
      Contract!vars, Move, At, ToolResume
<1>23. ASSUME NEW w \in Workers, ToolResumeRaises(w) PROVE RowStep
  BY <1>0, <1>23 DEF ToolResumeRaises, rows
<1>24. ASSUME NEW w \in Workers, ExecutorRaises(w) PROVE RowStep
  BY <1>0, <1>24 DEF ExecutorRaises, rows
<1>25. ASSUME NEW w \in Workers, TurnOverBudget(w) PROVE RowStep
  BY <1>0, <1>25 DEF TurnOverBudget, rows
<1>26. ASSUME NEW w \in Workers, BudgetFail(w) PROVE RowStep
  BY <1>0, <1>26, FailRunStep DEF WorkerKnowsBinding, BoundPCs, At,
      BudgetFail, rows
<1>27. ASSUME NEW w \in Workers, Unwind(w) PROVE RowStep
  BY <1>0, <1>27, AcceptCancellationStep DEF WorkerKnowsBinding, BoundPCs, At,
      Unwind, rows
<1>28. ASSUME NEW w \in Workers, Report(w) PROVE RowStep
  BY <1>0, <1>28 DEF Report, rows
<1>29. ASSUME NEW w \in Workers, Complete(w) PROVE RowStep
  BY <1>0, <1>29 DEF Complete, rows
<1>30. ASSUME NEW w \in Workers, Crash(w) PROVE RowStep
  BY <1>0, <1>30 DEF Crash, rows
<1>31. CASE ClaimExpires
  BY <1>0, <1>31 DEF ClaimExpires, rows
<1>32. CASE SpawnLoad
  BY <1>0, <1>32 DEF SpawnLoad, rows
<1>33. CASE SpawnTask
  BY <1>0, <1>33 DEF SpawnTask, rows
<1>34. CASE BindTask
  BY <1>34 DEF TypeOK, RunRow, RowStep, Contract!vars, BindTask
<1>35. CASE SpawnCancel
  BY <1>0, <1>35 DEF SpawnCancel, rows
<1>36. CASE SpawnCrash
  BY <1>0, <1>36 DEF SpawnCrash, rows
<1>37. CASE CancelRequest
  <2>1. run.lifecycle \in Contract!Open
    BY <1>37, OpenOrTerminal DEF CancelRequest
  <2>2. CASE run.lifecycle = "queued" /\ ~run.bound /\ ~run.cancellationRequested
    BY <1>37, <2>1, <2>2 DEF CancelRequest, TypeOK, RunRow, RowStep,
       Contract!Next, Contract!Cancel
  <2>3. CASE ~(run.lifecycle = "queued" /\ ~run.bound /\ ~run.cancellationRequested)
    <3>1. run' = [run EXCEPT !.cancellationRequested = TRUE]
      BY <1>37, <2>3 DEF CancelRequest
    <3> QED
      BY <2>1, <3>1 DEF TypeOK, RunRow, RowStep, Contract!Next, Contract!vars,
         Contract!RequestCancellation
  <2> QED
    BY <2>2, <2>3
<1>38. CASE CancelObserve
  BY <1>0, <1>38 DEF CancelObserve, rows
<1>39. CASE CancelSignal
  BY <1>0, <1>39 DEF CancelSignal, rows
<1>40. CASE CancelAccept
  BY <1>0, <1>40, AcceptCancellationStep DEF WorkerKnowsBinding, BoundPCs,
      CancelAccept, rows
<1>41. CASE CancelCrash
  BY <1>0, <1>41 DEF CancelCrash, rows
<1>42. CASE EmitAnswer
  BY <1>0, <1>42 DEF EmitAnswer, rows
<1>43. CASE ResponderCrash
  BY <1>0, <1>43 DEF ResponderCrash, rows
<1>44. CASE Reconcile
  BY <1>0, <1>44, FailRunStep, AcceptCancellationStep DEF WorkerKnowsBinding, BoundPCs,
      Reconcile, rows
<1>45. CASE Revoke
  BY <1>0, <1>45 DEF Revoke, rows
<1>46. CASE ToolFinish
  BY <1>0, <1>46 DEF ToolFinish, rows
<1>47. CASE ToolEmit
  BY <1>0, <1>47 DEF ToolEmit, rows
<1>48. ASSUME NEW i \in DOMAIN requests, Answer(i) PROVE RowStep
  BY <1>0, <1>48 DEF Answer
<1> QED
  BY <1>1, <1>2, <1>3, <1>4, <1>5, <1>6, <1>7, <1>8, <1>9, <1>10, <1>11,
      <1>12, <1>13, <1>14, <1>15, <1>16, <1>17, <1>18, <1>19, <1>20, <1>21,
      <1>22, <1>23, <1>24, <1>25, <1>26, <1>27, <1>28, <1>29, <1>30, <1>31,
      <1>32, <1>33, <1>34, <1>35, <1>36, <1>37, <1>38, <1>39, <1>40, <1>41,
      <1>42, <1>43, <1>44, <1>45, <1>46, <1>47, <1>48 DEF Next, Attempt, Spawn

(* What every contract step keeps: the request, the end, the reservation.  *)
LEMMA RowStepMonotone ==
  ASSUME TypeOK, RowStep
  PROVE  /\ run.bound => run'.bound
         /\ run.cancellationRequested => run'.cancellationRequested
         /\ run.lifecycle \in Terminal => run'.lifecycle \in Terminal
BY DEF RowStep, TypeOK, RunRow, Terminal, Contract!Next, Contract!vars,
   Contract!Start, Contract!Wait, Contract!Resume, Contract!Finish, Contract!Fail,
   Contract!Move, Contract!RequestCancellation, Contract!Cancel, Contract!Open,
   Contract!Waiting

LEMMA RowStepReservation ==
  ASSUME TypeOK, TypeOK', ReservationMatchesLifecycle, RowStep
  PROVE  ReservationMatchesLifecycle'
BY DEF RowStep, TypeOK, RunRow, ReservationMatchesLifecycle, Contract!Next, Contract!vars,
   Contract!Start, Contract!Wait, Contract!Resume, Contract!Finish, Contract!Fail,
   Contract!Move, Contract!RequestCancellation, Contract!Cancel, Contract!Open,
   Contract!Waiting

LEMMA RowStepLeavesQueue ==
  ASSUME TypeOK, LeavesQueueOnlyBound, RowStep
  PROVE  LeavesQueueOnlyBound'
BY RowStepMonotone DEF RowStep, LeavesQueueOnlyBound

LEMMA GotoLane ==
  ASSUME worker \in [Workers -> Lane], NEW w \in Workers, NEW pc, Goto(w, pc)
  PROVE  \A v \in Workers : /\ v # w => worker'[v] = worker[v]
                            /\ v = w => worker'[v].pc = pc
BY DEF Lane, Goto

LEMMA AwaitEventLane ==
  ASSUME worker \in [Workers -> Lane], NEW w \in Workers, NEW e, NEW pc,
         AwaitEvent(w, e, pc)
  PROVE  \A v \in Workers : /\ v # w => worker'[v] = worker[v]
                            /\ v = w => worker'[v].pc \in {pc, "suspending"}
<1>1. CASE Goto(w, pc)
  BY <1>1, GotoLane
<1>2. CASE Goto(w, "suspending")
  BY <1>2, GotoLane
<1> QED
  BY <1>1, <1>2 DEF AwaitEvent, Goto

(* What lanes and clients know stays true, and the engine's verdicts stay  *)
(* those the row accounts for.                                             *)
LEMMA OthersStep == IInv /\ [Next]_vars => Others'
<1> SUFFICES ASSUME IInv, [Next]_vars PROVE Others'
  OBVIOUS
<1>m. /\ run.bound => run'.bound
      /\ run.cancellationRequested => run'.cancellationRequested
      /\ run.lifecycle \in Terminal => run'.lifecycle \in Terminal
  BY RunStep, RowStepMonotone DEF IInv, Others
<1> USE DEF IInv, TypeOK, Lane, Others, BoundPCs, WorkerKnowsBinding,
      ReceiptMeansSettled, CancelRecorded, EngineCancelIsRequested,
      CompletedTaskHasResult, rows, clients, world, engine
<1>1. CASE UNCHANGED vars
  BY <1>1 DEF vars
<1>2. ASSUME NEW w \in Workers, ClaimTask(w) PROVE Others'
  BY <1>m, <1>2 DEF At, ClaimTask
<1>3. ASSUME NEW w \in Workers, EngineRejects(w) PROVE Others'
  <2>1. \A v \in Workers : worker'[v].pc \in BoundPCs \union {"receipt"} => worker'[v] = worker[v]
    BY <1>3 DEF EngineRejects, Goto
  <2> QED
    BY <1>m, <1>3, <2>1 DEF EngineRejects
<1>4. ASSUME NEW w \in Workers, ClaimSettled(w) PROVE Others'
  BY <1>m, <1>4 DEF Terminal, At, Goto, ClaimSettled
<1>5. ASSUME NEW w \in Workers, ClaimUnbound(w) PROVE Others'
  BY <1>m, <1>5 DEF Terminal, At, Goto, ClaimUnbound
<1>6. ASSUME NEW w \in Workers, ClaimCancelled(w) PROVE Others'
  BY <1>m, <1>6 DEF Terminal, Move, At, Goto, ClaimCancelled
<1>7. ASSUME NEW w \in Workers, ClaimRefused(w) PROVE Others'
  BY <1>m, <1>7 DEF Terminal, Move, CanFail, At, Goto, ClaimAllowed,
      ClaimRefused
<1>8. ASSUME NEW w \in Workers, ClaimStarts(w) PROVE Others'
  BY <1>m, <1>8 DEF Terminal, Move, CanFail, At, Goto, ClaimAllowed,
      ClaimStarts
<1>9. ASSUME NEW w \in Workers, OriginInvalid(w) PROVE Others'
  BY <1>m, <1>9 DEF Terminal, Move, CanFail, FailRun, At, Goto, OriginInvalid
<1>10. ASSUME NEW w \in Workers, LoadWait(w) PROVE Others'
  BY <1>m, <1>10 DEF LoadWait
<1>11. ASSUME NEW w \in Workers, LoadNoWait(w) PROVE Others'
  BY <1>m, <1>11 DEF At, Goto, LoadNoWait
<1>12. ASSUME NEW w \in Workers, LoadRaises(w) PROVE Others'
  BY <1>m, <1>12 DEF At, Goto, LoadRaises
<1>13. ASSUME NEW w \in Workers, AwaitAnswer(w) PROVE Others'
  <2>1. \A v \in Workers : \/ worker'[v] = worker[v]
                           \/ worker[v].pc \in BoundPCs /\ worker'[v].pc # "receipt"
    BY <1>13, AwaitEventLane DEF AwaitAnswer, At
  <2>2. task'.state \in {task.state, "sleeping"}
    BY <1>13 DEF AwaitAnswer, AwaitEvent, TaskRow
  <2> QED
    BY <1>m, <1>13, <2>1, <2>2 DEF AwaitAnswer, AwaitEvent
<1>14. ASSUME NEW w \in Workers, Resume(w) PROVE Others'
  BY <1>m, <1>14 DEF Move, At, Goto, ResumeAllowed, Resume
<1>15. ASSUME NEW w \in Workers, ResumeRaises(w) PROVE Others'
  BY <1>m, <1>15 DEF At, Goto, ResumeAllowed, ResumeRaises
<1>16. ASSUME NEW w \in Workers, TurnPause(w) PROVE Others'
  BY <1>m, <1>16 DEF Move, At, Goto, TurnAllowed, TurnPause
<1>17. ASSUME NEW w \in Workers, TurnFinish(w) PROVE Others'
  <2>1. run'.lifecycle \in Terminal
    BY <1>17 DEF TurnFinish, Move, Terminal, RunRow
  <2>2. \A v \in Workers : worker'[v].pc = IF v = w THEN "receipt" ELSE worker[v].pc
    BY <1>17 DEF TurnFinish, Goto
  <2> QED
    BY <1>m, <1>17, <2>1, <2>2 DEF TurnFinish
<1>18. ASSUME NEW w \in Workers, ToolFile(w) PROVE Others'
  BY <1>m, <1>18 DEF At, ToolFile
<1>19. ASSUME NEW w \in Workers, TurnPauseForTool(w) PROVE Others'
  BY <1>m, <1>19 DEF Move, At, Goto, TurnPauseForTool
<1>20. ASSUME NEW w \in Workers, TurnToolDone(w) PROVE Others'
  BY <1>m, <1>20 DEF At, Goto, TurnToolDone
<1>21. ASSUME NEW w \in Workers, ToolAwait(w) PROVE Others'
  <2>1. \A v \in Workers : \/ worker'[v] = worker[v]
                           \/ worker[v].pc \in BoundPCs /\ worker'[v].pc # "receipt"
    BY <1>21, AwaitEventLane DEF ToolAwait, At
  <2>2. task'.state \in {task.state, "sleeping"}
    BY <1>21 DEF ToolAwait, AwaitEvent, TaskRow
  <2> QED
    BY <1>m, <1>21, <2>1, <2>2 DEF ToolAwait, AwaitEvent
<1>22. ASSUME NEW w \in Workers, ToolResume(w) PROVE Others'
  BY <1>m, <1>22 DEF Move, Holds, At, Goto, ToolResume
<1>23. ASSUME NEW w \in Workers, ToolResumeRaises(w) PROVE Others'
  BY <1>m, <1>23 DEF At, Goto, ToolResumeRaises
<1>24. ASSUME NEW w \in Workers, ExecutorRaises(w) PROVE Others'
  BY <1>m, <1>24 DEF Goto, ExecutorRaises
<1>25. ASSUME NEW w \in Workers, TurnOverBudget(w) PROVE Others'
  BY <1>m, <1>25 DEF At, Goto, TurnOverBudget
<1>26. ASSUME NEW w \in Workers, BudgetFail(w) PROVE Others'
  <2>1. \A v \in Workers : \/ v # w /\ worker'[v] = worker[v]
                           \/ worker'[v].pc = "receipt" /\ run'.lifecycle \in Terminal
                           \/ worker'[v].pc = "reporting"
    <3>1. CASE FailRun /\ Goto(w, "receipt")
      BY <3>1 DEF FailRun, Move, Goto, Terminal, RunRow
    <3>2. CASE run.lifecycle = "failed" /\ Goto(w, "receipt") /\ UNCHANGED rows
      BY <3>2 DEF Goto, Terminal
    <3>3. CASE Goto(w, "reporting")
      BY <3>3, GotoLane
    <3> QED
      BY <1>26, <3>1, <3>2, <3>3 DEF BudgetFail
  <2> QED
    BY <1>m, <1>26, <2>1 DEF BudgetFail
<1>27. ASSUME NEW w \in Workers, Unwind(w) PROVE Others'
  BY <1>m, <1>27 DEF Terminal, Idle, AcceptCancellation, At, Unwind
<1>28. ASSUME NEW w \in Workers, Report(w) PROVE Others'
  BY <1>m, <1>28 DEF Idle, Holds, TaskFailed, At, Leave, Report
<1>29. ASSUME NEW w \in Workers, Complete(w) PROVE Others'
  BY <1>m, <1>29 DEF Idle, Holds, At, Leave, Complete
<1>30. ASSUME NEW w \in Workers, Crash(w) PROVE Others'
  BY <1>m, <1>30 DEF Idle, At, Leave, Crash
<1>31. CASE ClaimExpires
  BY <1>m, <1>31 DEF TaskFailed, ClaimExpires
<1>32. CASE SpawnLoad
  BY <1>m, <1>32 DEF SpawnLoad
<1>33. CASE SpawnTask
  BY <1>m, <1>33 DEF SpawnTask
<1>34. CASE BindTask
  BY <1>m, <1>34 DEF BindTask
<1>35. CASE SpawnCancel
  BY <1>m, <1>35 DEF TaskCancelled, SpawnCancel
<1>36. CASE SpawnCrash
  BY <1>m, <1>36 DEF SpawnCrash
<1>37. CASE CancelRequest
  BY <1>m, <1>37 DEF Terminal, CancelRequest
<1>38. CASE CancelObserve
  BY <1>m, <1>38 DEF CancelObserve
<1>39. CASE CancelSignal
  BY <1>m, <1>39 DEF TaskCancelled, CancelSignal
<1>40. CASE CancelAccept
  BY <1>m, <1>40 DEF Terminal, AcceptCancellation, CancelAccept
<1>41. CASE CancelCrash
  BY <1>m, <1>41 DEF CancelCrash
<1>42. CASE EmitAnswer
  BY <1>m, <1>42 DEF Emit, EmitAnswer
<1>43. CASE ResponderCrash
  BY <1>m, <1>43 DEF ResponderCrash
<1>44. CASE Reconcile
  BY <1>m, <1>44 DEF Terminal, Move, AcceptCancellation, CanFail, FailRun,
      Reconcile
<1>45. CASE Revoke
  BY <1>m, <1>45 DEF Revoke
<1>46. CASE ToolFinish
  BY <1>m, <1>46 DEF ToolFinish
<1>47. CASE ToolEmit
  BY <1>m, <1>47 DEF Emit, ToolEmit
<1>48. ASSUME NEW i \in DOMAIN requests, Answer(i) PROVE Others'
  BY <1>m, <1>48 DEF Answer
<1> QED
  BY <1>1, <1>2, <1>3, <1>4, <1>5, <1>6, <1>7, <1>8, <1>9, <1>10, <1>11,
      <1>12, <1>13, <1>14, <1>15, <1>16, <1>17, <1>18, <1>19, <1>20, <1>21,
      <1>22, <1>23, <1>24, <1>25, <1>26, <1>27, <1>28, <1>29, <1>30, <1>31,
      <1>32, <1>33, <1>34, <1>35, <1>36, <1>37, <1>38, <1>39, <1>40, <1>41,
      <1>42, <1>43, <1>44, <1>45, <1>46, <1>47, <1>48 DEF Next, Attempt, Spawn

LEMMA InitIInv == Init => IInv
<1> SUFFICES ASSUME Init PROVE IInv
  OBVIOUS
<1>1. TypeOK
  BY InitType
<1>2. ReservationMatchesLifecycle /\ LeavesQueueOnlyBound
  BY DEF Init, ReservationMatchesLifecycle, LeavesQueueOnlyBound
<1>3. Others
  BY DEF Init, Idle, Others, BoundPCs, WorkerKnowsBinding, ReceiptMeansSettled,
     CancelRecorded, EngineCancelIsRequested, CompletedTaskHasResult
<1> QED
  BY <1>1, <1>2, <1>3 DEF IInv

LEMMA Inductive == IInv /\ [Next]_vars => IInv'
<1> SUFFICES ASSUME IInv, [Next]_vars PROVE IInv'
  OBVIOUS
<1>1. TypeOK'
  BY TypeStep DEF IInv
<1>2. RowStep
  BY RunStep DEF IInv, Others
<1>3. ReservationMatchesLifecycle' /\ LeavesQueueOnlyBound'
  BY <1>1, <1>2, RowStepReservation, RowStepLeavesQueue DEF IInv
<1>4. Others'
  BY OthersStep
<1> QED
  BY <1>1, <1>3, <1>4 DEF IInv

LEMMA Invariance == Spec => []IInv
BY InitIInv, Inductive, PTL DEF Spec

-----------------------------------------------------------------------------
(* A run holds its share of the organization's capacity exactly while it   *)
(* is queued or running, through every pause, resume, refusal, failure and *)
(* cancellation, whichever worker or client makes it.                      *)
THEOREM ReservationFollowsLifecycle == Spec => []ReservationMatchesLifecycle
<1>1. IInv => ReservationMatchesLifecycle
  BY DEF IInv
<1> QED
  BY <1>1, Invariance, PTL

(* The engine holds a completed task only over a committed end of its run. *)
THEOREM CompletionsAreCommitted == Spec => []CompletedTaskHasResult
<1>1. IInv => CompletedTaskHasResult
  BY DEF IInv, Others
<1> QED
  BY <1>1, Invariance, PTL

(* A task that the engine cancelled has its request on the row, whichever  *)
(* of canceller and spawner delivered it, and whatever crashed in between. *)
THEOREM CancellationsAreRequested == Spec => []EngineCancelIsRequested
<1>1. IInv => EngineCancelIsRequested
  BY DEF IInv, Others
<1> QED
  BY <1>1, Invariance, PTL

(* The database constraint on the task binding is never violated by a      *)
(* transaction of the program.                                             *)
THEOREM QueueLeftOnlyBound == Spec => []LeavesQueueOnlyBound
<1>1. IInv => LeavesQueueOnlyBound
  BY DEF IInv
<1> QED
  BY <1>1, Invariance, PTL

(* The run with its workers, engine and clients implements the contract:   *)
(* every step is one contract step on the row, or none.                    *)
THEOREM RunImplementsContract == Spec => ImplementsContract
<1>1. Init => Contract!Init
  BY DEF Init, Contract!Init
<1>2. IInv /\ [Next]_vars => [Contract!Next]_(Contract!vars)
  BY RunStep DEF IInv, Others, RowStep
<1> QED
  BY <1>1, <1>2, Invariance, PTL DEF Spec, ImplementsContract, Contract!Spec

-----------------------------------------------------------------------------
(* The waits of a run when no worker outlives its claim: the engine then   *)
(* runs one attempt at a time, so that the run's wait, its requests and    *)
(* what the attempt awaits stay the same story.  With stalled workers they *)
(* do not, which the run AgentRunStaleResume shows.                        *)

(* A lane that executes an attempt; a suspended one has only its except    *)
(* clause left to run, and its claim may be another's by then.             *)
Active(w) == worker[w].pc \notin {"idle", "suspending"}

(* One attempt at a time: who executes holds the task's last claim, and    *)
(* nobody executes beside it, or while the task waits to be claimed.       *)
OneAttempt ==
  \A v \in Workers : Active(v) =>
    /\ task.state \notin {"none", "pending", "sleeping"}
    /\ worker[v].token = task.attempt
    /\ \A w \in Workers : Active(w) => w = v

(* What an attempt awaits is the answer to the run's latest request.       *)
AwaitsLatest ==
  \A w \in Workers :
    worker[w].pc \in {"awaiting", "resuming"} => worker[w].wait = Len(requests)

AttemptInv == TypeOK /\ OneAttempt /\ AwaitsLatest

-----------------------------------------------------------------------------
(* What a step may do to the lanes.                                        *)

SameLength == Len(requests') = Len(requests)

(* The attempt goes on in its lane.                                        *)
Goes(w) ==
  /\ Active(w)
  /\ \E pc \in PCs \ {"awaiting", "resuming"} : Goto(w, pc)
  /\ task' = task

LEMMA GoesKeeps ==
  ASSUME AttemptInv, NEW w \in Workers, Goes(w)
  PROVE  OneAttempt' /\ AwaitsLatest'
<1>1. PICK pc \in PCs \ {"awaiting", "resuming"} : Goto(w, pc)
  BY DEF Goes
<1>2. /\ worker'[w].pc = pc /\ worker'[w].token = worker[w].token
      /\ \A v \in Workers : v # w => worker'[v] = worker[v]
  BY <1>1 DEF AttemptInv, TypeOK, Lane, Goto
<1>3. \A v \in Workers : Active(v) => v = w
  BY DEF Goes, AttemptInv, OneAttempt
<1>4. \A v \in Workers : v # w => ~Active(v)' /\ worker'[v].pc \notin {"awaiting", "resuming"}
  BY <1>2, <1>3 DEF Active
<1>5. OneAttempt'
  BY <1>2, <1>4 DEF Goes, AttemptInv, OneAttempt, Active
<1>6. AwaitsLatest'
  BY <1>1, <1>2, <1>4 DEF AwaitsLatest
<1> QED
  BY <1>5, <1>6

(* A lane gives up its attempt, or is done with it; it alone may tell the  *)
(* engine.                                                                 *)
Stops(w) ==
  /\ worker'[w].pc \in {"idle", "suspending"}
  /\ \A v \in Workers : v # w => worker'[v] = worker[v]
  /\ Active(w) \/ task' = task
  /\ SameLength

LEMMA StopsKeeps ==
  ASSUME AttemptInv, NEW w \in Workers, Stops(w)
  PROVE  OneAttempt' /\ AwaitsLatest'
<1>1. \A v \in Workers : v # w => worker'[v] = worker[v]
  BY DEF Stops
<1>2. ~Active(w)'
  BY DEF Stops, Active
<1>3. \A v \in Workers : Active(v)' => v # w /\ Active(v)
  BY <1>1, <1>2 DEF Active
<1>4. OneAttempt'
  <2>1. CASE Active(w)
    <3>1. \A v \in Workers : ~Active(v)'
      BY <1>3, <2>1 DEF AttemptInv, OneAttempt
    <3> QED
      BY <3>1 DEF OneAttempt
  <2>2. CASE task' = task
    BY <1>1, <1>3, <2>2 DEF AttemptInv, OneAttempt, Active
  <2> QED
    BY <2>1, <2>2 DEF Stops
<1>5. AwaitsLatest'
  <2>1. Len(requests') = Len(requests)
    BY DEF Stops, SameLength
  <2> QED
    BY <1>1, <2>1 DEF Stops, AttemptInv, AwaitsLatest
<1> QED
  BY <1>4, <1>5

(* The lanes stand still; the engine's record changes while nobody         *)
(* executes, or to one that is over.                                       *)
Stands ==
  /\ worker' = worker
  /\ SameLength
  /\ \/ task' = task
     \/ \A w \in Workers : ~Active(w)
     \/ task'.state = "cancelled" /\ task'.attempt = task.attempt

LEMMA StandsKeeps ==
  ASSUME AttemptInv, Stands
  PROVE  OneAttempt' /\ AwaitsLatest'
BY DEF AttemptInv, Stands, SameLength, OneAttempt, AwaitsLatest, Active

LEMMA ClosingKeepsLength ==
  ASSUME TypeOK, \/ CloseRequests \/ AcceptCancellation \/ FailRun \/ UNCHANGED requests
  PROVE  SameLength
<1>1. ASSUME CloseRequests PROVE SameLength
  <2>1. DOMAIN requests' = 1..Len(requests) /\ requests' \in Seq(Request)
    BY <1>1, CloseRequestsType DEF TypeOK, CloseRequests
  <2> QED
    BY <2>1 DEF SameLength, TypeOK
<1> QED
  BY <1>1 DEF AcceptCancellation, FailRun, SameLength, rows

LEMMA NobodySleeps ==
  ASSUME AttemptInv, task.state \in {"none", "pending", "sleeping"}
  PROVE  \A w \in Workers : ~Active(w)
BY DEF AttemptInv, OneAttempt

LEMMA AwaitKeeps ==
  ASSUME AttemptInv, NEW w \in Workers, Active(w), NEW event,
         NEW pc \in PCs \ {"awaiting"},
         AwaitEvent(w, event, pc),
         pc = "resuming" => worker[w].pc = "awaiting"
  PROVE  OneAttempt' /\ AwaitsLatest'
<1>1. CASE Goto(w, pc) /\ task' = task
  <2>1. CASE pc = "resuming"
    <3>1. /\ requests' = requests
          /\ worker'[w] = [worker[w] EXCEPT !.pc = pc]
          /\ \A v \in Workers : v # w => worker'[v] = worker[v]
      BY <1>1 DEF AwaitEvent, rows, AttemptInv, TypeOK, Goto
    <3>2. worker'[w].token = worker[w].token /\ worker'[w].wait = worker[w].wait
          /\ worker'[w].pc = pc
      BY <3>1 DEF AttemptInv, TypeOK, Lane
    <3> QED
      BY <1>1, <2>1, <3>1, <3>2 DEF AttemptInv, OneAttempt, AwaitsLatest, Active
  <2>2. CASE pc # "resuming"
    BY <1>1, <2>2, GoesKeeps DEF Goes
  <2> QED
    BY <2>1, <2>2
<1>2. CASE Goto(w, "suspending")
  <2>1. Stops(w)
    BY <1>2, GotoLane DEF AwaitEvent, rows, Stops, SameLength, AttemptInv, TypeOK
  <2> QED
    BY <2>1, StopsKeeps
<1> QED
  BY <1>1, <1>2 DEF AwaitEvent, Goto

(* Without stalls a claim runs out only when nobody executes.              *)
LEMMA ExpiryStands ==
  ASSUME AttemptInv, ~Stalls, ClaimExpires
  PROVE  Stands
<1>1. \A w \in Workers : ~Active(w)
  BY DEF ClaimExpires, AttemptInv, OneAttempt, Active
<1> QED
  BY <1>1 DEF ClaimExpires, Stands, SameLength, rows

AttemptKept == OneAttempt' /\ AwaitsLatest'

(* Attempts stay one at a time, whatever the step.                         *)
LEMMA AttemptStep ==
  ASSUME AttemptInv, ~Stalls, [Next]_vars
  PROVE  AttemptKept
<1>g. ASSUME NEW w \in Workers, Goes(w) PROVE AttemptKept
  BY <1>g, GoesKeeps DEF AttemptKept
<1>t. ASSUME NEW w \in Workers, Stops(w) PROVE AttemptKept
  BY <1>t, StopsKeeps DEF AttemptKept
<1>s. ASSUME Stands PROVE AttemptKept
  BY <1>s, StandsKeeps DEF AttemptKept
<1>1. CASE UNCHANGED vars
  <2>1. Stands
    BY <1>1 DEF vars, Stands, SameLength
  <2> QED
    BY <2>1, <1>s
<1>2. ASSUME NEW w \in Workers, ClaimTask(w) PROVE AttemptKept
  <2>1. \A v \in Workers : ~Active(v)
    BY <1>2, NobodySleeps DEF ClaimTask, Claimable
  <2>2. /\ worker'[w].pc = "claimed" /\ worker'[w].token = task'.attempt
        /\ task'.state = "running"
        /\ \A v \in Workers : v # w => worker'[v] = worker[v]
    BY <1>2 DEF ClaimTask, AttemptInv, TypeOK, TaskRow, Lane
  <2> QED
    BY <2>1, <2>2 DEF AttemptKept, OneAttempt, AwaitsLatest, Active
<1>3. ASSUME NEW w \in Workers,
             EngineRejects(w) \/ ClaimSettled(w) \/ ClaimUnbound(w) \/
             ClaimCancelled(w)
      PROVE  AttemptKept
  BY <1>3, <1>g, PcNames DEF EngineRejects, ClaimSettled, ClaimUnbound, ClaimCancelled,
     Goes, Active, At, Goto, engine, Executing
<1>4. ASSUME NEW w \in Workers,
             ClaimRefused(w) \/ ClaimStarts(w) \/ OriginInvalid(w) \/
             LoadNoWait(w)
      PROVE  AttemptKept
  BY <1>4, <1>g, PcNames DEF ClaimRefused, ClaimStarts, OriginInvalid, LoadNoWait,
     Goes, Active, At, Goto, engine
<1>5. ASSUME NEW w \in Workers,
             LoadRaises(w) \/ Resume(w) \/ ResumeRaises(w) \/ TurnPause(w)
      PROVE  AttemptKept
  BY <1>5, <1>g, PcNames DEF LoadRaises, Resume, ResumeRaises, TurnPause,
     Goes, Active, At, Goto, engine
<1>6. ASSUME NEW w \in Workers,
             TurnFinish(w) \/ TurnPauseForTool(w) \/ TurnToolDone(w) \/
             ToolResume(w)
      PROVE  AttemptKept
  BY <1>6, <1>g, PcNames DEF TurnFinish, TurnPauseForTool, TurnToolDone, ToolResume,
     Goes, Active, At, Goto, engine
<1>7. ASSUME NEW w \in Workers,
             ToolResumeRaises(w) \/ ExecutorRaises(w) \/ TurnOverBudget(w) \/
             BudgetFail(w)
      PROVE  AttemptKept
  BY <1>7, <1>g, PcNames DEF ToolResumeRaises, ExecutorRaises, TurnOverBudget, BudgetFail,
     Goes, Active, At, Goto, engine
<1>8. ASSUME NEW w \in Workers, LoadWait(w) PROVE AttemptKept
  <2>1. Active(w) /\ task' = task /\ requests' = requests
    BY <1>8 DEF LoadWait, Active, engine, rows
  <2>2. /\ worker'[w].token = worker[w].token /\ worker'[w].wait = Len(requests)
        /\ \A v \in Workers : v # w => worker'[v] = worker[v]
    BY <1>8 DEF LoadWait, AttemptInv, TypeOK, Lane
  <2> QED
    BY <2>1, <2>2 DEF AttemptKept, AttemptInv, OneAttempt, AwaitsLatest, Active
<1>9. ASSUME NEW w \in Workers, AwaitAnswer(w) \/ ToolAwait(w) PROVE AttemptKept
  <2>1. CASE AwaitAnswer(w)
    BY <2>1, AwaitKeeps, PcNames DEF AttemptKept, AwaitAnswer, At, Active
  <2>2. CASE ToolAwait(w)
    BY <2>2, AwaitKeeps, PcNames DEF AttemptKept, ToolAwait, At, Active
  <2> QED
    BY <1>9, <2>1, <2>2
<1>10. ASSUME NEW w \in Workers, ToolFile(w) PROVE AttemptKept
  <2>1. Stands
    BY <1>10 DEF ToolFile, Stands, SameLength, engine, rows
  <2> QED
    BY <2>1, <1>s
<1>11. ASSUME NEW w \in Workers, Unwind(w) PROVE AttemptKept
  <2>1. SameLength
    BY <1>11, ClosingKeepsLength DEF Unwind, AttemptInv, rows
  <2>2. CASE worker[w].pc = "unwinding"
    <3>1. Goto(w, "reporting")
      BY <1>11, <2>2 DEF Unwind, Goto, AttemptInv, TypeOK
    <3> QED
      BY <1>11, <2>2, <3>1, <1>g, PcNames DEF Goes, Active, Unwind, engine
  <2>3. CASE worker[w].pc # "unwinding"
    BY <1>11, <2>1, <2>3, <1>t DEF Unwind, Stops, AttemptInv, TypeOK, Idle, engine
  <2> QED
    BY <2>2, <2>3
<1>12. ASSUME NEW w \in Workers,
              Report(w) \/ Complete(w) \/ Crash(w) PROVE AttemptKept
  BY <1>12, <1>t DEF Report, Complete, Crash, Stops, SameLength, Active, At, Leave, Idle,
     AttemptInv, TypeOK, engine, rows
<1>13. CASE ClaimExpires
  BY <1>13, <1>s, ExpiryStands
<1>14. CASE SpawnTask
  <2>1. Stands
    BY <1>14, NobodySleeps DEF SpawnTask, Stands, SameLength, rows
  <2> QED
    BY <2>1, <1>s
<1>15. CASE SpawnCancel \/ CancelSignal
  <2>1. task' = TaskCancelled
    BY <1>15 DEF SpawnCancel, CancelSignal
  <2>2. task' = task \/ (task'.state = "cancelled" /\ task'.attempt = task.attempt)
    BY <2>1 DEF TaskCancelled, AttemptInv, TypeOK, TaskRow
  <2>3. Stands
    BY <1>15, <2>2 DEF SpawnCancel, CancelSignal, Stands, SameLength, rows
  <2> QED
    BY <2>3, <1>s
<1>16. CASE EmitAnswer \/ ToolEmit
  <2>1. task' = task \/ task.state = "sleeping"
    BY <1>16 DEF EmitAnswer, ToolEmit, Emit
  <2>2. Stands
    BY <1>16, <2>1, NobodySleeps DEF EmitAnswer, ToolEmit, Stands, SameLength, rows
  <2> QED
    BY <2>2, <1>s
<1>17. CASE SpawnLoad \/ BindTask \/ SpawnCrash \/ CancelRequest \/ CancelObserve
           \/ CancelCrash \/ ResponderCrash \/ Revoke \/ ToolFinish
  <2>1. Stands
    BY <1>17 DEF SpawnLoad, BindTask, SpawnCrash, CancelRequest, CancelObserve,
     CancelCrash, ResponderCrash, Revoke, ToolFinish, Stands, SameLength, engine, rows
  <2> QED
    BY <2>1, <1>s
<1>18. CASE CancelAccept \/ Reconcile
  <2>1. SameLength
    BY <1>18, ClosingKeepsLength DEF CancelAccept, Reconcile, AttemptInv
  <2>2. Stands
    BY <1>18, <2>1 DEF CancelAccept, Reconcile, Stands, engine
  <2> QED
    BY <2>2, <1>s
<1>19. ASSUME NEW i \in DOMAIN requests, Answer(i) PROVE AttemptKept
  <2>1. Stands
    BY <1>19 DEF Answer, Stands, SameLength, engine, AttemptInv, TypeOK
  <2> QED
    BY <2>1, <1>s
<1> QED
  BY <1>1, <1>2, <1>3, <1>4, <1>5, <1>6, <1>7, <1>8, <1>9, <1>10, <1>11,
      <1>12, <1>13, <1>14, <1>15, <1>16, <1>17, <1>18, <1>19 DEF Next,
      Attempt, Spawn

-----------------------------------------------------------------------------
(* The wait of the run and its requests.                                   *)

WaitInv == AttemptInv /\ WaitMatchesRequest /\ SettledRunHasNoOpenRequest

WaitsKept == WaitMatchesRequest' /\ SettledRunHasNoOpenRequest'

LEMMA LifecycleKinds ==
  /\ InputWaits = {"waiting_for_input", "waiting_for_approval"}
  /\ \A k \in Kinds : WaitingFor[k] \in InputWaits
  /\ \A l \in InputWaits : l \notin Terminal \union {"queued", "running", "waiting_for_tool"}
BY AgentRunAssumption DEF InputWaits, WaitingFor, Terminal

(* Neither the lifecycle nor the requests change.                          *)
LEMMA SameStory ==
  ASSUME WaitInv, run'.lifecycle = run.lifecycle, requests' = requests
  PROVE  WaitsKept
BY DEF WaitInv, WaitsKept, WaitMatchesRequest, SettledRunHasNoOpenRequest, Latest

(* The run ends, and its requests with it.                                 *)
LEMMA EndedStory ==
  ASSUME run'.lifecycle \in Terminal,
         \/ run'.lifecycle = "failed"
         \/ \A i \in DOMAIN requests' : requests'[i].status # "pending"
  PROVE  WaitsKept
BY LifecycleKinds DEF WaitsKept, WaitMatchesRequest, SettledRunHasNoOpenRequest, Terminal

LEMMA ClosedIsClosed ==
  ASSUME TypeOK, CloseRequests
  PROVE  \A i \in DOMAIN requests' : requests'[i].status # "pending"
<1>1. DOMAIN requests' = DOMAIN requests
  BY DEF CloseRequests
<1>2. ASSUME NEW i \in DOMAIN requests PROVE requests'[i].status # "pending"
  <2>1. requests[i] \in Request
    BY DEF TypeOK
  <2> QED
    BY <2>1 DEF CloseRequests, Request
<1> QED
  BY <1>1, <1>2

LEMMA CancellationKeepsStory ==
  ASSUME WaitInv, AcceptCancellation
  PROVE  WaitsKept
<1>1. CASE run.lifecycle \in Terminal
  BY <1>1, SameStory DEF AcceptCancellation, rows
<1>2. CASE run.lifecycle \notin Terminal
  <2>1. run'.lifecycle = "cancelled" /\ CloseRequests
    BY <1>2 DEF AcceptCancellation, WaitInv, AttemptInv, TypeOK, RunRow
  <2> QED
    BY <2>1, ClosedIsClosed, EndedStory DEF WaitInv, AttemptInv, Terminal
<1> QED
  BY <1>1, <1>2

LEMMA MoveLifecycle ==
  ASSUME TypeOK, NEW l, NEW a, Move(l, a)
  PROVE  run'.lifecycle = l
BY DEF TypeOK, RunRow, Move

LEMMA FailureKeepsStory ==
  ASSUME WaitInv, Move("failed", FALSE)
  PROVE  WaitsKept
BY MoveLifecycle, EndedStory DEF WaitInv, AttemptInv, Terminal

(* A new wait for a new request, all earlier ones answered.                *)
LEMMA PauseKeepsStory ==
  ASSUME WaitInv, NEW w \in Workers, TurnPause(w)
  PROVE  WaitsKept
<1>1. PICK k \in Kinds :
        /\ requests' = Append(requests, [kind |-> k, status |-> "pending"])
        /\ Move(WaitingFor[k], FALSE)
  BY DEF TurnPause
<1>2. run'.lifecycle = WaitingFor[k]
  BY <1>1, MoveLifecycle DEF WaitInv, AttemptInv
<1>3. requests \in Seq(Request) /\ \A i \in 1..Len(requests) : requests[i].status = "answered"
  BY DEF TurnPause, TurnAllowed, WaitInv, AttemptInv, TypeOK, WaitMatchesRequest
<1>4. /\ Len(requests') = Len(requests) + 1
      /\ requests'[Len(requests')] = [kind |-> k, status |-> "pending"]
      /\ \A i \in 1..Len(requests) : requests'[i] = requests[i]
      /\ requests' # <<>>
  BY <1>1, <1>3
<1>5. \A i \in 1..Len(requests') - 1 : requests'[i].status = "answered"
  BY <1>3, <1>4
<1> QED
  BY <1>2, <1>4, <1>5, LifecycleKinds
     DEF WaitsKept, WaitMatchesRequest, SettledRunHasNoOpenRequest, Latest, Terminal

LEMMA ResumeKeepsStory ==
  ASSUME WaitInv, NEW w \in Workers, Resume(w)
  PROVE  /\ WaitsKept
         /\ run.lifecycle \in InputWaits => Latest.status = "answered"
<1>1. CASE run.lifecycle = "running"
  BY <1>1, SameStory, LifecycleKinds DEF Resume
<1>2. CASE run.lifecycle # "running"
  <2>1. worker[w].wait = Len(requests) /\ worker[w].wait \in DOMAIN requests
    BY DEF Resume, At, WaitInv, AttemptInv, AwaitsLatest
  <2>2. Latest.status = "answered" /\ run.lifecycle = WaitingFor[Latest.kind]
    BY <1>2, <2>1 DEF Resume, ResumeAllowed, Latest
  <2>3. Latest.kind \in Kinds
    <3>1. Len(requests) \in DOMAIN requests
      BY <2>1
    <3>2. Latest \in Request
      BY <3>1 DEF Latest, WaitInv, AttemptInv, TypeOK
    <3> QED
      BY <3>2 DEF Request
  <2>4. run.lifecycle \in InputWaits
    BY <2>2, <2>3, LifecycleKinds
  <2>5. \A i \in DOMAIN requests : requests[i].status = "answered"
    <3>1. \A i \in 1..Len(requests) - 1 : requests[i].status = "answered"
      BY <2>4 DEF WaitInv, WaitMatchesRequest
    <3>2. DOMAIN requests = 1..Len(requests) /\ Len(requests) \in Nat
      BY DEF WaitInv, AttemptInv, TypeOK
    <3> QED
      BY <2>2, <3>1, <3>2 DEF Latest
  <2>6. run'.lifecycle = "running" /\ requests' = requests
    BY <1>2, MoveLifecycle DEF Resume, WaitInv, AttemptInv
  <2> QED
    BY <2>2, <2>5, <2>6, LifecycleKinds
       DEF WaitsKept, WaitMatchesRequest, SettledRunHasNoOpenRequest
<1> QED
  BY <1>1, <1>2

(* Between running, waiting for the tool and, at first, the queue.         *)
LEMMA RunningKeepsStory ==
  ASSUME WaitInv, requests' = requests,
         run.lifecycle \in {"queued", "running", "waiting_for_tool"},
         run'.lifecycle \in {"running", "waiting_for_tool", "completed", "failed"}
  PROVE  WaitsKept
<1>1. \A i \in DOMAIN requests : requests[i].status = "answered"
  BY DEF WaitInv, WaitMatchesRequest
<1> QED
  BY <1>1, LifecycleKinds DEF WaitsKept, WaitMatchesRequest, SettledRunHasNoOpenRequest, Terminal

LEMMA AnswerKeepsStory ==
  ASSUME WaitInv, NEW i \in DOMAIN requests, Answer(i)
  PROVE  WaitsKept
<1>1. /\ requests \in Seq(Request) /\ run' = run
      /\ requests' = [requests EXCEPT ![i].status = "answered"]
      /\ requests[i] \in Request
  BY DEF Answer, WaitInv, AttemptInv, TypeOK
<1>2. /\ DOMAIN requests' = DOMAIN requests /\ Len(requests') = Len(requests)
      /\ requests' # <<>>
      /\ \A j \in DOMAIN requests : /\ requests'[j].kind = requests[j].kind
                                     /\ requests'[j].status \in {requests[j].status, "answered"}
  BY <1>1 DEF Request
<1>3. run.lifecycle \in InputWaits
  BY <1>1, LifecycleKinds DEF Answer, Request
<1>4. WaitMatchesRequest'
  <2>1. /\ run.lifecycle = WaitingFor[Latest.kind]
        /\ Latest.status \in {"pending", "answered"}
        /\ \A j \in 1..Len(requests) - 1 : requests[j].status = "answered"
        /\ requests # <<>>
    BY <1>3 DEF WaitInv, WaitMatchesRequest
  <2>2. Len(requests) \in DOMAIN requests /\ \A j \in 1..Len(requests) - 1 : j \in DOMAIN requests
    BY <1>1, <2>1
  <2>3. /\ Latest'.kind = Latest.kind
        /\ Latest'.status \in {Latest.status, "answered"}
        /\ \A j \in 1..Len(requests) - 1 : requests'[j].status = "answered"
    BY <1>2, <2>1, <2>2 DEF Latest
  <2> QED
    BY <1>1, <1>2, <1>3, <2>1, <2>3, LifecycleKinds DEF WaitMatchesRequest
<1> QED
  BY <1>1, <1>3, <1>4, LifecycleKinds DEF WaitsKept, SettledRunHasNoOpenRequest, Terminal

(* The step leads out of an input wait to running only past an answer.     *)
ResumedByAnswer ==
  run.lifecycle \in InputWaits /\ run'.lifecycle = "running" => Latest.status = "answered"

StoryKept == WaitsKept /\ ResumedByAnswer

LEMMA SettledIsNotResumed ==
  ASSUME \/ run'.lifecycle = run.lifecycle
         \/ run'.lifecycle \in Terminal
         \/ run.lifecycle \in {"queued", "running", "waiting_for_tool"}
  PROVE  ResumedByAnswer
BY LifecycleKinds DEF ResumedByAnswer, Terminal

(* Every step keeps the story of the waits.                                *)
LEMMA WaitStep ==
  ASSUME WaitInv, [Next]_vars
  PROVE  StoryKept
<1>r. run' = run => run'.lifecycle = run.lifecycle
  OBVIOUS
<1>a. ASSUME UNCHANGED rows PROVE StoryKept
  BY <1>a, SameStory, SettledIsNotResumed DEF rows, StoryKept
<1>b. ASSUME AcceptCancellation PROVE StoryKept
  <2>1. run'.lifecycle = run.lifecycle \/ run'.lifecycle \in Terminal
    BY <1>b DEF AcceptCancellation, rows, WaitInv, AttemptInv, TypeOK, RunRow, Terminal
  <2> QED
    BY <1>b, <2>1, CancellationKeepsStory, SettledIsNotResumed DEF StoryKept
<1>c. ASSUME Move("failed", FALSE) PROVE StoryKept
  <2>1. run'.lifecycle \in Terminal
    BY <1>c, MoveLifecycle DEF WaitInv, AttemptInv, Terminal
  <2> QED
    BY <1>c, <2>1, FailureKeepsStory, SettledIsNotResumed DEF StoryKept
<1>d. ASSUME requests' = requests,
             run.lifecycle \in {"queued", "running", "waiting_for_tool"},
             run'.lifecycle \in {"running", "waiting_for_tool", "completed", "failed"}
      PROVE  StoryKept
  BY <1>d, RunningKeepsStory, SettledIsNotResumed DEF StoryKept
<1>1. CASE UNCHANGED vars
  BY <1>1, <1>a DEF vars, rows
<1>2. ASSUME NEW w \in Workers,
             ClaimTask(w) \/ EngineRejects(w) \/ ClaimSettled(w) \/ ClaimUnbound(w)
      PROVE  StoryKept
  BY <1>2, <1>a DEF ClaimTask, EngineRejects, ClaimSettled, ClaimUnbound, rows, vars
<1>3. ASSUME NEW w \in Workers,
             LoadWait(w) \/ LoadNoWait(w) \/ LoadRaises(w) \/ ResumeRaises(w)
      PROVE  StoryKept
  BY <1>3, <1>a DEF LoadWait, LoadNoWait, LoadRaises, ResumeRaises, rows, vars
<1>4. ASSUME NEW w \in Workers,
             ToolFile(w) \/ TurnToolDone(w) \/ ToolResumeRaises(w) \/ ExecutorRaises(w)
      PROVE  StoryKept
  BY <1>4, <1>a DEF ToolFile, TurnToolDone, ToolResumeRaises, ExecutorRaises, rows, vars
<1>5. ASSUME NEW w \in Workers,
             TurnOverBudget(w) \/ Report(w) \/ Complete(w) \/ Crash(w)
      PROVE  StoryKept
  BY <1>5, <1>a DEF TurnOverBudget, Report, Complete, Crash, rows, vars
<1>6. ASSUME NEW w \in Workers, AwaitAnswer(w) \/ ToolAwait(w)
      PROVE  StoryKept
  BY <1>6, <1>a DEF AwaitAnswer, ToolAwait, AwaitEvent
<1>7. ASSUME NEW w \in Workers, ClaimCancelled(w)
      PROVE  StoryKept
  <2>1. run'.lifecycle = "cancelled"
    BY <1>7, MoveLifecycle DEF ClaimCancelled, WaitInv, AttemptInv
  <2>2. WaitsKept
    BY <1>7, <2>1, ClosedIsClosed, EndedStory DEF ClaimCancelled, WaitInv, AttemptInv, Terminal
  <2> QED
    BY <2>1, <2>2, SettledIsNotResumed DEF StoryKept, Terminal
<1>8. ASSUME NEW w \in Workers, ClaimRefused(w) \/ OriginInvalid(w)
      PROVE  StoryKept
  BY <1>8, <1>c DEF ClaimRefused, OriginInvalid, FailRun
<1>9. ASSUME NEW w \in Workers, ClaimStarts(w)
      PROVE  StoryKept
  <2>1. CASE run.lifecycle \in {"queued", "running"}
    BY <1>9, <2>1, <1>d, MoveLifecycle DEF ClaimStarts, WaitInv, AttemptInv
  <2>2. CASE run.lifecycle \notin {"queued", "running"}
    BY <1>9, <2>2, <1>a DEF ClaimStarts, rows
  <2> QED
    BY <2>1, <2>2
<1>10. ASSUME NEW w \in Workers, Resume(w)
      PROVE  StoryKept
  BY <1>10, ResumeKeepsStory DEF StoryKept, ResumedByAnswer
<1>11. ASSUME NEW w \in Workers, TurnPause(w)
      PROVE  StoryKept
  <2>1. run.lifecycle = "running"
    BY <1>11 DEF TurnPause, TurnAllowed
  <2> QED
    BY <1>11, <2>1, PauseKeepsStory, SettledIsNotResumed DEF StoryKept
<1>12. ASSUME NEW w \in Workers, TurnFinish(w)
      PROVE  StoryKept
  <2>1. PICK result \in {"completed", "failed"} : Move(result, FALSE)
    BY <1>12 DEF TurnFinish
  <2> QED
    BY <1>12, <2>1, <1>d, MoveLifecycle DEF TurnFinish, TurnAllowed, WaitInv, AttemptInv
<1>13. ASSUME NEW w \in Workers, TurnPauseForTool(w)
      PROVE  StoryKept
  <2>1. CASE run.lifecycle = "running"
    BY <1>13, <2>1, <1>d, MoveLifecycle DEF TurnPauseForTool, WaitInv, AttemptInv
  <2>2. CASE run.lifecycle # "running"
    BY <1>13, <2>2, <1>a DEF TurnPauseForTool, rows
  <2> QED
    BY <2>1, <2>2
<1>14. ASSUME NEW w \in Workers, ToolResume(w)
      PROVE  StoryKept
  <2>1. CASE run.lifecycle = "waiting_for_tool" /\ ~run.cancellationRequested
    BY <1>14, <2>1, <1>d, MoveLifecycle DEF ToolResume, WaitInv, AttemptInv
  <2>2. CASE ~(run.lifecycle = "waiting_for_tool" /\ ~run.cancellationRequested)
    BY <1>14, <2>2, <1>a DEF ToolResume, rows
  <2> QED
    BY <2>1, <2>2
<1>15. ASSUME NEW w \in Workers, BudgetFail(w) \/ Unwind(w)
      PROVE  StoryKept
  BY <1>15, <1>a, <1>b, <1>c DEF BudgetFail, Unwind, FailRun
<1>16. CASE ClaimExpires \/ SpawnLoad \/ SpawnTask \/ SpawnCancel \/ SpawnCrash
  BY <1>16, <1>a DEF ClaimExpires, SpawnLoad, SpawnTask, SpawnCancel, SpawnCrash, rows,
     vars
<1>17. CASE CancelObserve \/ CancelSignal \/ CancelCrash \/ EmitAnswer \/ ResponderCrash
  BY <1>17, <1>a DEF CancelObserve, CancelSignal, CancelCrash, EmitAnswer, ResponderCrash,
     rows, vars
<1>18. CASE Revoke \/ ToolFinish \/ ToolEmit
  BY <1>18, <1>a DEF Revoke, ToolFinish, ToolEmit, rows, vars
<1>19. CASE BindTask
  <2>1. run'.lifecycle = run.lifecycle /\ requests' = requests
    BY <1>19 DEF BindTask, WaitInv, AttemptInv, TypeOK, RunRow
  <2> QED
    BY <2>1, SameStory, SettledIsNotResumed DEF StoryKept
<1>20. CASE CancelRequest
  <2>1. requests' = requests
    BY <1>20 DEF CancelRequest
  <2>2. CASE run'.lifecycle = run.lifecycle
    BY <2>1, <2>2, SameStory, SettledIsNotResumed DEF StoryKept
  <2>3. CASE run'.lifecycle # run.lifecycle
    <3>1. run.lifecycle = "queued" /\ run'.lifecycle = "cancelled"
      BY <1>20, <2>3 DEF CancelRequest, WaitInv, AttemptInv, TypeOK, RunRow
    <3>2. requests' = <<>>
      BY <2>1, <3>1 DEF WaitInv, WaitMatchesRequest
    <3>3. \A i \in DOMAIN requests' : requests'[i].status # "pending"
      BY <3>2
    <3> QED
      BY <3>1, <3>3, EndedStory, SettledIsNotResumed DEF StoryKept, Terminal
  <2> QED
    BY <2>2, <2>3
<1>21. CASE CancelAccept \/ Reconcile
  BY <1>21, <1>b, <1>c DEF CancelAccept, Reconcile, FailRun
<1>22. ASSUME NEW i \in DOMAIN requests, Answer(i) PROVE StoryKept
  <2>1. run'.lifecycle = run.lifecycle
    BY <1>22 DEF Answer
  <2> QED
    BY <1>22, <2>1, AnswerKeepsStory, SettledIsNotResumed DEF StoryKept
<1> QED
  BY <1>1, <1>2, <1>3, <1>4, <1>5, <1>6, <1>7, <1>8, <1>9, <1>10, <1>11,
      <1>12, <1>13, <1>14, <1>15, <1>16, <1>17, <1>18, <1>19, <1>20, <1>21,
      <1>22 DEF Next, Attempt, Spawn

LEMMA WaitInit == Init => WaitInv
<1> SUFFICES ASSUME Init PROVE WaitInv
  OBVIOUS
<1>1. TypeOK
  BY InitType
<1>2. OneAttempt /\ AwaitsLatest
  BY DEF Init, Idle, OneAttempt, AwaitsLatest, Active
<1>3. WaitMatchesRequest /\ SettledRunHasNoOpenRequest
  BY LifecycleKinds DEF Init, WaitMatchesRequest, SettledRunHasNoOpenRequest, Terminal
<1> QED
  BY <1>1, <1>2, <1>3 DEF WaitInv, AttemptInv

LEMMA WaitInductive == WaitInv /\ ~Stalls /\ [Next]_vars => WaitInv'
<1> SUFFICES ASSUME WaitInv, ~Stalls, [Next]_vars PROVE WaitInv'
  OBVIOUS
<1>1. TypeOK'
  BY TypeStep DEF WaitInv, AttemptInv
<1>2. OneAttempt' /\ AwaitsLatest'
  BY AttemptStep DEF WaitInv, AttemptKept
<1>3. WaitMatchesRequest' /\ SettledRunHasNoOpenRequest'
  BY WaitStep DEF StoryKept, WaitsKept
<1> QED
  BY <1>1, <1>2, <1>3 DEF WaitInv, AttemptInv

LEMMA WaitInvariance == ~Stalls => (Spec => []WaitInv)
<1> SUFFICES ASSUME ~Stalls PROVE Spec => []WaitInv
  OBVIOUS
<1>1. WaitInv /\ [Next]_vars => WaitInv'
  BY WaitInductive
<1> QED
  BY <1>1, WaitInit, PTL DEF Spec

-----------------------------------------------------------------------------
(* When no worker outlives its claim, the run's wait and its requests tell *)
(* one story: load_agent_run_wait never finds them inconsistent.           *)
THEOREM WaitsFollowRequests == ~Stalls => (Spec => []WaitMatchesRequest)
<1> SUFFICES ASSUME ~Stalls PROVE Spec => []WaitMatchesRequest
  OBVIOUS
<1>1. WaitInv => WaitMatchesRequest
  BY DEF WaitInv
<1>2. Spec => []WaitInv
  BY WaitInvariance
<1> QED
  BY <1>1, <1>2, PTL

(* Then, too, nobody is asked on behalf of a run that was completed or     *)
(* cancelled.                                                              *)
THEOREM SettledRunsAskNobody == ~Stalls => (Spec => []SettledRunHasNoOpenRequest)
<1> SUFFICES ASSUME ~Stalls PROVE Spec => []SettledRunHasNoOpenRequest
  OBVIOUS
<1>1. WaitInv => SettledRunHasNoOpenRequest
  BY DEF WaitInv
<1>2. Spec => []WaitInv
  BY WaitInvariance
<1> QED
  BY <1>1, <1>2, PTL

(* And a run goes on from an input wait only after the answer it waits for.*)
THEOREM AnswersPrecedeResumption == ~Stalls => (Spec => ResumeNeedsAnswer)
<1> SUFFICES ASSUME ~Stalls PROVE Spec => ResumeNeedsAnswer
  OBVIOUS
<1>1. WaitInv /\ [Next]_vars =>
        [(run.lifecycle \in InputWaits /\ run'.lifecycle = "running")
           => Latest.status = "answered"]_vars
  BY WaitStep DEF StoryKept, ResumedByAnswer
<1>2. Spec => []WaitInv
  BY WaitInvariance
<1> QED
  BY <1>1, <1>2, PTL DEF Spec, ResumeNeedsAnswer

-----------------------------------------------------------------------------
(* What the liveness properties rest on: nothing that has to be told to the*)
(* engine is forgotten.                                                    *)

Emitting(i) == responder.pc = "emit" /\ responder.request = i

(* answer_input_request has emitted the event of every answered request, or*)
(* is about to.                                                            *)
AnswerIsOnItsWay ==
  \A i \in DOMAIN requests : requests[i].status = "answered" => i \in emitted \/ Emitting(i)

(* The task never sleeps on an event that was emitted.                     *)
SleepsUnheard == task.state = "sleeping" => task.wake \intersect emitted = {}

(* A requested cancellation is carried by the call that is about to tell   *)
(* the engine, or the engine has ended the task and the reconciler will    *)
(* find the run bound to it.                                               *)
RequestIsPursued ==
  run.cancellationRequested /\ run.lifecycle \notin Terminal =>
    /\ run.bound
    /\ canceller.pc \in {"observe", "signal"} \/ task.state \in TaskEnded

BoundHasTask ==
  /\ spawner = "bind" \/ run.bound => task.state # "none"
  /\ run.cancellationRequested /\ ~run.bound => run.lifecycle = "cancelled"

NothingForgotten == IInv /\ AnswerIsOnItsWay /\ SleepsUnheard /\ RequestIsPursued /\ BoundHasTask

(* A step that answers nothing.                                            *)
NoNewAnswer ==
  \A i \in DOMAIN requests' :
    requests'[i].status = "answered" =>
      i \in DOMAIN requests /\ requests[i].status = "answered"

LEMMA ClosingAnswersNothing ==
  ASSUME TypeOK, CloseRequests \/ AcceptCancellation \/ FailRun \/ UNCHANGED requests
  PROVE  NoNewAnswer
<1>1. ASSUME CloseRequests PROVE NoNewAnswer
  BY <1>1 DEF CloseRequests, NoNewAnswer, TypeOK, Request
<1> QED
  BY <1>1 DEF AcceptCancellation, FailRun, rows, NoNewAnswer

LEMMA PausingAnswersNothing ==
  ASSUME TypeOK, NEW k \in Kinds,
         requests' = Append(requests, [kind |-> k, status |-> "pending"])
  PROVE  NoNewAnswer
<1>1. /\ DOMAIN requests' = 1..Len(requests) + 1
      /\ \A i \in 1..Len(requests) : requests'[i] = requests[i]
      /\ requests'[Len(requests) + 1].status = "pending"
  BY DEF TypeOK
<1> QED
  BY <1>1 DEF NoNewAnswer, TypeOK

(* A step of anybody but the responder, as far as answers are concerned.   *)
LEMMA AnswersStay ==
  ASSUME AnswerIsOnItsWay, NoNewAnswer, responder' = responder, emitted \subseteq emitted'
  PROVE  AnswerIsOnItsWay'
BY DEF AnswerIsOnItsWay, NoNewAnswer, Emitting

SleepsOn ==
  /\ emitted' = emitted
  /\ task' = task \/ task'.state # "sleeping" \/ task'.wake = {}

LEMMA SleepsStay ==
  ASSUME SleepsUnheard, SleepsOn
  PROVE  SleepsUnheard'
BY DEF SleepsUnheard, SleepsOn

LEMMA EmittingWakes ==
  ASSUME SleepsUnheard, NEW e, Emit(e)
  PROVE  SleepsUnheard' /\ emitted \subseteq emitted' /\ e \in emitted'
<1>1. CASE task.state = "sleeping" /\ e \in task.wake
  BY <1>1 DEF Emit, SleepsUnheard
<1>2. CASE ~(task.state = "sleeping" /\ e \in task.wake)
  BY <1>2 DEF Emit, SleepsUnheard
<1> QED
  BY <1>1, <1>2

(* What every step passes on of what has to be told to the engine.         *)
TaskGoesOn ==
  /\ task.state \in TaskEnded => task'.state \in TaskEnded
  /\ task.state # "none" => task'.state # "none"

StepTells ==
  /\ AnswerIsOnItsWay' /\ SleepsUnheard' /\ TaskGoesOn
  /\ run'.cancellationRequested =>
       run.cancellationRequested \/ run'.lifecycle = "cancelled" \/ CancelRequest
  /\ canceller.pc \in {"observe", "signal"} /\ task.state # "none" =>
       canceller'.pc \in {"observe", "signal"} \/ task'.state \in TaskEnded
  /\ spawner' = "bind" => spawner = "bind" \/ task'.state # "none"
  /\ run'.bound => run.bound \/ spawner = "bind"

(* What a worker, the reconciler or the world makes of the row.            *)
RowGoesOn ==
  /\ run'.bound = run.bound
  /\ run'.cancellationRequested => run.cancellationRequested \/ run'.lifecycle = "cancelled"

LEMMA OthersTell ==
  ASSUME AnswerIsOnItsWay, SleepsUnheard, NoNewAnswer, SleepsOn, TaskGoesOn, RowGoesOn,
         UNCHANGED clients
  PROVE  StepTells
BY AnswersStay, SleepsStay DEF StepTells, RowGoesOn, SleepsOn, clients

LEMMA MovedRowGoesOn ==
  ASSUME TypeOK,
         \/ run' = run \/ AcceptCancellation \/ FailRun
         \/ \E s, held : Move(s, held)
  PROVE  RowGoesOn
<1>1. CASE run' = run  BY <1>1 DEF RowGoesOn
<1>2. CASE \E s, held : Move(s, held)
  BY <1>2 DEF Move, RowGoesOn, TypeOK, RunRow
<1>3. CASE AcceptCancellation
  BY <1>3 DEF AcceptCancellation, rows, RowGoesOn, TypeOK, RunRow
<1>4. CASE FailRun
  BY <1>4 DEF FailRun, Move, RowGoesOn, TypeOK, RunRow
<1> QED
  BY <1>1, <1>2, <1>3, <1>4

(* A step that leaves the task, and what was emitted, alone.               *)
LEMMA EngineStays ==
  ASSUME UNCHANGED engine
  PROVE  SleepsOn /\ TaskGoesOn
BY DEF engine, SleepsOn, TaskGoesOn

LEMMA FailedTaskGoesOn ==
  ASSUME TypeOK, task.state = "running", task' = TaskFailed, emitted' = emitted
  PROVE  SleepsOn /\ TaskGoesOn
BY DEF TypeOK, TaskRow, TaskFailed, SleepsOn, TaskGoesOn, TaskEnded

LEMMA CancelledTaskGoesOn ==
  ASSUME TypeOK, task' = TaskCancelled
  PROVE  /\ TaskGoesOn
         /\ emitted' = emitted => SleepsOn
         /\ task.state # "none" => task'.state \in TaskEnded
BY DEF TypeOK, TaskRow, TaskStates, TaskCancelled, SleepsOn, TaskGoesOn, TaskEnded

LEMMA EmittedTaskGoesOn ==
  ASSUME TypeOK, NEW e, Emit(e)
  PROVE  TaskGoesOn
BY DEF TypeOK, TaskRow, Emit, TaskGoesOn, TaskEnded

LEMMA AwaitingTells ==
  ASSUME TypeOK, AnswerIsOnItsWay, SleepsUnheard, NEW w \in Workers, NEW e \in Events, NEW pc,
         AwaitEvent(w, e, pc)
  PROVE  StepTells
<1>1. UNCHANGED <<run, requests, emitted>> /\ UNCHANGED clients
  BY DEF AwaitEvent, rows
<1>2. RowGoesOn /\ NoNewAnswer
  BY <1>1, MovedRowGoesOn, ClosingAnswersNothing
<1>3. CASE task' = task
  BY <1>1, <1>2, <1>3, OthersTell DEF SleepsOn, TaskGoesOn
<1>4. CASE e \notin emitted /\ task' = [task EXCEPT !.state = "sleeping", !.wake = {e}]
  <2>1. task.state = "running" /\ task'.state = "sleeping" /\ task'.wake = {e}
    BY <1>4 DEF AwaitEvent, Holds, TypeOK, TaskRow
  <2>2. SleepsUnheard' /\ TaskGoesOn
    BY <1>1, <1>4, <2>1 DEF SleepsUnheard, TaskGoesOn, TaskEnded
  <2>3. AnswerIsOnItsWay'
    BY <1>1, <1>2, AnswersStay DEF clients
  <2> QED
    BY <1>1, <1>2, <2>1, <2>2, <2>3 DEF StepTells, RowGoesOn, clients
<1> QED
  BY <1>3, <1>4 DEF AwaitEvent

(* One case per action of a worker.                                        *)
LEMMA AttemptTells ==
  ASSUME TypeOK, AnswerIsOnItsWay, SleepsUnheard, NEW w \in Workers, Attempt(w)
  PROVE  StepTells
<1>s. ASSUME NoNewAnswer, RowGoesOn, UNCHANGED engine, UNCHANGED clients PROVE StepTells
  BY <1>s, EngineStays, OthersTell
<1>r. ASSUME UNCHANGED requests, RowGoesOn, UNCHANGED engine, UNCHANGED clients PROVE StepTells
  BY <1>r, <1>s, ClosingAnswersNothing
<1>u. ASSUME UNCHANGED rows, UNCHANGED engine, UNCHANGED clients PROVE StepTells
  BY <1>u, <1>r, MovedRowGoesOn DEF rows
<1>1. CASE ClaimSettled(w) \/ ClaimUnbound(w) \/ LoadWait(w) \/ LoadNoWait(w) \/ LoadRaises(w)
           \/ ResumeRaises(w) \/ TurnToolDone(w) \/ ToolResumeRaises(w) \/ ExecutorRaises(w)
           \/ TurnOverBudget(w) \/ EngineRejects(w)
  BY <1>1, <1>u DEF ClaimSettled, ClaimUnbound, LoadWait, LoadNoWait, LoadRaises, ResumeRaises,
     TurnToolDone, ToolResumeRaises, ExecutorRaises, TurnOverBudget, EngineRejects
<1>2. CASE ClaimCancelled(w)
  BY <1>2, <1>s, MovedRowGoesOn, ClosingAnswersNothing DEF ClaimCancelled
<1>3. CASE ClaimRefused(w) \/ ClaimStarts(w) \/ Resume(w) \/ TurnFinish(w) \/ TurnPauseForTool(w)
           \/ ToolResume(w)
  <2>1. UNCHANGED requests /\ UNCHANGED engine /\ UNCHANGED clients
    BY <1>3 DEF ClaimRefused, ClaimStarts, Resume, TurnFinish, TurnPauseForTool, ToolResume
  <2>2. run' = run \/ \E s, held : Move(s, held)
    BY <1>3 DEF ClaimRefused, ClaimStarts, Resume, TurnFinish, TurnPauseForTool, ToolResume
  <2> QED
    BY <2>1, <2>2, <1>r, MovedRowGoesOn
<1>4. CASE OriginInvalid(w) \/ BudgetFail(w) \/ Unwind(w)
  <2>1. UNCHANGED engine /\ UNCHANGED clients
    BY <1>4 DEF OriginInvalid, BudgetFail, Unwind
  <2>2. AcceptCancellation \/ FailRun \/ UNCHANGED rows
    BY <1>4 DEF OriginInvalid, BudgetFail, Unwind
  <2> QED
    BY <2>1, <2>2, <1>s, MovedRowGoesOn, ClosingAnswersNothing DEF rows
<1>5. CASE AwaitAnswer(w)
  <2>1. worker[w].wait \in Events
    BY DEF TypeOK, Lane
  <2> QED
    BY <1>5, <2>1, AwaitingTells DEF AwaitAnswer
<1>6. CASE TurnPause(w)
  <2>1. PICK k \in Kinds :
          /\ requests' = Append(requests, [kind |-> k, status |-> "pending"])
          /\ Move(WaitingFor[k], FALSE)
    BY <1>6 DEF TurnPause
  <2> QED
    BY <1>6, <2>1, <1>s, PausingAnswersNothing, MovedRowGoesOn DEF TurnPause
<1>7. CASE ToolFile(w)
  BY <1>7, <1>u DEF ToolFile
<1>8. CASE ToolAwait(w)
  BY <1>8, AwaitingTells, EventNames DEF ToolAwait
<1>9. CASE Report(w)
  <2>1. UNCHANGED <<run, requests, emitted>> /\ UNCHANGED clients
    BY <1>9 DEF Report, rows
  <2>2. SleepsOn /\ TaskGoesOn
    BY <1>9, <2>1, FailedTaskGoesOn DEF Report, Holds, SleepsOn, TaskGoesOn
  <2> QED
    BY <2>1, <2>2, OthersTell, MovedRowGoesOn, ClosingAnswersNothing
<1>10. CASE Complete(w)
  <2>1. UNCHANGED <<run, requests, emitted>> /\ UNCHANGED clients
    BY <1>10 DEF Complete, rows
  <2>2. SleepsOn /\ TaskGoesOn
    BY <1>10, <2>1 DEF Complete, Holds, SleepsOn, TaskGoesOn, TypeOK, TaskRow, TaskEnded
  <2> QED
    BY <2>1, <2>2, OthersTell, MovedRowGoesOn, ClosingAnswersNothing
<1> QED
  BY <1>1, <1>2, <1>3, <1>4, <1>5, <1>6, <1>7, <1>8, <1>9, <1>10 DEF Attempt

(* When no process dies between a commit and its call, every step tells.   *)
LEMMA EveryStepTells ==
  ASSUME TypeOK, AnswerIsOnItsWay, SleepsUnheard, ~ApiCrashes, [Next]_vars
  PROVE  StepTells
<1>s. ASSUME UNCHANGED <<run, requests, emitted>>, UNCHANGED clients, SleepsOn, TaskGoesOn
      PROVE  StepTells
  BY <1>s, OthersTell, MovedRowGoesOn, ClosingAnswersNothing
<1>h. ASSUME UNCHANGED requests, UNCHANGED emitted, UNCHANGED responder, SleepsOn
      PROVE  AnswerIsOnItsWay' /\ SleepsUnheard'
  BY <1>h, AnswersStay, SleepsStay, ClosingAnswersNothing
<1>1. CASE UNCHANGED vars
  BY <1>1, <1>s, EngineStays DEF vars, clients, engine
<1>2. ASSUME NEW w \in Workers, ClaimTask(w) PROVE StepTells
  BY <1>2, <1>s DEF ClaimTask, Claimable, rows, SleepsOn, TaskGoesOn, TypeOK, TaskRow, TaskEnded
<1>3. ASSUME NEW w \in Workers, Attempt(w) PROVE StepTells
  BY <1>3, AttemptTells
<1>4. ASSUME NEW w \in Workers, Crash(w) PROVE StepTells
  BY <1>4, <1>s, EngineStays DEF Crash, rows, engine
<1>5. CASE ClaimExpires
  BY <1>5, <1>s, FailedTaskGoesOn DEF ClaimExpires, rows
<1>6. CASE SpawnLoad
  BY <1>6, <1>h, EngineStays DEF SpawnLoad, StepTells, TaskGoesOn, rows, engine
<1>7. CASE SpawnTask
  <2>1. task' = IF task.state = "none" THEN [task EXCEPT !.state = "pending"] ELSE task
    BY <1>7 DEF SpawnTask
  <2>2. SleepsOn /\ TaskGoesOn /\ task'.state # "none"
    BY <1>7, <2>1 DEF SpawnTask, SleepsOn, TaskGoesOn, TypeOK, TaskRow, TaskEnded
  <2> QED
    BY <1>7, <2>2, <1>h DEF SpawnTask, StepTells, rows
<1>8. CASE BindTask
  <2>1. /\ run'.lifecycle = run.lifecycle
        /\ run'.cancellationRequested = run.cancellationRequested
    BY <1>8 DEF BindTask, TypeOK, RunRow
  <2> QED
    BY <1>8, <2>1, <1>h, EngineStays DEF BindTask, StepTells, TaskGoesOn, engine
<1>9. CASE SpawnCancel
  BY <1>9, <1>h, CancelledTaskGoesOn DEF SpawnCancel, StepTells, rows
<1>10. CASE CancelRequest
  BY <1>10, <1>h, EngineStays DEF CancelRequest, StepTells, TypeOK, RunRow, engine
<1>11. CASE CancelObserve
  BY <1>11, <1>h, EngineStays DEF CancelObserve, StepTells, TaskGoesOn, rows, engine
<1>12. CASE CancelSignal
  BY <1>12, <1>h, CancelledTaskGoesOn DEF CancelSignal, StepTells, rows
<1>13. CASE CancelAccept
  <2>1. NoNewAnswer /\ RowGoesOn
    BY <1>13, ClosingAnswersNothing, MovedRowGoesOn DEF CancelAccept
  <2>2. SleepsOn /\ TaskGoesOn
    BY <1>13, EngineStays DEF CancelAccept
  <2>3. AnswerIsOnItsWay' /\ SleepsUnheard'
    BY <1>13, <2>1, <2>2, AnswersStay, SleepsStay DEF CancelAccept, SleepsOn
  <2> QED
    BY <1>13, <2>1, <2>2, <2>3 DEF CancelAccept, StepTells, RowGoesOn
<1>14. ASSUME NEW i \in DOMAIN requests, Answer(i) PROVE StepTells
  <2>1. /\ DOMAIN requests' = DOMAIN requests
        /\ \A j \in DOMAIN requests : j # i => requests'[j] = requests[j]
        /\ responder'.pc = "emit" /\ responder'.request = i /\ responder.pc = "idle"
        /\ UNCHANGED <<run, task, emitted, spawner, canceller>>
    BY <1>14 DEF Answer, TypeOK, engine
  <2>2. AnswerIsOnItsWay'
    BY <2>1 DEF AnswerIsOnItsWay, Emitting
  <2> QED
    BY <2>1, <2>2, SleepsStay DEF SleepsOn, StepTells, TaskGoesOn
<1>15. CASE EmitAnswer
  <2>1. /\ SleepsUnheard' /\ TaskGoesOn
        /\ emitted \subseteq emitted' /\ responder.request \in emitted'
    BY <1>15, EmittingWakes, EmittedTaskGoesOn DEF EmitAnswer
  <2>2. AnswerIsOnItsWay'
    BY <1>15, <2>1 DEF EmitAnswer, AnswerIsOnItsWay, Emitting, rows
  <2> QED
    BY <1>15, <2>1, <2>2 DEF EmitAnswer, StepTells, rows
<1>16. CASE ToolEmit
  <2>1. SleepsUnheard' /\ TaskGoesOn /\ emitted \subseteq emitted'
    BY <1>16, EmittingWakes, EmittedTaskGoesOn DEF ToolEmit
  <2>2. AnswerIsOnItsWay'
    BY <1>16, <2>1, AnswersStay, ClosingAnswersNothing DEF ToolEmit, rows, clients
  <2> QED
    BY <1>16, <2>1, <2>2 DEF ToolEmit, StepTells, rows, clients
<1>17. CASE Reconcile
  <2>1. NoNewAnswer /\ RowGoesOn
    BY <1>17, ClosingAnswersNothing, MovedRowGoesOn DEF Reconcile
  <2> QED
    BY <1>17, <2>1, EngineStays, OthersTell DEF Reconcile
<1>18. CASE Revoke \/ ToolFinish
  BY <1>18, <1>s, EngineStays DEF Revoke, ToolFinish, rows, engine
<1> QED
  BY <1>1, <1>2, <1>3, <1>4, <1>5, <1>6, <1>7, <1>8, <1>9, <1>10, <1>11, <1>12, <1>13, <1>14,
     <1>15, <1>16, <1>17, <1>18
  DEF Next, Spawn, SpawnCrash, CancelCrash, ResponderCrash

LEMMA TerminalStays ==
  ASSUME IInv, RowStep
  PROVE  /\ run.lifecycle \in Terminal => run'.lifecycle = run.lifecycle
         /\ run.cancellationRequested => run'.cancellationRequested
         /\ run.bound => run'.bound
BY DEF RowStep, Terminal, Contract!Next, Contract!Start, Contract!Wait, Contract!Resume,
   Contract!Finish, Contract!Fail, Contract!RequestCancellation, Contract!Cancel,
   Contract!Move, Contract!Waiting, Contract!Open, Contract!vars

(* A request is put on a bound run by the call that will tell the engine,  *)
(* and ends an unbound one at once.                                        *)
LEMMA RequestTells ==
  ASSUME IInv, BoundHasTask, CancelRequest
  PROVE  (run.bound /\ canceller'.pc = "observe") \/ run'.lifecycle = "cancelled"
<1>1. CASE run.bound
  BY <1>1 DEF CancelRequest, IInv, TypeOK
<1>2. CASE ~run.bound
  BY <1>2 DEF CancelRequest, IInv, TypeOK, RunRow, LeavesQueueOnlyBound, BoundHasTask, Terminal
<1> QED
  BY <1>1, <1>2

LEMMA NothingForgottenStep ==
  ASSUME NothingForgotten, ~ApiCrashes, [Next]_vars
  PROVE  NothingForgotten'
<1>1. IInv /\ IInv'
  BY Inductive DEF NothingForgotten
<1>2. StepTells
  BY EveryStepTells DEF NothingForgotten, IInv
<1>3. RowStep
  BY <1>1, RunStep DEF IInv, Others
<1>4. BoundHasTask'
  <2>1. spawner' = "bind" \/ run'.bound => task'.state # "none"
    BY <1>2 DEF NothingForgotten, BoundHasTask, StepTells, TaskGoesOn
  <2>2. ASSUME run'.cancellationRequested, ~run'.bound PROVE run'.lifecycle = "cancelled"
    <3>1. CASE run.cancellationRequested
      BY <1>1, <1>3, <2>2, <3>1, TerminalStays DEF NothingForgotten, BoundHasTask, Terminal
    <3>2. CASE CancelRequest
      BY <1>1, <1>3, <2>2, <3>2, RequestTells, TerminalStays DEF NothingForgotten
    <3> QED
      BY <1>2, <2>2, <3>1, <3>2 DEF StepTells
  <2> QED
    BY <2>1, <2>2 DEF BoundHasTask
<1>5. RequestIsPursued'
  <2> SUFFICES ASSUME run'.cancellationRequested, run'.lifecycle \notin Terminal
               PROVE  /\ run'.bound
                      /\ canceller'.pc \in {"observe", "signal"} \/ task'.state \in TaskEnded
    BY DEF RequestIsPursued
  <2>1. run.lifecycle \notin Terminal /\ run'.lifecycle # "cancelled"
    BY <1>1, <1>3, TerminalStays DEF Terminal
  <2>2. CASE run.cancellationRequested
    <3>1. /\ run.bound /\ task.state # "none"
          /\ canceller.pc \in {"observe", "signal"} \/ task.state \in TaskEnded
      BY <2>1, <2>2 DEF NothingForgotten, RequestIsPursued, BoundHasTask
    <3> QED
      BY <1>1, <1>2, <1>3, <3>1, TerminalStays DEF StepTells, TaskGoesOn
  <2>3. CASE CancelRequest
    BY <1>1, <1>3, <2>1, <2>3, RequestTells, TerminalStays DEF NothingForgotten
  <2> QED
    BY <1>2, <2>1, <2>2, <2>3 DEF StepTells
<1> QED
  BY <1>1, <1>2, <1>4, <1>5 DEF NothingForgotten, StepTells

LEMMA NothingForgottenInit == Init => NothingForgotten
<1> SUFFICES ASSUME Init PROVE NothingForgotten
  OBVIOUS
<1>1. IInv
  BY InitIInv
<1>2. AnswerIsOnItsWay /\ SleepsUnheard /\ RequestIsPursued /\ BoundHasTask
  BY DEF Init, AnswerIsOnItsWay, SleepsUnheard, RequestIsPursued, BoundHasTask
<1> QED
  BY <1>1, <1>2 DEF NothingForgotten

LEMMA NothingIsForgotten == ~ApiCrashes => (Spec => []NothingForgotten)
<1> SUFFICES ASSUME ~ApiCrashes PROVE Spec => []NothingForgotten
  OBVIOUS
<1>1. NothingForgotten /\ [Next]_vars => NothingForgotten'
  BY NothingForgottenStep
<1> QED
  BY <1>1, NothingForgottenInit, PTL DEF Spec

(* Of a requested cancellation, while no API process dies between a commit *)
(* and its call: as long as the run is open, the canceller is about to tell*)
(* the engine, or the engine has ended the task and the reconciler finds   *)
(* the run by its binding.                                                 *)
THEOREM CancellationsArePursued == ~ApiCrashes => (Spec => []RequestIsPursued)
<1> SUFFICES ASSUME ~ApiCrashes PROVE Spec => []RequestIsPursued
  OBVIOUS
<1>1. NothingForgotten => RequestIsPursued
  BY DEF NothingForgotten
<1>2. Spec => []NothingForgotten
  BY NothingIsForgotten
<1> QED
  BY <1>1, <1>2, PTL

(* answer_input_request and await_event, in either order.                  *)
NobodySleepsThroughAnswers ==
  task.state = "sleeping" =>
    \A i \in DOMAIN requests :
      requests[i].status = "answered" /\ i \in task.wake => Emitting(i)

(* No task sleeps through an answer: if the event it sleeps on is that of  *)
(* an answered request, the call that answered is about to emit it, however*)
(* late the task went to sleep and however many lanes it has had.          *)
THEOREM AnswersAreHeard == ~ApiCrashes => (Spec => []NobodySleepsThroughAnswers)
<1> SUFFICES ASSUME ~ApiCrashes PROVE Spec => []NobodySleepsThroughAnswers
  OBVIOUS
<1>1. NothingForgotten => NobodySleepsThroughAnswers
  BY DEF NothingForgotten, NobodySleepsThroughAnswers, AnswerIsOnItsWay, SleepsUnheard
<1>2. Spec => []NothingForgotten
  BY NothingIsForgotten
<1> QED
  BY <1>1, <1>2, PTL

-----------------------------------------------------------------------------
(* A task sleeps on what its run waits for, when no lane outlives its claim*)

AnswerIsHeard ==
  run.lifecycle \in {"running", "waiting_for_tool"} /\ Len(requests) # 0 =>
    Len(requests) \in emitted

(* What a lane that awaits an event, or was given it, knows of the run.    *)
AwaitsOwnWait(w) ==
  /\ worker[w].pc = "awaiting" =>
       /\ run.lifecycle \in InputWaits \union {"running"} \union Terminal
       /\ Len(requests) # 0
  /\ worker[w].pc = "resuming" => worker[w].wait \in emitted
  /\ worker[w].pc = "tool_awaiting" =>
       run.lifecycle \in {"waiting_for_tool"} \union Terminal /\ tool # "none"

(* A task that sleeps on an event sleeps on the one its run waits for: the *)
(* answer to the latest request, or the end of a tool that was filed.      *)
SleepsWhereItWaits ==
  task.state = "sleeping" /\ task.wake # {} /\ run.lifecycle \notin Terminal =>
    \/ task.wake = {ToolEvent} /\ run.lifecycle = "waiting_for_tool" /\ tool # "none"
    \/ task.wake = {Len(requests)} /\ run.lifecycle \in InputWaits

SleepStory ==
  /\ AnswerIsHeard
  /\ \A w \in Workers : AwaitsOwnWait(w)
  /\ SleepsWhereItWaits

AwaitPCs == {"awaiting", "resuming", "tool_awaiting"}

(* A step that changes nothing of this, but that it may end the run, or a  *)
(* lane's wait, or wake the task.                                          *)
Quietly ==
  /\ run'.lifecycle = run.lifecycle \/ run'.lifecycle \in Terminal
  /\ SameLength
  /\ emitted \subseteq emitted'
  /\ tool # "none" => tool' # "none"
  /\ \A w \in Workers : worker'[w].pc \in AwaitPCs => worker'[w] = worker[w]
  /\ task' = task \/ task'.state # "sleeping" \/ task'.wake = {}

LEMMA QuietlyKeepsStory ==
  ASSUME SleepStory, Quietly
  PROVE  SleepStory'
<1>1. AnswerIsHeard'
  BY DEF SleepStory, Quietly, SameLength, AnswerIsHeard, Terminal
<1>2. ASSUME NEW w \in Workers PROVE AwaitsOwnWait(w)'
  <2>1. AwaitsOwnWait(w) /\ (worker'[w].pc \in AwaitPCs => worker'[w] = worker[w])
    BY DEF SleepStory, Quietly
  <2> QED
    BY <2>1 DEF Quietly, SameLength, AwaitsOwnWait, AwaitPCs
<1>3. SleepsWhereItWaits'
  BY DEF SleepStory, Quietly, SameLength, SleepsWhereItWaits
<1> QED
  BY <1>1, <1>2, <1>3 DEF SleepStory

(* The one lane that executes, and a task that does not sleep.             *)
LEMMA AloneAwake ==
  ASSUME AttemptInv, NEW w \in Workers, Active(w)
  PROVE  /\ task.state # "sleeping"
         /\ \A v \in Workers : v # w => worker[v].pc \notin AwaitPCs
BY DEF AttemptInv, OneAttempt, Active, AwaitPCs

(* Its lane goes to another place; the story is that lane's.               *)
LEMMA LaneTellsStory ==
  ASSUME AttemptInv, NEW w \in Workers, Active(w), NEW pc \in PCs,
         Goto(w, pc), UNCHANGED task,
         AnswerIsHeard', pc \in AwaitPCs => AwaitsOwnWait(w)'
  PROVE  SleepStory'
<1>1. task'.state # "sleeping" /\ \A v \in Workers : v # w => worker[v].pc \notin AwaitPCs
  BY AloneAwake
<1>2. worker'[w].pc = pc /\ \A v \in Workers : v # w => worker'[v] = worker[v]
  BY DEF AttemptInv, TypeOK, Lane, Goto
<1>3. \A v \in Workers : AwaitsOwnWait(v)'
  BY <1>1, <1>2 DEF AwaitsOwnWait, AwaitPCs
<1> QED
  BY <1>1, <1>3 DEF SleepStory, SleepsWhereItWaits

LEMMA GotoQuietly ==
  ASSUME TypeOK, NEW w \in Workers, NEW pc \in PCs \ AwaitPCs, Goto(w, pc)
  PROVE  \A v \in Workers : worker'[v].pc \in AwaitPCs => worker'[v] = worker[v]
BY DEF TypeOK, Lane, Goto

LEMMA LeaveQuietly ==
  ASSUME TypeOK, NEW w \in Workers, Leave(w)
  PROVE  \A v \in Workers : worker'[v].pc \in AwaitPCs => worker'[v] = worker[v]
BY DEF TypeOK, Leave, Idle, AwaitPCs


(* A worker's steps that change no wait.                                   *)
LEMMA AttemptQuietly ==
  ASSUME AttemptInv, NEW w \in Workers,
         \/ ClaimSettled(w) \/ ClaimUnbound(w) \/ ClaimCancelled(w) \/ ClaimRefused(w)
         \/ OriginInvalid(w) \/ LoadNoWait(w) \/ LoadRaises(w) \/ ResumeRaises(w)
         \/ TurnFinish(w) \/ ToolFile(w) \/ TurnToolDone(w) \/ ToolResumeRaises(w)
         \/ ExecutorRaises(w) \/ TurnOverBudget(w) \/ EngineRejects(w) \/ BudgetFail(w)
         \/ Unwind(w) \/ Report(w) \/ Complete(w) \/ Crash(w)
  PROVE  Quietly
<1> USE DEF AttemptInv
<1>p. \A pc \in {"receipt", "unwinding", "cancelling", "turn", "tool_resuming", "over_budget",
                 "reporting"} : pc \in PCs \ AwaitPCs
  BY PcNames DEF AwaitPCs
<1>g. ASSUME NEW pc \in PCs \ AwaitPCs, Goto(w, pc), UNCHANGED <<world, engine>>, SameLength,
             run'.lifecycle = run.lifecycle \/ run'.lifecycle \in Terminal
      PROVE  Quietly
  BY <1>g, GotoQuietly DEF Quietly, world, engine
<1>1. CASE ClaimSettled(w) \/ ClaimUnbound(w) \/ LoadNoWait(w) \/ LoadRaises(w) \/ ResumeRaises(w)
           \/ TurnToolDone(w) \/ ToolResumeRaises(w) \/ ExecutorRaises(w) \/ TurnOverBudget(w)
           \/ EngineRejects(w)
  <2>1. UNCHANGED rows /\ UNCHANGED <<world, engine>>
    BY <1>1 DEF ClaimSettled, ClaimUnbound, LoadNoWait, LoadRaises, ResumeRaises, TurnToolDone,
       ToolResumeRaises, ExecutorRaises, TurnOverBudget, EngineRejects
  <2>2. \E pc \in PCs \ AwaitPCs : Goto(w, pc)
    BY <1>1, <1>p DEF ClaimSettled, ClaimUnbound, LoadNoWait, LoadRaises, ResumeRaises, TurnToolDone,
       ToolResumeRaises, ExecutorRaises, TurnOverBudget, EngineRejects
  <2> QED
    BY <2>1, <2>2, <1>g DEF rows, SameLength
<1>2. CASE ClaimCancelled(w) \/ ClaimRefused(w) \/ TurnFinish(w)
  <2>1. SameLength
    BY <1>2, ClosingKeepsLength DEF ClaimCancelled, ClaimRefused, TurnFinish
  <2>2. run'.lifecycle \in Terminal
    BY <1>2 DEF ClaimCancelled, ClaimRefused, TurnFinish, Move, TypeOK, RunRow, Terminal
  <2>3. Goto(w, "receipt") /\ UNCHANGED <<world, engine>>
    BY <1>2 DEF ClaimCancelled, ClaimRefused, TurnFinish
  <2> QED
    BY <2>1, <2>2, <2>3, <1>g, <1>p
<1>3. CASE OriginInvalid(w) \/ BudgetFail(w)
  <2>1. FailRun \/ UNCHANGED rows
    BY <1>3 DEF OriginInvalid, BudgetFail
  <2>2. UNCHANGED <<world, engine>> /\ (Goto(w, "receipt") \/ Goto(w, "reporting"))
    BY <1>3 DEF OriginInvalid, BudgetFail
  <2>3. SameLength /\ (run'.lifecycle = run.lifecycle \/ run'.lifecycle \in Terminal)
    BY <2>1, ClosingKeepsLength DEF FailRun, Move, rows, TypeOK, RunRow, Terminal
  <2> QED
    BY <2>2, <2>3, <1>g, <1>p
<1>4. CASE ToolFile(w)
  BY <1>4 DEF ToolFile, Quietly, SameLength, rows, engine
<1>5. CASE Unwind(w)
  <2>1. SameLength /\ (run'.lifecycle = run.lifecycle \/ run'.lifecycle \in Terminal)
    BY <1>5, ClosingKeepsLength DEF Unwind, AcceptCancellation, rows, TypeOK, RunRow, Terminal
  <2>2. \A v \in Workers : worker'[v].pc \in AwaitPCs => worker'[v] = worker[v]
    BY <1>5, <1>p DEF Unwind, Idle, AwaitPCs, TypeOK, Lane
  <2> QED
    BY <1>5, <2>1, <2>2 DEF Unwind, Quietly, world, engine
<1>6. CASE Report(w) \/ Complete(w) \/ Crash(w)
  <2>1. Leave(w) /\ UNCHANGED <<rows, world, emitted>>
    BY <1>6 DEF Report, Complete, Crash, engine
  <2>2. task' = task \/ task'.state # "sleeping" \/ task'.wake = {}
    BY <1>6 DEF Report, Complete, Crash, engine, TaskFailed, TypeOK, TaskRow
  <2> QED
    BY <2>1, <2>2, LeaveQuietly DEF Quietly, SameLength, rows, world
<1> QED
  BY <1>1, <1>2, <1>3, <1>4, <1>5, <1>6

(* A worker's steps that start, or end, a wait.                            *)
LEMMA AttemptWaits ==
  ASSUME WaitInv, SleepStory, NEW w \in Workers,
         \/ ClaimStarts(w) \/ LoadWait(w) \/ AwaitAnswer(w) \/ Resume(w) \/ TurnPause(w)
         \/ TurnPauseForTool(w) \/ ToolAwait(w) \/ ToolResume(w)
  PROVE  SleepStory'
<1> USE DEF WaitInv, AttemptInv
<1>a. Active(w)
  BY DEF ClaimStarts, LoadWait, AwaitAnswer, Resume, TurnPause, TurnPauseForTool, ToolAwait,
     ToolResume, At, Active
<1>n. AnswerIsHeard /\ AwaitsOwnWait(w)
  BY DEF SleepStory
<1>g. ASSUME NEW pc \in PCs, Goto(w, pc), UNCHANGED task, AnswerIsHeard',
             pc \in AwaitPCs => AwaitsOwnWait(w)'
      PROVE  SleepStory'
  BY <1>a, <1>g, LaneTellsStory
<1>m. ASSUME NEW s, NEW held, Move(s, held) PROVE run'.lifecycle = s
  BY <1>m, MoveLifecycle DEF TypeOK
<1>p. ASSUME NEW pc \in PCs, Goto(w, pc) PROVE worker'[w] = [worker[w] EXCEPT !.pc = pc]
  BY <1>p DEF TypeOK, Goto
<1>1. CASE ClaimStarts(w)
  <2>1. UNCHANGED requests /\ UNCHANGED engine /\ Goto(w, "loading")
    BY <1>1 DEF ClaimStarts
  <2>2. \/ run' = run
        \/ run.lifecycle \in {"queued", "running"} /\ run'.lifecycle = "running"
    BY <1>1, <1>m DEF ClaimStarts
  <2>3. run.lifecycle = "queued" => Len(requests) = 0
    BY DEF WaitMatchesRequest
  <2>4. AnswerIsHeard'
    BY <2>1, <2>2, <2>3, <1>n DEF AnswerIsHeard, engine
  <2> QED
    BY <2>1, <2>4, <1>g, PcNames DEF AwaitPCs, engine
<1>2. CASE LoadWait(w)
  <2>1. /\ worker'[w].pc = "awaiting" /\ UNCHANGED <<run, requests, task, emitted>>
        /\ \A v \in Workers : v # w => worker'[v] = worker[v]
    BY <1>2 DEF LoadWait, TypeOK, Lane, rows, engine
  <2>2. Len(requests) # 0 /\ run.lifecycle \in InputWaits \union {"running"}
    <3>1. HasWait /\ requests \in Seq(Request) /\ requests # <<>>
      BY <1>2 DEF LoadWait, HasWait, TypeOK
    <3>2. Len(requests) \in DOMAIN requests /\ Len(requests) # 0
      BY <3>1
    <3>3. Latest \in Request
      BY <3>1, <3>2 DEF Latest
    <3>4. Latest.kind \in Kinds
      BY <3>3 DEF Request
    <3> QED
      BY <3>1, <3>2, <3>4, LifecycleKinds DEF HasWait
  <2>3. task.state # "sleeping" /\ \A v \in Workers : v # w => worker[v].pc \notin AwaitPCs
    BY <1>a, AloneAwake
  <2>4. \A v \in Workers : AwaitsOwnWait(v)'
    BY <2>1, <2>2, <2>3 DEF AwaitsOwnWait, AwaitPCs
  <2> QED
    BY <2>1, <2>3, <2>4, <1>n DEF SleepStory, AnswerIsHeard, SleepsWhereItWaits
<1>3. CASE AwaitAnswer(w) \/ ToolAwait(w)
  <2>1. PICK e \in Events, pc \in {"resuming", "tool_resuming"} :
          /\ AwaitEvent(w, e, pc)
          /\ \/ At(w, "awaiting") /\ e = worker[w].wait /\ e = Len(requests)
             \/ At(w, "tool_awaiting") /\ e = ToolEvent /\ pc = "tool_resuming"
    BY <1>3, EventNames DEF AwaitAnswer, ToolAwait, At, AwaitsLatest, TypeOK, Lane
  <2>2. UNCHANGED <<run, requests, tool, emitted>>
    BY <2>1 DEF AwaitEvent, rows, world
  <2>3. AnswerIsHeard'
    BY <2>2, <1>n DEF AnswerIsHeard
  <2>4. CASE e \in emitted /\ Goto(w, pc) /\ UNCHANGED task
    <3>1. worker'[w] = [worker[w] EXCEPT !.pc = pc]
      BY <2>4, <1>p, PcNames
    <3>2. worker'[w].wait = worker[w].wait /\ worker'[w].pc = pc
      BY <3>1 DEF TypeOK, Lane
    <3>3. pc = "resuming" => AwaitsOwnWait(w)'
      BY <2>1, <2>2, <2>4, <3>2 DEF AwaitsOwnWait
    <3> QED
      BY <2>3, <2>4, <3>3, <1>g, PcNames DEF AwaitPCs
  <2>5. CASE task' = [task EXCEPT !.state = "sleeping", !.wake = {e}] /\ Goto(w, "suspending")
    <3>1. task'.wake = {e} /\ worker'[w].pc = "suspending"
          /\ \A v \in Workers : v # w => worker'[v] = worker[v]
      BY <2>5 DEF TypeOK, TaskRow, Lane, Goto
    <3>2. \A v \in Workers : v # w => worker[v].pc \notin AwaitPCs
      BY <1>a, AloneAwake
    <3>3. \A v \in Workers : AwaitsOwnWait(v)'
      BY <3>1, <3>2 DEF AwaitsOwnWait, AwaitPCs
    <3>4. ASSUME At(w, "tool_awaiting"), e = ToolEvent PROVE SleepsWhereItWaits'
      <4>1. run.lifecycle \in {"waiting_for_tool"} \union Terminal /\ tool # "none"
        BY <3>4, <1>n DEF AwaitsOwnWait, At
      <4>2. /\ task'.wake = {ToolEvent} /\ tool' # "none"
            /\ run'.lifecycle \in Terminal \/ run'.lifecycle = "waiting_for_tool"
        BY <2>2, <3>1, <3>4, <4>1
      <4> QED
        BY <4>2 DEF SleepsWhereItWaits
    <3>5. ASSUME At(w, "awaiting"), e = Len(requests) PROVE SleepsWhereItWaits'
      <4>1. e \notin emitted
        BY <2>1, <2>5 DEF AwaitEvent, Goto, At, TypeOK, Lane
      <4>2. run.lifecycle \in InputWaits \union Terminal
        BY <3>5, <4>1, <1>n DEF AwaitsOwnWait, AnswerIsHeard, At
      <4>3. /\ task'.wake = {Len(requests')}
            /\ run'.lifecycle \in InputWaits \/ run'.lifecycle \in Terminal
        BY <2>2, <3>1, <3>5, <4>2
      <4> QED
        BY <4>3 DEF SleepsWhereItWaits
    <3> QED
      BY <2>1, <2>3, <3>3, <3>4, <3>5 DEF SleepStory
  <2> QED
    BY <2>1, <2>4, <2>5 DEF AwaitEvent, Goto
<1>4. CASE Resume(w)
  <2>1. UNCHANGED <<requests, task, emitted>> /\ Goto(w, "turn")
    BY <1>4 DEF Resume, engine
  <2>2. Len(requests) \in emitted
    BY <1>4, <1>n DEF Resume, At, AwaitsOwnWait, AwaitsLatest
  <2> QED
    BY <2>1, <2>2, <1>g, PcNames DEF AnswerIsHeard, AwaitPCs
<1>5. CASE TurnPause(w)
  <2>1. run'.lifecycle \in InputWaits
    BY <1>5, <1>m, LifecycleKinds DEF TurnPause
  <2>2. AnswerIsHeard'
    BY <2>1, LifecycleKinds DEF AnswerIsHeard
  <2>3. Goto(w, "reloading") /\ UNCHANGED task
    BY <1>5 DEF TurnPause, engine
  <2> QED
    BY <2>2, <2>3, <1>g, PcNames DEF AwaitPCs
<1>6. CASE TurnPauseForTool(w)
  <2>1. UNCHANGED <<requests, tool, task, emitted>> /\ Goto(w, "tool_awaiting")
        /\ run.lifecycle \in {"running", "waiting_for_tool"} /\ tool # "none"
        /\ run'.lifecycle = "waiting_for_tool"
    BY <1>6, <1>m DEF TurnPauseForTool, engine, world
  <2>2. AnswerIsHeard'
    BY <2>1, <1>n DEF AnswerIsHeard
  <2>3. worker'[w].pc = "tool_awaiting"
    BY <2>1 DEF Goto, TypeOK, Lane
  <2>4. AwaitsOwnWait(w)'
    BY <2>1, <2>3 DEF AwaitsOwnWait
  <2> QED
    BY <2>1, <2>2, <2>4, <1>g, PcNames
<1>7. CASE ToolResume(w)
  <2>1. UNCHANGED <<requests, task, emitted>>
        /\ \E pc \in {"turn", "unwinding"} : Goto(w, pc)
        /\ (run' = run \/ run.lifecycle = "waiting_for_tool")
    BY <1>7 DEF ToolResume, engine
  <2>2. AnswerIsHeard'
    BY <2>1, <1>n DEF AnswerIsHeard
  <2> QED
    BY <2>1, <2>2, <1>g, PcNames DEF AwaitPCs
<1> QED
  BY <1>1, <1>2, <1>3, <1>4, <1>5, <1>6, <1>7

(* The steps of the API calls, the engine and the world.                   *)
LEMMA OthersQuietly ==
  ASSUME TypeOK,
         \/ ClaimExpires \/ Spawn \/ SpawnCrash
         \/ CancelRequest \/ CancelObserve \/ CancelSignal \/ CancelAccept \/ CancelCrash
         \/ \E i \in DOMAIN requests : Answer(i)
         \/ EmitAnswer \/ ResponderCrash \/ Reconcile \/ Revoke \/ ToolFinish \/ ToolEmit
         \/ UNCHANGED vars
  PROVE  Quietly
<1>w. UNCHANGED worker /\ (tool # "none" => tool' # "none")
  BY DEF ClaimExpires, Spawn, SpawnLoad, SpawnTask, BindTask, SpawnCancel, SpawnCrash,
     CancelRequest, CancelObserve, CancelSignal, CancelAccept, CancelCrash, Answer, EmitAnswer,
     ResponderCrash, Reconcile, Revoke, ToolFinish, ToolEmit, world, vars
<1>s. ASSUME UNCHANGED engine, SameLength,
             run'.lifecycle = run.lifecycle \/ run'.lifecycle \in Terminal
      PROVE  Quietly
  BY <1>s, <1>w DEF Quietly, engine
<1>e. ASSUME UNCHANGED rows, emitted \subseteq emitted',
             task' = task \/ task'.state # "sleeping" \/ task'.wake = {}
      PROVE  Quietly
  BY <1>e, <1>w DEF Quietly, rows, SameLength
<1>1. CASE ClaimExpires
  <2>1. task'.state # "sleeping" \/ task'.wake = {}
    BY <1>1 DEF ClaimExpires, TaskFailed, TypeOK, TaskRow
  <2> QED
    BY <1>1, <2>1, <1>e DEF ClaimExpires
<1>2. CASE SpawnTask \/ SpawnCancel \/ CancelSignal
  <2>1. task' = task \/ task'.state # "sleeping"
    BY <1>2 DEF SpawnTask, SpawnCancel, CancelSignal, TaskCancelled, TypeOK, TaskRow
  <2> QED
    BY <1>2, <2>1, <1>e DEF SpawnTask, SpawnCancel, CancelSignal
<1>3. CASE EmitAnswer \/ ToolEmit
  <2>1. UNCHANGED rows /\ \E e : Emit(e)
    BY <1>3 DEF EmitAnswer, ToolEmit
  <2>2. emitted \subseteq emitted' /\ (task' = task \/ task'.state # "sleeping")
    BY <2>1 DEF Emit, TypeOK, TaskRow
  <2> QED
    BY <2>1, <2>2, <1>e
<1>4. CASE SpawnLoad \/ SpawnCrash \/ CancelObserve \/ CancelCrash \/ ResponderCrash \/ Revoke
           \/ ToolFinish \/ UNCHANGED vars
  BY <1>4, <1>e DEF SpawnLoad, SpawnCrash, CancelObserve, CancelCrash, ResponderCrash, Revoke,
     ToolFinish, vars, rows, engine
<1>5. CASE BindTask \/ CancelRequest
  <2>1. UNCHANGED engine /\ UNCHANGED requests
    BY <1>5 DEF BindTask, CancelRequest
  <2>2. run'.lifecycle = run.lifecycle \/ run'.lifecycle \in Terminal
    BY <1>5 DEF BindTask, CancelRequest, TypeOK, RunRow, Terminal
  <2> QED
    BY <2>1, <2>2, <1>s DEF SameLength
<1>6. CASE CancelAccept \/ Reconcile
  <2>1. UNCHANGED engine /\ (AcceptCancellation \/ FailRun)
    BY <1>6 DEF CancelAccept, Reconcile
  <2>2. run'.lifecycle = run.lifecycle \/ run'.lifecycle \in Terminal
    BY <2>1 DEF AcceptCancellation, FailRun, Move, rows, TypeOK, RunRow, Terminal
  <2> QED
    BY <2>1, <2>2, <1>s, ClosingKeepsLength
<1>7. CASE \E i \in DOMAIN requests : Answer(i)
  <2>1. PICK i \in DOMAIN requests : Answer(i)
    BY <1>7
  <2>2. UNCHANGED engine /\ UNCHANGED run /\ SameLength
    BY <2>1 DEF Answer, SameLength, TypeOK
  <2> QED
    BY <2>2, <1>s
<1> QED
  BY <1>1, <1>2, <1>3, <1>4, <1>5, <1>6, <1>7 DEF Spawn

LEMMA SleepStep ==
  ASSUME WaitInv, SleepStory, [Next]_vars
  PROVE  SleepStory'
<1> USE DEF WaitInv, AttemptInv
<1>1. ASSUME NEW w \in Workers, ClaimTask(w) PROVE Quietly
  <2>1. task'.state # "sleeping" /\ UNCHANGED <<rows, world, emitted>>
    BY <1>1 DEF ClaimTask, TypeOK, TaskRow
  <2>2. \A v \in Workers : worker'[v].pc \in AwaitPCs => worker'[v] = worker[v]
    BY <1>1 DEF ClaimTask, AwaitPCs, TypeOK
  <2> QED
    BY <2>1, <2>2 DEF Quietly, SameLength, rows, world
<1>2. ASSUME NEW w \in Workers, Attempt(w) \/ Crash(w) PROVE SleepStory'
  BY <1>2, AttemptQuietly, AttemptWaits, QuietlyKeepsStory DEF Attempt
<1> QED
  BY <1>1, <1>2, OthersQuietly, QuietlyKeepsStory DEF Next

(* Whatever answers, cancellations, crashes and retries have passed, a     *)
(* task that sleeps on an event sleeps on the one its open run waits for:  *)
(* the answer to the latest request of a run that waits for a person, or   *)
(* the end of the tool of a run that waits for its tool.                   *)
THEOREM SleepersWaitForTheirRun == ~Stalls => (Spec => []SleepsWhereItWaits)
<1> SUFFICES ASSUME ~Stalls PROVE Spec => []SleepsWhereItWaits
  OBVIOUS
<1>1. Init => SleepStory
  BY DEF Init, SleepStory, AnswerIsHeard, AwaitsOwnWait, SleepsWhereItWaits, Idle
<1>2. SleepStory /\ WaitInv /\ [Next]_vars => SleepStory'
  BY SleepStep
<1>3. SleepStory => SleepsWhereItWaits
  BY DEF SleepStory
<1>4. Spec => []WaitInv
  BY WaitInvariance
<1> QED
  BY <1>1, <1>2, <1>3, <1>4, PTL DEF Spec
==============================================================================
