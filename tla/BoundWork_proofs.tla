-------------------------- MODULE BoundWork_proofs --------------------------
(***************************************************************************)
(* Proofs about BoundWork for any number of lanes, of callers and of       *)
(* attempts, with crashes, stalled workers and failing loads.              *)
(***************************************************************************)
EXTENDS BoundWork, FiniteSetTheorems, TLAPS

-----------------------------------------------------------------------------
(* The inductive invariant. *)

(* Lanes that hold, or held, a claim with which no attempt has begun yet.  *)
Claimed == {w \in Workers : At(w, "claimed")}

(* Claims the engine has handed out.                                       *)
Started == IF task.state \in {"none", "pending", "sleeping"}
           THEN task.attempt - 1 ELSE task.attempt

(* An attempt begins at most once per claim.                               *)
OneAttemptPerClaim == row.attempts + Cardinality(Claimed) <= Started

(* Only a lane whose attempt has begun performs the step, and only a       *)
(* performed step has a result.                                            *)
StepFirst ==
  /\ checkpoint => effect
  /\ \A w \in Workers : /\ worker[w].pc \in {"checkpoint", "project"} => effect
                        /\ At(w, "step") => row.attempts > 0

(* While nothing was lost the row and the task move together.              *)
InAttempt       == row.state = "running" /\ row.attempts = task.attempt
BetweenAttempts == row.state = "pending" /\ row.attempts = task.attempt - 1
RetryDue        == row.state = "pending" /\ row.attempts = task.attempt
                   /\ row.attempts < MaxAttempts

LaneAgrees(w) ==
  /\ worker[w].token = task.attempt
  /\ At(w, "claimed") => Settled \/ BetweenAttempts
  /\ worker[w].pc \in {"step", "checkpoint", "project"} => Settled \/ InAttempt
  /\ Failing(w) => Settled \/ InAttempt \/ BetweenAttempts
  /\ At(w, "reporting") => Settled \/ RetryDue
  /\ At(w, "receipt") => Settled
  /\ ~At(w, "cancelling")

Agreement ==
  /\ task.state \in {"none", "pending", "sleeping"} => Settled \/ BetweenAttempts
  /\ task.state \in {"completed", "failed"} => Settled
  /\ \A w \in Workers : ~At(w, "idle") => /\ task.state \in {"running", "cancelled"}
                                          /\ task.state = "running" => LaneAgrees(w)
  /\ \A v, w \in Workers : task.state = "running" /\ ~At(v, "idle") /\ ~At(w, "idle") => v = w

NothingLost == lost = {} => Agreement

IInv ==
  /\ TypeOK
  /\ OneAttemptPerClaim
  /\ UnboundIsUntouched
  /\ StepFirst
  /\ NothingLost

-----------------------------------------------------------------------------
(* Lanes: what moving, leaving and claiming do to them. *)

LEMMA LaneNames ==
  /\ Executing \subseteq PCs
  /\ \A pc \in Executing \union {"idle", "receipt", "cancelling", "reporting"} : pc \in PCs
BY DEF PCs, Executing

LEMMA LaneMoves ==
  ASSUME TypeOK, NEW w \in Workers, NEW pc \in PCs, Goto(w, pc)
  PROVE  /\ worker' \in [Workers -> Lane]
         /\ worker'[w].pc = pc /\ worker'[w].token = worker[w].token
         /\ \A v \in Workers \ {w} : worker'[v] = worker[v]
BY DEF TypeOK, Lane, Goto

LEMMA LaneLeaves ==
  ASSUME TypeOK, NEW w \in Workers, Leave(w)
  PROVE  /\ worker' \in [Workers -> Lane]
         /\ worker'[w] = Idle
         /\ \A v \in Workers \ {w} : worker'[v] = worker[v]
<1>1. Idle \in Lane
  BY BoundWorkAssumption DEF Idle, Lane, PCs
<1> QED
  BY <1>1 DEF TypeOK, Leave

LEMMA LaneClaims ==
  ASSUME TypeOK, NEW w \in Workers, ClaimTask(w)
  PROVE  /\ worker' \in [Workers -> Lane]
         /\ worker'[w].pc = "claimed" /\ worker'[w].token = task.attempt
         /\ \A v \in Workers \ {w} : worker'[v] = worker[v]
<1>1. [pc |-> "claimed", token |-> task.attempt] \in Lane
  BY BoundWorkAssumption DEF TypeOK, Task, Lane, PCs, Executing
<1> QED
  BY <1>1 DEF TypeOK, ClaimTask

(* Tasks: what failing, cancelling and claiming do to one. *)

LEMMA TaskNames ==
  \A s \in {"none", "pending", "running", "sleeping", "completed", "failed", "cancelled"} :
    s \in TaskStates
BY DEF TaskStates, TaskEnded

LEMMA TaskStateType ==
  ASSUME task \in Task, NEW s \in TaskStates
  PROVE  [task EXCEPT !.state = s] \in Task
BY DEF Task

LEMMA TaskFailedType ==
  ASSUME task \in Task
  PROVE  TaskFailed \in Task
<1>1. CASE task.attempt < MaxAttempts
  <2>1. task.attempt + 1 \in 1..MaxAttempts
    BY <1>1, BoundWorkAssumption DEF Task
  <2> QED
    BY <1>1, <2>1, TaskNames DEF Task, TaskFailed
<1>2. CASE ~(task.attempt < MaxAttempts)
  BY <1>2, TaskStateType, TaskNames DEF TaskFailed
<1> QED
  BY <1>1, <1>2

LEMMA TaskCancelledType ==
  ASSUME task \in Task
  PROVE  TaskCancelled \in Task
BY TaskStateType, TaskNames DEF TaskCancelled

-----------------------------------------------------------------------------
(* The count of claims. *)

LEMMA ClaimedFinite == IsFiniteSet(Claimed) /\ Cardinality(Claimed) \in Nat
<1>1. Claimed \in SUBSET Workers
  BY DEF Claimed
<1> QED
  BY <1>1, BoundWorkAssumption, FS_Subset, FS_CardinalityType

LEMMA ClaimedShrinks ==
  ASSUME Claimed' \subseteq Claimed
  PROVE  Cardinality(Claimed') \in Nat /\ Cardinality(Claimed') <= Cardinality(Claimed)
<1>1. IsFiniteSet(Claimed) /\ Claimed' \in SUBSET Claimed
  BY ClaimedFinite
<1>2. IsFiniteSet(Claimed') /\ Cardinality(Claimed') <= Cardinality(Claimed)
  BY <1>1, FS_Subset
<1> QED
  BY <1>2, FS_CardinalityType

(* A lane that was not idle moves anywhere but to "claimed".               *)
LEMMA ClaimedAfterMove ==
  ASSUME TypeOK, NEW w \in Workers, NEW pc \in PCs, pc # "claimed", Goto(w, pc)
  PROVE  Claimed' \subseteq Claimed
<1>1. /\ worker'[w].pc = pc
      /\ \A v \in Workers \ {w} : worker'[v] = worker[v]
  BY LaneMoves
<1> QED
  BY <1>1 DEF Claimed, At

LEMMA ClaimedAfterLeave ==
  ASSUME TypeOK, NEW w \in Workers, Leave(w)
  PROVE  Claimed' \subseteq Claimed
<1>1. /\ worker'[w].pc = "idle"
      /\ \A v \in Workers \ {w} : worker'[v] = worker[v]
  BY LaneLeaves DEF Idle
<1> QED
  BY <1>1 DEF Claimed, At

LEMMA StartedType ==
  ASSUME TypeOK
  PROVE  Started \in Nat /\ Started <= task.attempt
BY BoundWorkAssumption DEF TypeOK, Task, Started

LEMMA StartedAfterFailure ==
  ASSUME TypeOK, task.state = "running", task' = TaskFailed
  PROVE  Started' = Started
BY BoundWorkAssumption DEF TypeOK, Task, TaskFailed, Started

LEMMA StartedAfterCancellation ==
  ASSUME TypeOK, task' = TaskCancelled
  PROVE  Started' \in Nat /\ Started <= Started'
BY BoundWorkAssumption DEF TypeOK, Task, TaskCancelled, Started

(* Steps that begin no attempt keep the count.                             *)
LEMMA CountKept ==
  ASSUME TypeOK, OneAttemptPerClaim, row'.attempts = row.attempts,
         Claimed' \subseteq Claimed, Started' \in Nat, Started <= Started'
  PROVE  OneAttemptPerClaim'
<1>1. /\ Cardinality(Claimed') \in Nat /\ Cardinality(Claimed') <= Cardinality(Claimed)
      /\ Cardinality(Claimed) \in Nat
  BY ClaimedShrinks, ClaimedFinite
<1>2. row.attempts \in Nat /\ Started \in Nat
  BY StartedType, BoundWorkAssumption DEF TypeOK, Row
<1> QED
  BY <1>1, <1>2 DEF OneAttemptPerClaim

LEMMA CountClaim ==
  ASSUME TypeOK, OneAttemptPerClaim, NEW w \in Workers, ClaimTask(w)
  PROVE  OneAttemptPerClaim'
<1>1. Claimed' = Claimed \union {w} /\ w \notin Claimed
  BY LaneClaims DEF Claimed, At, ClaimTask
<1>2. IsFiniteSet(Claimed)
  BY ClaimedFinite
<1>3. Cardinality(Claimed \union {w}) = Cardinality(Claimed) + 1
  BY <1>1, <1>2, FS_AddElement
<1>4. Started' = Started + 1
  BY BoundWorkAssumption DEF TypeOK, Task, ClaimTask, Claimable, Started
<1>5. row' = row /\ row.attempts \in Nat /\ Cardinality(Claimed) \in Nat
  BY ClaimedFinite, BoundWorkAssumption DEF TypeOK, Row, ClaimTask
<1>6. Cardinality(Claimed') = Cardinality(Claimed) + 1
  BY <1>1, <1>3
<1> QED
  BY <1>4, <1>5, <1>6, StartedType DEF OneAttemptPerClaim

LEMMA CountBegin ==
  ASSUME TypeOK, OneAttemptPerClaim, NEW w \in Workers, BeginAttempt(w)
  PROVE  OneAttemptPerClaim' /\ row.attempts + 1 <= MaxAttempts
<1>1. Claimed' = Claimed \ {w} /\ w \in Claimed
  BY LaneMoves, LaneNames DEF Claimed, At, BeginAttempt, Executing
<1>2. IsFiniteSet(Claimed) /\ Cardinality(Claimed) \in Nat
  BY ClaimedFinite
<1>3. Cardinality(Claimed \ {w}) = Cardinality(Claimed) - 1
  BY <1>1, <1>2, FS_RemoveElement
<1>4. IsFiniteSet(Claimed \ {w})
  BY <1>2, FS_RemoveElement
<1>5. Cardinality(Claimed \ {w}) \in Nat
  BY <1>4, FS_CardinalityType
<1>6. row'.attempts = row.attempts + 1 /\ row.attempts \in Nat
  BY BoundWorkAssumption DEF TypeOK, Row, BeginAttempt
<1>7. Started' = Started
  BY DEF BeginAttempt, engine, Started
<1>8. Cardinality(Claimed') = Cardinality(Claimed) - 1
  BY <1>1, <1>3
<1>9. OneAttemptPerClaim'
  BY <1>2, <1>6, <1>7, <1>8, StartedType DEF OneAttemptPerClaim
<1>10. Started <= MaxAttempts
  BY StartedType, BoundWorkAssumption DEF TypeOK, Task
<1> QED
  BY <1>2, <1>3, <1>5, <1>6, <1>9, <1>10, StartedType, BoundWorkAssumption DEF OneAttemptPerClaim
-----------------------------------------------------------------------------
(* Types and the count, step by step. *)

Counted == TypeOK /\ OneAttemptPerClaim

LEMMA RowStateType ==
  ASSUME row \in Row, NEW s \in {"pending", "running", "succeeded", "failed", "cancelled"}
  PROVE  [row EXCEPT !.state = s] \in Row /\ [row EXCEPT !.state = s].attempts = row.attempts
BY DEF Row, Terminal

LEMMA CancelRowType ==
  ASSUME row \in Row, CancelRow
  PROVE  row' \in Row /\ row'.attempts = row.attempts
BY RowStateType DEF CancelRow

(* A lane that moves on, with the engine as it was.                        *)
LEMMA CountedMove ==
  ASSUME Counted, NEW w \in Workers, NEW pc \in PCs, pc # "claimed", Goto(w, pc),
         task' = task, checkpoint' \in BOOLEAN, effect' \in BOOLEAN, UNCHANGED clients,
         row' \in Row, row'.attempts = row.attempts,
         lost' \subseteq {"claim", "binding", "conflict"}
  PROVE  Counted'
<1>1. TypeOK'
  BY LaneMoves DEF Counted, TypeOK, clients
<1>2. Claimed' \subseteq Claimed
  BY ClaimedAfterMove DEF Counted
<1>3. Started' = Started /\ Started \in Nat /\ Started <= Started
  BY StartedType DEF Counted, Started
<1>4. OneAttemptPerClaim'
  BY <1>2, <1>3, CountKept DEF Counted
<1> QED
  BY <1>1, <1>4 DEF Counted

(* Every other lane stays, and so does the number of attempts.             *)
LEMMA CountedStay ==
  ASSUME Counted, Claimed' \subseteq Claimed, worker' \in [Workers -> Lane],
         task' \in Task, Started' \in Nat, Started <= Started',
         UNCHANGED <<checkpoint, effect>>, row' \in Row, row'.attempts = row.attempts,
         spawner' \in [Spawners -> {"idle", "spawn", "bind", "cancel"}],
         canceller' \in {"idle", "signal"}, lost' \subseteq {"claim", "binding", "conflict"}
  PROVE  Counted'
<1>1. TypeOK'
  BY DEF Counted, TypeOK
<1>2. OneAttemptPerClaim'
  BY CountKept DEF Counted
<1> QED
  BY <1>1, <1>2 DEF Counted

LEMMA SameTask ==
  ASSUME TypeOK, task' = task
  PROVE  task' \in Task /\ Started' \in Nat /\ Started <= Started'
BY StartedType DEF TypeOK, Started

LEMMA FailedTask ==
  ASSUME TypeOK, task.state = "running", task' = TaskFailed
  PROVE  task' \in Task /\ Started' \in Nat /\ Started <= Started'
BY StartedType, StartedAfterFailure, TaskFailedType DEF TypeOK

LEMMA CancelledTaskRow ==
  ASSUME TypeOK, task' = TaskCancelled
  PROVE  task' \in Task /\ Started' \in Nat /\ Started <= Started'
BY StartedAfterCancellation, TaskCancelledType DEF TypeOK

LEMMA CompletedTask ==
  ASSUME TypeOK, task.state = "running", task' = [task EXCEPT !.state = "completed"]
  PROVE  task' \in Task /\ Started' \in Nat /\ Started <= Started'
BY StartedType, TaskStateType, TaskNames DEF TypeOK, Task, Started

LEMMA SpawnedTask ==
  ASSUME TypeOK, task.state = "none", task' = [task EXCEPT !.state = "pending"]
  PROVE  task' \in Task /\ Started' \in Nat /\ Started <= Started'
BY StartedType, TaskStateType, TaskNames DEF TypeOK, Task, Started

LEMMA BoundRowType ==
  ASSUME row \in Row, NEW b \in BOOLEAN
  PROVE  [row EXCEPT !.bound = b] \in Row /\ [row EXCEPT !.bound = b].attempts = row.attempts
BY DEF Row

LEMMA SameLanes ==
  ASSUME worker' = worker
  PROVE  Claimed' \subseteq Claimed
BY DEF Claimed, At

LEMMA CountedStep == Counted /\ [Next]_vars => Counted'
<1> SUFFICES ASSUME Counted, [Next]_vars PROVE Counted'
  OBVIOUS
<1>t. TypeOK /\ row \in Row /\ task \in Task
  BY DEF Counted, TypeOK
<1>1. CASE UNCHANGED vars
  BY <1>1 DEF vars, Counted, TypeOK, OneAttemptPerClaim, Claimed, At, Started
<1>2. ASSUME NEW w \in Workers, ClaimTask(w) PROVE Counted'
  <2>1. OneAttemptPerClaim'
    BY <1>2, CountClaim DEF Counted
  <2>2. worker' \in [Workers -> Lane]
    BY <1>t, <1>2, LaneClaims
  <2>3. task' \in Task
    BY <1>t, <1>2, TaskStateType, TaskNames DEF ClaimTask
  <2>4. TypeOK'
    BY <1>t, <1>2, <2>2, <2>3 DEF ClaimTask, TypeOK, clients
  <2> QED
    BY <2>1, <2>4 DEF Counted
<1>3. ASSUME NEW w \in Workers, BeginAttempt(w) PROVE Counted'
  <2>1. OneAttemptPerClaim' /\ row.attempts + 1 <= MaxAttempts
    BY <1>t, <1>3, CountBegin DEF Counted
  <2>2. row' \in Row
    <3>1. row.attempts + 1 \in 0..MaxAttempts
      BY <1>t, <2>1, BoundWorkAssumption DEF Row
    <3>2. row' = [row EXCEPT !.state = "running", !.attempts = row.attempts + 1]
      BY <1>3 DEF BeginAttempt
    <3> QED
      BY <1>t, <3>1, <3>2 DEF Row
  <2>3. worker' \in [Workers -> Lane]
    BY <1>t, <1>3, LaneMoves, LaneNames DEF BeginAttempt, Executing
  <2>4. TypeOK'
    BY <1>t, <1>3, <2>2, <2>3 DEF BeginAttempt, TypeOK, clients, engine
  <2> QED
    BY <2>1, <2>4 DEF Counted
<1>4. ASSUME NEW w \in Workers, BeginSettled(w) PROVE Counted'
  <2>1. /\ task' = task /\ checkpoint' \in BOOLEAN /\ effect' \in BOOLEAN
        /\ UNCHANGED clients /\ lost' \subseteq {"claim", "binding", "conflict"}
    BY <1>t, <1>4 DEF BeginSettled, TypeOK, engine, clients
  <2>2. row' \in Row /\ row'.attempts = row.attempts
    BY <1>t, <1>4 DEF BeginSettled
  <2>3. Goto(w, "receipt")
    BY <1>4 DEF BeginSettled
  <2> QED
    BY <2>1, <2>2, <2>3, LaneNames, CountedMove DEF Executing
<1>5. ASSUME NEW w \in Workers, BeginUnbound(w) PROVE Counted'
  <2>1. /\ task' = task /\ checkpoint' \in BOOLEAN /\ effect' \in BOOLEAN
        /\ UNCHANGED clients /\ lost' \subseteq {"claim", "binding", "conflict"}
    BY <1>t, <1>5 DEF BeginUnbound, TypeOK, engine, clients
  <2>2. row' \in Row /\ row'.attempts = row.attempts
    BY <1>t, <1>5 DEF BeginUnbound
  <2>3. Goto(w, "reporting")
    BY <1>5 DEF BeginUnbound
  <2> QED
    BY <2>1, <2>2, <2>3, LaneNames, CountedMove DEF Executing
<1>6. ASSUME NEW w \in Workers, LoadFails(w) PROVE Counted'
  <2>1. /\ task' = task /\ checkpoint' \in BOOLEAN /\ effect' \in BOOLEAN
        /\ UNCHANGED clients /\ lost' \subseteq {"claim", "binding", "conflict"}
    BY <1>t, <1>6 DEF LoadFails, TypeOK, engine, clients
  <2>2. row' \in Row /\ row'.attempts = row.attempts
    BY <1>t, <1>6 DEF LoadFails
  <2>3. Goto(w, "failing") \/ Goto(w, "rejecting")
    BY <1>6 DEF LoadFails
  <2> QED
    BY <2>1, <2>2, <2>3, LaneNames, CountedMove DEF Executing
<1>7. ASSUME NEW w \in Workers, StepReplays(w) PROVE Counted'
  <2>1. /\ task' = task /\ checkpoint' \in BOOLEAN /\ effect' \in BOOLEAN
        /\ UNCHANGED clients /\ lost' \subseteq {"claim", "binding", "conflict"}
    BY <1>t, <1>7 DEF StepReplays, TypeOK, engine, clients
  <2>2. row' \in Row /\ row'.attempts = row.attempts
    BY <1>t, <1>7 DEF StepReplays
  <2>3. Goto(w, "project")
    BY <1>7 DEF StepReplays
  <2> QED
    BY <2>1, <2>2, <2>3, LaneNames, CountedMove DEF Executing
<1>8. ASSUME NEW w \in Workers, StepPerforms(w) PROVE Counted'
  <2>1. /\ task' = task /\ checkpoint' \in BOOLEAN /\ effect' \in BOOLEAN
        /\ UNCHANGED clients /\ lost' \subseteq {"claim", "binding", "conflict"}
    BY <1>t, <1>8 DEF StepPerforms, TypeOK, engine, clients
  <2>2. row' \in Row /\ row'.attempts = row.attempts
    BY <1>t, <1>8 DEF StepPerforms
  <2>3. Goto(w, "checkpoint")
    BY <1>8 DEF StepPerforms
  <2> QED
    BY <2>1, <2>2, <2>3, LaneNames, CountedMove DEF Executing
<1>9. ASSUME NEW w \in Workers, StepRecords(w) PROVE Counted'
  <2>1. /\ task' = task /\ checkpoint' \in BOOLEAN /\ effect' \in BOOLEAN
        /\ UNCHANGED clients /\ lost' \subseteq {"claim", "binding", "conflict"}
    BY <1>t, <1>9 DEF StepRecords, TypeOK, engine, clients
  <2>2. row' \in Row /\ row'.attempts = row.attempts
    BY <1>t, <1>9 DEF StepRecords
  <2>3. Goto(w, "project")
    BY <1>9 DEF StepRecords
  <2> QED
    BY <2>1, <2>2, <2>3, LaneNames, CountedMove DEF Executing
<1>10. ASSUME NEW w \in Workers, StepFails(w) PROVE Counted'
  <2>1. /\ task' = task /\ checkpoint' \in BOOLEAN /\ effect' \in BOOLEAN
        /\ UNCHANGED clients /\ lost' \subseteq {"claim", "binding", "conflict"}
    BY <1>t, <1>10 DEF StepFails, TypeOK, engine, clients
  <2>2. row' \in Row /\ row'.attempts = row.attempts
    BY <1>t, <1>10 DEF StepFails
  <2>3. Goto(w, "failing") \/ Goto(w, "rejecting")
    BY <1>10 DEF StepFails
  <2> QED
    BY <2>1, <2>2, <2>3, LaneNames, CountedMove DEF Executing
<1>11. ASSUME NEW w \in Workers, EngineRejects(w) PROVE Counted'
  <2>1. /\ task' = task /\ checkpoint' \in BOOLEAN /\ effect' \in BOOLEAN
        /\ UNCHANGED clients /\ lost' \subseteq {"claim", "binding", "conflict"}
    BY <1>t, <1>11 DEF EngineRejects, TypeOK, engine, clients
  <2>2. row' \in Row /\ row'.attempts = row.attempts
    BY <1>t, <1>11 DEF EngineRejects
  <2>3. Goto(w, "failing") \/ Goto(w, "reporting") \/ Goto(w, "cancelling")
    BY <1>11 DEF EngineRejects
  <2> QED
    BY <2>1, <2>2, <2>3, LaneNames, CountedMove DEF Executing
<1>12. ASSUME NEW w \in Workers, Succeed(w) PROVE Counted'
  <2>1. /\ task' = task /\ checkpoint' \in BOOLEAN /\ effect' \in BOOLEAN
        /\ UNCHANGED clients /\ lost' \subseteq {"claim", "binding", "conflict"}
    BY <1>t, <1>12 DEF Succeed, TypeOK, engine, clients
  <2>2. row' \in Row /\ row'.attempts = row.attempts
    BY <1>t, <1>12, RowStateType DEF Succeed
  <2>3. Goto(w, "receipt")
    BY <1>12 DEF Succeed
  <2> QED
    BY <2>1, <2>2, <2>3, LaneNames, CountedMove DEF Executing
<1>13. ASSUME NEW w \in Workers, FailSettled(w) PROVE Counted'
  <2>1. /\ task' = task /\ checkpoint' \in BOOLEAN /\ effect' \in BOOLEAN
        /\ UNCHANGED clients /\ lost' \subseteq {"claim", "binding", "conflict"}
    BY <1>t, <1>13 DEF FailSettled, TypeOK, engine, clients
  <2>2. row' \in Row /\ row'.attempts = row.attempts
    BY <1>t, <1>13 DEF FailSettled
  <2>3. Goto(w, "receipt")
    BY <1>13 DEF FailSettled
  <2> QED
    BY <2>1, <2>2, <2>3, LaneNames, CountedMove DEF Executing
<1>14. ASSUME NEW w \in Workers, FailFinally(w) PROVE Counted'
  <2>1. /\ task' = task /\ checkpoint' \in BOOLEAN /\ effect' \in BOOLEAN
        /\ UNCHANGED clients /\ lost' \subseteq {"claim", "binding", "conflict"}
    BY <1>t, <1>14 DEF FailFinally, TypeOK, engine, clients
  <2>2. row' \in Row /\ row'.attempts = row.attempts
    BY <1>t, <1>14, RowStateType DEF FailFinally
  <2>3. Goto(w, "receipt")
    BY <1>14 DEF FailFinally
  <2> QED
    BY <2>1, <2>2, <2>3, LaneNames, CountedMove DEF Executing
<1>15. ASSUME NEW w \in Workers, FailForRetry(w) PROVE Counted'
  <2>1. /\ task' = task /\ checkpoint' \in BOOLEAN /\ effect' \in BOOLEAN
        /\ UNCHANGED clients /\ lost' \subseteq {"claim", "binding", "conflict"}
    BY <1>t, <1>15 DEF FailForRetry, TypeOK, engine, clients
  <2>2. row' \in Row /\ row'.attempts = row.attempts
    BY <1>t, <1>15, RowStateType DEF FailForRetry
  <2>3. Goto(w, "reporting")
    BY <1>15 DEF FailForRetry
  <2> QED
    BY <2>1, <2>2, <2>3, LaneNames, CountedMove DEF Executing
<1>16. ASSUME NEW w \in Workers, FailConflicts(w) PROVE Counted'
  <2>1. /\ task' = task /\ checkpoint' \in BOOLEAN /\ effect' \in BOOLEAN
        /\ UNCHANGED clients /\ lost' \subseteq {"claim", "binding", "conflict"}
    BY <1>t, <1>16 DEF FailConflicts, TypeOK, engine, clients
  <2>2. row' \in Row /\ row'.attempts = row.attempts
    BY <1>t, <1>16 DEF FailConflicts
  <2>3. Goto(w, "reporting")
    BY <1>16 DEF FailConflicts
  <2> QED
    BY <2>1, <2>2, <2>3, LaneNames, CountedMove DEF Executing
<1>17. ASSUME NEW w \in Workers, CancelledTask(w) PROVE Counted'
  <2>1. /\ task' = task /\ checkpoint' \in BOOLEAN /\ effect' \in BOOLEAN
        /\ UNCHANGED clients /\ lost' \subseteq {"claim", "binding", "conflict"}
    BY <1>t, <1>17 DEF CancelledTask, TypeOK, engine, clients
  <2>2. row' \in Row /\ row'.attempts = row.attempts
    BY <1>t, <1>17, CancelRowType DEF CancelledTask
  <2>3. Goto(w, "reporting")
    BY <1>17 DEF CancelledTask
  <2> QED
    BY <2>1, <2>2, <2>3, LaneNames, CountedMove DEF Executing
<1>18. ASSUME NEW w \in Workers, Report(w) PROVE Counted'
  <2>1. Claimed' \subseteq Claimed /\ worker' \in [Workers -> Lane]
    BY <1>t, <1>18, LaneLeaves, ClaimedAfterLeave DEF Report
  <2>2. task' \in Task /\ Started' \in Nat /\ Started <= Started'
    BY <1>t, <1>18, SameTask, FailedTask DEF Report, Holds
  <2>3. row' \in Row /\ row'.attempts = row.attempts
    BY <1>t, <1>18 DEF Report
  <2>4. /\ spawner' \in [Spawners -> {"idle", "spawn", "bind", "cancel"}]
        /\ canceller' \in {"idle", "signal"} /\ lost' \subseteq {"claim", "binding", "conflict"}
        /\ UNCHANGED <<checkpoint, effect>>
    BY <1>t, <1>18 DEF Report, TypeOK, clients, engine
  <2> QED
    BY <2>1, <2>2, <2>3, <2>4, CountedStay
<1>19. ASSUME NEW w \in Workers, Complete(w) PROVE Counted'
  <2>1. Claimed' \subseteq Claimed /\ worker' \in [Workers -> Lane]
    BY <1>t, <1>19, LaneLeaves, ClaimedAfterLeave DEF Complete
  <2>2. task' \in Task /\ Started' \in Nat /\ Started <= Started'
    BY <1>t, <1>19, SameTask, CompletedTask DEF Complete, Holds
  <2>3. row' \in Row /\ row'.attempts = row.attempts
    BY <1>t, <1>19 DEF Complete
  <2>4. /\ spawner' \in [Spawners -> {"idle", "spawn", "bind", "cancel"}]
        /\ canceller' \in {"idle", "signal"} /\ lost' \subseteq {"claim", "binding", "conflict"}
        /\ UNCHANGED <<checkpoint, effect>>
    BY <1>t, <1>19 DEF Complete, TypeOK, clients, engine
  <2> QED
    BY <2>1, <2>2, <2>3, <2>4, CountedStay
<1>20. ASSUME NEW w \in Workers, Crash(w) PROVE Counted'
  <2>1. Claimed' \subseteq Claimed /\ worker' \in [Workers -> Lane]
    BY <1>t, <1>20, LaneLeaves, ClaimedAfterLeave DEF Crash
  <2>2. task' \in Task /\ Started' \in Nat /\ Started <= Started'
    BY <1>t, <1>20, SameTask DEF Crash, engine
  <2>3. row' \in Row /\ row'.attempts = row.attempts
    BY <1>t, <1>20 DEF Crash
  <2>4. /\ spawner' \in [Spawners -> {"idle", "spawn", "bind", "cancel"}]
        /\ canceller' \in {"idle", "signal"} /\ lost' \subseteq {"claim", "binding", "conflict"}
        /\ UNCHANGED <<checkpoint, effect>>
    BY <1>t, <1>20 DEF Crash, TypeOK, clients, engine
  <2> QED
    BY <2>1, <2>2, <2>3, <2>4, CountedStay
<1>21. ASSUME NEW s \in Spawners, SpawnLoad(s) PROVE Counted'
  <2>1. Claimed' \subseteq Claimed /\ worker' \in [Workers -> Lane]
    BY <1>t, <1>21, SameLanes DEF SpawnLoad, TypeOK
  <2>2. task' \in Task /\ Started' \in Nat /\ Started <= Started'
    BY <1>t, <1>21, SameTask DEF SpawnLoad, engine
  <2>3. row' \in Row /\ row'.attempts = row.attempts
    BY <1>t, <1>21 DEF SpawnLoad
  <2>4. /\ spawner' \in [Spawners -> {"idle", "spawn", "bind", "cancel"}]
        /\ canceller' \in {"idle", "signal"} /\ lost' \subseteq {"claim", "binding", "conflict"}
        /\ UNCHANGED <<checkpoint, effect>>
    BY <1>t, <1>21 DEF SpawnLoad, TypeOK, clients, engine
  <2> QED
    BY <2>1, <2>2, <2>3, <2>4, CountedStay
<1>22. ASSUME NEW s \in Spawners, SpawnTask(s) PROVE Counted'
  <2>1. Claimed' \subseteq Claimed /\ worker' \in [Workers -> Lane]
    BY <1>t, <1>22, SameLanes DEF SpawnTask, TypeOK
  <2>2. task' \in Task /\ Started' \in Nat /\ Started <= Started'
    BY <1>t, <1>22, SameTask, SpawnedTask DEF SpawnTask
  <2>3. row' \in Row /\ row'.attempts = row.attempts
    BY <1>t, <1>22 DEF SpawnTask
  <2>4. /\ spawner' \in [Spawners -> {"idle", "spawn", "bind", "cancel"}]
        /\ canceller' \in {"idle", "signal"} /\ lost' \subseteq {"claim", "binding", "conflict"}
        /\ UNCHANGED <<checkpoint, effect>>
    BY <1>t, <1>22 DEF SpawnTask, TypeOK, clients, engine
  <2> QED
    BY <2>1, <2>2, <2>3, <2>4, CountedStay
<1>23. ASSUME NEW s \in Spawners, BindTask(s) PROVE Counted'
  <2>1. Claimed' \subseteq Claimed /\ worker' \in [Workers -> Lane]
    BY <1>t, <1>23, SameLanes DEF BindTask, TypeOK
  <2>2. task' \in Task /\ Started' \in Nat /\ Started <= Started'
    BY <1>t, <1>23, SameTask DEF BindTask, engine
  <2>3. row' \in Row /\ row'.attempts = row.attempts
    BY <1>t, <1>23, BoundRowType DEF BindTask
  <2>4. /\ spawner' \in [Spawners -> {"idle", "spawn", "bind", "cancel"}]
        /\ canceller' \in {"idle", "signal"} /\ lost' \subseteq {"claim", "binding", "conflict"}
        /\ UNCHANGED <<checkpoint, effect>>
    BY <1>t, <1>23 DEF BindTask, TypeOK, clients, engine
  <2> QED
    BY <2>1, <2>2, <2>3, <2>4, CountedStay
<1>24. ASSUME NEW s \in Spawners, SpawnCancel(s) PROVE Counted'
  <2>1. Claimed' \subseteq Claimed /\ worker' \in [Workers -> Lane]
    BY <1>t, <1>24, SameLanes DEF SpawnCancel, TypeOK
  <2>2. task' \in Task /\ Started' \in Nat /\ Started <= Started'
    BY <1>t, <1>24, CancelledTaskRow DEF SpawnCancel
  <2>3. row' \in Row /\ row'.attempts = row.attempts
    BY <1>t, <1>24 DEF SpawnCancel
  <2>4. /\ spawner' \in [Spawners -> {"idle", "spawn", "bind", "cancel"}]
        /\ canceller' \in {"idle", "signal"} /\ lost' \subseteq {"claim", "binding", "conflict"}
        /\ UNCHANGED <<checkpoint, effect>>
    BY <1>t, <1>24 DEF SpawnCancel, TypeOK, clients, engine
  <2> QED
    BY <2>1, <2>2, <2>3, <2>4, CountedStay
<1>25. ASSUME NEW s \in Spawners, SpawnCrash(s) PROVE Counted'
  <2>1. Claimed' \subseteq Claimed /\ worker' \in [Workers -> Lane]
    BY <1>t, <1>25, SameLanes DEF SpawnCrash, TypeOK
  <2>2. task' \in Task /\ Started' \in Nat /\ Started <= Started'
    BY <1>t, <1>25, SameTask DEF SpawnCrash, engine
  <2>3. row' \in Row /\ row'.attempts = row.attempts
    BY <1>t, <1>25 DEF SpawnCrash
  <2>4. /\ spawner' \in [Spawners -> {"idle", "spawn", "bind", "cancel"}]
        /\ canceller' \in {"idle", "signal"} /\ lost' \subseteq {"claim", "binding", "conflict"}
        /\ UNCHANGED <<checkpoint, effect>>
    BY <1>t, <1>25 DEF SpawnCrash, TypeOK, clients, engine
  <2> QED
    BY <2>1, <2>2, <2>3, <2>4, CountedStay
<1>26. CASE Cancel
  <2>1. Claimed' \subseteq Claimed /\ worker' \in [Workers -> Lane]
    BY <1>t, <1>26, SameLanes DEF Cancel, TypeOK
  <2>2. task' \in Task /\ Started' \in Nat /\ Started <= Started'
    BY <1>t, <1>26, SameTask DEF Cancel, engine
  <2>3. row' \in Row /\ row'.attempts = row.attempts
    BY <1>t, <1>26, CancelRowType DEF Cancel
  <2>4. /\ spawner' \in [Spawners -> {"idle", "spawn", "bind", "cancel"}]
        /\ canceller' \in {"idle", "signal"} /\ lost' \subseteq {"claim", "binding", "conflict"}
        /\ UNCHANGED <<checkpoint, effect>>
    BY <1>t, <1>26 DEF Cancel, TypeOK, clients, engine
  <2> QED
    BY <2>1, <2>2, <2>3, <2>4, CountedStay
<1>27. CASE CancelSignal
  <2>1. Claimed' \subseteq Claimed /\ worker' \in [Workers -> Lane]
    BY <1>t, <1>27, SameLanes DEF CancelSignal, TypeOK
  <2>2. task' \in Task /\ Started' \in Nat /\ Started <= Started'
    BY <1>t, <1>27, CancelledTaskRow DEF CancelSignal
  <2>3. row' \in Row /\ row'.attempts = row.attempts
    BY <1>t, <1>27 DEF CancelSignal
  <2>4. /\ spawner' \in [Spawners -> {"idle", "spawn", "bind", "cancel"}]
        /\ canceller' \in {"idle", "signal"} /\ lost' \subseteq {"claim", "binding", "conflict"}
        /\ UNCHANGED <<checkpoint, effect>>
    BY <1>t, <1>27 DEF CancelSignal, TypeOK, clients, engine
  <2> QED
    BY <2>1, <2>2, <2>3, <2>4, CountedStay
<1>28. CASE CancelCrash
  <2>1. Claimed' \subseteq Claimed /\ worker' \in [Workers -> Lane]
    BY <1>t, <1>28, SameLanes DEF CancelCrash, TypeOK
  <2>2. task' \in Task /\ Started' \in Nat /\ Started <= Started'
    BY <1>t, <1>28, SameTask DEF CancelCrash, engine
  <2>3. row' \in Row /\ row'.attempts = row.attempts
    BY <1>t, <1>28 DEF CancelCrash
  <2>4. /\ spawner' \in [Spawners -> {"idle", "spawn", "bind", "cancel"}]
        /\ canceller' \in {"idle", "signal"} /\ lost' \subseteq {"claim", "binding", "conflict"}
        /\ UNCHANGED <<checkpoint, effect>>
    BY <1>t, <1>28 DEF CancelCrash, TypeOK, clients, engine
  <2> QED
    BY <2>1, <2>2, <2>3, <2>4, CountedStay
<1>29. CASE ClaimExpires
  <2>1. Claimed' \subseteq Claimed /\ worker' \in [Workers -> Lane]
    BY <1>t, <1>29, SameLanes DEF ClaimExpires, TypeOK
  <2>2. task' \in Task /\ Started' \in Nat /\ Started <= Started'
    BY <1>t, <1>29, FailedTask DEF ClaimExpires
  <2>3. row' \in Row /\ row'.attempts = row.attempts
    BY <1>t, <1>29 DEF ClaimExpires
  <2>4. /\ spawner' \in [Spawners -> {"idle", "spawn", "bind", "cancel"}]
        /\ canceller' \in {"idle", "signal"} /\ lost' \subseteq {"claim", "binding", "conflict"}
        /\ UNCHANGED <<checkpoint, effect>>
    BY <1>t, <1>29 DEF ClaimExpires, TypeOK, clients, engine
  <2> QED
    BY <2>1, <2>2, <2>3, <2>4, CountedStay
<1> QED
  BY <1>1, <1>2, <1>3, <1>4, <1>5, <1>6, <1>7, <1>8, <1>9, <1>10, <1>11,
      <1>12, <1>13, <1>14, <1>15, <1>16, <1>17, <1>18, <1>19, <1>20, <1>21,
      <1>22, <1>23, <1>24, <1>25, <1>26, <1>27, <1>28, <1>29 DEF Next, Attempt
-----------------------------------------------------------------------------
(* Order: binding before work, work before its result. *)

Ordered == UnboundIsUntouched /\ StepFirst

(* What a transaction may do to the row once it has been bound, or not.    *)
LEMMA UnboundKept ==
  ASSUME TypeOK, UnboundIsUntouched, row'.bound = row.bound,
         \/ row'.state = row.state /\ row'.attempts = row.attempts
         \/ row.bound
         \/ row'.state = "cancelled" /\ row'.attempts = row.attempts
  PROVE  UnboundIsUntouched'
BY DEF UnboundIsUntouched, TypeOK, Row

(* The effect, once there, remains, and attempts are never uncounted.      *)
Grows ==
  /\ effect => effect'
  /\ checkpoint' => effect'
  /\ row'.attempts \in Nat /\ row'.attempts >= row.attempts

LEMMA StepFirstMove ==
  ASSUME Counted, StepFirst, Grows, NEW w \in Workers, NEW pc \in PCs, Goto(w, pc),
         pc \notin {"step", "checkpoint", "project"}
  PROVE  StepFirst'
<1>1. /\ worker'[w].pc = pc
      /\ \A v \in Workers \ {w} : worker'[v] = worker[v]
  BY LaneMoves DEF Counted
<1>2. row.attempts \in Nat
  BY BoundWorkAssumption DEF Counted, TypeOK, Row
<1> QED
  BY <1>1, <1>2 DEF StepFirst, At, Grows

LEMMA StepFirstIdle ==
  ASSUME StepFirst, UNCHANGED <<checkpoint, effect>>, row'.attempts = row.attempts,
         \A v \in Workers : worker'[v] = worker[v] \/ worker'[v].pc \in {"idle", "claimed"}
  PROVE  StepFirst'
BY DEF StepFirst, At

LEMMA OrderedStep == Counted /\ Ordered /\ [Next]_vars => Ordered'
<1> SUFFICES ASSUME Counted, Ordered, [Next]_vars PROVE Ordered'
  OBVIOUS
<1>t. TypeOK /\ UnboundIsUntouched /\ StepFirst /\ row \in Row /\ row.attempts \in Nat
  BY BoundWorkAssumption DEF Counted, Ordered, TypeOK, Row
<1>1. CASE UNCHANGED vars
  BY <1>1, <1>t DEF vars, Ordered, UnboundIsUntouched, StepFirst, At
<1>2. ASSUME NEW w \in Workers, BeginSettled(w) PROVE Ordered'
  <2>1. UnboundIsUntouched'
    BY <1>t, <1>2, UnboundKept DEF BeginSettled
  <2>2. Grows
    BY <1>t, <1>2 DEF BeginSettled, engine, StepFirst, At, Grows
  <2>3. Goto(w, "receipt")
    BY <1>2 DEF BeginSettled
  <2>4. StepFirst'
    BY <1>t, <2>2, <2>3, LaneNames, StepFirstMove DEF Executing
  <2> QED
    BY <2>1, <2>4 DEF Ordered
<1>3. ASSUME NEW w \in Workers, BeginUnbound(w) PROVE Ordered'
  <2>1. UnboundIsUntouched'
    BY <1>t, <1>3, UnboundKept DEF BeginUnbound
  <2>2. Grows
    BY <1>t, <1>3 DEF BeginUnbound, engine, StepFirst, At, Grows
  <2>3. Goto(w, "reporting")
    BY <1>3 DEF BeginUnbound
  <2>4. StepFirst'
    BY <1>t, <2>2, <2>3, LaneNames, StepFirstMove DEF Executing
  <2> QED
    BY <2>1, <2>4 DEF Ordered
<1>4. ASSUME NEW w \in Workers, BeginAttempt(w) PROVE Ordered'
  <2>1. UnboundIsUntouched'
    BY <1>t, <1>4, UnboundKept DEF BeginAttempt, UnboundIsUntouched, Row
  <2>2. Grows
    BY <1>t, <1>4 DEF BeginAttempt, engine, Row, StepFirst, At, Grows
  <2>3. /\ row'.attempts > 0 /\ worker'[w].pc = "step"
        /\ \A v \in Workers \ {w} : worker'[v] = worker[v]
    BY <1>t, <1>4, LaneMoves, LaneNames DEF BeginAttempt, Row, Executing
  <2>4. StepFirst'
    BY <1>t, <2>2, <2>3 DEF StepFirst, At, Grows
  <2> QED
    BY <2>1, <2>4 DEF Ordered
<1>5. ASSUME NEW w \in Workers, LoadFails(w) PROVE Ordered'
  <2>1. UnboundIsUntouched'
    BY <1>t, <1>5, UnboundKept DEF LoadFails
  <2>2. Grows
    BY <1>t, <1>5 DEF LoadFails, engine, StepFirst, At, Grows
  <2>3. Goto(w, "failing") \/ Goto(w, "rejecting")
    BY <1>5 DEF LoadFails
  <2>4. StepFirst'
    BY <1>t, <2>2, <2>3, LaneNames, StepFirstMove DEF Executing
  <2> QED
    BY <2>1, <2>4 DEF Ordered
<1>6. ASSUME NEW w \in Workers, StepReplays(w) PROVE Ordered'
  <2>1. UnboundIsUntouched'
    BY <1>t, <1>6, UnboundKept DEF StepReplays
  <2>2. Grows
    BY <1>t, <1>6 DEF StepReplays, engine, StepFirst, At, Grows
  <2>3. /\ effect' /\ worker'[w].pc = "project"
        /\ \A v \in Workers \ {w} : worker'[v] = worker[v]
    BY <1>t, <1>6, LaneMoves, LaneNames DEF StepReplays, StepFirst, Executing, At
  <2>4. StepFirst'
    BY <1>t, <2>2, <2>3 DEF StepFirst, At, Grows
  <2> QED
    BY <2>1, <2>4 DEF Ordered
<1>7. ASSUME NEW w \in Workers, StepPerforms(w) PROVE Ordered'
  <2>1. UnboundIsUntouched'
    BY <1>t, <1>7, UnboundKept DEF StepPerforms
  <2>2. Grows
    BY <1>t, <1>7 DEF StepPerforms, engine, StepFirst, At, Grows
  <2>3. /\ effect' /\ worker'[w].pc = "checkpoint"
        /\ \A v \in Workers \ {w} : worker'[v] = worker[v]
    BY <1>t, <1>7, LaneMoves, LaneNames DEF StepPerforms, StepFirst, Executing, At
  <2>4. StepFirst'
    BY <1>t, <2>2, <2>3 DEF StepFirst, At, Grows
  <2> QED
    BY <2>1, <2>4 DEF Ordered
<1>8. ASSUME NEW w \in Workers, StepRecords(w) PROVE Ordered'
  <2>1. UnboundIsUntouched'
    BY <1>t, <1>8, UnboundKept DEF StepRecords
  <2>2. Grows
    BY <1>t, <1>8 DEF StepRecords, engine, StepFirst, At, Grows
  <2>3. /\ effect' /\ worker'[w].pc = "project"
        /\ \A v \in Workers \ {w} : worker'[v] = worker[v]
    BY <1>t, <1>8, LaneMoves, LaneNames DEF StepRecords, StepFirst, Executing, At
  <2>4. StepFirst'
    BY <1>t, <2>2, <2>3 DEF StepFirst, At, Grows
  <2> QED
    BY <2>1, <2>4 DEF Ordered
<1>9. ASSUME NEW w \in Workers, StepFails(w) PROVE Ordered'
  <2>1. UnboundIsUntouched'
    BY <1>t, <1>9, UnboundKept DEF StepFails
  <2>2. Grows
    BY <1>t, <1>9 DEF StepFails, engine, StepFirst, At, Grows
  <2>3. Goto(w, "failing") \/ Goto(w, "rejecting")
    BY <1>9 DEF StepFails
  <2>4. StepFirst'
    BY <1>t, <2>2, <2>3, LaneNames, StepFirstMove DEF Executing
  <2> QED
    BY <2>1, <2>4 DEF Ordered
<1>10. ASSUME NEW w \in Workers, EngineRejects(w) PROVE Ordered'
  <2>1. UnboundIsUntouched'
    BY <1>t, <1>10, UnboundKept DEF EngineRejects
  <2>2. Grows
    BY <1>t, <1>10 DEF EngineRejects, engine, StepFirst, At, Grows
  <2>3. Goto(w, "failing") \/ Goto(w, "reporting") \/ Goto(w, "cancelling")
    BY <1>10 DEF EngineRejects
  <2>4. StepFirst'
    BY <1>t, <2>2, <2>3, LaneNames, StepFirstMove DEF Executing
  <2> QED
    BY <2>1, <2>4 DEF Ordered
<1>11. ASSUME NEW w \in Workers, Succeed(w) PROVE Ordered'
  <2>1. UnboundIsUntouched'
    BY <1>t, <1>11, UnboundKept DEF Succeed, UnboundIsUntouched, Row
  <2>2. Grows
    BY <1>t, <1>11 DEF Succeed, engine, Row, StepFirst, At, Grows
  <2>3. Goto(w, "receipt")
    BY <1>11 DEF Succeed
  <2>4. StepFirst'
    BY <1>t, <2>2, <2>3, LaneNames, StepFirstMove DEF Executing
  <2> QED
    BY <2>1, <2>4 DEF Ordered
<1>12. ASSUME NEW w \in Workers, FailSettled(w) PROVE Ordered'
  <2>1. UnboundIsUntouched'
    BY <1>t, <1>12, UnboundKept DEF FailSettled
  <2>2. Grows
    BY <1>t, <1>12 DEF FailSettled, engine, StepFirst, At, Grows
  <2>3. Goto(w, "receipt")
    BY <1>12 DEF FailSettled
  <2>4. StepFirst'
    BY <1>t, <2>2, <2>3, LaneNames, StepFirstMove DEF Executing
  <2> QED
    BY <2>1, <2>4 DEF Ordered
<1>13. ASSUME NEW w \in Workers, FailFinally(w) PROVE Ordered'
  <2>1. UnboundIsUntouched'
    BY <1>t, <1>13, UnboundKept DEF FailFinally, UnboundIsUntouched, Row
  <2>2. Grows
    BY <1>t, <1>13 DEF FailFinally, engine, Row, StepFirst, At, Grows
  <2>3. Goto(w, "receipt")
    BY <1>13 DEF FailFinally
  <2>4. StepFirst'
    BY <1>t, <2>2, <2>3, LaneNames, StepFirstMove DEF Executing
  <2> QED
    BY <2>1, <2>4 DEF Ordered
<1>14. ASSUME NEW w \in Workers, FailForRetry(w) PROVE Ordered'
  <2>1. UnboundIsUntouched'
    BY <1>t, <1>14, UnboundKept DEF FailForRetry, UnboundIsUntouched, Row
  <2>2. Grows
    BY <1>t, <1>14 DEF FailForRetry, engine, Row, StepFirst, At, Grows
  <2>3. Goto(w, "reporting")
    BY <1>14 DEF FailForRetry
  <2>4. StepFirst'
    BY <1>t, <2>2, <2>3, LaneNames, StepFirstMove DEF Executing
  <2> QED
    BY <2>1, <2>4 DEF Ordered
<1>15. ASSUME NEW w \in Workers, FailConflicts(w) PROVE Ordered'
  <2>1. UnboundIsUntouched'
    BY <1>t, <1>15, UnboundKept DEF FailConflicts
  <2>2. Grows
    BY <1>t, <1>15 DEF FailConflicts, engine, StepFirst, At, Grows
  <2>3. Goto(w, "reporting")
    BY <1>15 DEF FailConflicts
  <2>4. StepFirst'
    BY <1>t, <2>2, <2>3, LaneNames, StepFirstMove DEF Executing
  <2> QED
    BY <2>1, <2>4 DEF Ordered
<1>16. ASSUME NEW w \in Workers, CancelledTask(w) PROVE Ordered'
  <2>1. UnboundIsUntouched'
    BY <1>t, <1>16, UnboundKept DEF CancelledTask, CancelRow, Row, Terminal
  <2>2. Grows
    BY <1>t, <1>16 DEF CancelledTask, engine, CancelRow, Row, StepFirst, At, Grows
  <2>3. Goto(w, "reporting")
    BY <1>16 DEF CancelledTask
  <2>4. StepFirst'
    BY <1>t, <2>2, <2>3, LaneNames, StepFirstMove DEF Executing
  <2> QED
    BY <2>1, <2>4 DEF Ordered
<1>17. ASSUME NEW w \in Workers, ClaimTask(w) PROVE Ordered'
  <2>1. UnboundIsUntouched'
    BY <1>t, <1>17, UnboundKept DEF ClaimTask
  <2>2. \A v \in Workers : worker'[v] = worker[v] \/ worker'[v].pc \in {"idle", "claimed"}
    BY <1>t, <1>17, LaneClaims DEF ClaimTask
  <2>3. UNCHANGED <<checkpoint, effect>> /\ row'.attempts = row.attempts
    BY <1>t, <1>17 DEF ClaimTask, engine
  <2> QED
    BY <1>t, <2>1, <2>2, <2>3, StepFirstIdle DEF Ordered
<1>18. ASSUME NEW w \in Workers, Report(w) PROVE Ordered'
  <2>1. UnboundIsUntouched'
    BY <1>t, <1>18, UnboundKept DEF Report
  <2>2. \A v \in Workers : worker'[v] = worker[v] \/ worker'[v].pc \in {"idle", "claimed"}
    BY <1>t, <1>18, LaneLeaves DEF Report, Idle
  <2>3. UNCHANGED <<checkpoint, effect>> /\ row'.attempts = row.attempts
    BY <1>t, <1>18 DEF Report, engine
  <2> QED
    BY <1>t, <2>1, <2>2, <2>3, StepFirstIdle DEF Ordered
<1>19. ASSUME NEW w \in Workers, Complete(w) PROVE Ordered'
  <2>1. UnboundIsUntouched'
    BY <1>t, <1>19, UnboundKept DEF Complete
  <2>2. \A v \in Workers : worker'[v] = worker[v] \/ worker'[v].pc \in {"idle", "claimed"}
    BY <1>t, <1>19, LaneLeaves DEF Complete, Idle
  <2>3. UNCHANGED <<checkpoint, effect>> /\ row'.attempts = row.attempts
    BY <1>t, <1>19 DEF Complete, engine
  <2> QED
    BY <1>t, <2>1, <2>2, <2>3, StepFirstIdle DEF Ordered
<1>20. ASSUME NEW w \in Workers, Crash(w) PROVE Ordered'
  <2>1. UnboundIsUntouched'
    BY <1>t, <1>20, UnboundKept DEF Crash
  <2>2. \A v \in Workers : worker'[v] = worker[v] \/ worker'[v].pc \in {"idle", "claimed"}
    BY <1>t, <1>20, LaneLeaves DEF Crash, Idle
  <2>3. UNCHANGED <<checkpoint, effect>> /\ row'.attempts = row.attempts
    BY <1>t, <1>20 DEF Crash, engine
  <2> QED
    BY <1>t, <2>1, <2>2, <2>3, StepFirstIdle DEF Ordered
<1>21. ASSUME NEW s \in Spawners, SpawnLoad(s) PROVE Ordered'
  <2>1. UnboundIsUntouched'
    BY <1>t, <1>21, UnboundKept DEF SpawnLoad
  <2>2. \A v \in Workers : worker'[v] = worker[v] \/ worker'[v].pc \in {"idle", "claimed"}
    BY <1>t, <1>21 DEF SpawnLoad
  <2>3. UNCHANGED <<checkpoint, effect>> /\ row'.attempts = row.attempts
    BY <1>t, <1>21 DEF SpawnLoad, engine
  <2> QED
    BY <1>t, <2>1, <2>2, <2>3, StepFirstIdle DEF Ordered
<1>22. ASSUME NEW s \in Spawners, SpawnTask(s) PROVE Ordered'
  <2>1. UnboundIsUntouched'
    BY <1>t, <1>22, UnboundKept DEF SpawnTask
  <2>2. \A v \in Workers : worker'[v] = worker[v] \/ worker'[v].pc \in {"idle", "claimed"}
    BY <1>t, <1>22 DEF SpawnTask
  <2>3. UNCHANGED <<checkpoint, effect>> /\ row'.attempts = row.attempts
    BY <1>t, <1>22 DEF SpawnTask, engine
  <2> QED
    BY <1>t, <2>1, <2>2, <2>3, StepFirstIdle DEF Ordered
<1>23. ASSUME NEW s \in Spawners, BindTask(s) PROVE Ordered'
  <2>1. UnboundIsUntouched'
    BY <1>t, <1>23, UnboundKept DEF BindTask, UnboundIsUntouched, Row
  <2>2. \A v \in Workers : worker'[v] = worker[v] \/ worker'[v].pc \in {"idle", "claimed"}
    BY <1>t, <1>23 DEF BindTask
  <2>3. UNCHANGED <<checkpoint, effect>> /\ row'.attempts = row.attempts
    BY <1>t, <1>23 DEF BindTask, engine, Row
  <2> QED
    BY <1>t, <2>1, <2>2, <2>3, StepFirstIdle DEF Ordered
<1>24. ASSUME NEW s \in Spawners, SpawnCancel(s) PROVE Ordered'
  <2>1. UnboundIsUntouched'
    BY <1>t, <1>24, UnboundKept DEF SpawnCancel
  <2>2. \A v \in Workers : worker'[v] = worker[v] \/ worker'[v].pc \in {"idle", "claimed"}
    BY <1>t, <1>24 DEF SpawnCancel
  <2>3. UNCHANGED <<checkpoint, effect>> /\ row'.attempts = row.attempts
    BY <1>t, <1>24 DEF SpawnCancel, engine
  <2> QED
    BY <1>t, <2>1, <2>2, <2>3, StepFirstIdle DEF Ordered
<1>25. ASSUME NEW s \in Spawners, SpawnCrash(s) PROVE Ordered'
  <2>1. UnboundIsUntouched'
    BY <1>t, <1>25, UnboundKept DEF SpawnCrash
  <2>2. \A v \in Workers : worker'[v] = worker[v] \/ worker'[v].pc \in {"idle", "claimed"}
    BY <1>t, <1>25 DEF SpawnCrash
  <2>3. UNCHANGED <<checkpoint, effect>> /\ row'.attempts = row.attempts
    BY <1>t, <1>25 DEF SpawnCrash, engine
  <2> QED
    BY <1>t, <2>1, <2>2, <2>3, StepFirstIdle DEF Ordered
<1>26. CASE Cancel
  <2>1. UnboundIsUntouched'
    BY <1>t, <1>26, UnboundKept DEF Cancel, CancelRow, Row, Terminal
  <2>2. \A v \in Workers : worker'[v] = worker[v] \/ worker'[v].pc \in {"idle", "claimed"}
    BY <1>t, <1>26 DEF Cancel
  <2>3. UNCHANGED <<checkpoint, effect>> /\ row'.attempts = row.attempts
    BY <1>t, <1>26 DEF Cancel, engine, CancelRow, Row, Terminal
  <2> QED
    BY <1>t, <2>1, <2>2, <2>3, StepFirstIdle DEF Ordered
<1>27. CASE CancelSignal
  <2>1. UnboundIsUntouched'
    BY <1>t, <1>27, UnboundKept DEF CancelSignal
  <2>2. \A v \in Workers : worker'[v] = worker[v] \/ worker'[v].pc \in {"idle", "claimed"}
    BY <1>t, <1>27 DEF CancelSignal
  <2>3. UNCHANGED <<checkpoint, effect>> /\ row'.attempts = row.attempts
    BY <1>t, <1>27 DEF CancelSignal, engine
  <2> QED
    BY <1>t, <2>1, <2>2, <2>3, StepFirstIdle DEF Ordered
<1>28. CASE CancelCrash
  <2>1. UnboundIsUntouched'
    BY <1>t, <1>28, UnboundKept DEF CancelCrash
  <2>2. \A v \in Workers : worker'[v] = worker[v] \/ worker'[v].pc \in {"idle", "claimed"}
    BY <1>t, <1>28 DEF CancelCrash
  <2>3. UNCHANGED <<checkpoint, effect>> /\ row'.attempts = row.attempts
    BY <1>t, <1>28 DEF CancelCrash, engine
  <2> QED
    BY <1>t, <2>1, <2>2, <2>3, StepFirstIdle DEF Ordered
<1>29. CASE ClaimExpires
  <2>1. UnboundIsUntouched'
    BY <1>t, <1>29, UnboundKept DEF ClaimExpires
  <2>2. \A v \in Workers : worker'[v] = worker[v] \/ worker'[v].pc \in {"idle", "claimed"}
    BY <1>t, <1>29 DEF ClaimExpires
  <2>3. UNCHANGED <<checkpoint, effect>> /\ row'.attempts = row.attempts
    BY <1>t, <1>29 DEF ClaimExpires, engine
  <2> QED
    BY <1>t, <2>1, <2>2, <2>3, StepFirstIdle DEF Ordered
<1> QED
  BY <1>1, <1>2, <1>3, <1>4, <1>5, <1>6, <1>7, <1>8, <1>9, <1>10, <1>11,
      <1>12, <1>13, <1>14, <1>15, <1>16, <1>17, <1>18, <1>19, <1>20, <1>21,
      <1>22, <1>23, <1>24, <1>25, <1>26, <1>27, <1>28, <1>29 DEF Next, Attempt
-----------------------------------------------------------------------------
(* Agreement: while nothing is lost, row, task and lane move together. *)

LEMMA AgreementMove ==
  ASSUME TypeOK, Agreement, NEW w \in Workers, NEW pc \in PCs, Goto(w, pc),
         ~At(w, "idle"), task' = task, Settled => Settled',
         task.state = "running" => LaneAgrees(w)'
  PROVE  Agreement'
<1>1. /\ worker'[w].pc = pc
      /\ \A v \in Workers \ {w} : worker'[v] = worker[v]
  BY LaneMoves
<1>2. task.state \in {"running", "cancelled"}
  BY DEF Agreement
<1>3. ASSUME NEW v \in Workers, v # w, task.state = "running"
      PROVE  worker'[v].pc = "idle"
  BY <1>1, <1>3 DEF Agreement, At
<1>4. ASSUME NEW v \in Workers, task'.state = "running", ~At(v, "idle")'
      PROVE  v = w
  BY <1>3, <1>4 DEF At
<1> QED
  BY <1>2, <1>4 DEF Agreement, At

(* Steps of the callers: the lanes stay, the task may be cancelled.        *)
LEMMA AgreementStay ==
  ASSUME TypeOK, Agreement, worker' = worker,
         task'.state = "cancelled" \/ task' = task, Settled => Settled',
         \/ Settled'
         \/ row'.state = row.state /\ row'.attempts = row.attempts
  PROVE  Agreement'
<1>1. CASE task'.state = "cancelled"
  BY <1>1 DEF Agreement, At
<1>2. CASE task' = task /\ Settled'
  BY <1>2 DEF Agreement, At, LaneAgrees, Failing
<1>3. CASE task' = task /\ row'.state = row.state /\ row'.attempts = row.attempts
  BY <1>3 DEF Agreement, At, LaneAgrees, Failing, Settled, InAttempt, BetweenAttempts,
     RetryDue
<1> QED
  BY <1>1, <1>2, <1>3

LEMMA AgreementStep == TypeOK /\ NothingLost /\ [Next]_vars => NothingLost'
<1> SUFFICES ASSUME TypeOK, NothingLost, [Next]_vars, lost' = {} PROVE Agreement'
  BY DEF NothingLost
<1>t. row \in Row /\ task \in Task /\ row.attempts \in Nat /\ task.attempt \in Nat
  BY BoundWorkAssumption DEF TypeOK, Row, Task
<1>1. CASE UNCHANGED vars
  BY <1>1, AgreementStay DEF vars, NothingLost, Settled
<1>2. ASSUME NEW w \in Workers, BeginSettled(w) PROVE Agreement'
  <2>1. Agreement /\ ~At(w, "idle") /\ task' = task
    BY <1>2 DEF BeginSettled, NothingLost, engine, At
  <2>2. Goto(w, "receipt")
    BY <1>2 DEF BeginSettled
  <2>3. row' = row
    BY <1>2 DEF BeginSettled
  <2>4. worker'[w].token = worker[w].token /\ worker'[w].pc \in {"receipt"}
    BY <2>2, LaneMoves, LaneNames DEF Executing
  <2>5. ASSUME task.state = "running" PROVE LaneAgrees(w)'
    <3>1. LaneAgrees(w)
      BY <2>1, <2>5 DEF Agreement
    <3> QED
      BY <1>t, <1>2, <2>1, <2>3, <2>4, <2>5, <3>1 DEF LaneAgrees, At, Failing,
         Settled, InAttempt, BetweenAttempts, RetryDue, BeginSettled
  <2> QED
    BY <2>1, <2>2, <2>3, <2>5, LaneNames, AgreementMove DEF Executing, Settled
<1>3. ASSUME NEW w \in Workers, BeginAttempt(w) PROVE Agreement'
  <2>1. Agreement /\ ~At(w, "idle") /\ task' = task
    BY <1>3 DEF BeginAttempt, NothingLost, engine, At
  <2>2. Goto(w, "step")
    BY <1>3 DEF BeginAttempt
  <2>3. Settled => Settled'
    BY <1>t, <1>3 DEF BeginAttempt, Settled, Terminal, Row
  <2>4. worker'[w].token = worker[w].token /\ worker'[w].pc \in {"step"}
    BY <2>2, LaneMoves, LaneNames DEF Executing
  <2>5. ASSUME task.state = "running" PROVE LaneAgrees(w)'
    <3>1. LaneAgrees(w)
      BY <2>1, <2>5 DEF Agreement
    <3> QED
      BY <1>t, <1>3, <2>1, <2>3, <2>4, <2>5, <3>1 DEF LaneAgrees, At, Failing,
         Settled, InAttempt, BetweenAttempts, RetryDue, BeginAttempt, Row, Terminal
  <2> QED
    BY <2>1, <2>2, <2>3, <2>5, LaneNames, AgreementMove DEF Executing
<1>4. ASSUME NEW w \in Workers, LoadFails(w) PROVE Agreement'
  <2>1. Agreement /\ ~At(w, "idle") /\ task' = task
    BY <1>4 DEF LoadFails, NothingLost, engine, At
  <2>2. Goto(w, "failing") \/ Goto(w, "rejecting")
    BY <1>4 DEF LoadFails
  <2>3. row' = row
    BY <1>4 DEF LoadFails
  <2>4. worker'[w].token = worker[w].token /\ worker'[w].pc \in {"failing", "rejecting"}
    BY <2>2, LaneMoves, LaneNames DEF Executing
  <2>5. ASSUME task.state = "running" PROVE LaneAgrees(w)'
    <3>1. LaneAgrees(w)
      BY <2>1, <2>5 DEF Agreement
    <3> QED
      BY <1>t, <1>4, <2>1, <2>3, <2>4, <2>5, <3>1 DEF LaneAgrees, At, Failing,
         Settled, InAttempt, BetweenAttempts, RetryDue, LoadFails
  <2> QED
    BY <2>1, <2>2, <2>3, <2>5, LaneNames, AgreementMove DEF Executing, Settled
<1>5. ASSUME NEW w \in Workers, StepReplays(w) PROVE Agreement'
  <2>1. Agreement /\ ~At(w, "idle") /\ task' = task
    BY <1>5 DEF StepReplays, NothingLost, engine, At
  <2>2. Goto(w, "project")
    BY <1>5 DEF StepReplays
  <2>3. row' = row
    BY <1>5 DEF StepReplays
  <2>4. worker'[w].token = worker[w].token /\ worker'[w].pc \in {"project"}
    BY <2>2, LaneMoves, LaneNames DEF Executing
  <2>5. ASSUME task.state = "running" PROVE LaneAgrees(w)'
    <3>1. LaneAgrees(w)
      BY <2>1, <2>5 DEF Agreement
    <3> QED
      BY <1>t, <1>5, <2>1, <2>3, <2>4, <2>5, <3>1 DEF LaneAgrees, At, Failing,
         Settled, InAttempt, BetweenAttempts, RetryDue, StepReplays
  <2> QED
    BY <2>1, <2>2, <2>3, <2>5, LaneNames, AgreementMove DEF Executing, Settled
<1>6. ASSUME NEW w \in Workers, StepPerforms(w) PROVE Agreement'
  <2>1. Agreement /\ ~At(w, "idle") /\ task' = task
    BY <1>6 DEF StepPerforms, NothingLost, engine, At
  <2>2. Goto(w, "checkpoint")
    BY <1>6 DEF StepPerforms
  <2>3. row' = row
    BY <1>6 DEF StepPerforms
  <2>4. worker'[w].token = worker[w].token /\ worker'[w].pc \in {"checkpoint"}
    BY <2>2, LaneMoves, LaneNames DEF Executing
  <2>5. ASSUME task.state = "running" PROVE LaneAgrees(w)'
    <3>1. LaneAgrees(w)
      BY <2>1, <2>5 DEF Agreement
    <3> QED
      BY <1>t, <1>6, <2>1, <2>3, <2>4, <2>5, <3>1 DEF LaneAgrees, At, Failing,
         Settled, InAttempt, BetweenAttempts, RetryDue, StepPerforms
  <2> QED
    BY <2>1, <2>2, <2>3, <2>5, LaneNames, AgreementMove DEF Executing, Settled
<1>7. ASSUME NEW w \in Workers, StepRecords(w) PROVE Agreement'
  <2>1. Agreement /\ ~At(w, "idle") /\ task' = task
    BY <1>7 DEF StepRecords, NothingLost, engine, At
  <2>2. Goto(w, "project")
    BY <1>7 DEF StepRecords
  <2>3. row' = row
    BY <1>7 DEF StepRecords
  <2>4. worker'[w].token = worker[w].token /\ worker'[w].pc \in {"project"}
    BY <2>2, LaneMoves, LaneNames DEF Executing
  <2>5. ASSUME task.state = "running" PROVE LaneAgrees(w)'
    <3>1. LaneAgrees(w)
      BY <2>1, <2>5 DEF Agreement
    <3> QED
      BY <1>t, <1>7, <2>1, <2>3, <2>4, <2>5, <3>1 DEF LaneAgrees, At, Failing,
         Settled, InAttempt, BetweenAttempts, RetryDue, StepRecords
  <2> QED
    BY <2>1, <2>2, <2>3, <2>5, LaneNames, AgreementMove DEF Executing, Settled
<1>8. ASSUME NEW w \in Workers, StepFails(w) PROVE Agreement'
  <2>1. Agreement /\ ~At(w, "idle") /\ task' = task
    BY <1>8 DEF StepFails, NothingLost, engine, At
  <2>2. Goto(w, "failing") \/ Goto(w, "rejecting")
    BY <1>8 DEF StepFails
  <2>3. row' = row
    BY <1>8 DEF StepFails
  <2>4. worker'[w].token = worker[w].token /\ worker'[w].pc \in {"failing", "rejecting"}
    BY <2>2, LaneMoves, LaneNames DEF Executing
  <2>5. ASSUME task.state = "running" PROVE LaneAgrees(w)'
    <3>1. LaneAgrees(w)
      BY <2>1, <2>5 DEF Agreement
    <3> QED
      BY <1>t, <1>8, <2>1, <2>3, <2>4, <2>5, <3>1 DEF LaneAgrees, At, Failing,
         Settled, InAttempt, BetweenAttempts, RetryDue, StepFails
  <2> QED
    BY <2>1, <2>2, <2>3, <2>5, LaneNames, AgreementMove DEF Executing, Settled
<1>9. ASSUME NEW w \in Workers, EngineRejects(w) PROVE Agreement'
  <2>1. Agreement /\ ~At(w, "idle") /\ task' = task
    BY <1>9 DEF EngineRejects, NothingLost, engine, At, Executing
  <2>2. Goto(w, "failing") \/ Goto(w, "reporting") \/ Goto(w, "cancelling")
    BY <1>9 DEF EngineRejects
  <2>3. row' = row
    BY <1>9 DEF EngineRejects
  <2>4. /\ worker'[w].token = worker[w].token
        /\ worker'[w].pc \in {"failing", "reporting", "cancelling"}
    BY <2>2, LaneMoves, LaneNames DEF Executing
  <2>5. ASSUME task.state = "running" PROVE LaneAgrees(w)'
    <3>1. LaneAgrees(w)
      BY <2>1, <2>5 DEF Agreement
    <3> QED
      BY <1>t, <1>9, <2>1, <2>3, <2>4, <2>5, <3>1 DEF LaneAgrees, At, Failing,
         Settled, InAttempt, BetweenAttempts, RetryDue, EngineRejects, Holds,
         Executing
  <2> QED
    BY <2>1, <2>2, <2>3, <2>5, LaneNames, AgreementMove DEF Executing, Settled
<1>10. ASSUME NEW w \in Workers, Succeed(w) PROVE Agreement'
  <2>1. Agreement /\ ~At(w, "idle") /\ task' = task
    BY <1>10 DEF Succeed, NothingLost, engine, At
  <2>2. Goto(w, "receipt")
    BY <1>10 DEF Succeed
  <2>3. Settled => Settled'
    BY <1>t, <1>10 DEF Succeed, Settled, Terminal, Row
  <2>4. worker'[w].token = worker[w].token /\ worker'[w].pc \in {"receipt"}
    BY <2>2, LaneMoves, LaneNames DEF Executing
  <2>5. ASSUME task.state = "running" PROVE LaneAgrees(w)'
    <3>1. LaneAgrees(w)
      BY <2>1, <2>5 DEF Agreement
    <3> QED
      BY <1>t, <1>10, <2>1, <2>3, <2>4, <2>5, <3>1 DEF LaneAgrees, At, Failing,
         Settled, InAttempt, BetweenAttempts, RetryDue, Succeed, Row, Terminal
  <2> QED
    BY <2>1, <2>2, <2>3, <2>5, LaneNames, AgreementMove DEF Executing
<1>11. ASSUME NEW w \in Workers, FailSettled(w) PROVE Agreement'
  <2>1. Agreement /\ ~At(w, "idle") /\ task' = task
    BY <1>11 DEF FailSettled, NothingLost, engine, At, Failing
  <2>2. Goto(w, "receipt")
    BY <1>11 DEF FailSettled
  <2>3. row' = row
    BY <1>11 DEF FailSettled
  <2>4. worker'[w].token = worker[w].token /\ worker'[w].pc \in {"receipt"}
    BY <2>2, LaneMoves, LaneNames DEF Executing
  <2>5. ASSUME task.state = "running" PROVE LaneAgrees(w)'
    <3>1. LaneAgrees(w)
      BY <2>1, <2>5 DEF Agreement
    <3> QED
      BY <1>t, <1>11, <2>1, <2>3, <2>4, <2>5, <3>1 DEF LaneAgrees, At, Failing,
         Settled, InAttempt, BetweenAttempts, RetryDue, FailSettled
  <2> QED
    BY <2>1, <2>2, <2>3, <2>5, LaneNames, AgreementMove DEF Executing, Settled
<1>12. ASSUME NEW w \in Workers, FailFinally(w) PROVE Agreement'
  <2>1. Agreement /\ ~At(w, "idle") /\ task' = task
    BY <1>12 DEF FailFinally, NothingLost, engine, At, Failing
  <2>2. Goto(w, "receipt")
    BY <1>12 DEF FailFinally
  <2>3. Settled => Settled'
    BY <1>t, <1>12 DEF FailFinally, Settled, Terminal, Row
  <2>4. worker'[w].token = worker[w].token /\ worker'[w].pc \in {"receipt"}
    BY <2>2, LaneMoves, LaneNames DEF Executing
  <2>5. ASSUME task.state = "running" PROVE LaneAgrees(w)'
    <3>1. LaneAgrees(w)
      BY <2>1, <2>5 DEF Agreement
    <3> QED
      BY <1>t, <1>12, <2>1, <2>3, <2>4, <2>5, <3>1 DEF LaneAgrees, At, Failing,
         Settled, InAttempt, BetweenAttempts, RetryDue, FailFinally, Row, Terminal,
         Exhausted
  <2> QED
    BY <2>1, <2>2, <2>3, <2>5, LaneNames, AgreementMove DEF Executing
<1>13. ASSUME NEW w \in Workers, FailForRetry(w) PROVE Agreement'
  <2>1. Agreement /\ ~At(w, "idle") /\ task' = task
    BY <1>13 DEF FailForRetry, NothingLost, engine, At, Failing
  <2>2. Goto(w, "reporting")
    BY <1>13 DEF FailForRetry
  <2>3. Settled => Settled'
    BY <1>t, <1>13 DEF FailForRetry, Settled, Terminal, Row
  <2>4. worker'[w].token = worker[w].token /\ worker'[w].pc \in {"reporting"}
    BY <2>2, LaneMoves, LaneNames DEF Executing
  <2>5. ASSUME task.state = "running" PROVE LaneAgrees(w)'
    <3>1. LaneAgrees(w)
      BY <2>1, <2>5 DEF Agreement
    <3>2. InAttempt /\ row.attempts < MaxAttempts
      <4>1. InAttempt
        BY <1>13, <3>1 DEF FailForRetry, LaneAgrees, Settled, Terminal, BetweenAttempts
      <4> QED
        BY <1>t, <1>13, <4>1, BoundWorkAssumption DEF FailForRetry, Exhausted
    <3>3. row'.state = "pending" /\ row'.attempts = row.attempts
      BY <1>t, <1>13 DEF FailForRetry, Row
    <3>4. RetryDue'
      BY <2>1, <3>2, <3>3 DEF InAttempt, RetryDue
    <3> QED
      BY <2>1, <2>4, <3>1, <3>4 DEF LaneAgrees, At, Failing
  <2> QED
    BY <2>1, <2>2, <2>3, <2>5, LaneNames, AgreementMove DEF Executing
<1>14. ASSUME NEW w \in Workers, CancelledTask(w) PROVE Agreement'
  <2>1. Agreement /\ ~At(w, "idle") /\ task' = task
    BY <1>14 DEF CancelledTask, NothingLost, engine, At
  <2>2. Goto(w, "reporting")
    BY <1>14 DEF CancelledTask
  <2>3. Settled => Settled'
    BY <1>t, <1>14 DEF CancelledTask, Settled, Terminal, Row, CancelRow
  <2>4. worker'[w].token = worker[w].token /\ worker'[w].pc \in {"reporting"}
    BY <2>2, LaneMoves, LaneNames DEF Executing
  <2>5. ASSUME task.state = "running" PROVE LaneAgrees(w)'
    <3>1. LaneAgrees(w)
      BY <2>1, <2>5 DEF Agreement
    <3> QED
      BY <1>t, <1>14, <2>1, <2>3, <2>4, <2>5, <3>1 DEF LaneAgrees, At, Failing,
         Settled, InAttempt, BetweenAttempts, RetryDue, CancelledTask, Row, Terminal,
         CancelRow
  <2> QED
    BY <2>1, <2>2, <2>3, <2>5, LaneNames, AgreementMove DEF Executing
<1>15. ASSUME NEW w \in Workers, BeginUnbound(w) \/ FailConflicts(w) PROVE Agreement'
  BY <1>15 DEF BeginUnbound, FailConflicts
<1>16. ASSUME NEW w \in Workers, ClaimTask(w) PROVE Agreement'
  <2>1. Agreement /\ row' = row
    BY <1>16 DEF ClaimTask, NothingLost
  <2>2. /\ worker'[w].pc = "claimed" /\ worker'[w].token = task.attempt
        /\ \A v \in Workers \ {w} : worker'[v] = worker[v]
    BY <1>16, LaneClaims
  <2>3. \A v \in Workers : worker[v].pc = "idle"
    BY <1>16, <2>1 DEF ClaimTask, Claimable, Agreement, At
  <2>4. task'.state = "running" /\ task'.attempt = task.attempt
    BY <1>t, <1>16 DEF ClaimTask, Task
  <2>5. Settled \/ BetweenAttempts
    BY <1>16, <2>1 DEF ClaimTask, Claimable, Agreement
  <2>6. LaneAgrees(w)'
    BY <2>1, <2>2, <2>4, <2>5 DEF LaneAgrees, At, Failing, Settled, BetweenAttempts
  <2> QED
    BY <2>2, <2>3, <2>4, <2>6 DEF Agreement, At
<1>17. ASSUME NEW w \in Workers, Report(w) PROVE Agreement'
  <2>1. Agreement /\ row' = row /\ ~At(w, "idle")
    BY <1>17 DEF Report, NothingLost, At
  <2>2. /\ worker'[w].pc = "idle"
        /\ \A v \in Workers \ {w} : worker'[v] = worker[v]
    BY <1>17, LaneLeaves DEF Report, Idle
  <2>3. CASE Holds(w)
    <3>1. task.state = "running" /\ LaneAgrees(w)
      BY <2>1, <2>3 DEF Agreement, Holds
    <3>2. \A v \in Workers : worker'[v].pc = "idle"
      BY <2>1, <2>2, <3>1 DEF Agreement, At
    <3>3. Settled \/ RetryDue
      BY <1>17, <3>1 DEF Report, LaneAgrees
    <3>4. \/ task'.state = "sleeping" /\ task'.attempt = task.attempt + 1
          \/ task'.state = "failed" /\ ~(task.attempt < MaxAttempts)
      BY <1>t, <1>17, <2>3 DEF Report, TaskFailed, Task
    <3>5. CASE task'.state = "sleeping" /\ task'.attempt = task.attempt + 1
      BY <1>t, <2>1, <3>2, <3>3, <3>5 DEF Agreement, At, Settled, RetryDue,
         BetweenAttempts
    <3>6. CASE task'.state = "failed" /\ ~(task.attempt < MaxAttempts)
      BY <1>t, <2>1, <3>2, <3>3, <3>6 DEF Agreement, At, Settled, RetryDue
    <3> QED
      BY <3>4, <3>5, <3>6
  <2>4. CASE ~Holds(w)
    <3>1. task.state = "cancelled" /\ task' = task
      BY <1>17, <2>1, <2>4 DEF Report, Agreement, Holds, LaneAgrees
    <3> QED
      BY <2>1, <3>1 DEF Agreement, At
  <2> QED
    BY <2>3, <2>4
<1>18. ASSUME NEW w \in Workers, Complete(w) PROVE Agreement'
  <2>1. Agreement /\ row' = row /\ ~At(w, "idle")
    BY <1>18 DEF Complete, NothingLost, At
  <2>2. /\ worker'[w].pc = "idle"
        /\ \A v \in Workers \ {w} : worker'[v] = worker[v]
    BY <1>18, LaneLeaves DEF Complete, Idle
  <2>3. CASE Holds(w)
    <3>1. task.state = "running" /\ LaneAgrees(w)
      BY <2>1, <2>3 DEF Agreement, Holds
    <3>2. \A v \in Workers : worker'[v].pc = "idle"
      BY <2>1, <2>2, <3>1 DEF Agreement, At
    <3>3. Settled /\ task'.state = "completed"
      BY <1>t, <1>18, <2>3, <3>1 DEF Complete, LaneAgrees, Task
    <3> QED
      BY <2>1, <3>2, <3>3 DEF Agreement, At, Settled
  <2>4. CASE ~Holds(w)
    <3>1. task.state = "cancelled" /\ task' = task
      BY <1>18, <2>1, <2>4 DEF Complete, Agreement, Holds, LaneAgrees
    <3> QED
      BY <2>1, <3>1 DEF Agreement, At
  <2> QED
    BY <2>3, <2>4
<1>19. ASSUME NEW w \in Workers, Crash(w) PROVE Agreement'
  <2>1. Agreement /\ row' = row /\ task' = task /\ ~At(w, "idle")
    BY <1>19 DEF Crash, NothingLost, engine
  <2>2. /\ worker'[w].pc = "idle"
        /\ \A v \in Workers \ {w} : worker'[v] = worker[v]
    BY <1>19, LaneLeaves DEF Crash, Idle
  <2>3. ASSUME NEW v \in Workers, ~At(v, "idle")'
        PROVE  v # w /\ ~At(v, "idle") /\ worker'[v] = worker[v]
    BY <2>2, <2>3 DEF At
  <2>4. task.state # "running" \/ \A v \in Workers : At(v, "idle")'
    BY <2>1, <2>3 DEF Agreement
  <2> QED
    BY <2>1, <2>3, <2>4 DEF Agreement, At, Settled
<1>20. ASSUME NEW s \in Spawners, SpawnLoad(s) PROVE Agreement'
  <2>1. Agreement /\ worker' = worker
    BY <1>20 DEF SpawnLoad, NothingLost
  <2>2. /\ task'.state = "cancelled" \/ task' = task
        /\ Settled => Settled'
        /\ Settled' \/ (row'.state = row.state /\ row'.attempts = row.attempts)
    BY <1>t, <1>20 DEF SpawnLoad, NothingLost, engine, Settled
  <2> QED
    BY <2>1, <2>2, AgreementStay
<1>21. ASSUME NEW s \in Spawners, SpawnTask(s) PROVE Agreement'
  <2>1. Agreement /\ row' = row /\ worker' = worker
    BY <1>21 DEF SpawnTask, NothingLost
  <2>2. CASE task.state = "none"
    <3>1. task'.state = "pending" /\ task'.attempt = task.attempt
      BY <1>t, <1>21, <2>2 DEF SpawnTask, Task
    <3> QED
      BY <2>1, <2>2, <3>1 DEF Agreement, At, Settled, BetweenAttempts
  <2>3. CASE task.state # "none"
    BY <1>21, <2>1, <2>3, AgreementStay DEF SpawnTask, Settled
  <2> QED
    BY <2>2, <2>3
<1>22. ASSUME NEW s \in Spawners, BindTask(s) PROVE Agreement'
  <2>1. Agreement /\ worker' = worker
    BY <1>22 DEF BindTask, NothingLost
  <2>2. /\ task'.state = "cancelled" \/ task' = task
        /\ Settled => Settled'
        /\ Settled' \/ (row'.state = row.state /\ row'.attempts = row.attempts)
    BY <1>t, <1>22 DEF BindTask, NothingLost, engine, Settled, Row
  <2> QED
    BY <2>1, <2>2, AgreementStay
<1>23. ASSUME NEW s \in Spawners, SpawnCancel(s) PROVE Agreement'
  <2>1. Agreement /\ worker' = worker
    BY <1>23 DEF SpawnCancel, NothingLost
  <2>2. /\ task'.state = "cancelled" \/ task' = task
        /\ Settled => Settled'
        /\ Settled' \/ (row'.state = row.state /\ row'.attempts = row.attempts)
    BY <1>t, <1>23 DEF SpawnCancel, NothingLost, engine, Settled, TaskCancelled, Task
  <2> QED
    BY <2>1, <2>2, AgreementStay
<1>24. ASSUME NEW s \in Spawners, SpawnCrash(s) PROVE Agreement'
  <2>1. Agreement /\ worker' = worker
    BY <1>24 DEF SpawnCrash, NothingLost
  <2>2. /\ task'.state = "cancelled" \/ task' = task
        /\ Settled => Settled'
        /\ Settled' \/ (row'.state = row.state /\ row'.attempts = row.attempts)
    BY <1>t, <1>24 DEF SpawnCrash, NothingLost, engine, Settled
  <2> QED
    BY <2>1, <2>2, AgreementStay
<1>25. CASE Cancel
  <2>1. Agreement /\ worker' = worker
    BY <1>25 DEF Cancel, NothingLost
  <2>2. /\ task'.state = "cancelled" \/ task' = task
        /\ Settled => Settled'
        /\ Settled' \/ (row'.state = row.state /\ row'.attempts = row.attempts)
    BY <1>t, <1>25 DEF Cancel, NothingLost, engine, Settled, CancelRow, Terminal, Row
  <2> QED
    BY <2>1, <2>2, AgreementStay
<1>26. CASE CancelSignal
  <2>1. Agreement /\ worker' = worker
    BY <1>26 DEF CancelSignal, NothingLost
  <2>2. /\ task'.state = "cancelled" \/ task' = task
        /\ Settled => Settled'
        /\ Settled' \/ (row'.state = row.state /\ row'.attempts = row.attempts)
    BY <1>t, <1>26 DEF CancelSignal, NothingLost, engine, Settled, TaskCancelled, Task
  <2> QED
    BY <2>1, <2>2, AgreementStay
<1>27. CASE CancelCrash
  <2>1. Agreement /\ worker' = worker
    BY <1>27 DEF CancelCrash, NothingLost
  <2>2. /\ task'.state = "cancelled" \/ task' = task
        /\ Settled => Settled'
        /\ Settled' \/ (row'.state = row.state /\ row'.attempts = row.attempts)
    BY <1>t, <1>27 DEF CancelCrash, NothingLost, engine, Settled
  <2> QED
    BY <2>1, <2>2, AgreementStay
<1>28. CASE ClaimExpires
  BY <1>28 DEF ClaimExpires
<1> QED
  BY <1>1, <1>2, <1>3, <1>4, <1>5, <1>6, <1>7, <1>8, <1>9, <1>10, <1>11,
      <1>12, <1>13, <1>14, <1>15, <1>16, <1>17, <1>18, <1>19, <1>20, <1>21,
      <1>22, <1>23, <1>24, <1>25, <1>26, <1>27, <1>28 DEF Next, Attempt

-----------------------------------------------------------------------------
(* The invariant, and what follows from it. *)

LEMMA Initially == Init => IInv
<1> SUFFICES ASSUME Init PROVE IInv
  OBVIOUS
<1>1. TypeOK
  <2>1. Idle \in Lane
    BY BoundWorkAssumption DEF Idle, Lane, PCs
  <2>2. 0 \in 0..MaxAttempts /\ 1 \in 1..MaxAttempts
    BY BoundWorkAssumption
  <2>3. row \in Row
    BY <2>2 DEF Init, Row
  <2>4. task \in Task
    BY <2>2, TaskNames DEF Init, Task
  <2> QED
    BY <2>1, <2>3, <2>4 DEF Init, TypeOK
<1>2. OneAttemptPerClaim
  <2>1. Claimed = {}
    BY DEF Init, Claimed, At, Idle
  <2>2. Cardinality(Claimed) = 0
    BY <2>1, FS_EmptySet
  <2> QED
    BY <2>2 DEF Init, OneAttemptPerClaim, Started
<1>3. UnboundIsUntouched /\ StepFirst
  BY DEF Init, UnboundIsUntouched, StepFirst, At, Idle
<1>4. NothingLost
  BY DEF Init, NothingLost, Agreement, At, Idle, Settled, BetweenAttempts
<1> QED
  BY <1>1, <1>2, <1>3, <1>4 DEF IInv

LEMMA Inductive == IInv /\ [Next]_vars => IInv'
BY CountedStep, OrderedStep, AgreementStep DEF IInv, Counted, Ordered

LEMMA Invariance == Spec => []IInv
BY Initially, Inductive, PTL DEF Spec

(* Every variable keeps its type: in particular the row never counts more  *)
(* than MaxAttempts attempts.                                              *)
THEOREM TypeCorrect == Spec => []TypeOK
<1>1. IInv => TypeOK
  BY DEF IInv
<1> QED
  BY <1>1, Invariance, PTL

(* However claims expire and workers stall, the row counts no more         *)
(* attempts than the engine has started.                                   *)
THEOREM AttemptsAreBudgeted == Spec => []AttemptsWithinBudget
<1>1. IInv => AttemptsWithinBudget
  <2> SUFFICES ASSUME IInv PROVE AttemptsWithinBudget
    OBVIOUS
  <2>1. /\ Cardinality(Claimed) \in Nat
        /\ Started \in Nat /\ Started <= task.attempt
        /\ row.attempts + Cardinality(Claimed) <= Started
    BY ClaimedFinite, StartedType DEF IInv, OneAttemptPerClaim
  <2>2. row.attempts \in Nat /\ task.attempt \in Nat
    BY BoundWorkAssumption DEF IInv, TypeOK, Row, Task
  <2> QED
    BY <2>1, <2>2 DEF AttemptsWithinBudget
<1> QED
  BY <1>1, Invariance, PTL

(* A row is worked on only after its binding is committed, so that no call *)
(* of bind_task is ever refused.                                           *)
THEOREM WorkFollowsBinding == Spec => []UnboundIsUntouched
<1>1. IInv => UnboundIsUntouched
  BY DEF IInv
<1> QED
  BY <1>1, Invariance, PTL

(* A task that has completed or run out of attempts leaves its row settled *)
(* unless an attempt was lost, its binding invisible or its failure        *)
(* refused: these are the only ways to strand a row.                       *)
THEOREM StrandedOnlyByLoss == Spec => []UnsettledOnlyByLoss
<1>1. IInv => UnsettledOnlyByLoss
  BY DEF IInv, NothingLost, Agreement, UnsettledOnlyByLoss
<1> QED
  BY <1>1, Invariance, PTL
-----------------------------------------------------------------------------
(* The contract: each step is one of the contract's on the row, or none. *)

LEMMA ContractStep == IInv /\ [Next]_vars => [Contract!Next]_(Contract!vars)
<1> SUFFICES ASSUME IInv, [Next]_vars PROVE [Contract!Next]_(Contract!vars)
  OBVIOUS
<1> DEFINE Still == row'.state = row.state /\ row'.attempts = row.attempts /\ effect' = effect
<1>s. Still => [Contract!Next]_(Contract!vars)
  BY DEF Contract!vars
<1> HIDE DEF Still
<1>t. row \in Row /\ TypeOK /\ StepFirst /\ OneAttemptPerClaim
  BY DEF IInv, TypeOK
<1>0. CASE UNCHANGED vars
  BY <1>0, <1>s DEF vars, Still
<1>1. ASSUME NEW w \in Workers, BeginAttempt(w) PROVE Contract!Begin
  <2>1. row.attempts + 1 <= MaxAttempts
    BY <1>t, <1>1, CountBegin
  <2>2. row.attempts < MaxAttempts
    BY <1>t, <2>1, BoundWorkAssumption DEF Row
  <2>3. row'.state = "running" /\ row'.attempts = row.attempts + 1 /\ effect' = effect
    BY <1>t, <1>1 DEF BeginAttempt, Row
  <2>4. row.state \in {"pending", "running"}
    BY <1>t, <1>1 DEF BeginAttempt, Row
  <2> QED
    BY <2>2, <2>3, <2>4 DEF Contract!Begin
<1>2. ASSUME NEW w \in Workers, StepPerforms(w) PROVE Contract!Perform
  BY <1>t, <1>2 DEF StepPerforms, StepFirst, Contract!Perform
<1>3. ASSUME NEW w \in Workers, Succeed(w) PROVE Still \/ Contract!Succeed
  <2>1. effect
    BY <1>t, <1>3 DEF Succeed, StepFirst, At
  <2>2. CASE row.state = "running"
    <3>1. row'.state = "succeeded" /\ row'.attempts = row.attempts /\ effect' = effect
      BY <1>t, <1>3, <2>2 DEF Succeed, Row
    <3> QED
      BY <2>1, <2>2, <3>1 DEF Contract!Succeed, Contract!Settle
  <2>3. CASE row.state # "running"
    BY <1>3, <2>3 DEF Succeed, Still
  <2> QED
    BY <2>2, <2>3
<1>4. ASSUME NEW w \in Workers, FailFinally(w) PROVE Contract!Fail
  BY <1>t, <1>4 DEF FailFinally, Row, Contract!Fail, Contract!Settle
<1>5. ASSUME NEW w \in Workers, FailForRetry(w) PROVE Contract!Retry
  <2>1. row.attempts < MaxAttempts
    BY <1>t, <1>5, BoundWorkAssumption DEF FailForRetry, Exhausted, Row
  <2> QED
    BY <1>t, <1>5, <2>1 DEF FailForRetry, Row, Contract!Retry
<1>c. ASSUME CancelRow, effect' = effect PROVE Still \/ Contract!Cancel
  BY <1>t, <1>c DEF CancelRow, Row, Still, Terminal, Contract!Cancel, Contract!Settle,
     Contract!Ended
<1>6. ASSUME NEW w \in Workers, CancelledTask(w) PROVE Still \/ Contract!Cancel
  BY <1>6, <1>c DEF CancelledTask
<1>7. CASE Cancel
  <2>1. Still \/ Contract!Cancel
    BY <1>7, <1>c DEF Cancel
  <2> QED
    BY <1>s, <2>1 DEF Contract!Next
<1>8. ASSUME NEW w \in Workers, ClaimTask(w) PROVE Still
  BY <1>8 DEF ClaimTask, Still
<1>9. ASSUME NEW w \in Workers, BeginSettled(w) PROVE Still
  BY <1>9 DEF BeginSettled, Still
<1>10. ASSUME NEW w \in Workers, BeginUnbound(w) PROVE Still
  BY <1>10 DEF BeginUnbound, Still
<1>11. ASSUME NEW w \in Workers, LoadFails(w) PROVE Still
  BY <1>11 DEF LoadFails, Still
<1>12. ASSUME NEW w \in Workers, StepReplays(w) PROVE Still
  BY <1>12 DEF StepReplays, Still
<1>13. ASSUME NEW w \in Workers, StepRecords(w) PROVE Still
  BY <1>13 DEF StepRecords, Still
<1>14. ASSUME NEW w \in Workers, StepFails(w) PROVE Still
  BY <1>14 DEF StepFails, Still
<1>15. ASSUME NEW w \in Workers, EngineRejects(w) PROVE Still
  BY <1>15 DEF EngineRejects, Still
<1>16. ASSUME NEW w \in Workers, FailSettled(w) PROVE Still
  BY <1>16 DEF FailSettled, Still
<1>17. ASSUME NEW w \in Workers, FailConflicts(w) PROVE Still
  BY <1>17 DEF FailConflicts, Still
<1>18. ASSUME NEW w \in Workers, Report(w) PROVE Still
  BY <1>18 DEF Report, Still
<1>19. ASSUME NEW w \in Workers, Complete(w) PROVE Still
  BY <1>19 DEF Complete, Still
<1>20. ASSUME NEW w \in Workers, Crash(w) PROVE Still
  BY <1>20 DEF Crash, Still
<1>21. ASSUME NEW s \in Spawners, SpawnLoad(s) PROVE Still
  BY <1>t, <1>21 DEF SpawnLoad, Still
<1>22. ASSUME NEW s \in Spawners, SpawnTask(s) PROVE Still
  BY <1>t, <1>22 DEF SpawnTask, Still
<1>23. ASSUME NEW s \in Spawners, BindTask(s) PROVE Still
  BY <1>t, <1>23 DEF BindTask, Still, Row
<1>24. ASSUME NEW s \in Spawners, SpawnCancel(s) PROVE Still
  BY <1>t, <1>24 DEF SpawnCancel, Still
<1>25. ASSUME NEW s \in Spawners, SpawnCrash(s) PROVE Still
  BY <1>t, <1>25 DEF SpawnCrash, Still
<1>26. CASE CancelSignal
  BY <1>26, <1>s DEF CancelSignal, Still
<1>27. CASE CancelCrash
  BY <1>27, <1>s DEF CancelCrash, Still
<1>28. CASE ClaimExpires
  BY <1>28, <1>s DEF ClaimExpires, Still
<1> QED
  BY <1>s, <1>0, <1>1, <1>2, <1>3, <1>4, <1>5, <1>6, <1>7, <1>8, <1>9,
      <1>10, <1>11, <1>12, <1>13, <1>14, <1>15, <1>16, <1>17, <1>18, <1>19,
      <1>20, <1>21, <1>22, <1>23, <1>24, <1>25, <1>26, <1>27, <1>28
      DEF Next, Attempt, Contract!Next

(* Bound work implements its contract: attempts are bounded, success       *)
(* follows the effect, a terminal state is final.                          *)
THEOREM WorkImplementsContract == Spec => ImplementsContract
<1>1. Init => Contract!Init
  BY DEF Init, Contract!Init
<1> QED
  BY <1>1, ContractStep, Invariance, PTL DEF Spec, ImplementsContract, Contract!Spec

-----------------------------------------------------------------------------
(* A cancellation reaches the task *)

Unfinished == task.state \in {"pending", "running", "sleeping"}

(* cancel_bound_work is about to notify the engine, or spawn_bound_work is *)
(* about to bind the task, when it will find the row cancelled, or to      *)
(* cancel the task it has just bound to it.                                *)
CancellationIsCarried ==
  row.state = "cancelled" /\ Unfinished =>
    canceller = "signal" \/ \E s \in Spawners : spawner[s] \in {"bind", "cancel"}

(* Who carries it is known by whether the row is bound.                    *)
Carried ==
  /\ row.bound \/ (\E s \in Spawners : spawner[s] = "bind") => task.state # "none"
  /\ Unfinished /\ ~row.bound => \E s \in Spawners : spawner[s] = "bind"
  /\ row.state = "cancelled" /\ row.bound /\ Unfinished =>
       canceller = "signal" \/ \E s \in Spawners : spawner[s] = "cancel"
  /\ \A w \in Workers : At(w, "cancelling") => task.state = "cancelled"

(* What the engine and an attempt may do to row and task: the row is       *)
(* cancelled only for a cancelled task, and no task begins or is reopened. *)
EngineStep ==
  /\ row'.bound = row.bound
  /\ row'.state = "cancelled" => row.state = "cancelled" \/ task.state = "cancelled"
  /\ task.state # "none" => task'.state # "none"
  /\ Unfinished' => Unfinished
  /\ task.state = "cancelled" => task'.state = "cancelled"
  /\ UNCHANGED clients

LEMMA EngineStepCarries ==
  ASSUME Carried, EngineStep,
         \A w \in Workers : worker'[w].pc = "cancelling" =>
                              worker[w].pc = "cancelling" \/ task'.state = "cancelled"
  PROVE  Carried'
BY DEF Carried, EngineStep, Unfinished, clients, At

(* The engine keeps what is over.                                          *)
LEMMA EngineMoves ==
  ASSUME TypeOK
  PROVE  /\ TaskFailed.state \in {"sleeping", "failed"}
         /\ Unfinished => TaskCancelled.state = "cancelled"
         /\ ~Unfinished => TaskCancelled = task
BY DEF TypeOK, Task, TaskFailed, TaskCancelled, Unfinished

LEMMA AttemptCarries ==
  ASSUME TypeOK, Carried, NEW w \in Workers, Attempt(w)
  PROVE  Carried'
<1>1. CASE Report(w) \/ Complete(w)
  <2>1. EngineStep
    BY <1>1, EngineMoves DEF Report, Complete, EngineStep, Holds, Unfinished, clients, TypeOK, Task
  <2>2. \A v \in Workers : worker'[v] = worker[v] \/ worker'[v] = Idle
    BY <1>1 DEF Report, Complete, Leave, TypeOK
  <2> QED
    BY <2>1, <2>2, EngineStepCarries DEF Idle
<1>2. CASE CancelledTask(w)
  <2>1. task.state = "cancelled"
    BY <1>2 DEF CancelledTask, Carried
  <2>2. EngineStep
    BY <1>2, <2>1 DEF CancelledTask, CancelRow, EngineStep, engine, clients, TypeOK, Row, Unfinished
  <2>3. \A v \in Workers : worker'[v].pc \in {worker[v].pc, "reporting"}
    BY <1>2 DEF CancelledTask, Goto, TypeOK, Lane
  <2> QED
    BY <2>2, <2>3, EngineStepCarries
<1>3. CASE EngineRejects(w)
  <2>1. EngineStep
    BY <1>3 DEF EngineRejects, EngineStep, engine, clients, Unfinished
  <2>2. \A v \in Workers : worker'[v].pc = "cancelling" =>
                             worker[v].pc = "cancelling" \/ task'.state = "cancelled"
    BY <1>3 DEF EngineRejects, Goto, engine, TypeOK, Lane
  <2> QED
    BY <2>1, <2>2, EngineStepCarries
<1>4. CASE ~(Report(w) \/ Complete(w) \/ CancelledTask(w) \/ EngineRejects(w))
  <2>1. EngineStep
    BY <1>4 DEF Attempt, BeginSettled, BeginUnbound, BeginAttempt, LoadFails, StepReplays,
                StepPerforms, StepRecords, StepFails, Succeed, FailSettled, FailFinally,
                FailForRetry, FailConflicts, EngineStep, engine, clients, Unfinished, TypeOK, Row
  <2>2. \E pc \in PCs \ {"cancelling"} : Goto(w, pc)
    <3>1. {"receipt", "reporting", "step", "failing", "rejecting", "project", "checkpoint"}
            \subseteq PCs \ {"cancelling"}
      BY DEF PCs, Executing
    <3> QED
      BY <1>4, <3>1 DEF Attempt, BeginSettled, BeginUnbound, BeginAttempt, LoadFails, StepReplays,
                StepPerforms, StepRecords, StepFails, Succeed, FailSettled, FailFinally,
                FailForRetry, FailConflicts
  <2>3. \A v \in Workers : worker'[v].pc = "cancelling" => worker[v].pc = "cancelling"
    BY <2>2 DEF Goto, TypeOK, Lane
  <2> QED
    BY <2>1, <2>3, EngineStepCarries
<1> QED
  BY <1>1, <1>2, <1>3, <1>4

LEMMA SpawnCarries ==
  ASSUME TypeOK, UnboundIsUntouched, Carried, NEW s \in Spawners,
         SpawnLoad(s) \/ SpawnTask(s) \/ BindTask(s) \/ SpawnCancel(s)
  PROVE  Carried'
<1>t. spawner \in [Spawners -> {"idle", "spawn", "bind", "cancel"}] /\ row \in Row /\ task \in Task
  BY DEF TypeOK
<1>1. CASE SpawnLoad(s)
  <2>1. \A r \in Spawners : spawner'[r] = spawner[r] \/ (r = s /\ spawner'[r] = "spawn")
    BY <1>t, <1>1 DEF SpawnLoad
  <2>2. \A r \in Spawners : spawner[r] \in {"bind", "cancel"} => spawner'[r] = spawner[r]
    BY <1>t, <1>1, <2>1 DEF SpawnLoad
  <2> QED
    BY <1>1, <2>1, <2>2 DEF SpawnLoad, Carried, Unfinished, engine, At
<1>2. CASE SpawnTask(s)
  <2>1. /\ spawner'[s] = "bind"
        /\ \A r \in Spawners : spawner[r] \in {"bind", "cancel"} => spawner'[r] = spawner[r]
    BY <1>t, <1>2 DEF SpawnTask
  <2>2. /\ task'.state # "none"
        /\ task.state # "none" => task' = task
    BY <1>t, <1>2 DEF SpawnTask, Task
  <2> QED
    BY <1>2, <2>1, <2>2 DEF SpawnTask, Carried, Unfinished, At
<1>3. CASE BindTask(s)
  <2>1. /\ task.state # "none"
        /\ row'.bound /\ row'.state = row.state
    BY <1>t, <1>3 DEF BindTask, Carried, UnboundIsUntouched, Row
  <2>2. /\ row.state = "cancelled" => spawner'[s] = "cancel"
        /\ \A r \in Spawners : spawner[r] = "cancel" => spawner'[r] = "cancel"
    BY <1>t, <1>3 DEF BindTask
  <2> QED
    BY <1>3, <2>1, <2>2 DEF BindTask, Carried, Unfinished, engine, At
<1>4. CASE SpawnCancel(s)
  <2>1. ~Unfinished' /\ (task.state = "cancelled" => task'.state = "cancelled")
        /\ (task.state # "none" => task'.state # "none")
    BY <1>t, <1>4, EngineMoves DEF SpawnCancel, Unfinished
  <2>2. \A r \in Spawners : spawner'[r] = "bind" => spawner[r] = "bind"
    BY <1>t, <1>4 DEF SpawnCancel
  <2> QED
    BY <1>4, <2>1, <2>2 DEF SpawnCancel, Carried, At
<1> QED
  BY <1>1, <1>2, <1>3, <1>4

LEMMA CarriedStep ==
  ASSUME ~Crashes, IInv, Carried, [Next]_vars
  PROVE  Carried'
<1>t. TypeOK /\ UnboundIsUntouched
  BY DEF IInv
<1>1. ASSUME NEW w \in Workers, ClaimTask(w) PROVE Carried'
  <2>1. EngineStep
    BY <1>t, <1>1 DEF ClaimTask, Claimable, EngineStep, clients, Unfinished, TypeOK, Task
  <2>2. \A v \in Workers : worker'[v] = worker[v] \/ worker'[v].pc = "claimed"
    BY <1>t, <1>1 DEF ClaimTask, TypeOK
  <2> QED
    BY <2>1, <2>2, EngineStepCarries
<1>2. CASE ClaimExpires
  <2>1. EngineStep
    BY <1>t, <1>2, EngineMoves DEF ClaimExpires, EngineStep, clients, Unfinished
  <2> QED
    BY <1>2, <2>1, EngineStepCarries DEF ClaimExpires
<1>3. CASE Cancel
  <2>1. row'.bound = row.bound /\ (row.bound => canceller' = "signal")
    BY <1>t, <1>3 DEF Cancel, CancelRow, TypeOK, Row
  <2> QED
    BY <1>3, <2>1 DEF Cancel, Carried, Unfinished, engine, At
<1>4. CASE CancelSignal
  <2>1. ~Unfinished' /\ (task.state = "cancelled" => task'.state = "cancelled")
        /\ (task.state # "none" => task'.state # "none")
    BY <1>t, <1>4, EngineMoves DEF CancelSignal, Unfinished
  <2> QED
    BY <1>4, <2>1 DEF CancelSignal, Carried, At
<1>5. CASE UNCHANGED vars
  BY <1>5 DEF vars, Carried, Unfinished, At
<1> QED
  BY <1>t, <1>1, <1>2, <1>3, <1>4, <1>5, AttemptCarries, SpawnCarries
     DEF Next, Crash, SpawnCrash, CancelCrash

(* While no process dies between its commit and its call, a cancelled row  *)
(* has no unfinished task that nobody is about to cancel, in whatever      *)
(* order cancel_bound_work, several calls of spawn_bound_work and the      *)
(* attempts of the task come.                                              *)
THEOREM CancellationsReachTheTask == ~Crashes => (Spec => []CancellationIsCarried)
<1> SUFFICES ASSUME ~Crashes PROVE Spec => []CancellationIsCarried
  OBVIOUS
<1>1. Init => Carried
  BY DEF Init, Carried, Unfinished, At, Idle
<1>2. IInv /\ Carried /\ [Next]_vars => Carried'
  BY CarriedStep
<1>3. Carried => CancellationIsCarried
  BY DEF Carried, CancellationIsCarried
<1> QED
  BY <1>1, <1>2, <1>3, Invariance, PTL DEF Spec
=============================================================================
