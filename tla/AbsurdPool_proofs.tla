------------------------- MODULE AbsurdPool_proofs --------------------------
(***************************************************************************)
(* What the engine and its pool of lanes give to every workflow: a claim   *)
(* has one holder, a task that is over stays over and is executed by       *)
(* nobody new, and a task is claimed MaxTries times at most, so that a     *)
(* handler which counts its attempts once a claim never counts more.       *)
(* SorCommand and Campaign cite these lemmas.                              *)
(***************************************************************************)
EXTENDS AbsurdPool, FiniteSetTheorems, TLAPS

Handling(t)  == \E l \in Lanes : lane[l].job = t
Finished(t)  == task[t].state \in Over /\ ~Handling(t)
Holding(l, t) == lane[l].job = t /\ lane[l].holds

(* A task that waits for a claim has a try left.                           *)
TriesLeft(t) ==
  /\ task[t].state = "none" => task[t].tries = 0
  /\ task[t].state = "ready" => task[t].tries < MaxTries

HeldOnce(t) ==
  \A l \in Lanes : Holding(l, t) =>
    /\ task[t].state = "running"
    /\ \A k \in Lanes : Holding(k, t) => k = l

PoolInv ==
  /\ task \in [Tasks -> TaskRow]
  /\ \A t \in Tasks : TriesLeft(t) /\ HeldOnce(t)
  /\ \A l \in Lanes : lane[l].pc = "idle" => lane[l].job = NoTask

(* The lanes that have claimed a task and not yet begun on it.             *)
Starting(t, first) == {l \in Lanes : lane[l].job = t /\ lane[l].pc = first}

(* What every step but a claim does to the count of a task.                *)
Steady(t, first) ==
  /\ Starting(t, first)' \subseteq Starting(t, first)
  /\ task'[t].tries = task[t].tries

(* What every step does to a task that is finished.                        *)
StaysFinished(t) == Finished(t) => Finished(t)'

LEMMA TaskStates ==
  /\ MaxTries \in Nat \ {0} /\ NoTask \notin Tasks
  /\ Over = {"ended", "failed", "cancelled"}
  /\ \A s \in Over : s \notin {"none", "ready", "running"}
BY PoolAssumption DEF Over

LEMMA InitPool == PoolInit => PoolInv
<1> SUFFICES ASSUME PoolInit PROVE PoolInv  OBVIOUS
<1>1. /\ task = [t \in Tasks |-> [state |-> "none", tries |-> 0]]
      /\ \A l \in Lanes : lane[l] = Idle
  BY DEF PoolInit
<1>2. task \in [Tasks -> TaskRow]  BY <1>1, TaskStates DEF TaskRow
<1>3. \A l \in Lanes : lane[l].job = NoTask /\ lane[l].holds = FALSE  BY <1>1 DEF Idle
<1> QED BY <1>1, <1>2, <1>3 DEF PoolInv, TriesLeft, HeldOnce, Holding

-----------------------------------------------------------------------------
(* Tasks, row by row *)

(* A row that stays, that is spawned, or that its holder or the engine     *)
(* takes back.                                                             *)
TaskStays(t)   == task'[t] = task[t]
TaskSpawned(t) == task[t].state = "none" /\ task'[t] = [task[t] EXCEPT !.state = "ready"]
TaskEnds(t)    ==
  /\ task[t].state \in {"ready", "running"}
  /\ \E s \in {"ended", "cancelled"} : task'[t] = [task[t] EXCEPT !.state = s]
TaskFails(t)   ==
  /\ task[t].state = "running"
  /\ task'[t] = [task[t] EXCEPT !.state = IF task[t].tries < MaxTries THEN "ready" ELSE "failed"]

LEMMA TasksKeep ==
  ASSUME PoolInv, NEW t \in Tasks, TaskStays(t) \/ TaskSpawned(t) \/ TaskEnds(t) \/ TaskFails(t)
  PROVE  /\ task'[t] \in TaskRow /\ TriesLeft(t)'
         /\ task'[t].tries = task[t].tries
         /\ task[t].state \in Over => task'[t].state \in Over
<1>1. task[t] \in TaskRow /\ TriesLeft(t)  BY DEF PoolInv
<1>2. task[t].tries \in 0..MaxTries /\ MaxTries \in Nat \ {0}  BY <1>1, TaskStates DEF TaskRow
<1>3. CASE TaskStays(t)  BY <1>1, <1>3 DEF TaskStays, TriesLeft
<1>4. CASE TaskSpawned(t)
  BY <1>1, <1>2, <1>4, TaskStates DEF TaskSpawned, TriesLeft, TaskRow
<1>5. CASE TaskEnds(t)
  BY <1>1, <1>2, <1>5, TaskStates DEF TaskEnds, TriesLeft, TaskRow
<1>6. CASE TaskFails(t)
  BY <1>1, <1>2, <1>6, TaskStates DEF TaskFails, TriesLeft, TaskRow
<1> QED BY <1>3, <1>4, <1>5, <1>6

(* Steps that take nothing up: the lanes that handle a task handled it     *)
(* before, and hold it only if they held it and its row stays.             *)
TakesNothing(t) ==
  \A l \in Lanes :
    /\ lane'[l].job = t => lane[l].job = t
    /\ Holding(l, t)' => Holding(l, t) /\ TaskStays(t)

LEMMA TakingNothingKeeps ==
  ASSUME PoolInv, task' \in [Tasks -> TaskRow],
         \A t \in Tasks : TakesNothing(t) /\ (TaskStays(t) \/ TaskSpawned(t) \/ TaskEnds(t) \/ TaskFails(t)),
         \A l \in Lanes : lane'[l].pc = "idle" => lane'[l].job = NoTask
  PROVE  /\ PoolInv'
         /\ \A t \in Tasks : task'[t].tries = task[t].tries /\ StaysFinished(t)
<1>1. ASSUME NEW t \in Tasks
      PROVE  TriesLeft(t)' /\ HeldOnce(t)' /\ task'[t].tries = task[t].tries /\ StaysFinished(t)
  <2>1. /\ TriesLeft(t)' /\ task'[t].tries = task[t].tries
        /\ task[t].state \in Over => task'[t].state \in Over
    BY TasksKeep
  <2>2. HeldOnce(t)'
    BY DEF PoolInv, HeldOnce, TakesNothing, TaskStays
  <2>3. StaysFinished(t)
    BY <2>1 DEF StaysFinished, Finished, Handling, TakesNothing
  <2> QED BY <2>1, <2>2, <2>3
<1> QED BY <1>1 DEF PoolInv

-----------------------------------------------------------------------------
(* The actions *)

LEMMA PoolStays ==
  ASSUME PoolInv, UNCHANGED <<task, lane>>
  PROVE  /\ PoolInv'
         /\ \A t \in Tasks : StaysFinished(t) /\ \A first : Steady(t, first)
BY DEF PoolInv, TriesLeft, HeldOnce, Holding, StaysFinished, Finished, Handling, Steady, Starting

LEMMA PoolSteps ==
  ASSUME PoolInv, NEW pcs, NEW results, lane \in [Lanes -> LaneRow(pcs, results)],
         NEW l \in Lanes, NEW pc, pc # "idle", NEW res, Step(l, pc, res)
  PROVE  /\ PoolInv'
         /\ \A t \in Tasks :
              /\ StaysFinished(t)
              /\ task'[t].tries = task[t].tries
              /\ \A first : pc # first => Steady(t, first) /\ l \notin Starting(t, first)'
<1>1. lane' = [lane EXCEPT ![l].pc = pc, ![l].res = res] /\ task' = task  BY DEF Step
<1>2. /\ \A k \in Lanes : k # l => lane'[k] = lane[k]
      /\ lane'[l].pc = pc /\ lane'[l].job = lane[l].job /\ lane'[l].holds = lane[l].holds
  BY <1>1 DEF LaneRow
<1>3. \A k \in Lanes : lane'[k].job = lane[k].job /\ lane'[k].holds = lane[k].holds
  BY <1>2
<1>4. /\ task' \in [Tasks -> TaskRow]
      /\ \A t \in Tasks : TakesNothing(t) /\ TaskStays(t)
      /\ \A k \in Lanes : lane'[k].pc = "idle" => lane'[k].job = NoTask
  BY <1>1, <1>2, <1>3 DEF PoolInv, TakesNothing, Holding, TaskStays
<1>5. PoolInv' /\ \A t \in Tasks : StaysFinished(t) /\ task'[t].tries = task[t].tries
  BY <1>4, TakingNothingKeeps
<1>6. \A t \in Tasks : \A first : pc # first =>
        Starting(t, first)' \subseteq Starting(t, first) /\ l \notin Starting(t, first)'
  BY <1>2 DEF Starting
<1> QED BY <1>5, <1>6 DEF Steady

LEMMA PoolEnds ==
  ASSUME PoolInv, NEW pcs, NEW results, lane \in [Lanes -> LaneRow(pcs, results)],
         NEW l \in Lanes, Returns(l) \/ GivesBack(l) \/ Dies(l)
  PROVE  /\ PoolInv'
         /\ \A t \in Tasks :
              /\ StaysFinished(t)
              /\ task'[t].tries = task[t].tries
              /\ \A first : Steady(t, first) /\ l \notin Starting(t, first)'
<1>1. lane' = [lane EXCEPT ![l] = Idle]  BY DEF Returns, GivesBack, Dies
<1>2. /\ \A k \in Lanes : k # l => lane'[k] = lane[k]
      /\ lane'[l].pc = "idle" /\ lane'[l].job = NoTask /\ lane'[l].holds = FALSE
  BY <1>1 DEF Idle
<1>3. \/ task' = task
      \/ /\ lane[l].holds
         /\ task' = [task EXCEPT ![lane[l].job].state = "ended"] \/ task' = Failed(lane[l].job)
  BY DEF Returns, GivesBack, Dies, Job
<1>4. ASSUME NEW t \in Tasks
      PROVE  /\ TaskStays(t) \/ TaskEnds(t) \/ TaskFails(t)
             /\ ~TaskStays(t) => Holding(l, t)
  <2>1. CASE TaskStays(t)  BY <2>1
  <2>2. CASE ~TaskStays(t)
    <3>1. lane[l].job = t /\ lane[l].holds
      BY <1>3, <2>2 DEF TaskStays, Failed, PoolInv
    <3>2. task[t].state = "running"  BY <3>1 DEF PoolInv, HeldOnce, Holding
    <3>3. \/ task'[t] = [task[t] EXCEPT !.state = "ended"]
          \/ task'[t] = [task[t] EXCEPT !.state = IF task[t].tries < MaxTries THEN "ready" ELSE "failed"]
      BY <1>3, <2>2, <3>1 DEF TaskStays, Failed, PoolInv
    <3> QED BY <3>1, <3>2, <3>3 DEF TaskEnds, TaskFails, Holding
  <2> QED BY <2>1, <2>2
<1>5. \A t \in Tasks : TakesNothing(t)
  <2> TAKE t \in Tasks
  <2>1. ~Holding(l, t)' /\ lane'[l].job # t  BY <1>2, TaskStates DEF Holding
  <2>2. \A k \in Lanes : k # l => (Holding(k, t)' <=> Holding(k, t)) /\ lane'[k].job = lane[k].job
    BY <1>2 DEF Holding
  <2>3. \A k \in Lanes : k # l /\ Holding(k, t) => TaskStays(t)
    BY <1>4 DEF PoolInv, HeldOnce
  <2> QED BY <2>1, <2>2, <2>3 DEF TakesNothing
<1>6. task' \in [Tasks -> TaskRow]
  <2>1. task' = [t \in Tasks |-> task'[t]]  BY <1>3 DEF PoolInv, Failed
  <2>2. \A t \in Tasks : task'[t] \in TaskRow  BY <1>4, TasksKeep
  <2> QED BY <2>1, <2>2
<1>7. \A k \in Lanes : lane'[k].pc = "idle" => lane'[k].job = NoTask
  BY <1>2 DEF PoolInv
<1>8. PoolInv' /\ \A t \in Tasks : StaysFinished(t) /\ task'[t].tries = task[t].tries
  BY <1>4, <1>5, <1>6, <1>7, TakingNothingKeeps
<1>9. \A t \in Tasks : \A first :
        Starting(t, first)' \subseteq Starting(t, first) /\ l \notin Starting(t, first)'
  BY <1>2, TaskStates DEF Starting
<1> QED BY <1>8, <1>9 DEF Steady

(* The engine takes a claim back, or cancels the task.                     *)
LEMMA PoolLoses ==
  ASSUME PoolInv, NEW pcs, NEW results, lane \in [Lanes -> LaneRow(pcs, results)],
         NEW t \in Tasks, ClaimRunsOut(t) \/ CancelTask(t)
  PROVE  /\ PoolInv'
         /\ \A s \in Tasks : StaysFinished(s) /\ \A first : Steady(s, first)
<1>1. lane' = [l \in Lanes |-> IF lane[l].job = t THEN [lane[l] EXCEPT !.holds = FALSE] ELSE lane[l]]
  BY DEF ClaimRunsOut, CancelTask, Job
<1>2. \A l \in Lanes :
        /\ lane'[l].pc = lane[l].pc /\ lane'[l].job = lane[l].job
        /\ lane'[l].holds = IF lane[l].job = t THEN FALSE ELSE lane[l].holds
  BY <1>1 DEF LaneRow
<1>3. \A s \in Tasks : s # t => TaskStays(s)
  BY DEF ClaimRunsOut, CancelTask, Failed, TaskStays, PoolInv
<1>4. TaskStays(t) \/ TaskEnds(t) \/ TaskFails(t)
  BY DEF ClaimRunsOut, CancelTask, Failed, TaskStays, TaskEnds, TaskFails, PoolInv
<1>5. task' \in [Tasks -> TaskRow]
  <2>1. task' = [s \in Tasks |-> task'[s]]  BY DEF ClaimRunsOut, CancelTask, PoolInv, Failed
  <2>2. \A s \in Tasks : task'[s] \in TaskRow  BY <1>3, <1>4, TasksKeep
  <2> QED BY <2>1, <2>2
<1>6. \A s \in Tasks : TakesNothing(s)
  BY <1>2, <1>3 DEF TakesNothing, Holding
<1>7. \A k \in Lanes : lane'[k].pc = "idle" => lane'[k].job = NoTask
  BY <1>2 DEF PoolInv
<1>8. PoolInv' /\ \A s \in Tasks : StaysFinished(s) /\ task'[s].tries = task[s].tries
  BY <1>3, <1>4, <1>5, <1>6, <1>7, TakingNothingKeeps
<1>9. \A s \in Tasks : \A first : Starting(s, first)' \subseteq Starting(s, first)
  BY <1>2 DEF Starting
<1> QED BY <1>8, <1>9 DEF Steady

(* Tasks are spawned, or are there already.                                *)
LEMMA PoolSpawns ==
  ASSUME PoolInv, lane' = lane, task' = [t \in Tasks |-> task'[t]],
         \A t \in Tasks : TaskStays(t) \/ TaskSpawned(t)
  PROVE  /\ PoolInv'
         /\ \A t \in Tasks : StaysFinished(t) /\ \A first : Steady(t, first)
<1>1. task' \in [Tasks -> TaskRow]  BY TasksKeep
<1>2. \A t \in Tasks : TakesNothing(t)
  BY DEF TakesNothing, Holding, PoolInv, HeldOnce, TaskSpawned
<1>3. PoolInv' /\ \A t \in Tasks : StaysFinished(t) /\ task'[t].tries = task[t].tries
  BY <1>1, <1>2, TakingNothingKeeps DEF PoolInv
<1> QED BY <1>3 DEF Steady, Starting

(* A lane claims a task that waits, and is about to begin on it.           *)
LEMMA PoolClaims ==
  ASSUME PoolInv, NEW pcs, NEW results, lane \in [Lanes -> LaneRow(pcs, results)],
         NEW l \in Lanes, NEW t \in Tasks, NEW first, first # "idle", Claim(l, t, first)
  PROVE  /\ PoolInv'
         /\ \A s \in Tasks : StaysFinished(s)
         /\ \A s \in Tasks : \A f : s # t \/ f # first => Starting(s, f)' \subseteq Starting(s, f)
         /\ \A s \in Tasks : s # t => task'[s] = task[s]
         /\ l \notin Starting(t, first)
         /\ Starting(t, first)' = Starting(t, first) \union {l}
         /\ task'[t].tries = task[t].tries + 1
<1>1. /\ lane[l].pc = "idle" /\ task[t].state = "ready"
      /\ task' = [task EXCEPT ![t] = [state |-> "running", tries |-> @.tries + 1]]
      /\ lane' = [lane EXCEPT ![l] = [pc |-> first, job |-> t, holds |-> TRUE, res |-> "none"]]
  BY DEF Claim, At
<1>2. /\ \A k \in Lanes : k # l => lane'[k] = lane[k]
      /\ lane'[l].pc = first /\ lane'[l].job = t /\ lane'[l].holds = TRUE
      /\ lane[l].job = NoTask
  BY <1>1 DEF PoolInv
<1>3. task[t] \in TaskRow /\ task[t].tries < MaxTries  BY <1>1 DEF PoolInv, TriesLeft
<1>4. /\ task'[t].state = "running" /\ task'[t].tries = task[t].tries + 1
      /\ task'[t] \in TaskRow
      /\ \A s \in Tasks : s # t => task'[s] = task[s]
  BY <1>1, <1>3, TaskStates DEF PoolInv, TaskRow
<1>5. task' \in [Tasks -> TaskRow]  BY <1>1, <1>4 DEF PoolInv
<1>6. \A k \in Lanes : ~Holding(k, t)  BY <1>1 DEF PoolInv, HeldOnce
<1>7. \A k \in Lanes : k # l => \A s : Holding(k, s)' <=> Holding(k, s)
  BY <1>2 DEF Holding
<1>8. \A s \in Tasks : HeldOnce(s)'
  <2> TAKE s \in Tasks
  <2>1. CASE s = t  BY <1>2, <1>4, <1>6, <1>7, <2>1 DEF HeldOnce
  <2>2. CASE s # t
    <3>1. ~Holding(l, s)'  BY <1>2, <2>2 DEF Holding
    <3> QED BY <1>4, <1>7, <2>2, <3>1 DEF HeldOnce, PoolInv
  <2> QED BY <2>1, <2>2
<1>9. \A s \in Tasks : TriesLeft(s)'  BY <1>4 DEF TriesLeft, PoolInv
<1>10. PoolInv'  BY <1>2, <1>5, <1>8, <1>9 DEF PoolInv
<1>11. \A s \in Tasks : StaysFinished(s)
  BY <1>1, <1>2, <1>4, TaskStates DEF StaysFinished, Finished, Handling
<1>12. /\ l \notin Starting(t, first)
       /\ Starting(t, first)' = Starting(t, first) \union {l}
       /\ \A s \in Tasks : \A f : s # t \/ f # first => Starting(s, f)' \subseteq Starting(s, f)
  BY <1>2, TaskStates DEF Starting
<1> QED BY <1>4, <1>10, <1>11, <1>12

-----------------------------------------------------------------------------
(* Counting attempts against tries *)

LEMMA StartingFinite ==
  ASSUME NEW t, NEW first
  PROVE  IsFiniteSet(Starting(t, first)) /\ Cardinality(Starting(t, first)) \in Nat
<1>1. Starting(t, first) \in SUBSET Lanes  BY DEF Starting
<1> QED BY <1>1, PoolAssumption, FS_Subset, FS_CardinalityType

(* A handler that counts one attempt for each claim counts no more than    *)
(* MaxTries, and a step that begins nothing leaves the count within tries. *)
LEMMA CountStays ==
  ASSUME NEW t \in Tasks, task[t] \in TaskRow, NEW first, NEW n \in Nat,
         n + Cardinality(Starting(t, first)) <= task[t].tries,
         Starting(t, first)' \subseteq Starting(t, first),
         task'[t].tries = task[t].tries
  PROVE  n + Cardinality(Starting(t, first)') <= task'[t].tries /\ n <= MaxTries
<1>1. task[t].tries \in 0..MaxTries /\ MaxTries \in Nat  BY TaskStates DEF TaskRow
<1>2. /\ IsFiniteSet(Starting(t, first)) /\ Cardinality(Starting(t, first)) \in Nat
      /\ Starting(t, first)' \in SUBSET Starting(t, first)
  BY StartingFinite
<1>3. /\ IsFiniteSet(Starting(t, first)')
      /\ Cardinality(Starting(t, first)') <= Cardinality(Starting(t, first))
  BY <1>2, FS_Subset
<1>4. Cardinality(Starting(t, first)') \in Nat  BY <1>3, FS_CardinalityType
<1> QED BY <1>1, <1>2, <1>3, <1>4

LEMMA CountClaim ==
  ASSUME NEW t \in Tasks, task[t] \in TaskRow, NEW first, NEW n \in Nat,
         n + Cardinality(Starting(t, first)) <= task[t].tries,
         NEW l \in Lanes, l \notin Starting(t, first),
         Starting(t, first)' = Starting(t, first) \union {l},
         task'[t].tries = task[t].tries + 1
  PROVE  n + Cardinality(Starting(t, first)') <= task'[t].tries
<1>1. task[t].tries \in 0..MaxTries /\ MaxTries \in Nat  BY TaskStates DEF TaskRow
<1>2. IsFiniteSet(Starting(t, first)) /\ Cardinality(Starting(t, first)) \in Nat
  BY StartingFinite
<1>3. Cardinality(Starting(t, first) \union {l}) = Cardinality(Starting(t, first)) + 1
  BY <1>2, FS_AddElement
<1>4. Cardinality(Starting(t, first)') = Cardinality(Starting(t, first)) + 1  BY <1>3
<1> QED BY <1>1, <1>2, <1>4

LEMMA CountBegin ==
  ASSUME NEW t \in Tasks, task[t] \in TaskRow, NEW first, NEW n \in Nat,
         n + Cardinality(Starting(t, first)) <= task[t].tries,
         NEW l \in Lanes, l \in Starting(t, first), l \notin Starting(t, first)',
         Starting(t, first)' \subseteq Starting(t, first),
         task'[t].tries = task[t].tries
  PROVE  (n + 1) + Cardinality(Starting(t, first)') <= task'[t].tries /\ n + 1 <= MaxTries
<1>1. task[t].tries \in 0..MaxTries /\ MaxTries \in Nat  BY TaskStates DEF TaskRow
<1>2. IsFiniteSet(Starting(t, first)) /\ Cardinality(Starting(t, first)) \in Nat
  BY StartingFinite
<1>3. /\ IsFiniteSet(Starting(t, first) \ {l})
      /\ Cardinality(Starting(t, first) \ {l}) = Cardinality(Starting(t, first)) - 1
  BY <1>2, FS_RemoveElement
<1>4. Starting(t, first)' \in SUBSET (Starting(t, first) \ {l})  OBVIOUS
<1>5. /\ IsFiniteSet(Starting(t, first)')
      /\ Cardinality(Starting(t, first)') <= Cardinality(Starting(t, first) \ {l})
  BY <1>3, <1>4, FS_Subset
<1>6. Cardinality(Starting(t, first)') \in Nat  BY <1>5, FS_CardinalityType
<1> QED BY <1>1, <1>2, <1>3, <1>5, <1>6
=============================================================================
