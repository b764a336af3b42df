----------------------- MODULE CampaignOutcomes_proofs -----------------------
(***************************************************************************)
(* What a campaign reports is what became of its contacts: its tallies are *)
(* theirs, nobody it has reached is called again, and it rests only over   *)
(* contacts that were left behind, as long as no handler was overtaken     *)
(* (and, for the tallies, no transaction went by rows that had moved).     *)
(* And types: an attempt is begun no more often than its task is tried.    *)
(***************************************************************************)
EXTENDS Campaign_proofs, AbsurdPool_proofs

-----------------------------------------------------------------------------
(* Attempts *)

Nth(c, k) == <<c, k>>

AttemptStates == {"none", "pending", "running"} \union SettledAttempt
AttemptKind   == [state : AttemptStates, attempts : Nat, started : BOOLEAN, outcome : BOOLEAN]
CallStates    == {"none", "intent", "bound"} \union EndedCall

OnFile(a)  == attempt[a].state # "none"
Open(a)    == attempt[a].state \in {"pending", "running"}
Started(a) == attempt[a].started
Told(a)    == attempt[a].outcome

(* An attempt of which a handler may still make something of its contact:  *)
(* once its effect has started, a handler it has; before, an operator may. *)
Acting(a) == Open(a) /\ (~Started(a) \/ ~Finished(a))

LEMMA NthAttempts ==
  /\ MaxNumber \in Nat \ {0}
  /\ \A c \in Contacts, k \in 1..MaxNumber :
       Nth(c, k) \in Attempts /\ ContactOf(Nth(c, k)) = c /\ Number(Nth(c, k)) = k
  /\ \A c, k, d, j : Nth(c, k) = Nth(d, j) => c = d /\ k = j
  /\ \A a \in Attempts :
       /\ a = Nth(ContactOf(a), Number(a))
       /\ ContactOf(a) \in Contacts /\ Number(a) \in 1..MaxNumber
BY CampaignAssumption DEF Attempts, Nth, ContactOf, Number

LEMMA AttemptTasks ==
  /\ \A a \in Attempts : a \in Tasks /\ a \in Effects /\ Ended(a) \in Deliveries
  /\ \A d \in Deliveries : d \in Tasks /\ d \notin Attempts
  /\ \A a, b \in Attempts : Ended(a) = Ended(b) => a = b
  /\ NoTask \notin Attempts /\ NoTask \notin Deliveries
<1>1. \A d \in Deliveries : d \notin Attempts
  BY CampaignAssumption DEF Attempts
<1>2. \A a, b \in Attempts : Ended(a) = Ended(b) => a = b  BY DEF Ended
<1> QED BY <1>1, <1>2, AttemptFacts

LEMMA AttemptNames ==
  /\ AttemptStates = {"none", "pending", "running", "succeeded", "failed", "cancelled"}
  /\ SettledAttempt = {"succeeded", "failed", "cancelled"}
  /\ CallStates = {"none", "intent", "bound", "connected", "missed", "rejected"}
  /\ EndedCall = {"connected", "missed", "rejected"}
BY DEF AttemptStates, SettledAttempt, CallStates, EndedCall

(* What every step but the filing makes of an attempt's row.               *)
RowMoves(r, s) ==
  /\ s.state # "none" <=> r.state # "none"
  /\ s.state \in {"pending", "running"} => r.state \in {"pending", "running"}
  /\ r.started => s.started
  /\ r.outcome => s.outcome

LEMMA SameRowMoves == \A r : RowMoves(r, r)
BY DEF RowMoves

RowsMove ==
  /\ attempt' \in [Attempts -> AttemptKind]
  /\ \A a \in Attempts : RowMoves(attempt[a], attempt'[a])

LEMMA OneRowMoves ==
  ASSUME attempt \in [Attempts -> AttemptKind], NEW a \in Attempts, NEW r \in AttemptKind,
         attempt' = [attempt EXCEPT ![a] = r], RowMoves(attempt[a], r)
  PROVE  RowsMove /\ attempt'[a] = r /\ \A b \in Attempts : b # a => attempt'[b] = attempt[b]
BY SameRowMoves DEF RowsMove

LEMMA NoRowMoves ==
  ASSUME attempt \in [Attempts -> AttemptKind], attempt' = attempt
  PROVE  RowsMove
BY SameRowMoves DEF RowsMove

-----------------------------------------------------------------------------
(* Lanes *)

(* The steps of a handler that have to do with its effect, and the others. *)
EffectStep(l) ==
  \/ DispatchAuthorized(l) \/ DispatchRecovers(l) \/ DispatchSends(l) \/ DispatchRecords(l)
  \/ DispatchProjects(l) \/ DispatchSaves(l) \/ SendInterrupted(l)

RowStep(l) ==
  \/ FindSettled(l) \/ PrepareContactGone(l) \/ PrepareNotRunning(l)
  \/ PrepareSkips(l) \/ PrepareFails(l) \/ Prepared(l)
  \/ StartFenced(l) \/ StartEffect(l) \/ DispatchReplays(l) \/ DispatchFails(l)
  \/ CompleteDispatch(l) \/ FailureFindsSettled(l) \/ FailureConflicts(l)
  \/ FailAttempt(l) \/ RetryAttempt(l) \/ AttemptStopped(l)

HandlerStep(l) == EffectStep(l) \/ RowStep(l)

(* What the operators do, and the erasure.                                 *)
ControlStep ==
  \/ Ask \/ Transition \/ Resume \/ Revoke
  \/ \E c \in Contacts : RequestDeletion(c) \/ QuiesceReads(c) \/ QuiesceContact(c)

LEMMA ControlFrame == ControlStep => UNCHANGED controlFrame /\ (Smooth \/ Upset)
BY DEF ControlStep, Ask, Transition, Resume, Revoke, RequestDeletion, QuiesceReads, QuiesceContact

(* A step is one of these; what a handler reads before its transaction is  *)
(* not a step of its own.                                                  *)
LEMMA NextSteps ==
  ASSUME [Next]_vars
  PROVE  \/ UNCHANGED vars \/ FileDueAttempts \/ FindNothingDue
         \/ \E l \in Lanes : HandlerStep(l) \/ DeliveryStep(l)
         \/ \E l \in Lanes : ClaimSome(l) \/ LaneDies(l) \/ PrepareReads(l)
         \/ \E t \in Tasks : ClaimExpires(t)
         \/ \E d \in Deliveries : Nudge(d)
         \/ \E a \in Attempts : Carrier(a)
         \/ ControlStep
<1>1. \A l : AttemptStep(l) => HandlerStep(l) \/ PrepareReads(l)
  BY DEF AttemptStep, HandlerStep, EffectStep, RowStep
<1>2. CASE Ask \/ Transition \/ Resume \/ Revoke  BY <1>2 DEF ControlStep
<1>3. CASE \E c \in Contacts : RequestDeletion(c) \/ QuiesceReads(c) \/ QuiesceContact(c)
  BY <1>3 DEF ControlStep
<1> QED BY <1>1, <1>2, <1>3 DEF Next

(* Where a step of a handler of an attempt may lead.                       *)
AttemptGoes(l) ==
  \/ \E pc \in AttemptSteps \ {"prepare"}, res \in Results : Step(l, pc, res)
  \/ Returns(l) \/ GivesBack(l)

LEMMA AttemptStepGoes ==
  ASSUME LaneOK, OutboundTypeOK, saved \in [Attempts -> {"none"} \union OutStates],
         NEW l \in Lanes, HandlerStep(l)
  PROVE  lane[l].pc \in AttemptSteps /\ Job(l) \in Attempts /\ AttemptGoes(l) /\ (Smooth \/ Upset)
<1>1. lane[l].pc \in AttemptSteps
  BY AttemptPCs
     DEF HandlerStep, EffectStep, RowStep, FindSettled, PrepareContactGone, PrepareNotRunning,
         PrepareCancels, PrepareSkips,
         PrepareFails, Prepared, Preparing, StartFenced, StartEffect, DispatchReplays,
         DispatchAuthorized, DispatchRecovers, DispatchSends, DispatchRecords, DispatchProjects,
         DispatchSaves, DispatchFails, CompleteDispatch, FailureFindsSettled, FailureConflicts,
         FailAttempt, RetryAttempt, SendInterrupted, AttemptStopped, At
<1>2. Job(l) \in Attempts  BY <1>1 DEF LaneOK, Job
<1>3. CASE \/ FindSettled(l) \/ PrepareContactGone(l) \/ PrepareNotRunning(l) \/ PrepareSkips(l)
           \/ StartFenced(l) \/ CompleteDispatch(l) \/ FailureFindsSettled(l) \/ FailAttempt(l)
  BY <1>1, <1>2, <1>3 DEF FindSettled, PrepareContactGone, PrepareNotRunning, PrepareCancels,
                          PrepareSkips, StartFenced,
              CompleteDispatch, FailureFindsSettled, FailAttempt, ReturnReceipt, Returns,
              AttemptGoes
<1>4. CASE FailureConflicts(l) \/ RetryAttempt(l) \/ AttemptStopped(l) \/ SendInterrupted(l)
  BY <1>1, <1>2, <1>4
     DEF FailureConflicts, RetryAttempt, AttemptStopped, SendInterrupted, Raises, AttemptGoes
<1>5. CASE PrepareFails(l) \/ Prepared(l) \/ StartEffect(l) \/ DispatchFails(l) \/ DispatchAuthorized(l)
  BY <1>1, <1>2, <1>5, AttemptPCs
     DEF PrepareFails, Prepared, StartEffect, DispatchFails, DispatchAuthorized, Goto, Trips,
         AttemptGoes
<1>6. \A res : Outcome(res) \in {"complete", "reject", "unknown"}  BY DEF Outcome
<1>7. CASE DispatchReplays(l) \/ DispatchSaves(l)
  <2>1. Goto(l, Outcome(saved[Job(l)])) \/ Goto(l, Outcome(lane[l].res))
    BY <1>7 DEF DispatchReplays, DispatchSaves
  <2>2. PICK pc \in {"complete", "reject", "unknown"} : Goto(l, pc)  BY <1>6, <2>1
  <2> QED BY <1>1, <1>2, <2>2, AttemptPCs DEF Goto, AttemptGoes
<1>8. CASE DispatchRecovers(l) \/ DispatchRecords(l)
  <2>1. out'[Job(l)] \in OutStates
    <3>1. Job(l) \in Effects /\ out \in [Effects -> OutStates]
      BY <1>2, AttemptTasks DEF OutboundTypeOK
    <3>2. lane[l].pc = "record" => lane[l].res \in Outcomes  BY DEF LaneOK
    <3> QED BY <1>8, <3>1, <3>2
          DEF DispatchRecovers, DispatchRecords, RecoverSend, Recovered, RecordOutcome, At,
              Outcomes,
              OutStates
  <2>2. PICK pc \in {"retry", "project"} : GotoWith(l, pc, out'[Job(l)])
    BY <1>8 DEF DispatchRecovers, DispatchRecords
  <2> QED BY <1>1, <1>2, <2>1, <2>2, AttemptPCs DEF GotoWith, AttemptGoes, Results
<1>9. CASE DispatchSends(l)
  <2>1. \A answer \in Outcomes : answer \in Results  BY DEF Outcomes, Results, OutStates
  <2> QED BY <1>1, <1>2, <1>9, <2>1, AttemptPCs DEF DispatchSends, AttemptGoes
<1>10. CASE DispatchProjects(l)
  <2>1. lane[l].res \in Results  BY DEF LaneOK, LaneRow
  <2> QED BY <1>1, <1>2, <1>10, <2>1, AttemptPCs DEF DispatchProjects, GotoWith, AttemptGoes
<1> QED BY <1>1, <1>2, <1>3, <1>4, <1>5, <1>7, <1>8, <1>9, <1>10
    DEF HandlerStep, EffectStep, RowStep

(* Nobody begins on a task without claiming it.                            *)
PoolKeeps ==
  /\ PoolInv'
  /\ \A t \in Tasks : StaysFinished(t) /\ Steady(t, "prepare")

LEMMA AttemptStepPool ==
  ASSUME LaneOK, PoolInv, NEW l \in Lanes, AttemptGoes(l)
  PROVE  PoolKeeps /\ \A t \in Tasks : l \notin Starting(t, "prepare")'
<1>1. lane \in [Lanes -> LaneRow(PCs, Results)]  BY DEF LaneOK
<1>2. ASSUME NEW pc \in AttemptSteps \ {"prepare"}, NEW res \in Results, Step(l, pc, res)
      PROVE  PoolKeeps /\ \A t \in Tasks : l \notin Starting(t, "prepare")'
  <2>1. pc # "idle"  BY StepFacts
  <2>2. /\ PoolInv' /\ \A t \in Tasks : StaysFinished(t)
        /\ \A t \in Tasks : \A first : pc # first => Steady(t, first) /\ l \notin Starting(t, first)'
    BY <1>1, <1>2, <2>1, PoolSteps
  <2> QED BY <2>2 DEF PoolKeeps
<1>3. CASE Returns(l) \/ GivesBack(l)
  BY <1>1, <1>3, PoolEnds DEF PoolKeeps
<1> QED BY <1>2, <1>3 DEF AttemptGoes

DeliveryGoes(l) ==
  \/ \E pc \in DeliverySteps \ {"begin"} : Step(l, pc, "none")
  \/ Returns(l) \/ GivesBack(l)

LEMMA DeliveryStepGoes ==
  ASSUME LaneOK, NEW l \in Lanes, DeliveryStep(l)
  PROVE  lane[l].pc \in DeliverySteps /\ Job(l) \in Deliveries /\ DeliveryGoes(l) /\ (Smooth \/ Upset)
<1>1. lane[l].pc \in DeliverySteps
  BY AttemptPCs
     DEF DeliveryStep, ConsumeOutcome, Consume, BeginSettledDelivery, BeginUnboundDelivery,
         BeginDelivery, ConsumeAgain, ConsumeConflicts, ConsumeFails, ConsumeRejects,
         RecordFailure, DeliveryStopped, At
<1>2. Job(l) \in Deliveries  BY <1>1 DEF LaneOK, Job
<1>3. DeliveryGoes(l) /\ (Smooth \/ Upset)
  BY AttemptPCs
     DEF DeliveryStep, ConsumeOutcome, Consume, BeginSettledDelivery, BeginUnboundDelivery,
         BeginDelivery, ConsumeAgain, ConsumeConflicts, ConsumeFails, ConsumeRejects,
         RecordFailure, DeliveryStopped, Goto, Trips, Raises, Returns, DeliveryGoes
<1> QED BY <1>1, <1>2, <1>3

LEMMA DeliveryStepPool ==
  ASSUME LaneOK, PoolInv, NEW l \in Lanes, DeliveryGoes(l)
  PROVE  PoolKeeps
<1>1. lane \in [Lanes -> LaneRow(PCs, Results)]  BY DEF LaneOK
<1>2. ASSUME NEW pc \in DeliverySteps, Step(l, pc, "none")
      PROVE  PoolKeeps
  <2>1. pc # "idle" /\ pc # "prepare"  BY AttemptPCs, StepFacts
  <2>2. /\ PoolInv' /\ \A t \in Tasks : StaysFinished(t)
        /\ \A t \in Tasks : \A first : pc # first => Steady(t, first)
    BY <1>1, <1>2, <2>1, PoolSteps
  <2> QED BY <2>1, <2>2 DEF PoolKeeps
<1>3. CASE Returns(l) \/ GivesBack(l)
  BY <1>1, <1>3, PoolEnds DEF PoolKeeps
<1> QED BY <1>2, <1>3 DEF DeliveryGoes

-----------------------------------------------------------------------------
(* Rows: types, and attempts counted against tries                         *)

(* The lock of an attempt's row, from the reading of a preparing           *)
(* transaction to its end: one lane has it, and the attempt stays open.    *)
LockHeld(l) ==
  /\ lane[l].pc = "prepare" /\ lane[l].job \in Attempts
  /\ attempt[lane[l].job].state \in {"pending", "running"}
  /\ \A k \in Lanes : k # l /\ lane[k].job = lane[l].job => read[k] = Unread

Locks == \A l \in Lanes : read[l] # Unread => LockHeld(l)

(* What is under way, and what an erasure has found.                       *)
UnderwayInv ==
  /\ ReadsOK
  /\ Locks
  /\ \A l \in Lanes : read[l].count <= MaxNumber
  /\ blind \subseteq {"campaign", "contact"}
  /\ \A c \in Contacts :
       /\ scope[c].unstarted \subseteq scope[c].filed
       /\ \A a \in scope[c].filed : a \in Attempts /\ ContactOf(a) = c /\ OnFile(a)

RecordTypes ==
  /\ UnderwayInv
  /\ attempt \in [Attempts -> AttemptKind]
  /\ saved \in [Attempts -> {"none"} \union OutStates]
  /\ call \in [Attempts -> CallStates]
  /\ overtaken \subseteq Attempts
  /\ receipt \subseteq Deliveries
  /\ upsets \in 0..MaxUpsets
  /\ \A d \in Deliveries : delivery[d].attempts <= MaxTries
  /\ \A c \in Contacts : contact[c].count <= MaxNumber

TriesCover(a) == attempt[a].attempts + Cardinality(Starting(a, "prepare")) <= task[a].tries

TypeInv == RecordTypes /\ \A a \in Attempts : TriesCover(a)

LEMMA UpsetsStay ==
  ASSUME upsets \in 0..MaxUpsets, Smooth \/ Upset
  PROVE  upsets' \in 0..MaxUpsets
BY PoolAssumption DEF Smooth, Upset

LEMMA BegunRow ==
  ASSUME attempt \in [Attempts -> AttemptKind], NEW a \in Attempts, NEW s \in AttemptStates
  PROVE  /\ Begun(a) = [attempt EXCEPT ![a] = [attempt[a] EXCEPT !.state = "running", !.attempts = @ + 1]]
         /\ [Begun(a) EXCEPT ![a].state = s]
              = [attempt EXCEPT ![a] = [attempt[a] EXCEPT !.state = s, !.attempts = @ + 1]]
BY DEF Begun, AttemptKind

(* What a handler makes of its attempt's row.                              *)
HandlerRow(l, r, s) ==
  /\ s \in AttemptKind /\ RowMoves(r, s)
  /\ s.outcome = r.outcome
  /\ s.attempts = r.attempts \/ (At(l, "prepare") /\ s.attempts = r.attempts + 1)
  /\ s.state = "pending" /\ r.state # "pending" =>
       At(l, "retry") /\ (lane[l].holds \/ overtaken' # {})

LEMMA PreparationRow ==
  ASSUME RecordTypes, NEW l \in Lanes, NEW a \in Attempts, a = Job(l), Preparing(l),
         attempt[a].state # "none",
         NEW s \in {"running", "cancelled", "failed"}, NEW r,
         r = [attempt[a] EXCEPT !.state = s, !.attempts = @ + 1]
  PROVE  HandlerRow(l, attempt[a], r)
<1>1. attempt[a] \in AttemptKind  BY DEF RecordTypes
<1>2. attempt[a].state \in {"pending", "running"}
  BY DEF Preparing, Job, RecordTypes, UnderwayInv, Locks, LockHeld
<1>3. /\ r.state = s /\ r.attempts = attempt[a].attempts + 1
      /\ r.outcome = attempt[a].outcome /\ r.started = attempt[a].started
  BY <1>1 DEF AttemptKind
<1>4. s \in AttemptStates /\ attempt[a].attempts + 1 \in Nat
  BY <1>1, AttemptNames DEF AttemptKind
<1>5. r \in AttemptKind  BY <1>1, <1>4 DEF AttemptKind
<1> QED BY <1>2, <1>3, <1>5 DEF HandlerRow, RowMoves, Preparing

LEMMA AttemptStepRow ==
  ASSUME LaneOK, RecordTypes, NEW l \in Lanes, HandlerStep(l), NEW a \in Attempts, a = Job(l),
         attempt[a].state # "none"
  PROVE  \E r : HandlerRow(l, attempt[a], r) /\ attempt' = [attempt EXCEPT ![a] = r]
<1>1. attempt[a] \in AttemptKind /\ attempt \in [Attempts -> AttemptKind]  BY DEF RecordTypes
<1>2. CASE attempt' = attempt
  <2>1. HandlerRow(l, attempt[a], attempt[a])  BY <1>1 DEF HandlerRow, RowMoves
  <2>2. attempt' = [attempt EXCEPT ![a] = attempt[a]]  BY <1>1, <1>2
  <2> QED BY <2>1, <2>2
<1>3. CASE PrepareContactGone(l) \/ PrepareNotRunning(l) \/ PrepareSkips(l) \/ Prepared(l)
  <2>1. PICK s \in {"running", "cancelled", "failed"} :
          attempt' = [attempt EXCEPT ![a] = [attempt[a] EXCEPT !.state = s, !.attempts = @ + 1]]
    BY <1>1, <1>3, BegunRow, AttemptNames
       DEF PrepareContactGone, PrepareNotRunning, PrepareCancels, PrepareSkips, Prepared
  <2>2. Preparing(l)
    BY <1>3 DEF PrepareContactGone, PrepareNotRunning, PrepareCancels, PrepareSkips, Prepared
  <2> QED BY <2>1, <2>2, PreparationRow
<1>4. CASE StartFenced(l) \/ CompleteDispatch(l) \/ FailAttempt(l) \/ RetryAttempt(l)
  <2>1. PICK s : /\ attempt' = [attempt EXCEPT ![a] = [attempt[a] EXCEPT !.state = s]]
                 /\ \/ s \in SettledAttempt \/ s = attempt[a].state
                    \/ RetryAttempt(l) /\ attempt[a].state = "running" /\ s = "pending"
    <3>1. CASE StartFenced(l)  BY <1>1, <3>1, AttemptNames DEF StartFenced, CancelAttempt
    <3>2. CASE CompleteDispatch(l)  BY <1>1, <3>2, AttemptNames DEF CompleteDispatch
    <3>3. CASE FailAttempt(l)  BY <1>1, <3>3, AttemptNames DEF FailAttempt
    <3>4. CASE RetryAttempt(l)  BY <1>1, <3>4, AttemptNames DEF RetryAttempt
    <3> QED BY <1>4, <3>1, <3>2, <3>3, <3>4
  <2>2. PICK r : r = [attempt[a] EXCEPT !.state = s]  OBVIOUS
  <2>3. /\ r.state = s /\ r.attempts = attempt[a].attempts
        /\ r.outcome = attempt[a].outcome /\ r.started = attempt[a].started
        /\ r \in AttemptKind
    BY <1>1, <2>1, <2>2, AttemptNames DEF AttemptKind
  <2>4. RetryAttempt(l) => At(l, "retry") /\ (lane[l].holds \/ overtaken' # {})
    BY DEF RetryAttempt
  <2>5. HandlerRow(l, attempt[a], r)
    BY <2>1, <2>3, <2>4, AttemptNames DEF HandlerRow, RowMoves
  <2> QED BY <2>1, <2>2, <2>5
<1>5. CASE StartEffect(l)
  <2>1. attempt' = [attempt EXCEPT ![a] = [attempt[a] EXCEPT !.started = TRUE]]
    BY <1>5 DEF StartEffect
  <2>2. PICK r : r = [attempt[a] EXCEPT !.started = TRUE]  OBVIOUS
  <2>3. HandlerRow(l, attempt[a], r)
    BY <1>1, <2>2 DEF HandlerRow, RowMoves, AttemptKind
  <2> QED BY <2>1, <2>2, <2>3
<1> QED BY <1>2, <1>3, <1>4, <1>5
        DEF HandlerStep, EffectStep, RowStep, FindSettled, PrepareFails, DispatchReplays,
            DispatchAuthorized,
            DispatchRecovers, DispatchSends, DispatchRecords, DispatchProjects, DispatchSaves,
            DispatchFails, FailureFindsSettled, FailureConflicts, SendInterrupted, AttemptStopped,
            dispatchFrame, campaignVars

-----------------------------------------------------------------------------
(* Calls: the checkpoint, the outbound row, the call, the fact of its end  *)
(* and the handlers' results tell one story.                               *)

InHand(a) == attempt[a].state \notin {"none", "pending"}
Filing(a) == delivery[Ended(a)].state

CallInv(a) ==
  /\ Started(a) \/ Told(a) \/ task[a].state # "none" => OnFile(a)
  /\ reached[a] > 0 => Started(a)
  /\ out[a] = "succeeded" \/ saved[a] = "succeeded" => reached[a] > 0
  /\ call[a] \in {"connected", "missed"} => reached[a] > 0
  /\ call[a] = "rejected" => out[a] = "terminal" /\ Started(a)
  /\ call[a] \in EndedCall <=> Filing(a) # "none"
  /\ Told(a) <=> Filing(a) = "succeeded"
  /\ overtaken = {} /\ saved[a] # "none" => InHand(a)

(* The steps between the authorization of a send and the checkpoint.       *)
Unsaved == {"send", "record", "project", "save", "retry"}

(* What a lane with a program counter, a result and a claim, or none, says *)
(* of the attempt it handles.                                              *)
LaneTells(a, pc, res, holds) ==
  /\ OnFile(a)
  /\ pc \in DispatchSteps => Started(a)
  /\ pc \in {"project", "save"} /\ res = "terminal" => out[a] = "terminal"
  /\ pc \in {"record", "project", "save"} /\ res = "succeeded" => reached[a] > 0
  /\ pc = "complete" => saved[a] = "succeeded"
  /\ pc \in Unsaved /\ holds => saved[a] = "none"
  /\ overtaken = {} /\ pc \in {"start"} \union DispatchSteps /\ holds => InHand(a)

LaneStory(l) ==
  lane[l].job \in Attempts =>
    LaneTells(lane[l].job, lane[l].pc, lane[l].res, lane[l].holds)

RecordInv ==
  /\ \A a \in Attempts : CallInv(a)
  /\ \A l \in Lanes : LaneStory(l)

LEMMA DispatchNames ==
  /\ DispatchSteps = {"intent", "send", "record", "project", "save"}
  /\ DeliverySettled = {"succeeded", "dead_letter"}
  /\ Outcomes = {"succeeded", "retryable", "terminal", "unknown"}
BY DEF DispatchSteps, DeliverySettled, Outcomes

(* What no step takes back of an attempt, and what only the holder of its  *)
(* claim does, unless it lost it.                                          *)
AttemptKeeps(a) ==
  /\ OnFile(a) => OnFile(a)'
  /\ Started(a) => Started(a)'
  /\ out[a] = "terminal" => out'[a] = "terminal"
  /\ reached[a] > 0 => reached'[a] > 0
  /\ saved[a] = "succeeded" => saved'[a] = "succeeded"

HolderKeeps(a) ==
  /\ saved[a] = "none" => saved'[a] = "none"
  /\ overtaken' = {} /\ InHand(a) => InHand(a)'

LEMMA LaneStays ==
  ASSUME NEW k \in Lanes, LaneStory(k),
         lane'[k].pc = lane[k].pc, lane'[k].job = lane[k].job, lane'[k].res = lane[k].res,
         lane'[k].holds => lane[k].holds,
         lane[k].job \in Attempts => AttemptKeeps(lane[k].job),
         lane[k].job \in Attempts /\ lane[k].holds => HolderKeeps(lane[k].job),
         overtaken' = {} => overtaken = {}
  PROVE  LaneStory(k)'
<1> SUFFICES ASSUME lane[k].job \in Attempts PROVE LaneStory(k)'
  BY DEF LaneStory
<1>1. PICK a \in Attempts : a = lane[k].job  OBVIOUS
<1>2. PICK pc, res, held : pc = lane[k].pc /\ res = lane[k].res /\ held = lane'[k].holds
  OBVIOUS
<1>3. LaneTells(a, pc, res, lane[k].holds)  BY <1>1, <1>2 DEF LaneStory
<1>4. AttemptKeeps(a) /\ (held => lane[k].holds /\ HolderKeeps(a))  BY <1>1, <1>2
<1>5. LaneTells(a, pc, res, held)'
  BY <1>3, <1>4 DEF LaneTells, AttemptKeeps, HolderKeeps
<1> QED BY <1>1, <1>2, <1>5 DEF LaneStory, LaneTells, OnFile, Started, InHand

(* The other lanes, when one executes a step.                              *)
LEMMA OtherLanesStay ==
  ASSUME PoolInv, LaneOK, RecordInv, NEW l \in Lanes,
         \A k \in Lanes : k # l => lane'[k] = lane[k],
         \A a \in Attempts : AttemptKeeps(a) /\ (HolderKeeps(a) \/ Holding(l, a)),
         overtaken' = {} => overtaken = {}
  PROVE  \A k \in Lanes : k # l => LaneStory(k)'
<1> SUFFICES ASSUME NEW k \in Lanes, k # l PROVE LaneStory(k)'
  OBVIOUS
<1>1. ASSUME lane[k].job \in Attempts, lane[k].holds
      PROVE  HolderKeeps(lane[k].job)
  <2>1. PICK a \in Attempts : a = lane[k].job  BY <1>1
  <2>2. a \in Tasks /\ Holding(k, a)  BY <1>1, <2>1, AttemptTasks DEF Holding
  <2>3. ~Holding(l, a)  BY <2>2 DEF PoolInv, HeldOnce
  <2> QED BY <2>1, <2>3
<1>2. LaneStory(k)  BY DEF RecordInv
<1> QED BY <1>1, <1>2, LaneStays

LEMMA IdleLaneTells ==
  ASSUME LaneOK, NEW l \in Lanes, lane' = [lane EXCEPT ![l] = Idle]
  PROVE  LaneStory(l)' /\ \A k \in Lanes : k # l => lane'[k] = lane[k]
<1>1. lane'[l].job = NoTask /\ \A k \in Lanes : k # l => lane'[k] = lane[k]
  BY DEF LaneOK, Idle
<1> QED BY <1>1, AttemptTasks DEF LaneStory

(* No task comes on record but by being spawned.                           *)
LEMMA TasksStayUnspawned ==
  ASSUME PoolInv,
         \/ UNCHANGED task
         \/ \E l \in Lanes : Returns(l) \/ GivesBack(l) \/ Dies(l) \/ \E t, pc : Claim(l, t, pc)
         \/ \E t \in Tasks : ClaimRunsOut(t)
  PROVE  \A t \in Tasks : task'[t].state # "none" => task[t].state # "none"
<1>1. task \in [Tasks -> TaskRow]  BY DEF PoolInv
<1>2. CASE UNCHANGED task  BY <1>2
<1>3. ASSUME NEW l \in Lanes, Returns(l) \/ GivesBack(l) \/ Dies(l)
      PROVE  \A t \in Tasks : task'[t].state # "none" => task[t].state # "none"
  <2>1. \A t \in Tasks : lane[l].holds /\ lane[l].job = t => task[t].state = "running"
    BY DEF PoolInv, HeldOnce, Holding
  <2> QED BY <1>1, <1>3, <2>1 DEF Returns, GivesBack, Dies, Failed, Job
<1>4. ASSUME NEW l \in Lanes, NEW s, NEW pc, Claim(l, s, pc)
      PROVE  \A t \in Tasks : task'[t].state # "none" => task[t].state # "none"
  BY <1>1, <1>4 DEF Claim
<1>5. ASSUME NEW s \in Tasks, ClaimRunsOut(s)
      PROVE  \A t \in Tasks : task'[t].state # "none" => task[t].state # "none"
  BY <1>1, <1>5 DEF ClaimRunsOut, Failed
<1> QED BY <1>2, <1>3, <1>4, <1>5

LEMMA AttemptTasksStayUnspawned ==
  ASSUME PoolInv, NEW l \in Lanes, AttemptGoes(l) \/ DeliveryGoes(l)
  PROVE  \A t \in Tasks : task'[t].state # "none" => task[t].state # "none"
<1>1. UNCHANGED task \/ Returns(l) \/ GivesBack(l)
  BY DEF AttemptGoes, DeliveryGoes, Step
<1> QED BY <1>1, TasksStayUnspawned

LEMMA StepLane ==
  ASSUME LaneOK, NEW l \in Lanes, NEW pc, NEW res, Step(l, pc, res)
  PROVE  /\ lane'[l].pc = pc /\ lane'[l].res = res
         /\ lane'[l].job = lane[l].job /\ lane'[l].holds = lane[l].holds
         /\ \A k \in Lanes : k # l => lane'[k] = lane[k]
BY DEF Step, LaneOK, LaneRow

LEMMA GoingLanes ==
  ASSUME LaneOK, NEW l \in Lanes, AttemptGoes(l) \/ DeliveryGoes(l)
  PROVE  \A k \in Lanes : k # l => lane'[k] = lane[k]
BY StepLane DEF AttemptGoes, DeliveryGoes, Returns, GivesBack, LaneOK

LEMMA CallStays ==
  ASSUME NEW a \in Attempts, CallInv(a), RowMoves(attempt[a], attempt'[a]),
         out'[a] = out[a], reached'[a] = reached[a], saved'[a] = saved[a], call'[a] = call[a],
         Filing(a)' = "none" <=> Filing(a) = "none",
         \/ Told(a)' /\ Filing(a)' = "succeeded"
         \/ (Told(a)' <=> Told(a)) /\ (Filing(a)' = "succeeded" <=> Filing(a) = "succeeded"),
         task'[a].state # "none" => task[a].state # "none",
         Started(a)' => Started(a) \/ OnFile(a),
         overtaken' = {} => overtaken = {},
         overtaken' = {} /\ saved[a] # "none" /\ InHand(a) => InHand(a)'
  PROVE  CallInv(a)'
<1>1. (OnFile(a)' <=> OnFile(a)) /\ (Started(a) => Started(a)')
  BY DEF RowMoves, OnFile, Started
<1>2. Started(a) \/ Told(a) \/ task[a].state # "none" \/ Filing(a) # "none" => OnFile(a)
  BY AttemptNames DEF CallInv
<1>3. Told(a)' => OnFile(a)  BY <1>2
<1>4. (Started(a) \/ Told(a) \/ task[a].state # "none" => OnFile(a))'  BY <1>1, <1>2, <1>3
<1>5. (overtaken = {} /\ saved[a] # "none" => InHand(a))'  BY DEF CallInv
<1> QED BY <1>1, <1>4, <1>5 DEF CallInv

(* A step of a handler that may change its attempt's row, and otherwise    *)
(* only rows of contacts.                                                  *)
LEMMA RowStepRecords ==
  ASSUME SendInv, PoolInv, RecordTypes, RecordInv, NEW l \in Lanes, HandlerStep(l),
         UNCHANGED <<out, reached, delivery, saved, call>>
  PROVE  /\ \A a \in Attempts : CallInv(a)'
         /\ \A k \in Lanes : k # l => LaneStory(k)'
         /\ RowsMove /\ \A a \in Attempts : Told(a)' <=> Told(a)
         /\ overtaken' = {} => overtaken = {}
<1>1. LaneOK /\ OutboundTypeOK  BY DEF SendInv
<1>2. lane[l].pc \in AttemptSteps /\ Job(l) \in Attempts /\ AttemptGoes(l)
  BY <1>1, AttemptStepGoes DEF RecordTypes
<1>3. PICK a \in Attempts : a = Job(l)  BY <1>2
<1>4. LaneTells(a, lane[l].pc, lane[l].res, lane[l].holds)
  BY <1>3 DEF RecordInv, LaneStory, Job
<1>5. OnFile(a)  BY <1>4 DEF LaneTells
<1>6. PICK r : HandlerRow(l, attempt[a], r) /\ attempt' = [attempt EXCEPT ![a] = r]
  BY <1>1, <1>3, <1>5, AttemptStepRow DEF OnFile
<1>7. /\ RowsMove /\ attempt'[a] = r
      /\ \A b \in Attempts : b # a => attempt'[b] = attempt[b]
  BY <1>6, OneRowMoves DEF HandlerRow, RecordTypes
<1>8. overtaken' = {} => overtaken = {}
  BY DEF HandlerStep, EffectStep, RowStep, FindSettled, PrepareContactGone, PrepareNotRunning,
         PrepareCancels, PrepareSkips,
         PrepareFails, Prepared, StartFenced, StartEffect, DispatchReplays, DispatchAuthorized,
         DispatchRecovers, DispatchSends, DispatchRecords, DispatchProjects, DispatchSaves,
         DispatchFails, CompleteDispatch, FailureFindsSettled, FailureConflicts, FailAttempt,
         RetryAttempt, SendInterrupted, AttemptStopped, ReturnReceipt
<1>9. overtaken' = {} /\ InHand(a) /\ ~InHand(a)' => lane[l].holds /\ saved[a] = "none"
  <2> SUFFICES ASSUME overtaken' = {}, InHand(a), ~InHand(a)' PROVE lane[l].holds /\ saved[a] = "none"
    OBVIOUS
  <2>1. r.state = "pending" /\ attempt[a].state # "pending"
    BY <1>6, <1>7 DEF InHand, HandlerRow, RowMoves
  <2>2. lane[l].pc = "retry" /\ lane[l].holds  BY <1>6, <2>1 DEF HandlerRow, At
  <2> QED BY <1>4, <2>2 DEF LaneTells, Unsaved
<1>10. \A b \in Attempts : /\ Told(b)' <=> Told(b)
                           /\ Started(b)' => Started(b) \/ OnFile(b)
  BY <1>5, <1>6, <1>7 DEF Told, Started, HandlerRow
<1>11. \A b \in Attempts : Filing(b)' = Filing(b)  BY DEF Filing
<1>12. \A b \in Attempts : task'[b].state # "none" => task[b].state # "none"
  BY <1>2, AttemptTasks, AttemptTasksStayUnspawned
<1>13. \A b \in Attempts : overtaken' = {} /\ saved[b] # "none" /\ InHand(b) => InHand(b)'
  BY <1>7, <1>9 DEF InHand
<1>14. ASSUME NEW b \in Attempts PROVE CallInv(b)'
  BY <1>7, <1>8, <1>10, <1>11, <1>12, <1>13, CallStays DEF RecordInv, RowsMove
<1>15. ASSUME NEW b \in Attempts PROVE AttemptKeeps(b) /\ (HolderKeeps(b) \/ Holding(l, b))
  <2>1. AttemptKeeps(b)  BY <1>7 DEF RowsMove, RowMoves, AttemptKeeps, OnFile, Started
  <2>2. CASE b # a  BY <1>7, <2>1, <2>2 DEF HolderKeeps, InHand
  <2>3. CASE b = a  BY <1>3, <1>9, <2>1, <2>3 DEF HolderKeeps, Holding, Job
  <2> QED BY <2>1, <2>2, <2>3
<1>16. \A k \in Lanes : k # l => LaneStory(k)'
  BY <1>1, <1>2, <1>8, <1>15, GoingLanes, OtherLanesStay
<1> QED BY <1>7, <1>8, <1>10, <1>14, <1>16

(* A step of the dispatch, which leaves the attempt's row alone.           *)
LEMMA EffectRecords ==
  ASSUME PoolInv, LaneOK, RecordTypes, RecordInv, NEW l \in Lanes, AttemptGoes(l),
         NEW a \in Attempts, a = lane[l].job,
         UNCHANGED <<attempt, overtaken>>,
         \A b \in Attempts : b # a =>
           /\ out'[b] = out[b] /\ reached'[b] = reached[b] /\ saved'[b] = saved[b]
           /\ call'[b] = call[b] /\ Filing(b)' = Filing(b),
         saved'[a] = saved[a] \/ lane[l].holds,
         AttemptKeeps(a), CallInv(a)', LaneStory(l)'
  PROVE  RecordInv'
<1>1. \A b \in Attempts : task'[b].state # "none" => task[b].state # "none"
  BY AttemptTasks, AttemptTasksStayUnspawned
<1>2. \A b \in Attempts : /\ Told(b)' <=> Told(b)
                          /\ Started(b)' <=> Started(b)
                          /\ InHand(b)' <=> InHand(b)
                          /\ OnFile(b)' <=> OnFile(b)
                          /\ RowMoves(attempt[b], attempt'[b])
  BY SameRowMoves DEF Told, Started, InHand, OnFile
<1>3. ASSUME NEW b \in Attempts PROVE CallInv(b)'
  BY <1>1, <1>2, CallStays DEF RecordInv
<1>4. ASSUME NEW b \in Attempts PROVE AttemptKeeps(b) /\ (HolderKeeps(b) \/ Holding(l, b))
  BY <1>2 DEF AttemptKeeps, HolderKeeps, Holding
<1>5. \A k \in Lanes : k # l => LaneStory(k)'
  BY <1>4, GoingLanes, OtherLanesStay
<1> QED BY <1>3, <1>5 DEF RecordInv

LEMMA HandlerSteps ==
  ASSUME NEW l
  PROVE  /\ RowStep(l) => UNCHANGED <<out, reached, delivery, saved, call>>
         /\ EffectStep(l) => UNCHANGED <<attempt, contact, campaign, overtaken, underway>>
<1>2. RowStep(l) => UNCHANGED <<out, reached, delivery, saved, call>>
  BY DEF RowStep, FindSettled, PrepareContactGone, PrepareNotRunning, PrepareCancels,
         PrepareSkips, PrepareFails,
         Prepared, StartFenced, StartEffect, DispatchReplays, DispatchFails, CompleteDispatch,
         FailureFindsSettled, FailureConflicts, FailAttempt, RetryAttempt, AttemptStopped,
         ReturnReceipt, dispatchFrame, outVars, deliveryVars
<1>3. EffectStep(l) => UNCHANGED <<attempt, contact, campaign, overtaken, underway>>
  BY DEF EffectStep, DispatchAuthorized, DispatchRecovers, DispatchSends, DispatchRecords,
         DispatchProjects, DispatchSaves, SendInterrupted, dispatchFrame, campaignVars
<1> QED BY <1>2, <1>3

LEMMA RowStepLane ==
  ASSUME SendInv, PoolInv, RecordTypes, RecordInv, NEW l \in Lanes, RowStep(l)
  PROVE  LaneStory(l)'
<1>1. LaneOK  BY DEF SendInv
<1>2. /\ lane[l].pc \in AttemptSteps /\ Job(l) \in Attempts /\ AttemptGoes(l)
      /\ HandlerStep(l) /\ UNCHANGED <<out, reached, delivery, saved, call>>
  BY <1>1, HandlerSteps, AttemptStepGoes DEF RecordTypes, SendInv, HandlerStep
<1>3. PICK a \in Attempts : a = Job(l)  BY <1>2
<1>4. PICK pc, res, held : pc = lane[l].pc /\ res = lane[l].res /\ held = lane[l].holds  OBVIOUS
<1>5. LaneTells(a, pc, res, held)  BY <1>3, <1>4 DEF RecordInv, LaneStory, Job
<1>6. RowsMove /\ (overtaken' = {} => overtaken = {})  BY <1>2, RowStepRecords
<1>7. OnFile(a)' /\ (Started(a) => Started(a)')
  BY <1>5, <1>6 DEF LaneTells, RowsMove, RowMoves, OnFile, Started
<1>8. ASSUME NEW to \in AttemptSteps, Step(l, to, "none"), LaneTells(a, to, "none", held)'
      PROVE  LaneStory(l)'
  <2>1. /\ lane'[l].pc = to /\ lane'[l].res = "none"
        /\ lane'[l].job = a /\ lane'[l].holds = held
    BY <1>1, <1>3, <1>4, <1>8, StepLane DEF Job
  <2> QED BY <1>8, <2>1 DEF LaneStory, LaneTells, OnFile, Started, InHand
<1>9. CASE lane' = [lane EXCEPT ![l] = Idle]  BY <1>1, <1>9, IdleLaneTells
<1>10. CASE PrepareFails(l)
  <2>1. Step(l, "reject", "none")  BY <1>10 DEF PrepareFails, Goto, Trips
  <2>2. LaneTells(a, "reject", "none", held)'  BY <1>7 DEF LaneTells, Unsaved, DispatchSteps
  <2> QED BY <1>8, <2>1, <2>2, AttemptPCs
<1>11. CASE Prepared(l)
  <2>1. Step(l, "start", "none") /\ attempt' = Begun(a)  BY <1>3, <1>11 DEF Prepared, Goto
  <2>2. InHand(a)'  BY <2>1 DEF InHand, Begun, RecordTypes, AttemptKind
  <2>3. LaneTells(a, "start", "none", held)'  BY <1>7, <2>2 DEF LaneTells, Unsaved, DispatchSteps
  <2> QED BY <1>8, <2>1, <2>3, AttemptPCs
<1>12. CASE StartEffect(l)
  <2>1. /\ Step(l, "intent", "none") /\ pc = "start"
        /\ attempt' = [attempt EXCEPT ![a].started = TRUE]
    BY <1>3, <1>4, <1>12 DEF StartEffect, Goto, At
  <2>2. Started(a)' /\ (InHand(a) => InHand(a)')
    BY <2>1 DEF InHand, Started, RecordTypes, AttemptKind
  <2>3. overtaken' = {} /\ held => InHand(a)'  BY <1>5, <1>6, <2>1, <2>2 DEF LaneTells
  <2>4. LaneTells(a, "intent", "none", held)'
    BY <1>7, <2>2, <2>3 DEF LaneTells, Unsaved, DispatchSteps
  <2> QED BY <1>8, <2>1, <2>4, AttemptPCs
<1>13. CASE DispatchReplays(l)
  <2>1. Step(l, Outcome(saved[a]), "none")  BY <1>3, <1>13 DEF DispatchReplays, Goto
  <2>2. PICK to \in {"complete", "reject", "unknown"} :
          to = Outcome(saved[a]) /\ (to = "complete" => saved[a] = "succeeded")
    BY DEF Outcome
  <2>3. LaneTells(a, to, "none", held)'  BY <1>2, <1>7, <2>2 DEF LaneTells, Unsaved, DispatchSteps
  <2> QED BY <1>8, <2>1, <2>2, <2>3, AttemptPCs
<1>14. CASE DispatchFails(l)
  <2>1. Step(l, "retry", "none") /\ saved[a] = "none"
    BY <1>3, <1>14 DEF DispatchFails, Goto, Trips
  <2>2. LaneTells(a, "retry", "none", held)'
    BY <1>2, <1>7, <2>1 DEF LaneTells, Unsaved, DispatchSteps
  <2> QED BY <1>8, <2>1, <2>2, AttemptPCs
<1>15. CASE \/ FindSettled(l) \/ PrepareContactGone(l) \/ PrepareNotRunning(l) \/ PrepareSkips(l)
            \/ StartFenced(l) \/ CompleteDispatch(l) \/ FailureFindsSettled(l)
            \/ FailureConflicts(l) \/ FailAttempt(l) \/ RetryAttempt(l) \/ AttemptStopped(l)
  <2>1. lane' = [lane EXCEPT ![l] = Idle]
    BY <1>15
       DEF FindSettled, PrepareContactGone, PrepareNotRunning, PrepareCancels, PrepareSkips,
           StartFenced,
           CompleteDispatch, FailureFindsSettled, FailureConflicts, FailAttempt, RetryAttempt,
           AttemptStopped, ReturnReceipt, Returns, Raises, GivesBack
  <2> QED BY <1>9, <2>1
<1> QED BY <1>10, <1>11, <1>12, <1>13, <1>14, <1>15 DEF RowStep

(* The steps of the dispatch, one by one.                                  *)
LEMMA DispatchingLane ==
  ASSUME LaneOK, RecordInv, NEW l \in Lanes, NEW pc \in DispatchSteps, At(l, pc)
  PROVE  \E a \in Attempts : /\ a \in Effects /\ a = lane[l].job /\ a = Job(l)
                             /\ CallInv(a) /\ LaneTells(a, pc, lane[l].res, lane[l].holds)
BY AttemptPCs, AttemptTasks DEF LaneOK, At, Job, RecordInv, LaneStory

LEMMA MovedLaneTells ==
  ASSUME LaneOK, NEW l \in Lanes, NEW pc, NEW res, NEW held, Step(l, pc, res),
         NEW a \in Attempts, a = lane[l].job, held = lane[l].holds, LaneTells(a, pc, res, held)'
  PROVE  LaneStory(l)'
<1>1. /\ lane'[l].pc = pc /\ lane'[l].res = res
      /\ lane'[l].job = a /\ lane'[l].holds = held
  BY StepLane
<1> QED BY <1>1 DEF LaneStory, LaneTells, OnFile, Started, InHand

(* What the steps have in common.                                          *)
EffectOf(l, a) ==
  /\ a = lane[l].job
  /\ \A b \in Attempts : b # a =>
       /\ out'[b] = out[b] /\ reached'[b] = reached[b] /\ saved'[b] = saved[b]
       /\ call'[b] = call[b] /\ Filing(b)' = Filing(b)
  /\ saved'[a] = saved[a] \/ lane[l].holds
  /\ AttemptKeeps(a) /\ CallInv(a)' /\ LaneStory(l)'

LEMMA AuthorizedRecords ==
  ASSUME SendInv, RecordTypes, RecordInv, NEW l \in Lanes, DispatchAuthorized(l)
  PROVE  \E a \in Attempts : EffectOf(l, a)
<1>1. At(l, "intent")  BY DEF DispatchAuthorized
<1>2. PICK a \in Attempts : /\ a \in Effects /\ a = lane[l].job /\ a = Job(l)
                            /\ CallInv(a) /\ LaneTells(a, "intent", lane[l].res, lane[l].holds)
  BY <1>1, DispatchNames, DispatchingLane DEF SendInv
<1>3. /\ Step(l, "send", "none") /\ Sendable(a) /\ saved[a] = "none"
      /\ out' = [out EXCEPT ![a] = "in_flight"] /\ reached' = reached
      /\ call' = [call EXCEPT ![a] = "intent"]
      /\ UNCHANGED <<attempt, delivery, saved, overtaken, task>>
  BY <1>2 DEF DispatchAuthorized, BeginSend, Goto, Step, dispatchFrame, deliveryVars, campaignVars
<1>4. /\ out'[a] = "in_flight" /\ call'[a] = "intent" /\ reached[a] = 0
      /\ \A b \in Attempts : b # a => out'[b] = out[b] /\ call'[b] = call[b]
  BY <1>2, <1>3 DEF SendInv, OutboundTypeOK, RecordTypes
<1>5. /\ UNCHANGED <<InHand(a), OnFile(a), Started(a), Told(a)>>
      /\ \A b \in Attempts : Filing(b)' = Filing(b)
  BY <1>3 DEF InHand, OnFile, Started, Told, Filing
<1>6. call[a] \notin EndedCall /\ call'[a] \notin EndedCall
  BY <1>2, <1>3, <1>4, AttemptNames DEF CallInv, Sendable
<1>7. CallInv(a)'  BY <1>2, <1>3, <1>4, <1>5, <1>6, AttemptNames DEF CallInv
<1>8. AttemptKeeps(a)  BY <1>3, <1>4, <1>5 DEF AttemptKeeps, Sendable
<1>9. PICK held : held = lane[l].holds  OBVIOUS
<1>10. LaneTells(a, "send", "none", held)'
  BY <1>2, <1>3, <1>5, <1>9, DispatchNames DEF LaneTells
<1>11. LaneStory(l)'  BY <1>2, <1>3, <1>9, <1>10, MovedLaneTells DEF SendInv
<1> QED BY <1>2, <1>3, <1>4, <1>5, <1>7, <1>8, <1>11 DEF EffectOf

LEMMA RecoversRecords ==
  ASSUME SendInv, RecordTypes, RecordInv, NEW l \in Lanes, DispatchRecovers(l)
  PROVE  \E a \in Attempts : EffectOf(l, a)
<1>1. At(l, "intent")  BY DEF DispatchRecovers
<1>2. PICK a \in Attempts : /\ a \in Effects /\ a = lane[l].job /\ a = Job(l)
                            /\ CallInv(a) /\ LaneTells(a, "intent", lane[l].res, lane[l].holds)
  BY <1>1, DispatchNames, DispatchingLane DEF SendInv
<1>3. /\ Step(l, "project", out'[a]) /\ saved[a] = "none"
      /\ out' = Recovered(a) /\ reached' = reached
      /\ UNCHANGED <<attempt, delivery, saved, call, overtaken, task>>
  BY <1>2 DEF DispatchRecovers, RecoverSend, GotoWith, Step, dispatchFrame, deliveryVars,
              campaignVars
<1>4. /\ out'[a] = IF out[a] = "in_flight" THEN "unknown" ELSE out[a]
      /\ \A b \in Attempts : b # a => out'[b] = out[b]
  BY <1>2, <1>3 DEF SendInv, OutboundTypeOK, Recovered
<1>5. /\ UNCHANGED <<InHand(a), OnFile(a), Started(a), Told(a)>>
      /\ \A b \in Attempts : Filing(b)' = Filing(b)
  BY <1>3 DEF InHand, OnFile, Started, Told, Filing
<1>6. out'[a] = "succeeded" <=> out[a] = "succeeded"  BY <1>4
<1>7. CallInv(a)'  BY <1>2, <1>3, <1>4, <1>5, <1>6 DEF CallInv
<1>8. AttemptKeeps(a)  BY <1>3, <1>4, <1>5 DEF AttemptKeeps
<1>9. PICK held, res : held = lane[l].holds /\ res = out'[a]  OBVIOUS
<1>10. LaneTells(a, "project", res, held)'
  BY <1>2, <1>3, <1>5, <1>6, <1>9, DispatchNames DEF LaneTells, CallInv
<1>11. LaneStory(l)'  BY <1>2, <1>3, <1>9, <1>10, MovedLaneTells DEF SendInv
<1> QED BY <1>2, <1>3, <1>4, <1>5, <1>7, <1>8, <1>11 DEF EffectOf

LEMMA SendsRecords ==
  ASSUME SendInv, RecordTypes, RecordInv, NEW l \in Lanes, DispatchSends(l)
  PROVE  \E a \in Attempts : EffectOf(l, a)
<1>1. At(l, "send")  BY DEF DispatchSends
<1>2. PICK a \in Attempts : /\ a \in Effects /\ a = lane[l].job /\ a = Job(l)
                            /\ CallInv(a) /\ LaneTells(a, "send", lane[l].res, lane[l].holds)
  BY <1>1, DispatchNames, DispatchingLane DEF SendInv
<1>3. PICK answer \in Outcomes :
        /\ ProviderPerforms(a, answer) \/ ProviderDeclines(a, answer)
        /\ Step(l, "record", answer)
        /\ UNCHANGED <<attempt, delivery, saved, call, overtaken, task>>
  BY <1>2 DEF DispatchSends, Step, dispatchFrame, deliveryVars, campaignVars
<1>4. /\ out' = out
      /\ reached[a] > 0 => reached'[a] > 0
      /\ answer = "succeeded" => reached'[a] > 0
      /\ \A b \in Attempts : b # a => reached'[b] = reached[b]
  <2>1. reached \in [Effects -> 0..2]  BY DEF SendInv, OutboundTypeOK
  <2>2. CASE ProviderPerforms(a, answer)
    <3>1. reached' = [reached EXCEPT ![a] = IF @ < 2 THEN @ + 1 ELSE @] /\ out' = out
      BY <2>2 DEF ProviderPerforms
    <3>2. reached'[a] > 0  BY <1>2, <2>1, <3>1
    <3> QED BY <1>2, <2>1, <3>1, <3>2, AttemptTasks
  <2>3. CASE ProviderDeclines(a, answer)  BY <2>3 DEF ProviderDeclines
  <2> QED BY <1>3, <2>2, <2>3
<1>5. /\ UNCHANGED <<InHand(a), OnFile(a), Started(a), Told(a)>>
      /\ \A b \in Attempts : Filing(b)' = Filing(b)
  BY <1>3 DEF InHand, OnFile, Started, Told, Filing
<1>6. Started(a)  BY <1>2, DispatchNames DEF LaneTells
<1>7. CallInv(a)'  BY <1>2, <1>3, <1>4, <1>5, <1>6 DEF CallInv
<1>8. AttemptKeeps(a)  BY <1>3, <1>4, <1>5 DEF AttemptKeeps
<1>9. PICK held : held = lane[l].holds  OBVIOUS
<1>10. LaneTells(a, "record", answer, held)'
  BY <1>2, <1>3, <1>4, <1>5, <1>9, DispatchNames DEF LaneTells, Unsaved
<1>11. LaneStory(l)'  BY <1>2, <1>3, <1>9, <1>10, MovedLaneTells DEF SendInv
<1> QED BY <1>2, <1>3, <1>4, <1>5, <1>7, <1>8, <1>11 DEF EffectOf

LEMMA RecordsRecords ==
  ASSUME SendInv, RecordTypes, RecordInv, NEW l \in Lanes, DispatchRecords(l)
  PROVE  \E a \in Attempts : EffectOf(l, a)
<1>1. At(l, "record")  BY DEF DispatchRecords
<1>2. PICK a \in Attempts : /\ a \in Effects /\ a = lane[l].job /\ a = Job(l)
                            /\ CallInv(a) /\ LaneTells(a, "record", lane[l].res, lane[l].holds)
  BY <1>1, DispatchNames, DispatchingLane DEF SendInv
<1>3. /\ Step(l, IF out'[a] = "retryable" THEN "retry" ELSE "project", out'[a])
      /\ RecordOutcome(a, lane[l].res) /\ reached' = reached
      /\ UNCHANGED <<attempt, delivery, saved, call, overtaken, task>>
  BY <1>2 DEF DispatchRecords, RecordOutcome, GotoWith, Step, dispatchFrame, deliveryVars,
              campaignVars
<1>4. /\ out'[a] = IF out[a] = "in_flight" THEN lane[l].res ELSE out[a]
      /\ \A b \in Attempts : b # a => out'[b] = out[b]
  BY <1>2, <1>3 DEF SendInv, OutboundTypeOK, RecordOutcome
<1>5. /\ UNCHANGED <<InHand(a), OnFile(a), Started(a), Told(a)>>
      /\ \A b \in Attempts : Filing(b)' = Filing(b)
  BY <1>3 DEF InHand, OnFile, Started, Told, Filing
<1>6. out'[a] = "succeeded" => reached[a] > 0  BY <1>2, <1>4, DispatchNames DEF CallInv, LaneTells
<1>7. CallInv(a)'  BY <1>2, <1>3, <1>4, <1>5, <1>6 DEF CallInv
<1>8. AttemptKeeps(a)  BY <1>3, <1>4, <1>5 DEF AttemptKeeps
<1>9. PICK held, res, pc : /\ held = lane[l].holds /\ res = out'[a]
                           /\ pc = IF out'[a] = "retryable" THEN "retry" ELSE "project"
  OBVIOUS
<1>10. LaneTells(a, pc, res, held)'
  <2>1. pc \in {"retry", "project"}  BY <1>9
  <2>2. held => saved[a] = "none"  BY <1>2, <1>9 DEF LaneTells, Unsaved
  <2>3. overtaken = {} /\ held => InHand(a)  BY <1>2, <1>9, DispatchNames DEF LaneTells
  <2>4. OnFile(a) /\ Started(a)  BY <1>2, DispatchNames DEF LaneTells
  <2> QED BY <1>3, <1>5, <1>6, <1>9, <2>1, <2>2, <2>3, <2>4, DispatchNames DEF LaneTells
<1>11. LaneStory(l)'
  BY <1>2, <1>3, <1>9, <1>10, MovedLaneTells DEF SendInv
<1> QED BY <1>2, <1>3, <1>4, <1>5, <1>7, <1>8, <1>11 DEF EffectOf

LEMMA ProjectsRecords ==
  ASSUME SendInv, DeliveryInv, RecordTypes, RecordInv, NEW l \in Lanes, DispatchProjects(l)
  PROVE  \E a \in Attempts : EffectOf(l, a)
<1>1. At(l, "project")  BY DEF DispatchProjects
<1>2. PICK a \in Attempts : /\ a \in Effects /\ a = lane[l].job /\ a = Job(l)
                            /\ CallInv(a) /\ LaneTells(a, "project", lane[l].res, lane[l].holds)
  BY <1>1, DispatchNames, DispatchingLane DEF SendInv
<1>3. PICK res, held : res = lane[l].res /\ held = lane[l].holds  OBVIOUS
<1>4. /\ Step(l, "save", res)
      /\ call' = [call EXCEPT ![a] = CASE res = "succeeded" /\ @ = "intent" -> "bound"
                                       [] res = "terminal" -> "rejected"
                                       [] OTHER -> @]
      /\ delivery' = IF res = "terminal" THEN Filed(Ended(a)) ELSE delivery
      /\ UNCHANGED <<attempt, saved, out, reached, overtaken, task>>
  BY <1>2, <1>3 DEF DispatchProjects, GotoWith, Step, outVars, campaignVars
<1>5. /\ \A b \in Attempts : b # a => call'[b] = call[b]
      /\ \/ call'[a] = call[a]
         \/ call[a] = "intent" /\ call'[a] = "bound"
         \/ res = "terminal" /\ call'[a] = "rejected"
      /\ res = "terminal" => call'[a] = "rejected"
  BY <1>2, <1>4 DEF RecordTypes
<1>6. /\ res # "terminal" => Filing(a)' = Filing(a)
      /\ res = "terminal" => Filing(a)' = IF Filing(a) = "none" THEN "pending" ELSE Filing(a)
      /\ \A b \in Attempts : b # a => Filing(b)' = Filing(b)
  <2>1. delivery \in [Deliveries -> DeliveryKind]  BY DEF DeliveryInv
  <2>2. \A b \in Attempts : Ended(b) \in Deliveries /\ (b # a => Ended(b) # Ended(a))
    BY AttemptTasks
  <2> QED BY <1>4, <2>1, <2>2 DEF Filing, Filed, DeliveryKind
<1>7. UNCHANGED <<InHand(a), OnFile(a), Started(a), Told(a)>>
  BY <1>4 DEF InHand, OnFile, Started, Told
<1>8. Started(a) /\ (res = "terminal" => out[a] = "terminal")
  BY <1>2, <1>3, DispatchNames DEF LaneTells
<1>9. CallInv(a)'
  <2>1. CASE res = "terminal"
    <3>1. Filing(a)' # "none" /\ (Filing(a)' = "succeeded" <=> Filing(a) = "succeeded")
      BY <1>6, <2>1
    <3> QED BY <1>2, <1>4, <1>5, <1>7, <1>8, <2>1, <3>1, AttemptNames DEF CallInv
  <2>2. CASE res # "terminal"
    <3>1. /\ Filing(a)' = Filing(a) /\ (call'[a] \in EndedCall <=> call[a] \in EndedCall)
          /\ call'[a] \in {"connected", "missed"} => call[a] \in {"connected", "missed"}
          /\ call'[a] = "rejected" => call[a] = "rejected"
      BY <1>5, <1>6, <2>2, AttemptNames
    <3> QED BY <1>2, <1>4, <1>7, <3>1 DEF CallInv
  <2> QED BY <2>1, <2>2
<1>10. AttemptKeeps(a)  BY <1>4, <1>7 DEF AttemptKeeps
<1>11. LaneTells(a, "save", res, held)'
  BY <1>2, <1>3, <1>4, <1>7, <1>8, DispatchNames DEF LaneTells, Unsaved
<1>12. LaneStory(l)'  BY <1>2, <1>3, <1>4, <1>11, MovedLaneTells DEF SendInv
<1> QED BY <1>2, <1>4, <1>5, <1>6, <1>9, <1>10, <1>12 DEF EffectOf

LEMMA SavesRecords ==
  ASSUME SendInv, RecordTypes, RecordInv, NEW l \in Lanes, DispatchSaves(l)
  PROVE  \E a \in Attempts : EffectOf(l, a)
<1>1. At(l, "save") /\ lane[l].holds  BY DEF DispatchSaves
<1>2. PICK a \in Attempts : /\ a \in Effects /\ a = lane[l].job /\ a = Job(l)
                            /\ CallInv(a) /\ LaneTells(a, "save", lane[l].res, lane[l].holds)
  BY <1>1, DispatchNames, DispatchingLane DEF SendInv
<1>3. PICK res, held, pc : res = lane[l].res /\ held = lane[l].holds /\ pc = Outcome(res)
  OBVIOUS
<1>4. /\ Step(l, pc, "none") /\ saved' = [saved EXCEPT ![a] = res]
      /\ UNCHANGED <<attempt, delivery, call, out, reached, overtaken, task>>
  BY <1>2, <1>3 DEF DispatchSaves, Goto, Step, dispatchFrame, deliveryVars, outVars, campaignVars
<1>5. saved'[a] = res /\ \A b \in Attempts : b # a => saved'[b] = saved[b]
  BY <1>2, <1>4 DEF RecordTypes
<1>6. /\ UNCHANGED <<InHand(a), OnFile(a), Started(a), Told(a)>>
      /\ \A b \in Attempts : Filing(b)' = Filing(b)
  BY <1>4 DEF InHand, OnFile, Started, Told, Filing
<1>7. /\ saved[a] = "none" /\ (overtaken = {} => InHand(a)) /\ OnFile(a)
      /\ res = "succeeded" => reached[a] > 0
  BY <1>1, <1>2, <1>3, DispatchNames DEF LaneTells, Unsaved
<1>8. CallInv(a)'  BY <1>2, <1>4, <1>5, <1>6, <1>7 DEF CallInv
<1>9. AttemptKeeps(a)  BY <1>4, <1>5, <1>6, <1>7 DEF AttemptKeeps
<1>10. pc \in {"complete", "reject", "unknown"} /\ (pc = "complete" => res = "succeeded")
  BY <1>3 DEF Outcome
<1>11. LaneTells(a, pc, "none", held)'
  BY <1>5, <1>6, <1>7, <1>10, DispatchNames DEF LaneTells, Unsaved
<1>12. LaneStory(l)'  BY <1>2, <1>3, <1>4, <1>11, MovedLaneTells DEF SendInv
<1> QED BY <1>1, <1>2, <1>4, <1>5, <1>6, <1>8, <1>9, <1>12 DEF EffectOf

LEMMA InterruptionRecords ==
  ASSUME SendInv, PoolInv, RecordTypes, RecordInv, NEW l \in Lanes, SendInterrupted(l)
  PROVE  \E a \in Attempts : EffectOf(l, a)
<1>1. PICK pc \in {"send", "record"} : At(l, pc)  BY DEF SendInterrupted
<1>2. PICK a \in Attempts : /\ a \in Effects /\ a = lane[l].job /\ a = Job(l)
                            /\ CallInv(a) /\ LaneTells(a, pc, lane[l].res, lane[l].holds)
  BY <1>1, DispatchNames, DispatchingLane DEF SendInv
<1>3. /\ GivesBack(l) /\ out' = Recovered(a)
      /\ UNCHANGED <<attempt, delivery, saved, call, reached, overtaken>>
  BY <1>2 DEF SendInterrupted, Raises, deliveryVars, campaignVars
<1>4. /\ out'[a] = IF out[a] = "in_flight" THEN "unknown" ELSE out[a]
      /\ \A b \in Attempts : b # a => out'[b] = out[b]
  BY <1>2, <1>3 DEF SendInv, OutboundTypeOK, Recovered
<1>5. /\ UNCHANGED <<InHand(a), OnFile(a), Started(a), Told(a)>>
      /\ \A b \in Attempts : Filing(b)' = Filing(b)
  BY <1>3 DEF InHand, OnFile, Started, Told, Filing
<1>6. out'[a] = "succeeded" <=> out[a] = "succeeded"  BY <1>4
<1>7. task'[a].state # "none" => task[a].state # "none"
  BY <1>3, AttemptTasks, TasksStayUnspawned
<1>8. CallInv(a)'  BY <1>2, <1>3, <1>4, <1>5, <1>6, <1>7 DEF CallInv
<1>9. AttemptKeeps(a)  BY <1>3, <1>4, <1>5 DEF AttemptKeeps
<1>10. LaneStory(l)'  BY <1>3, IdleLaneTells DEF SendInv, GivesBack
<1> QED BY <1>2, <1>3, <1>4, <1>5, <1>8, <1>9, <1>10 DEF EffectOf

LEMMA AttemptStepRecords ==
  ASSUME SendInv, DeliveryInv, PoolInv, RecordTypes, RecordInv, NEW l \in Lanes, HandlerStep(l)
  PROVE  RecordInv'
<1>1. LaneOK /\ OutboundTypeOK  BY DEF SendInv
<1>2. CASE RowStep(l)
  BY <1>2, HandlerSteps, RowStepRecords, RowStepLane DEF RecordInv
<1>3. CASE EffectStep(l)
  <2>1. PICK a \in Attempts : EffectOf(l, a)
    BY <1>3, AuthorizedRecords, RecoversRecords, SendsRecords, RecordsRecords, ProjectsRecords,
       SavesRecords, InterruptionRecords
    DEF EffectStep
  <2>2. AttemptGoes(l)  BY <1>1, AttemptStepGoes DEF RecordTypes
  <2>3. UNCHANGED <<attempt, overtaken>>  BY <1>3, HandlerSteps
  <2> QED BY <1>1, <2>1, <2>2, <2>3, EffectRecords DEF EffectOf
<1> QED BY <1>2, <1>3 DEF HandlerStep

(* The other steps: they leave the effects, the calls and the checkpoints, *)
(* take nothing back, and the lanes are what they were, give up, or claim. *)
KeepsCalls ==
  /\ UNCHANGED <<out, reached, saved, call>>
  /\ RowsMove
  /\ \A a \in Attempts :
       /\ Filing(a)' = "none" <=> Filing(a) = "none"
       /\ \/ Told(a)' /\ Filing(a)' = "succeeded"
          \/ (Told(a)' <=> Told(a)) /\ (Filing(a)' = "succeeded" <=> Filing(a) = "succeeded")
       /\ task'[a].state # "none" => task[a].state # "none"
       /\ Started(a)' => Started(a)
       /\ InHand(a) => InHand(a)'

LanesKeep ==
  \A k \in Lanes :
    \/ lane'[k].job \in Attempts => LaneStory(k)'
    \/ /\ lane'[k].pc = lane[k].pc /\ lane'[k].job = lane[k].job /\ lane'[k].res = lane[k].res
       /\ lane'[k].holds => lane[k].holds

LEMMA FrameRecords ==
  ASSUME RecordInv, KeepsCalls, LanesKeep, overtaken' = {} => overtaken = {}
  PROVE  RecordInv'
<1>1. ASSUME NEW a \in Attempts PROVE CallInv(a)'
  BY <1>1, CallStays DEF RecordInv, KeepsCalls, RowsMove
<1>2. ASSUME NEW a \in Attempts PROVE AttemptKeeps(a) /\ HolderKeeps(a)
  BY DEF KeepsCalls, RowsMove, RowMoves, AttemptKeeps, HolderKeeps, OnFile, Started
<1>3. ASSUME NEW k \in Lanes PROVE LaneStory(k)'
  <2>1. CASE lane'[k].job \in Attempts => LaneStory(k)'  BY <2>1 DEF LaneStory
  <2>2. CASE /\ lane'[k].pc = lane[k].pc /\ lane'[k].job = lane[k].job /\ lane'[k].res = lane[k].res
             /\ lane'[k].holds => lane[k].holds
    BY <1>2, <2>2, LaneStays DEF RecordInv
  <2> QED BY <2>1, <2>2 DEF LanesKeep
<1> QED BY <1>1, <1>3 DEF RecordInv

LEMMA RowsUntouched ==
  ASSUME RecordTypes, UNCHANGED attempt
  PROVE  RowsMove /\ \A a \in Attempts : /\ Told(a)' <=> Told(a)
                                         /\ Started(a)' <=> Started(a)
                                         /\ InHand(a)' <=> InHand(a)
BY NoRowMoves DEF RecordTypes, Told, Started, InHand

(* What the outbox makes of a row that is there.                           *)
LEMMA FilingMoves ==
  ASSUME DeliveryInv, LaneOK, NEW l \in Lanes,
         BeginDelivery(l) \/ RecordFailure(l) \/ UNCHANGED delivery
  PROVE  \A a \in Attempts : /\ Filing(a)' = "none" <=> Filing(a) = "none"
                             /\ Filing(a)' = "succeeded" <=> Filing(a) = "succeeded"
<1>1. delivery \in [Deliveries -> DeliveryKind] /\ \A a \in Attempts : Ended(a) \in Deliveries
  BY AttemptTasks DEF DeliveryInv
<1>2. \A d \in Deliveries : /\ delivery'[d].state = "none" <=> delivery[d].state = "none"
                            /\ delivery'[d].state = "succeeded" <=> delivery[d].state = "succeeded"
  <2>1. CASE UNCHANGED delivery  BY <2>1
  <2>2. CASE BeginDelivery(l)
    <3>1. PICK d \in Deliveries : d = Job(l)
      BY <2>2, AttemptPCs DEF LaneOK, BeginDelivery, At, Job
    <3>2. PICK s \in {"running", "dead_letter"} : \E n :
            delivery' = [delivery EXCEPT ![d].state = s, ![d].attempts = n]
      BY <2>2, <3>1 DEF BeginDelivery
    <3>3. delivery[d].state \in {"pending", "running"}  BY <2>2, <3>1 DEF BeginDelivery
    <3> QED BY <1>1, <3>2, <3>3 DEF DeliveryKind
  <2>3. CASE RecordFailure(l)
    <3>1. PICK d \in Deliveries : d = Job(l)
      BY <2>3, AttemptPCs DEF LaneOK, RecordFailure, At, Job
    <3>2. PICK s : /\ delivery' = [delivery EXCEPT ![d].state = s]
                   /\ s = delivery[d].state \/ (delivery[d].state = "running" /\ s = "dead_letter")
      BY <2>3, <3>1 DEF RecordFailure
    <3> QED BY <1>1, <3>2 DEF DeliveryKind
  <2> QED BY <2>1, <2>2, <2>3
<1> QED BY <1>1, <1>2 DEF Filing

LEMMA DeliveryLanesKeep ==
  ASSUME LaneOK, NEW l \in Lanes, DeliveryGoes(l), lane[l].job \notin Attempts
  PROVE  LanesKeep
<1>1. \A k \in Lanes : k # l => lane'[k] = lane[k]  BY GoingLanes
<1>2. lane'[l].job = lane[l].job \/ lane'[l].job = NoTask
  BY StepLane DEF DeliveryGoes, Returns, GivesBack, LaneOK, Idle
<1> QED BY <1>1, <1>2, AttemptTasks DEF LanesKeep

LEMMA DeliveryStepRecords ==
  ASSUME SendInv, DeliveryInv, PoolInv, RecordTypes, RecordInv, NEW l \in Lanes, DeliveryStep(l)
  PROVE  RecordInv'
<1>1. LaneOK  BY DEF SendInv
<1>2. lane[l].pc \in DeliverySteps /\ Job(l) \in Deliveries /\ DeliveryGoes(l)
  BY <1>1, DeliveryStepGoes
<1>3. LanesKeep  BY <1>1, <1>2, AttemptTasks, DeliveryLanesKeep DEF Job
<1>4. \A a \in Attempts : task'[a].state # "none" => task[a].state # "none"
  BY <1>2, AttemptTasks, AttemptTasksStayUnspawned
<1>5. CASE ConsumeOutcome(l)
  <2>1. PICK a \in Attempts : /\ Job(l) = Ended(a) /\ Consume(l) /\ ApplyOutcome(a)
                              /\ UNCHANGED <<out, reached, saved, call>>
    BY <1>5 DEF ConsumeOutcome, outVars
  <2>2. /\ attempt' = [attempt EXCEPT ![a].outcome = TRUE]
        /\ overtaken' = {} => overtaken = {}
    BY <2>1 DEF ApplyOutcome
  <2>3. /\ delivery[Ended(a)].state = "running"
        /\ delivery' = [delivery EXCEPT ![Ended(a)].state = "succeeded"]
    BY <2>1 DEF Consume, Consumable
  <2>4. delivery \in [Deliveries -> DeliveryKind] /\ \A b \in Attempts : Ended(b) \in Deliveries
    BY AttemptTasks DEF DeliveryInv
  <2>5. /\ Filing(a) = "running" /\ Filing(a)' = "succeeded"
        /\ \A b \in Attempts : b # a => Filing(b)' = Filing(b)
    BY <2>3, <2>4, AttemptTasks DEF Filing, DeliveryKind
  <2>6. PICK r : r = [attempt[a] EXCEPT !.outcome = TRUE]  OBVIOUS
  <2>7. /\ r \in AttemptKind /\ RowMoves(attempt[a], r)
        /\ r.outcome = TRUE /\ r.state = attempt[a].state /\ r.started = attempt[a].started
    BY <2>6 DEF RecordTypes, AttemptKind, RowMoves
  <2>8. RowsMove /\ attempt'[a] = r /\ \A b \in Attempts : b # a => attempt'[b] = attempt[b]
    BY <2>2, <2>6, <2>7, OneRowMoves DEF RecordTypes
  <2>9. /\ Told(a)'
        /\ \A b \in Attempts : /\ b # a => (Told(b)' <=> Told(b))
                               /\ Started(b)' <=> Started(b)
                               /\ InHand(b)' <=> InHand(b)
    BY <2>7, <2>8 DEF Told, Started, InHand
  <2>10. KeepsCalls  BY <1>4, <2>1, <2>5, <2>8, <2>9 DEF KeepsCalls
  <2> QED BY <1>3, <2>2, <2>10, FrameRecords
<1>6. CASE ~ConsumeOutcome(l)
  <2>1. /\ UNCHANGED <<out, reached, saved, call, attempt, overtaken>>
        /\ BeginDelivery(l) \/ RecordFailure(l) \/ UNCHANGED delivery
    BY <1>6 DEF DeliveryStep, campaignFrame, outVars, campaignVars, deliveryVars,
        BeginSettledDelivery, BeginUnboundDelivery, ConsumeAgain, ConsumeConflicts, ConsumeFails,
        ConsumeRejects, DeliveryStopped
  <2>2. KeepsCalls
    BY <1>1, <1>4, <2>1, FilingMoves, RowsUntouched DEF KeepsCalls
  <2> QED BY <1>3, <2>1, <2>2, FrameRecords
<1> QED BY <1>5, <1>6

LEMMA ClaimRecords ==
  ASSUME SendInv, DeliveryInv, PoolInv, RecordTypes, RecordInv, NEW l \in Lanes, ClaimSome(l)
  PROVE  RecordInv'
<1>1. LaneOK /\ UNCHANGED <<out, reached, saved, call, attempt, overtaken, delivery>>
  BY DEF SendInv, ClaimSome, ClaimAttempt, ClaimDelivery, campaignFrame, outVars, campaignVars,
         deliveryVars
<1>2. PICK t, first : /\ Claim(l, t, first)
                      /\ (t \in Attempts /\ first = "prepare") \/ t \in Deliveries
  BY DEF ClaimSome, ClaimAttempt, ClaimDelivery
<1>3. /\ lane'[l].pc = first /\ lane'[l].job = t
      /\ \A k \in Lanes : k # l => lane'[k] = lane[k]
  BY <1>1, <1>2 DEF Claim, LaneOK
<1>4. \A a \in Attempts : task'[a].state # "none" => task[a].state # "none"
  BY <1>2, AttemptTasks, TasksStayUnspawned
<1>5. ASSUME t \in Attempts PROVE LaneStory(l)'
  <2>1. OnFile(t)  BY <1>2, <1>5 DEF RecordInv, CallInv, Claim
  <2>2. OnFile(t)' /\ first = "prepare"
    BY <1>1, <1>2, <1>5, <2>1, AttemptTasks DEF OnFile
  <2> QED BY <1>3, <2>2, DispatchNames DEF LaneStory, LaneTells, Unsaved, OnFile
<1>6. LanesKeep  BY <1>2, <1>3, <1>5, AttemptTasks DEF LanesKeep
<1>7. KeepsCalls  BY <1>1, <1>4, RowsUntouched DEF KeepsCalls, Filing
<1> QED BY <1>1, <1>6, <1>7, FrameRecords

LEMMA CarrierRecords ==
  ASSUME SendInv, DeliveryInv, PoolInv, RecordTypes, RecordInv, NEW a \in Attempts, Carrier(a)
  PROVE  RecordInv'
<1>1. /\ Ringing(a) /\ reached[a] > 0 /\ call[a] \notin EndedCall
      /\ UNCHANGED <<task, lane, attempt, saved, reached, overtaken>>
  BY DEF Carrier, CallbackReconciles, CallbackBinds, CallEnds, Ringing, pool, campaignVars,
         outVars, Reconcile
<1>2. /\ CallInv(a) /\ Filing(a) = "none" /\ call[a] # "rejected" /\ Started(a) /\ ~Told(a)
      /\ delivery \in [Deliveries -> DeliveryKind]
      /\ \A b \in Attempts : Ended(b) \in Deliveries /\ (b # a => Ended(b) # Ended(a))
  BY <1>1, AttemptNames, AttemptTasks DEF RecordInv, CallInv, DeliveryInv
<1>3. /\ RowsMove
      /\ \A b \in Attempts : /\ Told(b)' <=> Told(b)
                             /\ Started(b)' <=> Started(b)
                             /\ InHand(b)' <=> InHand(b)
                             /\ OnFile(b)' <=> OnFile(b)
  BY <1>1, RowsUntouched DEF OnFile
<1>4. /\ out'[a] = out[a] \/ (out'[a] = "succeeded" /\ out[a] \notin {"terminal"})
      /\ call'[a] \in {call[a], "bound"} => Filing(a)' = "none"
      /\ call'[a] \notin {call[a], "bound"} => call'[a] \in {"connected", "missed"} /\ Filing(a)' = "pending"
      /\ \A b \in Attempts : b # a =>
           out'[b] = out[b] /\ call'[b] = call[b] /\ Filing(b)' = Filing(b)
  <2>1. CASE CallbackReconciles(a)
    <3>1. /\ out' = [out EXCEPT ![a] = "succeeded"] /\ out[a] \in {"in_flight", "unknown"}
          /\ UNCHANGED <<delivery, call>>
      BY <2>1 DEF CallbackReconciles, Reconcile, deliveryVars
    <3> QED BY <1>2, <3>1, AttemptTasks DEF SendInv, OutboundTypeOK, Filing
  <2>2. CASE CallbackBinds(a)
    BY <1>2, <2>2 DEF CallbackBinds, RecordTypes, Filing, deliveryVars, outVars
  <2>3. CASE CallEnds(a)
    <3>1. PICK end \in {"connected", "missed"} :
            /\ call' = [call EXCEPT ![a] = end] /\ call[a] = "bound" /\ out' = out
            /\ delivery' = Filed(Ended(a))
      BY <2>3 DEF CallEnds, outVars
    <3>2. Filing(a)' = "pending" /\ \A b \in Attempts : b # a => Filing(b)' = Filing(b)
      BY <1>2, <3>1 DEF Filing, Filed, DeliveryKind
    <3> QED BY <3>1, <3>2 DEF RecordTypes
  <2> QED BY <2>1, <2>2, <2>3 DEF Carrier
<1>5. ASSUME NEW b \in Attempts PROVE CallInv(b)'
  <2>1. CASE b # a
    BY <1>1, <1>3, <1>4, <2>1, CallStays DEF RecordInv, RowsMove
  <2>2. CASE b = a
    <3>1. CallInv(a)'
      BY <1>1, <1>2, <1>3, <1>4, AttemptNames DEF CallInv
    <3> QED BY <2>2, <3>1
  <2> QED BY <2>1, <2>2
<1>6. ASSUME NEW b \in Attempts PROVE AttemptKeeps(b) /\ HolderKeeps(b)
  <2>1. out[b] = "terminal" => out'[b] = "terminal"  BY <1>4
  <2> QED BY <1>1, <1>3, <2>1 DEF AttemptKeeps, HolderKeeps
<1>7. ASSUME NEW k \in Lanes PROVE LaneStory(k)'
  BY <1>1, <1>6, LaneStays DEF RecordInv
<1> QED BY <1>5, <1>7 DEF RecordInv

LEMMA FilingRecords ==
  ASSUME SendInv, DeliveryInv, PoolInv, RecordTypes, RecordInv, FileDueAttempts
  PROVE  /\ RecordInv' /\ attempt' \in [Attempts -> AttemptKind]
         /\ \A a \in Attempts : attempt'[a].attempts = attempt[a].attempts
<1>1. PICK filed :
        /\ \A a \in filed : Fileable(a)
        /\ attempt' = [a \in Attempts |->
             IF a \in filed THEN [attempt[a] EXCEPT !.state = "pending"] ELSE attempt[a]]
        /\ task' = [t \in Tasks |->
             IF t \in filed THEN [task[t] EXCEPT !.state = "ready"] ELSE task[t]]
        /\ UNCHANGED <<lane, delivery, out, reached, saved, call, overtaken>>
  BY DEF FileDueAttempts, deliveryVars, outVars
<1>2. \A a \in Attempts : attempt[a] \in AttemptKind  BY DEF RecordTypes
<1>3. ASSUME NEW a \in Attempts
      PROVE  /\ attempt'[a] \in AttemptKind
             /\ attempt'[a].started = attempt[a].started
             /\ attempt'[a].outcome = attempt[a].outcome
             /\ attempt'[a].attempts = attempt[a].attempts
             /\ a \in filed => attempt[a].state = "none" /\ attempt'[a].state = "pending"
             /\ a \notin filed => attempt'[a].state = attempt[a].state
             /\ a \notin filed => task'[a].state = task[a].state
  BY <1>1, <1>2, AttemptNames, AttemptTasks DEF Fileable, AttemptKind
<1>4. ASSUME NEW a \in Attempts
      PROVE  /\ Told(a)' <=> Told(a)
             /\ Started(a)' <=> Started(a)
             /\ InHand(a)' <=> InHand(a)
             /\ OnFile(a) => OnFile(a)'
             /\ a \in filed => OnFile(a)'
             /\ Filing(a)' = Filing(a)
  <2>1. (Told(a)' <=> Told(a)) /\ (Started(a)' <=> Started(a))
    BY <1>3 DEF Told, Started
  <2>2. CASE a \in filed
    <3>1. attempt[a].state = "none" /\ attempt'[a].state = "pending"  BY <1>3, <2>2
    <3> QED BY <1>1, <2>1, <3>1 DEF InHand, OnFile, Filing
  <2>3. CASE a \notin filed
    <3>1. attempt'[a].state = attempt[a].state  BY <1>3, <2>3
    <3> QED BY <1>1, <2>1, <2>3, <3>1 DEF InHand, OnFile, Filing
  <2> QED BY <2>2, <2>3
<1>5. ASSUME NEW a \in Attempts PROVE CallInv(a)'
  <2>1. CallInv(a)  BY DEF RecordInv
  <2>2. (Started(a) \/ Told(a) \/ task[a].state # "none" => OnFile(a))'
    BY <1>3, <1>4, <2>1 DEF CallInv
  <2> QED BY <1>1, <1>4, <2>1, <2>2 DEF CallInv
<1>6. ASSUME NEW b \in Attempts PROVE AttemptKeeps(b) /\ HolderKeeps(b)
  BY <1>1, <1>4 DEF AttemptKeeps, HolderKeeps
<1>7. ASSUME NEW k \in Lanes PROVE LaneStory(k)'
  BY <1>1, <1>6, LaneStays DEF RecordInv
<1>8. attempt' \in [Attempts -> AttemptKind]  BY <1>1, <1>3
<1> QED BY <1>3, <1>5, <1>7, <1>8 DEF RecordInv

LEMMA FenceMovesRows ==
  ASSUME RecordTypes, NEW fenced,
         \A a \in fenced : OnFile(a),
         attempt' = [a \in Attempts |->
           IF a \in fenced THEN [attempt[a] EXCEPT !.state = "cancelled"] ELSE attempt[a]]
  PROVE  RowsMove /\ \A a \in Attempts : /\ Told(a)' <=> Told(a)
                                         /\ Started(a)' <=> Started(a)
                                         /\ InHand(a) => InHand(a)'
                                         /\ a \in fenced => ~Open(a)'
                                         /\ attempt'[a].attempts = attempt[a].attempts
<1>1. ASSUME NEW a \in Attempts
      PROVE  /\ attempt'[a] \in AttemptKind
             /\ attempt'[a].started = attempt[a].started
             /\ attempt'[a].outcome = attempt[a].outcome
             /\ attempt'[a].attempts = attempt[a].attempts
             /\ a \in fenced => attempt'[a].state = "cancelled"
             /\ a \notin fenced => attempt'[a].state = attempt[a].state
  BY AttemptNames DEF RecordTypes, AttemptKind
<1>2. attempt' \in [Attempts -> AttemptKind]  BY <1>1
<1> QED BY <1>1, <1>2 DEF RowsMove, RowMoves, OnFile, Told, Started, InHand, Open

LEMMA OperatorMovesRows ==
  ASSUME RecordTypes, ControlStep
  PROVE  RowsMove /\ \A a \in Attempts : /\ Told(a)' <=> Told(a)
                                         /\ Started(a)' <=> Started(a)
                                         /\ InHand(a) => InHand(a)'
                                         /\ attempt'[a].attempts = attempt[a].attempts
<1>1. CASE Transition \/ Revoke
  <2>1. PICK fenced : /\ \A a \in fenced : attempt[a].state = "pending"
                      /\ attempt' = [a \in Attempts |-> IF a \in fenced
                           THEN [attempt[a] EXCEPT !.state = "cancelled"] ELSE attempt[a]]
    BY <1>1 DEF Transition, Revoke, Fence
  <2> QED BY <2>1, FenceMovesRows DEF OnFile
<1>2. CASE Ask \/ Resume \/ \E c \in Contacts : RequestDeletion(c) \/ QuiesceReads(c)
  BY <1>2, RowsUntouched DEF Ask, Resume, RequestDeletion, QuiesceReads, campaignVars
<1>3. ASSUME NEW c \in Contacts, QuiesceContact(c)
      PROVE  RowsMove /\ \A a \in Attempts : /\ Told(a)' <=> Told(a)
                                             /\ Started(a)' <=> Started(a)
                                             /\ InHand(a) => InHand(a)'
                                             /\ attempt'[a].attempts = attempt[a].attempts
  <2>1. CASE UNCHANGED attempt  BY <2>1, RowsUntouched
  <2>2. CASE attempt' # attempt
    <3>1. attempt' = [a \in Attempts |-> IF a \in scope[c].unstarted
                       THEN [attempt[a] EXCEPT !.state = "cancelled"] ELSE attempt[a]]
      BY <1>3, <2>2 DEF QuiesceContact
    <3>2. \A a \in scope[c].unstarted : OnFile(a)  BY DEF RecordTypes, UnderwayInv
    <3> QED BY <3>1, <3>2, FenceMovesRows
  <2> QED BY <2>1, <2>2
<1> QED BY <1>1, <1>2, <1>3 DEF ControlStep

LEMMA OtherStepRecords ==
  ASSUME SendInv, DeliveryInv, PoolInv, RecordTypes, RecordInv,
         \/ UNCHANGED vars
         \/ FindNothingDue
         \/ \E l \in Lanes : LaneDies(l) \/ PrepareReads(l)
         \/ \E t \in Tasks : ClaimExpires(t)
         \/ \E d \in Deliveries : Nudge(d)
         \/ ControlStep
  PROVE  RecordInv' /\ RowsMove /\ \A a \in Attempts : attempt'[a].attempts = attempt[a].attempts
<1>0. LaneOK  BY DEF SendInv
<1>1. RowsMove /\ \A a \in Attempts : /\ Told(a)' <=> Told(a)
                                      /\ Started(a)' <=> Started(a)
                                      /\ InHand(a) => InHand(a)'
                                      /\ attempt'[a].attempts = attempt[a].attempts
  <2>1. CASE UNCHANGED attempt  BY <2>1, RowsUntouched
  <2>2. UNCHANGED attempt \/ ControlStep
    BY DEF vars, FindNothingDue, LaneDies, PrepareReads, ClaimExpires, Nudge, campaignFrame,
           campaignVars
  <2> QED BY <2>1, <2>2, OperatorMovesRows
<1>2. UNCHANGED <<out, reached, saved, call, overtaken>>
  BY ControlFrame
  DEF vars, FindNothingDue, LaneDies, PrepareReads, ClaimExpires, Nudge, controlFrame,
         campaignFrame, outVars
<1>3. \A a \in Attempts : Filing(a)' = Filing(a)
  <2>1. CASE UNCHANGED delivery  BY <2>1 DEF Filing
  <2>2. ASSUME NEW d \in Deliveries, BindDelivery(d)
        PROVE  \A a \in Attempts : Filing(a)' = Filing(a)
    BY <2>2, AttemptTasks DEF BindDelivery, Filing, DeliveryInv, DeliveryKind
  <2>3. UNCHANGED delivery \/ \E d \in Deliveries : BindDelivery(d)
    BY ControlFrame
    DEF vars, FindNothingDue, LaneDies, PrepareReads, ClaimExpires, Nudge, SpawnDelivery,
           controlFrame, deliveryVars
  <2> QED BY <2>1, <2>2, <2>3
<1>4. \A a \in Attempts : task'[a].state # "none" => task[a].state # "none"
  <2>1. ASSUME NEW d \in Deliveries, SpawnDelivery(d)
        PROVE  \A a \in Attempts : task'[a] = task[a]
    BY <2>1, AttemptTasks DEF SpawnDelivery, Spawned, PoolInv
  <2>2. \/ UNCHANGED task
        \/ \E l \in Lanes : Dies(l)
        \/ \E t \in Tasks : ClaimRunsOut(t)
        \/ \E d \in Deliveries : SpawnDelivery(d)
    BY ControlFrame
    DEF vars, pool, FindNothingDue, LaneDies, PrepareReads, ClaimExpires, Nudge, BindDelivery,
           controlFrame
  <2> QED BY <2>1, <2>2, AttemptTasks, TasksStayUnspawned
<1>5. LanesKeep
  <2>1. CASE UNCHANGED lane  BY <2>1 DEF LanesKeep
  <2>2. ASSUME NEW l \in Lanes, Dies(l) PROVE LanesKeep
    <3>1. lane' = [lane EXCEPT ![l] = Idle]  BY <2>2 DEF Dies
    <3> QED BY <1>0, <3>1, IdleLaneTells DEF LanesKeep
  <2>3. ASSUME NEW t \in Tasks, ClaimRunsOut(t) PROVE LanesKeep
    BY <1>0, <2>3 DEF ClaimRunsOut, LanesKeep, LaneOK, LaneRow
  <2>4. \/ UNCHANGED lane
        \/ \E l \in Lanes : Dies(l)
        \/ \E t \in Tasks : ClaimRunsOut(t)
    BY ControlFrame
    DEF vars, pool, FindNothingDue, LaneDies, PrepareReads, ClaimExpires, Nudge, SpawnDelivery,
           BindDelivery,
           controlFrame
  <2> QED BY <2>1, <2>2, <2>3, <2>4
<1>6. KeepsCalls  BY <1>1, <1>2, <1>3, <1>4 DEF KeepsCalls
<1> QED BY <1>1, <1>2, <1>5, <1>6, FrameRecords

LEMMA NextRecords ==
  SendInv /\ DeliveryInv /\ PoolInv /\ RecordTypes /\ RecordInv /\ [Next]_vars => RecordInv'
<1> SUFFICES ASSUME SendInv, DeliveryInv, PoolInv, RecordTypes, RecordInv, [Next]_vars
             PROVE  RecordInv'
  OBVIOUS
<1> QED
  BY NextSteps, OtherStepRecords, FilingRecords, ClaimRecords, CarrierRecords, AttemptStepRecords,
     DeliveryStepRecords

LEMMA InitRecords == Init => RecordInv
<1> SUFFICES ASSUME Init PROVE RecordInv  OBVIOUS
<1>1. ASSUME NEW a \in Attempts PROVE CallInv(a)
  BY AttemptTasks, AttemptNames
     DEF Init, PoolInit, DeliveryInit, OutboundInit, CallInv, OnFile, Started, Told, Filing, InHand
<1>2. ASSUME NEW l \in Lanes PROVE LaneStory(l)
  <2>1. lane[l].job = NoTask  BY DEF Init, PoolInit, Idle
  <2> QED BY <2>1, AttemptTasks DEF LaneStory
<1> QED BY <1>1, <1>2 DEF RecordInv

-----------------------------------------------------------------------------
(* The pool, and the attempts counted against it                           *)

TriesStay ==
  /\ PoolInv' /\ \A t \in Tasks : StaysFinished(t)
  /\ \A a \in Attempts : TriesCover(a)'

LEMMA SteadyTries ==
  ASSUME PoolInv, RecordTypes, NEW a \in Attempts, TriesCover(a),
         Steady(a, "prepare"), attempt'[a].attempts = attempt[a].attempts
  PROVE  TriesCover(a)'
<1>1. /\ a \in Tasks /\ task[a] \in TaskRow /\ attempt[a].attempts \in Nat
  BY AttemptTasks DEF PoolInv, RecordTypes, AttemptKind
<1> QED BY <1>1, CountStays DEF TriesCover, Steady

LEMMA AttemptStepTries ==
  ASSUME SendInv, PoolInv, TypeInv, RecordInv, NEW l \in Lanes, HandlerStep(l)
  PROVE  TriesStay /\ attempt' \in [Attempts -> AttemptKind]
<1>1. LaneOK /\ OutboundTypeOK /\ RecordTypes /\ \A a \in Attempts : TriesCover(a)
  BY DEF SendInv, TypeInv
<1>2. lane[l].pc \in AttemptSteps /\ AttemptGoes(l)
  BY <1>1, AttemptStepGoes DEF RecordTypes
<1>3. PICK a \in Attempts : a = Job(l)  BY <1>1, AttemptStepGoes DEF RecordTypes
<1>4. PoolKeeps /\ \A t \in Tasks : l \notin Starting(t, "prepare")'
  BY <1>1, <1>2, AttemptStepPool
<1>5. OnFile(a)  BY <1>3 DEF RecordInv, LaneStory, LaneTells, Job
<1>6. PICK r : HandlerRow(l, attempt[a], r) /\ attempt' = [attempt EXCEPT ![a] = r]
  BY <1>1, <1>3, <1>5, AttemptStepRow DEF OnFile
<1>7. /\ attempt'[a] = r /\ \A b \in Attempts : b # a => attempt'[b] = attempt[b]
      /\ attempt' \in [Attempts -> AttemptKind]
  BY <1>1, <1>6 DEF HandlerRow, RecordTypes
<1>8. /\ a \in Tasks /\ task[a] \in TaskRow /\ attempt[a].attempts \in Nat
      /\ Steady(a, "prepare") /\ l \notin Starting(a, "prepare")'
  BY <1>1, <1>4, AttemptTasks DEF PoolInv, RecordTypes, AttemptKind, PoolKeeps
<1>9. TriesCover(a)'
  <2>1. CASE r.attempts = attempt[a].attempts
    BY <1>1, <1>7, <1>8, <2>1, SteadyTries
  <2>2. CASE r.attempts = attempt[a].attempts + 1 /\ At(l, "prepare")
    <3>1. l \in Starting(a, "prepare")  BY <1>3, <2>2 DEF Starting, At, Job
    <3>2. (attempt[a].attempts + 1) + Cardinality(Starting(a, "prepare")') <= task'[a].tries
      BY <1>1, <1>8, <3>1, CountBegin DEF TriesCover, Steady
    <3> QED BY <1>7, <2>2, <3>2 DEF TriesCover
  <2> QED BY <1>6, <2>1, <2>2 DEF HandlerRow
<1>10. ASSUME NEW b \in Attempts, b # a PROVE TriesCover(b)'
  <2>1. Steady(b, "prepare")  BY <1>4, AttemptTasks DEF PoolKeeps
  <2> QED BY <1>1, <1>7, <1>10, <2>1, SteadyTries
<1> QED BY <1>4, <1>7, <1>9, <1>10 DEF TriesStay, PoolKeeps

LEMMA ClaimTries ==
  ASSUME SendInv, PoolInv, TypeInv, NEW l \in Lanes, ClaimSome(l)
  PROVE  TriesStay /\ UNCHANGED attempt
<1>1. lane \in [Lanes -> LaneRow(PCs, Results)]  BY DEF SendInv, LaneOK
<1>2. RecordTypes /\ UNCHANGED attempt
  BY DEF TypeInv, ClaimSome, ClaimAttempt, campaignFrame, campaignVars
<1>3. PICK t, first : /\ Claim(l, t, first) /\ t \in Tasks
                      /\ (first = "prepare" \/ (first = "begin" /\ t \in Deliveries))
  BY AttemptTasks DEF ClaimSome, ClaimAttempt, ClaimDelivery
<1>4. /\ PoolInv'
      /\ \A s \in Tasks : StaysFinished(s)
      /\ \A s \in Tasks : \A f : s # t \/ f # first => Starting(s, f)' \subseteq Starting(s, f)
      /\ \A s \in Tasks : s # t => task'[s] = task[s]
      /\ l \notin Starting(t, first)
      /\ Starting(t, first)' = Starting(t, first) \union {l}
      /\ task'[t].tries = task[t].tries + 1
  BY <1>1, <1>3, PoolClaims
<1>5. ASSUME NEW a \in Attempts PROVE TriesCover(a)'
  <2>1. /\ a \in Tasks /\ task[a] \in TaskRow /\ attempt[a].attempts \in Nat /\ TriesCover(a)
        /\ attempt'[a].attempts = attempt[a].attempts
    BY <1>2, AttemptTasks DEF PoolInv, RecordTypes, AttemptKind, TypeInv
  <2>2. CASE a = t
    <3>1. first = "prepare"  BY <1>3, <2>2, AttemptTasks
    <3> QED BY <1>4, <2>1, <2>2, <3>1, CountClaim DEF TriesCover
  <2>3. CASE a # t
    <3>1. Steady(a, "prepare")  BY <1>4, <2>1, <2>3 DEF Steady
    <3> QED BY <1>2, <2>1, <3>1, SteadyTries
  <2> QED BY <2>2, <2>3
<1> QED BY <1>2, <1>4, <1>5 DEF TriesStay

LEMMA OtherStepPool ==
  ASSUME SendInv, PoolInv,
         \/ UNCHANGED vars
         \/ FindNothingDue
         \/ \E l \in Lanes : LaneDies(l) \/ PrepareReads(l)
         \/ \E t \in Tasks : ClaimExpires(t)
         \/ \E d \in Deliveries : Nudge(d)
         \/ \E a \in Attempts : Carrier(a)
         \/ ControlStep
  PROVE  PoolKeeps
<1>1. lane \in [Lanes -> LaneRow(PCs, Results)]  BY DEF SendInv, LaneOK
<1>2. CASE UNCHANGED <<task, lane>>  BY <1>2, PoolStays DEF PoolKeeps
<1>3. ASSUME NEW l \in Lanes, Dies(l) PROVE PoolKeeps
  BY <1>1, <1>3, PoolEnds DEF PoolKeeps
<1>4. ASSUME NEW t \in Tasks, ClaimRunsOut(t) PROVE PoolKeeps
  BY <1>1, <1>4, PoolLoses DEF PoolKeeps
<1>5. ASSUME NEW d \in Deliveries, SpawnDelivery(d) PROVE PoolKeeps
  <2>1. lane' = lane /\ task' = [task EXCEPT ![d].state = "ready"] /\ task[d].state = "none"
    BY <1>5 DEF SpawnDelivery, Spawned
  <2>2. task \in [Tasks -> TaskRow] /\ d \in Tasks  BY AttemptTasks DEF PoolInv
  <2>3. task' = [t \in Tasks |-> task'[t]]  BY <2>1, <2>2
  <2>4. \A t \in Tasks : TaskStays(t) \/ TaskSpawned(t)
    BY <2>1, <2>2 DEF TaskStays, TaskSpawned
  <2> QED BY <2>1, <2>3, <2>4, PoolSpawns DEF PoolKeeps
<1>6. \/ UNCHANGED <<task, lane>>
      \/ \E l \in Lanes : Dies(l)
      \/ \E t \in Tasks : ClaimRunsOut(t)
      \/ \E d \in Deliveries : SpawnDelivery(d)
  BY ControlFrame
  DEF vars, pool, FindNothingDue, LaneDies, PrepareReads, ClaimExpires, Nudge, BindDelivery,
         Carrier,
         CallbackReconciles, CallbackBinds, CallEnds, controlFrame
<1> QED BY <1>2, <1>3, <1>4, <1>5, <1>6

LEMMA FilingPool ==
  ASSUME PoolInv, RecordInv, FileDueAttempts
  PROVE  PoolKeeps
<1>1. PICK filed :
        /\ \A a \in filed : Fileable(a)
        /\ task' = [t \in Tasks |->
             IF t \in filed THEN [task[t] EXCEPT !.state = "ready"] ELSE task[t]]
        /\ lane' = lane
  BY DEF FileDueAttempts
<1>2. \A a \in filed : task[a].state = "none"
  BY <1>1 DEF Fileable, RecordInv, CallInv, OnFile
<1>3. \A t \in Tasks : TaskStays(t) \/ TaskSpawned(t)
  BY <1>1, <1>2 DEF TaskStays, TaskSpawned
<1>4. task' = [t \in Tasks |-> task'[t]]  BY <1>1
<1> QED BY <1>1, <1>3, <1>4, PoolSpawns DEF PoolKeeps

LEMMA NextTries ==
  ASSUME SendInv, DeliveryInv, PoolInv, TypeInv, RecordInv, [Next]_vars
  PROVE  TriesStay /\ attempt' \in [Attempts -> AttemptKind]
<1>1. LaneOK /\ RecordTypes /\ \A a \in Attempts : TriesCover(a)  BY DEF SendInv, TypeInv
<1>2. ASSUME PoolKeeps, \A a \in Attempts : attempt'[a].attempts = attempt[a].attempts
      PROVE  TriesStay
  <2>1. ASSUME NEW a \in Attempts PROVE TriesCover(a)'
    BY <1>1, <1>2, AttemptTasks, SteadyTries DEF PoolKeeps
  <2> QED BY <1>2, <2>1 DEF TriesStay, PoolKeeps
<1>3. ASSUME NEW l \in Lanes, HandlerStep(l)
      PROVE  TriesStay /\ attempt' \in [Attempts -> AttemptKind]
  BY <1>3, AttemptStepTries
<1>4. ASSUME NEW l \in Lanes, ClaimSome(l)
      PROVE  TriesStay /\ attempt' \in [Attempts -> AttemptKind]
  BY <1>1, <1>4, ClaimTries DEF RecordTypes
<1>5. ASSUME NEW l \in Lanes, DeliveryStep(l)
      PROVE  TriesStay /\ attempt' \in [Attempts -> AttemptKind]
  <2>1. PoolKeeps  BY <1>1, <1>5, DeliveryStepGoes, DeliveryStepPool
  <2>2. attempt' = attempt \/ \E a \in Attempts : attempt' = [attempt EXCEPT ![a].outcome = TRUE]
    BY <1>5 DEF DeliveryStep, ConsumeOutcome, ApplyOutcome, campaignFrame, campaignVars
  <2>3. /\ attempt' \in [Attempts -> AttemptKind]
        /\ \A a \in Attempts : attempt'[a].attempts = attempt[a].attempts
    <3>1. CASE attempt' = attempt  BY <1>1, <3>1 DEF RecordTypes
    <3>2. ASSUME NEW a \in Attempts, attempt' = [attempt EXCEPT ![a].outcome = TRUE]
          PROVE  /\ attempt' \in [Attempts -> AttemptKind]
                 /\ \A b \in Attempts : attempt'[b].attempts = attempt[b].attempts
      BY <1>1, <3>2 DEF RecordTypes, AttemptKind
    <3> QED BY <2>2, <3>1, <3>2
  <2> QED BY <1>2, <2>1, <2>3
<1>6. CASE FileDueAttempts
  BY <1>1, <1>2, <1>6, FilingPool, FilingRecords
<1>7. ASSUME NEW a \in Attempts, Carrier(a)
      PROVE  TriesStay /\ attempt' \in [Attempts -> AttemptKind]
  <2>1. attempt' = attempt
    BY <1>7 DEF Carrier, CallbackReconciles, CallbackBinds, CallEnds, campaignVars
  <2> QED BY <1>1, <1>2, <1>7, <2>1, OtherStepPool DEF RecordTypes
<1>8. CASE \/ UNCHANGED vars
           \/ FindNothingDue
           \/ \E l \in Lanes : LaneDies(l) \/ PrepareReads(l)
           \/ \E t \in Tasks : ClaimExpires(t)
           \/ \E d \in Deliveries : Nudge(d)
           \/ ControlStep
  BY <1>1, <1>2, <1>8, OtherStepPool, OtherStepRecords DEF RowsMove
<1> QED BY <1>3, <1>4, <1>5, <1>6, <1>7, <1>8, NextSteps

-----------------------------------------------------------------------------
(* What is under way: what was read, the locks, and an erasure's findings  *)

(* Every step but the filing moves every attempt.                          *)
LEMMA NextRowsMove ==
  ASSUME SendInv, DeliveryInv, PoolInv, RecordTypes, RecordInv, [Next]_vars, ~FileDueAttempts
  PROVE  RowsMove
<1>1. LaneOK  BY DEF SendInv
<1>2. CASE UNCHANGED attempt  BY <1>2, RowsUntouched
<1>3. ASSUME NEW l \in Lanes, HandlerStep(l) PROVE RowsMove
  <2>1. CASE EffectStep(l)  BY <1>2, <2>1, HandlerSteps
  <2>2. CASE RowStep(l)
    <3>1. UNCHANGED <<out, reached, delivery, saved, call>>  BY <2>2, HandlerSteps
    <3> QED BY <1>3, <3>1, RowStepRecords
  <2> QED BY <1>3, <2>1, <2>2 DEF HandlerStep
<1>4. ASSUME NEW l \in Lanes, DeliveryStep(l) PROVE RowsMove
  <2>1. CASE ConsumeOutcome(l)
    <3>1. PICK a \in Attempts : attempt' = [attempt EXCEPT ![a].outcome = TRUE]
      BY <2>1 DEF ConsumeOutcome, ApplyOutcome
    <3>2. PICK r : r = [attempt[a] EXCEPT !.outcome = TRUE]  OBVIOUS
    <3>3. r \in AttemptKind /\ RowMoves(attempt[a], r)
      BY <3>2 DEF RecordTypes, AttemptKind, RowMoves
    <3> QED BY <3>1, <3>2, <3>3, OneRowMoves DEF RecordTypes
  <2>2. CASE ~ConsumeOutcome(l)
    BY <1>2, <1>4, <2>2 DEF DeliveryStep, campaignFrame, campaignVars
  <2> QED BY <2>1, <2>2
<1>5. CASE \/ \E l \in Lanes : ClaimSome(l)
           \/ \E a \in Attempts : Carrier(a)
  BY <1>2, <1>5
     DEF ClaimSome, ClaimAttempt, campaignFrame, campaignVars, Carrier, CallbackReconciles,
         CallbackBinds, CallEnds
<1>6. CASE \/ UNCHANGED vars
           \/ FindNothingDue
           \/ \E l \in Lanes : LaneDies(l) \/ PrepareReads(l)
           \/ \E t \in Tasks : ClaimExpires(t)
           \/ \E d \in Deliveries : Nudge(d)
           \/ ControlStep
  BY <1>6, OtherStepRecords
<1> QED BY <1>3, <1>4, <1>5, <1>6, NextSteps

(* What is filed.                                                          *)
LEMMA FiledRows ==
  ASSUME RecordTypes, FileDueAttempts
  PROVE  \A a \in Attempts :
           /\ attempt'[a].started = attempt[a].started /\ attempt'[a].outcome = attempt[a].outcome
           /\ \/ attempt'[a].state = attempt[a].state
              \/ attempt[a].state = "none" /\ attempt'[a].state = "pending"
<1>1. PICK filed :
        /\ \A a \in filed : Fileable(a)
        /\ attempt' = [a \in Attempts |->
             IF a \in filed THEN [attempt[a] EXCEPT !.state = "pending"] ELSE attempt[a]]
  BY DEF FileDueAttempts
<1> QED BY <1>1 DEF Fileable, RecordTypes, AttemptKind

LEMMA OnFileStays ==
  ASSUME SendInv, DeliveryInv, PoolInv, RecordTypes, RecordInv, [Next]_vars
  PROVE  \A a \in Attempts : OnFile(a) => OnFile(a)'
<1>1. CASE FileDueAttempts  BY <1>1, FiledRows DEF OnFile
<1>2. CASE ~FileDueAttempts  BY <1>2, NextRowsMove DEF RowsMove, RowMoves, OnFile
<1> QED BY <1>1, <1>2

(* A preparing transaction goes on, with its lock, or has begun or ended.  *)
ReadStays(k) ==
  /\ read'[k] = read[k] /\ lane'[k].pc = lane[k].pc /\ lane'[k].job = lane[k].job
  /\ attempt'[lane[k].job].state \in {"pending", "running"}

ReadsGo == \A k \in Lanes : read'[k] # Unread => ReadStays(k) \/ PrepareReads(k)

LEMMA FrameReads ==
  ASSUME RecordTypes, read' = read,
         \A k \in Lanes : read[k] # Unread =>
           lane'[k].pc = lane[k].pc /\ lane'[k].job = lane[k].job,
         \A a \in Attempts : Open(a) /\ ~Free(a) => Open(a)'
  PROVE  ReadsGo
<1> SUFFICES ASSUME NEW k \in Lanes, read[k] # Unread PROVE ReadStays(k)
  BY DEF ReadsGo
<1>1. LockHeld(k)  BY DEF RecordTypes, UnderwayInv, Locks
<1>2. PICK a \in Attempts : a = lane[k].job  BY <1>1 DEF LockHeld
<1>3. Open(a) /\ ~Free(a)  BY <1>1, <1>2 DEF LockHeld, Open, Free, Job
<1> QED BY <1>2, <1>3 DEF ReadStays, Open

(* A handler's step changes its attempt's row only if nobody else has it   *)
(* locked, and ends its own transaction.                                   *)
LEMMA HandlerUnlocks ==
  ASSUME NEW l, HandlerStep(l)
  PROVE  /\ \/ Forgets(l)
            \/ read' = read /\ (lane[l].pc = "prepare" => Free(Job(l)))
         /\ attempt' = attempt \/ Free(Job(l)) \/ Preparing(l)
<1>1. CASE \/ PrepareContactGone(l) \/ PrepareNotRunning(l) \/ PrepareSkips(l)
           \/ PrepareFails(l) \/ Prepared(l) \/ AttemptStopped(l)
  BY <1>1 DEF PrepareContactGone, PrepareNotRunning, PrepareCancels, PrepareSkips, PrepareFails,
              Prepared, AttemptStopped, campaignVars
<1>2. CASE \/ FindSettled(l) \/ StartFenced(l) \/ StartEffect(l) \/ CompleteDispatch(l)
           \/ FailureFindsSettled(l) \/ FailureConflicts(l) \/ FailAttempt(l) \/ RetryAttempt(l)
  BY <1>2 DEF FindSettled, StartFenced, StartEffect, CompleteDispatch, FailureFindsSettled,
              FailureConflicts, FailAttempt, RetryAttempt, underway
<1>3. CASE DispatchReplays(l) \/ DispatchFails(l)
  BY <1>3, AttemptPCs, DispatchNames
     DEF DispatchReplays, DispatchFails, dispatchFrame, campaignVars, underway, At
<1>4. CASE EffectStep(l)
  <2>1. lane[l].pc # "prepare"
    BY <1>4 DEF EffectStep, DispatchAuthorized, DispatchRecovers, DispatchSends, DispatchRecords,
                DispatchProjects, DispatchSaves, SendInterrupted, At
  <2> QED BY <1>4, <2>1, HandlerSteps DEF underway
<1> QED BY <1>1, <1>2, <1>3, <1>4 DEF HandlerStep, RowStep

LEMMA HandlerReads ==
  ASSUME LaneOK, OutboundTypeOK, RecordTypes, RecordInv, NEW l \in Lanes, HandlerStep(l)
  PROVE  ReadsGo
<1>1. PICK a \in Attempts : a = lane[l].job
  BY AttemptStepGoes DEF RecordTypes, Job
<1>2. OnFile(a)  BY <1>1 DEF RecordInv, LaneStory, LaneTells
<1>3. \A b \in Attempts : b # a => attempt'[b] = attempt[b]
  <2>1. PICK r : attempt' = [attempt EXCEPT ![a] = r]
    BY <1>1, <1>2, AttemptStepRow DEF OnFile, Job
  <2> QED BY <2>1 DEF RecordTypes
<1>4. \A k \in Lanes : k # l => lane'[k] = lane[k]
  BY AttemptStepGoes, GoingLanes DEF RecordTypes
<1>5. read \in [Lanes -> ReadKind]  BY DEF RecordTypes, UnderwayInv, ReadsOK
<1>6. read'[l] = Unread
  <2>1. CASE Forgets(l)  BY <1>5, <2>1 DEF Forgets
  <2>2. CASE read' = read /\ (lane[l].pc = "prepare" => Free(Job(l)))
    BY <2>2 DEF RecordTypes, UnderwayInv, Locks, LockHeld, Free
  <2> QED BY <2>1, <2>2, HandlerUnlocks
<1>7. \A k \in Lanes : k # l => read'[k] = read[k]
  BY <1>5, HandlerUnlocks DEF Forgets
<1> SUFFICES ASSUME NEW k \in Lanes, k # l, read[k] # Unread PROVE ReadStays(k)
  BY <1>6, <1>7 DEF ReadsGo
<1>8. LockHeld(k)  BY DEF RecordTypes, UnderwayInv, Locks
<1>9. PICK b \in Attempts : b = lane[k].job /\ attempt[b].state \in {"pending", "running"}
  BY <1>8 DEF LockHeld
<1>10. attempt'[b] = attempt[b]
  <2>1. CASE b = a
    <3>1. ~Free(Job(l))  BY <1>1, <1>9, <2>1 DEF Free, Job
    <3>2. ~Preparing(l)  BY <1>1, <1>8, <1>9, <2>1 DEF LockHeld, Preparing
    <3> QED BY <3>1, <3>2, HandlerUnlocks
  <2> QED BY <1>3, <2>1
<1> QED BY <1>4, <1>7, <1>9, <1>10 DEF ReadStays

LEMMA ControlReads ==
  ASSUME RecordTypes, ControlStep
  PROVE  ReadsGo
<1>1. read' = read /\ lane' = lane  BY ControlFrame DEF controlFrame
<1>2. attempt \in [Attempts -> AttemptKind]  BY DEF RecordTypes
<1>3. ASSUME NEW fenced, \A a \in fenced : Free(a),
             attempt' = [a \in Attempts |-> IF a \in fenced
               THEN [attempt[a] EXCEPT !.state = "cancelled"] ELSE attempt[a]]
      PROVE  ReadsGo
  <2>1. \A a \in Attempts : Open(a) /\ ~Free(a) => Open(a)'  BY <1>3 DEF Open
  <2> QED BY <1>1, <2>1, FrameReads
<1>4. CASE UNCHANGED attempt
  <2>1. \A a \in Attempts : Open(a) => Open(a)'  BY <1>4 DEF Open
  <2> QED BY <1>1, <2>1, FrameReads
<1>5. CASE Transition \/ Revoke
  <2>1. PICK fenced : /\ \A a \in fenced : Free(a)
                      /\ attempt' = [a \in Attempts |-> IF a \in fenced
                           THEN [attempt[a] EXCEPT !.state = "cancelled"] ELSE attempt[a]]
    BY <1>5 DEF Transition, Revoke, Fence
  <2> QED BY <1>3, <2>1
<1>6. ASSUME NEW c \in Contacts, QuiesceContact(c), attempt' # attempt PROVE ReadsGo
  <2>1. /\ \A a \in scope[c].unstarted : Free(a)
        /\ attempt' = [a \in Attempts |-> IF a \in scope[c].unstarted
             THEN [attempt[a] EXCEPT !.state = "cancelled"] ELSE attempt[a]]
    BY <1>6 DEF QuiesceContact, RecordTypes, UnderwayInv
  <2> QED BY <1>3, <2>1
<1>7. CASE \/ Ask \/ Resume \/ \E c \in Contacts : RequestDeletion(c) \/ QuiesceReads(c)
  BY <1>4, <1>7 DEF Ask, Resume, RequestDeletion, QuiesceReads, campaignVars
<1> QED BY <1>4, <1>5, <1>6, <1>7 DEF ControlStep

LEMMA NextReads ==
  ASSUME LaneOK, OutboundTypeOK, RecordTypes, RecordInv, [Next]_vars
  PROVE  ReadsGo
<1>1. lane \in [Lanes -> LaneRow(PCs, Results)] /\ read \in [Lanes -> ReadKind]
  BY DEF LaneOK, RecordTypes, UnderwayInv, ReadsOK
<1>2. \A k \in Lanes : read[k] # Unread => lane[k].pc = "prepare"
  BY DEF RecordTypes, UnderwayInv, Locks, LockHeld
<1>3. UNCHANGED attempt => \A a \in Attempts : Open(a) => Open(a)'  BY DEF Open
<1>4. ASSUME NEW l \in Lanes, DeliveryStep(l) PROVE ReadsGo
  <2>1. /\ lane[l].pc # "prepare" /\ read' = read
        /\ \A k \in Lanes : k # l => lane'[k] = lane[k]
    <3>1. lane[l].pc \in DeliverySteps /\ DeliveryGoes(l)  BY <1>4, DeliveryStepGoes
    <3>2. read' = read
      BY <1>4 DEF DeliveryStep, ConsumeOutcome, campaignFrame, underway
    <3> QED BY <3>1, <3>2, AttemptPCs, GoingLanes
  <2>2. \A a \in Attempts : Open(a) => Open(a)'
    <3>1. \/ UNCHANGED attempt
          \/ \E a \in Attempts : attempt' = [attempt EXCEPT ![a].outcome = TRUE]
      BY <1>4 DEF DeliveryStep, ConsumeOutcome, ApplyOutcome, campaignFrame, campaignVars
    <3> QED BY <1>3, <3>1 DEF RecordTypes, AttemptKind, Open
  <2> QED BY <1>2, <2>1, <2>2, FrameReads
<1>5. ASSUME NEW l \in Lanes, ClaimSome(l) PROVE ReadsGo
  <2>1. /\ lane[l].pc = "idle" /\ read' = read /\ attempt' = attempt
        /\ \A k \in Lanes : k # l => lane'[k] = lane[k]
    BY <1>1, <1>5
       DEF ClaimSome, ClaimAttempt, ClaimDelivery, Claim, At, campaignFrame, campaignVars, underway
  <2> QED BY <1>2, <1>3, <2>1, FrameReads
<1>6. ASSUME NEW l \in Lanes, LaneDies(l) \/ PrepareReads(l) PROVE ReadsGo
  <2>1. /\ attempt' = attempt
        /\ \A k \in Lanes : k # l => lane'[k] = lane[k] /\ read'[k] = read[k]
        /\ LaneDies(l) => read'[l] = Unread
    BY <1>1, <1>6 DEF LaneDies, Dies, Forgets, PrepareReads, pool, campaignVars
  <2> QED BY <1>6, <2>1 DEF RecordTypes, UnderwayInv, Locks, LockHeld, ReadsGo, ReadStays
<1>7. ASSUME NEW t \in Tasks, ClaimExpires(t) PROVE ReadsGo
  <2>1. /\ read' = read /\ attempt' = attempt
        /\ \A k \in Lanes : lane'[k].pc = lane[k].pc /\ lane'[k].job = lane[k].job
    BY <1>1, <1>7
       DEF ClaimExpires, ClaimRunsOut, LaneRow, campaignFrame, campaignVars, underway
  <2> QED BY <1>3, <2>1, FrameReads
<1>8. CASE FileDueAttempts
  <2>1. read' = read /\ lane' = lane  BY <1>8 DEF FileDueAttempts, underway
  <2>2. \A a \in Attempts : Open(a) => Open(a)'  BY <1>8, FiledRows DEF Open
  <2> QED BY <2>1, <2>2, FrameReads
<1>9. CASE \/ UNCHANGED vars \/ FindNothingDue
           \/ \E d \in Deliveries : Nudge(d)
           \/ \E a \in Attempts : Carrier(a)
  <2>1. read' = read /\ lane' = lane /\ attempt' = attempt
    BY <1>9
       DEF vars, FindNothingDue, Nudge, SpawnDelivery, BindDelivery, Carrier, CallbackReconciles,
           CallbackBinds, CallEnds, campaignFrame, campaignVars, underway, pool
  <2> QED BY <1>3, <2>1, FrameReads
<1> QED BY <1>4, <1>5, <1>6, <1>7, <1>8, <1>9, HandlerReads, ControlReads, NextSteps

(* The other marks of what is under way.                                   *)
LEMMA NextMarks ==
  ASSUME [Next]_vars
  PROVE  /\ blind \subseteq blind' /\ blind' \subseteq blind \union {"campaign", "contact"}
         /\ \/ scope' = scope
            \/ \E c \in Contacts : scope' = [scope EXCEPT ![c] = NoScope]
            \/ \E c \in Contacts : QuiesceReads(c)
<1>1. ASSUME NEW l \in Lanes, HandlerStep(l)
      PROVE  /\ blind \subseteq blind' /\ blind' \subseteq blind \union {"campaign", "contact"}
             /\ scope' = scope
  <2>1. CASE EffectStep(l)  BY <2>1, HandlerSteps DEF underway
  <2>2. CASE \/ PrepareContactGone(l) \/ PrepareNotRunning(l) \/ PrepareSkips(l)
             \/ PrepareFails(l) \/ Prepared(l) \/ AttemptStopped(l)
    BY <2>2 DEF PrepareContactGone, PrepareNotRunning, PrepareCancels, PrepareSkips, PrepareFails,
                Prepared, AttemptStopped, CommitsOver
  <2>3. CASE \/ FindSettled(l) \/ StartFenced(l) \/ StartEffect(l) \/ DispatchReplays(l)
             \/ DispatchFails(l) \/ CompleteDispatch(l) \/ FailureFindsSettled(l)
             \/ FailureConflicts(l) \/ FailAttempt(l) \/ RetryAttempt(l)
    BY <2>3 DEF FindSettled, StartFenced, StartEffect, DispatchReplays, DispatchFails,
                CompleteDispatch, FailureFindsSettled, FailureConflicts, FailAttempt,
                RetryAttempt, underway
  <2> QED BY <1>1, <2>1, <2>2, <2>3 DEF HandlerStep, RowStep
<1>2. CASE \/ UNCHANGED vars \/ FileDueAttempts \/ FindNothingDue
           \/ \E l \in Lanes : DeliveryStep(l) \/ ClaimSome(l) \/ LaneDies(l) \/ PrepareReads(l)
           \/ \E t \in Tasks : ClaimExpires(t)
           \/ \E d \in Deliveries : Nudge(d)
           \/ \E a \in Attempts : Carrier(a)
  <2>1. blind' = blind /\ scope' = scope
    BY <1>2
       DEF vars, FileDueAttempts, FindNothingDue, DeliveryStep, ConsumeOutcome, ClaimSome,
           ClaimAttempt, LaneDies, PrepareReads, ClaimExpires, Nudge, Carrier,
           CallbackReconciles, CallbackBinds, CallEnds, campaignFrame, underway
  <2> QED BY <2>1
<1>3. CASE ControlStep
  <2>1. CASE \/ Ask \/ Transition \/ Resume \/ Revoke \/ \E c \in Contacts : RequestDeletion(c)
    BY <2>1 DEF Ask, Transition, Resume, Revoke, RequestDeletion, CommitsOver
  <2>2. ASSUME NEW c \in Contacts, QuiesceReads(c)
        PROVE  blind' = blind /\ QuiesceReads(c)
    BY <2>2 DEF QuiesceReads
  <2>3. ASSUME NEW c \in Contacts, QuiesceContact(c)
        PROVE  /\ blind \subseteq blind' /\ blind' \subseteq blind \union {"campaign", "contact"}
               /\ scope' = [scope EXCEPT ![c] = NoScope]
    BY <2>3 DEF QuiesceContact, CommitsOver
  <2> QED BY <1>3, <2>1, <2>2, <2>3 DEF ControlStep
<1> QED BY <1>1, <1>2, <1>3, NextSteps

LEMMA NextUnderway ==
  ASSUME SendInv, DeliveryInv, PoolInv, RecordTypes, RecordInv, [Next]_vars, ReadsOK',
         \A c \in Contacts : contact[c].count <= MaxNumber
  PROVE  UnderwayInv'
<1>1. LaneOK /\ OutboundTypeOK /\ ReadsGo /\ UnderwayInv  BY NextReads DEF SendInv, RecordTypes
<1>2. read \in [Lanes -> ReadKind]  BY <1>1 DEF UnderwayInv, ReadsOK
<1>3. ASSUME NEW k \in Lanes, PrepareReads(k)
      PROVE  /\ lane' = lane /\ attempt' = attempt
             /\ lane[k].pc = "prepare" /\ lane[k].job \in Attempts
             /\ attempt[lane[k].job].state \in {"pending", "running"}
             /\ \A j \in Lanes : lane[j].job = lane[k].job => read[j] = Unread
             /\ \A j \in Lanes : j # k => read'[j] = read[j]
             /\ read'[k].count <= MaxNumber
  <2>1. lane[k].pc = "prepare"  BY <1>3 DEF PrepareReads, At
  <2>2. PICK a \in Attempts : a = lane[k].job  BY <1>1, <2>1, AttemptPCs DEF LaneOK
  <2>3. OnFile(a)  BY <2>2 DEF RecordInv, LaneStory, LaneTells
  <2>4. PICK c \in Contacts : c = ContactOf(a)  BY AttemptFacts
  <2>5. attempt[a] \in AttemptKind /\ attempt[a].state \notin SettledAttempt /\ Free(a)
    BY <1>3, <2>2 DEF PrepareReads, RecordTypes, Job
  <2>6. attempt[a].state \in {"pending", "running"}
    BY <2>3, <2>5, AttemptNames DEF OnFile, AttemptKind
  <2>7. PICK r : r = [campaign |-> campaign.status, failed |-> campaign.failed,
                      status |-> contact[c].status, count |-> contact[c].count,
                      active |-> contact[c].active]
    OBVIOUS
  <2>8. read' = [read EXCEPT ![k] = r] /\ r.count = contact[c].count
    BY <1>3, <2>2, <2>4, <2>7 DEF PrepareReads, Job
  <2> QED BY <1>2, <1>3, <2>1, <2>2, <2>5, <2>6, <2>8
        DEF PrepareReads, pool, campaignVars, Free, Job
<1>4. Locks'
  <2> SUFFICES ASSUME NEW k \in Lanes, read'[k] # Unread PROVE LockHeld(k)'
    BY DEF Locks
  <2>1. ASSUME NEW j \in Lanes, j # k, lane'[j].job = lane'[k].job, read'[j] # Unread
        PROVE  FALSE
    <3>1. CASE ReadStays(k) /\ ReadStays(j)
      BY <1>1, <2>1, <3>1 DEF ReadStays, UnderwayInv, Locks, LockHeld
    <3>2. CASE PrepareReads(k)  BY <1>3, <2>1, <3>2
    <3>3. CASE PrepareReads(j)  BY <1>3, <2>1, <3>3
    <3> QED BY <1>1, <2>1, <3>1, <3>2, <3>3 DEF ReadsGo
  <2>2. CASE ReadStays(k)
    <3>1. LockHeld(k)  BY <1>1, <2>2 DEF ReadStays, UnderwayInv, Locks
    <3> QED BY <2>1, <2>2, <3>1 DEF ReadStays, LockHeld
  <2>3. CASE PrepareReads(k)  BY <1>3, <2>1, <2>3 DEF LockHeld
  <2> QED BY <1>1, <2>2, <2>3 DEF ReadsGo
<1>5. ASSUME NEW k \in Lanes PROVE read'[k].count <= MaxNumber
  <2>1. CASE read'[k] = Unread  BY <2>1, NthAttempts DEF Unread
  <2>2. CASE ReadStays(k)  BY <1>1, <2>2 DEF ReadStays, UnderwayInv
  <2>3. CASE PrepareReads(k)  BY <1>3, <2>3
  <2> QED BY <1>1, <2>1, <2>2, <2>3 DEF ReadsGo
<1>6. blind' \subseteq {"campaign", "contact"}  BY <1>1, NextMarks DEF UnderwayInv
<1>7. ASSUME NEW c \in Contacts
      PROVE  /\ scope'[c].unstarted \subseteq scope'[c].filed
             /\ \A a \in scope'[c].filed : a \in Attempts /\ ContactOf(a) = c /\ OnFile(a)'
  <2>1. CASE scope'[c] = scope[c]  BY <1>1, <2>1, OnFileStays DEF UnderwayInv
  <2>2. CASE scope'[c] = NoScope  BY <2>2 DEF NoScope
  <2>3. CASE QuiesceReads(c)
    <3>1. /\ scope' = [scope EXCEPT ![c] = [filed |-> FiledFor(c), unstarted |-> Unstarted(c),
                                            status |-> contact[c].status]]
          /\ attempt' = attempt
      BY <2>3 DEF QuiesceReads, campaignVars
    <3>2. scope'[c].filed = FiledFor(c) /\ scope'[c].unstarted = Unstarted(c)
      BY <1>1, <3>1 DEF UnderwayInv, ReadsOK
    <3> QED BY <3>1, <3>2 DEF FiledFor, Unstarted, OnFile
  <2>4. ASSUME NEW d \in Contacts, QuiesceReads(d), d # c PROVE scope'[c] = scope[c]
    BY <1>1, <2>4 DEF QuiesceReads, UnderwayInv, ReadsOK
  <2> QED BY <1>1, <2>1, <2>2, <2>3, <2>4, NextMarks DEF UnderwayInv, ReadsOK
<1> QED BY <1>4, <1>5, <1>6, <1>7 DEF UnderwayInv, OnFile

-----------------------------------------------------------------------------
(* Types *)

LEMMA TriedRow ==
  ASSUME RowsOK, NEW a \in Attempts, NEW s, contact' = Tried(a, s)
  PROVE  /\ contact'[ContactOf(a)].status = s
         /\ contact'[ContactOf(a)].count =
              IF contact[ContactOf(a)].count > Number(a) THEN contact[ContactOf(a)].count ELSE Number(a)
         /\ contact'[ContactOf(a)].active = contact[ContactOf(a)].active
         /\ contact'[ContactOf(a)].valid = contact[ContactOf(a)].valid
         /\ \A c \in Contacts : c # ContactOf(a) => contact'[c] = contact[c]
<1>1. contact \in [Contacts -> ContactKind] /\ ContactOf(a) \in Contacts
  BY AttemptFacts DEF RowsOK
<1> QED BY <1>1 DEF Tried, ContactKind

LEMMA StatusRow ==
  ASSUME RowsOK, NEW c \in Contacts, NEW s, contact' = [contact EXCEPT ![c].status = s]
  PROVE  /\ contact'[c].status = s /\ contact'[c].count = contact[c].count
         /\ contact'[c].active = contact[c].active /\ contact'[c].valid = contact[c].valid
         /\ \A d \in Contacts : d # c => contact'[d] = contact[d]
BY DEF RowsOK, ContactKind

LEMMA StatusRows ==
  ASSUME RowsOK, NEW S, NEW s,
         contact' = [c \in Contacts |-> IF c \in S THEN [contact[c] EXCEPT !.status = s] ELSE contact[c]]
  PROVE  \A c \in Contacts : IF c \in S THEN /\ contact'[c].status = s
                                             /\ contact'[c].count = contact[c].count
                                             /\ contact'[c].active = contact[c].active
                                        ELSE contact'[c] = contact[c]
BY DEF RowsOK, ContactKind

(* What the steps make of the contacts' rows: only the filing queues.       *)
TriedStep == \E a \in Attempts : \E s : contact' = Tried(a, s) /\ s # "queued"
StatusStep ==
  \E c \in Contacts : \E s :
    /\ contact' = [contact EXCEPT ![c].status = s]
    /\ s # "queued" \/ s = contact[c].status
CountStep ==
  \E c \in Contacts :
    /\ contact'[c].status # "queued" \/ contact'[c].status = contact[c].status
    /\ contact'[c].count <= MaxNumber
    /\ \A d \in Contacts : d # c => contact'[d] = contact[d]
StatusesStep ==
  \E S : \E s :
    /\ contact' = [c \in Contacts |->
         IF c \in S THEN [contact[c] EXCEPT !.status = s] ELSE contact[c]]
    /\ s # "queued" \/ FileDueAttempts
DeletionStep == \E c \in Contacts : contact' = [contact EXCEPT ![c].active = FALSE]

ContactStep ==
  UNCHANGED contact \/ TriedStep \/ StatusStep \/ CountStep \/ StatusesStep \/ DeletionStep

LEMMA ByStatus ==
  ASSUME NEW c \in Contacts, NEW s, contact' = [contact EXCEPT ![c].status = s],
         s # "queued" \/ s = contact[c].status
  PROVE  ContactStep
<1>1. StatusStep  BY DEF StatusStep
<1> QED BY <1>1 DEF ContactStep

LEMMA ByStatuses ==
  ASSUME NEW S, NEW s,
         contact' = [c \in Contacts |-> IF c \in S THEN [contact[c] EXCEPT !.status = s] ELSE contact[c]],
         s # "queued" \/ FileDueAttempts
  PROVE  ContactStep
<1>1. StatusesStep  BY DEF StatusesStep
<1> QED BY <1>1 DEF ContactStep

LEMMA FlushedStatus ==
  ASSUME NEW now, NEW seen, NEW new, new # "queued"
  PROVE  Flushed(now, seen, new) # "queued" \/ Flushed(now, seen, new) = now
BY DEF Flushed

LEMMA SkippedContact ==
  ASSUME RowsOK, RecordTypes, NEW l \in Lanes, NEW a \in Attempts, a = Job(l), PrepareSkips(l)
  PROVE  CountStep
<1>1. PICK c \in Contacts : c = ContactOf(a)  BY AttemptFacts
<1>2. /\ read[l].count \in Nat /\ read[l].count <= MaxNumber
      /\ Number(a) \in Nat /\ Number(a) <= MaxNumber
      /\ contact[c].count \in Nat /\ contact[c].count <= MaxNumber
      /\ contact \in [Contacts -> ContactKind]
  BY <1>1, NthAttempts DEF RowsOK, ContactKind, RecordTypes, UnderwayInv, ReadsOK, ReadKind
<1>3. PICK s, n :
        /\ s = Flushed(contact[c].status, read[l].status, "skipped")
        /\ n = Flushed(contact[c].count, read[l].count,
                       IF read[l].count > Number(a) THEN read[l].count ELSE Number(a))
  OBVIOUS
<1>4. n \in Nat /\ n <= MaxNumber  BY <1>2, <1>3 DEF Flushed
<1>5. s # "queued" \/ s = contact[c].status  BY <1>3, FlushedStatus
<1>6. contact' = [contact EXCEPT ![c].status = s, ![c].count = n]
  BY <1>1, <1>3 DEF PrepareSkips
<1>7. /\ contact'[c].status = s /\ contact'[c].count = n
      /\ \A d \in Contacts : d # c => contact'[d] = contact[d]
  BY <1>2, <1>6 DEF ContactKind
<1> QED BY <1>4, <1>5, <1>7 DEF CountStep

LEMMA HandlerContacts ==
  ASSUME LaneOK, OutboundTypeOK, RecordTypes, RowsOK, NEW l \in Lanes, HandlerStep(l)
  PROVE  ContactStep
<1>1. PICK a \in Attempts : a = Job(l)  BY AttemptStepGoes DEF RecordTypes
<1>2. PICK c \in Contacts : c = ContactOf(a)  BY AttemptFacts
<1>3. \A status : Released(status) # "queued"  BY DEF Released
<1>4. CASE PrepareContactGone(l) \/ PrepareNotRunning(l)
  <2>1. PICK to : /\ to # "queued"
                  /\ contact' = WithStatus(a, Flushed(contact[c].status, read[l].status, to))
    BY <1>1, <1>2, <1>3, <1>4 DEF PrepareContactGone, PrepareNotRunning, PrepareCancels
  <2>2. PICK s : s = Flushed(contact[c].status, read[l].status, to)  OBVIOUS
  <2>3. s # "queued" \/ s = contact[c].status  BY <2>1, <2>2, FlushedStatus
  <2>4. contact' = [contact EXCEPT ![c].status = s]  BY <1>2, <2>1, <2>2 DEF WithStatus
  <2> QED BY <2>3, <2>4, ByStatus
<1>5. CASE PrepareSkips(l)
  BY <1>1, <1>2, <1>5, SkippedContact DEF ContactStep
<1>6. CASE StartFenced(l)
  <2>1. PICK s : s # "queued" /\ contact' = [contact EXCEPT ![c].status = s]
    BY <1>1, <1>2, <1>3, <1>6 DEF StartFenced, WithStatus
  <2> QED BY <2>1, ByStatus
<1>7. CASE CompleteDispatch(l) \/ FailAttempt(l)
  <2>1. \E s : contact' = Tried(a, s) /\ s # "queued"
    BY <1>1, <1>7 DEF CompleteDispatch, FailAttempt, ProjectFailed, SettledContact
  <2> QED BY <1>1, <2>1 DEF ContactStep, TriedStep
<1>8. CASE UNCHANGED contact  BY <1>8 DEF ContactStep
<1>9. \/ UNCHANGED contact
      \/ PrepareContactGone(l) \/ PrepareNotRunning(l) \/ PrepareSkips(l) \/ StartFenced(l)
      \/ CompleteDispatch(l) \/ FailAttempt(l)
  BY HandlerSteps
     DEF HandlerStep, RowStep, FindSettled, PrepareFails, Prepared, StartEffect, DispatchReplays,
         DispatchFails, FailureFindsSettled, FailureConflicts, RetryAttempt, AttemptStopped,
         dispatchFrame, campaignVars
<1> QED BY <1>4, <1>5, <1>6, <1>7, <1>8, <1>9

LEMMA ControlContacts ==
  ASSUME ControlStep
  PROVE  ContactStep
<1>1. CASE UNCHANGED contact  BY <1>1 DEF ContactStep
<1>2. CASE Transition \/ Revoke
  <2>1. PICK s : s # "queued" /\ Fence(s)  BY <1>2 DEF Transition, Revoke
  <2>2. PICK freed : contact' = [c \in Contacts |-> IF c \in freed /\ contact[c].status = "queued"
                        THEN [contact[c] EXCEPT !.status = s] ELSE contact[c]]
    BY <2>1 DEF Fence
  <2>3. PICK S : S = {c \in Contacts : c \in freed /\ contact[c].status = "queued"}  OBVIOUS
  <2>4. contact' = [c \in Contacts |-> IF c \in S THEN [contact[c] EXCEPT !.status = s] ELSE contact[c]]
    BY <2>2, <2>3
  <2> QED BY <2>1, <2>4, ByStatuses
<1>3. ASSUME NEW c \in Contacts, RequestDeletion(c) PROVE ContactStep
  BY <1>3 DEF RequestDeletion, ContactStep, DeletionStep
<1>4. ASSUME NEW c \in Contacts, QuiesceContact(c) PROVE ContactStep
  <2>1. CASE FiledFor(c) = scope[c].filed
    <3>1. PICK s : s = Flushed(contact[c].status, scope[c].status, "cancelled")  OBVIOUS
    <3>2. s # "queued" \/ s = contact[c].status  BY <3>1, FlushedStatus
    <3>3. contact' = [contact EXCEPT ![c].status = s]  BY <1>4, <2>1, <3>1 DEF QuiesceContact
    <3> QED BY <3>2, <3>3 DEF ContactStep, StatusStep
  <2>2. CASE FiledFor(c) # scope[c].filed  BY <1>1, <1>4, <2>2 DEF QuiesceContact
  <2> QED BY <2>1, <2>2
<1>5. CASE Ask \/ Resume \/ \E c \in Contacts : QuiesceReads(c)
  BY <1>1, <1>5 DEF Ask, Resume, QuiesceReads, campaignVars
<1> QED BY <1>2, <1>3, <1>4, <1>5 DEF ControlStep

LEMMA ContactSteps ==
  ASSUME LaneOK, OutboundTypeOK, RecordTypes, RowsOK, [Next]_vars
  PROVE  ContactStep
<1>1. CASE UNCHANGED contact  BY <1>1 DEF ContactStep
<1>2. ASSUME NEW l \in Lanes, DeliveryStep(l) PROVE ContactStep
  <2>1. ASSUME NEW a \in Attempts, ApplyOutcome(a) PROVE ContactStep
    <3>1. UNCHANGED contact \/ \E s : contact' = Tried(a, s) /\ s # "queued"
      BY <2>1 DEF ApplyOutcome
    <3> QED BY <3>1 DEF ContactStep, TriedStep
  <2> QED BY <1>1, <1>2, <2>1 DEF DeliveryStep, ConsumeOutcome, campaignFrame, campaignVars
<1>3. CASE FileDueAttempts
  <2>1. PICK S : contact' = [c \in Contacts |->
                 IF c \in S THEN [contact[c] EXCEPT !.status = "queued"] ELSE contact[c]]
    BY <1>3 DEF FileDueAttempts
  <2>2. PICK s : s = "queued"  OBVIOUS
  <2>3. contact' = [c \in Contacts |-> IF c \in S THEN [contact[c] EXCEPT !.status = s] ELSE contact[c]]
    BY <2>1, <2>2
  <2> QED BY <1>3, <2>3 DEF ContactStep, StatusesStep
<1>4. CASE \/ UNCHANGED vars \/ FindNothingDue
           \/ \E l \in Lanes : ClaimSome(l) \/ LaneDies(l) \/ PrepareReads(l)
           \/ \E t \in Tasks : ClaimExpires(t)
           \/ \E d \in Deliveries : Nudge(d)
           \/ \E a \in Attempts : Carrier(a)
  BY <1>1, <1>4
     DEF vars, campaignVars, FindNothingDue, ClaimSome, ClaimAttempt, LaneDies, PrepareReads,
         ClaimExpires, Nudge, Carrier, CallbackReconciles, CallbackBinds, CallEnds, campaignFrame
<1> QED BY <1>2, <1>3, <1>4, HandlerContacts, ControlContacts, NextSteps

LEMMA CountsStay ==
  ASSUME RowsOK, ContactStep, \A c \in Contacts : contact[c].count <= MaxNumber
  PROVE  \A c \in Contacts : contact'[c].count <= MaxNumber
<1> SUFFICES ASSUME NEW c \in Contacts PROVE contact'[c].count <= MaxNumber
  OBVIOUS
<1>0. contact[c].count <= MaxNumber  OBVIOUS
<1>1. CASE UNCHANGED contact  BY <1>0, <1>1
<1>2. CASE TriedStep
  <2>1. PICK a \in Attempts : \E s : contact' = Tried(a, s)  BY <1>2 DEF TriedStep
  <2>2. Number(a) <= MaxNumber  BY NthAttempts
  <2> QED BY <1>0, <2>1, <2>2, TriedRow
<1>3. CASE StatusStep
  <2>1. PICK d \in Contacts : \E s : contact' = [contact EXCEPT ![d].status = s]
    BY <1>3 DEF StatusStep
  <2> QED BY <1>0, <2>1, StatusRow
<1>4. CASE CountStep
  BY <1>0, <1>4 DEF CountStep
<1>5. CASE StatusesStep
  <2>1. PICK S, s : contact' = [d \in Contacts |->
                     IF d \in S THEN [contact[d] EXCEPT !.status = s] ELSE contact[d]]
    BY <1>5 DEF StatusesStep
  <2> QED BY <1>0, <2>1, StatusRows
<1>6. CASE DeletionStep
  BY <1>0, <1>6 DEF DeletionStep, RowsOK, ContactKind
<1> QED BY <1>1, <1>2, <1>3, <1>4, <1>5, <1>6 DEF ContactStep

(* Only a filing queues a contact.                                         *)
LEMMA QueuedByFiling ==
  ASSUME RowsOK, ContactStep, ~FileDueAttempts, NEW c \in Contacts, contact'[c].status = "queued"
  PROVE  contact[c].status = "queued"
<1>1. CASE UNCHANGED contact  BY <1>1
<1>2. CASE TriedStep
  <2>1. PICK a \in Attempts : \E s : contact' = Tried(a, s) /\ s # "queued"
    BY <1>2 DEF TriedStep
  <2> QED BY <2>1, TriedRow
<1>3. CASE StatusStep
  <2>1. PICK d \in Contacts : \E s :
          /\ contact' = [contact EXCEPT ![d].status = s]
          /\ s # "queued" \/ s = contact[d].status
    BY <1>3 DEF StatusStep
  <2> QED BY <2>1, StatusRow
<1>4. CASE CountStep  BY <1>4 DEF CountStep
<1>5. CASE StatusesStep
  <2>1. \E S : \E s :
          /\ contact' = [d \in Contacts |->
               IF d \in S THEN [contact[d] EXCEPT !.status = s] ELSE contact[d]]
          /\ s # "queued" \/ FileDueAttempts
    BY <1>5, Zenon DEF StatusesStep
  <2>2. PICK S, s :
          /\ contact' = [d \in Contacts |->
               IF d \in S THEN [contact[d] EXCEPT !.status = s] ELSE contact[d]]
          /\ s # "queued" \/ FileDueAttempts
    BY <2>1, Zenon
  <2> QED BY <2>2, StatusRows
<1>6. CASE DeletionStep
  BY <1>6 DEF DeletionStep, RowsOK, ContactKind
<1> QED BY <1>1, <1>2, <1>3, <1>4, <1>5, <1>6 DEF ContactStep

LEMMA UpsetsKeep ==
  ASSUME upsets \in 0..MaxUpsets, LaneOK, OutboundTypeOK,
         saved \in [Attempts -> {"none"} \union OutStates], [Next]_vars
  PROVE  upsets' \in 0..MaxUpsets
<1>1. Smooth \/ Upset
  <2>1. ASSUME NEW l \in Lanes, HandlerStep(l) \/ DeliveryStep(l) PROVE Smooth \/ Upset
    BY <2>1, AttemptStepGoes, DeliveryStepGoes
  <2>2. ASSUME NEW l \in Lanes, ClaimSome(l) \/ LaneDies(l) \/ PrepareReads(l) PROVE Smooth \/ Upset
    BY <2>2 DEF ClaimSome, ClaimAttempt, ClaimDelivery, Claim, LaneDies, PrepareReads, Dies, pool, Smooth
  <2>3. ASSUME NEW t \in Tasks, ClaimExpires(t) PROVE Smooth \/ Upset
    BY <2>3 DEF ClaimExpires, ClaimRunsOut
  <2>4. CASE \/ UNCHANGED vars \/ FileDueAttempts \/ FindNothingDue
             \/ \E d \in Deliveries : Nudge(d)
             \/ \E a \in Attempts : Carrier(a)
             \/ ControlStep
    BY <2>4, ControlFrame
       DEF vars, pool, FileDueAttempts, FindNothingDue, Nudge, SpawnDelivery, BindDelivery,
           Carrier, CallbackReconciles, CallbackBinds, CallEnds, Smooth
  <2> QED BY <2>1, <2>2, <2>3, <2>4, NextSteps
<1> QED BY <1>1, UpsetsStay

LEMMA ReceiptsKeep ==
  ASSUME DeliveryInv, LaneOK, receipt \subseteq Deliveries,
         \A d \in Deliveries : delivery[d].attempts <= MaxTries, [Next]_vars
  PROVE  /\ receipt' \subseteq Deliveries
         /\ \A d \in Deliveries : delivery'[d].attempts <= MaxTries
<1>1. delivery \in [Deliveries -> DeliveryKind]  BY DEF DeliveryInv
<1>2. \/ UNCHANGED <<receipt, delivery>>
      \/ \E d \in Deliveries : receipt' = receipt /\ delivery' = Filed(d)
      \/ \E d \in Deliveries : BindDelivery(d)
      \/ \E l \in Lanes : BeginDelivery(l) \/ RecordFailure(l) \/ Consume(l)
  <2>1. ASSUME NEW l \in Lanes, HandlerStep(l)
        PROVE  \/ UNCHANGED <<receipt, delivery>>
               \/ \E d \in Deliveries : receipt' = receipt /\ delivery' = Filed(d)
    <3>1. CASE DispatchProjects(l)
      <4>1. PICK a \in Attempts : a = Job(l)
        BY <3>1, AttemptPCs DEF LaneOK, DispatchProjects, At, Job
      <4> QED BY <3>1, <4>1, AttemptTasks DEF DispatchProjects
    <3>2. CASE ~DispatchProjects(l)
      BY <2>1, <3>2
         DEF HandlerStep, EffectStep, RowStep, FindSettled, PrepareContactGone, PrepareNotRunning,
             PrepareCancels, PrepareSkips,
             PrepareFails, Prepared, StartFenced, StartEffect, DispatchReplays, DispatchAuthorized,
             DispatchRecovers, DispatchSends, DispatchRecords, DispatchSaves, DispatchFails,
             CompleteDispatch, FailureFindsSettled, FailureConflicts, FailAttempt, RetryAttempt,
             SendInterrupted, AttemptStopped, dispatchFrame, deliveryVars, ReturnReceipt
    <3> QED BY <3>1, <3>2
  <2>2. ASSUME NEW l \in Lanes, DeliveryStep(l)
        PROVE  UNCHANGED <<receipt, delivery>> \/ BeginDelivery(l) \/ RecordFailure(l) \/ Consume(l)
    BY <2>2
       DEF DeliveryStep, ConsumeOutcome, BeginSettledDelivery, BeginUnboundDelivery, ConsumeAgain,
           ConsumeConflicts, ConsumeFails, ConsumeRejects, DeliveryStopped, deliveryVars
  <2>3. ASSUME NEW a \in Attempts, Carrier(a)
        PROVE  \/ UNCHANGED <<receipt, delivery>>
               \/ \E d \in Deliveries : receipt' = receipt /\ delivery' = Filed(d)
    BY <2>3, AttemptTasks DEF Carrier, CallbackReconciles, CallbackBinds, CallEnds, deliveryVars
  <2>4. CASE \/ UNCHANGED vars \/ FileDueAttempts \/ FindNothingDue
             \/ \E l \in Lanes : ClaimSome(l) \/ LaneDies(l) \/ PrepareReads(l)
             \/ \E t \in Tasks : ClaimExpires(t)
             \/ ControlStep
    BY <2>4, ControlFrame
       DEF vars, FileDueAttempts, FindNothingDue, ClaimSome, ClaimAttempt, ClaimDelivery,
           LaneDies, PrepareReads,
           ClaimExpires, controlFrame,
           deliveryVars
  <2>5. ASSUME NEW d \in Deliveries, Nudge(d)
        PROVE  UNCHANGED <<receipt, delivery>> \/ BindDelivery(d)
    BY <2>5 DEF Nudge, SpawnDelivery, deliveryVars
  <2> QED BY <2>1, <2>2, <2>3, <2>4, <2>5, NextSteps
<1>3. CASE UNCHANGED <<receipt, delivery>>  BY <1>3
<1>4. ASSUME NEW d \in Deliveries, receipt' = receipt /\ delivery' = Filed(d)
      PROVE  /\ receipt' \subseteq Deliveries
             /\ \A e \in Deliveries : delivery'[e].attempts <= MaxTries
  BY <1>1, <1>4 DEF Filed, DeliveryKind
<1>5. ASSUME NEW d \in Deliveries, BindDelivery(d)
      PROVE  /\ receipt' \subseteq Deliveries
             /\ \A e \in Deliveries : delivery'[e].attempts <= MaxTries
  BY <1>1, <1>5 DEF BindDelivery, DeliveryKind
<1>6. ASSUME NEW l \in Lanes, BeginDelivery(l) \/ RecordFailure(l) \/ Consume(l)
      PROVE  /\ receipt' \subseteq Deliveries
             /\ \A e \in Deliveries : delivery'[e].attempts <= MaxTries
  <2>1. PICK d \in Deliveries : d = Job(l)
    BY <1>6, AttemptPCs DEF LaneOK, BeginDelivery, RecordFailure, Consume, At, Job
  <2>2. delivery[d].attempts \in Nat /\ MaxTries \in Nat  BY <1>1, TaskStates DEF DeliveryKind
  <2>3. /\ receipt' \subseteq receipt \union {d}
        /\ \E s, n : /\ delivery' = [delivery EXCEPT ![d].state = s, ![d].attempts = n]
                     /\ n <= MaxTries
    <3>1. CASE BeginDelivery(l)
      <4>1. PICK s, n : /\ s = IF delivery[d].attempts >= MaxTries THEN "dead_letter" ELSE "running"
                        /\ n = IF delivery[d].attempts >= MaxTries THEN delivery[d].attempts
                               ELSE delivery[d].attempts + 1
        OBVIOUS
      <4>2. n <= MaxTries  BY <2>2, <4>1
      <4> QED BY <2>1, <3>1, <4>1, <4>2 DEF BeginDelivery
    <3>2. CASE RecordFailure(l)
      <4>1. PICK s : delivery' = [delivery EXCEPT ![d].state = s] /\ receipt' = receipt
        BY <2>1, <3>2 DEF RecordFailure
      <4>2. delivery' = [delivery EXCEPT ![d].state = s, ![d].attempts = delivery[d].attempts]
        BY <1>1, <4>1 DEF DeliveryKind
      <4> QED BY <4>1, <4>2
    <3>3. CASE Consume(l)
      <4>1. delivery' = [delivery EXCEPT ![d].state = "succeeded"] /\ receipt' = receipt \union {d}
        BY <2>1, <3>3 DEF Consume
      <4>2. delivery' = [delivery EXCEPT ![d].state = "succeeded", ![d].attempts = delivery[d].attempts]
        BY <1>1, <4>1 DEF DeliveryKind
      <4> QED BY <4>1, <4>2
    <3> QED BY <1>6, <3>1, <3>2, <3>3
  <2>4. PICK s, n : /\ delivery' = [delivery EXCEPT ![d].state = s, ![d].attempts = n]
                    /\ n <= MaxTries
    BY <2>3
  <2> QED BY <1>1, <2>3, <2>4 DEF DeliveryKind
<1> QED BY <1>2, <1>3, <1>4, <1>5, <1>6

LEMMA CallsTyped ==
  ASSUME LaneOK, OutboundTypeOK, RecordTypes, [Next]_vars
  PROVE  /\ saved' \in [Attempts -> {"none"} \union OutStates]
         /\ call' \in [Attempts -> CallStates]
         /\ overtaken' \subseteq Attempts
<1>1. UNCHANGED <<saved, call, overtaken>> =>
        /\ saved' \in [Attempts -> {"none"} \union OutStates]
        /\ call' \in [Attempts -> CallStates]
        /\ overtaken' \subseteq Attempts
  BY DEF RecordTypes
<1>2. ASSUME NEW l \in Lanes, HandlerStep(l)
      PROVE  /\ saved' \in [Attempts -> {"none"} \union OutStates]
             /\ call' \in [Attempts -> CallStates]
             /\ overtaken' \subseteq Attempts
  <2>1. PICK a \in Attempts : a = Job(l)  BY <1>2, AttemptStepGoes DEF RecordTypes
  <2>2. \/ UNCHANGED <<saved, call, overtaken>>
        \/ RetryAttempt(l) \/ DispatchAuthorized(l) \/ DispatchProjects(l) \/ DispatchSaves(l)
    BY <1>2
       DEF HandlerStep, EffectStep, RowStep, FindSettled, PrepareContactGone, PrepareNotRunning,
           PrepareCancels, PrepareSkips,
           PrepareFails, Prepared, StartFenced, StartEffect, DispatchReplays,
           DispatchRecovers, DispatchSends, DispatchRecords, DispatchFails,
           CompleteDispatch, FailureFindsSettled, FailureConflicts, FailAttempt,
           SendInterrupted, AttemptStopped, ReturnReceipt
  <2>3. CASE RetryAttempt(l)
    BY <2>1, <2>3 DEF RetryAttempt, RecordTypes
  <2>4. CASE DispatchAuthorized(l)
    BY <2>1, <2>4, AttemptNames DEF DispatchAuthorized, RecordTypes
  <2>5. CASE DispatchProjects(l)
    <3>1. PICK s : /\ call' = [call EXCEPT ![a] = s] /\ s \in {call[a], "bound", "rejected"}
                   /\ UNCHANGED <<saved, overtaken>>
      BY <2>1, <2>5 DEF DispatchProjects
    <3>2. s \in CallStates  BY <3>1, AttemptNames DEF RecordTypes
    <3> QED BY <3>1, <3>2 DEF RecordTypes
  <2>6. CASE DispatchSaves(l)
    <3>1. lane[l].res \in {"none"} \union OutStates  BY DEF LaneOK, LaneRow, Results
    <3> QED BY <2>1, <2>6, <3>1 DEF DispatchSaves, RecordTypes
  <2> QED BY <1>1, <2>2, <2>3, <2>4, <2>5, <2>6
<1>3. ASSUME NEW l \in Lanes, ConsumeOutcome(l)
      PROVE  /\ saved' \in [Attempts -> {"none"} \union OutStates]
             /\ call' \in [Attempts -> CallStates]
             /\ overtaken' \subseteq Attempts
  BY <1>3 DEF ConsumeOutcome, ApplyOutcome, RecordTypes
<1>4. ASSUME NEW a \in Attempts, Carrier(a)
      PROVE  /\ saved' \in [Attempts -> {"none"} \union OutStates]
             /\ call' \in [Attempts -> CallStates]
             /\ overtaken' \subseteq Attempts
  BY <1>4, AttemptNames
     DEF Carrier, CallbackReconciles, CallbackBinds, CallEnds, RecordTypes
<1>5. CASE \/ UNCHANGED vars \/ FileDueAttempts \/ FindNothingDue
           \/ \E l \in Lanes : ClaimSome(l) \/ LaneDies(l) \/ PrepareReads(l)
           \/ \E l \in Lanes : DeliveryStep(l) /\ ~ConsumeOutcome(l)
           \/ \E t \in Tasks : ClaimExpires(t)
           \/ \E d \in Deliveries : Nudge(d)
           \/ ControlStep
  <2>1. UNCHANGED <<saved, call, overtaken>>
    BY <1>5, ControlFrame
       DEF vars, FileDueAttempts, FindNothingDue, ClaimSome, ClaimAttempt, LaneDies, PrepareReads,
           DeliveryStep,
           ClaimExpires, Nudge, controlFrame,
           campaignFrame
  <2> QED BY <1>1, <2>1
<1> QED BY <1>2, <1>3, <1>4, <1>5, NextSteps

LEMMA NextTypes ==
  SendInv /\ DeliveryInv /\ DoneInv /\ PoolInv /\ TypeInv /\ RecordInv /\ [Next]_vars
    => TypeInv' /\ PoolInv' /\ \A t \in Tasks : StaysFinished(t)
<1> SUFFICES ASSUME SendInv, DeliveryInv, DoneInv, PoolInv, TypeInv, RecordInv, [Next]_vars
             PROVE  TypeInv' /\ PoolInv' /\ \A t \in Tasks : StaysFinished(t)
  OBVIOUS
<1>1. LaneOK /\ OutboundTypeOK /\ RecordTypes /\ RowsOK  BY DEF SendInv, DoneInv, TypeInv
<1>2. TriesStay /\ attempt' \in [Attempts -> AttemptKind]  BY NextTries
<1>3. \A c \in Contacts : contact'[c].count <= MaxNumber
  BY <1>1, ContactSteps, CountsStay DEF RecordTypes
<1>4. /\ receipt' \subseteq Deliveries
      /\ \A d \in Deliveries : delivery'[d].attempts <= MaxTries
      /\ upsets' \in 0..MaxUpsets
  BY <1>1, ReceiptsKeep, UpsetsKeep DEF RecordTypes
<1>5. UnderwayInv'
  <2>1. ReadsOK'  BY <1>1, NextKeepsDone DEF DoneInv
  <2> QED BY <1>1, <2>1, NextUnderway DEF RecordTypes
<1>6. RecordTypes'  BY <1>1, <1>2, <1>3, <1>4, <1>5, CallsTyped DEF RecordTypes
<1> QED BY <1>2, <1>6 DEF TypeInv, TriesStay

LEMMA InitTypes == Init => PoolInv /\ TypeInv
<1> SUFFICES ASSUME Init PROVE PoolInv /\ TypeInv  OBVIOUS
<1>1. PoolInv  BY InitPool DEF Init
<1>2. RecordTypes
  <2>1. \A c \in Contacts : contact[c].count = 0  BY DEF Init
  <2>2. \A d \in Deliveries : delivery[d].attempts = 0 /\ receipt = {}  BY DEF Init, DeliveryInit
  <2>3. upsets = 0 /\ overtaken = {}  BY DEF Init, PoolInit
  <2>4. /\ attempt \in [Attempts -> AttemptKind]
        /\ saved \in [Attempts -> {"none"} \union OutStates]
        /\ call \in [Attempts -> CallStates]
    BY AttemptNames DEF Init, AttemptKind
  <2>5. receipt = {}  BY DEF Init, DeliveryInit
  <2>6. UnderwayInv
    <3>1. ReadsOK  BY InitDone DEF DoneInv
    <3>2. \A l \in Lanes : read[l] = Unread  BY DEF Init
    <3>3. \A c \in Contacts : scope[c].unstarted = {} /\ scope[c].filed = {}
      BY DEF Init, NoScope
    <3>4. blind = {}  BY DEF Init
    <3> QED BY <3>1, <3>2, <3>3, <3>4, NthAttempts DEF UnderwayInv, Locks, Unread
  <2> QED BY <2>1, <2>2, <2>3, <2>4, <2>5, <2>6, PoolAssumption, NthAttempts DEF RecordTypes
<1>3. ASSUME NEW a \in Attempts PROVE TriesCover(a)
  <2>1. \A l \in Lanes : lane[l].job = NoTask  BY DEF Init, PoolInit, Idle
  <2>2. Starting(a, "prepare") = {}  BY <2>1, AttemptTasks DEF Starting
  <2>3. attempt[a].attempts = 0 /\ task[a].tries = 0  BY AttemptTasks DEF Init, PoolInit
  <2> QED BY <2>2, <2>3, FS_EmptySet DEF TriesCover
<1> QED BY <1>1, <1>2, <1>3 DEF TypeInv

(* What is known of every reachable state.                                 *)
BaseInv ==
  SendInv /\ DeliveryInv /\ DoneInv /\ PoolInv /\ TypeInv /\ RecordInv

LEMMA InitBase == Init => BaseInv
BY InitSends, InitKeepsContract, InitDone, InitTypes, InitRecords DEF BaseInv

LEMMA NextBase == BaseInv /\ [Next]_vars => BaseInv' /\ \A t \in Tasks : StaysFinished(t)
<1> SUFFICES ASSUME BaseInv, [Next]_vars PROVE BaseInv' /\ \A t \in Tasks : StaysFinished(t)
  OBVIOUS
<1>1. LaneOK /\ RecordTypes  BY DEF BaseInv, SendInv, TypeInv
<1>2. SendInv' /\ DeliveryInv' /\ DoneInv'
  BY <1>1, NextSends, NextKeepsContract, NextKeepsDone DEF BaseInv
<1>3. TypeInv' /\ PoolInv' /\ \A t \in Tasks : StaysFinished(t)
  BY NextTypes DEF BaseInv
<1>4. RecordInv'  BY <1>1, NextRecords DEF BaseInv
<1> QED BY <1>2, <1>3, <1>4 DEF BaseInv

LEMMA BaseTypes == BaseInv => TypeOK
<1> SUFFICES ASSUME BaseInv PROVE TypeOK  OBVIOUS
<1>1. /\ task \in [Tasks -> TaskRow] /\ upsets \in 0..MaxUpsets
      /\ lane \in [Lanes -> LaneRow({"idle"} \union DeliverySteps \union AttemptSteps,
                                    {"none"} \union OutStates)]
      /\ OutboundTypeOK
  BY DEF BaseInv, PoolInv, TypeInv, RecordTypes, SendInv, LaneOK, PCs, Results
<1>2. DeliveryTypeOK
  <2>1. delivery \in [Deliveries -> DeliveryKind] /\ receipt \subseteq Deliveries
    BY DEF BaseInv, DeliveryInv, TypeInv, RecordTypes
  <2>2. ASSUME NEW d \in Deliveries PROVE delivery[d] \in DeliveryRow
    <3>1. delivery[d] \in DeliveryKind /\ delivery[d].attempts <= MaxTries
      BY <2>1 DEF BaseInv, TypeInv, RecordTypes
    <3>2. delivery[d].attempts \in 0..MaxTries  BY <3>1, TaskStates DEF DeliveryKind
    <3> QED BY <3>1, <3>2 DEF DeliveryKind, DeliveryState, DeliveryRow
  <2>3. applied \in [Deliveries -> 0..2]
    <3>1. applied = [d \in Deliveries |-> IF delivery[d].state = "succeeded" THEN 1 ELSE 0]
      BY DEF BaseInv, DeliveryInv
    <3> QED BY <3>1
  <2> QED BY <2>1, <2>2, <2>3 DEF DeliveryTypeOK
<1>3. campaign \in CampaignRow
  BY DEF BaseInv, DoneInv, RowsOK, CampaignKind, CampaignRow
<1>4. contact \in [Contacts -> ContactRow]
  <2>1. ASSUME NEW c \in Contacts PROVE contact[c] \in ContactRow
    <3>1. contact[c] \in ContactKind /\ contact[c].count <= MaxNumber
      BY DEF BaseInv, DoneInv, RowsOK, TypeInv, RecordTypes
    <3>2. contact[c].count \in 0..MaxNumber  BY <3>1, NthAttempts DEF ContactKind
    <3> QED BY <3>1, <3>2 DEF ContactKind, ContactStates, ContactRow
  <2> QED BY <2>1 DEF BaseInv, DoneInv, RowsOK
<1>5. attempt \in [Attempts -> AttemptRow]
  <2>1. ASSUME NEW a \in Attempts PROVE attempt[a] \in AttemptRow
    <3>1. attempt[a] \in AttemptKind /\ TriesCover(a) /\ task[a] \in TaskRow
      BY AttemptTasks DEF BaseInv, TypeInv, RecordTypes, PoolInv
    <3>2. Cardinality(Starting(a, "prepare")) \in Nat  BY StartingFinite
    <3>3. /\ attempt[a].attempts \in Nat /\ task[a].tries \in 0..MaxTries
          /\ attempt[a].attempts + Cardinality(Starting(a, "prepare")) <= task[a].tries
      BY <3>1 DEF AttemptKind, TaskRow, TriesCover
    <3>4. attempt[a].attempts \in 0..MaxTries  BY <3>2, <3>3, TaskStates
    <3> QED BY <3>1, <3>4 DEF AttemptKind, AttemptStates, AttemptRow
  <2> QED BY <2>1 DEF BaseInv, TypeInv, RecordTypes
<1>6. /\ saved \in [Attempts -> {"none"} \union OutStates]
      /\ call \in [Attempts -> {"none", "intent", "bound"} \union EndedCall]
      /\ overtaken \subseteq Attempts
  BY DEF BaseInv, TypeInv, RecordTypes, CallStates
<1>7. /\ read \in [Lanes -> ReadRow] /\ scope \in [Contacts -> ScopeRow]
      /\ asked \in {"none", "paused", "canceled"} /\ blind \subseteq {"campaign", "contact"}
  <2>1. UnderwayInv /\ ReadsOK  BY DEF BaseInv, TypeInv, RecordTypes, UnderwayInv
  <2>2. ASSUME NEW l \in Lanes PROVE read[l] \in ReadRow
    <3>1. read[l] \in ReadKind /\ read[l].count <= MaxNumber
      BY <2>1 DEF UnderwayInv, ReadsOK
    <3>2. read[l].count \in 0..MaxNumber  BY <3>1, NthAttempts DEF ReadKind
    <3> QED BY <3>1, <3>2 DEF ReadKind, ContactStates, ReadRow
  <2> QED BY <2>1, <2>2 DEF UnderwayInv, ReadsOK, ContactStates, ScopeRow
<1> QED BY <1>1, <1>2, <1>3, <1>4, <1>5, <1>6, <1>7 DEF TypeOK

(* Every variable of a campaign keeps its type: in particular an attempt is *)
(* begun at most as often as its task may be tried, and a contact is never  *)
(* filed beyond the retries of its policy.                                  *)
THEOREM TypeCorrect == Spec => []TypeOK
<1>1. Init => BaseInv  BY InitBase
<1>2. BaseInv /\ [Next]_vars => BaseInv'  BY NextBase
<1>3. BaseInv => TypeOK  BY BaseTypes
<1> QED BY <1>1, <1>2, <1>3, PTL DEF Spec

-----------------------------------------------------------------------------
(* The story of a contact: where its row stands among its attempts         *)

Counted == {"completed", "failed", "skipped"}

(* The outcome of the attempt was applied, and it was not a connected call.*)
Past(a) == Told(a) /\ call[a] # "connected"

OnFileAt(c, k) == k \in 1..MaxNumber /\ OnFile(Nth(c, k))

(* Of a contact c that has been tried n times and has status s: attempts   *)
(* are filed one after the other, each when the one before is past; only   *)
(* the latest can still do something to the contact, and only before it is *)
(* tried; and what the status says is true.                                *)
StoryOf(c, n, s) ==
  /\ n > 0 => OnFileAt(c, n)
  /\ \A j \in 1..MaxNumber : OnFile(Nth(c, j)) =>
       j <= n + 1 /\ \A k \in 1..MaxNumber : k < j => Past(Nth(c, k))
  /\ \A j \in 1..MaxNumber : Acting(Nth(c, j)) => j > n /\ s \notin Counted
  /\ s \in {"pending", "retry"} /\ ~OnFileAt(c, n + 1) =>
       n < MaxNumber /\ (n > 0 => Past(Nth(c, n)))
  /\ s = "queued" => n < MaxNumber /\ Open(Nth(c, n + 1))
  /\ s = "in_progress" => n > 0 /\ saved[Nth(c, n)] = "succeeded" /\ ~Told(Nth(c, n))

Story(c) == StoryOf(c, contact[c].count, contact[c].status)

(* What every step but the filing makes of an attempt.                     *)
AttemptMoves(a) ==
  /\ OnFile(a)' <=> OnFile(a)
  /\ Open(a)' => Open(a)
  /\ Acting(a)' => Acting(a)
  /\ Past(a) => Past(a)'
  /\ saved[a] = "succeeded" => saved'[a] = "succeeded"

Moves(c) == \A k \in 1..MaxNumber : AttemptMoves(Nth(c, k))

LEMMA StoryStays ==
  ASSUME NEW c \in Contacts, NEW n \in Nat, NEW s, StoryOf(c, n, s), Moves(c),
         s = "queued" => Open(Nth(c, n + 1))',
         s = "in_progress" => ~Told(Nth(c, n))'
  PROVE  StoryOf(c, n, s)'
<1>0. MaxNumber \in Nat \ {0}  BY NthAttempts
<1>1. \A k : OnFileAt(c, k)' <=> OnFileAt(c, k)
  BY DEF OnFileAt, Moves, AttemptMoves
<1>2. (n > 0 => OnFileAt(c, n))'  BY <1>1 DEF StoryOf
<1>3. (\A j \in 1..MaxNumber : OnFile(Nth(c, j)) =>
         j <= n + 1 /\ \A k \in 1..MaxNumber : k < j => Past(Nth(c, k)))'
  BY DEF StoryOf, Moves, AttemptMoves
<1>4. (\A j \in 1..MaxNumber : Acting(Nth(c, j)) => j > n /\ s \notin Counted)'
  BY DEF StoryOf, Moves, AttemptMoves
<1>5. n > 0 /\ n <= MaxNumber => n \in 1..MaxNumber  BY <1>0
<1>6. (s \in {"pending", "retry"} /\ ~OnFileAt(c, n + 1) =>
         n < MaxNumber /\ (n > 0 => Past(Nth(c, n))))'
  BY <1>0, <1>1, <1>5 DEF StoryOf, Moves, AttemptMoves
<1>7. (s = "in_progress" => n > 0 /\ saved[Nth(c, n)] = "succeeded" /\ ~Told(Nth(c, n)))'
  BY <1>0, <1>5 DEF StoryOf, Moves, AttemptMoves, OnFileAt
<1>8. (s = "queued" => n < MaxNumber /\ Open(Nth(c, n + 1)))'  BY DEF StoryOf
<1> QED BY <1>2, <1>3, <1>4, <1>6, <1>7, <1>8 DEF StoryOf

(* The contact is released.                                                *)
LEMMA StoryReleased ==
  ASSUME NEW c \in Contacts, NEW n \in Nat, NEW s, StoryOf(c, n, s), Moves(c),
         NEW to, to = "cancelled" \/ (to = "pending" /\ OnFileAt(c, n + 1))
  PROVE  StoryOf(c, n, to)'
<1>1. \A k : OnFileAt(c, k)' <=> OnFileAt(c, k)
  BY DEF OnFileAt, Moves, AttemptMoves
<1>2. (n > 0 => OnFileAt(c, n))'  BY <1>1 DEF StoryOf
<1>3. (\A j \in 1..MaxNumber : OnFile(Nth(c, j)) =>
         j <= n + 1 /\ \A k \in 1..MaxNumber : k < j => Past(Nth(c, k)))'
  BY DEF StoryOf, Moves, AttemptMoves
<1>4. (\A j \in 1..MaxNumber : Acting(Nth(c, j)) => j > n /\ to \notin Counted)'
  BY DEF StoryOf, Moves, AttemptMoves, Counted
<1>5. (to \in {"pending", "retry"} => OnFileAt(c, n + 1))'  BY <1>1
<1>6. to # "queued" /\ to # "in_progress"  OBVIOUS
<1> QED BY <1>2, <1>3, <1>4, <1>5, <1>6 DEF StoryOf

(* The attempt that can do something to the contact is the next one.       *)
LEMMA ActingIsNext ==
  ASSUME NEW c \in Contacts, NEW n \in Nat, NEW s, StoryOf(c, n, s),
         NEW k \in 1..MaxNumber, Acting(Nth(c, k)), OnFile(Nth(c, k))
  PROVE  k = n + 1 /\ s \notin Counted
BY NthAttempts DEF StoryOf

(* An attempt whose outcome has not been applied is the latest one.        *)
LEMMA UntoldIsLatest ==
  ASSUME NEW c \in Contacts, NEW n \in Nat, NEW s, StoryOf(c, n, s),
         NEW k \in 1..MaxNumber, OnFile(Nth(c, k)), ~Told(Nth(c, k))
  PROVE  /\ k = n \/ k = n + 1
         /\ \A j \in 1..MaxNumber : OnFile(Nth(c, j)) => j <= k
<1>1. \A j \in 1..MaxNumber : OnFile(Nth(c, j)) => j <= n + 1 /\ ~(k < j)
  BY DEF StoryOf, Past
<1>2. n > 0 => n \in 1..MaxNumber /\ OnFile(Nth(c, n))  BY DEF StoryOf, OnFileAt
<1> QED BY <1>1, <1>2, NthAttempts

(* The contact is tried with attempt k, after which nobody acts on it.     *)
LEMMA StoryTried ==
  ASSUME NEW c \in Contacts, NEW n \in Nat, NEW s, StoryOf(c, n, s), Moves(c),
         NEW k \in 1..MaxNumber, OnFile(Nth(c, k)), k = n \/ k = n + 1,
         \A j \in 1..MaxNumber : Acting(Nth(c, j))' => j > k /\ s \notin Counted,
         NEW to,
         \/ to \in Counted /\ \A j \in 1..MaxNumber : ~Acting(Nth(c, j))'
         \/ to = "cancelled"
         \/ to = "retry" /\ k < MaxNumber /\ Past(Nth(c, k))'
         \/ to = "in_progress" /\ saved'[Nth(c, k)] = "succeeded" /\ ~Told(Nth(c, k))'
  PROVE  StoryOf(c, k, to)'
<1>0. MaxNumber \in Nat \ {0} /\ k \in Nat /\ k > 0  BY NthAttempts
<1>1. (k > 0 => OnFileAt(c, k))'  BY DEF OnFileAt, Moves, AttemptMoves
<1>2. (\A j \in 1..MaxNumber : OnFile(Nth(c, j)) =>
         j <= n + 1 /\ \A i \in 1..MaxNumber : i < j => Past(Nth(c, i)))'
  BY DEF StoryOf, Moves, AttemptMoves
<1>3. (\A j \in 1..MaxNumber : OnFile(Nth(c, j)) =>
         j <= k + 1 /\ \A i \in 1..MaxNumber : i < j => Past(Nth(c, i)))'
  BY <1>0, <1>2
<1>4. (\A j \in 1..MaxNumber : Acting(Nth(c, j)) => j > k /\ to \notin Counted)'
  BY DEF Counted
<1>5. /\ to = "queued" \/ to = "pending" => FALSE
      /\ to = "retry" => k < MaxNumber /\ Past(Nth(c, k))'
      /\ to = "in_progress" => saved'[Nth(c, k)] = "succeeded" /\ ~Told(Nth(c, k))'
  BY DEF Counted
<1> QED BY <1>0, <1>1, <1>3, <1>4, <1>5 DEF StoryOf

(* The next attempt is filed.                                              *)
LEMMA StoryFiled ==
  ASSUME NEW c \in Contacts, NEW n \in Nat, NEW s \in {"pending", "retry"}, StoryOf(c, n, s),
         NEW k \in 1..MaxNumber, k = n + 1, ~OnFile(Nth(c, k)),
         OnFile(Nth(c, k))', Open(Nth(c, k))',
         \A j \in 1..MaxNumber : /\ j # k => AttemptMoves(Nth(c, j))
                                 /\ Past(Nth(c, j)) => Past(Nth(c, j))'
  PROVE  StoryOf(c, n, "queued")'
<1>0. MaxNumber \in Nat \ {0} /\ k \in Nat  BY NthAttempts
<1>1. ~OnFileAt(c, n + 1) /\ n < MaxNumber  BY <1>0 DEF OnFileAt
<1>2. n > 0 => n \in 1..MaxNumber /\ OnFile(Nth(c, n)) /\ Past(Nth(c, n))
  BY <1>0, <1>1 DEF StoryOf, OnFileAt
<1>3. \A i \in 1..MaxNumber : i < k => Past(Nth(c, i))
  <2>1. \A i \in 1..MaxNumber : i < n => Past(Nth(c, i))
    BY <1>0, <1>2 DEF StoryOf
  <2> QED BY <1>0, <1>2, <2>1
<1>4. (n > 0 => OnFileAt(c, n))'
  BY <1>0, <1>2 DEF OnFileAt, AttemptMoves
<1>5. (\A j \in 1..MaxNumber : OnFile(Nth(c, j)) =>
         j <= n + 1 /\ \A i \in 1..MaxNumber : i < j => Past(Nth(c, i)))'
  <2> SUFFICES ASSUME NEW j \in 1..MaxNumber, OnFile(Nth(c, j))'
               PROVE  j <= n + 1 /\ \A i \in 1..MaxNumber : i < j => Past(Nth(c, i))'
    OBVIOUS
  <2>1. CASE j = k  BY <1>0, <1>3, <2>1
  <2>2. CASE j # k
    <3>1. OnFile(Nth(c, j))  BY <2>2 DEF AttemptMoves
    <3> QED BY <3>1 DEF StoryOf
  <2> QED BY <2>1, <2>2
<1>6. (\A j \in 1..MaxNumber : Acting(Nth(c, j)) => j > n /\ "queued" \notin Counted)'
  <2> SUFFICES ASSUME NEW j \in 1..MaxNumber, Acting(Nth(c, j))' PROVE j > n
    BY DEF Counted
  <2>1. CASE j = k  BY <1>0, <2>1
  <2>2. CASE j # k
    <3>1. Acting(Nth(c, j))  BY <2>2 DEF AttemptMoves
    <3> QED BY <3>1 DEF StoryOf
  <2> QED BY <2>1, <2>2
<1> QED BY <1>1, <1>4, <1>5, <1>6 DEF StoryOf

(* What every step does to the checkpoints and the calls.                  *)
LEMMA NextCalls ==
  ASSUME BaseInv, [Next]_vars
  PROVE  \A a \in Attempts :
           /\ saved[a] = "succeeded" => saved'[a] = "succeeded"
           /\ call'[a] = "connected" => call[a] \in {"connected", "bound"}
<1>1. /\ LaneOK /\ RecordTypes /\ RecordInv  BY DEF BaseInv, TypeInv, SendInv
<1>2. saved \in [Attempts -> {"none"} \union OutStates] /\ call \in [Attempts -> CallStates]
  BY <1>1 DEF RecordTypes
<1>3. ASSUME NEW l \in Lanes, HandlerStep(l)
      PROVE  \A a \in Attempts :
               /\ saved[a] = "succeeded" => saved'[a] = "succeeded"
               /\ call'[a] = "connected" => call[a] \in {"connected", "bound"}
  <2>1. CASE RowStep(l)  BY <2>1, HandlerSteps
  <2>2. CASE DispatchAuthorized(l) \/ DispatchProjects(l)
    BY <1>2, <2>2 DEF DispatchAuthorized, DispatchProjects
  <2>3. CASE DispatchSaves(l)
    <3>1. PICK b \in Attempts : b = Job(l) /\ LaneTells(b, "save", lane[l].res, lane[l].holds)
      BY <1>1, <2>3, DispatchNames, DispatchingLane DEF DispatchSaves
    <3>2. saved[b] = "none"  BY <2>3, <3>1 DEF DispatchSaves, LaneTells, Unsaved
    <3> QED BY <1>2, <2>3, <3>1, <3>2 DEF DispatchSaves
  <2>4. CASE DispatchRecovers(l) \/ DispatchSends(l) \/ DispatchRecords(l) \/ SendInterrupted(l)
    BY <2>4 DEF DispatchRecovers, DispatchSends, DispatchRecords, SendInterrupted
  <2> QED BY <1>3, <2>1, <2>2, <2>3, <2>4 DEF HandlerStep, EffectStep
<1>4. ASSUME NEW b \in Attempts, Carrier(b)
      PROVE  \A a \in Attempts :
               /\ saved[a] = "succeeded" => saved'[a] = "succeeded"
               /\ call'[a] = "connected" => call[a] \in {"connected", "bound"}
  BY <1>2, <1>4 DEF Carrier, CallbackReconciles, CallbackBinds, CallEnds
<1>5. CASE UNCHANGED <<saved, call>>  BY <1>5
<1>6. ASSUME NEW l \in Lanes, DeliveryStep(l)
      PROVE  UNCHANGED <<saved, call>>
  BY <1>6 DEF DeliveryStep, ConsumeOutcome, campaignFrame
<1>7. CASE \/ UNCHANGED vars \/ FileDueAttempts \/ FindNothingDue
           \/ \E l \in Lanes : ClaimSome(l) \/ LaneDies(l) \/ PrepareReads(l)
           \/ \E t \in Tasks : ClaimExpires(t)
           \/ \E d \in Deliveries : Nudge(d)
           \/ ControlStep
  BY <1>5, <1>7, ControlFrame
     DEF vars, FileDueAttempts, FindNothingDue, ClaimSome, ClaimAttempt, LaneDies, PrepareReads,
         ClaimExpires,
         Nudge, controlFrame, campaignFrame
<1> QED BY <1>3, <1>4, <1>5, <1>6, <1>7, NextSteps

(* The outcome of an attempt is applied once its call has ended.           *)
LEMMA ToldCalls ==
  ASSUME BaseInv, NEW a \in Attempts, Told(a)
  PROVE  call[a] \in EndedCall
BY DEF BaseInv, RecordInv, CallInv

LEMMA NextMoves ==
  ASSUME BaseInv, [Next]_vars, ~FileDueAttempts
  PROVE  \A a \in Attempts : AttemptMoves(a)
<1> SUFFICES ASSUME NEW a \in Attempts PROVE AttemptMoves(a)
  OBVIOUS
<1>1. RowMoves(attempt[a], attempt'[a])  BY NextRowsMove DEF RowsMove, BaseInv, TypeInv
<1>2. StaysFinished(a)  BY NextBase, AttemptTasks
<1>3. (OnFile(a)' <=> OnFile(a)) /\ (Open(a)' => Open(a)) /\ (Started(a) => Started(a)')
      /\ (Told(a) => Told(a)')
  BY <1>1 DEF RowMoves, OnFile, Open, Started, Told
<1>4. Acting(a)' => Acting(a)  BY <1>2, <1>3 DEF Acting, StaysFinished
<1>5. Past(a) => Past(a)'
  <2>1. Told(a) => call[a] # "bound"  BY ToldCalls, AttemptNames
  <2> QED BY <1>3, <2>1, NextCalls DEF Past
<1> QED BY <1>3, <1>4, <1>5, NextCalls DEF AttemptMoves

-----------------------------------------------------------------------------
(* Tallies *)

Reached   == ContactsIn({"completed"})
Unreached == ContactsIn({"failed", "skipped"})

(* The tallies, and those a preparing transaction has read.                *)
Tallied ==
  "contact" \notin blind =>
    /\ campaign.completed = Cardinality(Reached)
    /\ campaign.failed <= Cardinality(Unreached)
    /\ blind = {} => campaign.failed = Cardinality(Unreached)
    /\ \A l \in Lanes : read[l] # Unread => read[l].failed <= Cardinality(Unreached)

(* No contact comes to count, or ceases to.                                *)
NoneCounts ==
  /\ campaign'.completed = campaign.completed /\ campaign'.failed = campaign.failed
  /\ \A c \in Contacts :
       \/ contact'[c].status = contact[c].status
       \/ contact'[c].status \notin Counted /\ contact[c].status \notin Counted

(* One contact comes to count, and is counted: as a failure that may be    *)
(* added to an old tally.                                                  *)
Addend(n) == n = campaign.failed \/ (blind' # {} /\ \E l \in Lanes : read[l] # Unread /\ n = read[l].failed)

OneCounts(c) ==
  /\ contact[c].status \notin Counted
  /\ \A d \in Contacts : d # c => contact'[d].status = contact[d].status
  /\ \/ /\ contact'[c].status = "completed"
        /\ campaign'.completed = campaign.completed + 1 /\ campaign'.failed = campaign.failed
     \/ /\ contact'[c].status \in {"failed", "skipped"}
        /\ campaign'.completed = campaign.completed
        /\ \E n : Addend(n) /\ campaign'.failed = n + 1

TalliesMove == "contact" \notin blind' => NoneCounts \/ \E c \in Contacts : OneCounts(c)

LEMMA ClosedTallies ==
  ASSUME NEW cam \in CampaignKind, NEW con
  PROVE  Closed(cam, con).completed = cam.completed /\ Closed(cam, con).failed = cam.failed
BY DEF Closed, CampaignKind

LEMMA CountedTallies ==
  ASSUME NEW cam \in CampaignKind
  PROVE  /\ [cam EXCEPT !.failed = @ + 1].failed = cam.failed + 1
         /\ [cam EXCEPT !.failed = @ + 1].completed = cam.completed
         /\ [cam EXCEPT !.completed = @ + 1].completed = cam.completed + 1
         /\ [cam EXCEPT !.completed = @ + 1].failed = cam.failed
BY DEF CampaignKind

LEMMA TalliesStay ==
  ASSUME campaign'.completed = campaign.completed, campaign'.failed = campaign.failed,
         \A c \in Contacts :
           \/ contact'[c].status = contact[c].status
           \/ contact'[c].status \notin Counted /\ contact[c].status \notin Counted
  PROVE  TalliesMove
BY DEF TalliesMove, NoneCounts

LEMMA TalliesCount ==
  ASSUME NEW c \in Contacts, contact[c].status \notin Counted,
         \A d \in Contacts : d # c => contact'[d].status = contact[d].status,
         \/ /\ contact'[c].status = "completed"
            /\ campaign'.completed = campaign.completed + 1 /\ campaign'.failed = campaign.failed
         \/ /\ contact'[c].status \in {"failed", "skipped"}
            /\ campaign'.completed = campaign.completed /\ campaign'.failed = campaign.failed + 1
  PROVE  TalliesMove
<1>1. \A n : n = campaign.failed => Addend(n)  BY DEF Addend
<1>2. OneCounts(c)  BY <1>1 DEF OneCounts
<1> QED BY <1>2 DEF TalliesMove

LEMMA OneMore ==
  ASSUME NEW S \in SUBSET Contacts, NEW c \in Contacts, c \notin S
  PROVE  Cardinality(S \union {c}) = Cardinality(S) + 1
<1>1. IsFiniteSet(S)  BY CampaignAssumption, FS_Subset
<1> QED BY <1>1, FS_AddElement

LEMMA ContactsAreFinite ==
  /\ Cardinality(Reached) \in Nat /\ Cardinality(Unreached) \in Nat
  /\ Reached \in SUBSET Contacts /\ Unreached \in SUBSET Contacts
<1>1. Reached \in SUBSET Contacts /\ Unreached \in SUBSET Contacts
  BY DEF Reached, Unreached, ContactsIn
<1>2. IsFiniteSet(Reached) /\ IsFiniteSet(Unreached)  BY <1>1, CampaignAssumption, FS_Subset
<1> QED BY <1>1, <1>2, FS_CardinalityType

(* The tallies stay those of the contacts.                                 *)
LEMMA TalliesGoOn ==
  ASSUME Tallied, TalliesMove, campaign \in CampaignKind, read \in [Lanes -> ReadKind],
         blind \subseteq blind',
         \A l \in Lanes : read'[l] # Unread =>
           read'[l] = read[l] \/ read'[l].failed = campaign.failed
  PROVE  Tallied'
<1> SUFFICES ASSUME "contact" \notin blind'
             PROVE  /\ campaign'.completed = Cardinality(Reached')
                    /\ campaign'.failed <= Cardinality(Unreached')
                    /\ blind' = {} => campaign'.failed = Cardinality(Unreached')
                    /\ \A l \in Lanes :
                         read'[l] # Unread => read'[l].failed <= Cardinality(Unreached')
  BY DEF Tallied
<1> DEFINE m == Cardinality(Reached)
           n == Cardinality(Unreached)
<1>1. /\ campaign.completed = m /\ campaign.failed <= n
      /\ blind' = {} => campaign.failed = n
      /\ \A l \in Lanes : read[l] # Unread => read[l].failed <= n
      /\ \A l \in Lanes : read'[l] # Unread => read'[l].failed <= n
      /\ m \in Nat /\ n \in Nat /\ campaign.failed \in Nat
      /\ \A l \in Lanes : read[l].failed \in Nat
  <2>1. "contact" \notin blind  OBVIOUS
  <2>2. campaign.failed \in Nat /\ \A l \in Lanes : read[l].failed \in Nat
    BY DEF CampaignKind, ReadKind
  <2> QED BY <2>1, <2>2, ContactsAreFinite DEF Tallied
<1>2. CASE NoneCounts
  <2>1. Reached' = Reached  BY <1>2 DEF NoneCounts, Reached, ContactsIn, Counted
  <2>2. Unreached' = Unreached  BY <1>2 DEF NoneCounts, Unreached, ContactsIn, Counted
  <2> QED BY <1>1, <1>2, <2>1, <2>2 DEF NoneCounts
<1>3. ASSUME NEW c \in Contacts, OneCounts(c), contact'[c].status = "completed"
      PROVE  Cardinality(Reached') = m + 1 /\ Cardinality(Unreached') = n
  <2>1. c \notin Reached  BY <1>3 DEF OneCounts, Reached, ContactsIn, Counted
  <2>2. Reached' = Reached \union {c}  BY <1>3 DEF OneCounts, Reached, ContactsIn, Counted
  <2>3. Unreached' = Unreached  BY <1>3 DEF OneCounts, Unreached, ContactsIn, Counted
  <2> QED BY <2>1, <2>2, <2>3, ContactsAreFinite, OneMore
<1>4. ASSUME NEW c \in Contacts, OneCounts(c), contact'[c].status \in {"failed", "skipped"}
      PROVE  Cardinality(Reached') = m /\ Cardinality(Unreached') = n + 1
  <2>1. c \notin Unreached  BY <1>4 DEF OneCounts, Unreached, ContactsIn, Counted
  <2>2. Unreached' = Unreached \union {c}
    BY <1>4 DEF OneCounts, Unreached, ContactsIn, Counted
  <2>3. Reached' = Reached  BY <1>4 DEF OneCounts, Reached, ContactsIn, Counted
  <2> QED BY <2>1, <2>2, <2>3, ContactsAreFinite, OneMore
<1>5. ASSUME NEW c \in Contacts, OneCounts(c), contact'[c].status = "completed"
      PROVE  /\ campaign'.completed = Cardinality(Reached')
             /\ campaign'.failed <= Cardinality(Unreached')
             /\ blind' = {} => campaign'.failed = Cardinality(Unreached')
             /\ \A l \in Lanes :
                  read'[l] # Unread => read'[l].failed <= Cardinality(Unreached')
  <2>1. campaign'.completed = campaign.completed + 1 /\ campaign'.failed = campaign.failed
    BY <1>5 DEF OneCounts
  <2> QED BY <1>1, <1>3, <1>5, <2>1
<1>6. ASSUME NEW c \in Contacts, OneCounts(c), contact'[c].status \in {"failed", "skipped"}
      PROVE  /\ campaign'.completed = Cardinality(Reached')
             /\ campaign'.failed <= Cardinality(Unreached')
             /\ blind' = {} => campaign'.failed = Cardinality(Unreached')
             /\ \A l \in Lanes :
                  read'[l] # Unread => read'[l].failed <= Cardinality(Unreached')
  <2>1. PICK k : Addend(k) /\ campaign'.failed = k + 1 /\ campaign'.completed = campaign.completed
    BY <1>6 DEF OneCounts
  <2>2. k \in Nat /\ k <= n /\ (blind' = {} => k = n)  BY <1>1, <2>1 DEF Addend
  <2>3. \A l \in Lanes : read'[l] # Unread => read'[l].failed \in Nat
    BY <1>1
  <2>4. \A i \in Nat : i <= n => i <= n + 1  BY <1>1
  <2> QED BY <1>1, <1>4, <1>6, <2>1, <2>2, <2>3, <2>4
<1> QED BY <1>2, <1>5, <1>6 DEF TalliesMove, OneCounts

-----------------------------------------------------------------------------
(* The stories go on *)

(* What a preparing transaction has read of its contact holds, unless an   *)
(* operator has released the contact since.                                *)
ReadOf(r, n, s) ==
  /\ r.count = n
  /\ r.status = s \/ (r.status = "queued" /\ s \in {"pending", "cancelled"})

ReadTrue(l) ==
  LET c == ContactOf(Job(l))
  IN read[l] # Unread => ReadOf(read[l], contact[c].count, contact[c].status)

(* What an erasure has found of its contact holds where it matters.        *)
ScopeTrue(c) ==
  scope[c] # NoScope =>
    /\ scope[c].status \notin Counted
    /\ FiledFor(c) = scope[c].filed /\ contact[c].status = "queued" => scope[c].status = "queued"

Accounted ==
  /\ \A a \in Attempts : Told(a) => Finished(a)
  /\ \A c \in Contacts : Story(c)
  /\ Tallied
  /\ \A l \in Lanes : ReadTrue(l)
  /\ \A c \in Contacts : ScopeTrue(c)

OutcomeInv == overtaken = {} => Accounted

(* What an action is to show.                                              *)
StaysAccounted == (\A c \in Contacts : Story(c)') /\ TalliesMove

LEMMA StoryNow ==
  ASSUME NEW c, NEW n, NEW s, contact'[c].count = n, contact'[c].status = s, StoryOf(c, n, s)'
  PROVE  Story(c)'
BY DEF Story, StoryOf, OnFileAt, OnFile, Open, Acting, Past, Told, Started, Nth

LEMMA CountTyped ==
  ASSUME BaseInv, NEW c \in Contacts
  PROVE  contact[c].count \in Nat
BY DEF BaseInv, DoneInv, RowsOK, ContactKind

LEMMA StoryUntouched ==
  ASSUME BaseInv, NEW c \in Contacts, Story(c), Moves(c),
         contact'[c].status = contact[c].status, contact'[c].count = contact[c].count,
         \A k \in 1..MaxNumber :
           (Open(Nth(c, k)) => Open(Nth(c, k))') /\ (Told(Nth(c, k))' => Told(Nth(c, k)))
  PROVE  Story(c)'
<1>1. PICK n, s : n \in Nat /\ n = contact[c].count /\ s = contact[c].status  BY CountTyped
<1>2. StoryOf(c, n, s)  BY <1>1 DEF Story
<1>3. s = "queued" => n + 1 \in 1..MaxNumber /\ Open(Nth(c, n + 1))
  BY <1>1, <1>2, NthAttempts DEF StoryOf
<1>4. s = "in_progress" => n \in 1..MaxNumber /\ ~Told(Nth(c, n))
  BY <1>2, NthAttempts DEF StoryOf, OnFileAt
<1>5. StoryOf(c, n, s)'  BY <1>1, <1>2, <1>3, <1>4, StoryStays
<1> QED BY <1>1, <1>5, StoryNow

(* The contacts whose attempts a step leaves alone.                        *)
RowsStay(c) == \A b \in Attempts : ContactOf(b) = c => attempt'[b] = attempt[b]

LEMMA StoryOfOthers ==
  ASSUME BaseInv, \A a \in Attempts : AttemptMoves(a), NEW c \in Contacts, Story(c), RowsStay(c),
         contact'[c].status = contact[c].status, contact'[c].count = contact[c].count
  PROVE  Story(c)'
<1>1. Moves(c)  BY NthAttempts DEF Moves
<1>2. \A k \in 1..MaxNumber :
        (Open(Nth(c, k)) => Open(Nth(c, k))') /\ (Told(Nth(c, k))' => Told(Nth(c, k)))
  BY NthAttempts DEF RowsStay, Open, Told
<1> QED BY <1>1, <1>2, StoryUntouched

(* The steps that concern neither attempts nor contacts.                   *)
LEMMA FrameAccounts ==
  ASSUME BaseInv, Accounted, \A a \in Attempts : AttemptMoves(a), UNCHANGED attempt,
         \A c \in Contacts :
           contact'[c].status = contact[c].status /\ contact'[c].count = contact[c].count,
         campaign'.completed = campaign.completed, campaign'.failed = campaign.failed
  PROVE  StaysAccounted
<1>1. \A c \in Contacts : RowsStay(c)  BY DEF RowsStay
<1>2. \A c \in Contacts : Story(c)'  BY <1>1, StoryOfOthers DEF Accounted
<1>3. TalliesMove  BY TalliesStay
<1> QED BY <1>2, <1>3 DEF StaysAccounted

(* An attempt, and the contact it is for.                                  *)
CaseOf(a, c, k, n, s) ==
  /\ c \in Contacts /\ k \in 1..MaxNumber /\ n \in Nat
  /\ a = Nth(c, k) /\ c = ContactOf(a) /\ k = Number(a)
  /\ n = contact[c].count /\ s = contact[c].status
  /\ StoryOf(c, n, s)

LEMMA AttemptCase ==
  ASSUME BaseInv, Accounted, NEW a \in Attempts
  PROVE  \E c, k, n, s : CaseOf(a, c, k, n, s)
<1>1. PICK c \in Contacts, k \in 1..MaxNumber : a = Nth(c, k) /\ c = ContactOf(a) /\ k = Number(a)
  BY NthAttempts
<1>2. PICK n, s : n = contact[c].count /\ s = contact[c].status  OBVIOUS
<1>3. n \in Nat /\ StoryOf(c, n, s)  BY <1>2, CountTyped DEF Accounted, Story
<1> QED BY <1>1, <1>2, <1>3 DEF CaseOf

LEMMA OtherContacts ==
  ASSUME BaseInv, Accounted, \A b \in Attempts : AttemptMoves(b), NEW a \in Attempts,
         \A b \in Attempts : b # a => attempt'[b] = attempt[b],
         \A d \in Contacts : d # ContactOf(a) => contact'[d] = contact[d]
  PROVE  \A d \in Contacts : d # ContactOf(a) => Story(d)'
<1> SUFFICES ASSUME NEW d \in Contacts, d # ContactOf(a) PROVE Story(d)'
  OBVIOUS
<1>1. RowsStay(d)  BY DEF RowsStay
<1> QED BY <1>1, StoryOfOthers DEF Accounted

(* Nobody acts on a contact whose latest attempt is over.                  *)
LEMMA NobodyActs ==
  ASSUME NEW a, NEW c, NEW k, NEW n, NEW s, CaseOf(a, c, k, n, s),
         \A b \in Attempts : AttemptMoves(b), OnFile(a), ~Told(a), ~Acting(a)'
  PROVE  \A j \in 1..MaxNumber : ~Acting(Nth(c, j))'
<1> SUFFICES ASSUME NEW j \in 1..MaxNumber, Acting(Nth(c, j))' PROVE FALSE
  OBVIOUS
<1>1. Nth(c, j) \in Attempts /\ Nth(c, k) \in Attempts /\ a = Nth(c, k) /\ StoryOf(c, n, s)
      /\ k \in 1..MaxNumber /\ n \in Nat /\ c \in Contacts
  BY NthAttempts DEF CaseOf
<1>2. Acting(Nth(c, j))  BY <1>1 DEF AttemptMoves
<1>3. OnFile(Nth(c, j))  BY <1>2 DEF Acting, Open, OnFile
<1>4. j = n + 1  BY <1>1, <1>2, <1>3, ActingIsNext
<1>5. j <= k /\ (k = n \/ k = n + 1)  BY <1>1, <1>3, UntoldIsLatest
<1>6. j = k  BY <1>1, <1>4, <1>5
<1> QED BY <1>1, <1>6

(* What is known when a handler changes its attempt's row.                 *)
LEMMA HandlerFacts ==
  ASSUME BaseInv, Accounted, NEW l \in Lanes, RowStep(l)
  PROVE  \E a \in Attempts :
           /\ a = Job(l) /\ OnFile(a) /\ ~Told(a) /\ ~Finished(a)
           /\ CallInv(a) /\ LaneTells(a, lane[l].pc, lane[l].res, lane[l].holds)
           /\ \A b \in Attempts : b # a => attempt'[b] = attempt[b]
           /\ \A b \in Attempts : Told(b)' <=> Told(b)
           /\ UNCHANGED <<out, reached, delivery, saved, call>>
<1>1. SendInv /\ PoolInv /\ RecordTypes /\ RecordInv /\ LaneOK /\ OutboundTypeOK
  BY DEF BaseInv, TypeInv, SendInv
<1>2. HandlerStep(l) /\ UNCHANGED <<out, reached, delivery, saved, call>>
  BY HandlerSteps DEF HandlerStep
<1>3. PICK a \in Attempts : a = Job(l)  BY <1>1, <1>2, AttemptStepGoes DEF RecordTypes
<1>4. LaneTells(a, lane[l].pc, lane[l].res, lane[l].holds) /\ CallInv(a)
  BY <1>1, <1>3 DEF RecordInv, LaneStory, Job
<1>5. OnFile(a)  BY <1>4 DEF LaneTells
<1>6. ~Finished(a)  BY <1>3 DEF Finished, Handling, Job
<1>7. ~Told(a)  BY <1>6 DEF Accounted
<1>8. \A b \in Attempts : b # a => attempt'[b] = attempt[b]
  <2>1. PICK r : HandlerRow(l, attempt[a], r) /\ attempt' = [attempt EXCEPT ![a] = r]
    BY <1>1, <1>2, <1>3, <1>5, AttemptStepRow DEF OnFile
  <2> QED BY <1>1, <2>1 DEF RecordTypes
<1>9. \A b \in Attempts : Told(b)' <=> Told(b)  BY <1>1, <1>2, RowStepRecords
<1> QED BY <1>2, <1>3, <1>4, <1>5, <1>6, <1>7, <1>8, <1>9

(* A handler that keeps the contact's row, and does not settle its own.    *)
LEMMA WaitingAccounts ==
  ASSUME BaseInv, Accounted, \A a \in Attempts : AttemptMoves(a), NEW l \in Lanes,
         \/ FindSettled(l) \/ PrepareFails(l) \/ Prepared(l) \/ StartEffect(l)
         \/ DispatchReplays(l) \/ DispatchFails(l) \/ FailureFindsSettled(l)
         \/ FailureConflicts(l) \/ RetryAttempt(l) \/ AttemptStopped(l)
  PROVE  StaysAccounted
<1>1. RowStep(l)  BY DEF RowStep
<1>2. PICK a \in Attempts :
        /\ a = Job(l)
        /\ \A b \in Attempts : b # a => attempt'[b] = attempt[b]
        /\ \A b \in Attempts : Told(b)' <=> Told(b)
  BY <1>1, HandlerFacts
<1>3. UNCHANGED <<contact, campaign>>
  BY DEF FindSettled, PrepareFails, Prepared, StartEffect, DispatchReplays, DispatchFails,
         FailureFindsSettled, FailureConflicts, RetryAttempt, AttemptStopped, dispatchFrame,
         campaignVars
<1>4. Open(a) => Open(a)'
  <2>1. attempt \in [Attempts -> AttemptKind]  BY DEF BaseInv, TypeInv, RecordTypes
  <2>2. CASE Prepared(l)  BY <1>2, <2>1, <2>2 DEF Prepared, Begun, Open, AttemptKind
  <2>3. CASE StartEffect(l)  BY <1>2, <2>1, <2>3 DEF StartEffect, Open, AttemptKind
  <2>4. CASE RetryAttempt(l)  BY <1>2, <2>1, <2>4 DEF RetryAttempt, Open, AttemptKind
  <2>5. CASE UNCHANGED attempt  BY <2>5 DEF Open
  <2> QED BY <2>2, <2>3, <2>4, <2>5
          DEF FindSettled, PrepareFails, DispatchReplays, DispatchFails, FailureFindsSettled,
              FailureConflicts, AttemptStopped, dispatchFrame, campaignVars
<1>5. ASSUME NEW c \in Contacts PROVE Story(c)'
  <2>1. Moves(c)  BY NthAttempts DEF Moves
  <2>2. \A k \in 1..MaxNumber :
          (Open(Nth(c, k)) => Open(Nth(c, k))') /\ (Told(Nth(c, k))' => Told(Nth(c, k)))
    <3> SUFFICES ASSUME NEW k \in 1..MaxNumber, NEW b \in Attempts, b = Nth(c, k)
                 PROVE  (Open(b) => Open(b)') /\ (Told(b)' => Told(b))
      BY NthAttempts
    <3> QED BY <1>2, <1>4 DEF Open
  <2> QED BY <1>3, <2>1, <2>2, StoryUntouched DEF Accounted
<1>6. TalliesMove  BY <1>3, TalliesStay
<1> QED BY <1>5, <1>6 DEF StaysAccounted

(* What an attempt's contact becomes, and the others stay.                 *)
LEMMA OneStory ==
  ASSUME BaseInv, Accounted, \A b \in Attempts : AttemptMoves(b), NEW a \in Attempts,
         \A b \in Attempts : b # a => attempt'[b] = attempt[b],
         \A d \in Contacts : d # ContactOf(a) => contact'[d] = contact[d],
         NEW n, NEW s,
         contact'[ContactOf(a)].count = n, contact'[ContactOf(a)].status = s,
         StoryOf(ContactOf(a), n, s)', TalliesMove
  PROVE  StaysAccounted
<1>1. \A d \in Contacts : d # ContactOf(a) => Story(d)'  BY OtherContacts
<1>2. Story(ContactOf(a))'  BY StoryNow
<1> QED BY <1>1, <1>2 DEF StaysAccounted

(* What the transaction changes is written, as what it has read holds.     *)
LEMMA FreshFlush ==
  ASSUME NEW r, NEW n, NEW s, ReadOf(r, n, s), NEW to, to # "queued"
  PROVE  Flushed(s, r.status, to) = to
BY DEF ReadOf, Flushed

LEMMA FreshRead ==
  ASSUME Accounted, NEW l \in Lanes, Preparing(l), NEW a, a = Job(l)
  PROVE  ReadOf(read[l], contact[ContactOf(a)].count, contact[ContactOf(a)].status)
BY DEF Accounted, ReadTrue, Preparing

(* The campaign or the contact is not to be called for any longer.         *)
LEMMA PreparingActs ==
  ASSUME BaseInv, NEW l \in Lanes, Preparing(l), NEW a, a = Job(l), ~Finished(a)
  PROVE  Acting(a)
<1>1. LockHeld(l)
  BY DEF BaseInv, TypeInv, RecordTypes, UnderwayInv, Locks, Preparing
<1> QED BY <1>1 DEF LockHeld, Job, Acting, Open

LEMMA ReleaseAccounts ==
  ASSUME BaseInv, Accounted, \A a \in Attempts : AttemptMoves(a), NEW l \in Lanes,
         PrepareContactGone(l) \/ PrepareNotRunning(l) \/ StartFenced(l)
  PROVE  StaysAccounted
<1>1. RowStep(l)  BY DEF RowStep
<1>2. PICK a \in Attempts :
        /\ a = Job(l) /\ OnFile(a) /\ ~Told(a) /\ ~Finished(a)
        /\ \A b \in Attempts : b # a => attempt'[b] = attempt[b]
  BY <1>1, HandlerFacts
<1>3. PICK to \in {"pending", "cancelled"} :
        contact' = [contact EXCEPT ![ContactOf(a)].status = to] /\ campaign' = campaign
  <2>1. CASE StartFenced(l)
    BY <1>2, <2>1 DEF StartFenced, WithStatus, Released
  <2>2. CASE PrepareContactGone(l) \/ PrepareNotRunning(l)
    <3>1. PICK to \in {"pending", "cancelled"} :
            /\ contact' = WithStatus(a, Flushed(contact[ContactOf(a)].status, read[l].status, to))
            /\ campaign' = campaign
      BY <1>2, <2>2 DEF PrepareContactGone, PrepareNotRunning, PrepareCancels, Released
    <3>2. Preparing(l)  BY <2>2 DEF PrepareContactGone, PrepareNotRunning
    <3>3. PICK n, s : /\ s = contact[ContactOf(a)].status
                      /\ ReadOf(read[l], n, s)
      BY <1>2, <3>2, FreshRead
    <3>4. Flushed(s, read[l].status, to) = to  BY <3>3, FreshFlush
    <3> QED BY <3>1, <3>3, <3>4 DEF WithStatus
  <2> QED BY <2>1, <2>2
<1>4. PICK c, k, n, s : CaseOf(a, c, k, n, s)  BY AttemptCase
<1>5. /\ c \in Contacts /\ k \in 1..MaxNumber /\ n \in Nat /\ a = Nth(c, k) /\ c = ContactOf(a)
      /\ n = contact[c].count /\ s = contact[c].status /\ StoryOf(c, n, s)
  BY <1>4 DEF CaseOf
<1>6. Acting(a)
  <2>1. CASE StartFenced(l)
    <3>1. attempt[a].state \notin SettledAttempt /\ attempt[a] \in AttemptKind
      BY <1>2, <2>1 DEF BaseInv, TypeInv, RecordTypes, StartFenced
    <3> QED BY <1>2, <3>1, AttemptNames DEF Acting, Open, OnFile, AttemptKind
  <2>2. CASE PrepareContactGone(l) \/ PrepareNotRunning(l)
    <3>1. Preparing(l)  BY <2>2 DEF PrepareContactGone, PrepareNotRunning
    <3> QED BY <1>2, <3>1, PreparingActs
  <2> QED BY <2>1, <2>2
<1>7. k = n + 1 /\ s \notin Counted  BY <1>2, <1>5, <1>6, ActingIsNext
<1>8. OnFileAt(c, n + 1)  BY <1>2, <1>5, <1>7 DEF OnFileAt
<1>9. Moves(c)  BY <1>5, NthAttempts DEF Moves
<1>10. StoryOf(c, n, to)'  BY <1>5, <1>8, <1>9, StoryReleased
<1>11. RowsOK  BY DEF BaseInv, DoneInv
<1>12. /\ contact'[c].status = to /\ contact'[c].count = n
       /\ \A d \in Contacts : d # c => contact'[d] = contact[d]
  BY <1>3, <1>5, <1>11, StatusRow
<1>13. TalliesMove
  BY <1>3, <1>5, <1>7, <1>12, TalliesStay DEF Counted
<1> QED BY <1>2, <1>5, <1>10, <1>12, <1>13, OneStory

(* The attempt fails, and with it its contact.                             *)
LEMMA SkipTries ==
  ASSUME BaseInv, Accounted, NEW l \in Lanes, PrepareSkips(l), NEW a \in Attempts, a = Job(l)
  PROVE  contact' = Tried(a, "skipped")
<1>1. PICK c \in Contacts : c = ContactOf(a)  BY AttemptFacts
<1>2. PICK n, s : /\ n = contact[c].count /\ s = contact[c].status
                  /\ ReadOf(read[l], n, s)
  BY <1>1, FreshRead DEF PrepareSkips
<1>3. PICK k : k = IF n > Number(a) THEN n ELSE Number(a)  OBVIOUS
<1>4. Flushed(s, read[l].status, "skipped") = "skipped"  BY <1>2, FreshFlush
<1>5. Flushed(n, read[l].count, IF read[l].count > Number(a) THEN read[l].count ELSE Number(a)) = k
  BY <1>2, <1>3 DEF ReadOf, Flushed
<1>6. contact \in [Contacts -> ContactKind]  BY DEF BaseInv, DoneInv, RowsOK
<1>7. contact' = [contact EXCEPT ![c].status = "skipped", ![c].count = k]
  <2>1. contact' = [contact EXCEPT
          ![c].status = Flushed(@, read[l].status, "skipped"),
          ![c].count = Flushed(@, read[l].count,
                         IF read[l].count > Number(a) THEN read[l].count ELSE Number(a))]
    BY <1>1 DEF PrepareSkips
  <2> QED BY <1>2, <1>4, <1>5, <1>6, <2>1 DEF ContactKind
<1>8. Tried(a, "skipped") = [contact EXCEPT ![c].status = "skipped", ![c].count = k]
  BY <1>1, <1>2, <1>3, <1>6 DEF Tried, ContactKind
<1> QED BY <1>7, <1>8

LEMMA SkipTally ==
  ASSUME campaign \in CampaignKind, NEW l \in Lanes, PrepareSkips(l)
  PROVE  campaign'.completed = campaign.completed /\ \E m : Addend(m) /\ campaign'.failed = m + 1
<1>1. /\ campaign'.failed = read[l].failed + 1 /\ campaign'.completed = campaign.completed
      /\ read[l] # Unread
  BY DEF PrepareSkips, Preparing, CampaignKind
<1>2. campaign.failed # read[l].failed => "campaign" \in blind'
  BY DEF PrepareSkips, CommitsOver
<1>3. Addend(read[l].failed)  BY <1>1, <1>2 DEF Addend
<1> QED BY <1>1, <1>3

LEMMA FailureAccounts ==
  ASSUME BaseInv, Accounted, \A a \in Attempts : AttemptMoves(a), NEW l \in Lanes,
         PrepareSkips(l) \/ FailAttempt(l)
  PROVE  StaysAccounted
<1>1. RowStep(l)  BY DEF RowStep
<1>2. PICK a \in Attempts :
        /\ a = Job(l) /\ OnFile(a) /\ ~Told(a) /\ ~Finished(a)
        /\ \A b \in Attempts : b # a => attempt'[b] = attempt[b]
  BY <1>1, HandlerFacts
<1>3. PICK to \in {"skipped", "failed"} :
        /\ contact' = Tried(a, to)
        /\ PrepareSkips(l) \/ ProjectFailed(a, to)
        /\ PrepareSkips(l) => to = "skipped"
  <2>1. CASE FailAttempt(l)  BY <1>2, <2>1 DEF FailAttempt, ProjectFailed, PrepareSkips, At, Preparing
  <2>2. CASE PrepareSkips(l)
    <3>1. contact' = Tried(a, "skipped")  BY <1>2, <2>2, SkipTries
    <3> QED BY <2>2, <3>1
  <2> QED BY <2>1, <2>2
<1>4. PICK c, k, n, s : CaseOf(a, c, k, n, s)  BY AttemptCase
<1>5. /\ c \in Contacts /\ k \in 1..MaxNumber /\ n \in Nat /\ a = Nth(c, k) /\ c = ContactOf(a)
      /\ k = Number(a)
      /\ n = contact[c].count /\ s = contact[c].status /\ StoryOf(c, n, s)
  BY <1>4 DEF CaseOf
<1>6. attempt \in [Attempts -> AttemptKind] /\ RowsOK /\ campaign \in CampaignKind
  BY DEF BaseInv, TypeInv, RecordTypes, DoneInv, RowsOK
<1>7. Acting(a) /\ ~Open(a)'
  <2>1. CASE FailAttempt(l)
    <3>1. attempt[a].state = "running" /\ attempt'[a].state = "failed"
      BY <1>2, <1>6, <2>1 DEF FailAttempt, AttemptKind
    <3> QED BY <1>2, <3>1 DEF Acting, Open
  <2>2. CASE PrepareSkips(l)
    <3>1. Preparing(l) /\ attempt' = [Begun(a) EXCEPT ![a].state = "failed"]
      BY <1>2, <2>2 DEF PrepareSkips
    <3>2. attempt'[a].state = "failed"  BY <1>6, <3>1 DEF Begun, AttemptKind
    <3> QED BY <1>2, <3>1, <3>2, PreparingActs DEF Open
  <2> QED BY <2>1, <2>2
<1>8. k = n + 1 /\ s \notin Counted  BY <1>2, <1>5, <1>7, ActingIsNext
<1>9. \A j \in 1..MaxNumber : ~Acting(Nth(c, j))'
  <2>1. ~Acting(a)'  BY <1>7 DEF Acting
  <2> QED BY <1>2, <1>4, <2>1, NobodyActs
<1>10. Moves(c)  BY <1>5, NthAttempts DEF Moves
<1>11. StoryOf(c, k, to)'
  <2>1. to \in Counted  BY DEF Counted
  <2> QED BY <1>2, <1>5, <1>8, <1>9, <1>10, <2>1, StoryTried
<1>12. /\ contact'[c].status = to /\ contact'[c].count = k
       /\ \A d \in Contacts : d # c => contact'[d] = contact[d]
  <2>1. contact' = Tried(a, to)  BY <1>3
  <2>2. ~(n > k)  BY <1>5, <1>8
  <2>3. /\ contact'[ContactOf(a)].status = to
        /\ contact'[ContactOf(a)].count =
             IF contact[ContactOf(a)].count > Number(a) THEN contact[ContactOf(a)].count ELSE Number(a)
        /\ \A d \in Contacts : d # ContactOf(a) => contact'[d] = contact[d]
    BY <1>6, <2>1, TriedRow
  <2> QED BY <1>5, <2>2, <2>3
<1>13. CASE ProjectFailed(a, to)
  <2>1. PICK cam \in CampaignKind : cam = [campaign EXCEPT !.failed = @ + 1]
    BY <1>6, TalliesStayTyped
  <2>2. campaign' = Closed(cam, contact')  BY <1>13, <2>1 DEF ProjectFailed
  <2>3. cam.failed = campaign.failed + 1 /\ cam.completed = campaign.completed
    BY <1>6, <2>1, CountedTallies
  <2>4. campaign'.completed = cam.completed /\ campaign'.failed = cam.failed
    BY <2>2, ClosedTallies
  <2>5. TalliesMove  BY <1>5, <1>8, <1>12, <2>3, <2>4, TalliesCount
  <2> QED BY <1>2, <1>5, <1>11, <1>12, <2>5, OneStory
<1>14. CASE PrepareSkips(l)
  <2>1. to = "skipped"  BY <1>3, <1>14
  <2>2. campaign'.completed = campaign.completed /\ \E m : Addend(m) /\ campaign'.failed = m + 1
    BY <1>6, <1>14, SkipTally
  <2>3. OneCounts(c)  BY <1>5, <1>8, <1>12, <2>1, <2>2 DEF OneCounts
  <2>4. TalliesMove  BY <1>5, <2>3 DEF TalliesMove
  <2> QED BY <1>2, <1>5, <1>11, <1>12, <2>4, OneStory
<1> QED BY <1>3, <1>13, <1>14

(* The call was placed.                                                    *)
LEMMA CompletionAccounts ==
  ASSUME BaseInv, Accounted, overtaken = {}, \A a \in Attempts : AttemptMoves(a), NEW l \in Lanes,
         CompleteDispatch(l)
  PROVE  StaysAccounted
<1>1. RowStep(l)  BY DEF RowStep
<1>2. PICK a \in Attempts :
        /\ a = Job(l) /\ OnFile(a) /\ ~Told(a) /\ ~Finished(a)
        /\ CallInv(a) /\ LaneTells(a, lane[l].pc, lane[l].res, lane[l].holds)
        /\ \A b \in Attempts : b # a => attempt'[b] = attempt[b]
        /\ \A b \in Attempts : Told(b)' <=> Told(b)
  BY <1>1, HandlerFacts
<1>3. PICK c, k, n, s : CaseOf(a, c, k, n, s)  BY AttemptCase
<1>4. /\ c \in Contacts /\ k \in 1..MaxNumber /\ n \in Nat /\ a = Nth(c, k) /\ c = ContactOf(a)
      /\ k = Number(a)
      /\ n = contact[c].count /\ s = contact[c].status /\ StoryOf(c, n, s)
  BY <1>3 DEF CaseOf
<1>5. attempt \in [Attempts -> AttemptKind] /\ RowsOK /\ campaign \in CampaignKind
  BY DEF BaseInv, TypeInv, RecordTypes, DoneInv, RowsOK
<1>6. PICK to : /\ to = IF s \in SettledContact THEN s ELSE "in_progress"
                /\ contact' = Tried(a, to)
                /\ campaign' = Closed(campaign, contact')
  BY <1>2, <1>4 DEF CompleteDispatch
<1>7. saved[a] = "succeeded"  BY <1>2 DEF LaneTells, CompleteDispatch, At
<1>8. ~Acting(a)'
  <2>1. attempt[a].state \notin {"none", "pending"}
    BY <1>2, <1>7 DEF CallInv, InHand
  <2>2. attempt'[a].state = IF attempt[a].state = "running" THEN "succeeded" ELSE attempt[a].state
    BY <1>2, <1>5 DEF CompleteDispatch, AttemptKind
  <2> QED BY <2>1, <2>2 DEF Acting, Open
<1>9. \A j \in 1..MaxNumber : ~Acting(Nth(c, j))'  BY <1>2, <1>3, <1>8, NobodyActs
<1>10. Moves(c)  BY <1>4, NthAttempts DEF Moves
<1>11. k = n \/ k = n + 1  BY <1>2, <1>4, UntoldIsLatest
<1>12. \/ to \in Counted
       \/ to = "cancelled"
       \/ to = "in_progress" /\ saved'[Nth(c, k)] = "succeeded" /\ ~Told(Nth(c, k))'
  <2>1. saved'[a] = "succeeded"  BY <1>7 DEF AttemptMoves
  <2>2. ~Told(a)'  BY <1>2
  <2> QED BY <1>4, <1>6, <2>1, <2>2, StatusFacts DEF Counted
<1>13. StoryOf(c, k, to)'
  BY <1>2, <1>4, <1>9, <1>10, <1>11, <1>12, StoryTried
<1>14. /\ contact'[c].status = to /\ contact'[c].count = k
       /\ \A d \in Contacts : d # c => contact'[d] = contact[d]
  <2>1. ~(n > k)  BY <1>4, <1>11
  <2>3. /\ contact'[ContactOf(a)].status = to
        /\ contact'[ContactOf(a)].count =
             IF contact[ContactOf(a)].count > Number(a) THEN contact[ContactOf(a)].count ELSE Number(a)
        /\ \A d \in Contacts : d # ContactOf(a) => contact'[d] = contact[d]
    BY <1>5, <1>6, TriedRow
  <2> QED BY <1>4, <2>1, <2>3
<1>15. campaign'.completed = campaign.completed /\ campaign'.failed = campaign.failed
  BY <1>5, <1>6, ClosedTallies
<1>16. TalliesMove
  <2>1. to = s \/ (to \notin Counted /\ s \notin Counted)
    BY <1>6, StatusFacts DEF Counted
  <2> QED BY <1>4, <1>14, <1>15, <2>1, TalliesStay
<1> QED BY <1>2, <1>4, <1>13, <1>14, <1>16, OneStory

(* What is known when the outcome of an attempt is applied.                *)
LEMMA OutcomeFacts ==
  ASSUME BaseInv, overtaken' = {}, NEW l \in Lanes, NEW a \in Attempts,
         Job(l) = Ended(a), Consume(l), ApplyOutcome(a)
  PROVE  /\ Finished(a) /\ OnFile(a) /\ Started(a) /\ ~Told(a) /\ ~Acting(a)
         /\ Told(a)' /\ ~Acting(a)'
         /\ \A b \in Attempts : b # a => attempt'[b] = attempt[b]
<1>1. RecordTypes /\ CallInv(a) /\ a \in Tasks
  BY AttemptTasks DEF BaseInv, TypeInv, RecordInv
<1>2. Finished(a)
  <2>1. task[a].state \in Over /\ ~\E k \in Lanes : Job(k) = a  BY DEF ApplyOutcome
  <2> QED BY <2>1 DEF Finished, Handling, Job
<1>3. Filing(a) = "running"  BY DEF Consume, Consumable, Filing
<1>4. ~Told(a) /\ call[a] \in EndedCall  BY <1>1, <1>3 DEF CallInv
<1>5. Started(a)  BY <1>1, <1>4, AttemptNames DEF CallInv
<1>6. OnFile(a)  BY <1>1, <1>5 DEF CallInv
<1>7. ~Acting(a)  BY <1>2, <1>5 DEF Acting
<1>8. /\ attempt' = [attempt EXCEPT ![a].outcome = TRUE]
      /\ attempt \in [Attempts -> AttemptKind]
  BY <1>1 DEF ApplyOutcome, RecordTypes
<1>9. Told(a)' /\ (Acting(a)' => ~Finished(a)')
  <2>1. attempt'[a].outcome = TRUE /\ attempt'[a].started = attempt[a].started
    BY <1>8 DEF AttemptKind
  <2> QED BY <1>5, <2>1 DEF Told, Acting, Started
<1>10. \A b \in Attempts : b # a => attempt'[b] = attempt[b]  BY <1>8
<1>11. Finished(a)'
  <2>1. lane' = [lane EXCEPT ![l] = Idle] /\ lane[l].job = Ended(a)
        /\ task' = IF lane[l].holds THEN [task EXCEPT ![Ended(a)].state = "ended"] ELSE task
    BY DEF Consume, Returns, Job
  <2>2. Ended(a) # a  BY AttemptTasks
  <2>3. task'[a] = task[a]
    BY <1>1, <2>1, <2>2 DEF BaseInv, PoolInv
  <2>4. \A k \in Lanes : lane'[k].job = lane[k].job \/ lane'[k].job = NoTask
    BY <2>1 DEF BaseInv, SendInv, LaneOK, Idle
  <2> QED BY <1>2, <2>3, <2>4, AttemptTasks DEF Finished, Handling
<1> QED BY <1>2, <1>4, <1>5, <1>6, <1>7, <1>9, <1>10, <1>11

(* What the outcome makes of the contact: nothing more, or the end of the  *)
(* attempt's story.                                                        *)
LEMMA OutcomeAccounts ==
  ASSUME BaseInv, Accounted, \A a \in Attempts : AttemptMoves(a), overtaken' = {},
         NEW l \in Lanes, ConsumeOutcome(l)
  PROVE  StaysAccounted
<1>1. PICK a \in Attempts : Job(l) = Ended(a) /\ Consume(l) /\ ApplyOutcome(a)
  BY DEF ConsumeOutcome
<1>2. /\ OnFile(a) /\ ~Told(a) /\ Told(a)' /\ ~Acting(a)'
      /\ \A b \in Attempts : b # a => attempt'[b] = attempt[b]
  BY <1>1, OutcomeFacts
<1>3. PICK c, k, n, s : CaseOf(a, c, k, n, s)  BY AttemptCase
<1>4. /\ c \in Contacts /\ k \in 1..MaxNumber /\ n \in Nat /\ a = Nth(c, k) /\ c = ContactOf(a)
      /\ k = Number(a)
      /\ n = contact[c].count /\ s = contact[c].status /\ StoryOf(c, n, s)
  BY <1>3 DEF CaseOf
<1>5. RowsOK /\ campaign \in CampaignKind  BY DEF BaseInv, DoneInv, RowsOK
<1>6. Moves(c)  BY <1>4, NthAttempts DEF Moves
<1>7. \A j \in 1..MaxNumber : ~Acting(Nth(c, j))'  BY <1>2, <1>3, NobodyActs
<1>8. k = n \/ k = n + 1  BY <1>2, <1>4, UntoldIsLatest
<1>9. CASE s \in SettledContact
  <2>1. UNCHANGED <<campaign, contact>>  BY <1>1, <1>4, <1>9 DEF ApplyOutcome
  <2>2. s # "queued" /\ s # "in_progress"  BY <1>9, StatusFacts
  <2>3. StoryOf(c, n, s)'  BY <1>4, <1>6, <2>2, StoryStays
  <2>4. TalliesMove  BY <2>1, TalliesStay
  <2> QED BY <1>2, <1>4, <2>1, <2>3, <2>4, OneStory
<1>10. CASE s \notin SettledContact
  <2>1. s \notin Counted  BY <1>10, StatusFacts DEF Counted
  <2>2. PICK cam \in CampaignKind :
          /\ campaign' = Closed(cam, contact')
          /\ \/ /\ contact' = Tried(a, "completed")
                /\ cam.completed = campaign.completed + 1 /\ cam.failed = campaign.failed
             \/ /\ contact' = Tried(a, "retry") /\ k < MaxNumber /\ call[a] # "connected"
                /\ cam.completed = campaign.completed /\ cam.failed = campaign.failed
             \/ /\ contact' = Tried(a, "failed")
                /\ cam.completed = campaign.completed /\ cam.failed = campaign.failed + 1
    <3>1. ~attempt[a].outcome /\ contact[ContactOf(a)].status \notin SettledContact
      BY <1>2, <1>4, <1>10 DEF Told
    <3>2. CASE call[a] = "connected"
      <4>1. PICK cam \in CampaignKind : cam = [campaign EXCEPT !.completed = @ + 1]
        BY <1>5, TalliesStayTyped
      <4>2. contact' = Tried(a, "completed") /\ campaign' = Closed(cam, contact')
        BY <1>1, <3>1, <3>2, <4>1 DEF ApplyOutcome
      <4>3. cam.completed = campaign.completed + 1 /\ cam.failed = campaign.failed
        BY <1>5, <4>1, CountedTallies
      <4> QED BY <4>2, <4>3
    <3>3. CASE call[a] # "connected" /\ campaign.status = "running" /\ k < MaxNumber
      <4>1. contact' = Tried(a, "retry") /\ campaign' = Closed(campaign, contact')
        BY <1>1, <1>4, <3>1, <3>3 DEF ApplyOutcome
      <4> QED BY <1>5, <3>3, <4>1
    <3>4. CASE call[a] # "connected" /\ ~(campaign.status = "running" /\ k < MaxNumber)
      <4>1. PICK cam \in CampaignKind : cam = [campaign EXCEPT !.failed = @ + 1]
        BY <1>5, TalliesStayTyped
      <4>2. contact' = Tried(a, "failed") /\ campaign' = Closed(cam, contact')
        BY <1>1, <1>4, <3>1, <3>4, <4>1 DEF ApplyOutcome
      <4>3. cam.completed = campaign.completed /\ cam.failed = campaign.failed + 1
        BY <1>5, <4>1, CountedTallies
      <4> QED BY <4>2, <4>3
    <3> QED BY <3>2, <3>3, <3>4
  <2>3. PICK to \in {"completed", "retry", "failed"} :
          /\ contact' = Tried(a, to)
          /\ \/ /\ to = "completed"
                /\ cam.completed = campaign.completed + 1 /\ cam.failed = campaign.failed
             \/ /\ to = "retry" /\ k < MaxNumber /\ call[a] # "connected"
                /\ cam.completed = campaign.completed /\ cam.failed = campaign.failed
             \/ /\ to = "failed"
                /\ cam.completed = campaign.completed /\ cam.failed = campaign.failed + 1
    BY <2>2
  <2>4. /\ contact'[c].status = to /\ contact'[c].count = k
        /\ \A d \in Contacts : d # c => contact'[d] = contact[d]
    <3>1. ~(n > k)  BY <1>4, <1>8
    <3>2. /\ contact'[ContactOf(a)].status = to
          /\ contact'[ContactOf(a)].count =
               IF contact[ContactOf(a)].count > Number(a) THEN contact[ContactOf(a)].count ELSE Number(a)
          /\ \A d \in Contacts : d # ContactOf(a) => contact'[d] = contact[d]
      BY <1>5, <2>3, TriedRow
    <3> QED BY <1>4, <3>1, <3>2
  <2>5. campaign'.completed = cam.completed /\ campaign'.failed = cam.failed
    BY <2>2, ClosedTallies
  <2>6. to = "retry" => k < MaxNumber /\ Past(Nth(c, k))'
    <3>1. UNCHANGED call  BY DEF ConsumeOutcome
    <3> QED BY <1>2, <1>4, <2>3, <3>1 DEF Past
  <2>7. to \in Counted \/ to = "retry"  BY DEF Counted
  <2>8. StoryOf(c, k, to)'
    BY <1>2, <1>4, <1>6, <1>7, <1>8, <2>6, <2>7, StoryTried
  <2>9. TalliesMove
    <3>1. CASE to = "retry"
      <4>1. to \notin Counted  BY <3>1 DEF Counted
      <4> QED BY <1>4, <2>1, <2>3, <2>4, <2>5, <3>1, <4>1, TalliesStay
    <3>2. CASE to # "retry"
      <4>1. campaign.completed \in Nat /\ campaign.failed \in Nat  BY <1>5 DEF CampaignKind
      <4> QED BY <1>4, <2>1, <2>3, <2>4, <2>5, <3>2, <4>1, TalliesCount
    <3> QED BY <3>1, <3>2
  <2> QED BY <1>2, <1>4, <2>4, <2>8, <2>9, OneStory
<1> QED BY <1>9, <1>10

(* The operators fence what was filed and not begun.                       *)
LEMMA FenceAccounts ==
  ASSUME BaseInv, Accounted, \A a \in Attempts : AttemptMoves(a),
         campaign'.completed = campaign.completed, campaign'.failed = campaign.failed,
         NEW to \in {"pending", "cancelled"}, Fence(to)
  PROVE  StaysAccounted
<1>1. RowsOK /\ RecordTypes  BY DEF BaseInv, DoneInv, TypeInv
<1>2. PICK fenced :
        /\ fenced = {a \in Attempts : attempt[a].state = "pending"}
        /\ attempt' = [a \in Attempts |->
             IF a \in fenced THEN [attempt[a] EXCEPT !.state = "cancelled"] ELSE attempt[a]]
        /\ contact' = [c \in Contacts |->
             IF c \in {ContactOf(a) : a \in fenced} /\ contact[c].status = "queued"
             THEN [contact[c] EXCEPT !.status = to] ELSE contact[c]]
  BY DEF Fence
<1>3. PICK released : released = {c \in {ContactOf(a) : a \in fenced} : contact[c].status = "queued"}
  OBVIOUS
<1>4. \A c \in Contacts :
        IF c \in released THEN contact'[c].status = to /\ contact'[c].count = contact[c].count
                          ELSE contact'[c] = contact[c]
  <2>1. contact' = [c \in Contacts |->
          IF c \in released THEN [contact[c] EXCEPT !.status = to] ELSE contact[c]]
    BY <1>2, <1>3
  <2> QED BY <1>1, <2>1, StatusRows
<1>5. \A a \in Attempts : Told(a)' <=> Told(a)
  <2>1. \A a \in fenced : OnFile(a)  BY <1>2 DEF OnFile
  <2> QED BY <1>1, <1>2, <2>1, FenceMovesRows
<1>6. ASSUME NEW c \in Contacts PROVE Story(c)'
  <2>1. PICK n, s : n \in Nat /\ n = contact[c].count /\ s = contact[c].status  BY CountTyped
  <2>2. StoryOf(c, n, s)  BY <2>1 DEF Accounted, Story
  <2>3. Moves(c)  BY NthAttempts DEF Moves
  <2>4. s = "queued" => n + 1 \in 1..MaxNumber /\ Open(Nth(c, n + 1))
    BY <2>1, <2>2, NthAttempts DEF StoryOf
  <2>5. CASE c \in released
    <3>1. s = "queued"  BY <1>3, <2>1, <2>5
    <3>2. OnFileAt(c, n + 1)  BY <2>4, <3>1 DEF OnFileAt, Open, OnFile
    <3>3. StoryOf(c, n, to)'  BY <2>1, <2>2, <2>3, <3>2, StoryReleased
    <3> QED BY <1>4, <2>1, <2>5, <3>3, StoryNow
  <2>6. CASE c \notin released
    <3>1. s = "queued" => Open(Nth(c, n + 1))'
      <4> SUFFICES ASSUME s = "queued" PROVE Open(Nth(c, n + 1))'
        OBVIOUS
      <4>1. PICK a \in Attempts : a = Nth(c, n + 1) /\ ContactOf(a) = c /\ Open(a)
        BY <2>4, NthAttempts
      <4>2. a \notin fenced  BY <1>3, <2>1, <2>6, <4>1
      <4>3. attempt'[a] = attempt[a]  BY <1>2, <4>2
      <4> QED BY <4>1, <4>3 DEF Open
    <3>2. s = "in_progress" => ~Told(Nth(c, n))'
      <4>1. s = "in_progress" => Nth(c, n) \in Attempts /\ ~Told(Nth(c, n))
        BY <2>2, NthAttempts DEF StoryOf, OnFileAt
      <4> QED BY <1>5, <4>1
    <3>3. StoryOf(c, n, s)'  BY <2>1, <2>2, <2>3, <3>1, <3>2, StoryStays
    <3> QED BY <1>4, <2>1, <2>6, <3>3, StoryNow
  <2> QED BY <2>5, <2>6
<1>7. TalliesMove
  <2>1. to \notin Counted /\ "queued" \notin Counted  BY DEF Counted
  <2>2. \A c \in Contacts : c \in released => contact[c].status = "queued"  BY <1>3
  <2> QED BY <1>4, <2>1, <2>2, TalliesStay
<1> QED BY <1>6, <1>7 DEF StaysAccounted

(* An erasure cancels what it has found, or finds more and starts again.   *)
LEMMA QuiesceAccounts ==
  ASSUME BaseInv, Accounted, \A a \in Attempts : AttemptMoves(a),
         NEW c \in Contacts, QuiesceContact(c)
  PROVE  StaysAccounted
<1>1. RowsOK /\ RecordTypes /\ UnderwayInv  BY DEF BaseInv, DoneInv, TypeInv, RecordTypes
<1>2. UNCHANGED campaign  BY DEF QuiesceContact
<1>3. CASE FiledFor(c) # scope[c].filed
  <2>1. UNCHANGED <<attempt, contact>>  BY <1>3 DEF QuiesceContact
  <2> QED BY <1>2, <2>1, FrameAccounts
<1>4. CASE FiledFor(c) = scope[c].filed
  <2>1. PICK unstarted, to, n, s :
          /\ unstarted = scope[c].unstarted
          /\ n = contact[c].count /\ s = contact[c].status
          /\ to = Flushed(s, scope[c].status, "cancelled")
          /\ attempt' = [a \in Attempts |->
               IF a \in unstarted THEN [attempt[a] EXCEPT !.state = "cancelled"] ELSE attempt[a]]
          /\ contact' = [contact EXCEPT ![c].status = to]
          /\ s # scope[c].status => "contact" \in blind'
    BY <1>4 DEF QuiesceContact, CommitsOver
  <2>2. scope[c].status \notin Counted /\ (s = "queued" => scope[c].status = "queued")
    BY <1>4, <2>1 DEF Accounted, ScopeTrue, QuiesceContact
  <2>3. \A a \in unstarted : ContactOf(a) = c /\ OnFile(a)
    BY <1>1, <2>1 DEF UnderwayInv
  <2>4. \A a \in Attempts : Told(a)' <=> Told(a)
    BY <1>1, <2>1, <2>3, FenceMovesRows
  <2>5. Moves(c)  BY NthAttempts DEF Moves
  <2>6. n \in Nat /\ StoryOf(c, n, s)  BY <2>1, CountTyped DEF Accounted, Story
  <2>7. StoryOf(c, n, to)'
    <3>1. CASE to = "cancelled"  BY <2>5, <2>6, <3>1, StoryReleased
    <3>2. CASE to # "cancelled"
      <4>1. to = s /\ s # "queued"  BY <2>1, <2>2, <3>2 DEF Flushed
      <4>2. s = "in_progress" => ~Told(Nth(c, n))'
        <5>1. s = "in_progress" => Nth(c, n) \in Attempts /\ ~Told(Nth(c, n))
          BY <2>6, NthAttempts DEF StoryOf, OnFileAt
        <5> QED BY <2>4, <5>1
      <4> QED BY <2>5, <2>6, <4>1, <4>2, StoryStays
    <3> QED BY <3>1, <3>2
  <2>8. /\ contact'[c].status = to /\ contact'[c].count = n
        /\ \A d \in Contacts : d # c => contact'[d] = contact[d]
    BY <1>1, <2>1, StatusRow
  <2>9. Story(c)'  BY <2>7, <2>8, StoryNow
  <2>10. ASSUME NEW d \in Contacts, d # c PROVE Story(d)'
    <3>1. RowsStay(d)  BY <2>1, <2>3, <2>10 DEF RowsStay
    <3> QED BY <2>8, <2>10, <3>1, StoryOfOthers DEF Accounted
  <2>11. TalliesMove
    <3> SUFFICES ASSUME "contact" \notin blind' PROVE NoneCounts
      BY DEF TalliesMove
    <3>1. s \notin Counted /\ (to = "cancelled" \/ to = s)  BY <2>1, <2>2 DEF Flushed
    <3>2. "cancelled" \notin Counted  BY DEF Counted
    <3> QED BY <1>2, <2>1, <2>8, <3>1, <3>2 DEF NoneCounts
  <2> QED BY <2>9, <2>10, <2>11 DEF StaysAccounted
<1> QED BY <1>3, <1>4

(* The sweep files the next attempt of each contact of its batch.          *)
LEMMA FilingAccounts ==
  ASSUME BaseInv, Accounted, [Next]_vars, FileDueAttempts
  PROVE  StaysAccounted
<1>1. RowsOK /\ attempt \in [Attempts -> AttemptKind]
  BY DEF BaseInv, DoneInv, TypeInv, RecordTypes
<1>2. PICK batch, filed :
        /\ batch \in SUBSET DueContacts
        /\ filed = {NextAttempt(c) : c \in batch}
        /\ \A a \in filed : Fileable(a)
        /\ attempt' = [a \in Attempts |->
             IF a \in filed THEN [attempt[a] EXCEPT !.state = "pending"] ELSE attempt[a]]
        /\ contact' = [c \in Contacts |->
             IF c \in batch THEN [contact[c] EXCEPT !.status = "queued"] ELSE contact[c]]
        /\ UNCHANGED <<campaign, saved, call>>
  BY DEF FileDueAttempts
<1>3. \A c \in Contacts :
        IF c \in batch THEN contact'[c].status = "queued" /\ contact'[c].count = contact[c].count
                       ELSE contact'[c] = contact[c]
  BY <1>1, <1>2, StatusRows
<1>4. \A c \in batch : c \in Contacts /\ contact[c].status \in {"pending", "retry"}
  BY <1>2 DEF DueContacts, ContactsIn
<1>5. ASSUME NEW a \in Attempts
      PROVE  /\ Told(a)' <=> Told(a)
             /\ Past(a)' <=> Past(a)
             /\ a \notin filed => AttemptMoves(a) /\ attempt'[a] = attempt[a]
             /\ a \in filed => ~OnFile(a) /\ OnFile(a)' /\ Open(a)'
  <2>1. /\ attempt'[a].outcome = attempt[a].outcome /\ attempt'[a].started = attempt[a].started
        /\ a \notin filed => attempt'[a] = attempt[a]
        /\ a \in filed => attempt[a].state = "none" /\ attempt'[a].state = "pending"
    BY <1>1, <1>2 DEF AttemptKind, Fileable
  <2>2. StaysFinished(a)  BY NextBase, AttemptTasks
  <2>3. (Told(a)' <=> Told(a)) /\ (Past(a)' <=> Past(a))  BY <1>2, <2>1 DEF Told, Past
  <2>4. a \notin filed => (OnFile(a)' <=> OnFile(a)) /\ (Open(a)' => Open(a))
                          /\ (Acting(a)' => Acting(a))
    BY <2>1, <2>2 DEF OnFile, Open, Acting, Started, StaysFinished
  <2>5. a \in filed => ~OnFile(a) /\ OnFile(a)' /\ Open(a)'  BY <2>1 DEF OnFile, Open
  <2> QED BY <1>2, <2>1, <2>3, <2>4, <2>5 DEF AttemptMoves
<1>6. ASSUME NEW c \in Contacts, c \in batch PROVE Story(c)'
  <2>1. PICK n \in Nat, s \in {"pending", "retry"} : n = contact[c].count /\ s = contact[c].status
    BY <1>4, <1>6, CountTyped
  <2>2. StoryOf(c, n, s)  BY <2>1 DEF Accounted, Story
  <2>3. PICK k : k = n + 1  OBVIOUS
  <2>4. Nth(c, k) \in filed /\ Nth(c, k) \in Attempts
    BY <1>2, <1>6, <2>1, <2>3 DEF NextAttempt, Nth, Fileable
  <2>5. k \in 1..MaxNumber  BY <2>4 DEF Attempts, Nth
  <2>6. \A j \in 1..MaxNumber : j # k => Nth(c, j) \notin filed
    BY <1>2, <2>1, <2>3, NthAttempts DEF NextAttempt, Nth
  <2>7. \A j \in 1..MaxNumber : /\ j # k => AttemptMoves(Nth(c, j))
                                /\ Past(Nth(c, j)) => Past(Nth(c, j))'
    BY <1>5, <2>6, NthAttempts
  <2>8. ~OnFile(Nth(c, k)) /\ OnFile(Nth(c, k))' /\ Open(Nth(c, k))'  BY <1>5, <2>4
  <2>9. StoryOf(c, n, "queued")'  BY <2>2, <2>3, <2>5, <2>7, <2>8, StoryFiled
  <2> QED BY <1>3, <1>6, <2>1, <2>9, StoryNow
<1>7. ASSUME NEW c \in Contacts, c \notin batch PROVE Story(c)'
  <2>1. \A k \in 1..MaxNumber : Nth(c, k) \in Attempts /\ Nth(c, k) \notin filed
    BY <1>2, <1>7, NthAttempts DEF NextAttempt, Nth
  <2>2. Moves(c)  BY <1>5, <2>1 DEF Moves
  <2>3. \A k \in 1..MaxNumber :
          (Open(Nth(c, k)) => Open(Nth(c, k))') /\ (Told(Nth(c, k))' => Told(Nth(c, k)))
    BY <1>5, <2>1 DEF Open
  <2> QED BY <1>3, <1>7, <2>2, <2>3, StoryUntouched DEF Accounted
<1>8. TalliesMove
  <2>1. \A s \in {"pending", "retry", "queued"} : s \notin Counted  BY DEF Counted
  <2> QED BY <1>2, <1>3, <1>4, <2>1, TalliesStay
<1> QED BY <1>6, <1>7, <1>8 DEF StaysAccounted

(* A handler that was overtaken remains so.                                *)
LEMMA OvertakenStays ==
  ASSUME [Next]_vars
  PROVE  overtaken \subseteq overtaken'
<1>1. ASSUME NEW l \in Lanes, HandlerStep(l) PROVE overtaken \subseteq overtaken'
  BY <1>1
     DEF HandlerStep, EffectStep, RowStep, FindSettled, PrepareContactGone, PrepareNotRunning,
         PrepareCancels, PrepareSkips,
         PrepareFails, Prepared, StartFenced, StartEffect, DispatchReplays, DispatchAuthorized,
         DispatchRecovers, DispatchSends, DispatchRecords, DispatchProjects, DispatchSaves,
         DispatchFails, CompleteDispatch, FailureFindsSettled, FailureConflicts, FailAttempt,
         RetryAttempt, SendInterrupted, AttemptStopped, ReturnReceipt
<1>2. ASSUME NEW l \in Lanes, DeliveryStep(l) PROVE overtaken \subseteq overtaken'
  BY <1>2 DEF DeliveryStep, ConsumeOutcome, ApplyOutcome, campaignFrame
<1>3. CASE \/ UNCHANGED vars \/ FileDueAttempts \/ FindNothingDue
           \/ \E l \in Lanes : ClaimSome(l) \/ LaneDies(l) \/ PrepareReads(l)
           \/ \E t \in Tasks : ClaimExpires(t)
           \/ \E d \in Deliveries : Nudge(d)
           \/ \E a \in Attempts : Carrier(a)
           \/ ControlStep
  BY <1>3, ControlFrame
     DEF vars, FileDueAttempts, FindNothingDue, ClaimSome, ClaimAttempt, LaneDies, PrepareReads,
         ClaimExpires,
         Nudge, Carrier, CallbackReconciles, CallbackBinds, CallEnds, controlFrame, campaignFrame
<1> QED BY <1>1, <1>2, <1>3, NextSteps

(* An outcome is applied once the task of its attempt is finished.         *)
LEMMA NewlyTold ==
  ASSUME BaseInv, Accounted, overtaken' = {}, [Next]_vars, NEW a \in Attempts, Told(a)'
  PROVE  Told(a) \/ Finished(a)
<1>1. RecordTypes /\ SendInv /\ PoolInv /\ RecordInv /\ DeliveryInv
  BY DEF BaseInv, TypeInv
<1>2. ASSUME NEW l \in Lanes, HandlerStep(l) PROVE Told(a)
  <2>1. CASE RowStep(l)  BY <2>1, HandlerFacts
  <2>2. CASE EffectStep(l)  BY <2>2, HandlerSteps DEF Told
  <2> QED BY <1>2, <2>1, <2>2 DEF HandlerStep
<1>3. ASSUME NEW l \in Lanes, DeliveryStep(l) PROVE Told(a) \/ Finished(a)
  <2>1. CASE ConsumeOutcome(l)
    <3>1. PICK b \in Attempts : Job(l) = Ended(b) /\ Consume(l) /\ ApplyOutcome(b)
      BY <2>1 DEF ConsumeOutcome
    <3>2. Finished(b) /\ (b # a => attempt'[a] = attempt[a])  BY <3>1, OutcomeFacts
    <3> QED BY <3>2 DEF Told
  <2>2. CASE ~ConsumeOutcome(l)
    BY <1>3, <2>2 DEF DeliveryStep, campaignFrame, campaignVars, Told
  <2> QED BY <2>1, <2>2
<1>4. CASE FileDueAttempts
  <2>1. PICK filed : attempt' = [b \in Attempts |->
              IF b \in filed THEN [attempt[b] EXCEPT !.state = "pending"] ELSE attempt[b]]
    BY <1>4 DEF FileDueAttempts
  <2> QED BY <1>1, <2>1 DEF Told, RecordTypes, AttemptKind
<1>5. CASE ControlStep  BY <1>1, <1>5, OperatorMovesRows
<1>6. CASE \/ UNCHANGED vars \/ FindNothingDue
           \/ \E l \in Lanes : ClaimSome(l) \/ LaneDies(l) \/ PrepareReads(l)
           \/ \E t \in Tasks : ClaimExpires(t)
           \/ \E d \in Deliveries : Nudge(d)
           \/ \E b \in Attempts : Carrier(b)
  <2>1. UNCHANGED attempt
    BY <1>6
       DEF vars, FindNothingDue, ClaimSome, ClaimAttempt, LaneDies, PrepareReads, ClaimExpires,
           Nudge, Carrier,
           CallbackReconciles, CallbackBinds, CallEnds, campaignFrame, campaignVars
  <2> QED BY <2>1 DEF Told
<1> QED BY <1>2, <1>3, <1>4, <1>5, <1>6, NextSteps

LEMMA HandlerAccounts ==
  ASSUME BaseInv, Accounted, overtaken = {}, \A a \in Attempts : AttemptMoves(a),
         NEW l \in Lanes, HandlerStep(l)
  PROVE  StaysAccounted
<1>1. CASE EffectStep(l)  BY <1>1, HandlerSteps, FrameAccounts
<1>2. CASE \/ FindSettled(l) \/ PrepareFails(l) \/ Prepared(l) \/ StartEffect(l)
           \/ DispatchReplays(l) \/ DispatchFails(l) \/ FailureFindsSettled(l)
           \/ FailureConflicts(l) \/ RetryAttempt(l) \/ AttemptStopped(l)
  BY <1>2, WaitingAccounts
<1>3. CASE PrepareContactGone(l) \/ PrepareNotRunning(l) \/ StartFenced(l)
  BY <1>3, ReleaseAccounts
<1>4. CASE PrepareSkips(l) \/ FailAttempt(l)  BY <1>4, FailureAccounts
<1>5. CASE CompleteDispatch(l)  BY <1>5, CompletionAccounts
<1> QED BY <1>1, <1>2, <1>3, <1>4, <1>5 DEF HandlerStep, RowStep

LEMMA OtherStepAccounts ==
  ASSUME BaseInv, Accounted, \A a \in Attempts : AttemptMoves(a),
         \/ UNCHANGED vars \/ FindNothingDue
         \/ \E l \in Lanes : \/ ClaimSome(l) \/ LaneDies(l) \/ PrepareReads(l)
                             \/ DeliveryStep(l) /\ ~ConsumeOutcome(l)
         \/ \E t \in Tasks : ClaimExpires(t)
         \/ \E d \in Deliveries : Nudge(d)
         \/ \E a \in Attempts : Carrier(a)
         \/ ControlStep
  PROVE  StaysAccounted
<1>1. RowsOK /\ campaign \in CampaignKind  BY DEF BaseInv, DoneInv, RowsOK
<1>2. CASE UNCHANGED <<attempt, contact, campaign>>  BY <1>2, FrameAccounts
<1>3. CASE FindNothingDue
  BY <1>1, <1>3, ClosedTallies, FrameAccounts DEF FindNothingDue
<1>4. CASE Transition \/ Revoke
  <2>1. PICK to \in {"pending", "cancelled"} : Fence(to)  BY <1>4 DEF Transition, Revoke
  <2>2. campaign'.completed = campaign.completed /\ campaign'.failed = campaign.failed
    BY <1>1, <1>4 DEF Transition, Revoke, CampaignKind
  <2> QED BY <2>1, <2>2, FenceAccounts
<1>5. CASE Resume
  <2>1. campaign'.completed = campaign.completed /\ campaign'.failed = campaign.failed
    BY <1>1, <1>5 DEF Resume, CampaignKind
  <2> QED BY <1>5, <2>1, FrameAccounts DEF Resume
<1>6. ASSUME NEW c \in Contacts, RequestDeletion(c) PROVE StaysAccounted
  <2>1. \A d \in Contacts :
          contact'[d].status = contact[d].status /\ contact'[d].count = contact[d].count
    BY <1>1, <1>6 DEF RequestDeletion, RowsOK, ContactKind
  <2> QED BY <1>6, <2>1, FrameAccounts DEF RequestDeletion
<1>7. ASSUME NEW c \in Contacts, QuiesceContact(c) PROVE StaysAccounted
  BY <1>7, QuiesceAccounts
<1>8. \/ UNCHANGED <<attempt, contact, campaign>>
      \/ FindNothingDue \/ ControlStep
  BY DEF vars, ClaimSome, ClaimAttempt, LaneDies, PrepareReads, DeliveryStep, ClaimExpires, Nudge,
         Carrier,
         CallbackReconciles, CallbackBinds, CallEnds, campaignFrame, campaignVars
<1>9. CASE Ask \/ \E c \in Contacts : QuiesceReads(c)
  BY <1>2, <1>9 DEF Ask, QuiesceReads, campaignVars
<1> QED BY <1>2, <1>3, <1>4, <1>5, <1>6, <1>7, <1>8, <1>9 DEF ControlStep

(* The filing queues a contact with the attempt it files for it.           *)
LEMMA FiledContact ==
  ASSUME BaseInv, FileDueAttempts, NEW c \in Contacts
  PROVE  \/ contact'[c] = contact[c]
         \/ \E a \in Attempts : a = NextAttempt(c) /\ ~OnFile(a) /\ OnFile(a)'
<1>1. RowsOK /\ attempt \in [Attempts -> AttemptKind]
  BY DEF BaseInv, DoneInv, TypeInv, RecordTypes
<1>2. PICK batch, filed :
        /\ filed = {NextAttempt(d) : d \in batch}
        /\ \A a \in filed : Fileable(a)
        /\ attempt' = [a \in Attempts |->
             IF a \in filed THEN [attempt[a] EXCEPT !.state = "pending"] ELSE attempt[a]]
        /\ contact' = [d \in Contacts |->
             IF d \in batch THEN [contact[d] EXCEPT !.status = "queued"] ELSE contact[d]]
  BY DEF FileDueAttempts
<1>3. PICK a : a = NextAttempt(c)  OBVIOUS
<1>4. c \in batch => a \in Attempts /\ ~OnFile(a) /\ OnFile(a)'
  BY <1>1, <1>2, <1>3 DEF Fileable, OnFile, AttemptKind
<1>5. c \notin batch => contact'[c] = contact[c]  BY <1>2
<1> QED BY <1>3, <1>4, <1>5

(* A handler's step concerns the contact of its attempt, whose row it      *)
(* locks.                                                                  *)
LEMMA HandlerTouches ==
  ASSUME BaseInv, NEW l \in Lanes, RowStep(l), NEW a \in Attempts, a = Job(l)
  PROVE  /\ \A d \in Contacts : d # ContactOf(a) => contact'[d] = contact[d]
         /\ UNCHANGED contact \/ Free(a) \/ (Preparing(l) /\ Forgets(l))
<1>1. RowsOK /\ contact \in [Contacts -> ContactKind]  BY DEF BaseInv, DoneInv, RowsOK
<1>2. CASE PrepareContactGone(l) \/ PrepareNotRunning(l)
  <2>1. Preparing(l) /\ Forgets(l) /\ \E s : contact' = WithStatus(a, s)
    BY <1>2 DEF PrepareContactGone, PrepareNotRunning, PrepareCancels
  <2> QED BY <1>1, <2>1 DEF WithStatus
<1>3. CASE PrepareSkips(l)
  <2>1. Preparing(l) /\ Forgets(l)  BY <1>3 DEF PrepareSkips
  <2>2. \E s, n : contact' = [contact EXCEPT ![ContactOf(a)].status = s, ![ContactOf(a)].count = n]
    BY <1>3 DEF PrepareSkips
  <2> QED BY <1>1, <2>1, <2>2
<1>4. CASE StartFenced(l)
  <2>1. Free(a) /\ \E s : contact' = WithStatus(a, s)  BY <1>4 DEF StartFenced
  <2> QED BY <1>1, <2>1 DEF WithStatus
<1>5. CASE CompleteDispatch(l) \/ FailAttempt(l)
  <2>1. Free(a) /\ \E s : contact' = Tried(a, s)
    BY <1>5 DEF CompleteDispatch, FailAttempt, ProjectFailed
  <2> QED BY <1>1, <2>1, TriedRow
<1>6. CASE UNCHANGED contact  BY <1>6
<1>7. \/ UNCHANGED contact
      \/ PrepareContactGone(l) \/ PrepareNotRunning(l) \/ PrepareSkips(l) \/ StartFenced(l)
      \/ CompleteDispatch(l) \/ FailAttempt(l)
  BY DEF RowStep, FindSettled, PrepareFails, Prepared, StartEffect, DispatchReplays,
         DispatchFails, FailureFindsSettled, FailureConflicts, RetryAttempt, AttemptStopped,
         dispatchFrame, campaignVars
<1> QED BY <1>2, <1>3, <1>4, <1>5, <1>6, <1>7

(* The status of a contact stays, or is that of a contact released.        *)
ContactHolds(c) ==
  /\ contact'[c].count = contact[c].count
  /\ \/ contact'[c].status = contact[c].status
     \/ contact[c].status = "queued" /\ contact'[c].status \in {"pending", "cancelled"}

(* Of the attempts of a contact, the one whose row is locked is the latest.*)
LEMMA LockedIsLatest ==
  ASSUME BaseInv, Accounted, NEW l \in Lanes, LockHeld(l),
         NEW a \in Attempts, a = lane[l].job
  PROVE  /\ Acting(a) /\ OnFile(a) /\ ~Finished(a)
         /\ a = NextAttempt(ContactOf(a))
         /\ \A b \in Attempts : ContactOf(b) = ContactOf(a) /\ OnFile(b) /\ ~Told(b) => b = a
<1>1. ~Finished(a)  BY DEF Finished, Handling
<1>2. Acting(a) /\ OnFile(a) /\ ~Told(a)
  BY <1>1 DEF LockHeld, Acting, Open, OnFile, Accounted
<1>3. PICK c, k, n, s : CaseOf(a, c, k, n, s)  BY AttemptCase
<1>4. /\ c \in Contacts /\ k \in 1..MaxNumber /\ n \in Nat /\ a = Nth(c, k) /\ c = ContactOf(a)
      /\ n = contact[c].count /\ StoryOf(c, n, s)
  BY <1>3 DEF CaseOf
<1>5. k = n + 1  BY <1>2, <1>4, ActingIsNext
<1>6. a = NextAttempt(ContactOf(a))  BY <1>4, <1>5 DEF NextAttempt, Nth
<1>7. ASSUME NEW b \in Attempts, ContactOf(b) = ContactOf(a), OnFile(b), ~Told(b) PROVE b = a
  <2>1. PICK j \in 1..MaxNumber : b = Nth(c, j)  BY <1>4, <1>7, NthAttempts
  <2>2. j <= k  BY <1>2, <1>4, <1>7, <2>1, UntoldIsLatest
  <2>3. k <= j  BY <1>2, <1>4, <1>7, <2>1, UntoldIsLatest
  <2> QED BY <1>4, <2>1, <2>2, <2>3
<1> QED BY <1>1, <1>2, <1>6, <1>7

(* Nobody but an operator touches the contact of a preparing transaction.  *)
LEMMA LockedContact ==
  ASSUME BaseInv, Accounted, overtaken' = {}, [Next]_vars,
         NEW l \in Lanes, read[l] # Unread, read'[l] = read[l],
         NEW a \in Attempts, a = lane[l].job
  PROVE  ContactHolds(ContactOf(a))
<1>1. RowsOK /\ RecordTypes /\ LaneOK /\ LockHeld(l) /\ UnderwayInv /\ ReadsOK
  BY DEF BaseInv, DoneInv, TypeInv, RecordTypes, SendInv, UnderwayInv, Locks
<1>2. PICK c \in Contacts : c = ContactOf(a)  BY AttemptFacts
<1>3. ~Free(a)  BY DEF Free, Job
<1>4. CASE contact'[c] = contact[c]  BY <1>2, <1>4 DEF ContactHolds
<1>5. ASSUME NEW k \in Lanes, HandlerStep(k) PROVE contact'[c] = contact[c]
  <2>1. CASE EffectStep(k)  BY <2>1, HandlerSteps
  <2>2. CASE RowStep(k)
    <3>1. PICK b \in Attempts : b = Job(k) /\ OnFile(b) /\ ~Told(b)  BY <2>2, HandlerFacts
    <3>2. CASE ContactOf(b) # c  BY <2>2, <3>1, <3>2, HandlerTouches
    <3>3. CASE ContactOf(b) = c
      <4>1. b = a  BY <1>1, <1>2, <3>1, <3>3, LockedIsLatest
      <4>2. CASE Preparing(k) /\ Forgets(k)
        <5>1. k = l  BY <1>1, <3>1, <4>1, <4>2 DEF LockHeld, Preparing, Job
        <5>2. read'[l] = Unread  BY <1>1, <4>2, <5>1 DEF Forgets, ReadsOK
        <5> QED BY <5>2
      <4> QED BY <1>3, <2>2, <3>1, <4>1, <4>2, HandlerTouches
    <3> QED BY <3>2, <3>3
  <2> QED BY <1>5, <2>1, <2>2 DEF HandlerStep
<1>6. ASSUME NEW k \in Lanes, DeliveryStep(k) PROVE contact'[c] = contact[c]
  <2>1. CASE ConsumeOutcome(k)
    <3>1. PICK b \in Attempts : Job(k) = Ended(b) /\ Consume(k) /\ ApplyOutcome(b)
      BY <2>1 DEF ConsumeOutcome
    <3>2. Finished(b) /\ OnFile(b) /\ ~Told(b)  BY <3>1, OutcomeFacts
    <3>3. ContactOf(b) # c  BY <1>1, <1>2, <3>2, LockedIsLatest
    <3>4. UNCHANGED contact \/ \E s : contact' = Tried(b, s)  BY <3>1 DEF ApplyOutcome
    <3> QED BY <1>1, <3>3, <3>4, TriedRow
  <2>2. CASE ~ConsumeOutcome(k)
    BY <1>6, <2>2 DEF DeliveryStep, campaignFrame, campaignVars
  <2> QED BY <2>1, <2>2
<1>7. CASE FileDueAttempts
  <2>1. OnFile(a) /\ a = NextAttempt(c)  BY <1>1, <1>2, LockedIsLatest
  <2> QED BY <1>4, <1>7, <2>1, FiledContact
<1>8. CASE Transition \/ Revoke
  <2>1. PICK to \in {"pending", "cancelled"} : Fence(to)  BY <1>8 DEF Transition, Revoke
  <2>2. PICK released :
          /\ \A d \in released : contact[d].status = "queued"
          /\ contact' = [d \in Contacts |->
               IF d \in released THEN [contact[d] EXCEPT !.status = to] ELSE contact[d]]
    <3>1. PICK freed : contact' = [d \in Contacts |-> IF d \in freed /\ contact[d].status = "queued"
                          THEN [contact[d] EXCEPT !.status = to] ELSE contact[d]]
      BY <2>1 DEF Fence
    <3>2. PICK released : released = {d \in freed : contact[d].status = "queued"}  OBVIOUS
    <3>3. contact' = [d \in Contacts |->
            IF d \in released THEN [contact[d] EXCEPT !.status = to] ELSE contact[d]]
      BY <3>1, <3>2
    <3> QED BY <3>2, <3>3
  <2>3. IF c \in released THEN contact'[c].status = to /\ contact'[c].count = contact[c].count
                          ELSE contact'[c] = contact[c]
    BY <1>1, <2>2, StatusRows
  <2> QED BY <1>2, <2>2, <2>3 DEF ContactHolds
<1>9. ASSUME NEW d \in Contacts, RequestDeletion(d) PROVE ContactHolds(c)
  BY <1>1, <1>9 DEF RequestDeletion, RowsOK, ContactKind, ContactHolds
<1>10. ASSUME NEW d \in Contacts, QuiesceContact(d) PROVE contact'[c] = contact[c]
  <2>1. CASE d = c /\ FiledFor(c) = scope[c].filed
    <3>1. a \in FiledFor(c)
      <4>1. OnFile(a)  BY <1>1, LockedIsLatest
      <4> QED BY <1>2, <4>1 DEF FiledFor, OnFile
    <3>2. Free(a)  BY <1>10, <2>1, <3>1 DEF QuiesceContact
    <3> QED BY <1>3, <3>2
  <2>2. CASE d = c /\ FiledFor(c) # scope[c].filed  BY <1>10, <2>2 DEF QuiesceContact
  <2>3. CASE d # c
    <3>1. UNCHANGED contact \/ \E s : contact' = [contact EXCEPT ![d].status = s]
      BY <1>10 DEF QuiesceContact
    <3> QED BY <1>1, <2>3, <3>1 DEF RowsOK
  <2> QED BY <2>1, <2>2, <2>3
<1>11. CASE \/ UNCHANGED vars \/ FindNothingDue \/ Ask \/ Resume
            \/ \E k \in Lanes : ClaimSome(k) \/ LaneDies(k) \/ PrepareReads(k)
            \/ \E t \in Tasks : ClaimExpires(t)
            \/ \E d \in Deliveries : Nudge(d)
            \/ \E b \in Attempts : Carrier(b)
            \/ \E d \in Contacts : QuiesceReads(d)
  <2>1. UNCHANGED contact
    BY <1>11
       DEF vars, campaignVars, FindNothingDue, Ask, Resume, ClaimSome, ClaimAttempt, LaneDies,
           PrepareReads, ClaimExpires, Nudge, Carrier, CallbackReconciles, CallbackBinds, CallEnds,
           QuiesceReads, campaignFrame
  <2> QED BY <1>4, <2>1
<1> QED BY <1>2, <1>4, <1>5, <1>6, <1>7, <1>8, <1>9, <1>10, <1>11, NextSteps DEF ControlStep

LEMMA ReadsHold ==
  ASSUME BaseInv, Accounted, overtaken' = {}, [Next]_vars, NEW l \in Lanes
  PROVE  ReadTrue(l)'
<1> SUFFICES ASSUME read'[l] # Unread
             PROVE  ReadOf(read'[l], contact'[ContactOf(lane'[l].job)].count,
                           contact'[ContactOf(lane'[l].job)].status)
  BY DEF ReadTrue, ReadOf, Job
<1>1. ReadsGo /\ LaneOK /\ ReadsOK
  BY NextReads DEF BaseInv, DoneInv, TypeInv, SendInv
<1>2. CASE PrepareReads(l)
  <2>1. PICK c : c = ContactOf(lane[l].job)  OBVIOUS
  <2>2. PICK r : r = [campaign |-> campaign.status, failed |-> campaign.failed,
                      status |-> contact[c].status, count |-> contact[c].count,
                      active |-> contact[c].active]
    OBVIOUS
  <2>3. read' = [read EXCEPT ![l] = r] /\ UNCHANGED <<lane, contact>>
    BY <1>2, <2>1, <2>2 DEF PrepareReads, Job, pool, campaignVars
  <2>4. read'[l] = r  BY <1>1, <2>3 DEF ReadsOK
  <2>5. ReadOf(r, contact[c].count, contact[c].status)  BY <2>2 DEF ReadOf
  <2> QED BY <2>1, <2>3, <2>4, <2>5
<1>3. CASE ReadStays(l)
  <2>1. read'[l] = read[l] /\ lane'[l].job = lane[l].job  BY <1>3 DEF ReadStays
  <2>2. LockHeld(l)  BY <2>1 DEF BaseInv, TypeInv, RecordTypes, UnderwayInv, Locks
  <2>3. PICK a \in Attempts : a = lane[l].job  BY <2>2 DEF LockHeld
  <2>4. PICK c : c = ContactOf(a)  OBVIOUS
  <2>5. ContactHolds(c)  BY <2>1, <2>3, <2>4, LockedContact
  <2>6. ReadOf(read[l], contact[c].count, contact[c].status)
    BY <2>1, <2>3, <2>4 DEF Accounted, ReadTrue, Job
  <2>7. ReadOf(read[l], contact'[c].count, contact'[c].status)
    BY <2>5, <2>6 DEF ContactHolds, ReadOf
  <2> QED BY <2>1, <2>3, <2>4, <2>7
<1> QED BY <1>1, <1>2, <1>3 DEF ReadsGo

LEMMA ScopesHold ==
  ASSUME BaseInv, Accounted, [Next]_vars, NEW c \in Contacts
  PROVE  ScopeTrue(c)'
<1>1. RowsOK /\ ReadsOK /\ RecordTypes /\ UnderwayInv /\ LaneOK /\ OutboundTypeOK
      /\ SendInv /\ DeliveryInv /\ PoolInv /\ RecordInv
  BY DEF BaseInv, DoneInv, TypeInv, RecordTypes, SendInv
<1>2. ASSUME scope'[c] = scope[c], scope[c] # NoScope PROVE ScopeTrue(c)'
  <2>1. scope[c].status \notin Counted  BY <1>2 DEF Accounted, ScopeTrue
  <2>2. ASSUME FiledFor(c)' = scope[c].filed, contact'[c].status = "queued"
        PROVE  scope[c].status = "queued"
    <3>1. scope[c].filed \subseteq FiledFor(c)
      BY <1>1 DEF UnderwayInv, FiledFor, OnFile
    <3>2. \A b \in Attempts : OnFile(b) => OnFile(b)'  BY <1>1, OnFileStays
    <3>3. FiledFor(c) \subseteq FiledFor(c)'  BY <3>2 DEF FiledFor, OnFile
    <3>4. FiledFor(c) = scope[c].filed  BY <2>2, <3>1, <3>3
    <3>5. CASE ~FileDueAttempts
      <4>1. ContactStep  BY <1>1, ContactSteps
      <4>2. contact[c].status = "queued"  BY <1>1, <2>2, <3>5, <4>1, QueuedByFiling
      <4> QED BY <1>2, <3>4, <4>2 DEF Accounted, ScopeTrue
    <3>6. CASE FileDueAttempts
      <4>1. CASE contact'[c] = contact[c]
        BY <1>2, <2>2, <3>4, <4>1 DEF Accounted, ScopeTrue
      <4>2. ASSUME NEW a \in Attempts, a = NextAttempt(c), ~OnFile(a), OnFile(a)'
            PROVE  FALSE
        <5>1. FiledFor(c)' = FiledFor(c)  BY <2>2, <3>4
        <5>2. ContactOf(a) = c  BY <4>2 DEF NextAttempt, ContactOf
        <5> QED BY <4>2, <5>1, <5>2 DEF FiledFor, OnFile
      <4> QED BY <3>6, <4>1, <4>2, FiledContact
    <3> QED BY <3>5, <3>6
  <2> QED BY <1>2, <2>1, <2>2 DEF ScopeTrue
<1>3. CASE QuiesceReads(c)
  <2>1. PICK r : r = [filed |-> FiledFor(c), unstarted |-> Unstarted(c),
                      status |-> contact[c].status]
    OBVIOUS
  <2>2. scope' = [scope EXCEPT ![c] = r] /\ UNCHANGED contact /\ Unstarted(c) # {}
    BY <1>3, <2>1 DEF QuiesceReads, campaignVars
  <2>3. scope'[c] = r  BY <1>1, <2>2 DEF ReadsOK
  <2>4. PICK a \in Unstarted(c) : TRUE  BY <2>2
  <2>5. a \in Attempts /\ ContactOf(a) = c /\ OnFile(a) /\ Acting(a)
    <3>1. a \in Attempts /\ ContactOf(a) = c /\ attempt[a].state \notin {"none"} \union SettledAttempt
          /\ ~attempt[a].started /\ attempt[a] \in AttemptKind
      BY <1>1, <2>4 DEF Unstarted, FiledFor, RecordTypes
    <3> QED BY <3>1, AttemptNames DEF OnFile, Acting, Open, Started, AttemptKind
  <2>6. contact[c].status \notin Counted
    <3>1. PICK d, k, n, s : CaseOf(a, d, k, n, s)  BY <2>5, AttemptCase
    <3>2. /\ d \in Contacts /\ k \in 1..MaxNumber /\ n \in Nat /\ a = Nth(d, k) /\ d = ContactOf(a)
          /\ s = contact[d].status /\ StoryOf(d, n, s)
      BY <3>1 DEF CaseOf
    <3>3. s \notin Counted  BY <2>5, <3>2, ActingIsNext
    <3> QED BY <2>5, <3>2, <3>3
  <2> QED BY <2>1, <2>2, <2>3, <2>6 DEF ScopeTrue
<1>4. CASE scope'[c] = NoScope  BY <1>4 DEF ScopeTrue
<1>5. \/ scope'[c] = scope[c] \/ scope'[c] = NoScope \/ QuiesceReads(c)
  <2>1. ASSUME NEW d \in Contacts, QuiesceReads(d), d # c PROVE scope'[c] = scope[c]
    BY <2>1 DEF QuiesceReads
  <2>2. ASSUME NEW d \in Contacts, scope' = [scope EXCEPT ![d] = NoScope]
        PROVE  scope'[c] = scope[c] \/ scope'[c] = NoScope
    BY <1>1, <2>2 DEF ReadsOK
  <2> QED BY <2>1, <2>2, NextMarks
<1> QED BY <1>2, <1>3, <1>4, <1>5

LEMMA NextAccounts == BaseInv /\ OutcomeInv /\ [Next]_vars => OutcomeInv'
<1> SUFFICES ASSUME BaseInv, OutcomeInv, [Next]_vars, overtaken' = {} PROVE Accounted'
  BY DEF OutcomeInv
<1>1. overtaken = {} /\ Accounted  BY OvertakenStays DEF OutcomeInv
<1>2. (\A a \in Attempts : Told(a) => Finished(a))'
  <2> SUFFICES ASSUME NEW a \in Attempts, Told(a)' PROVE Finished(a)'
    OBVIOUS
  <2>1. Finished(a)  BY <1>1, NewlyTold DEF Accounted
  <2>2. StaysFinished(a)  BY NextBase, AttemptTasks
  <2> QED BY <2>1, <2>2 DEF StaysFinished
<1>3. StaysAccounted
  <2>1. CASE FileDueAttempts  BY <1>1, <2>1, FilingAccounts
  <2>2. CASE ~FileDueAttempts
    <3>1. \A a \in Attempts : AttemptMoves(a)  BY <2>2, NextMoves
    <3>2. CASE \E l \in Lanes : HandlerStep(l)  BY <1>1, <3>1, <3>2, HandlerAccounts
    <3>3. CASE \E l \in Lanes : ConsumeOutcome(l)  BY <1>1, <3>1, <3>3, OutcomeAccounts
    <3>4. CASE \/ UNCHANGED vars \/ FindNothingDue
               \/ \E l \in Lanes : \/ ClaimSome(l) \/ LaneDies(l) \/ PrepareReads(l)
                                   \/ DeliveryStep(l) /\ ~ConsumeOutcome(l)
               \/ \E t \in Tasks : ClaimExpires(t)
               \/ \E d \in Deliveries : Nudge(d)
               \/ \E a \in Attempts : Carrier(a)
               \/ ControlStep
      BY <1>1, <3>1, <3>4, OtherStepAccounts
    <3> QED BY <2>2, <3>2, <3>3, <3>4, NextSteps
  <2> QED BY <2>1, <2>2
<1>4. (\A c \in Contacts : Story(c))' /\ TalliesMove  BY <1>3 DEF StaysAccounted
<1>5. Tallied'
  <2>1. campaign \in CampaignKind /\ read \in [Lanes -> ReadKind] /\ ReadsGo
    BY NextReads DEF BaseInv, DoneInv, RowsOK, ReadsOK, TypeInv, SendInv
  <2>2. ASSUME NEW l \in Lanes, read'[l] # Unread
        PROVE  read'[l] = read[l] \/ read'[l].failed = campaign.failed
    <3>1. ASSUME PrepareReads(l) PROVE read'[l].failed = campaign.failed
      <4>1. PICK c : c = contact[ContactOf(Job(l))]  OBVIOUS
      <4>2. PICK r : r = [campaign |-> campaign.status, failed |-> campaign.failed,
                          status |-> c.status, count |-> c.count, active |-> c.active]
        OBVIOUS
      <4>3. read' = [read EXCEPT ![l] = r]  BY <3>1, <4>1, <4>2 DEF PrepareReads
      <4> QED BY <2>1, <4>2, <4>3
    <3> QED BY <2>1, <2>2, <3>1 DEF ReadsGo, ReadStays
  <2>3. blind \subseteq blind'  BY NextMarks
  <2> QED BY <1>1, <1>4, <2>1, <2>2, <2>3, TalliesGoOn DEF Accounted
<1>6. (\A l \in Lanes : ReadTrue(l))'  BY <1>1, ReadsHold
<1>7. (\A c \in Contacts : ScopeTrue(c))'  BY <1>1, ScopesHold
<1> QED BY <1>2, <1>4, <1>5, <1>6, <1>7 DEF Accounted

LEMMA InitAccounts == Init => OutcomeInv
<1> SUFFICES ASSUME Init PROVE Accounted
  BY DEF OutcomeInv
<1>1. \A a \in Attempts : ~Told(a) /\ ~OnFile(a) /\ ~Acting(a)
  BY DEF Init, Told, OnFile, Acting, Open
<1>2. \A c \in Contacts : contact[c].count = 0 /\ contact[c].status = "pending"
  BY DEF Init
<1>3. ASSUME NEW c \in Contacts PROVE Story(c)
  <2>1. \A k \in 1..MaxNumber : ~OnFile(Nth(c, k)) /\ ~Acting(Nth(c, k))  BY <1>1, NthAttempts
  <2>2. StoryOf(c, 0, "pending")  BY <2>1, NthAttempts DEF StoryOf
  <2> QED BY <1>2, <2>2 DEF Story
<1>4. (\A l \in Lanes : read[l] = Unread) /\ (\A c \in Contacts : scope[c] = NoScope)
  BY DEF Init
<1>5. Tallied
  <2>1. Reached = {} /\ Unreached = {}  BY <1>2 DEF Reached, Unreached, ContactsIn
  <2>2. campaign.completed = 0 /\ campaign.failed = 0  BY DEF Init
  <2> QED BY <1>4, <2>1, <2>2, FS_EmptySet DEF Tallied
<1>6. (\A l \in Lanes : ReadTrue(l)) /\ (\A c \in Contacts : ScopeTrue(c))
  BY <1>4 DEF ReadTrue, ScopeTrue
<1> QED BY <1>1, <1>3, <1>5, <1>6 DEF Accounted

-----------------------------------------------------------------------------
(* What the campaign reports *)

(* The tallies of a campaign are those of its contacts, unless a handler   *)
(* was overtaken or an erasure wrote over a contact that had moved:        *)
(* callbacks, handlers, operators and sweeps may come in any order, a      *)
(* contact is counted at most once, and as what its row says; a failure is *)
(* lost only when a transaction went by rows that had moved since it read  *)
(* them (blind), as two skips that overlap do.                             *)
THEOREM TalliesAreTrue == Spec => []TalliesMatchContacts
<1>1. Init => BaseInv /\ OutcomeInv  BY InitBase, InitAccounts
<1>2. BaseInv /\ OutcomeInv /\ [Next]_vars => (BaseInv /\ OutcomeInv)'
  BY NextBase, NextAccounts
<1>3. BaseInv /\ OutcomeInv => TalliesMatchContacts
  BY DEF OutcomeInv, Accounted, Tallied, Reached, Unreached, TalliesMatchContacts
<1> QED BY <1>1, <1>2, <1>3, PTL DEF Spec

(* A provider is reached by the send of a handler.                         *)
LEMMA ReachedBySending ==
  ASSUME BaseInv, [Next]_vars, NEW a \in Attempts, reached'[a] # reached[a]
  PROVE  OnFile(a) /\ Handling(a)
<1>1. PICK l \in Lanes : DispatchSends(l)
  <2>1. \/ UNCHANGED reached
        \/ \E l \in Lanes : DispatchSends(l)
    <3>1. ASSUME NEW l \in Lanes, HandlerStep(l), ~DispatchSends(l) PROVE UNCHANGED reached
      BY <3>1, HandlerSteps
         DEF HandlerStep, EffectStep, DispatchAuthorized, DispatchRecovers, DispatchRecords,
             DispatchProjects, DispatchSaves, SendInterrupted, BeginSend, RecoverSend,
             RecordOutcome, outVars
    <3>2. ASSUME NEW l \in Lanes, DeliveryStep(l) PROVE UNCHANGED reached
      BY <3>2 DEF DeliveryStep, ConsumeOutcome, campaignFrame, outVars
    <3>3. CASE \/ UNCHANGED vars \/ FileDueAttempts \/ FindNothingDue
               \/ \E l \in Lanes : ClaimSome(l) \/ LaneDies(l) \/ PrepareReads(l)
               \/ \E t \in Tasks : ClaimExpires(t)
               \/ \E d \in Deliveries : Nudge(d)
               \/ \E b \in Attempts : Carrier(b)
               \/ ControlStep
      BY <3>3, ControlFrame
         DEF vars, outVars, FileDueAttempts, FindNothingDue, ClaimSome, ClaimAttempt, LaneDies,
             PrepareReads,
             ClaimExpires, Nudge, Carrier, CallbackReconciles, CallbackBinds, CallEnds, Reconcile,
             controlFrame, campaignFrame
    <3> QED BY <3>1, <3>2, <3>3, NextSteps
  <2> QED BY <2>1
<1>2. PICK b \in Attempts : b = Job(l) /\ b = lane[l].job /\ LaneTells(b, "send", lane[l].res, lane[l].holds)
  <2>1. At(l, "send") /\ LaneOK /\ RecordInv
    BY <1>1 DEF DispatchSends, BaseInv, SendInv
  <2> QED BY <2>1, DispatchNames, DispatchingLane
<1>3. \A e \in Effects : e # b => reached'[e] = reached[e]
  BY <1>1, <1>2 DEF DispatchSends, ProviderPerforms, ProviderDeclines, BaseInv, SendInv,
                    OutboundTypeOK
<1>4. a = b  BY <1>3, AttemptTasks
<1> QED BY <1>2, <1>4 DEF LaneTells, Handling

LEMMA SendsToUnreached ==
  BaseInv /\ OutcomeInv /\ [Next]_vars =>
    [\A a \in Attempts :
       reached'[a] # reached[a] /\ overtaken = {} => ~ReachedAlready(ContactOf(a))]_vars
<1> SUFFICES ASSUME BaseInv, OutcomeInv, [Next]_vars, overtaken = {},
                    NEW a \in Attempts, reached'[a] # reached[a],
                    NEW b \in Attempts, ContactOf(b) = ContactOf(a),
                    attempt[b].outcome, call[b] = "connected"
             PROVE  FALSE
  BY DEF ReachedAlready
<1>1. Accounted  BY DEF OutcomeInv
<1>2. OnFile(a) /\ Handling(a)  BY ReachedBySending
<1>3. ~Told(a)  BY <1>1, <1>2 DEF Accounted, Finished
<1>4. Told(b) /\ ~Past(b)  BY DEF Told, Past
<1>5. OnFile(b)  BY <1>4 DEF BaseInv, RecordInv, CallInv
<1>6. PICK c, k, n, s : CaseOf(a, c, k, n, s)  BY <1>1, AttemptCase
<1>7. /\ c \in Contacts /\ k \in 1..MaxNumber /\ a = Nth(c, k) /\ c = ContactOf(a)
      /\ StoryOf(c, n, s)
  BY <1>6 DEF CaseOf
<1>8. PICK j \in 1..MaxNumber : b = Nth(c, j)  BY <1>7, NthAttempts
<1>9. k # j  BY <1>3, <1>4, <1>7, <1>8
<1>10. CASE j < k  BY <1>2, <1>4, <1>7, <1>8, <1>10 DEF StoryOf
<1>11. CASE k < j
  <2>1. Past(a)  BY <1>5, <1>7, <1>8, <1>11 DEF StoryOf
  <2> QED BY <1>3, <2>1 DEF Past
<1> QED BY <1>7, <1>9, <1>10, <1>11, NthAttempts

(* Nobody for whom the campaign has recorded a connected call is called    *)
(* again, unless a handler was overtaken: retries, crashes and the         *)
(* carrier's callbacks included.                                           *)
THEOREM CalledUntilReached == Spec => NobodyIsCalledAgain
<1>1. Init => BaseInv /\ OutcomeInv  BY InitBase, InitAccounts
<1>2. BaseInv /\ OutcomeInv /\ [Next]_vars => (BaseInv /\ OutcomeInv)'
  BY NextBase, NextAccounts
<1>3. BaseInv /\ OutcomeInv /\ [Next]_vars =>
        [\A a \in Attempts :
           reached'[a] # reached[a] /\ overtaken = {} => ~ReachedAlready(ContactOf(a))]_vars
  BY SendsToUnreached
<1> QED BY <1>1, <1>2, <1>3, PTL DEF Spec, NobodyIsCalledAgain

LEMMA RestMeansDone == BaseInv /\ OutcomeInv => RestsOnlyWhenDone
<1> SUFFICES ASSUME BaseInv, OutcomeInv, Quiet, campaign.status = "running", overtaken = {}
             PROVE  \E c \in ContactsIn(OpenContact) : LeftBehind(c)
  BY DEF RestsOnlyWhenDone
<1>1. Accounted /\ RowsOK /\ campaign \in CampaignKind
  BY DEF OutcomeInv, BaseInv, DoneInv, RowsOK
<1>2. PICK c \in Contacts : contact[c].status \in OpenContact
  <2> SUFFICES ASSUME \A c \in Contacts : contact[c].status \notin OpenContact PROVE FALSE
    OBVIOUS
  <2>1. Closed(campaign, contact) = [campaign EXCEPT !.status = "completed"]  BY DEF Closed
  <2>2. Closed(campaign, contact).status = "completed"  BY <1>1, <2>1 DEF CampaignKind
  <2> QED BY <2>2 DEF Quiet
<1>3. ASSUME NEW d \in Contacts, contact[d].status = "queued"
      PROVE  d \in ContactsIn(OpenContact) /\ LeftBehind(d)
  <2>1. PICK n, s : n \in Nat /\ n = contact[d].count /\ s = contact[d].status /\ StoryOf(d, n, s)
    BY <1>1, CountTyped DEF Accounted, Story
  <2>2. PICK a \in Attempts : ContactOf(a) = d /\ Open(a)
    BY <1>3, <2>1, NthAttempts DEF StoryOf
  <2> QED BY <1>3, <2>2 DEF LeftBehind, Open, ContactsIn, OpenContact
<1>4. ASSUME NEW d \in Contacts, contact[d].status = "in_progress"
      PROVE  d \in ContactsIn(OpenContact) /\ LeftBehind(d)
  <2>1. PICK n, s : n \in Nat /\ n = contact[d].count /\ s = contact[d].status /\ StoryOf(d, n, s)
    BY <1>1, CountTyped DEF Accounted, Story
  <2>2. PICK a \in Attempts : ContactOf(a) = d /\ saved[a] = "succeeded" /\ ~Told(a)
    BY <1>4, <2>1, NthAttempts DEF StoryOf, OnFileAt
  <2>3. CallInv(a)  BY DEF BaseInv, RecordInv
  <2>4. call[a] \in EndedCall  BY <2>2, <2>3 DEF CallInv, Quiet, Ringing
  <2>5. Filing(a) \notin {"none", "succeeded"}  BY <2>2, <2>3, <2>4 DEF CallInv
  <2> QED BY <1>4, <2>2, <2>5 DEF LeftBehind, Filing, ContactsIn, OpenContact
<1>5. ASSUME \A d \in Contacts : contact[d].status \notin {"queued", "in_progress"}
      PROVE  c \in ContactsIn(OpenContact) /\ LeftBehind(c)
  <2>1. c \in DueContacts  BY <1>2, <1>5 DEF DueContacts, ContactsIn, OpenContact
  <2>2. Slots > 0
    <3>1. ContactsIn({"queued", "in_progress"}) = {}  BY <1>5 DEF ContactsIn
    <3>2. Cardinality(ContactsIn({"queued", "in_progress"})) = 0  BY <3>1, FS_EmptySet
    <3> QED BY <3>2, CampaignAssumption DEF Slots
  <2>3. ~Fileable(NextAttempt(c))  BY <2>1, <2>2 DEF Quiet
  <2>4. PICK n, s : n \in Nat /\ n = contact[c].count /\ s = contact[c].status /\ StoryOf(c, n, s)
    BY <1>1, CountTyped DEF Accounted, Story
  <2>5. NextAttempt(c) = Nth(c, n + 1)  BY <2>4 DEF NextAttempt, Nth
  <2>6. n + 1 \in 1..MaxNumber
    <3>1. s \in {"pending", "retry"}  BY <2>1, <2>4 DEF DueContacts, ContactsIn
    <3> QED BY <2>4, <3>1, NthAttempts DEF StoryOf, OnFileAt
  <2>7. NextAttempt(c) \in Attempts  BY <2>5, <2>6, NthAttempts
  <2> QED BY <1>2, <2>1, <2>3, <2>7 DEF LeftBehind, ContactsIn
<1> QED BY <1>3, <1>4, <1>5

(* A running campaign at rest has completed, or has left a contact behind  *)
(* for one of three reasons: an attempt an operator cancelled holds the    *)
(* number of its next, a handler's last try died, or the fact of a call's  *)
(* end was not consumed.                                                   *)
THEOREM RestsWhenDone == Spec => []RestsOnlyWhenDone
<1>1. Init => BaseInv /\ OutcomeInv  BY InitBase, InitAccounts
<1>2. BaseInv /\ OutcomeInv /\ [Next]_vars => (BaseInv /\ OutcomeInv)'
  BY NextBase, NextAccounts
<1>3. BaseInv /\ OutcomeInv => RestsOnlyWhenDone  BY RestMeansDone
<1> QED BY <1>1, <1>2, <1>3, PTL DEF Spec
=============================================================================
