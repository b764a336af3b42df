-------------------------- MODULE Campaign_proofs ---------------------------
(***************************************************************************)
(* Proofs about Campaign: nobody is called twice by one attempt, however   *)
(* handlers crash, stall and replay each other; a completed campaign has   *)
(* settled every contact, unless a transaction went by a campaign row that *)
(* had moved; and the durable events keep their contract.                  *)
(***************************************************************************)
EXTENDS Campaign, TLAPS

(* A campaign's attempts are tasks and effects, its deliveries are not.    *)
LEMMA AttemptFacts ==
  /\ Attempts \subseteq Tasks /\ Attempts \subseteq Effects
  /\ Deliveries \subseteq Tasks
  /\ NoTask \notin Tasks
  /\ \A a \in Attempts : Ended(a) \in Deliveries
  /\ \A a \in Attempts : ContactOf(a) \in Contacts /\ Number(a) \in Nat
<1>1. Attempts \subseteq Tasks /\ Attempts \subseteq Effects
  BY CampaignAssumption DEF Attempts
<1>2. \A a \in Attempts : Ended(a) \in Deliveries
  BY CampaignAssumption DEF Attempts, Ended
<1>3. \A a \in Attempts : ContactOf(a) \in Contacts /\ Number(a) \in Nat
  BY DEF Attempts, ContactOf, Number
<1> QED BY <1>1, <1>2, <1>3, PoolAssumption, DeliveriesAssumption

-----------------------------------------------------------------------------
(* Lanes *)

PCs     == {"idle"} \union DeliverySteps \union AttemptSteps
Results == {"none"} \union OutStates

LaneOK ==
  /\ lane \in [Lanes -> LaneRow(PCs, Results)]
  /\ \A l \in Lanes :
       /\ lane[l].pc \in AttemptSteps => lane[l].job \in Attempts
       /\ lane[l].pc \in DeliverySteps => lane[l].job \in Deliveries
       /\ lane[l].pc = "record" => lane[l].res \in Outcomes

(* The lanes at, or just past, the provider.                               *)
Sends == {"send", "record"}

(* A step after which no lane is at the provider that was not there.       *)
QuietMove ==
  \A l \in Lanes :
    \/ /\ lane'[l].pc = lane[l].pc /\ lane'[l].job = lane[l].job
       /\ lane'[l].res = lane[l].res
    \/ lane'[l].pc \notin Sends

LEMMA StepFacts ==
  "idle" \notin Sends /\ "idle" \notin AttemptSteps /\ "idle" \notin DeliverySteps
BY DEF Sends, AttemptSteps, DeliverySteps, DispatchSteps

LEMMA StepKeepsLanes ==
  ASSUME LaneOK, NEW l \in Lanes, NEW pc \in PCs, NEW res \in Results, Step(l, pc, res),
         pc \in AttemptSteps => lane[l].pc \in AttemptSteps,
         pc \in DeliverySteps => lane[l].pc \in DeliverySteps,
         pc = "record" => res \in Outcomes
  PROVE  /\ LaneOK'
         /\ lane'[l].pc = pc /\ lane'[l].job = lane[l].job /\ lane'[l].res = res
         /\ \A k \in Lanes : k # l => lane'[k] = lane[k]
<1>1. lane' = [lane EXCEPT ![l].pc = pc, ![l].res = res]  BY DEF Step
<1>2. lane \in [Lanes -> LaneRow(PCs, Results)]  BY DEF LaneOK
<1>3. lane[l] \in LaneRow(PCs, Results)  BY <1>2
<1>4. /\ lane'[l].pc = pc /\ lane'[l].job = lane[l].job /\ lane'[l].res = res
      /\ lane'[l] \in LaneRow(PCs, Results)
      /\ \A k \in Lanes : k # l => lane'[k] = lane[k]
  BY <1>1, <1>2, <1>3 DEF LaneRow
<1>5. lane' \in [Lanes -> LaneRow(PCs, Results)]  BY <1>1, <1>2, <1>4
<1> QED BY <1>4, <1>5 DEF LaneOK

LEMMA IdleKeepsLanes ==
  ASSUME LaneOK, NEW l \in Lanes, lane' = [lane EXCEPT ![l] = Idle]
  PROVE  LaneOK' /\ QuietMove
<1>1. Idle \in LaneRow(PCs, Results)  BY DEF Idle, LaneRow, PCs, Results
<1>2. Idle.pc \notin AttemptSteps /\ Idle.pc \notin DeliverySteps /\ Idle.pc \notin Sends
      /\ Idle.pc # "record"
  BY StepFacts DEF Idle
<1>3. \A k \in Lanes : lane'[k] = IF k = l THEN Idle ELSE lane[k]
  BY DEF LaneOK
<1> HIDE DEF Idle
<1>4. LaneOK'  BY <1>1, <1>2, <1>3 DEF LaneOK
<1> QED BY <1>2, <1>3, <1>4 DEF QuietMove

LEMMA ClaimKeepsLanes ==
  ASSUME LaneOK, NEW l \in Lanes, NEW t, NEW first, Claim(l, t, first),
         \/ t \in Attempts /\ first = "prepare"
         \/ t \in Deliveries /\ first = "begin"
  PROVE  LaneOK' /\ QuietMove
<1> DEFINE row == [pc |-> first, job |-> t, holds |-> TRUE, res |-> "none"]
<1>1. \A k \in Lanes : lane'[k] = IF k = l THEN row ELSE lane[k]
  BY DEF Claim, LaneOK
<1>2. row \in LaneRow(PCs, Results)
  BY AttemptFacts DEF LaneRow, PCs, Results, AttemptSteps, DeliverySteps
<1>3. /\ row.pc \in AttemptSteps => row.job \in Attempts
      /\ row.pc \in DeliverySteps => row.job \in Deliveries
      /\ row.pc # "record" /\ row.pc \notin Sends
  BY DEF AttemptSteps, DispatchSteps, DeliverySteps, Sends
<1>4. lane' \in [Lanes -> LaneRow(PCs, Results)]
  BY <1>2 DEF Claim, LaneOK
<1> HIDE DEF row
<1>5. LaneOK'  BY <1>1, <1>3, <1>4 DEF LaneOK
<1> QED BY <1>1, <1>3, <1>5 DEF QuietMove

LEMMA ExpiryKeepsLanes ==
  ASSUME LaneOK, NEW t, ClaimRunsOut(t)
  PROVE  LaneOK' /\ QuietMove
<1>1. lane' = [l \in Lanes |-> IF Job(l) = t THEN [lane[l] EXCEPT !.holds = FALSE] ELSE lane[l]]
  BY DEF ClaimRunsOut
<1>2. \A l \in Lanes : lane[l] \in LaneRow(PCs, Results)  BY DEF LaneOK
<1>3. ASSUME NEW l \in Lanes
      PROVE  /\ lane'[l] \in LaneRow(PCs, Results)
             /\ lane'[l].pc = lane[l].pc /\ lane'[l].job = lane[l].job
             /\ lane'[l].res = lane[l].res
  BY <1>1, <1>2 DEF LaneRow
<1>4. lane' \in [Lanes -> LaneRow(PCs, Results)]  BY <1>1, <1>3
<1> QED BY <1>3, <1>4 DEF LaneOK, QuietMove

(* What a handler does that neither goes to the provider nor comes from it.*)
HandlerMove(l) ==
  \/ lane' = [lane EXCEPT ![l] = Idle]
  \/ \E pc \in PCs \ Sends, res \in Results :
       /\ Step(l, pc, res)
       /\ pc \in AttemptSteps => lane[l].pc \in AttemptSteps
       /\ pc \in DeliverySteps => lane[l].pc \in DeliverySteps

LEMMA HandlerMoveKeepsLanes ==
  ASSUME LaneOK, NEW l \in Lanes, HandlerMove(l)
  PROVE  LaneOK' /\ QuietMove
<1>1. CASE lane' = [lane EXCEPT ![l] = Idle]  BY <1>1, IdleKeepsLanes
<1>2. ASSUME NEW pc \in PCs \ Sends, NEW res \in Results, Step(l, pc, res),
             pc \in AttemptSteps => lane[l].pc \in AttemptSteps,
             pc \in DeliverySteps => lane[l].pc \in DeliverySteps
      PROVE  LaneOK' /\ QuietMove
  <2>1. pc # "record"  BY DEF Sends
  <2>2. /\ LaneOK' /\ lane'[l].pc = pc
        /\ \A k \in Lanes : k # l => lane'[k] = lane[k]
    BY <1>2, <2>1, StepKeepsLanes
  <2> QED BY <2>2 DEF QuietMove
<1> QED BY <1>1, <1>2 DEF HandlerMove

LEMMA MoveWithin ==
  ASSUME NEW l \in Lanes, NEW pc \in AttemptSteps \ Sends, NEW res \in Results, Step(l, pc, res),
         lane[l].pc \in AttemptSteps
  PROVE  HandlerMove(l)
<1>1. pc \in PCs \ Sends /\ pc \notin DeliverySteps
  BY DEF PCs, AttemptSteps, DispatchSteps, DeliverySteps
<1> QED BY <1>1 DEF HandlerMove

LEMMA MoveWithinDelivery ==
  ASSUME NEW l \in Lanes, NEW pc \in DeliverySteps, Step(l, pc, "none"),
         lane[l].pc \in DeliverySteps
  PROVE  HandlerMove(l)
<1>1. pc \in PCs \ Sends /\ pc \notin AttemptSteps /\ "none" \in Results
  BY DEF PCs, AttemptSteps, DispatchSteps, DeliverySteps, Sends, Results
<1> QED BY <1>1 DEF HandlerMove

LEMMA ReturnIsMove ==
  ASSUME NEW l, Returns(l) \/ Raises(l) \/ GivesBack(l) \/ Dies(l)
  PROVE  HandlerMove(l)
BY DEF HandlerMove, Returns, Raises, GivesBack, Dies

LEMMA AttemptPCs ==
  /\ {"prepare", "start", "complete", "unknown", "reject", "retry",
      "intent", "send", "record", "project", "save"} = AttemptSteps
  /\ {"prepare", "start", "complete", "unknown", "reject", "retry",
      "intent", "project", "save"} = AttemptSteps \ Sends
  /\ {"begin", "consume", "failing", "burying"} = DeliverySteps
  /\ "none" \in Results
  /\ DispatchSteps \subseteq AttemptSteps
BY DEF AttemptSteps, DispatchSteps, Sends, DeliverySteps, Results

(* A step that keeps the lanes in order and the effects as they are.       *)
LEMMA AttemptStepMoves ==
  ASSUME LaneOK, NEW l \in Lanes,
         \/ FindSettled(l) \/ PrepareReads(l) \/ PrepareContactGone(l)
         \/ PrepareNotRunning(l) \/ PrepareSkips(l) \/ PrepareFails(l) \/ Prepared(l)
         \/ StartFenced(l) \/ StartEffect(l) \/ DispatchReplays(l)
         \/ DispatchProjects(l) \/ DispatchSaves(l) \/ DispatchFails(l)
         \/ CompleteDispatch(l) \/ FailureFindsSettled(l) \/ FailureConflicts(l)
         \/ FailAttempt(l) \/ RetryAttempt(l) \/ AttemptStopped(l)
  PROVE  (HandlerMove(l) \/ lane' = lane) /\ UNCHANGED outVars
<1>0. CASE PrepareReads(l)
  BY <1>0 DEF PrepareReads, pool
<1>1. CASE FindSettled(l) \/ PrepareContactGone(l) \/ PrepareNotRunning(l) \/ PrepareSkips(l)
           \/ StartFenced(l) \/ CompleteDispatch(l) \/ FailureFindsSettled(l) \/ FailAttempt(l)
  <2>1. ReturnReceipt(l)
    BY <1>1 DEF FindSettled, PrepareContactGone, PrepareNotRunning, PrepareCancels, PrepareSkips,
                StartFenced, CompleteDispatch, FailureFindsSettled, FailAttempt
  <2> QED BY <2>1, ReturnIsMove DEF ReturnReceipt
<1>2. CASE FailureConflicts(l) \/ RetryAttempt(l) \/ AttemptStopped(l)
  <2>1. Raises(l) /\ UNCHANGED outVars
    BY <1>2 DEF FailureConflicts, RetryAttempt, AttemptStopped
  <2> QED BY <2>1, ReturnIsMove
<1>3. CASE PrepareFails(l)
  <2>1. Step(l, "reject", "none") /\ At(l, "prepare") /\ UNCHANGED outVars
    BY <1>3 DEF PrepareFails, Preparing, Goto, Trips
  <2> QED BY <2>1, MoveWithin, AttemptPCs DEF At
<1>4. CASE Prepared(l)
  <2>1. Step(l, "start", "none") /\ At(l, "prepare") /\ UNCHANGED outVars
    BY <1>4 DEF Prepared, Preparing, Goto
  <2> QED BY <2>1, MoveWithin, AttemptPCs DEF At
<1>5. CASE StartEffect(l)
  <2>1. Step(l, "intent", "none") /\ At(l, "start") /\ UNCHANGED outVars
    BY <1>5 DEF StartEffect, Goto
  <2> QED BY <2>1, MoveWithin, AttemptPCs DEF At
<1>6. CASE DispatchReplays(l)
  <2>1. /\ Step(l, Outcome(saved[Job(l)]), "none") /\ At(l, "intent") /\ UNCHANGED outVars
    BY <1>6 DEF DispatchReplays, Goto
  <2>2. Outcome(saved[Job(l)]) \in {"complete", "reject", "unknown"}  BY DEF Outcome
  <2> QED BY <2>1, <2>2, MoveWithin, AttemptPCs DEF At
<1>7. CASE DispatchProjects(l)
  <2>1. Step(l, "save", lane[l].res) /\ At(l, "project") /\ UNCHANGED outVars
    BY <1>7 DEF DispatchProjects, GotoWith
  <2>2. lane[l].res \in Results  BY DEF LaneOK, LaneRow
  <2> QED BY <2>1, <2>2, MoveWithin, AttemptPCs DEF At
<1>8. CASE DispatchSaves(l)
  <2>1. Step(l, Outcome(lane[l].res), "none") /\ At(l, "save") /\ UNCHANGED outVars
    BY <1>8 DEF DispatchSaves, Goto
  <2>2. Outcome(lane[l].res) \in {"complete", "reject", "unknown"}  BY DEF Outcome
  <2> QED BY <2>1, <2>2, MoveWithin, AttemptPCs DEF At
<1>9. CASE DispatchFails(l)
  <2>1. Step(l, "retry", "none") /\ lane[l].pc \in DispatchSteps /\ UNCHANGED outVars
    BY <1>9 DEF DispatchFails, Goto, Trips
  <2> QED BY <2>1, MoveWithin, AttemptPCs
<1> QED BY <1>0, <1>1, <1>2, <1>3, <1>4, <1>5, <1>6, <1>7, <1>8, <1>9

LEMMA DeliveryStepMoves ==
  ASSUME NEW l \in Lanes, DeliveryStep(l)
  PROVE  HandlerMove(l) /\ UNCHANGED outVars
<1>0. UNCHANGED outVars
  BY DEF DeliveryStep, ConsumeOutcome, campaignFrame
<1>1. CASE ConsumeOutcome(l)
  BY <1>0, <1>1, ReturnIsMove DEF ConsumeOutcome, Consume
<1>2. CASE BeginSettledDelivery(l) \/ BeginUnboundDelivery(l) \/ ConsumeAgain(l)
           \/ RecordFailure(l) \/ DeliveryStopped(l)
  BY <1>0, <1>2, ReturnIsMove
     DEF BeginSettledDelivery, BeginUnboundDelivery, ConsumeAgain, RecordFailure, DeliveryStopped
<1>3. CASE BeginDelivery(l)
  <2>1. Returns(l) \/ (Step(l, "consume", "none") /\ At(l, "begin"))
    BY <1>3 DEF BeginDelivery, Goto
  <2> QED BY <1>0, <2>1, ReturnIsMove, MoveWithinDelivery, AttemptPCs DEF At
<1>4. CASE ConsumeConflicts(l) \/ ConsumeFails(l) \/ ConsumeRejects(l)
  <2>1. At(l, "consume") /\ (Step(l, "failing", "none") \/ Step(l, "burying", "none"))
    BY <1>4 DEF ConsumeConflicts, ConsumeFails, ConsumeRejects, Goto, Trips
  <2> QED BY <1>0, <2>1, MoveWithinDelivery, AttemptPCs DEF At
<1> QED BY <1>1, <1>2, <1>3, <1>4 DEF DeliveryStep

(* The lanes and effects, whatever the step.                               *)
LEMMA OtherStepMoves ==
  ASSUME LaneOK,
         \/ FileDueAttempts \/ FindNothingDue
         \/ \E l \in Lanes : ClaimSome(l) \/ LaneDies(l)
         \/ \E t \in Tasks : ClaimExpires(t)
         \/ \E d \in Deliveries : Nudge(d)
         \/ \E a \in Attempts : CallbackBinds(a) \/ CallEnds(a)
         \/ Ask \/ Transition \/ Resume \/ Revoke
         \/ \E c \in Contacts : RequestDeletion(c) \/ QuiesceReads(c) \/ QuiesceContact(c)
  PROVE  LaneOK' /\ QuietMove /\ UNCHANGED outVars
<1>1. ASSUME lane' = lane PROVE LaneOK' /\ QuietMove
  BY <1>1 DEF LaneOK, QuietMove
<1>2. CASE FileDueAttempts \/ FindNothingDue
  BY <1>1, <1>2 DEF FileDueAttempts, FindNothingDue, pool
<1>3. ASSUME NEW l \in Lanes, ClaimSome(l)
      PROVE  LaneOK' /\ QuietMove /\ UNCHANGED outVars
  <2>1. ASSUME NEW a \in Attempts, ClaimAttempt(l, a)
        PROVE  LaneOK' /\ QuietMove /\ UNCHANGED outVars
    BY <2>1, ClaimKeepsLanes DEF ClaimAttempt
  <2>2. ASSUME NEW d \in Deliveries, ClaimDelivery(l, d), UNCHANGED campaignFrame
        PROVE  LaneOK' /\ QuietMove /\ UNCHANGED outVars
    BY <2>2, ClaimKeepsLanes DEF ClaimDelivery, campaignFrame
  <2> QED BY <1>3, <2>1, <2>2 DEF ClaimSome
<1>4. ASSUME NEW l \in Lanes, LaneDies(l)
      PROVE  LaneOK' /\ QuietMove /\ UNCHANGED outVars
  BY <1>4, IdleKeepsLanes DEF LaneDies, Dies
<1>5. ASSUME NEW t \in Tasks, ClaimExpires(t)
      PROVE  LaneOK' /\ QuietMove /\ UNCHANGED outVars
  BY <1>5, ExpiryKeepsLanes DEF ClaimExpires, campaignFrame
<1>6. ASSUME NEW d \in Deliveries, Nudge(d)
      PROVE  LaneOK' /\ QuietMove /\ UNCHANGED outVars
  BY <1>1, <1>6 DEF Nudge, SpawnDelivery, BindDelivery, campaignFrame, pool
<1>7. ASSUME NEW a \in Attempts, CallbackBinds(a) \/ CallEnds(a)
      PROVE  LaneOK' /\ QuietMove /\ UNCHANGED outVars
  BY <1>1, <1>7 DEF CallbackBinds, CallEnds, pool
<1>8. CASE Ask \/ Transition \/ Resume \/ Revoke
  BY <1>1, <1>8 DEF Ask, Transition, Resume, Revoke, controlFrame
<1>9. ASSUME NEW c \in Contacts, RequestDeletion(c) \/ QuiesceReads(c) \/ QuiesceContact(c)
      PROVE  LaneOK' /\ QuietMove /\ UNCHANGED outVars
  BY <1>1, <1>9 DEF RequestDeletion, QuiesceReads, QuiesceContact, controlFrame
<1> QED BY <1>2, <1>3, <1>4, <1>5, <1>6, <1>7, <1>8, <1>9

-----------------------------------------------------------------------------
(* At most once *)

AtProvider(l, e) == lane[l].job = e /\ lane[l].pc \in Sends

(* One lane at most is at the provider for an effect, and while one is the *)
(* effect's row authorizes no other.  An effect that can still be sent, or *)
(* about to be, or that the provider has turned down, has not taken place. *)
SendInv ==
  /\ LaneOK /\ OutboundTypeOK
  /\ \A e \in Effects : reached[e] <= 1 /\ (Sendable(e) => reached[e] = 0)
  /\ \A e \in Effects, l \in Lanes : AtProvider(l, e) =>
       /\ ~Sendable(e)
       /\ lane[l].pc = "send" \/ lane[l].res = "retryable" => reached[e] = 0
       /\ \A k \in Lanes : AtProvider(k, e) => k = l

LEMMA InitSends == Init => SendInv
<1> SUFFICES ASSUME Init PROVE SendInv
  OBVIOUS
<1>1. \A l \in Lanes : lane[l] = Idle  BY DEF Init, PoolInit
<1>2. LaneOK
  <2>1. Idle \in LaneRow(PCs, Results)  BY DEF Idle, LaneRow, PCs, Results
  <2>2. lane \in [Lanes -> LaneRow(PCs, Results)]  BY <2>1 DEF Init, PoolInit
  <2>3. Idle.pc \notin AttemptSteps /\ Idle.pc \notin DeliverySteps /\ Idle.pc # "record"
    BY StepFacts DEF Idle
  <2> QED BY <1>1, <2>2, <2>3 DEF LaneOK
<1>3. \A l \in Lanes : \A e : ~AtProvider(l, e)
  BY <1>1, StepFacts DEF AtProvider, Idle
<1>4. OutboundTypeOK /\ \A e \in Effects : reached[e] = 0
  BY DEF Init, OutboundInit, OutboundTypeOK, OutStates
<1> QED BY <1>2, <1>3, <1>4 DEF SendInv

LEMMA QuietKeepsSends ==
  ASSUME SendInv, LaneOK', QuietMove, UNCHANGED outVars
  PROVE  SendInv'
<1>1. out' = out /\ reached' = reached  BY DEF outVars
<1>2. \A l \in Lanes : \A e : AtProvider(l, e)' => /\ AtProvider(l, e)
                                                   /\ lane'[l].pc = lane[l].pc
                                                   /\ lane'[l].res = lane[l].res
  BY DEF QuietMove, AtProvider
<1>3. \A e : Sendable(e)' <=> Sendable(e)  BY <1>1 DEF Sendable
<1>4. OutboundTypeOK'  BY <1>1 DEF SendInv, OutboundTypeOK
<1> QED BY <1>1, <1>2, <1>3, <1>4 DEF SendInv

(* The send is authorized.                                                 *)
LEMMA AuthorizeKeepsSends ==
  ASSUME SendInv, NEW l \in Lanes, DispatchAuthorized(l)
  PROVE  SendInv'
<1>0. /\ LaneOK /\ lane[l].pc = "intent" /\ lane[l].job \in Effects
  BY AttemptFacts, AttemptPCs DEF SendInv, LaneOK, DispatchAuthorized, At
<1>1. PICK a \in Effects : LaneOK /\ lane[l].pc = "intent" /\ a = lane[l].job
  BY <1>0
<1>2. /\ Sendable(a) /\ reached' = reached
      /\ out' = [out EXCEPT ![a] = "in_flight"]
      /\ Step(l, "send", "none")
  BY <1>1 DEF DispatchAuthorized, BeginSend, Goto, Job
<1>3. "send" \in PCs /\ "send" \notin DeliverySteps /\ "send" # "record"
  BY DEF PCs, AttemptSteps, DispatchSteps, DeliverySteps
<1>4. /\ LaneOK'
      /\ lane'[l].pc = "send" /\ lane'[l].job = a /\ lane'[l].res = "none"
      /\ \A k \in Lanes : k # l => lane'[k] = lane[k]
  BY <1>1, <1>2, <1>3, StepKeepsLanes, AttemptPCs
<1>5. out \in [Effects -> OutStates] /\ reached \in [Effects -> 0..2]
  BY DEF SendInv, OutboundTypeOK
<1>6. /\ out'[a] = "in_flight" /\ \A e \in Effects : e # a => out'[e] = out[e]
      /\ OutboundTypeOK'
  BY <1>1, <1>2, <1>5 DEF OutboundTypeOK, OutStates
<1>7. \A k \in Lanes : ~AtProvider(k, a)
  BY <1>1, <1>2 DEF SendInv
<1>8. \A k \in Lanes, e \in Effects : AtProvider(k, e)' =>
        \/ k = l /\ e = a
        \/ k # l /\ e # a /\ AtProvider(k, e) /\ lane'[k] = lane[k]
  BY <1>4, <1>7 DEF AtProvider
<1>9. ~Sendable(a)' /\ \A e \in Effects : e # a => (Sendable(e)' <=> Sendable(e))
  BY <1>6 DEF Sendable
<1>10. reached[a] = 0  BY <1>1, <1>2 DEF SendInv
<1> QED BY <1>2, <1>4, <1>6, <1>8, <1>9, <1>10 DEF SendInv

(* The provider performs the effect, or does not.                          *)
LEMMA ProviderKeepsSends ==
  ASSUME SendInv, NEW l \in Lanes, DispatchSends(l)
  PROVE  SendInv'
<1>0. lane[l].job \in Effects
  BY AttemptFacts, AttemptPCs DEF SendInv, LaneOK, DispatchSends, At
<1>a. PICK a \in Effects : a = lane[l].job
  BY <1>0
<1>1. PICK answer \in Outcomes :
        /\ At(l, "send")
        /\ ProviderPerforms(a, answer) \/ ProviderDeclines(a, answer)
        /\ Step(l, "record", answer)
  BY <1>a DEF DispatchSends, Job
<1>2. LaneOK /\ lane[l].pc = "send" /\ a \in Effects /\ AtProvider(l, a)
  BY <1>1, <1>a DEF SendInv, At, AtProvider, Sends
<1>3. /\ "record" \in PCs /\ "record" \notin DeliverySteps
      /\ answer \in Results /\ "record" \in Sends
  BY DEF PCs, AttemptSteps, DispatchSteps, DeliverySteps, Results, OutStates, Outcomes, Sends
<1>4. /\ LaneOK'
      /\ lane'[l].pc = "record" /\ lane'[l].job = a /\ lane'[l].res = answer
      /\ \A k \in Lanes : k # l => lane'[k] = lane[k]
  BY <1>a, <1>1, <1>2, <1>3, StepKeepsLanes, AttemptPCs
<1>5. out \in [Effects -> OutStates] /\ reached \in [Effects -> 0..2]
  BY DEF SendInv, OutboundTypeOK
<1>6. reached[a] = 0 /\ ~Sendable(a)
  BY <1>2 DEF SendInv
<1>7. /\ out' = out
      /\ \A e \in Effects : e # a => reached'[e] = reached[e]
      /\ reached'[a] \in {0, 1} /\ (answer = "retryable" => reached'[a] = 0)
      /\ OutboundTypeOK'
  <2>1. CASE ProviderPerforms(a, answer)
    <3>1. reached' = [reached EXCEPT ![a] = 1] /\ out' = out /\ answer # "retryable"
      BY <1>2, <1>5, <1>6, <2>1 DEF ProviderPerforms
    <3> QED BY <1>2, <1>5, <3>1 DEF OutboundTypeOK
  <2>2. CASE ProviderDeclines(a, answer)
    BY <1>5, <1>6, <2>2 DEF ProviderDeclines, OutboundTypeOK
  <2> QED BY <1>1, <2>1, <2>2
<1>8. \A k \in Lanes, e \in Effects : AtProvider(k, e)' =>
        \/ k = l /\ e = a
        \/ k # l /\ e # a /\ AtProvider(k, e) /\ lane'[k] = lane[k]
  <2>1. \A k \in Lanes : AtProvider(k, a) => k = l  BY <1>2 DEF SendInv
  <2> QED BY <1>4, <2>1 DEF AtProvider
<1>9. \A e : Sendable(e)' <=> Sendable(e)  BY <1>7 DEF Sendable
<1> QED BY <1>4, <1>6, <1>7, <1>8, <1>9 DEF SendInv

(* A lane leaves the provider, or finds a row in flight, and the row takes *)
(* a state that authorizes no send, unless the provider turned it down.    *)
LEMMA LeavingKeepsSends ==
  ASSUME SendInv, LaneOK', QuietMove, reached' = reached, NEW a \in Effects,
         \A e \in Effects : e # a => out'[e] = out[e],
         OutboundTypeOK',
         Sendable(a)' => /\ reached[a] = 0
                         /\ \A k \in Lanes : ~AtProvider(k, a)'
  PROVE  SendInv'
<1>1. \A l \in Lanes : \A e : AtProvider(l, e)' => /\ AtProvider(l, e)
                                                   /\ lane'[l].pc = lane[l].pc
                                                   /\ lane'[l].res = lane[l].res
  BY DEF QuietMove, AtProvider
<1>2. \A e \in Effects : e # a => (Sendable(e)' <=> Sendable(e))
  BY DEF Sendable
<1>3. \A e \in Effects : Sendable(e)' =>
        /\ reached[e] = 0
        /\ \A k \in Lanes : ~AtProvider(k, e)'
  BY <1>1, <1>2 DEF SendInv
<1> QED BY <1>1, <1>3 DEF SendInv

LEMMA RecordKeepsSends ==
  ASSUME SendInv, NEW l \in Lanes, DispatchRecords(l)
  PROVE  SendInv'
<1>0. /\ LaneOK /\ lane[l].job \in Effects /\ lane[l].res \in Outcomes
      /\ lane[l].pc = "record" /\ lane[l].pc \in AttemptSteps
  BY AttemptFacts, AttemptPCs DEF SendInv, LaneOK, At, DispatchRecords
<1>a. PICK a \in Effects, res \in Outcomes : a = lane[l].job /\ res = lane[l].res
  BY <1>0
<1> DEFINE pc == IF out'[a] = "retryable" THEN "retry" ELSE "project"
<1>1. /\ LaneOK /\ lane[l].pc = "record" /\ a \in Effects /\ res \in Outcomes
      /\ lane[l].pc \in AttemptSteps
  BY <1>0
<1>2. /\ out' = [out EXCEPT ![a] = IF @ = "in_flight" THEN res ELSE @]
      /\ reached' = reached
      /\ Step(l, pc, out'[a])
  BY <1>a DEF DispatchRecords, RecordOutcome, GotoWith, Job
<1>3. out \in [Effects -> OutStates] /\ AtProvider(l, a)
  BY <1>a, <1>1 DEF SendInv, OutboundTypeOK, AtProvider, Sends
<1>4. /\ out'[a] = IF out[a] = "in_flight" THEN res ELSE out[a]
      /\ \A e \in Effects : e # a => out'[e] = out[e]
      /\ out' \in [Effects -> OutStates]
  BY <1>1, <1>2, <1>3 DEF OutStates, Outcomes
<1>5. OutboundTypeOK'  BY <1>2, <1>4 DEF SendInv, OutboundTypeOK
<1>6. out'[a] \in Results  BY <1>1, <1>4 DEF Results
<1>7. pc \in AttemptSteps \ Sends  BY AttemptPCs
<1>8. LaneOK' /\ QuietMove
  BY <1>1, <1>2, <1>6, <1>7, MoveWithin, HandlerMoveKeepsLanes
<1>9. \A k \in Lanes : ~AtProvider(k, a)'
  <2>1. \A k \in Lanes : AtProvider(k, a) => k = l  BY <1>1, <1>3 DEF SendInv
  <2>2. lane'[l].pc \notin Sends
    <3> HIDE DEF pc
    <3>1. pc \in PCs /\ pc \notin DeliverySteps /\ pc # "record"
      BY <1>7, AttemptPCs DEF PCs, Sends
    <3>2. lane'[l].pc = pc  BY <1>1, <1>2, <1>6, <3>1, StepKeepsLanes
    <3> QED BY <1>7, <3>2
  <2>3. \A k \in Lanes : AtProvider(k, a)' => AtProvider(k, a)
    BY <1>8 DEF QuietMove, AtProvider
  <2> QED BY <2>1, <2>2, <2>3 DEF AtProvider
<1>10. Sendable(a)' => reached[a] = 0
  <2>1. ~Sendable(a) /\ (res = "retryable" => reached[a] = 0)
    BY <1>a, <1>1, <1>3 DEF SendInv
  <2>2. Sendable(a)' => res = "retryable" /\ out[a] = "in_flight"
    BY <1>1, <1>4, <2>1 DEF Sendable, Outcomes
  <2> QED BY <2>1, <2>2
<1> HIDE DEF pc
<1> QED BY <1>1, <1>2, <1>4, <1>5, <1>8, <1>9, <1>10, LeavingKeepsSends

LEMMA RecoverKeepsSends ==
  ASSUME SendInv, NEW l \in Lanes, DispatchRecovers(l)
  PROVE  SendInv'
<1>1. /\ LaneOK /\ lane[l].pc = "intent" /\ lane[l].pc \in AttemptSteps
      /\ lane[l].job \in Effects
  BY AttemptFacts, AttemptPCs DEF SendInv, LaneOK, At, DispatchRecovers
<1>a. PICK a \in Effects : a = lane[l].job
  BY <1>1
<1>2. /\ out' = [out EXCEPT ![a] = IF @ = "in_flight" THEN "unknown" ELSE @]
      /\ reached' = reached /\ ~Sendable(a)
      /\ Step(l, "project", out'[a])
  BY <1>a DEF DispatchRecovers, RecoverSend, Recovered, GotoWith, Job
<1>3. out \in [Effects -> OutStates]  BY DEF SendInv, OutboundTypeOK
<1>4. /\ out'[a] = IF out[a] = "in_flight" THEN "unknown" ELSE out[a]
      /\ \A e \in Effects : e # a => out'[e] = out[e]
      /\ out' \in [Effects -> OutStates]
  BY <1>1, <1>2, <1>3 DEF OutStates
<1>5. OutboundTypeOK'  BY <1>2, <1>4 DEF SendInv, OutboundTypeOK
<1>6. out'[a] \in Results  BY <1>1, <1>4 DEF Results
<1>7. LaneOK' /\ QuietMove
  <2>1. "project" \in AttemptSteps \ Sends  BY AttemptPCs DEF AttemptSteps, DispatchSteps, Sends
  <2>2. HandlerMove(l)  BY <1>1, <1>2, <1>6, <2>1, MoveWithin
  <2> QED BY <1>1, <2>2, HandlerMoveKeepsLanes
<1>8. ~Sendable(a)'  BY <1>2, <1>4 DEF Sendable
<1> QED BY <1>1, <1>2, <1>4, <1>5, <1>7, <1>8, LeavingKeepsSends

LEMMA InterruptionKeepsSends ==
  ASSUME SendInv, NEW l \in Lanes, SendInterrupted(l)
  PROVE  SendInv'
<1>1. LaneOK /\ lane[l].pc \in Sends /\ lane[l].pc \in AttemptSteps /\ lane[l].job \in Effects
  BY AttemptFacts, AttemptPCs DEF SendInv, LaneOK, At, SendInterrupted, Sends
<1>a. PICK a \in Effects : a = lane[l].job
  BY <1>1
<1>2. /\ out' = [out EXCEPT ![a] = IF @ = "in_flight" THEN "unknown" ELSE @]
      /\ reached' = reached
      /\ Raises(l)
  BY <1>a DEF SendInterrupted, Recovered, Job
<1>3. out \in [Effects -> OutStates] /\ ~Sendable(a)
  BY <1>1, <1>a DEF SendInv, OutboundTypeOK, AtProvider
<1>4. /\ out'[a] = IF out[a] = "in_flight" THEN "unknown" ELSE out[a]
      /\ \A e \in Effects : e # a => out'[e] = out[e]
      /\ out' \in [Effects -> OutStates]
  BY <1>1, <1>2, <1>3 DEF OutStates
<1>5. OutboundTypeOK'  BY <1>2, <1>4 DEF SendInv, OutboundTypeOK
<1>6. LaneOK' /\ QuietMove
  BY <1>1, <1>2, ReturnIsMove, HandlerMoveKeepsLanes
<1>7. ~Sendable(a)'  BY <1>3, <1>4 DEF Sendable
<1> QED BY <1>2, <1>4, <1>5, <1>6, <1>7, LeavingKeepsSends

LEMMA CallbackKeepsSends ==
  ASSUME SendInv, NEW a \in Attempts, CallbackReconciles(a)
  PROVE  SendInv'
<1>1. a \in Effects  BY AttemptFacts
<1>2. /\ out' = [out EXCEPT ![a] = "succeeded"] /\ reached' = reached /\ lane' = lane
  BY DEF CallbackReconciles, Reconcile, pool
<1>3. out \in [Effects -> OutStates]  BY DEF SendInv, OutboundTypeOK
<1>4. /\ out'[a] = "succeeded" /\ \A e \in Effects : e # a => out'[e] = out[e]
      /\ OutboundTypeOK'
  BY <1>1, <1>2, <1>3 DEF SendInv, OutboundTypeOK, OutStates
<1>5. LaneOK' /\ QuietMove  BY <1>2 DEF SendInv, LaneOK, QuietMove
<1>6. ~Sendable(a)'  BY <1>4 DEF Sendable
<1> QED BY <1>1, <1>2, <1>4, <1>5, <1>6, LeavingKeepsSends

LEMMA NextSends == SendInv /\ [Next]_vars => SendInv'
<1> SUFFICES ASSUME SendInv, [Next]_vars PROVE SendInv'
  OBVIOUS
<1>0. LaneOK  BY DEF SendInv
<1>1. CASE UNCHANGED vars
  BY <1>0, <1>1, QuietKeepsSends DEF vars, pool, LaneOK, QuietMove
<1>2. CASE \/ FileDueAttempts \/ FindNothingDue
           \/ \E l \in Lanes : ClaimSome(l) \/ LaneDies(l)
           \/ \E t \in Tasks : ClaimExpires(t)
           \/ \E d \in Deliveries : Nudge(d)
           \/ \E a \in Attempts : CallbackBinds(a) \/ CallEnds(a)
           \/ Ask \/ Transition \/ Resume \/ Revoke
           \/ \E c \in Contacts : RequestDeletion(c) \/ QuiesceReads(c) \/ QuiesceContact(c)
  BY <1>0, <1>2, OtherStepMoves, QuietKeepsSends
<1>3. ASSUME NEW l \in Lanes, AttemptStep(l) PROVE SendInv'
  <2>1. CASE DispatchAuthorized(l)  BY <2>1, AuthorizeKeepsSends
  <2>2. CASE DispatchSends(l)  BY <2>2, ProviderKeepsSends
  <2>3. CASE DispatchRecords(l)  BY <2>3, RecordKeepsSends
  <2>4. CASE DispatchRecovers(l)  BY <2>4, RecoverKeepsSends
  <2>5. CASE SendInterrupted(l)  BY <2>5, InterruptionKeepsSends
  <2>6. CASE ~(\/ DispatchAuthorized(l) \/ DispatchSends(l) \/ DispatchRecords(l)
               \/ DispatchRecovers(l) \/ SendInterrupted(l))
    <3>1. (HandlerMove(l) \/ lane' = lane) /\ UNCHANGED outVars
      BY <1>0, <1>3, <2>6, AttemptStepMoves DEF AttemptStep
    <3>2. lane' = lane => LaneOK' /\ QuietMove  BY <1>0 DEF LaneOK, QuietMove
    <3> QED BY <1>0, <3>1, <3>2, HandlerMoveKeepsLanes, QuietKeepsSends
  <2> QED BY <2>1, <2>2, <2>3, <2>4, <2>5, <2>6
<1>4. ASSUME NEW l \in Lanes, DeliveryStep(l) PROVE SendInv'
  BY <1>0, <1>4, DeliveryStepMoves, HandlerMoveKeepsLanes, QuietKeepsSends
<1>5. ASSUME NEW a \in Attempts, CallbackReconciles(a) PROVE SendInv'
  BY <1>5, CallbackKeepsSends
<1> QED BY <1>1, <1>2, <1>3, <1>4, <1>5 DEF Next, Carrier

(* However handlers crash, stall and replay each other, no attempt reaches *)
(* its contact twice.                                                      *)
THEOREM CalledAtMostOnce == Spec => []AtMostOncePerEffect
<1>1. Init => SendInv  BY InitSends
<1>2. SendInv /\ [Next]_vars => SendInv'  BY NextSends
<1>3. SendInv => AtMostOncePerEffect  BY DEF SendInv, AtMostOncePerEffect
<1> QED BY <1>1, <1>2, <1>3, PTL DEF Spec
-----------------------------------------------------------------------------
(* The contract of the durable events *)

DeliveryState == {"none", "pending", "running"} \union DeliverySettled
DeliveryKind  == [state : DeliveryState, bound : BOOLEAN, attempts : Nat]

(* The fate of a delivery whose row is in some state.                      *)
FateIn(state) ==
  CASE state = "none"        -> "unfiled"
    [] state = "succeeded"   -> "applied"
    [] state = "dead_letter" -> "dead"
    [] OTHER                 -> "owed"

fates == [d \in Deliveries |-> Fate(d)]

(* The consumer's changes are committed with the row's last state.         *)
DeliveryInv ==
  /\ delivery \in [Deliveries -> DeliveryKind]
  /\ applied = [d \in Deliveries |-> IF delivery[d].state = "succeeded" THEN 1 ELSE 0]

ContractKept == [Contract!Next]_(Contract!vars)

LEMMA FatesOfStates ==
  /\ \A d : Fate(d) = FateIn(delivery[d].state)
  /\ FateIn("none") = "unfiled" /\ FateIn("pending") = "owed" /\ FateIn("running") = "owed"
  /\ FateIn("succeeded") = "applied" /\ FateIn("dead_letter") = "dead"
BY DEF Fate, FateIn

(* A step that leaves the states of the deliveries and the consumer's      *)
(* changes alone is none of the contract.                                  *)
LEMMA FrameKeepsContract ==
  ASSUME DeliveryInv, UNCHANGED deliveryVars
  PROVE  DeliveryInv' /\ ContractKept
<1>1. delivery' = delivery /\ applied' = applied  BY DEF deliveryVars
<1>2. DeliveryInv'  BY <1>1 DEF DeliveryInv
<1>3. fates' = fates  BY <1>1 DEF fates, Fate
<1> QED BY <1>1, <1>2, <1>3 DEF ContractKept, Contract!vars, fates

(* What a transaction of the outbox makes of one row.                      *)
RowFiled(r, s) ==
  \/ s.state = r.state
  \/ r.state = "none" /\ s.state = "pending"
  \/ r.state \in {"pending", "running"} /\ s.state \in {"running", "dead_letter"}

LEMMA OneRowFates ==
  ASSUME DeliveryInv, NEW d \in Deliveries, NEW r \in DeliveryKind,
         delivery' = [delivery EXCEPT ![d] = r]
  PROVE  /\ delivery' \in [Deliveries -> DeliveryKind]
         /\ delivery'[d] = r
         /\ \A e \in Deliveries : e # d => delivery'[e] = delivery[e]
         /\ fates' = [fates EXCEPT ![d] = FateIn(r.state)]
<1>1. delivery \in [Deliveries -> DeliveryKind]  BY DEF DeliveryInv
<1>2. /\ delivery' \in [Deliveries -> DeliveryKind]
      /\ delivery'[d] = r
      /\ \A e \in Deliveries : e # d => delivery'[e] = delivery[e]
  BY <1>1
<1>3. fates' = [e \in Deliveries |-> IF e = d THEN FateIn(r.state) ELSE fates[e]]
  BY <1>2 DEF fates, Fate, FateIn
<1>4. fates' = [fates EXCEPT ![d] = FateIn(r.state)]
  BY <1>3 DEF fates
<1> QED BY <1>2, <1>4

LEMMA RowKeepsContract ==
  ASSUME DeliveryInv, NEW d \in Deliveries, NEW r \in DeliveryKind,
         delivery' = [delivery EXCEPT ![d] = r],
         applied' = applied,
         RowFiled(delivery[d], r)
  PROVE  DeliveryInv' /\ ContractKept
<1>1. /\ delivery' \in [Deliveries -> DeliveryKind]
      /\ delivery'[d] = r
      /\ \A e \in Deliveries : e # d => delivery'[e] = delivery[e]
      /\ fates' = [fates EXCEPT ![d] = FateIn(r.state)]
  BY OneRowFates
<1>2. (r.state = "succeeded") <=> (delivery[d].state = "succeeded")
  BY DEF RowFiled
<1>3. DeliveryInv'
  BY <1>1, <1>2 DEF DeliveryInv
<1>4. fates[d] = FateIn(delivery[d].state) /\ fates \in [Deliveries -> {FateIn(s) : s \in DeliveryState}]
  <2>1. \A e \in Deliveries : delivery[e].state \in DeliveryState
    BY DEF DeliveryInv, DeliveryKind
  <2> QED BY <2>1, FatesOfStates DEF fates
<1>5. CASE FateIn(r.state) = fates[d]
  <2>1. fates' = fates  BY <1>1, <1>4, <1>5
  <2> QED BY <1>3, <2>1 DEF ContractKept, Contract!vars, fates
<1>6. CASE FateIn(r.state) # fates[d]
  <2>1. \/ fates[d] = "unfiled" /\ FateIn(r.state) = "owed"
        \/ fates[d] = "owed" /\ FateIn(r.state) = "dead"
    BY <1>4, <1>6, FatesOfStates DEF RowFiled
  <2>2. Contract!File(d) \/ Contract!Bury(d)
    BY <1>1, <2>1 DEF Contract!File, Contract!Bury, fates
  <2> QED BY <1>3, <2>2 DEF ContractKept, Contract!Next
<1> QED BY <1>5, <1>6

LEMMA FilingKeepsContract ==
  ASSUME DeliveryInv, NEW d \in Deliveries, delivery' = Filed(d), applied' = applied
  PROVE  DeliveryInv' /\ ContractKept
<1>1. PICK r : r = [delivery[d] EXCEPT !.state = IF @ = "none" THEN "pending" ELSE @]
  OBVIOUS
<1>2. delivery[d] \in DeliveryKind  BY DEF DeliveryInv
<1>3. r \in DeliveryKind /\ RowFiled(delivery[d], r)
  BY <1>1, <1>2 DEF DeliveryKind, DeliveryState, RowFiled
<1>4. delivery' = [delivery EXCEPT ![d] = r]  BY <1>1 DEF Filed
<1> QED BY <1>3, <1>4, RowKeepsContract

LEMMA BindKeepsContract ==
  ASSUME DeliveryInv, NEW d \in Deliveries, BindDelivery(d)
  PROVE  DeliveryInv' /\ ContractKept
<1>1. PICK r : r = [delivery[d] EXCEPT !.bound = TRUE]  OBVIOUS
<1>2. delivery[d] \in DeliveryKind  BY DEF DeliveryInv
<1>3. r \in DeliveryKind /\ RowFiled(delivery[d], r)
  BY <1>1, <1>2 DEF DeliveryKind, RowFiled
<1>4. delivery' = [delivery EXCEPT ![d] = r] /\ applied' = applied
  BY <1>1 DEF BindDelivery
<1> QED BY <1>3, <1>4, RowKeepsContract

LEMMA BeginKeepsContract ==
  ASSUME DeliveryInv, LaneOK, NEW l \in Lanes, BeginDelivery(l)
  PROVE  DeliveryInv' /\ ContractKept
<1>1. lane[l].job \in Deliveries
  BY AttemptPCs DEF LaneOK, BeginDelivery, At
<1>2. PICK d \in Deliveries : d = Job(l)  BY <1>1 DEF Job
<1>3. PICK r : r = [delivery[d] EXCEPT
          !.state = IF delivery[d].attempts >= MaxTries THEN "dead_letter" ELSE "running",
          !.attempts = IF delivery[d].attempts >= MaxTries THEN @ ELSE @ + 1]
  OBVIOUS
<1>4. delivery[d] \in DeliveryKind  BY DEF DeliveryInv
<1>5. r \in DeliveryKind
  <2>1. CASE delivery[d].attempts >= MaxTries
    <3>1. r = [delivery[d] EXCEPT !.state = "dead_letter"]
      BY <1>3, <1>4, <2>1 DEF DeliveryKind
    <3> QED BY <1>4, <3>1 DEF DeliveryKind, DeliveryState, DeliverySettled
  <2>2. CASE ~(delivery[d].attempts >= MaxTries)
    <3>1. r = [delivery[d] EXCEPT !.state = "running", !.attempts = @ + 1]
      BY <1>3, <2>2
    <3>2. delivery[d].attempts + 1 \in Nat  BY <1>4 DEF DeliveryKind
    <3> QED BY <1>4, <3>1, <3>2 DEF DeliveryKind, DeliveryState
  <2> QED BY <2>1, <2>2
<1>6. RowFiled(delivery[d], r)
  BY <1>2, <1>3, <1>4 DEF BeginDelivery, RowFiled, DeliveryKind
<1>7. delivery' = [delivery EXCEPT ![d] = r] /\ applied' = applied
  BY <1>2, <1>3 DEF BeginDelivery
<1> QED BY <1>5, <1>6, <1>7, RowKeepsContract

LEMMA FailureKeepsContract ==
  ASSUME DeliveryInv, LaneOK, NEW l \in Lanes, RecordFailure(l)
  PROVE  DeliveryInv' /\ ContractKept
<1>1. lane[l].job \in Deliveries
  BY AttemptPCs DEF LaneOK, RecordFailure, At
<1>2. PICK d \in Deliveries : d = Job(l)  BY <1>1 DEF Job
<1>3. PICK s \in {delivery[d].state, "dead_letter"} :
        /\ delivery' = [delivery EXCEPT ![d] = [delivery[d] EXCEPT !.state = s]]
        /\ s # delivery[d].state => delivery[d].state = "running"
        /\ applied' = applied
  BY <1>2 DEF RecordFailure
<1>4. delivery[d] \in DeliveryKind  BY DEF DeliveryInv
<1>5. PICK r : r = [delivery[d] EXCEPT !.state = s]  OBVIOUS
<1>6. r \in DeliveryKind /\ r.state = s
  BY <1>4, <1>5 DEF DeliveryKind, DeliveryState, DeliverySettled
<1>7. RowFiled(delivery[d], r)  BY <1>3, <1>6 DEF RowFiled
<1> QED BY <1>3, <1>5, <1>6, <1>7, RowKeepsContract

LEMMA ConsumptionKeepsContract ==
  ASSUME DeliveryInv, LaneOK, NEW l \in Lanes, Consume(l)
  PROVE  DeliveryInv' /\ ContractKept
<1>1. lane[l].job \in Deliveries
  BY AttemptPCs DEF LaneOK, Consume, At
<1>2. PICK d \in Deliveries : d = Job(l)  BY <1>1 DEF Job
<1>3. PICK r : r = [delivery[d] EXCEPT !.state = "succeeded"]  OBVIOUS
<1>4. delivery[d] \in DeliveryKind  BY DEF DeliveryInv
<1>5. r \in DeliveryKind /\ r.state = "succeeded"
  BY <1>3, <1>4 DEF DeliveryKind, DeliveryState, DeliverySettled
<1>6. /\ delivery' = [delivery EXCEPT ![d] = r]
      /\ delivery[d].state = "running"
      /\ applied' = [applied EXCEPT ![d] = IF @ < 2 THEN @ + 1 ELSE @]
  BY <1>2, <1>3 DEF Consume, Consumable
<1>7. applied[d] = 0  BY <1>6 DEF DeliveryInv
<1>8. applied' = [applied EXCEPT ![d] = 1]  BY <1>6, <1>7
<1>9. /\ delivery' \in [Deliveries -> DeliveryKind]
      /\ delivery'[d] = r
      /\ \A e \in Deliveries : e # d => delivery'[e] = delivery[e]
      /\ fates' = [fates EXCEPT ![d] = "applied"]
  <2>1. FateIn(r.state) = "applied"  BY <1>5, FatesOfStates
  <2>2. delivery' = [delivery EXCEPT ![d] = r]  BY <1>6
  <2> QED BY <1>5, <2>1, <2>2, OneRowFates
<1>10. DeliveryInv'  BY <1>5, <1>8, <1>9 DEF DeliveryInv
<1>11. fates[d] = "owed"  BY <1>6, FatesOfStates DEF fates
<1>12. Contract!Apply(d)  BY <1>8, <1>9, <1>11 DEF Contract!Apply, fates
<1> QED BY <1>10, <1>12 DEF ContractKept, Contract!Next

LEMMA InitKeepsContract == Init => DeliveryInv /\ Contract!Init
<1> SUFFICES ASSUME Init PROVE DeliveryInv /\ Contract!Init
  OBVIOUS
<1>1. /\ delivery = [d \in Deliveries |-> [state |-> "none", bound |-> FALSE, attempts |-> 0]]
      /\ applied = [d \in Deliveries |-> 0]
  BY DEF Init, DeliveryInit
<1>2. DeliveryInv  BY <1>1 DEF DeliveryInv, DeliveryKind, DeliveryState
<1>3. fates = [d \in Deliveries |-> "unfiled"]  BY <1>1 DEF fates, Fate
<1> QED BY <1>1, <1>2, <1>3 DEF Contract!Init, fates

(* The steps of a handler of an attempt.                                   *)
LEMMA AttemptStepKeepsContract ==
  ASSUME DeliveryInv, LaneOK, NEW l \in Lanes, AttemptStep(l)
  PROVE  DeliveryInv' /\ ContractKept
<1>1. CASE DispatchProjects(l)
  <2>1. lane[l].job \in Attempts
    BY <1>1, AttemptPCs DEF LaneOK, DispatchProjects, At
  <2>2. PICK a \in Attempts : a = Job(l)  BY <2>1 DEF Job
  <2>3. /\ delivery' = Filed(Ended(a)) \/ delivery' = delivery
        /\ applied' = applied /\ receipt' = receipt
    BY <1>1, <2>2 DEF DispatchProjects
  <2>4. Ended(a) \in Deliveries  BY AttemptFacts
  <2> QED BY <2>3, <2>4, FilingKeepsContract, FrameKeepsContract DEF deliveryVars
<1>2. CASE \/ FindSettled(l) \/ PrepareReads(l) \/ PrepareContactGone(l) \/ PrepareNotRunning(l)
           \/ PrepareSkips(l) \/ PrepareFails(l) \/ Prepared(l)
           \/ StartFenced(l) \/ StartEffect(l)
  BY <1>2, FrameKeepsContract
     DEF FindSettled, PrepareReads, PrepareContactGone, PrepareNotRunning, PrepareCancels,
         PrepareSkips, PrepareFails, Prepared, StartFenced, StartEffect, ReturnReceipt
<1>3. CASE \/ DispatchReplays(l) \/ DispatchAuthorized(l)
           \/ DispatchRecovers(l) \/ DispatchSends(l) \/ DispatchRecords(l)
           \/ DispatchSaves(l) \/ DispatchFails(l)
  BY <1>3, FrameKeepsContract
     DEF DispatchReplays, DispatchAuthorized, DispatchRecovers, DispatchSends,
         DispatchRecords, DispatchSaves, DispatchFails, dispatchFrame
<1>4. CASE \/ CompleteDispatch(l) \/ FailureFindsSettled(l) \/ FailureConflicts(l)
           \/ FailAttempt(l) \/ RetryAttempt(l) \/ SendInterrupted(l) \/ AttemptStopped(l)
  BY <1>4, FrameKeepsContract
     DEF CompleteDispatch, FailureFindsSettled, FailureConflicts, FailAttempt,
         RetryAttempt, SendInterrupted, AttemptStopped, ReturnReceipt
<1> QED BY <1>1, <1>2, <1>3, <1>4 DEF AttemptStep

LEMMA DeliveryStepKeepsContract ==
  ASSUME DeliveryInv, LaneOK, NEW l \in Lanes, DeliveryStep(l)
  PROVE  DeliveryInv' /\ ContractKept
<1>1. CASE ConsumeOutcome(l)
  BY <1>1, ConsumptionKeepsContract DEF ConsumeOutcome
<1>2. CASE BeginDelivery(l)  BY <1>2, BeginKeepsContract
<1>3. CASE RecordFailure(l)  BY <1>3, FailureKeepsContract
<1>4. CASE \/ BeginSettledDelivery(l) \/ BeginUnboundDelivery(l) \/ ConsumeAgain(l)
           \/ ConsumeConflicts(l) \/ ConsumeFails(l) \/ ConsumeRejects(l) \/ DeliveryStopped(l)
  BY <1>4, FrameKeepsContract
     DEF BeginSettledDelivery, BeginUnboundDelivery, ConsumeAgain, ConsumeConflicts,
         ConsumeFails, ConsumeRejects, DeliveryStopped
<1> QED BY <1>1, <1>2, <1>3, <1>4 DEF DeliveryStep

LEMMA NextKeepsContract == DeliveryInv /\ LaneOK /\ [Next]_vars => DeliveryInv' /\ ContractKept
<1> SUFFICES ASSUME DeliveryInv, LaneOK, [Next]_vars PROVE DeliveryInv' /\ ContractKept
  OBVIOUS
<1>1. CASE UNCHANGED vars
  BY <1>1, FrameKeepsContract DEF vars
<1>2. CASE FileDueAttempts \/ FindNothingDue \/ Ask \/ Transition \/ Resume \/ Revoke
  BY <1>2, FrameKeepsContract
     DEF FileDueAttempts, FindNothingDue, Ask, Transition, Resume, Revoke, controlFrame
<1>3. ASSUME NEW l \in Lanes, ClaimSome(l) \/ LaneDies(l)
      PROVE  DeliveryInv' /\ ContractKept
  BY <1>3, FrameKeepsContract DEF ClaimSome, ClaimAttempt, ClaimDelivery, LaneDies
<1>4. ASSUME NEW t \in Tasks, ClaimExpires(t)
      PROVE  DeliveryInv' /\ ContractKept
  BY <1>4, FrameKeepsContract DEF ClaimExpires
<1>5. ASSUME NEW d \in Deliveries, Nudge(d)
      PROVE  DeliveryInv' /\ ContractKept
  BY <1>5, FrameKeepsContract, BindKeepsContract DEF Nudge, SpawnDelivery
<1>6. ASSUME NEW a \in Attempts, CallbackReconciles(a) \/ CallbackBinds(a)
      PROVE  DeliveryInv' /\ ContractKept
  BY <1>6, FrameKeepsContract DEF CallbackReconciles, CallbackBinds
<1>7. ASSUME NEW a \in Attempts, CallEnds(a)
      PROVE  DeliveryInv' /\ ContractKept
  <2>1. Ended(a) \in Deliveries /\ delivery' = Filed(Ended(a)) /\ applied' = applied
    BY <1>7, AttemptFacts DEF CallEnds
  <2> QED BY <2>1, FilingKeepsContract
<1>8. ASSUME NEW c \in Contacts, RequestDeletion(c) \/ QuiesceReads(c) \/ QuiesceContact(c)
      PROVE  DeliveryInv' /\ ContractKept
  BY <1>8, FrameKeepsContract DEF RequestDeletion, QuiesceReads, QuiesceContact, controlFrame
<1> QED
  BY <1>1, <1>2, <1>3, <1>4, <1>5, <1>6, <1>7, <1>8, AttemptStepKeepsContract,
     DeliveryStepKeepsContract
  DEF Next, Carrier

(* The outbox implements its contract: whatever crashes, stalls and replays*)
(* happen, the consumer's changes are committed once at most, and never for*)
(* a delivery that was given up.                                           *)
THEOREM EventsKeepContract == Spec => DeliveriesKeepContract
<1>1. Init => SendInv /\ DeliveryInv /\ Contract!Init
  BY InitSends, InitKeepsContract
<1>2. SendInv /\ DeliveryInv /\ [Next]_vars => SendInv' /\ DeliveryInv' /\ ContractKept
  BY NextSends, NextKeepsContract DEF SendInv
<1> QED BY <1>1, <1>2, PTL DEF Spec, DeliveriesKeepContract, Contract!Spec, ContractKept
-----------------------------------------------------------------------------
(* A completed campaign has settled its contacts *)

ContactStates == OpenContact \union SettledContact
ContactKind ==
  [status : ContactStates, count : Nat, active : BOOLEAN, valid : BOOLEAN]
CampaignKind == [status : CampaignStatus, completed : Nat, failed : Nat]
ReadKind ==
  [campaign : {"none"} \union CampaignStatus, failed : Nat,
   status : ContactStates, count : Nat, active : BOOLEAN]

AllSettled(con) == \A c \in Contacts : con[c].status \in SettledContact

RowsOK == campaign \in CampaignKind /\ contact \in [Contacts -> ContactKind]

(* What transactions have read are values of rows.                         *)
ReadsOK ==
  /\ read \in [Lanes -> ReadKind]
  /\ scope \in [Contacts -> [filed : SUBSET Attempts, unstarted : SUBSET Attempts,
                            status : ContactStates]]
  /\ asked \in {"none", "paused", "canceled"}

DoneInv == RowsOK /\ ReadsOK /\ CompletedIsSettled

(* What a step that touches no row changes of what was read.               *)
ReadsMove == ReadsOK' /\ blind \subseteq blind'

LEMMA StatusFacts ==
  /\ {"pending", "queued", "in_progress", "retry", "completed", "failed", "skipped",
      "cancelled"} = ContactStates
  /\ {"completed", "failed", "skipped", "cancelled"} = SettledContact
  /\ \A s \in ContactStates : s \notin OpenContact => s \in SettledContact
BY DEF ContactStates, OpenContact, SettledContact

LEMMA ForgettingMoves ==
  ASSUME ReadsOK, NEW l \in Lanes, Forgets(l), UNCHANGED <<scope, asked>>
  PROVE  ReadsOK'
<1>1. Unread \in ReadKind
  BY StatusFacts DEF Unread, ReadKind
<1> QED BY <1>1 DEF ReadsOK, Forgets

LEMMA FrameMoves == ReadsOK /\ UNCHANGED underway => ReadsMove
BY DEF ReadsOK, ReadsMove, underway

(* Only the preparing transaction and the erasure read ahead.              *)
LEMMA PrepareMovesReads ==
  ASSUME RowsOK, ReadsOK, LaneOK, NEW l \in Lanes,
         \/ PrepareReads(l) \/ PrepareContactGone(l) \/ PrepareNotRunning(l)
         \/ PrepareSkips(l) \/ PrepareFails(l) \/ Prepared(l) \/ AttemptStopped(l) \/ LaneDies(l)
  PROVE  ReadsMove
<1>1. CASE PrepareReads(l)
  <2>1. lane[l].job \in Attempts
    BY <1>1, AttemptPCs DEF LaneOK, PrepareReads, At
  <2>2. PICK c \in Contacts : c = ContactOf(Job(l))  BY <2>1, AttemptFacts DEF Job
  <2>3. contact[c] \in ContactKind /\ campaign \in CampaignKind  BY DEF RowsOK
  <2>4. PICK r : r = [campaign |-> campaign.status, failed |-> campaign.failed,
                      status |-> contact[c].status, count |-> contact[c].count,
                      active |-> contact[c].active]
    OBVIOUS
  <2>5. r \in ReadKind  BY <2>3, <2>4 DEF ReadKind, ContactKind, CampaignKind
  <2>6. read' = [read EXCEPT ![l] = r] /\ UNCHANGED <<scope, asked, blind>>
    BY <1>1, <2>2, <2>4 DEF PrepareReads
  <2> QED BY <2>5, <2>6 DEF ReadsOK, ReadsMove
<1>2. CASE \/ PrepareContactGone(l) \/ PrepareNotRunning(l)
           \/ PrepareSkips(l) \/ PrepareFails(l) \/ Prepared(l) \/ AttemptStopped(l) \/ LaneDies(l)
  <2>1. Forgets(l) /\ UNCHANGED <<scope, asked>> /\ blind \subseteq blind'
    BY <1>2 DEF PrepareContactGone, PrepareNotRunning, PrepareCancels, PrepareSkips, PrepareFails,
                Prepared, AttemptStopped, LaneDies, CommitsOver
  <2> QED BY <2>1, ForgettingMoves DEF ReadsMove
<1> QED BY <1>1, <1>2

LEMMA ControlMovesReads ==
  ASSUME RowsOK, ReadsOK,
         \/ Ask \/ Transition \/ Resume \/ Revoke
         \/ \E c \in Contacts : RequestDeletion(c) \/ QuiesceReads(c) \/ QuiesceContact(c)
  PROVE  ReadsMove
<1>1. CASE \/ Ask \/ Transition \/ Resume \/ Revoke \/ \E c \in Contacts : RequestDeletion(c)
  <2>1. /\ read' = read /\ scope' = scope /\ blind \subseteq blind'
        /\ asked' \in {asked, "none", "paused", "canceled"}
    BY <1>1 DEF Ask, Transition, Resume, Revoke, RequestDeletion, CommitsOver, controlFrame
  <2> QED BY <2>1 DEF ReadsOK, ReadsMove
<1>2. ASSUME NEW c \in Contacts, QuiesceReads(c) PROVE ReadsMove
  <2>1. PICK seen : /\ seen = [filed |-> FiledFor(c), unstarted |-> Unstarted(c),
                               status |-> contact[c].status]
                    /\ scope' = [scope EXCEPT ![c] = seen]
                    /\ UNCHANGED <<read, asked, blind>>
    BY <1>2 DEF QuiesceReads, controlFrame
  <2>2. contact[c].status \in ContactStates  BY DEF RowsOK, ContactKind
  <2>3. FiledFor(c) \subseteq Attempts /\ Unstarted(c) \subseteq Attempts
    BY DEF FiledFor, Unstarted
  <2> QED BY <2>1, <2>2, <2>3 DEF ReadsOK, ReadsMove
<1>3. ASSUME NEW c \in Contacts, QuiesceContact(c) PROVE ReadsMove
  <2>1. /\ scope' = [scope EXCEPT ![c] = NoScope] /\ read' = read
        /\ blind \subseteq blind' /\ asked' = asked
    BY <1>3 DEF QuiesceContact, CommitsOver, controlFrame
  <2>2. NoScope \in [filed : SUBSET Attempts, unstarted : SUBSET Attempts, status : ContactStates]
    BY StatusFacts DEF NoScope
  <2> QED BY <2>1, <2>2 DEF ReadsOK, ReadsMove
<1> QED BY <1>1, <1>2, <1>3

(* A transaction ends with the completion check, on rows of which a        *)
(* completed campaign's are settled.                                       *)
LEMMA ClosingKeepsDone ==
  ASSUME ReadsMove, NEW cam \in CampaignKind, contact' \in [Contacts -> ContactKind],
         campaign' = Closed(cam, contact'),
         "campaign" \notin blind /\ cam.status = "completed" => AllSettled(contact')
  PROVE  DoneInv'
<1>1. CASE cam.status = "running" /\ \A c \in Contacts : contact'[c].status \notin OpenContact
  <2>1. campaign' = [cam EXCEPT !.status = "completed"]  BY <1>1 DEF Closed
  <2>2. campaign' \in CampaignKind  BY <2>1 DEF CampaignKind, CampaignStatus
  <2>3. \A c \in Contacts : contact'[c].status \in ContactStates  BY DEF ContactKind
  <2>4. AllSettled(contact')  BY <1>1, <2>3, StatusFacts DEF AllSettled
  <2> QED BY <2>2, <2>4 DEF DoneInv, RowsOK, ReadsMove, CompletedIsSettled, AllSettled
<1>2. CASE ~(cam.status = "running" /\ \A c \in Contacts : contact'[c].status \notin OpenContact)
  <2>1. campaign' = cam  BY <1>2 DEF Closed
  <2> QED BY <2>1 DEF DoneInv, RowsOK, ReadsMove, CompletedIsSettled, AllSettled
<1> QED BY <1>1, <1>2

(* Without the check: the campaign is not completed, or all is settled.    *)
LEMMA MoveKeepsDone ==
  ASSUME ReadsMove, campaign' \in CampaignKind, contact' \in [Contacts -> ContactKind],
         "campaign" \notin blind' /\ campaign'.status = "completed" => AllSettled(contact')
  PROVE  DoneInv'
BY DEF DoneInv, RowsOK, ReadsMove, CompletedIsSettled, AllSettled

LEMMA StatusMoves ==
  ASSUME RowsOK, NEW a \in Attempts, NEW s \in ContactStates
  PROVE  /\ WithStatus(a, s) \in [Contacts -> ContactKind]
         /\ s \in SettledContact => (AllSettled(contact) => AllSettled(WithStatus(a, s)))
<1>1. PICK c \in Contacts : c = ContactOf(a)  BY AttemptFacts
<1>2. PICK r : r = [contact[c] EXCEPT !.status = s]  OBVIOUS
<1>3. contact \in [Contacts -> ContactKind] /\ contact[c] \in ContactKind
  BY DEF RowsOK
<1>4. r \in ContactKind /\ r.status = s  BY <1>2, <1>3 DEF ContactKind
<1>5. WithStatus(a, s) = [contact EXCEPT ![c] = r]  BY <1>1, <1>2 DEF WithStatus
<1> QED BY <1>3, <1>4, <1>5 DEF AllSettled

LEMMA TriedMoves ==
  ASSUME RowsOK, NEW a \in Attempts, NEW s \in ContactStates
  PROVE  /\ Tried(a, s) \in [Contacts -> ContactKind]
         /\ s \in SettledContact => (AllSettled(contact) => AllSettled(Tried(a, s)))
<1>1. PICK c \in Contacts : c = ContactOf(a)  BY AttemptFacts
<1>2. PICK n \in Nat : n = Number(a)  BY AttemptFacts
<1>3. contact \in [Contacts -> ContactKind] /\ contact[c] \in ContactKind
  BY DEF RowsOK
<1>4. PICK m \in Nat : m = IF contact[c].count > n THEN contact[c].count ELSE n
  BY <1>3 DEF ContactKind
<1>5. PICK r : r = [contact[c] EXCEPT !.status = s, !.count = m]  OBVIOUS
<1>6. r \in ContactKind /\ r.status = s  BY <1>3, <1>5 DEF ContactKind
<1>7. Tried(a, s) = [contact EXCEPT ![c] = r]
  BY <1>1, <1>2, <1>3, <1>4, <1>5 DEF Tried
<1> QED BY <1>3, <1>6, <1>7 DEF AllSettled

LEMMA TalliesStayTyped ==
  ASSUME NEW cam \in CampaignKind
  PROVE  /\ [cam EXCEPT !.failed = @ + 1] \in CampaignKind
         /\ [cam EXCEPT !.completed = @ + 1] \in CampaignKind
         /\ [cam EXCEPT !.failed = @ + 1].status = cam.status
         /\ [cam EXCEPT !.completed = @ + 1].status = cam.status
BY DEF CampaignKind

LEMMA FailureKeepsDone ==
  ASSUME DoneInv, ReadsMove, NEW a \in Attempts, NEW s \in SettledContact, ProjectFailed(a, s)
  PROVE  DoneInv'
<1>1. RowsOK /\ s \in ContactStates  BY StatusFacts DEF DoneInv, ContactStates
<1>2. PICK cam \in CampaignKind :
        /\ campaign' = Closed(cam, contact')
        /\ cam.status = campaign.status
  BY <1>1, TalliesStayTyped DEF ProjectFailed, RowsOK
<1>3. contact' = Tried(a, s)  BY DEF ProjectFailed
<1>4. "campaign" \notin blind /\ campaign.status = "completed" => AllSettled(contact)
  BY DEF DoneInv, CompletedIsSettled, AllSettled
<1> QED BY <1>1, <1>2, <1>3, <1>4, TriedMoves, ClosingKeepsDone

LEMMA OutcomeKeepsDone ==
  ASSUME DoneInv, ReadsMove, NEW a \in Attempts, ApplyOutcome(a)
  PROVE  DoneInv'
<1>1. RowsOK /\ ContactOf(a) \in Contacts  BY AttemptFacts DEF DoneInv
<1>2. CASE UNCHANGED <<campaign, contact>>
  BY <1>2 DEF DoneInv, RowsOK, ReadsMove, CompletedIsSettled
<1>3. CASE contact[ContactOf(a)].status \notin SettledContact /\ ~UNCHANGED <<campaign, contact>>
  <2>1. "campaign" \notin blind => campaign.status # "completed"
    BY <1>1, <1>3 DEF DoneInv, CompletedIsSettled
  <2>2. PICK s \in {"completed", "retry", "failed"} : contact' = Tried(a, s)
    BY <1>3 DEF ApplyOutcome
  <2>3. PICK cam \in CampaignKind :
          campaign' = Closed(cam, contact') /\ cam.status = campaign.status
    BY <1>1, <1>3, TalliesStayTyped DEF ApplyOutcome, RowsOK
  <2>4. s \in ContactStates  BY StatusFacts
  <2> QED BY <1>1, <2>1, <2>2, <2>3, <2>4, TriedMoves, ClosingKeepsDone
<1> QED BY <1>2, <1>3 DEF ApplyOutcome

LEMMA CompletionKeepsDone ==
  ASSUME DoneInv, ReadsMove, LaneOK, NEW l \in Lanes, CompleteDispatch(l)
  PROVE  DoneInv'
<1>1. lane[l].job \in Attempts
  BY AttemptPCs DEF LaneOK, CompleteDispatch, At
<1>2. PICK a \in Attempts : a = Job(l)  BY <1>1 DEF Job
<1>3. RowsOK /\ ContactOf(a) \in Contacts  BY AttemptFacts DEF DoneInv
<1>4. PICK s : /\ s = IF contact[ContactOf(a)].status \in SettledContact
                      THEN contact[ContactOf(a)].status ELSE "in_progress"
               /\ contact' = Tried(a, s)
               /\ campaign' = Closed(campaign, contact')
  BY <1>2 DEF CompleteDispatch
<1>5. s \in ContactStates
  BY <1>4, StatusFacts DEF ContactStates
<1>6. "campaign" \notin blind /\ campaign.status = "completed" =>
        AllSettled(contact) /\ s \in SettledContact
  BY <1>3, <1>4 DEF DoneInv, CompletedIsSettled, AllSettled
<1>7. campaign \in CampaignKind  BY <1>3 DEF RowsOK
<1> QED BY <1>3, <1>4, <1>5, <1>6, <1>7, TriedMoves, ClosingKeepsDone

(* A contact that a column written back leaves as it is, or settles.       *)
LEMMA FlushMoves ==
  ASSUME RowsOK, NEW seen, NEW s \in ContactStates, NEW c \in Contacts
  PROVE  Flushed(contact[c].status, seen, s) \in {contact[c].status, s} \intersect ContactStates
BY DEF Flushed, RowsOK, ContactKind

LEMMA StartFenceKeepsDone ==
  ASSUME DoneInv, ReadsMove, LaneOK, NEW l \in Lanes, StartFenced(l)
  PROVE  DoneInv'
<1>1. lane[l].job \in Attempts
  BY AttemptPCs DEF LaneOK, StartFenced, At
<1>2. PICK a \in Attempts : a = Job(l)  BY <1>1 DEF Job
<1>3. PICK s \in {"pending", "cancelled"} :
        /\ contact' = WithStatus(a, s)
        /\ s = "pending" => campaign.status = "paused"
        /\ campaign' = campaign
  BY <1>2 DEF StartFenced, Released
<1>4. RowsOK /\ s \in ContactStates  BY StatusFacts DEF DoneInv
<1>5. contact' \in [Contacts -> ContactKind] /\ campaign' \in CampaignKind
  BY <1>3, <1>4, StatusMoves DEF RowsOK
<1>6. "campaign" \notin blind' /\ campaign'.status = "completed" => AllSettled(contact')
  <2>1. ASSUME "campaign" \notin blind, campaign.status = "completed"
        PROVE  AllSettled(WithStatus(a, s))
    <3>1. s \in SettledContact  BY <1>3, <2>1, StatusFacts
    <3>2. AllSettled(contact)  BY <2>1 DEF DoneInv, CompletedIsSettled, AllSettled
    <3> QED BY <1>4, <3>1, <3>2, StatusMoves
  <2> QED BY <1>3, <2>1 DEF ReadsMove
<1> QED BY <1>5, <1>6, MoveKeepsDone

(* A contact is put back for a campaign that was read paused: it is paused *)
(* still, or the transaction has gone by a row that moved.                 *)
LEMMA PrepareCancelsKeepsDone ==
  ASSUME DoneInv, ReadsMove, LaneOK, NEW l \in Lanes,
         PrepareContactGone(l) \/ PrepareNotRunning(l)
  PROVE  DoneInv'
<1>1. lane[l].job \in Attempts
  BY AttemptPCs DEF LaneOK, PrepareContactGone, PrepareNotRunning, Preparing, At
<1>2. PICK a \in Attempts : a = Job(l)  BY <1>1 DEF Job
<1>3. PICK s \in {"pending", "cancelled"} :
        /\ contact' = WithStatus(a, Flushed(contact[ContactOf(a)].status, read[l].status, s))
        /\ s = "pending" => campaign.status = "paused" \/ "campaign" \in blind'
        /\ campaign' = campaign
  <2>1. CASE PrepareContactGone(l)
    BY <1>2, <2>1 DEF PrepareContactGone, PrepareCancels
  <2>2. CASE PrepareNotRunning(l)
    <3>1. /\ contact' = WithStatus(a, Flushed(contact[ContactOf(a)].status, read[l].status,
                                              Released(read[l].campaign)))
          /\ campaign' = campaign
      BY <1>2, <2>2 DEF PrepareNotRunning, PrepareCancels
    <3>2. /\ Released(read[l].campaign) \in {"pending", "cancelled"}
          /\ Released(read[l].campaign) = "pending" => read[l].campaign = "paused"
      BY DEF Released
    <3>3. campaign.status # read[l].campaign => "campaign" \in blind'
      BY <2>2 DEF PrepareNotRunning, CommitsOver, StatusMoved
    <3> QED BY <3>1, <3>2, <3>3
  <2> QED BY <2>1, <2>2
<1>4. PICK c \in Contacts : c = ContactOf(a)  BY AttemptFacts
<1>5. RowsOK /\ s \in ContactStates  BY StatusFacts DEF DoneInv
<1>6. PICK t \in {contact[c].status, s} \intersect ContactStates : contact' = WithStatus(a, t)
  BY <1>3, <1>4, <1>5, FlushMoves
<1>7. contact' \in [Contacts -> ContactKind] /\ campaign' \in CampaignKind
  BY <1>3, <1>5, <1>6, StatusMoves DEF RowsOK
<1>8. ASSUME "campaign" \notin blind', campaign'.status = "completed"
      PROVE  AllSettled(WithStatus(a, t))
  <2>1. AllSettled(contact)
    BY <1>3, <1>8 DEF DoneInv, CompletedIsSettled, AllSettled, ReadsMove
  <2>2. t \in SettledContact
    BY <1>3, <1>4, <1>6, <1>8, <2>1, StatusFacts DEF AllSettled
  <2> QED BY <1>5, <2>1, <2>2, StatusMoves
<1> QED BY <1>6, <1>7, <1>8, MoveKeepsDone

(* The campaign is completed on the contacts as they are, or was before.   *)
LEMMA SkipKeepsDone ==
  ASSUME DoneInv, ReadsMove, LaneOK, NEW l \in Lanes, PrepareSkips(l)
  PROVE  DoneInv'
<1>1. lane[l].job \in Attempts
  BY AttemptPCs DEF LaneOK, PrepareSkips, Preparing, At
<1>2. PICK a \in Attempts : a = Job(l)  BY <1>1 DEF Job
<1>3. PICK c \in Contacts : c = ContactOf(a)  BY AttemptFacts
<1>4. PICK n \in Nat : n = Number(a)  BY AttemptFacts
<1>5. /\ RowsOK /\ read[l] \in ReadKind /\ contact[c] \in ContactKind
      /\ contact \in [Contacts -> ContactKind] /\ campaign \in CampaignKind
      /\ "skipped" \in ContactStates /\ "skipped" \in SettledContact
  BY StatusFacts DEF DoneInv, RowsOK, ReadsOK
<1>6. PICK t \in {contact[c].status, "skipped"} \intersect ContactStates :
        t = Flushed(contact[c].status, read[l].status, "skipped")
  BY <1>5, FlushMoves
<1>7. PICK m \in Nat :
        m = Flushed(contact[c].count, read[l].count, IF read[l].count > n THEN read[l].count ELSE n)
  <2>1. contact[c].count \in Nat /\ read[l].count \in Nat  BY <1>5 DEF ContactKind, ReadKind
  <2> QED BY <2>1 DEF Flushed
<1>8. PICK r : r = [contact[c] EXCEPT !.status = t, !.count = m]  OBVIOUS
<1>9. r \in ContactKind /\ r.status = t  BY <1>5, <1>8 DEF ContactKind
<1>10. contact' = [contact EXCEPT ![c] = r]
  BY <1>2, <1>3, <1>4, <1>5, <1>6, <1>7, <1>8 DEF PrepareSkips
<1>11. contact' \in [Contacts -> ContactKind]  BY <1>5, <1>9, <1>10
<1>12. AllSettled(contact) => AllSettled(contact')
  BY <1>5, <1>6, <1>9, <1>10 DEF AllSettled
<1> DEFINE closes == Closed([campaign EXCEPT !.status = "running"], contact').status = "completed"
<1>13. campaign' = [campaign EXCEPT !.failed = read[l].failed + 1,
                                   !.status = IF closes THEN "completed" ELSE @]
  BY <1>2 DEF PrepareSkips
<1>14. read[l].failed + 1 \in Nat  BY <1>5 DEF ReadKind
<1>15. closes => AllSettled(contact')
  <2>1. [campaign EXCEPT !.status = "running"].status = "running"  BY <1>5 DEF CampaignKind
  <2>2. closes => \A d \in Contacts : contact'[d].status \notin OpenContact
    BY <2>1 DEF Closed
  <2>3. \A d \in Contacts : contact'[d].status \in ContactStates  BY <1>11 DEF ContactKind
  <2> QED BY <2>2, <2>3, StatusFacts DEF AllSettled
<1> HIDE DEF closes
<1>16. campaign' \in CampaignKind /\ (campaign'.status = "completed" => closes \/ campaign.status = "completed")
  BY <1>5, <1>13, <1>14 DEF CampaignKind, CampaignStatus
<1>17. "campaign" \notin blind' /\ campaign.status = "completed" => AllSettled(contact)
  BY DEF DoneInv, CompletedIsSettled, AllSettled, ReadsMove
<1> QED BY <1>11, <1>12, <1>15, <1>16, <1>17, MoveKeepsDone

LEMMA FilingKeepsDone ==
  ASSUME DoneInv, ReadsMove, FileDueAttempts
  PROVE  DoneInv'
<1>1. PICK batch : /\ contact' = [c \in Contacts |-> IF c \in batch
                          THEN [contact[c] EXCEPT !.status = "queued"] ELSE contact[c]]
                   /\ campaign.status = "running" /\ campaign' = campaign
  BY DEF FileDueAttempts
<1>2. \A c \in Contacts : contact[c] \in ContactKind  BY DEF DoneInv, RowsOK
<1>3. "queued" \in ContactStates  BY StatusFacts
<1>4. \A c \in Contacts : [contact[c] EXCEPT !.status = "queued"] \in ContactKind
  BY <1>2, <1>3 DEF ContactKind
<1>5. contact' \in [Contacts -> ContactKind]  BY <1>1, <1>2, <1>4
<1>6. campaign' \in CampaignKind  BY <1>1 DEF DoneInv, RowsOK
<1> QED BY <1>1, <1>5, <1>6, MoveKeepsDone

LEMMA FenceKeepsDone ==
  ASSUME DoneInv, ReadsMove, NEW status \in ContactStates, Fence(status),
         NEW s \in {"paused", "canceled"}, campaign' = [campaign EXCEPT !.status = s]
  PROVE  DoneInv'
<1>1. \A c \in Contacts : contact[c] \in ContactKind  BY DEF DoneInv, RowsOK
<1>2. \A c \in Contacts : [contact[c] EXCEPT !.status = status] \in ContactKind
  BY <1>1 DEF ContactKind
<1>3. PICK freed : contact' = [c \in Contacts |->
          IF c \in freed /\ contact[c].status = "queued"
          THEN [contact[c] EXCEPT !.status = status] ELSE contact[c]]
  BY DEF Fence
<1>4. contact' \in [Contacts -> ContactKind]  BY <1>1, <1>2, <1>3
<1>5. campaign \in CampaignKind  BY DEF DoneInv, RowsOK
<1>6. campaign' \in CampaignKind /\ campaign'.status = s  BY <1>5 DEF CampaignKind, CampaignStatus
<1> QED BY <1>4, <1>6, MoveKeepsDone

LEMMA DeletionKeepsDone ==
  ASSUME DoneInv, ReadsMove, NEW c \in Contacts, RequestDeletion(c) \/ QuiesceContact(c)
  PROVE  DoneInv'
<1>1. /\ contact \in [Contacts -> ContactKind] /\ contact[c] \in ContactKind /\ RowsOK
      /\ "cancelled" \in ContactStates /\ "cancelled" \in SettledContact
  BY StatusFacts DEF DoneInv, RowsOK
<1>2. PICK t \in {contact[c].status, "cancelled"} \intersect ContactStates :
        t = Flushed(contact[c].status, scope[c].status, "cancelled")
  BY <1>1, FlushMoves
<1>3. PICK r \in {[contact[c] EXCEPT !.active = FALSE], [contact[c] EXCEPT !.status = t], contact[c]} :
        contact' = [contact EXCEPT ![c] = r] /\ campaign' = campaign
  <2>1. CASE RequestDeletion(c)  BY <2>1 DEF RequestDeletion
  <2>2. CASE QuiesceContact(c)
    <3>1. campaign' = campaign  BY <2>2 DEF QuiesceContact
    <3>2. CASE contact' = contact
      <4>1. contact' = [contact EXCEPT ![c] = contact[c]]  BY <1>1, <3>2
      <4> QED BY <3>1, <4>1
    <3>3. CASE contact' # contact
      <4>1. contact' = [contact EXCEPT ![c].status = t]
        BY <1>2, <2>2, <3>3 DEF QuiesceContact
      <4>2. contact' = [contact EXCEPT ![c] = [contact[c] EXCEPT !.status = t]]
        BY <4>1
      <4> QED BY <3>1, <4>2
    <3> QED BY <3>2, <3>3
  <2> QED BY <2>1, <2>2
<1>4. r \in ContactKind /\ (r.status = contact[c].status \/ r.status \in SettledContact)
  BY <1>1, <1>2, <1>3 DEF ContactKind
<1>5. contact' \in [Contacts -> ContactKind] /\ campaign' \in CampaignKind
  BY <1>1, <1>3, <1>4 DEF DoneInv, RowsOK
<1>6. "campaign" \notin blind' /\ campaign'.status = "completed" => AllSettled(contact')
  BY <1>1, <1>3, <1>4 DEF DoneInv, CompletedIsSettled, AllSettled, ReadsMove
<1> QED BY <1>5, <1>6, MoveKeepsDone

LEMMA InitDone == Init => DoneInv
<1> SUFFICES ASSUME Init PROVE DoneInv
  OBVIOUS
<1>1. campaign = [status |-> "running", completed |-> 0, failed |-> 0]  BY DEF Init
<1>2. PICK valid \in [Contacts -> BOOLEAN] : contact = [c \in Contacts |->
         [status |-> "pending", count |-> 0, active |-> TRUE, valid |-> valid[c]]]
  BY DEF Init
<1>3. "pending" \in ContactStates  BY StatusFacts
<1>4. contact \in [Contacts -> ContactKind]  BY <1>2, <1>3 DEF ContactKind
<1>5. ReadsOK  BY <1>3 DEF Init, ReadsOK, Unread, NoScope, ReadKind
<1> QED BY <1>1, <1>4, <1>5 DEF DoneInv, RowsOK, CampaignKind, CampaignStatus, CompletedIsSettled

LEMMA AttemptStepKeepsDone ==
  ASSUME DoneInv, LaneOK, NEW l \in Lanes, AttemptStep(l)
  PROVE  DoneInv'
<1>0. RowsOK /\ ReadsOK  BY DEF DoneInv
<1>1. ASSUME UNCHANGED <<campaign, contact>>, ReadsMove PROVE DoneInv'
  BY <1>1 DEF DoneInv, RowsOK, ReadsMove, CompletedIsSettled
<1>2. CASE PrepareContactGone(l) \/ PrepareNotRunning(l)
  BY <1>0, <1>2, PrepareMovesReads, PrepareCancelsKeepsDone
<1>3. CASE PrepareSkips(l)
  BY <1>0, <1>3, PrepareMovesReads, SkipKeepsDone
<1>4. CASE FailAttempt(l)
  <2>1. lane[l].job \in Attempts
    BY <1>4, AttemptPCs DEF LaneOK, FailAttempt
  <2>2. ProjectFailed(Job(l), "failed") /\ ReadsMove  BY <1>0, <1>4, FrameMoves DEF FailAttempt
  <2> QED BY <2>1, <2>2, StatusFacts, FailureKeepsDone DEF Job
<1>5. CASE CompleteDispatch(l)
  BY <1>0, <1>5, FrameMoves, CompletionKeepsDone DEF CompleteDispatch
<1>6. CASE StartFenced(l)
  BY <1>0, <1>6, FrameMoves, StartFenceKeepsDone DEF StartFenced
<1>7. CASE PrepareReads(l) \/ PrepareFails(l) \/ Prepared(l) \/ AttemptStopped(l)
  <2>1. ReadsMove  BY <1>0, <1>7, PrepareMovesReads
  <2> QED BY <1>1, <1>7, <2>1
          DEF PrepareReads, PrepareFails, Prepared, AttemptStopped, campaignVars
<1>8. CASE FindSettled(l) \/ StartEffect(l) \/ FailureFindsSettled(l) \/ FailureConflicts(l)
           \/ RetryAttempt(l) \/ SendInterrupted(l)
  <2>1. UNCHANGED <<campaign, contact>> /\ UNCHANGED underway
    BY <1>8 DEF FindSettled, StartEffect, FailureFindsSettled, FailureConflicts, RetryAttempt,
                SendInterrupted, campaignVars
  <2> QED BY <1>0, <1>1, <2>1, FrameMoves
<1>9. CASE \/ DispatchReplays(l) \/ DispatchAuthorized(l)
           \/ DispatchRecovers(l) \/ DispatchSends(l) \/ DispatchRecords(l)
           \/ DispatchProjects(l) \/ DispatchSaves(l) \/ DispatchFails(l)
  <2>1. UNCHANGED <<campaign, contact>> /\ UNCHANGED underway
    BY <1>9
       DEF DispatchReplays, DispatchAuthorized, DispatchRecovers, DispatchSends, DispatchRecords,
           DispatchProjects, DispatchSaves, DispatchFails, dispatchFrame, campaignVars
  <2> QED BY <1>0, <1>1, <2>1, FrameMoves
<1> QED BY <1>2, <1>3, <1>4, <1>5, <1>6, <1>7, <1>8, <1>9 DEF AttemptStep

LEMMA NextKeepsDone == DoneInv /\ LaneOK /\ [Next]_vars => DoneInv'
<1> SUFFICES ASSUME DoneInv, LaneOK, [Next]_vars PROVE DoneInv'
  OBVIOUS
<1>a. RowsOK /\ ReadsOK  BY DEF DoneInv
<1>0. ASSUME UNCHANGED <<campaign, contact>>, ReadsMove \/ UNCHANGED underway PROVE DoneInv'
  BY <1>a, <1>0, FrameMoves DEF DoneInv, RowsOK, ReadsMove, CompletedIsSettled
<1>1. CASE UNCHANGED vars
  BY <1>0, <1>1 DEF vars, campaignVars
<1>2. CASE FileDueAttempts
  BY <1>a, <1>2, FrameMoves, FilingKeepsDone DEF FileDueAttempts
<1>3. CASE FindNothingDue
  <2>1. /\ contact' = contact /\ campaign' = Closed(campaign, contact)
        /\ campaign.status = "running" /\ UNCHANGED underway
    BY <1>3 DEF FindNothingDue
  <2>2. contact' \in [Contacts -> ContactKind] /\ campaign \in CampaignKind
    BY <2>1 DEF DoneInv, RowsOK
  <2> QED BY <1>a, <2>1, <2>2, FrameMoves, ClosingKeepsDone
<1>4. CASE Transition \/ Revoke
  <2>1. ReadsMove  BY <1>a, <1>4, ControlMovesReads
  <2>2. PICK s \in {"paused", "canceled"}, status \in {"pending", "cancelled"} :
          Fence(status) /\ campaign' = [campaign EXCEPT !.status = s]
    <3>1. CASE Revoke  BY <3>1 DEF Revoke
    <3>2. CASE Transition
      <4>1. asked \in {"paused", "canceled"}  BY <3>2 DEF Transition, DoneInv, ReadsOK
      <4> QED BY <3>2, <4>1 DEF Transition
    <3> QED BY <1>4, <3>1, <3>2
  <2> QED BY <2>1, <2>2, StatusFacts, FenceKeepsDone
<1>5. CASE Resume
  <2>1. campaign' = [campaign EXCEPT !.status = "running"] /\ contact' = contact
    BY <1>5 DEF Resume
  <2>2. campaign' \in CampaignKind /\ campaign'.status = "running"
    BY <2>1 DEF DoneInv, RowsOK, CampaignKind, CampaignStatus
  <2>3. ReadsMove  BY <1>a, <1>5, ControlMovesReads
  <2> QED BY <2>1, <2>2, <2>3 DEF DoneInv, RowsOK, ReadsMove, CompletedIsSettled
<1>6. CASE Ask
  <2>1. ReadsMove  BY <1>a, <1>6, ControlMovesReads
  <2> QED BY <1>0, <1>6, <2>1 DEF Ask, campaignVars
<1>7. ASSUME NEW l \in Lanes, ClaimSome(l) PROVE DoneInv'
  BY <1>0, <1>7 DEF ClaimSome, ClaimAttempt, campaignFrame, campaignVars
<1>8. ASSUME NEW l \in Lanes, LaneDies(l) PROVE DoneInv'
  <2>1. ReadsMove  BY <1>a, <1>8, PrepareMovesReads
  <2> QED BY <1>0, <1>8, <2>1 DEF LaneDies, campaignVars
<1>9. ASSUME NEW l \in Lanes, DeliveryStep(l) PROVE DoneInv'
  <2>1. CASE ConsumeOutcome(l)
    BY <1>a, <2>1, FrameMoves, OutcomeKeepsDone DEF ConsumeOutcome
  <2>2. CASE UNCHANGED campaignFrame
    BY <1>0, <2>2 DEF campaignFrame, campaignVars
  <2> QED BY <1>9, <2>1, <2>2 DEF DeliveryStep
<1>10. ASSUME NEW t \in Tasks, ClaimExpires(t) PROVE DoneInv'
  BY <1>0, <1>10 DEF ClaimExpires, campaignFrame, campaignVars
<1>11. ASSUME NEW d \in Deliveries, Nudge(d) PROVE DoneInv'
  BY <1>0, <1>11 DEF Nudge, campaignFrame, campaignVars
<1>12. ASSUME NEW a \in Attempts, Carrier(a) PROVE DoneInv'
  BY <1>0, <1>12
     DEF Carrier, CallbackReconciles, CallbackBinds, CallEnds, campaignVars
<1>13. ASSUME NEW c \in Contacts, RequestDeletion(c) \/ QuiesceContact(c) PROVE DoneInv'
  <2>1. ReadsMove  BY <1>a, <1>13, ControlMovesReads
  <2> QED BY <1>13, <2>1, DeletionKeepsDone
<1>14. ASSUME NEW c \in Contacts, QuiesceReads(c) PROVE DoneInv'
  <2>1. ReadsMove  BY <1>a, <1>14, ControlMovesReads
  <2> QED BY <1>0, <1>14, <2>1 DEF QuiesceReads, campaignVars
<1> QED
  BY <1>1, <1>2, <1>3, <1>4, <1>5, <1>6, <1>7, <1>8, <1>9, <1>10, <1>11, <1>12, <1>13, <1>14,
     AttemptStepKeepsDone
  DEF Next

(* A campaign is never reported completed with a contact left to call,     *)
(* whatever order callbacks, handlers, sweeps and operators come in: unless*)
(* a transaction has gone by a campaign row that had moved since it was    *)
(* read, as the unlocked reads of _prepare_attempt, of pause and of cancel *)
(* allow.  A contact's row that had moved does no harm to it.              *)
THEOREM CompletedCampaignsAreDone == Spec => []CompletedIsSettled
<1>1. Init => SendInv /\ DoneInv
  BY InitSends, InitDone
<1>2. SendInv /\ DoneInv /\ [Next]_vars => SendInv' /\ DoneInv'
  BY NextSends, NextKeepsDone DEF SendInv
<1>3. DoneInv => CompletedIsSettled  BY DEF DoneInv
<1> QED BY <1>1, <1>2, <1>3, PTL DEF Spec
=============================================================================
