------------------------------ MODULE Campaign ------------------------------
(***************************************************************************)
(* A voice campaign: contacts are filed as durable attempts, each attempt  *)
(* places one call through the outbound boundary, the carrier reports how  *)
(* the call ended, and the fact of its end is delivered back to the        *)
(* campaign, which settles the contact or has it tried again.              *)
(*                                                                         *)
(* Composes OutboundAttempt (the call as an external effect) with          *)
(* EventDelivery (the ended call as a fact) over one pool of worker lanes. *)
(* How an attempt row is bound to its task is BoundWork's subject: here    *)
(* the task exists from the filing on.                                     *)
(***************************************************************************)
EXTENDS EventDelivery, OutboundAttempt, FiniteSetsExt

CONSTANTS
  Contacts,   \* contacts of the campaign
  Limit,      \* concurrency_limit of its revision
  MaxNumber   \* bound: number of the last attempt a contact is filed for;
              \* max_retries of the retry policy is one less

ASSUME CampaignAssumption ==
  /\ IsFiniteSet(Contacts)
  /\ Limit \in Nat \ {0}
  /\ MaxNumber \in Nat \ {0}
  /\ Contacts \X (1..MaxNumber) \subseteq Tasks \intersect Effects
  /\ Deliveries = {<<a, "ended">> : a \in Contacts \X (1..MaxNumber)}
  /\ Deliveries \intersect (Contacts \X (1..MaxNumber)) = {}

VARIABLES
  campaign,  \* the campaign row
  contact,   \* the rows of its contacts
  attempt,   \* the attempt rows: unique in contact and number
  saved,     \* the checkpoint of each attempt's dispatch step
  call,      \* the canonical call of each attempt
  overtaken, \* history: attempts whose outcome was applied before the last
             \* try of their handler was over, or whose row a try put back
             \* after it had lost its claim
  read,      \* what the preparing transaction of a lane has read, unlocked
  scope,     \* what the erasure of a contact has read before its locks
  asked,     \* the status an operator's transaction is about to write
  blind      \* history: the tables whose rows had moved between the reading
             \* and the writing of a transaction that committed

campaignVars == <<campaign, contact, attempt>>
outVars      == <<out, reached>>
underway     == <<read, scope, asked, blind>>
vars         == <<pool, deliveryVars, outVars, campaignVars, saved, call, overtaken, underway>>

Attempts    == Contacts \X (1..MaxNumber)
Ended(a)    == <<a, "ended">>      \* the delivery of the fact that its call ended
ContactOf(a) == a[1]
Number(a)    == a[2]

OpenContact    == {"pending", "queued", "in_progress", "retry"}
SettledContact == {"completed", "failed", "skipped", "cancelled"}
SettledAttempt == {"succeeded", "failed", "cancelled"}
EndedCall      == {"connected", "missed", "rejected"}

CampaignStatus == {"running", "paused", "completed", "canceled"}

CampaignRow == [status : CampaignStatus, completed : Nat, failed : Nat]
ContactRow ==
  [status : OpenContact \union SettledContact, count : 0..MaxNumber,
   active : BOOLEAN, valid : BOOLEAN]
AttemptRow ==
  [state : {"none", "pending", "running"} \union SettledAttempt,
   attempts : 0..MaxTries, started : BOOLEAN, outcome : BOOLEAN]

(* The values of the campaign's row, of the contact's row and of its       *)
(* lifecycle that one preparing transaction goes by.                       *)
ReadRow ==
  [campaign : {"none"} \union CampaignStatus, failed : Nat,
   status : OpenContact \union SettledContact, count : 0..MaxNumber, active : BOOLEAN]
Unread ==
  [campaign |-> "none", failed |-> 0, status |-> "pending", count |-> 0, active |-> TRUE]

(* The attempts an erasure has found, those of them without an effect, and *)
(* the contact's status.                                                   *)
ScopeRow ==
  [filed : SUBSET Attempts, unstarted : SUBSET Attempts,
   status : OpenContact \union SettledContact]
NoScope == [filed |-> {}, unstarted |-> {}, status |-> "pending"]

DispatchSteps == {"intent", "send", "record", "project", "save"}
AttemptSteps  == {"prepare", "start", "complete", "unknown", "reject", "retry"} \union DispatchSteps

TypeOK ==
  /\ task \in [Tasks -> TaskRow]
  /\ upsets \in 0..MaxUpsets
  /\ lane \in [Lanes -> LaneRow({"idle"} \union DeliverySteps \union AttemptSteps,
                                {"none"} \union OutStates)]
  /\ DeliveryTypeOK
  /\ OutboundTypeOK
  /\ campaign \in CampaignRow
  /\ contact \in [Contacts -> ContactRow]
  /\ attempt \in [Attempts -> AttemptRow]
  /\ saved \in [Attempts -> {"none"} \union OutStates]
  /\ call \in [Attempts -> {"none", "intent", "bound"} \union EndedCall]
  /\ overtaken \subseteq Attempts
  /\ read \in [Lanes -> ReadRow]
  /\ scope \in [Contacts -> ScopeRow]
  /\ asked \in {"none", "paused", "canceled"}
  /\ blind \subseteq {"campaign", "contact"}

Init ==
  /\ PoolInit /\ DeliveryInit /\ OutboundInit
  /\ campaign = [status |-> "running", completed |-> 0, failed |-> 0]
  /\ \E valid \in [Contacts -> BOOLEAN] :
       contact = [c \in Contacts |->
         [status |-> "pending", count |-> 0, active |-> TRUE, valid |-> valid[c]]]
  /\ attempt = [a \in Attempts |->
       [state |-> "none", attempts |-> 0, started |-> FALSE, outcome |-> FALSE]]
  /\ saved = [a \in Attempts |-> "none"]
  /\ call = [a \in Attempts |-> "none"]
  /\ overtaken = {}
  /\ read = [l \in Lanes |-> Unread]
  /\ scope = [c \in Contacts |-> NoScope]
  /\ asked = "none"
  /\ blind = {}

-----------------------------------------------------------------------------
(* Rows as the handlers change them *)

ContactsIn(states) == {c \in Contacts : contact[c].status \in states}

(* The lock of an attempt's row is not held by a preparing transaction,    *)
(* the one kind that holds it from one step to the next.                   *)
Free(a) == \A l \in Lanes : Job(l) = a => read[l] = Unread

(* What a transaction leaves of a column it has read as `seen` and sets to *)
(* `new`: only what it changes is written, whatever the column is by now.  *)
Flushed(now, seen, new) == IF new = seen THEN now ELSE new

(* Mutant: a campaign is done once no contact waits.                       *)
ClosedOnceNobodyWaits(cam, con) ==
  IF cam.status = "running" /\ \A c \in Contacts : con[c].status \notin {"pending", "queued", "retry"}
  THEN [cam EXCEPT !.status = "completed"] ELSE cam

(* _complete_campaign_if_terminal, on the rows a transaction is about to   *)
(* commit.                                                                 *)
Closed(cam, con) ==
  IF cam.status = "running" /\ \A c \in Contacts : con[c].status \notin OpenContact
  THEN [cam EXCEPT !.status = "completed"] ELSE cam

(* The contact of an attempt takes a status, and the number of the attempt.*)
Tried(a, status) ==
  [contact EXCEPT ![ContactOf(a)].status = status,
                  ![ContactOf(a)].count = IF @ > Number(a) THEN @ ELSE Number(a)]

WithStatus(a, status) == [contact EXCEPT ![ContactOf(a)].status = status]

(* Mutant: the failure is counted, and the contact forgotten.              *)
ProjectFailedTally(a, status) ==
  /\ contact' = contact
  /\ campaign' = [campaign EXCEPT !.failed = @ + 1]

(* _project_failed_attempt_locked, and the end of _mark_dispatch_unknown:  *)
(* whatever the contact's status has become.                               *)
ProjectFailed(a, status) ==
  /\ contact' = Tried(a, status)
  /\ campaign' = Closed([campaign EXCEPT !.failed = @ + 1], contact')

CancelAttempt(a) ==
  attempt' = [attempt EXCEPT ![a].state = IF @ \in SettledAttempt THEN @ ELSE "cancelled"]

(* What becomes of the contact of an attempt that is cancelled because the *)
(* campaign does not run.                                                  *)
Released(status) == IF status = "paused" THEN "pending" ELSE "cancelled"

-----------------------------------------------------------------------------
(* file_due_campaign_attempts *)

Slots == LET busy == Cardinality(ContactsIn({"queued", "in_progress"}))
         IN IF Limit > busy THEN Limit - busy ELSE 0

NextAttempt(c) == <<c, contact[c].count + 1>>

(* An attempt number is unique for its contact, whatever became of it.     *)
Fileable(a) == a \in Attempts /\ attempt[a].state = "none"

(* Mutant: a contact whose call is under way is due as well.               *)
DueUntilSettled == ContactsIn({"pending", "retry", "in_progress"})

DueContacts == ContactsIn({"pending", "retry"})

(* The batch is inserted as a whole: an attempt number that was used before*)
(* breaks its unique constraint, and nothing is filed.                     *)
FileDueAttempts ==
  \E batch \in SUBSET DueContacts :
    LET filed == {NextAttempt(c) : c \in batch} IN
      /\ campaign.status = "running"
      /\ batch # {}
      /\ Cardinality(batch) <= Slots
      /\ \A a \in filed : Fileable(a)
      /\ attempt' = [a \in Attempts |->
           IF a \in filed THEN [attempt[a] EXCEPT !.state = "pending"] ELSE attempt[a]]
      /\ contact' = [c \in Contacts |->
           IF c \in batch THEN [contact[c] EXCEPT !.status = "queued"] ELSE contact[c]]
      /\ task' = [t \in Tasks |->
           IF t \in filed THEN [task[t] EXCEPT !.state = "ready"] ELSE task[t]]
      /\ UNCHANGED <<campaign, lane, upsets, deliveryVars, outVars, saved, call, overtaken, underway>>

(* A sweep that finds nothing to file completes a campaign that is done.   *)
FindNothingDue ==
  /\ campaign.status = "running"
  /\ Slots > 0
  /\ DueContacts = {}
  /\ Closed(campaign, contact) # campaign
  /\ campaign' = Closed(campaign, contact)
  /\ UNCHANGED <<contact, attempt, pool, deliveryVars, outVars, saved, call, overtaken, underway>>

-----------------------------------------------------------------------------
(* CampaignAttemptWorkflow *)

ClaimAttempt(l, a) ==
  /\ Claim(l, a, "prepare")
  /\ UNCHANGED <<deliveryVars, outVars, campaignVars, saved, call, overtaken, underway>>

(* A receipt is returned: the attempt is settled, or being cancelled.      *)
ReturnReceipt(l) == Returns(l) /\ UNCHANGED <<deliveryVars, outVars, saved, call, overtaken>>

FindSettled(l) ==
  /\ At(l, "prepare") \/ At(l, "start")
  /\ Free(Job(l))
  /\ attempt[Job(l)].state \in SettledAttempt
  /\ ReturnReceipt(l)
  /\ UNCHANGED <<campaignVars, underway>>

(* _prepare_attempt: one transaction, which locks the attempt's row        *)
(* (begin_attempt) until its commit and reads the campaign, the contact    *)
(* and the contact's lifecycle without a lock.                             *)
PrepareReads(l) ==
  LET a == Job(l)
      c == contact[ContactOf(a)]
  IN /\ At(l, "prepare")
     /\ Free(a)
     /\ attempt[a].state \notin SettledAttempt
     /\ read' = [read EXCEPT ![l] =
          [campaign |-> campaign.status, failed |-> campaign.failed,
           status |-> c.status, count |-> c.count, active |-> c.active]]
     /\ UNCHANGED <<pool, deliveryVars, outVars, campaignVars, saved, call, overtaken,
                    scope, asked, blind>>

(* The rest of it goes by what was read, and commits.                      *)
Preparing(l) == At(l, "prepare") /\ read[l] # Unread

Forgets(l) == read' = [read EXCEPT ![l] = Unread]

Begun(a) == [attempt EXCEPT ![a].state = "running", ![a].attempts = @ + 1]

(* A commit that went by the campaign's row, and by the contact's.         *)
CommitsOver(campaignMoved, contactMoved) ==
  blind' = blind \union (IF campaignMoved THEN {"campaign"} ELSE {})
                 \union (IF contactMoved THEN {"contact"} ELSE {})

ContactMoved(l) == contact[ContactOf(Job(l))].status # read[l].status
StatusMoved(l)  == campaign.status # read[l].campaign

(* The attempt is cancelled, and the contact given a status.               *)
PrepareCancels(l, status) ==
  LET a == Job(l) IN
    /\ attempt' = [Begun(a) EXCEPT ![a].state = "cancelled"]
    /\ contact' = WithStatus(a, Flushed(contact[ContactOf(a)].status, read[l].status, status))
    /\ ReturnReceipt(l)
    /\ Forgets(l)
    /\ UNCHANGED <<campaign, scope, asked>>

PrepareContactGone(l) ==
  /\ Preparing(l)
  /\ ~read[l].active
  /\ PrepareCancels(l, "cancelled")
  /\ CommitsOver(FALSE, ContactMoved(l))

PrepareNotRunning(l) ==
  /\ Preparing(l)
  /\ read[l].active
  /\ read[l].campaign \in {"paused", "canceled"}
  /\ PrepareCancels(l, Released(read[l].campaign))
  /\ CommitsOver(StatusMoved(l), ContactMoved(l))

(* invalid_contact_address: the tally is the one that was read plus one,   *)
(* and a campaign that was read running is completed if no contact is open *)
(* now.                                                                    *)
PrepareSkips(l) ==
  LET a == Job(l)
      c == ContactOf(a)
      r == read[l]
  IN /\ Preparing(l)
     /\ r.active
     /\ r.campaign = "running"
     /\ ~contact[c].valid
     /\ attempt' = [Begun(a) EXCEPT ![a].state = "failed"]
     /\ contact' = [contact EXCEPT
          ![c].status = Flushed(@, r.status, "skipped"),
          ![c].count = Flushed(@, r.count, IF r.count > Number(a) THEN r.count ELSE Number(a))]
     /\ campaign' = [campaign EXCEPT
          !.failed = r.failed + 1,
          !.status = IF Closed([campaign EXCEPT !.status = "running"], contact').status = "completed"
                     THEN "completed" ELSE @]
     /\ ReturnReceipt(l)
     /\ Forgets(l)
     /\ CommitsOver(StatusMoved(l) \/ campaign.failed # r.failed, ContactMoved(l))
     /\ UNCHANGED <<scope, asked>>

(* The campaign is not executable, or what it names cannot be loaded: the  *)
(* transaction rolls back.                                                 *)
PrepareFails(l) ==
  /\ Preparing(l)
  /\ read[l].active
  /\ \/ read[l].campaign = "completed" /\ Goto(l, "reject")
     \/ read[l].campaign = "running" /\ Trips(l, "reject")
  /\ Forgets(l)
  /\ UNCHANGED <<deliveryVars, outVars, campaignVars, saved, call, overtaken,
                 scope, asked, blind>>

Prepared(l) ==
  LET a == Job(l) IN
    /\ Preparing(l)
    /\ read[l].active /\ contact[ContactOf(a)].valid
    /\ read[l].campaign = "running"
    /\ attempt' = Begun(a)
    /\ Goto(l, "start")
    /\ Forgets(l)
    /\ UNCHANGED <<deliveryVars, outVars, campaign, contact, saved, call, overtaken,
                   scope, asked, blind>>

(* _start_effect: campaign, attempt and contact locked, the last look at   *)
(* whether the contact may be called.                                      *)
StartFenced(l) ==
  LET a == Job(l) IN
    /\ At(l, "start")
    /\ Free(a)
    /\ attempt[a].state \notin SettledAttempt
    /\ ~attempt[a].started
    /\ campaign.status # "running" \/ ~contact[ContactOf(a)].active
    /\ CancelAttempt(a)
    /\ contact' = WithStatus(a, IF campaign.status # "running" THEN Released(campaign.status) ELSE "cancelled")
    /\ ReturnReceipt(l)
    /\ UNCHANGED <<campaign, underway>>

MayStart(a) ==
  attempt[a].started \/ (campaign.status = "running" /\ contact[ContactOf(a)].active)

StartEffect(l) ==
  LET a == Job(l) IN
    /\ At(l, "start")
    /\ Free(a)
    /\ attempt[a].state \notin SettledAttempt
    /\ MayStart(a)
    /\ attempt' = [attempt EXCEPT ![a].started = TRUE]
    /\ Goto(l, "intent")
    /\ UNCHANGED <<deliveryVars, outVars, campaign, contact, saved, call, overtaken, underway>>

-----------------------------------------------------------------------------
(* The dispatch step: VoiceService.initiate_outbound_call *)

dispatchFrame == <<deliveryVars, campaignVars>>

(* Where the outcome of the step leads.                                    *)
Outcome(res) ==
  CASE res = "succeeded" -> "complete"
    [] res = "terminal"  -> "reject"
    [] OTHER             -> "unknown"

DispatchReplays(l) ==
  /\ At(l, "intent")
  /\ saved[Job(l)] # "none"
  /\ Goto(l, Outcome(saved[Job(l)]))
  /\ UNCHANGED <<dispatchFrame, outVars, saved, call, overtaken, underway>>

(* prepare_outbound_call commits the call's row, and its outbound row, if  *)
(* they are not there; then the send is authorized, or found to be doubtful*)
(* or done.  The rows are looked at by nobody before that transaction.     *)
DispatchAuthorized(l) ==
  LET a == Job(l) IN
    /\ At(l, "intent")
    /\ saved[a] = "none"
    /\ BeginSend(a)
    /\ call' = [call EXCEPT ![a] = "intent"]
    /\ Goto(l, "send")
    /\ UNCHANGED <<dispatchFrame, saved, overtaken, underway>>

DispatchRecovers(l) ==
  LET a == Job(l) IN
    /\ At(l, "intent")
    /\ saved[a] = "none"
    /\ RecoverSend(a)
    /\ GotoWith(l, "project", out'[a])
    /\ UNCHANGED <<dispatchFrame, saved, call, overtaken, underway>>

DispatchSends(l) ==
  \E answer \in Outcomes :
    /\ At(l, "send")
    /\ ProviderPerforms(Job(l), answer) \/ ProviderDeclines(Job(l), answer)
    /\ Step(l, "record", answer)
    /\ IF answer \in {"retryable", "unknown"} THEN Upset ELSE Smooth
    /\ UNCHANGED <<dispatchFrame, saved, call, overtaken, underway>>

DispatchRecords(l) ==
  LET a == Job(l) IN
    /\ At(l, "record")
    /\ RecordOutcome(a, lane[l].res)
    /\ GotoWith(l, IF out'[a] = "retryable" THEN "retry" ELSE "project", out'[a])
    /\ UNCHANGED <<dispatchFrame, saved, call, overtaken, underway>>

(* apply_outbound_call_outcome: an accepted call is bound to the carrier's *)
(* identity; a rejected one ends, and the fact of it is filed.             *)
DispatchProjects(l) ==
  LET a == Job(l)
      res == lane[l].res
  IN /\ At(l, "project")
     /\ call' = [call EXCEPT ![a] =
          CASE res = "succeeded" /\ @ = "intent" -> "bound"
            [] res = "terminal" -> "rejected"
            [] OTHER -> @]
     /\ delivery' = IF res = "terminal" THEN Filed(Ended(a)) ELSE delivery
     /\ GotoWith(l, "save", res)
     /\ UNCHANGED <<receipt, applied, campaignVars, outVars, saved, overtaken, underway>>

DispatchSaves(l) ==
  /\ At(l, "save")
  /\ lane[l].holds
  /\ saved' = [saved EXCEPT ![Job(l)] = lane[l].res]
  /\ Goto(l, Outcome(lane[l].res))
  /\ UNCHANGED <<dispatchFrame, outVars, call, overtaken, underway>>

(* The step raises: what it needs cannot be loaded, a statement fails, or  *)
(* its claim turns out to be lost.                                         *)
DispatchFails(l) ==
  /\ lane[l].pc \in DispatchSteps \ {"send"}
  /\ saved[Job(l)] = "none"
  /\ \/ Trips(l, "retry")
     \/ ~lane[l].holds /\ Goto(l, "retry")
  /\ UNCHANGED <<dispatchFrame, outVars, saved, call, overtaken, underway>>

-----------------------------------------------------------------------------
(* What the handler makes of the outcome *)

(* _complete_dispatch: succeed leaves a row that is not running alone; the *)
(* contact moves on unless it is settled.                                  *)
CompleteDispatch(l) ==
  LET a == Job(l)
      status == contact[ContactOf(a)].status
  IN /\ At(l, "complete")
     /\ Free(a)
     /\ attempt' = [attempt EXCEPT ![a].state = IF @ = "running" THEN "succeeded" ELSE @]
     /\ contact' = Tried(a, IF status \in SettledContact THEN status ELSE "in_progress")
     /\ campaign' = Closed(campaign, contact')
     /\ ReturnReceipt(l)
     /\ UNCHANGED underway

(* Both find a row settled by another attempt of the handler, and return.  *)
FailureFindsSettled(l) ==
  /\ lane[l].pc \in {"unknown", "reject", "retry"}
  /\ Free(Job(l))
  /\ attempt[Job(l)].state \in SettledAttempt
  /\ ReturnReceipt(l)
  /\ UNCHANGED <<campaignVars, underway>>

(* AbsurdBoundWorkService.fail raises from a row that is not running.      *)
FailureConflicts(l) ==
  /\ lane[l].pc \in {"unknown", "reject", "retry"}
  /\ Free(Job(l))
  /\ attempt[Job(l)].state = "pending"
  /\ Raises(l)
  /\ UNCHANGED <<deliveryVars, outVars, campaignVars, saved, call, overtaken, underway>>

Exhausted(l) == lane[l].pc \in {"unknown", "reject"} \/ attempt[Job(l)].attempts >= MaxTries

(* Mutant: the row is failed again when a handler and its successor both   *)
(* find the outcome.                                                       *)
FailAttemptAgain(l) ==
  LET a == Job(l) IN
    /\ lane[l].pc \in {"unknown", "reject", "retry"}
    /\ Exhausted(l)
    /\ Free(a)
    /\ attempt' = [attempt EXCEPT ![a].state = "failed"]
    /\ ProjectFailed(a, "failed")
    /\ ReturnReceipt(l)
    /\ UNCHANGED underway

(* _reject_attempt, _mark_dispatch_unknown and the last attempt of         *)
(* _retry_replay_safe_attempt                                              *)
FailAttempt(l) ==
  LET a == Job(l) IN
    /\ lane[l].pc \in {"unknown", "reject", "retry"}
    /\ attempt[a].state = "running"
    /\ Exhausted(l)
    /\ Free(a)
    /\ attempt' = [attempt EXCEPT ![a].state = "failed"]
    /\ ProjectFailed(a, "failed")
    /\ ReturnReceipt(l)
    /\ UNCHANGED underway

(* Mutant: a retry counts as an attempt before it begins.                  *)
RetryAttemptCounting(l) ==
  /\ At(l, "retry")
  /\ Free(Job(l))
  /\ attempt[Job(l)].state = "running"
  /\ ~Exhausted(l)
  /\ attempt' = [attempt EXCEPT ![Job(l)].state = "pending", ![Job(l)].attempts = @ + 1]
  /\ Raises(l)
  /\ UNCHANGED <<deliveryVars, outVars, campaign, contact, saved, call, overtaken, underway>>

RetryAttempt(l) ==
  /\ At(l, "retry")
  /\ Free(Job(l))
  /\ attempt[Job(l)].state = "running"
  /\ ~Exhausted(l)
  /\ attempt' = [attempt EXCEPT ![Job(l)].state = "pending"]
  /\ overtaken' = IF lane[l].holds THEN overtaken ELSE overtaken \union {Job(l)}
  /\ Raises(l)
  /\ UNCHANGED <<deliveryVars, outVars, campaign, contact, saved, call, underway>>

(* The heartbeat around the handler finds the claim lost and stops it; a   *)
(* send it interrupts is marked as unknown on the way out.                 *)
SendInterrupted(l) ==
  /\ At(l, "send") \/ At(l, "record")
  /\ ~lane[l].holds
  /\ out' = Recovered(Job(l))
  /\ Raises(l)
  /\ UNCHANGED <<reached, deliveryVars, campaignVars, saved, call, overtaken, underway>>

AttemptStopped(l) ==
  /\ lane[l].pc \in AttemptSteps \ {"send", "record"}
  /\ ~lane[l].holds
  /\ Raises(l)
  /\ Forgets(l)
  /\ UNCHANGED <<deliveryVars, outVars, campaignVars, saved, call, overtaken,
                 scope, asked, blind>>

-----------------------------------------------------------------------------
(* The carrier's callbacks *)

Ringing(a) == reached[a] > 0 /\ call[a] \notin EndedCall

(* reconcile_outbound_call_acceptance: the outbound row, then the call.    *)
CallbackReconciles(a) ==
  /\ Ringing(a)
  /\ Reconcile(a)
  /\ UNCHANGED <<pool, deliveryVars, campaignVars, saved, call, overtaken, underway>>

CallbackBinds(a) ==
  /\ Ringing(a)
  /\ call[a] = "intent"
  /\ out[a] \notin {"in_flight", "unknown"}
  /\ call' = [call EXCEPT ![a] = "bound"]
  /\ UNCHANGED <<pool, deliveryVars, campaignVars, outVars, saved, overtaken, underway>>

(* record_call_status: the terminal status and its fact, in one            *)
(* transaction; the call's identity must be bound by then.                 *)
CallEnds(a) ==
  \E end \in {"connected", "missed"} :
    /\ Ringing(a)
    /\ call[a] = "bound"
    /\ call' = [call EXCEPT ![a] = end]
    /\ delivery' = Filed(Ended(a))
    /\ UNCHANGED <<pool, receipt, applied, campaignVars, outVars, saved, overtaken, underway>>

(* apply_campaign_outreach_outcome, as the consumer of the fact that the   *)
(* call of attempt a ended.                                                *)
ApplyOutcome(a) ==
  LET settled == contact[ContactOf(a)].status \in SettledContact
      connected == call[a] = "connected"
      again == campaign.status = "running" /\ Number(a) < MaxNumber
  IN /\ attempt' = [attempt EXCEPT ![a].outcome = TRUE]
     /\ overtaken' = IF task[a].state \notin Over \/ \E l \in Lanes : Job(l) = a
                      THEN overtaken \union {a} ELSE overtaken
     /\ IF attempt[a].outcome \/ settled
        THEN UNCHANGED <<campaign, contact>>
        ELSE /\ contact' = Tried(a, IF connected THEN "completed"
                                    ELSE IF again THEN "retry" ELSE "failed")
             /\ campaign' = Closed(
                  IF connected THEN [campaign EXCEPT !.completed = @ + 1]
                  ELSE IF again THEN campaign ELSE [campaign EXCEPT !.failed = @ + 1],
                  contact')

ConsumeOutcome(l) ==
  \E a \in Attempts :
    /\ Job(l) = Ended(a)
    /\ Free(a)
    /\ Consume(l)
    /\ ApplyOutcome(a)
    /\ UNCHANGED <<outVars, saved, call, underway>>

-----------------------------------------------------------------------------
(* Operators, and the contact's deletion *)

(* _fence_unstarted_attempts: filed work is cancelled, running work is not.*)
Fence(status) ==
  LET fenced == {a \in Attempts : attempt[a].state = "pending"}
      freed  == {ContactOf(a) : a \in fenced}
  IN /\ \A a \in fenced : Free(a)
     /\ attempt' = [a \in Attempts |->
          IF a \in fenced THEN [attempt[a] EXCEPT !.state = "cancelled"] ELSE attempt[a]]
     /\ contact' = [c \in Contacts |->
          IF c \in freed /\ contact[c].status = "queued"
          THEN [contact[c] EXCEPT !.status = status] ELSE contact[c]]

controlFrame == <<task, lane, deliveryVars, outVars, saved, call, overtaken, read>>

(* pause and cancel: transition reads the campaign without a lock, and     *)
(* finds that it may be paused, or cancelled ...                           *)
Ask ==
  /\ asked = "none"
  /\ asked' \in {"paused", "canceled"}
  /\ campaign.status \in (IF asked' = "paused" THEN {"running"} ELSE {"running", "paused"})
  /\ Upset
  /\ UNCHANGED <<campaignVars, scope, blind, controlFrame>>

(* ... and writes the status whatever it is by then.                       *)
Transition ==
  /\ asked # "none"
  /\ campaign' = [campaign EXCEPT !.status = asked]
  /\ Fence(IF asked = "paused" THEN "pending" ELSE "cancelled")
  /\ asked' = "none"
  /\ CommitsOver(campaign.status \notin (IF asked = "paused" THEN {"running"} ELSE {"running", "paused"}), FALSE)
  /\ Smooth
  /\ UNCHANGED <<scope, controlFrame>>

Resume ==
  /\ campaign.status = "paused"
  /\ campaign' = [campaign EXCEPT !.status = "running"]
  /\ Smooth
  /\ UNCHANGED <<contact, attempt, scope, asked, blind, controlFrame>>

(* revoke_revision for the campaign's own revision, under the row's lock:  *)
(* it takes a completed campaign back as well.                             *)
Revoke ==
  /\ campaign.status # "canceled"
  /\ campaign' = [campaign EXCEPT !.status = "canceled"]
  /\ Fence("cancelled")
  /\ Upset
  /\ UNCHANGED <<scope, asked, blind, controlFrame>>

RequestDeletion(c) ==
  /\ contact[c].active
  /\ contact' = [contact EXCEPT ![c].active = FALSE]
  /\ Upset
  /\ UNCHANGED <<campaign, attempt, scope, asked, blind, controlFrame>>

FiledFor(c)  == {a \in Attempts : ContactOf(a) = c /\ attempt[a].state # "none"}
Unstarted(c) == {a \in FiledFor(c) : attempt[a].state \notin SettledAttempt /\ ~attempt[a].started}

(* _quiesce_contact_work loads the attempts and the contact, then locks    *)
(* them in the session that holds them already ...                         *)
QuiesceReads(c) ==
  /\ ~contact[c].active
  /\ scope[c] = NoScope
  /\ Unstarted(c) # {}
  /\ scope' = [scope EXCEPT ![c] =
       [filed |-> FiledFor(c), unstarted |-> Unstarted(c), status |-> contact[c].status]]
  /\ Smooth
  /\ UNCHANGED <<campaignVars, asked, blind, controlFrame>>

(* ... and cancels those it has loaded without an effect; an attempt that  *)
(* was filed in between makes it start again.                              *)
QuiesceContact(c) ==
  LET seen == scope[c] IN
    /\ seen # NoScope
    /\ \A a \in seen.filed : Free(a)
    /\ scope' = [scope EXCEPT ![c] = NoScope]
    /\ IF FiledFor(c) # seen.filed
       THEN UNCHANGED <<attempt, contact, blind>>
       ELSE /\ attempt' = [a \in Attempts |->
                 IF a \in seen.unstarted THEN [attempt[a] EXCEPT !.state = "cancelled"] ELSE attempt[a]]
            /\ contact' = [contact EXCEPT ![c].status = Flushed(@, seen.status, "cancelled")]
            /\ CommitsOver(FALSE, contact[c].status # seen.status)
    /\ Smooth
    /\ UNCHANGED <<campaign, asked, controlFrame>>

-----------------------------------------------------------------------------
campaignFrame == <<outVars, campaignVars, saved, call, overtaken, underway>>

DeliveryStep(l) ==
  \/ ConsumeOutcome(l)
  \/ /\ \/ BeginSettledDelivery(l) \/ BeginUnboundDelivery(l) \/ BeginDelivery(l)
        \/ ConsumeAgain(l) \/ ConsumeConflicts(l) \/ ConsumeFails(l) \/ ConsumeRejects(l)
        \/ RecordFailure(l) \/ DeliveryStopped(l)
     /\ UNCHANGED campaignFrame

AttemptStep(l) ==
  \/ FindSettled(l) \/ PrepareReads(l) \/ PrepareContactGone(l) \/ PrepareNotRunning(l)
  \/ PrepareSkips(l) \/ PrepareFails(l) \/ Prepared(l)
  \/ StartFenced(l) \/ StartEffect(l)
  \/ DispatchReplays(l) \/ DispatchAuthorized(l)
  \/ DispatchRecovers(l) \/ DispatchSends(l) \/ DispatchRecords(l)
  \/ DispatchProjects(l) \/ DispatchSaves(l) \/ DispatchFails(l)
  \/ CompleteDispatch(l) \/ FailureFindsSettled(l) \/ FailureConflicts(l)
  \/ FailAttempt(l) \/ RetryAttempt(l) \/ SendInterrupted(l) \/ AttemptStopped(l)

LaneDies(l) ==
  /\ Dies(l)
  /\ Forgets(l)
  /\ UNCHANGED <<deliveryVars, outVars, campaignVars, saved, call, overtaken,
                 scope, asked, blind>>

ClaimExpires(t) == ClaimRunsOut(t) /\ UNCHANGED <<deliveryVars, campaignFrame>>

Nudge(d) == (SpawnDelivery(d) \/ BindDelivery(d)) /\ UNCHANGED campaignFrame

ClaimSome(l) ==
  \/ \E a \in Attempts : ClaimAttempt(l, a)
  \/ \E d \in Deliveries : ClaimDelivery(l, d) /\ UNCHANGED campaignFrame

Carrier(a) == CallbackReconciles(a) \/ CallbackBinds(a) \/ CallEnds(a)

Next ==
  \/ FileDueAttempts \/ FindNothingDue
  \/ \E l \in Lanes : ClaimSome(l) \/ AttemptStep(l) \/ DeliveryStep(l) \/ LaneDies(l)
  \/ \E t \in Tasks : ClaimExpires(t)
  \/ \E d \in Deliveries : Nudge(d)
  \/ \E a \in Attempts : Carrier(a)
  \/ Ask \/ Transition \/ Resume \/ Revoke
  \/ \E c \in Contacts : RequestDeletion(c) \/ QuiesceReads(c) \/ QuiesceContact(c)

Spec == Init /\ [][Next]_vars

-----------------------------------------------------------------------------
(* Properties *)

(* A campaign is never reported completed with a contact left to call,     *)
(* whatever order callbacks, handlers, sweeps and operators come in: unless*)
(* a transaction has gone by a campaign row that had moved since it read   *)
(* it, as _prepare_attempt can, which reads the row without a lock.        *)
CompletedIsSettled ==
  "campaign" \notin blind /\ campaign.status = "completed" =>
    \A c \in Contacts : contact[c].status \in SettledContact

(* The tallies of the campaign are those of its contacts, as long as no    *)
(* outcome came in before the handler that placed the call was over, no    *)
(* try that had lost its claim put the row back that its successor holds,  *)
(* and no erasure wrote over a contact that had moved.  Skips that overlap *)
(* may lose failures, for each adds one to the tally it has read; they     *)
(* never add one, and without them none is lost.                           *)
TalliesMatchContacts ==
  overtaken = {} /\ "contact" \notin blind =>
    /\ campaign.completed = Cardinality(ContactsIn({"completed"}))
    /\ campaign.failed <= Cardinality(ContactsIn({"failed", "skipped"}))
    /\ blind = {} => campaign.failed = Cardinality(ContactsIn({"failed", "skipped"}))

(* Nobody is called for whom the campaign has recorded a connected call,   *)
(* as long as overtaken is empty.                                         *)
ReachedAlready(c) ==
  \E a \in Attempts : ContactOf(a) = c /\ attempt[a].outcome /\ call[a] = "connected"

NobodyIsCalledAgain ==
  [][\A a \in Attempts :
       reached'[a] # reached[a] /\ overtaken = {} => ~ReachedAlready(ContactOf(a))]_vars

(* Everything that was to happen has happened: no task runs or waits, every*)
(* delivery has its task, every call has ended, and a sweep changes        *)
(* nothing.                                                                *)
Quiet ==
  /\ \A l \in Lanes : At(l, "idle")
  /\ \A t \in Tasks : task[t].state \in {"none"} \union Over
  /\ \A d \in Deliveries : delivery[d].state = "pending" => delivery[d].bound
  /\ \A a \in Attempts : ~Ringing(a)
  /\ Closed(campaign, contact) = campaign
  /\ Slots > 0 => \A c \in DueContacts : ~Fileable(NextAttempt(c))

(* The three ways to leave a contact behind: the number of its next attempt*)
(* belongs to an attempt an operator cancelled, the last try of an attempt *)
(* died with its lane, or the fact of its call's end was not consumed.     *)
LeftBehind(c) ==
  \/ c \in DueContacts /\ NextAttempt(c) \in Attempts /\ ~Fileable(NextAttempt(c))
  \/ \E a \in Attempts :
       /\ ContactOf(a) = c
       /\ \/ attempt[a].state \in {"pending", "running"}
          \/ delivery[Ended(a)].state \notin {"none", "succeeded"}

(* A running campaign does not come to rest over a contact it could still  *)
(* call: it completes, or a contact is left behind for one of the reasons  *)
(* above.                                                                  *)
RestsOnlyWhenDone ==
  Quiet /\ campaign.status = "running" /\ overtaken = {} =>
    \E c \in ContactsIn(OpenContact) : LeftBehind(c)

(* The durable events keep their contract with the campaign.               *)
DeliveriesKeepContract == Contract!Spec
=============================================================================
