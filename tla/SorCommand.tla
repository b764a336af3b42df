----------------------------- MODULE SorCommand -----------------------------
(***************************************************************************)
(* A command an Agent run sends to a system of record (sor/runtime): the   *)
(* command is committed before it is spawned, its handler performs the     *)
(* vendor's write as a durable step, records that it did, reads the record *)
(* back and commits its projection together with the receipt, while the    *)
(* source, the Agent's grant and the run may lose their authority at any   *)
(* time, which cancels the command.  The run waits for the receipt.        *)
(*                                                                         *)
(* A command is identified with its task; each is filed by a run of its    *)
(* own, and all go to one source.                                          *)
(***************************************************************************)
EXTENDS AbsurdPool

CONSTANT Commands

ASSUME CommandsAssumption == Commands = Tasks

VARIABLES
  cmd,        \* the command rows
  kind,       \* what each command does: create, update, or update the record
              \* at the version the Agent has read
  agent,      \* where the run that files the command stands
  told,       \* the receipt it was given
  source,     \* the source: open to commands, closed for its setup, fenced
  grant,      \* the Agent's grant on the source is live
  spawning,   \* commands a spawner has read as unbound
  revoked,    \* commands a revocation has still to cancel
  notices,    \* what cancellations have still to do, as <<command, step>>
  woken,      \* commands whose terminal event was emitted
  unsaid,     \* history: commands whose cancellation did not get to emit it
  written,    \* commands whose vendor-write step is checkpointed
  wrote,      \* how often the vendor has performed each command, at most two
  moved,      \* commands whose target is not at the version they expect
  projected,  \* commands whose projection is committed
  doubt       \* history: commands of which a try lost its claim, or the
              \* vendor's answer, between sending the write and saving it

rowVars    == <<cmd, projected>>
runVars    == <<agent, told>>
authority  == <<source, grant>>
effectVars == <<written, wrote, moved, doubt>>
stopVars   == <<spawning, revoked, notices, woken, unsaid>>
vars       == <<pool, rowVars, kind, runVars, authority, stopVars, effectVars>>

Outcomes == {"succeeded", "failed", "conflict", "cancelled"}
Active   == {"pending", "running"}

CommandRow ==
  [state : {"none"} \union Active \union Outcomes, bound : BOOLEAN,
   attempts : 0..MaxTries, applied : BOOLEAN]

CommandSteps ==
  {"begin", "claim", "check", "write", "save", "record", "fetch", "project",
   "conflicting", "failing", "rejecting", "emit"}

TypeOK ==
  /\ task \in [Tasks -> TaskRow]
  /\ upsets \in 0..MaxUpsets
  /\ lane \in [Lanes -> LaneRow({"idle"} \union CommandSteps, {"none"})]
  /\ cmd \in [Commands -> CommandRow]
  /\ kind \in [Commands -> {"create", "update", "versioned"}]
  /\ agent \in [Commands -> {"idle", "reading", "pausing", "waiting", "told", "gone"}]
  /\ told \in [Commands -> {"none"} \union Outcomes]
  /\ source \in {"open", "closed", "fenced"}
  /\ grant \in BOOLEAN
  /\ \A s \in {spawning, revoked, woken, unsaid, written, moved, projected, doubt} :
       s \subseteq Commands
  /\ notices \subseteq Commands \X {"emit", "stop"}
  /\ wrote \in [Commands -> 0..2]

Init ==
  /\ PoolInit
  /\ cmd = [c \in Commands |->
       [state |-> "none", bound |-> FALSE, attempts |-> 0, applied |-> FALSE]]
  /\ kind \in [Commands -> {"create", "update", "versioned"}]
  /\ agent = [c \in Commands |-> "idle"]
  /\ told = [c \in Commands |-> "none"]
  /\ source = "open"
  /\ grant = TRUE
  /\ wrote = [c \in Commands |-> 0]
  /\ spawning = {} /\ revoked = {} /\ notices = {} /\ woken = {} /\ unsaid = {}
  /\ written = {} /\ moved = {} /\ projected = {} /\ doubt = {}

SetState(c, state) == cmd' = [cmd EXCEPT ![c].state = state]

-----------------------------------------------------------------------------
(* The Agent's run: execute_sor_mutation_tool *)

runFrame == <<pool, projected, kind, authority, stopVars, effectVars>>

AgentFiles(c) ==
  /\ agent[c] = "idle"
  /\ source = "open" /\ grant
  /\ SetState(c, "pending")
  /\ agent' = [agent EXCEPT ![c] = "reading"]
  /\ UNCHANGED <<told, runFrame>>

Tell(c) ==
  /\ told' = [told EXCEPT ![c] = cmd[c].state]
  /\ agent' = [agent EXCEPT ![c] = "told"]

AgentReads(c) ==
  /\ agent[c] = "reading"
  /\ IF cmd[c].state \in Outcomes
     THEN Tell(c)
     ELSE agent' = [agent EXCEPT ![c] = "pausing"] /\ told' = told
  /\ UNCHANGED <<cmd, runFrame>>

(* From here on the run is WAITING_FOR_TOOL, and awaits the event.         *)
AgentPauses(c) ==
  /\ agent[c] = "pausing"
  /\ agent' = [agent EXCEPT ![c] = "waiting"]
  /\ UNCHANGED <<told, cmd, runFrame>>

AgentWakes(c) ==
  /\ agent[c] = "waiting"
  /\ c \in woken
  /\ Tell(c)
  /\ UNCHANGED <<cmd, runFrame>>

(* The run is cancelled, or fails over its budget.                         *)
AgentGoes(c) ==
  /\ agent[c] \in {"reading", "pausing", "waiting"}
  /\ agent' = [agent EXCEPT ![c] = "gone"]
  /\ Upset
  /\ UNCHANGED <<told, cmd, projected, task, lane, kind, authority, stopVars, effectVars>>

-----------------------------------------------------------------------------
(* spawn_sor_bound_work, of the filer or of the sweep of unbound rows *)

spawnFrame == <<projected, kind, runVars, authority, revoked, notices, woken, unsaid, effectVars>>

SpawnReads(c) ==
  /\ c \notin spawning
  /\ cmd[c].state = "pending"
  /\ ~cmd[c].bound
  /\ source = "open"
  /\ spawning' = spawning \union {c}
  /\ UNCHANGED <<cmd, pool, spawnFrame>>

SpawnTask(c) ==
  /\ c \in spawning
  /\ task[c].state = "none"
  /\ task' = Spawned(c)
  /\ UNCHANGED <<cmd, lane, upsets, spawning, spawnFrame>>

(* bind_task; a row that was cancelled meanwhile has its task cancelled,   *)
(* unless the spawner dies first.                                          *)
SpawnBinds(c) ==
  /\ c \in spawning
  /\ task[c].state # "none"
  /\ cmd' = [cmd EXCEPT ![c].bound = TRUE]
  /\ spawning' = spawning \ {c}
  /\ IF cmd[c].state = "cancelled"
     THEN CancelTask(c) \/ (Upset /\ UNCHANGED <<task, lane>>)
     ELSE UNCHANGED pool
  /\ UNCHANGED spawnFrame

-----------------------------------------------------------------------------
(* SorCommandWorkflow *)

handlerFrame == <<kind, runVars, authority, spawning, revoked, notices, unsaid>>
stepFrame    == <<rowVars, effectVars, woken, handlerFrame>>

ClaimCommand(l, c) == Claim(l, c, "begin") /\ UNCHANGED stepFrame

(* Mutant: a settled command has nothing left to do.                       *)
BeginSettledSilently(l) ==
  /\ At(l, "begin")
  /\ cmd[Job(l)].state \in Outcomes
  /\ Returns(l)
  /\ UNCHANGED stepFrame

BeginSettled(l) ==
  /\ At(l, "begin")
  /\ cmd[Job(l)].state \in Outcomes
  /\ Goto(l, "emit")
  /\ UNCHANGED stepFrame

(* SorWorkBindingPending                                                   *)
BeginUnbound(l) ==
  /\ At(l, "begin")
  /\ cmd[Job(l)].state \in Active
  /\ ~cmd[Job(l)].bound
  /\ GivesBack(l) /\ Upset
  /\ UNCHANGED stepFrame

Begin(l) ==
  LET c == Job(l) IN
    /\ At(l, "begin")
    /\ cmd[c].state \in Active
    /\ cmd[c].bound
    /\ cmd' = [cmd EXCEPT ![c].state = "running", ![c].attempts = @ + 1]
    /\ Goto(l, "claim")
    /\ UNCHANGED <<projected, effectVars, woken, handlerFrame>>

(* The authority of _load_claim and _project_and_complete: the source, the *)
(* grant, and the run, which executes or waits for this command.           *)
Live(c) == source = "open" /\ grant /\ agent[c] \in {"reading", "pausing", "waiting"}

(* SorCommandAuthorizationError                                            *)
Refused(l) ==
  /\ lane[l].pc \in {"claim", "check", "fetch", "project"}
  /\ ~Live(Job(l))
  /\ Goto(l, "rejecting")
  /\ UNCHANGED stepFrame

LoadClaim(l) ==
  /\ At(l, "claim")
  /\ Live(Job(l))
  /\ Goto(l, IF cmd[Job(l)].applied THEN "fetch" ELSE "check")
  /\ UNCHANGED stepFrame

(* The authority is loaded again, the target is read and compared.         *)
CheckTarget(l) ==
  LET c == Job(l) IN
    /\ At(l, "check")
    /\ Live(c)
    /\ Goto(l, IF kind[c] = "versioned" /\ c \in moved THEN "conflicting" ELSE "write")
    /\ UNCHANGED stepFrame

(* The step vendor-write:v1 was checkpointed by an earlier try.            *)
WriteReplayed(l) ==
  /\ At(l, "write")
  /\ Job(l) \in written
  /\ Goto(l, "record")
  /\ UNCHANGED stepFrame

(* Mutant: the step is not the same step in the next try.                  *)
VendorWritesAgain(l) ==
  LET c == Job(l) IN
    /\ At(l, "write")
    /\ wrote' = [wrote EXCEPT ![c] = IF @ < 2 THEN @ + 1 ELSE @]
    /\ moved' = moved \union {c}
    /\ Goto(l, "save")
    /\ doubt' = IF lane[l].holds THEN doubt ELSE doubt \union {c}
    /\ UNCHANGED <<written, rowVars, woken, handlerFrame>>

(* The vendor performs the command, and the answer arrives or not: then a  *)
(* create is not repeated (VENDOR_MUTATION_OUTCOME_UNKNOWN), an update is. *)
VendorWrites(l) ==
  LET c == Job(l) IN
    /\ At(l, "write")
    /\ c \notin written
    /\ wrote' = [wrote EXCEPT ![c] = IF @ < 2 THEN @ + 1 ELSE @]
    /\ moved' = moved \union {c}
    /\ \/ Goto(l, "save") /\ doubt' = IF lane[l].holds THEN doubt ELSE doubt \union {c}
       \/ /\ Trips(l, IF kind[c] = "create" THEN "rejecting" ELSE "failing")
          /\ doubt' = doubt \union {c}
    /\ UNCHANGED <<written, rowVars, woken, handlerFrame>>

(* The vendor declines it, for good or for now.                            *)
VendorDeclines(l) ==
  /\ At(l, "write")
  /\ Job(l) \notin written
  /\ Trips(l, "rejecting") \/ Trips(l, "failing")
  /\ UNCHANGED stepFrame

SaveWrite(l) ==
  /\ At(l, "save")
  /\ lane[l].holds
  /\ written' = written \union {Job(l)}
  /\ Goto(l, "record")
  /\ UNCHANGED <<wrote, moved, doubt, rowVars, woken, handlerFrame>>

(* _checkpoint_mutation *)
RecordWrite(l) ==
  LET c == Job(l) IN
    /\ At(l, "record")
    /\ cmd[c].state = "running"
    /\ cmd' = [cmd EXCEPT ![c].applied = TRUE]
    /\ Goto(l, "fetch")
    /\ UNCHANGED <<projected, effectVars, woken, handlerFrame>>

(* SorConflictError                                                        *)
NoLongerRunning(l) ==
  /\ lane[l].pc \in {"record", "project"}
  /\ cmd[Job(l)].state # "running"
  /\ Goto(l, "rejecting")
  /\ UNCHANGED stepFrame

(* The authority is loaded again and the written record is read back.      *)
FetchRecord(l) ==
  /\ At(l, "fetch")
  /\ Live(Job(l))
  /\ Goto(l, "project")
  /\ UNCHANGED stepFrame

(* Mutant: the row is not looked at again before its result is committed.  *)
ProjectRegardless(l) ==
  LET c == Job(l) IN
    /\ At(l, "project")
    /\ Live(c)
    /\ SetState(c, "succeeded")
    /\ projected' = projected \union {c}
    /\ Goto(l, "emit")
    /\ UNCHANGED <<effectVars, woken, handlerFrame>>

(* _project_and_complete: projection, receipt and the action event.        *)
Project(l) ==
  LET c == Job(l) IN
    /\ At(l, "project")
    /\ cmd[c].state = "running"
    /\ Live(c)
    /\ SetState(c, "succeeded")
    /\ projected' = projected \union {c}
    /\ Goto(l, "emit")
    /\ UNCHANGED <<effectVars, woken, handlerFrame>>

(* A statement, a vendor read or a projection raises.                      *)
StepRaises(l) ==
  /\ lane[l].pc \in {"claim", "check", "record", "fetch", "project"}
  /\ Trips(l, "failing") \/ Trips(l, "rejecting")
  /\ UNCHANGED stepFrame

(* The engine raises from a step of a handler that has lost its claim.     *)
EngineRaises(l) ==
  /\ lane[l].pc \in {"check", "write", "save", "fetch"}
  /\ ~lane[l].holds
  /\ Goto(l, "failing")
  /\ UNCHANGED stepFrame

-----------------------------------------------------------------------------
(* _handle_failure *)

Failing == {"conflicting", "failing", "rejecting"}

FailureFindsSettled(l) ==
  /\ lane[l].pc \in Failing
  /\ cmd[Job(l)].state \in Outcomes
  /\ Goto(l, "emit")
  /\ UNCHANGED stepFrame

(* SorWorkConflict from a row that is not running, SorConflictError for a  *)
(* conflict after the write: both leave the handler.                       *)
FailureRaises(l) ==
  /\ lane[l].pc \in Failing
  /\ \/ cmd[Job(l)].state = "pending"
     \/ At(l, "conflicting") /\ cmd[Job(l)].state = "running" /\ cmd[Job(l)].applied
  /\ Raises(l)
  /\ UNCHANGED stepFrame

Conflict(l) ==
  /\ At(l, "conflicting")
  /\ cmd[Job(l)].state = "running"
  /\ ~cmd[Job(l)].applied
  /\ SetState(Job(l), "conflict")
  /\ Goto(l, "emit")
  /\ UNCHANGED <<projected, effectVars, woken, handlerFrame>>

Fail(l) ==
  /\ At(l, "rejecting") \/ (At(l, "failing") /\ cmd[Job(l)].attempts >= MaxTries)
  /\ cmd[Job(l)].state = "running"
  /\ SetState(Job(l), "failed")
  /\ Goto(l, "emit")
  /\ UNCHANGED <<projected, effectVars, woken, handlerFrame>>

(* Mutant: a retry counts as an attempt before it begins.                  *)
RetryCounting(l) ==
  /\ At(l, "failing")
  /\ cmd[Job(l)].state = "running"
  /\ cmd[Job(l)].attempts < MaxTries
  /\ cmd' = [cmd EXCEPT ![Job(l)].state = "pending", ![Job(l)].attempts = @ + 1]
  /\ Raises(l)
  /\ UNCHANGED <<projected, effectVars, woken, handlerFrame>>

Retry(l) ==
  /\ At(l, "failing")
  /\ cmd[Job(l)].state = "running"
  /\ cmd[Job(l)].attempts < MaxTries
  /\ SetState(Job(l), "pending")
  /\ Raises(l)
  /\ UNCHANGED <<projected, effectVars, woken, handlerFrame>>

(* The terminal event, whose emission may fail, and the end of the handler.*)
EmitTerminal(l) ==
  /\ At(l, "emit")
  /\ \/ woken' = woken \union {Job(l)} /\ Returns(l)
     \/ woken' = woken /\ GivesBack(l) /\ Upset
  /\ UNCHANGED <<rowVars, effectVars, handlerFrame>>

(* The heartbeat around the handler stops one that has lost its claim.     *)
HandlerStopped(l) ==
  /\ lane[l].pc \in CommandSteps
  /\ ~lane[l].holds
  /\ Raises(l)
  /\ UNCHANGED stepFrame

(* A try that is cut off while its write is sent and not saved.            *)
InDoubt(cut) == doubt \union {Job(l) : l \in {k \in cut : lane[k].pc \in {"write", "save"}}}

LaneDies(l) ==
  /\ Dies(l)
  /\ doubt' = InDoubt({l})
  /\ UNCHANGED <<written, wrote, moved, rowVars, woken, handlerFrame>>

ClaimExpires(c) ==
  /\ ClaimRunsOut(c)
  /\ doubt' = InDoubt({l \in Lanes : Job(l) = c})
  /\ UNCHANGED <<written, wrote, moved, rowVars, woken, handlerFrame>>

-----------------------------------------------------------------------------
(* Revocation and cancellation *)

controlFrame == <<task, lane, rowVars, kind, runVars, spawning, notices, woken, unsaid, effectVars>>

ActiveCommands == {c \in Commands : cmd[c].state \in Active}

(* revoke_agent_sor_source; the commands to cancel are read afterwards.    *)
RevokeGrant ==
  /\ grant
  /\ grant' = FALSE
  /\ revoked' = revoked \union ActiveCommands
  /\ Upset
  /\ UNCHANGED <<source, controlFrame>>

(* prepare_sor_connection_revocation, or the deletion of the source: the   *)
(* transaction that fences it captures what is to be cancelled.            *)
FenceSource ==
  /\ source # "fenced"
  /\ source' = "fenced"
  /\ revoked' = revoked \union ActiveCommands
  /\ Upset
  /\ UNCHANGED <<grant, controlFrame>>

(* The source is verified, set up or bootstrapped again, and reopens.      *)
SourceSetup ==
  /\ \/ source = "open" /\ source' = "closed" /\ Upset
     \/ source \in {"closed", "fenced"} /\ source' = "open" /\ Smooth
  /\ UNCHANGED <<grant, revoked, controlFrame>>

(* cancel_sor_command, of the revocation or of recover_fenced_sor_work.    *)
CancelCommand(c) ==
  /\ c \in revoked \/ (source = "fenced" /\ cmd[c].state \in Active)
  /\ revoked' = revoked \ {c}
  /\ IF cmd[c].state \in Active
     THEN /\ SetState(c, IF cmd[c].state = "pending" /\ ~cmd[c].applied
                         THEN "cancelled" ELSE "failed")
          /\ notices' = notices \union {<<c, "emit">>}
                                \union (IF cmd[c].bound THEN {<<c, "stop">>} ELSE {})
     ELSE UNCHANGED <<cmd, notices>>
  /\ UNCHANGED <<pool, projected, kind, runVars, authority, spawning, woken, unsaid, effectVars>>

noticeFrame == <<rowVars, kind, runVars, authority, spawning, revoked>>

(* _notify_command_cancellation: both parts are attempted, in this order.  *)
NotifyEmits(c) ==
  /\ <<c, "emit">> \in notices
  /\ notices' = notices \ {<<c, "emit">>}
  /\ \/ woken' = woken \union {c} /\ unsaid' = unsaid /\ Smooth
     \/ woken' = woken /\ unsaid' = unsaid \union {c} /\ Upset
  /\ UNCHANGED <<task, lane, effectVars, noticeFrame>>

NotifyStops(c) ==
  /\ <<c, "stop">> \in notices
  /\ <<c, "emit">> \notin notices
  /\ notices' = notices \ {<<c, "stop">>}
  /\ CancelTask(c)
  /\ doubt' = InDoubt({l \in Lanes : Job(l) = c})
  /\ UNCHANGED <<written, wrote, moved, woken, unsaid, noticeFrame>>

(* The process that revokes dies.                                          *)
RevokerDies ==
  /\ revoked # {} \/ notices # {}
  /\ unsaid' = unsaid \union {c \in Commands : <<c, "emit">> \in notices}
  /\ revoked' = {} /\ notices' = {}
  /\ Upset
  /\ UNCHANGED <<task, lane, rowVars, kind, runVars, authority, spawning, woken, effectVars>>

(* Somebody else changes the record a command is to update.                *)
TargetMoves(c) ==
  /\ kind[c] = "versioned"
  /\ c \notin moved
  /\ moved' = moved \union {c}
  /\ Upset
  /\ UNCHANGED <<task, lane, written, wrote, doubt, rowVars, kind, runVars, authority, stopVars>>

-----------------------------------------------------------------------------
AgentStep(c) == AgentFiles(c) \/ AgentReads(c) \/ AgentPauses(c) \/ AgentWakes(c)

Spawner(c) == SpawnReads(c) \/ SpawnTask(c) \/ SpawnBinds(c)

Handler(l) ==
  \/ BeginSettled(l) \/ BeginUnbound(l) \/ Begin(l) \/ Refused(l) \/ LoadClaim(l)
  \/ CheckTarget(l) \/ WriteReplayed(l) \/ VendorWrites(l) \/ VendorDeclines(l)
  \/ SaveWrite(l) \/ RecordWrite(l) \/ NoLongerRunning(l) \/ FetchRecord(l)
  \/ Project(l) \/ StepRaises(l) \/ EngineRaises(l)
  \/ FailureFindsSettled(l) \/ FailureRaises(l) \/ Conflict(l) \/ Fail(l) \/ Retry(l)
  \/ EmitTerminal(l) \/ HandlerStopped(l)

Worker(l) == Handler(l) \/ \E c \in Commands : ClaimCommand(l, c)

Canceller(c) == CancelCommand(c) \/ NotifyEmits(c) \/ NotifyStops(c)

Next ==
  \/ \E c \in Commands :
       AgentStep(c) \/ AgentGoes(c) \/ Spawner(c) \/ ClaimExpires(c) \/ Canceller(c) \/ TargetMoves(c)
  \/ \E l \in Lanes : Worker(l) \/ LaneDies(l)
  \/ RevokeGrant \/ FenceSource \/ SourceSetup \/ RevokerDies

(* Runs, sweeps and workers go on, the engine takes a claim back that is   *)
(* held by nobody.  Nothing obliges an operator to open a source again.    *)
Fairness ==
  /\ \A c \in Commands :
       /\ WF_vars(AgentReads(c) \/ AgentPauses(c) \/ AgentWakes(c))
       /\ WF_vars(Spawner(c))
       /\ WF_vars(Canceller(c))
       /\ WF_vars(ClaimExpires(c) /\ \A l \in Lanes : Job(l) # c \/ ~lane[l].holds)
  /\ \A l \in Lanes : WF_vars(Worker(l))

Spec == Init /\ [][Next]_vars /\ Fairness

-----------------------------------------------------------------------------
(* Properties *)

(* What a receipt says of the vendor's record.  A success was performed    *)
(* and recorded; a command that was cancelled before its first attempt, or *)
(* that met a changed target on it, was never performed; and a command is  *)
(* performed twice only if an earlier try was cut off while sending, or    *)
(* went without an answer.                                                 *)
ReceiptTellsTheTruth ==
  \A c \in Commands :
    /\ cmd[c].state = "succeeded" => cmd[c].applied
    /\ cmd[c].applied => wrote[c] > 0
    /\ cmd[c].state = "cancelled" /\ cmd[c].attempts = 0 => wrote[c] = 0
    /\ cmd[c].state = "conflict" /\ cmd[c].attempts = 1 => wrote[c] = 0
    /\ wrote[c] > 1 => c \in doubt

Receipt(c) ==
  CASE cmd[c].state = "none" -> "unfiled"
    [] cmd[c].state \in Active -> "open"
    [] OTHER -> cmd[c].state

Contract == INSTANCE SorCommandContract WITH receipt <- [c \in Commands |-> Receipt(c)]

(* Receipts are settled once, projected exactly with success, and the Agent*)
(* is told what they finally say.                                          *)
ReceiptsKeepContract == Contract!Spec

(* A run that waits for its command is woken, unless the last try of the   *)
(* command was cut off, the process that cancelled it could not say so, or *)
(* its source stays closed before the command has a task.                  *)
WaitingRunIsWoken ==
  \A c \in Commands :
    agent[c] = "waiting" ~>
      \/ agent[c] # "waiting"
      \/ task[c].state = "failed"
      \/ c \in unsaid
      \/ source = "closed" /\ task[c].state = "none"
=============================================================================
