# Formal verification of eylo-os: durable execution

eylo-os runs AI agents and background work for many organizations on one
PostgreSQL database. What is hard in it is not the agents but the durable
execution around them: product rows and engine tasks that are written in
different transactions, worker processes that die or outlive their claims,
people who answer or cancel while a worker is in the middle of something, sweeps
that repair what others left behind, and a shared budget that all of it draws
on. This directory holds the TLA+ specifications of that part, their model
checks with TLC and their proofs with TLAPS. Paths below are relative to
`src/server/eylo/` unless they begin with `docs/`.

## 1. Inventory

### 1.1 What runs where

* **API processes** (FastAPI): file runs and work, spawn their tasks, answer input
  requests, request cancellation.
* **Worker processes**: each has several *lanes* polling the Absurd engine (SQL
  functions in PostgreSQL, `durable_runtime.py`, `agent_run_worker.py`). A lane
  claims a task for a bounded time, runs its handler under a heartbeat
  (`durable_runtime.py:397-450`), and completes it, fails it, suspends it on an
  event or finds it cancelled. The engine retries a failed or expired task up to
  its maximum of attempts; a retry replays the handler, and steps with a
  checkpoint are not repeated.
* **Periodic work** (`periodic_work.py`, `taskiq_runtime.py`): each minute,
  sweeps that spawn what is unbound and reconcile what the engine has ended.

Communication is by database rows under row locks, by the engine's tasks and
events, and by calls after a commit ("commit, then tell the engine") that may be
lost when the process dies.

### 1.2 Components

| Component | State it keeps | Operations | Hard behaviours | What makes it correct | Status |
|---|---|---|---|---|---|
| AgentRun lifecycle (`modules/agent_runs/`, `jobs/agent_runs.py`) | run row (lifecycle, task binding, cancellation request), input requests, reservation flag | spawn/bind, claim, start, pause, answer, resume, tool wait, finish, fail, cancel, reconcile | two lanes on one run, claim before binding, answer before wait, cancellation against everything, lost engine calls | one ending, no work after a cancellation request, capacity held exactly while queued or running, waits agree with requests, every wake-up arrives | modelled |
| Run executors (`pipelines/conversation`, `pipelines/scheduler`, `pipelines/parallel_agents`) | transcript, checkpoints | one turn of an agent, its pauses and tool calls | exceptions at every point of a turn | every outcome is committed or raised to the workflow | conversation: partly |
| Execution budgets (`modules/agent_runs/budgets.py`) | policy per organization, reservation per run or memory job | put policy, reserve, activate, report usage, check time, pause, reacquire, release | overbooking after a pause, policy changes, overruns found late, rounding | maxima of the policy hold for what is active, no unmarked overrun | modelled |
| Bound work (`absurd_work/`, `pipelines/knowledgebase`) | product row with state, attempts, task binding; engine task and checkpoint | spawn, bind, begin, succeed, fail, cancel | attempts counted in two places, load failures, stale failures, concurrent producers | attempts bounded, no success without effect, terminal states final, no stranded row | modelled |
| Durable events (`events/durable/`) | outbox, deliveries, receipts | file, bind, begin, consume, record failure | double filing, two consumers, a crash on the last attempt | consumer's changes committed at most once, with the receipt, never after a dead letter | modelled |
| Scheduler (`modules/scheduler`, `jobs/scheduler.py`) | schedule with next time, revisions, occurrences | publish, update, cancel, revoke, claim, dispatch, mark fired, recover stranded | death or refusal between claim and mark, publication or revocation in between, more due than a batch, lookups and counts that stop early | each promised occurrence filed once or counted, no live schedule hidden for ever, revoked work asked to stop | partly (spawning of filed runs is AgentRun's) |
| Campaigns (`products/campaigns`, `pipelines/campaigns`) | campaign with tallies, contacts, attempts with effect marks | file, prepare, start effect, dispatch, complete, retry, fail, apply outcome, pause, resume, cancel, revoke | provider calls that must not be replayed, callbacks that overtake handlers, operators and deletions in between, transactions that decide on rows they read without a lock | a contact is called once per attempt and not after it was reached, tallies and completion follow the contacts | partly (voice channel) |
| Outbound effects (`pipelines/outbound`, `common/outbound.py`) | one row per external effect | prepare, begin send, record, recover, reconcile | crash between a send and its record, callback before the record | an effect is never sent again when it may have arrived | partly (no cancellation: nobody calls it) |
| Telephony calls (`modules/telephony/lifecycle.py`, `pipelines/telephony/call_control.py`) | canonical call | intent, binding, status, terminal fact | callbacks in any order | one terminal fact per call | partly (outbound campaign calls) |
| SOR commands (`sor/runtime/commands.py`, `work.py`, `revocation.py`) | command rows, receipts, step checkpoints | file, spawn, bind, begin, write, record, project, fail, cancel, notify | ambiguous vendor results, cancellation in the middle of a write, lost wake-ups | the receipt says what happened, is settled once, and reaches the run | partly (payloads and scopes abstracted) |
| SOR syncs and webhooks (`sor/runtime/sync.py`, `webhook_processing.py`) | snapshots, subscriptions | sync, ingest | late webhooks, pagination | no older projection over a newer one | planned |
| Memory (`pipelines/memory`, `modules/memory`) | formation, reconciliation and reindex jobs | as bound work, with a reservation | as bound work | as bound work | reservations only |
| Deletions (`pipelines/deletions`) | deletion jobs, fences on contacts and calls | quiesce, erase, verify | work filed while its owner is being erased | nothing is left, nothing erased is used | partly (request and quiescing of campaign work) |
| Voice and WebRTC media, WebSocket | sessions in memory, media streams | calls, transfers, streaming | real-time, vendor callbacks | session ownership | not modelled: media and vendor I/O |
| Sandboxes, MCP, tools, agent framework | provider handles | run, reap | provider failures | - | not modelled: provider I/O |
| Agents, members, configurations, connections, templates, auth | rows | CRUD, OAuth | token refresh | - | not modelled: single transactions |
| Web console, widget, CLI, design system, infrastructure | - | - | - | - | not modelled: user interfaces and deployment |

`PROJECT.json` lists the same components with their sources, and under `hazards`
the places where the hard behaviours bite, line by line, with the properties
that watch them.

## 2. Modules

| Module | Role |
|---|---|
| `AgentRunContract` | what a run promises: the lifecycle graph, the cancellation request, the share of capacity |
| `AgentRun` | the run with its engine task, worker lanes, requests, tool, spawner, canceller, responder, reconciler |
| `MCAgentRun` | instance of it for TLC |
| `AgentRun_proofs` | its theorems |
| `ExecutionBudget`, `MCExecutionBudget`, `ExecutionBudget_proofs` | budgets of one organization |
| `BoundWorkContract` | what a row of bound work promises |
| `BoundWork`, `MCBoundWork`, `BoundWork_proofs` | one row, its task, worker lanes and concurrent producers |
| `AbsurdPool` | the engine for several kinds of tasks: a pool of lanes that claim, give back, die and stall |
| `AbsurdPool_proofs` | what the engine gives to every workflow: lemmas that `SorCommand` and `Campaign` cite |
| `OutboundAttempt` | the boundary of an external effect |
| `EventContract` | what the outbox promises a consumer |
| `EventDelivery` | durable deliveries of facts, over `AbsurdPool` |
| `Campaign`, `MCCampaign` | a voice campaign: composes `EventDelivery` and `OutboundAttempt` |
| `Campaign_proofs` | theorems on its effects, its deliveries and its completion |
| `CampaignOutcomes_proofs` | theorems on what it reports: types, tallies, who is called, when it rests |
| `SorCommandContract` | what a command on a system of record promises the run that sent it |
| `SorCommand`, `MCSorCommand`, `SorCommand_proofs` | the command, its run, spawners, lanes and revokers, over `AbsurdPool` |
| `Schedule`, `MCSchedule`, `Schedule_proofs` | one schedule, its revisions, runs and dispatchers |

The components meet as follows. `AgentRun` keeps of a reservation only its active
flag (`run.active`), and may be refused capacity or find an overrun at any time
(`ResumeRaises`, `TurnOverBudget`); `ExecutionBudget` says when that happens, with
the lifecycle reduced to a `phase`. Both engines' views (`AgentRun`, `BoundWork`)
describe the same external engine; each models the calls its component uses.
`AbsurdPool` is that engine for the components that follow: `Campaign` has two kinds
of tasks in one pool, attempts and event deliveries, and the modules conjoin its
actions (`Claim`, `Goto`, `Returns`, `Raises`, `Dies`, `ClaimRunsOut`) with what
their own transactions do. `AgentRun` has the durable tool as an external end;
`SorCommand` is that end, and has the run as an external one (`AgentGoes`).
`Schedule` ends where it files an occurrence, `AgentRun` begins where it is filed.

### 2.1 AgentRun

State. `run` is the row of `AgentRunModel` (lifecycle, `absurd_task_id` set or
not, `cancellation_requested_at` set or not, reservation active or not);
`requests` the `AgentInputRequestModel` rows in filing order; `tool` the single
durable tool operation; `authorised` whether revision and principal still allow
execution; `task` and `emitted` the engine's task and events; `worker[w]` the
program counter of each lane between two transactions, with the claim it was
given (`token`) and the request it waits for; `spawner`, `canceller` and
`responder` where the API calls stand.

Every action is one database transaction or one engine call with the Python code
up to the next; every program counter is a point at which another process can
get in, or the process can die (`Crash`, `SpawnCrash`, `CancelCrash`,
`ResponderCrash`).

| Code | Actions |
|---|---|
| `AgentRunAbsurdAdapter.spawn_run` (`absurd.py:141-180`) | `SpawnLoad`, `SpawnTask`, `BindTask`, `SpawnCancel` |
| `AgentRunWorkflow._claim_run` (`workflow.py:455-590`) | `ClaimSettled`, `ClaimUnbound`, `ClaimCancelled`, `ClaimRefused`, `ClaimStarts` |
| the executor (`pipelines/conversation/durable_execution.py`) | `OriginInvalid`, `LoadWait`, `LoadNoWait`, `LoadRaises`, `AwaitAnswer`, `Resume`, `ResumeRaises`, `Turn...`, `ExecutorRaises` |
| durable SOR tool (`pipelines/sor/tool_execution.py`) | `ToolFile`, `TurnPauseForTool`, `ToolAwait`, `ToolResume`, `ToolResumeRaises`, `TurnToolDone` |
| `AgentRunWorkflow.execute` endings (`workflow.py:311-396`) | `Complete`, `BudgetFail`, `Unwind`, `Report` |
| `cancel_agent_run`, `cancel_bound_agent_run` | `CancelRequest`, `CancelObserve`, `CancelSignal`, `CancelAccept` |
| `answer_input_request` (`service.py:1051-1138`) | `Answer`, `EmitAnswer` |
| `reconcile_terminal_agent_runs` | `Reconcile` |
| Absurd | `ClaimTask`, `ClaimExpires`, `AwaitEvent`, `Emit`, `EngineRejects` |

Choices. One call of `spawn_run` and one of `cancel_agent_run` is under way at a
time: a call that dies leaves its task behind, so that the next finds it, which
is what concurrent callers with one idempotency key amount to (`BoundWork` has
two real ones). `state_revision` is left out: it is an optimistic check of
clients on requests the row locks already order. `Reconcile` reads the engine
state and settles the row in one action although the code reads first: the task
states it acts on are final, so nothing can change between. What a model says, how
a transcript is stored and what a tool returns are choices of the turn. The engine
never cancels a task by itself: `DURABLE_CANCELLATION_POLICY` (`durable_runtime.py:103`) has
null limits.

### 2.2 ExecutionBudget

One organization, runs and memory jobs as owners of reservations. Each function
of `budgets.py` locks the policy row and is one action: `PutPolicy`, `Reserve`,
`Activate` (first start and reacquisition of a pinned envelope), `Meter` and
`ReportUsage`, `CheckTime`, `Pause`, `Finish`, `Retry`, `FailOrCancel`, and `Tick`
for the clock. A reservation keeps its pinned limits and rate, what it used, the
time since `active_since`, and whether it has reported usage and exceeded a limit. A
pause or a finish that finds an overrun rolls back and fails the run, as the
service does (`service.py:405-411`, `715-721`). Abstracted: which exceeded
dimension is reported first, and the widths of the BIGINT columns (the database
raises at 2^63; the amounts of one run are far below).

### 2.3 BoundWork

One row served by `AbsurdBoundWorkService`, its task, lanes and producers. The
worker is `KnowledgeIngestionWorkflow` (`pipelines/knowledgebase/durable_execution.py`):
begin and load in one transaction, the indexing step under a checkpoint, the projection
with `succeed`, and `_handle_failure`. Memory jobs, recordings and campaigns use the same
service but load in a second transaction, so the load-failure finding below is not theirs.
`effect` says that the step's operation happened at least once. `lost` is a
history variable (no action reads it): it records that an engine attempt ended without
a trace on the row, and why: `claim` (its lane died or lost the claim), `binding` (it came before
the binding) or `conflict` (its failure was refused). `AttemptsWithinBudget`,
`UnboundIsUntouched`, the contract and the liveness properties do not mention it.

### 2.4 EventDelivery, OutboundAttempt and Campaign

State. `campaign`, `contact`, `attempt` are the rows of `products/campaigns/models.py`
(status and the two tallies; status, `attempt_count`, active, valid number; state,
attempts, `effect_started_at`, `outcome_at`). `saved` is the checkpoint of an
attempt's dispatch step, `call` its canonical call, `out` the outbound row of
its call and `reached` how often the carrier may have placed it. `delivery` and
`receipt` are the delivery of the fact that a call ended and its inbox receipt.
`read[l]`, `scope[c]` and `asked` are what three transactions have read without a lock and will go by:
a lane's preparation (the campaign's status and failure tally, the contact's status, count and
lifecycle), the erasure of a contact, and an operator's pause or cancel. `applied`, `overtaken` and `blind` are
history variables that no action reads; `blind` names the tables whose rows had moved between
the reading and the writing of a transaction that committed.

| Code | Actions |
|---|---|
| `file_due_campaign_attempts` (`execution_service.py:32-119`) | `FileDueAttempts`, `FindNothingDue` |
| `_prepare_attempt` (`pipelines/campaigns/durable_execution.py:311-443`) | `FindSettled`, `PrepareReads`; then, by what it has read, `PrepareContactGone`, `PrepareNotRunning`, `PrepareSkips`, `PrepareFails` or `Prepared` |
| `_start_effect` (446-536) | `StartFenced`, `StartEffect` |
| the dispatch step (238-308), `VoiceService.initiate_outbound_call`, `_execute_uncheckpointed` | `DispatchReplays`, `DispatchAuthorized`, `DispatchRecovers`, `DispatchSends`, `DispatchRecords`, `DispatchProjects`, `DispatchSaves`, `DispatchFails`, `SendInterrupted` |
| `_complete_dispatch`, `_retry_replay_safe_attempt`, `_reject_attempt`, `_mark_dispatch_unknown` | `CompleteDispatch`, `RetryAttempt`, `FailAttempt`, `FailureFindsSettled`, `FailureConflicts` |
| `reconcile_outbound_call_acceptance`, `bind_outbound_provider_call`, `record_call_status` | `CallbackReconciles`, `CallbackBinds`, `CallEnds` |
| `DurableEventService.file`, `EventDeliveryService`, `EventDeliveryWorkflow` | `Filed`, `SpawnDelivery`, `BindDelivery`, `Begin...Delivery`, `Consume`, `ConsumeAgain`, `ConsumeConflicts`, `ConsumeFails`, `ConsumeRejects`, `RecordFailure` |
| `consume_campaign_call_outcome`, `apply_campaign_outreach_outcome` | `ConsumeOutcome`, `ApplyOutcome` |
| `CampaignService.pause`, `cancel` (`transition`, `campaign_service.py:326-362`) | `Ask`, `Transition` |
| `start`, `revoke_revision` (364-472, 531-587) | `Resume`, `Revoke` |
| `ContactService.request_deletion`, `_quiesce_contact_work` (`contact_erasure.py:174-189`, 333-490, 645-657) | `RequestDeletion`, `QuiesceReads`, `QuiesceContact` |

Transactions. A transaction that locks the rows it decides on before it looks at them is one action:
`_start_effect`, the outcome, the completion of a dispatch, the filing of due attempts, `start`, a
revocation. Three do not, and are two actions each, with every other process free to come in between.
`_prepare_attempt` locks the attempt's row only (`Free` is that lock, held until its commit) and selects the campaign, the
contact and the contact's lifecycle plainly (332-346). `transition` selects the campaign plainly and writes the new
status whatever has become of it. The erasure does take locks, but on rows its session has
already loaded, so that it goes on deciding on the values of the first load. What such a transaction then writes is what the ORM
flushes: the columns whose value differs from the one read (`Flushed`), and for `failed_contacts` the tally
that was read plus one.

Choices. How an attempt is bound to its task is `BoundWork`'s subject: here the task
exists from the filing on. Deliveries keep their spawn and their binding. The
carrier refuses a call for good or for now, or places it, and even then its answer may be
lost. That it did not place what it did not answer is a carrier that never calls
back. All registered channel adapters are replay-safe (`channels/voice.py:42`,
`email.py:37`, `widget.py:62`), so the `RECOVER` branch of `_start_effect` is
unreachable and left out; the e-mail and widget channels, which settle the contact
with the dispatch, are not modelled.

Three simplifications of the transactions' windows. The selects of `_prepare_attempt` are taken at one
instant, although they are statements of their own at the isolation READ COMMITTED. The completion check of a
transaction is taken with its commit, and not at the flush before it; two transactions that
settle the last two contacts at once are serialised by the lock on the campaign's row, except for skips, which is where
the model has the window. The deletion of the contact's graph that follows the quiescing
(`_erase_contact_graph`, `_refresh_campaign_counts`) is not modelled.

### 2.5 SorCommand

State. `cmd` is the row (state, bound, attempts, `mutation_applied_at`), `kind` what the
command does (a create is not repeated when its outcome is unknown, an update is; a
versioned update compares the target first), `agent` and `told` the run that filed it and
what it was told, `source` and `grant` the authority, `written` the checkpoint of the
vendor-write step, `wrote` how often the vendor performed it, `moved` whether the target
is at another version, `spawning`, `revoked` and `notices` what a spawner, a revocation and a
cancellation have still to do, `woken` the terminal event. `doubt` and `unsaid` are
history variables.

| Code | Actions |
|---|---|
| `execute_sor_mutation_tool` (`pipelines/sor/tool_execution.py:184-305`) | `AgentFiles`, `AgentReads`, `AgentPauses`, `AgentWakes` |
| `spawn_sor_bound_work` (`sor/runtime/work.py:415-463`) | `SpawnReads`, `SpawnTask`, `SpawnBinds` |
| `SorCommandWorkflow._execute` (`sor/runtime/commands.py:525-633`) | `BeginSettled`, `BeginUnbound`, `Begin`, `LoadClaim`, `CheckTarget`, `WriteReplayed`, `VendorWrites`, `VendorDeclines`, `SaveWrite`, `RecordWrite`, `FetchRecord`, `Project`, `Refused`, `NoLongerRunning` |
| `_handle_failure` (1372-1412) | `FailureFindsSettled`, `FailureRaises`, `Conflict`, `Fail`, `Retry` |
| emission of the terminal event (515-523) | `EmitTerminal` |
| revocation (`commands.py:324-473`, `revocation.py:213-355`, `sor/shared/routes.py:1194-1226`) | `RevokeGrant`, `FenceSource`, `CancelCommand`, `NotifyEmits`, `NotifyStops`, `RevokerDies` |

Choices. The source, the grant and the run are one operator `Live`: which of the checks of
`_require_agent_authority` fails makes no difference to the row. The refusal of a
conditional write by the vendor is `VendorDeclines`. The handler of the run is not
replayed: that is `AgentRun`'s subject.

### 2.6 Schedule

Time is counted in instants; a recurrence is the set of instants its rule expands to, with the
instant at which it ends. An instant past `Horizon` stands for a recurrence that goes on. State: the
`schedule` row (revision, enabled, deleted, `next_at`, `last_fired_at`, retired), the `definition` of each
revision (rule, misfire policy, state), the `run` of each instant (its revision, asked to stop or not, its
misfired count), what each `dispatcher` has read, and the clock.

| Code | Actions and operators |
|---|---|
| `claim_due`, `stranded`, `recover_stranded_schedules` | `ClaimDue`, `FindStranded`, `RecoverStranded` |
| `_dispatch_one` (`jobs/scheduler.py:91-232`) | `LoadUnavailable`, `LoadDefinition`, `FileOccurrence` (one transaction each), `MarkFired`, `GiveUp` |
| `next_occurrence`, `latest_occurrence` (`recurrence.py:167-224`) | `NextOccurrence`, `LatestOccurrence` |
| `resolve_due` (`recurrence.py:227-277`) | `Owe`, `Missed`, `Skipped` |
| `register`, `update`, `unregister`, `revoke_schedule_revision` | `Init`, `UpdateSchedule`, `CancelSchedule`, `RevokeRevision` |

The lookups are the bounded walks of the code. `next_occurrence` tries `Probes` candidates (64) from `Day` (one
day) before the moment, and answers "none" when all of them lie before it. `latest_occurrence` walks as many back from a
day after the moment. The count of skipped occurrences stops at `CountLimit` (1000, `MAX_SKIPPED_COUNTED`),
and a dispatch files at most `BatchLimit`. A rule is `Walkable` when those walks reach, wherever they start: fewer than
`Probes` candidates lie in the day before a moment that others follow, and in the day after any moment. The
properties promise something for walkable rules only; what the code does with the others is
in section 5.

A publication takes the first occurrence from `starts_at`, which may be past (`service.py:371-378`): an update may
find its first occurrence overdue, or be a single instant long gone. `base` is the history variable that
keeps `last_fired_at` as it was at the publication, from which the new revision owes.

`GiveUp` is every way in which a dispatcher leaves the schedule as it is before any of its transactions: its process dies;
the definition does not resolve; the filing of an occurrence is refused, because it reserves capacity
for the run (`service.py:197`) and the budget is missing or full, and `jobs/scheduler.py:208` catches conflicts of
occurrences only; or the same happened to another schedule earlier in its batch, which ends the
whole batch. Nothing bounds how often that happens. A refused `expected_revision` changes nothing. Several
schedules share no state but the batch of a poll or sweep, and that only through `GiveUp`.

## 3. Runs

Every run disables deadlock checking: a model follows one run or job, which
ends, and ended systems stop.

| Run | Instance | What it shows |
|---|---|---|
| `AgentRunStall` | 2 lanes that may outlive claims, API crashes, 1 request and the durable tool, 2 attempts | with every interleaving and crash: types, `ReservationMatchesLifecycle`, `CompletedTaskHasResult`, `EngineCancelIsRequested`, `LeavesQueueOnlyBound`, and refinement of `AgentRunContract` |
| `AgentRunLive` | 1 lane that may crash, both kinds of request, fairness | `WaitMatchesRequest`, `SettledRunHasNoOpenRequest`, `ResumeNeedsAnswer`; cancellations happen, answers wake, and execution ends or waits for a person or for a tool nothing was heard of |
| `AgentRunRefusal` | violation expected | a refused claim leaves a failed run with a pending request (`TerminalClosesRequests`) |
| `AgentRunStaleResume` | violation expected, lanes may outlive claims | a run is resumed for a question nobody answered (`ResumeNeedsAnswer`) |
| `ExecutionBudget` | 2 runs, 1 memory job, 2 policies, usages 1 and 2, unit 2 | capacity, envelopes, recorded overruns, waits within limits, cost rounding |
| `BoundWork` | 2 lanes, 2 producers, 2 attempts, crashes, stalls, load failures, fairness | attempts bounded, nothing before binding, no stranding but by loss, refinement of `BoundWorkContract`; every row is bound (`PendingIsBound`), and a settled row's task ends although its cancellation notice may be lost (`SettledRowEndsTask`) |
| `BoundWorkLoad` | violation expected, no crash at all | load failures are never recorded (`LoadFailureIsProductState`) |
| `BoundWorkCrash` | violation expected, loading succeeds | attempts spent before the binding strand the row (`AttemptedUntilTerminal`) |
| `Campaign` | 1 contact called at most twice, 2 lanes for attempts and deliveries, 3 tries each, 2 upsets | no call is placed twice for an attempt (`AtMostOncePerEffect`); a completed campaign is done, unless a transaction went by a moved campaign row (`CompletedIsSettled`); a reached contact is not called again (`NobodyIsCalledAgain`); a running campaign does not come to rest over a contact but for three named reasons (`RestsOnlyWhenDone`); refinement of `EventContract` (`DeliveriesKeepContract`) |
| `CampaignPair` | 2 contacts called once each, valid or not, 2 lanes, 2 tries, 1 upset | the tallies are those of the contacts, but for failures that overlapping skips lose (`TalliesMatchContacts`) |
| `SorCommand` | 1 command of any of the three kinds, 2 lanes, 3 tries, 2 upsets, fairness | the receipt says what the vendor did (`ReceiptTellsTheTruth`), refinement of `SorCommandContract` (`ReceiptsKeepContract`), and the waiting run is woken (`WaitingRunIsWoken`) |
| `Schedule` | 2 dispatchers that may give up at any step, any number of times; 3 instants and one beyond, 2 recurrences, batch of 1, count limit 1, day of 2, 3 probes, 2 revisions, fairness | nothing promised slips by (`NothingSlipsBy`), revoked work is asked to stop (`RevokedWorkIsCancelled`), no occurrence stays overdue unless dispatchers give up for ever (`NothingStaysOverdue`) |

### Bounds and why they are enough

* Two lanes are the fewest for a stale claim beside a live one. A third would be
  another stale lane: claims are told apart by attempt, and two attempts of `AgentRun` and
  `BoundWork` allow a stale claim, a current one and an exhausted task.
* Two requests are the fewest for "answered the first, waiting for the second";
  `AgentRunLive` and `AgentRunStaleResume` have them. `AgentRunStall` has one, and the
  tool for a second wait: its properties do not relate requests to each other, and
  are proved for any number.
* Kinds: one in the runs with two lanes (kind is only a label there), both in the live run.
* `MaxAttempts` of bound work is 3 in the code, and in the two runs of findings. The passing run has 2, the
  fewest for a retry beside a stalled attempt, because it checks liveness with two lanes and two producers; its safety
  properties are proved for any number.
* Budgets: the policy `Wide` admits two owners of three, `Large` one, at different
  rates; usages 1 and 2 against limits 2 and 3 reach, meet and pass a limit; a unit
  of 2 makes rounding visible. `MaxTokens` and `MaxTime` cap the counters.
* The constants `Stalls`, `Crashes`, `ApiCrashes`, `LoadFailures` switch a class of
  faults on; a finding is shown with the fewest.

* `MaxUpsets` counts in all what goes wrong in a behaviour of `Campaign` and `SorCommand`: a
  lane dies, a live claim expires, a statement fails, an answer is lost, an operator intervenes. Two
  are the fewest for a fault in the recovery from a fault, or in a paused campaign.
  The transitions that repair (a dead lane's claim expiring, a retry, a resume) are free.
* Three tries of `Campaign` (the run) and `SorCommand` are the code's (`absurd_work/model.py:14`,
  `sor/runtime/commands.py:112`), and the fewest for a try that lost its claim, its successor, and one that finds what the two
  have left. They have 864,307 and 285,540 distinct states.
* `Campaign` has one contact and two attempts, the fewest for a retry. Contacts meet only in the tallies, the slots and the
  completion of the campaign: that is what `CampaignPair` (208,452 states) is for, with the two contacts that a
  lost tally takes, prepared side by side. Two tries there are enough for a try that is stopped
  between its reads and its commit and another that comes after.
* `Schedule` (569,749 states): a batch of one and a count limit of one make three owed occurrences overflow both.
  The clock shows the instants 1 and 3 only, when something happens, so that nothing, one or three
  occurrences are due. With a day of 2, 3 probes are the fewest for which the two rules are walkable.
  What becomes of a rule that is not is said in section 5, and nothing is promised for it. One rule ends before its last candidate, so that `latest_occurrence` has to ask twice. Two revisions
  are the fewest for publication or revocation in the middle of a dispatch.

The theorems of section 4 need none of these bounds.

### Fairness

Weak fairness, and strong fairness where only persistence helps, for what the code
keeps doing: lanes poll for ever and a live attempt goes on; the engine sweeps
expired claims when lanes poll; the sweeps of `periodic_work.py` spawn unbound
rows and reconcile each minute; an API call that committed goes on to its engine
call. That a tool operation ends, or emits its event, is not assumed: a command on a system of record may stay
running or lose its wake-up (section 5), so `RunMakesProgress` lets a run wait for a tool nothing
was heard of, and asks that it goes on once the event is there. In `BoundWork` spawning and binding
are strongly fair: each call may die at any step, and the assumption is that some
sweep eventually gets through. Nobody is assumed to answer, to cancel or to crash.
Attempts being bounded, an unfair engine that crashes each of them still ends.

`SorCommand` assumes weak fairness of the run's own steps (it reads, pauses, wakes), of
spawning (`spawn_unbound_sor_commands` is periodic), of cancellation and its notices while
the process lives, of each lane, and of the expiry of a claim nobody holds. No operator is
obliged to reopen a source, and no answer of the vendor is assumed to be good. `Schedule` assumes
that the poll and the sweep of stranded schedules, which are cron jobs, go on, and
that a dispatcher which does not give up finishes. `NothingStaysOverdue` has the rest as its hypothesis: from some
time on nobody gives up. A budget that stays full or missing for ever is a behaviour in which occurrences stay
overdue for ever, and the property does not say otherwise. `Campaign` states only
safety: what liveness it has is `RestsOnlyWhenDone`, a statement about quiet states.

`AgentRunLive` sets `ApiCrashes` to FALSE. With it TRUE, a process that dies after
committing a cancellation request (`service.py:953`) and before telling the engine
leaves a sleeping run requested but not cancelled until the user asks again: no
sweep looks for it, and the code does not promise one. The same holds for an answer
whose event was not emitted.

## 4. Proofs

All theorems hold for any finite number of lanes, producers and owners and any bounds on
attempts, requests and amounts; the assumptions are the `ASSUME`s of the modules
on their constants, and nothing else.

**AgentRun** (`AgentRun_proofs`). `TypeCorrect` comes from one lemma per helper
and a case per action. `ReservationFollowsLifecycle`, `CompletionsAreCommitted`,
`CancellationsAreRequested`, `QueueLeftOnlyBound` and `RunImplementsContract` rest on one inductive
invariant, `IInv`. The properties are not inductive alone: a completed task has a result only because a lane
that is about to complete (`receipt`) has found the run settled, and a run leaves the
queue only bound because the lane that starts it saw the binding; `Others` says
what each lane, and each API call between two of its steps, still knows after
others have moved. It stays true because the row only moves in ways `RowStep` allows
(one step of the contract, the binding kept, the queue left only bound or cancelled): `RunStep` proves that once
per action, `RowStepMonotone` turns it into what every waiting process may rely on.

`WaitsFollowRequests`, `SettledRunsAskNobody` and `AnswersPrecedeResumption` are stated for
`~Stalls`, when no lane outlives its claim: without it they are false, and
`AgentRunStaleResume` (section 5) is the counterexample. Their invariant is `WaitInv`: who
executes holds the task's last claim and executes alone (`OneAttempt`), and what it awaits is the answer to the
run's latest request (`AwaitsLatest`), so that what it read of the wait before still
holds when it acts on it. `SleepersWaitForTheirRun` goes on from there, from the lane that awaits
to the task that sleeps after it (`SleepStory`).

**ExecutionBudget** (`ExecutionBudget_proofs`). `ConcurrencyIsCapped`, `EnvelopesAreCapped`,
`OverrunsAreRecorded`, `WaitsAreWithinLimits` and `CostsAreRoundedOnce` from
`IInv`: types, each row sound by itself (marked when it exceeds, unused when it has no
reservation, its cost the price of its tokens), and capacity in each dimension. Sums over the
active owners are handled by cardinalities of the envelopes' disjoint slots, for
which `Lowered` and `Raised` say what changing one owner does. The arithmetic
of the rounded cost (`Division`, `DivisionMonotone`, `CostMonotone`) holds for every unit and rate.

**BoundWork** (`BoundWork_proofs`). `AttemptsAreBudgeted` needs a counting
argument: `OneAttemptPerClaim` says that the attempts the row has counted plus the
lanes that hold a claim and have not begun number at most the attempts the engine
has started. `StrandedOnlyByLoss` needs `NothingLost`: as long as nothing was lost, the lane
that holds the claim, the task's attempt and the row's attempts agree at each
program counter. `WorkFollowsBinding` and `StepFirst` (success and checkpoint only after the effect)
complete the invariant, from which `WorkImplementsContract` follows action by action.

**AbsurdPool** (`AbsurdPool_proofs`). What the engine gives to every workflow is proved once
for each of the pool's actions: a claim is held by one lane (`HeldOnce`), a task that is over with no lane left on it
stays so (`StaysFinished`), and a handler that counts its attempts once a claim counts no more than the task's
tries (`CountClaim`, `CountBegin`, `CountStays`: the lanes between a claim and the count are part of the sum).

**Campaign** (`Campaign_proofs`). The control part `LaneOK` (which lane works on what) is proved
once and used by three inductive invariants. `SendInv` gives `CalledAtMostOnce`: an effect
that may have been performed is not sendable, and a lane at the provider is the only one there, with
a row in flight that nobody performed yet, or already past it. `DeliveryInv` ties `applied` to the
delivery's last state, from which `EventsKeepContract` follows: every step changes the fate of one
delivery as the contract allows, or none. `DoneInv` gives `CompletedCampaignsAreDone`: a settled
contact never opens again in a completed campaign, whichever transaction writes its
contacts. It holds as long as no transaction committed over a campaign row that had moved since it was read (`"campaign" \notin blind`):
the lane that prepares then knows that the status it read is the status still, and whoever pauses or cancels that the campaign is open.
A contact's row may move under its reader without harm.

`CampaignOutcomes_proofs` adds to these, in `BaseInv`, the counting argument of the engine (`TypeInv`, which
gives `TypeCorrect`) and `RecordInv`: the checkpoint of the dispatch, the outbound row, the call,
the fact of its end and what each handler carries (`LaneTells`) tell one story of an attempt. On that rests
`OutcomeInv`, as long as `overtaken` is empty: an outcome comes in only when the handler is over,
the story of every contact holds (`StoryOf`), and the unlocked reads are worth something still. `ReadTrue` says that what a preparing
transaction read of its contact holds when it commits, unless an operator has released the queued contact meanwhile: the attempt's row is locked, and the
story leaves nobody else who could move the contact. `ScopeTrue` says what matters of an erasure's first load: the contact it found was not counted.
 The story says where the contact's row stands among its attempts: they were filed one
after the other, each when the one before was past (its outcome applied, nobody reached); only the latest may still act
on the contact; what the status says of it is true. That, and not any property of a single attempt, is why an
outcome finds the contact as its handler left it, so that each tally is raised exactly when a contact
comes to its status (`TalliesAreTrue`: `Tallied` is
exact for the completed contacts, and for the failed ones an upper bound that skips on a stale tally only lower), why a contact with a connected call has no attempt that could still send
(`CalledUntilReached`), and why only a contact left behind can keep a quiet campaign running (`RestsWhenDone`).

**SorCommand** (`SorCommand_proofs`). `ReceiptsAreTrue` and `ReceiptsImplementContract` rest on
`SorInv`, per command: `OneHolder` (two lanes never both hold its claim), `AppliedIsWritten` and
`BegunBefore` (what each program counter implies about the vendor and the row), `FirstAttempt`
(in the first attempt one lane works, and nothing is performed before it sends), `DoubtIsKnown`
(without doubt the vendor performed the command at most once, and it is saved or about to be), `SettledIsSaid`.
The property is not inductive alone because what the row says follows from what a lane
learned several steps before. `TypeCorrect` uses the counting argument of `AbsurdPool_proofs`. `WhatIsToldHappened` transfers the contract's own invariant through
the refinement: what a run is told is the outcome the row keeps.

**Schedule** (`Schedule_proofs`). Lemmas say what the bounded walks return for any rule, day and number of
probes, and for a walkable rule that they miss nothing: `next_occurrence` answers "none" only when nothing follows,
`latest_occurrence` only when nothing has arrived. `RevocationInv` (the runs of a revoked
revision, and the dispatchers that still carry it) gives `RevocationReachesRuns`. `SettledInv`
says of every dispatcher that what it is about to put behind the schedule is filed, counted, left out of a count
at its limit, or in its hands, and gives `NothingIsLost`. The theorems hold for any set of rules: those that the lookups
cannot walk may be published, resolved and retired early among the others, and are promised nothing.

Each strengthening was checked by TLC on the instances of the runs before it was proved. One proof
attempt failed for a good reason. With three tries, the value in the code, `TalliesMatchContacts` was not what the
invariant could give: a try that has lost its claim may put the row of its attempt back to pending after its successor has
saved a dispatch, and a pause then cancels an attempt that was performed (section 5). With two tries TLC could not see
it. `overtaken` now marks that case too, and the run has the code's three tries.

**What liveness rests on.** That something happens in the end follows from fairness, which is beyond the
prover; that whoever is to do it has not forgotten, and still can, is safety, and is proved. These
theorems are no run's property: the runs check the liveness they serve.

- `CancellationsArePursued` and `AnswersAreHeard` (`NothingForgotten`): a requested cancellation is carried by the call
  that made it until the engine has ended the task, with the run bound so that the reconciler finds it;
  a task may go to sleep on an event after its emission or before, and never sleeps through it. Both for
  `~ApiCrashes`: an API process that dies between the commit and the call loses either, as the code stands.
- `CancellationsReachTheTask` (`Carried`): the row of bound work may be cancelled before its task is spawned, between the
  spawn and the binding, or after; each time one of the calls in flight will find it. For `~Crashes`, for the
  same reason.
- `SettledCommandsAreTold` (`TellInv`): whoever settles a command without emitting its event (a lane that dies after
  its commit, a refused emission) leaves a task that will be tried again and emit it, unless that was the last try:
  the exceptions that `WaitingRunIsWoken` makes are all there are.
- `OverdueStaysInSight` (`FoundInv`): no order of polls, sweeps, publications and deaths leaves a schedule with
  an overdue occurrence of a rule the lookups can walk with a next occurrence in the future, or none and retired, where nothing
  looks for it. Nor does a refusal, for it leaves the row claimed.

Only model-checked, not proved: the liveness properties themselves
(`CancellationHappens`, `AnswerWakesRun`, `RunMakesProgress`, `PendingIsBound`, `SettledRowEndsTask`,
`WaitingRunIsWoken`, `NothingStaysOverdue`). Every invariant and every action property that a passing run
checks is stated by a theorem.

## 5. Findings

1. `AgentRunRefusal`: `_claim_run` fails a run whose revision or principal was
   revoked (`workflow.py:506-550`) without `cancel_pending_input_requests_in_transaction`,
   which says it closes "every still-pending identified request with its parent run".
2. `AgentRunStaleResume`: `resume_agent_run_in_transaction` compares kinds of
   wait, not requests. It takes a lane that outlived its claim, and ends in an answered
   first question resuming a run that waits for the second.
3. `BoundWorkLoad`: the ingestion workflow loads in the transaction that begins the
   attempt. A load failure rolls the row back to `pending`, and `fail` refuses a row that is not
   `running`: nothing is recorded, and after three attempts the row stays pending for
   ever although the comment at `pipelines/knowledgebase/durable_execution.py:231` calls the
   failure "product state".
4. `BoundWorkCrash`: an attempt before the binding spends an attempt of the task. When the
   producer dies between spawning and binding, three attempts with short delays
   may all pass before the sweep binds the row, to a task that has failed.

### Observations on the campaign, the commands and the schedule

The properties of `Campaign`, `SorCommand` and `Schedule` are stated for what the code does keep;
where it keeps less, a condition or a history variable says exactly when. Removing the
condition gives a counterexample; none of them has a run of its own.

Campaigns. `overtaken` marks an attempt whose outcome was applied while the handler that
placed its call was not over (the call ends while `_complete_dispatch`, or a retry, is still to come), and one
whose row was put back by a try that had lost its claim;
`TalliesMatchContacts`, `NobodyIsCalledAgain` and `RestsOnlyWhenDone` are conditional on it. `blind` says that a transaction committed
although a campaign's or a contact's row had moved since it read it; `CompletedIsSettled` is conditional on the
campaign's row, `TalliesMatchContacts` on both.

* A completed campaign may hold a pending contact. A try whose outcome was consumed after its row was put back
  is tried again and reads that the campaign is paused (`_prepare_attempt`, 332-346); the operator starts the
  campaign, and the sweep completes it, for its contacts are settled; then the try commits, and sets its contact to
  `pending` (370-380).
* Two preparations that skip invalid contacts at once each write the tally they read plus one
  (426-433, 768): a failure is lost. It is never the other way round: no skip adds one that is not there.
* The skip of the last open contact checks the completion on the status it read (873): a campaign that was paused or
  cancelled meanwhile becomes `completed`.
* `transition` (`campaign_service.py:326-362`) checks a status it read without a lock: a pause that began while the campaign
  was running and commits after a cancellation, or after the completion, leaves it `paused`, from where it can be started.
* The erasure of a contact decides on the rows its session loaded before it locked them
  (`contact_erasure.py:333-490`): it may set to `cancelled` a contact that was settled and counted meanwhile, and
  cancel an attempt whose effect has started meanwhile.

* A rejected call files its terminal fact (`modules/telephony/lifecycle.py:186-280`) before the handler
  rejects the attempt: when the fact is consumed first, `failed_contacts` is counted
  twice, or a contact that was to be retried is set to failed under its queued retry.
* `_complete_dispatch` sets a contact to `in_progress` without looking whether the outcome
  has already set it to `retry` (`durable_execution.py:606-622`): it is then never retried.
* An attempt whose handler stalled or died after its call started, replayed while the campaign is
  paused, is cancelled by `_prepare_attempt` (370-380), and its contact is set to `pending` even
  if it was reached: after a resume it is called again. `campaign_service.py:597` says
  "Cancel filed work before its provider boundary; preserve running work."
* `_retry_replay_safe_attempt` (628-673) does not ask whether its try still holds the claim. One that lost it
  puts the row back to `pending` after its successor saved a successful dispatch; a third try that comes
  under a pause cancels the attempt and frees its contact, which is then called again.
* A contact whose queued attempt was cancelled by a pause is due with the same
  attempt number after the resume, which `uq_campaign_attempts_contact_number`
  (`models.py:420-424`) refuses: no sweep ever files for it (first reason of `LeftBehind`).

Commands. `doubt` marks a command of which a try lost its claim, or the vendor's answer, between sending
the write and saving it.

* Such a command may be performed twice, or be reported as failed, conflicting or
  cancelled although it was performed: the vendor-write step is a checkpoint, not an
  idempotency key. `docs/diagrams/data-flows.md:199-200` says "execute the vendor
  write once". A retry of a versioned update after its own unsaved write finds the target moved and
  reports `conflict`.
* `docs/explanation/systems-of-record.md:766-770` says that a command pending before its write becomes
  cancelled. A row is pending again after a retryable failure that may have followed the write, and is cancelled then too.
* The wake-up of a waiting run can be lost in three ways, which `WaitingRunIsWoken` excepts: a
  last try that is cut off leaves the command `running` for ever (`converge_engine_failure` is called
  for sync runs only), a process dies between cancelling and emitting, and an
  unbound command under a source that is closed for setup is neither spawned nor cancelled.

Schedules.

* Under `FIRE_ALL` the count of skipped occurrences is attached to the first run that is
  filed. If a run of that occurrence exists, the count is dropped with it
  (`uncounted`); `recurrence.py:269` says "Everything past the batch limit is counted, not silently dropped."
* A dispatcher that loaded a definition before its revocation files a run that is
  not asked to stop (`outrun`).
* A slow dispatcher overlapping the recovery of its schedule moves `last_fired_at` and `next_at` back;
  the uniqueness of a run per occurrence repairs it.
* An update with `starts_at` in the past owes, under `FIRE_ALL`, occurrences from before
  the revision was published.
* `next_occurrence` (`recurrence.py:181`) looks at 64 candidates from a day before the moment. For a rule with more
  occurrences a day, such as `FREQ=MINUTELY;INTERVAL=15`, which `validate` accepts, all of them lie
  in the past: it answers "none", and `mark_fired` retires a schedule that has no end. It stays enabled and fires no more.
* `latest_occurrence` (213) stops short of the moment in the same way, from a day after it: under `COALESCE` such a rule files
  nothing and counts nothing (253), although occurrences are owed.
* The count of skipped occurrences stops at 1000 (`recurrence.py:255-260`, 273-276): it is a floor, and
  the property takes one that is left out for counted when the count of its run is full (`floored`).
* An organization whose budget is missing or full has its filing refused (`service.py:197`), and the exception ends the
  batch: schedules of other organizations that were claimed with it wait for the sweep of stranded ones, fifteen minutes later.
  That sweep takes the oldest first (`persistence.py:309-342`, by `updated_at`), which the refusal
  does not change: it meets the refused schedule first each time.

## 6. Plan

Done: durable events, schedules, campaigns with the effect boundary, the commands behind the durable
tool, and the proofs of every invariant and action property of the runs. What is left, in order of importance:

1. SOR syncs and webhooks: a late webhook against a running sync.
2. A variant of `BoundWork` for clients that load in a second transaction (memory, recordings).
3. Erasure of a contact's graph against filing.

### Not modelled

Vendor adapters (`sor/*/vendors`, the largest part of the repository by lines), media
pipelines, prompt assembly, the web console, the widget and the CLI translate between
formats and call other systems: they keep no state that two processes share, and
what can go wrong in them is what a unit test against a recorded response finds. The schema
migration is declarations; of the vendored engine only what the server calls is modelled. CRUD modules
(agents, members, configurations, templates) write single rows in single transactions; where their
state matters to running work, a revocation, it appears as `authorised`, `grant`, `source` or `definition`.
