---------------------------- MODULE ExecutionBudget ----------------------------
(***************************************************************************)
(* The execution capacity of one organization (budgets.py): the policy     *)
(* row, and the reservations that AgentRuns and memory jobs hold against   *)
(* it.  A reservation pins the per-run limits of the policy it was filed   *)
(* under; what it has not used yet counts against the organization's       *)
(* maxima while it is active, and comes back to the organization while its *)
(* owner waits.                                                            *)
(*                                                                         *)
(* Every action is one transaction.  Those that take capacity (reserve,    *)
(* activate, put) lock the policy row, the others lock the reservation     *)
(* they change and can only lower what is outstanding, so each is atomic.  *)
(* BigInteger widths are far beyond the values a policy can hold and are   *)
(* left out; so is the order in which exceeded dimensions are reported.    *)
(***************************************************************************)
EXTENDS Integers, FiniteSets

CONSTANTS
  Runs,       \* AgentRuns of the organization
  Jobs,       \* memory formation and reconciliation jobs of the organization
  Policies,   \* policies an administrator may put
  Usages,     \* token totals a provider may report
  Unit,       \* _MICROUNITS_PER_UNIT
  MaxTokens,  \* bound: tokens one reservation may use
  MaxTime     \* bound: active time one reservation may use

Dimensions == {"tokens", "time", "cost"}
Amounts    == [Dimensions -> Nat]

Policy == [runs : Nat \ {0},       \* max_concurrent_runs
           max  : Amounts,         \* max_active_tokens, _milliseconds, _cost_microunits
           each : Amounts,         \* run_token_limit, run_time_limit_.., run_cost_limit_..
           rate : Nat]             \* cost_microunits_per_million_tokens

(* validate_run_limits_fit *)
LimitsFit(p) == \A d \in Dimensions : p.each[d] <= p.max[d]

ASSUME BudgetAssumption ==
  /\ IsFiniteSet(Runs) /\ IsFiniteSet(Jobs)
  /\ Runs \intersect Jobs = {}
  /\ Policies \subseteq Policy
  /\ \A p \in Policies : LimitsFit(p)
  /\ Usages \subseteq Nat
  /\ Unit \in Nat \ {0}
  /\ MaxTokens \in Nat /\ MaxTime \in Nat

Owners == Runs \union Jobs

VARIABLES
  policy,       \* the organization's policy, in a set: {} when there is none
  reservation,  \* OrganizationExecutionReservationModel of each owner
  phase         \* what the owner of a reservation is doing

vars == <<policy, reservation, phase>>

(* state: "held" is active with no active_since, "metered" active with     *)
(* one.  elapsed is the time since active_since that no check has accrued. *)
Reservation ==
  [state : {"none", "held", "metered", "released"},
   limit : Amounts, used : Amounts, rate : Nat, elapsed : Nat,
   reported : BOOLEAN,             \* usage_reported
   exceeded : BOOLEAN]             \* exceeded_dimension is set

TypeOK ==
  /\ policy \in SUBSET Policies /\ \A p, q \in policy : p = q
  /\ reservation \in [Owners -> Reservation]
  /\ phase \in [Owners -> {"unfiled", "open", "waiting", "ended"}]

Zero == [d \in Dimensions |-> 0]

Init ==
  /\ policy = {}
  /\ reservation = [o \in Owners |->
       [state |-> "none", limit |-> Zero, used |-> Zero, rate |-> 0, elapsed |-> 0,
        reported |-> FALSE, exceeded |-> FALSE]]
  /\ phase = [o \in Owners |-> "unfiled"]

-----------------------------------------------------------------------------
(* Capacity *)

Active(o) == reservation[o].state \in {"held", "metered"}
ActiveOwners == {o \in Owners : Active(o)}

Used(row, d) == IF d = "time" THEN row.used["time"] + row.elapsed ELSE row.used[d]

Remaining(row, d) ==
  IF Used(row, d) < row.limit[d] THEN row.limit[d] - Used(row, d) ELSE 0

(* _measure_active_capacity: the units of a dimension that active          *)
(* reservations may still use.  Their number is the sum of what remains.   *)
Outstanding(d) ==
  UNION {{o} \X (1..Remaining(reservation[o], d)) : o \in ActiveOwners}

(* _require_capacity: p has room for `runs' more reservations of `amount'. *)
HasRoom(p, runs, amount) ==
  /\ Cardinality(ActiveOwners) + runs <= p.runs
  /\ \A d \in Dimensions : Cardinality(Outstanding(d)) + amount[d] <= p.max[d]

(* _require_capacity_for_pinned_reservation *)
HasRoomFor(p, row) == HasRoom(p, 1, [d \in Dimensions |-> Remaining(row, d)])

Exceeds(row) == \E d \in Dimensions : row.used[d] > row.limit[d]

Marked(row) == [row EXCEPT !.exceeded = @ \/ Exceeds(row)]

(* _accrue_active_time, then _exceeded_dimension.                          *)
Accrued(row) ==
  Marked([row EXCEPT !.used["time"] = @ + row.elapsed, !.elapsed = 0])

(* _cost_microunits: rounded up. *)
Cost(tokens, rate) == (tokens * rate + Unit - 1) \div Unit

Set(o, row, to) ==
  /\ reservation' = [reservation EXCEPT ![o] = row]
  /\ phase' = [phase EXCEPT ![o] = to]
  /\ UNCHANGED policy

-----------------------------------------------------------------------------
(* put_organization_execution_budget.  A caller may always hold the        *)
(* current state_revision.                                                 *)

(* Mutant: a lower policy is accepted whatever is outstanding.             *)
PutPolicyUnchecked(p) ==
  /\ policy' = {p}
  /\ UNCHANGED <<reservation, phase>>

(* Mutant: a second policy row is inserted instead of the first replaced.  *)
PutPolicyInserts(p) ==
  /\ policy # {} => HasRoom(p, 0, Zero)
  /\ policy' = policy \union {p}
  /\ UNCHANGED <<reservation, phase>>

PutPolicy(p) ==
  /\ policy # {} => HasRoom(p, 0, Zero)
  /\ policy' = {p}
  /\ UNCHANGED <<reservation, phase>>

(* reserve_agent_run_in_transaction and its memory twin, when the owner is *)
(* filed.                                                                  *)
Reserve(o) ==
  /\ phase[o] = "unfiled"
  /\ \E p \in policy :
       /\ HasRoom(p, 1, p.each)
       /\ Set(o, [reservation[o] EXCEPT !.state = "held", !.limit = p.each, !.rate = p.rate],
              "open")

(* Mutant: capacity is reacquired by looking at the number of runs alone.  *)
ActivateCountingRuns(o) ==
  /\ phase[o] \in {"open", "waiting"}
  /\ \E p \in policy :
       /\ ~Active(o) => Cardinality(ActiveOwners) < p.runs
       /\ Set(o, [reservation[o] EXCEPT !.state = "metered"], "open")

(* activate_*_reservation_in_transaction: a claim starts the meter, a      *)
(* resume or a job's retry reacquires what was released.                   *)
Activate(o) ==
  /\ phase[o] \in {"open", "waiting"}
  /\ \E p \in policy :
       /\ ~Active(o) => HasRoomFor(p, reservation[o])
       /\ Set(o, [reservation[o] EXCEPT !.state = "metered"], "open")

(* Mutant: the cost of each call is rounded up and added.                  *)
MeterRoundingEachCall(o, u) ==
  /\ o \in Runs
  /\ reservation[o].state = "metered"
  /\ reservation[o].used["tokens"] + u <= MaxTokens
  /\ Set(o, Marked([reservation[o] EXCEPT
                      !.used["tokens"] = @ + u,
                      !.used["cost"] = @ + Cost(u, reservation[o].rate)]),
         phase[o])

(* Mutant: the first overrun is not recorded.                              *)
MeterUnmarked(o, u) ==
  /\ o \in Runs
  /\ reservation[o].state = "metered"
  /\ LET tokens == reservation[o].used["tokens"] + u IN
       /\ tokens <= MaxTokens
       /\ Set(o, [reservation[o] EXCEPT
                    !.used["tokens"] = tokens,
                    !.used["cost"] = Cost(tokens, reservation[o].rate)],
              phase[o])

(* meter_agent_run_usage, called by the model adapter after each response. *)
(* It commits the usage and then raises ExecutionBudgetExceeded.  An       *)
(* active reservation that is not metered has no worker yet to call it.    *)
Meter(o, u) ==
  /\ o \in Runs
  /\ reservation[o].state = "metered"
  /\ LET tokens == reservation[o].used["tokens"] + u IN
       /\ tokens <= MaxTokens
       /\ Set(o, Marked([reservation[o] EXCEPT
                           !.used["tokens"] = tokens,
                           !.used["cost"] = Cost(tokens, reservation[o].rate)]),
              phase[o])

(* _meter_memory_execution_usage: one report for each job, whichever       *)
(* attempt makes it; a replay that reports again changes nothing.          *)
ReportUsage(o, u) ==
  /\ o \in Jobs
  /\ reservation[o].state = "metered"
  /\ ~reservation[o].reported
  /\ Set(o, Marked([reservation[o] EXCEPT
                      !.used["tokens"] = u,
                      !.used["cost"] = Cost(u, reservation[o].rate),
                      !.reported = TRUE]),
         phase[o])

(* check_agent_run_active_time, _check_memory_execution_active_time        *)
CheckTime(o) ==
  /\ reservation[o].state = "metered"
  /\ Set(o, Accrued(reservation[o]), phase[o])

-----------------------------------------------------------------------------
(* release_*_reservation_in_transaction, by what the caller makes of its   *)
(* result.                                                                 *)

Released(row) ==
  LET accrued == Accrued(row)
  IN  [accrued EXCEPT !.state = IF @ = "none" THEN @ ELSE "released"]

(* Mutant: a pause commits although the release reports an overrun.        *)
PauseRegardless(o) ==
  /\ o \in Runs
  /\ reservation[o].state = "metered"
  /\ Set(o, Released(reservation[o]), "waiting")

(* A pause rolls back when the release reports an overrun.                 *)
Pause(o) ==
  /\ o \in Runs
  /\ reservation[o].state = "metered"
  /\ ~Exceeds(Released(reservation[o]))
  /\ Set(o, Released(reservation[o]), "waiting")

(* So does a finish, of a run or of a memory job.                          *)
Finish(o) ==
  /\ reservation[o].state = "metered"
  /\ ~Exceeds(Released(reservation[o]))
  /\ Set(o, Released(reservation[o]), "ended")

(* A job whose attempt failed goes back to pending without its capacity,   *)
(* whatever it has used.                                                   *)
Retry(o) ==
  /\ o \in Jobs
  /\ reservation[o].state = "metered"
  /\ Set(o, Released(reservation[o]), "waiting")

(* Failure and cancellation release in every phase and look at nothing.    *)
FailOrCancel(o) ==
  /\ phase[o] \in {"open", "waiting"}
  /\ Set(o, Released(reservation[o]), "ended")

(* Time passes for every metered reservation, whether or not a worker is   *)
(* alive.                                                                  *)
Tick ==
  /\ \A o \in Owners : Used(reservation[o], "time") < MaxTime
  /\ reservation' = [o \in Owners |->
       IF reservation[o].state = "metered"
       THEN [reservation[o] EXCEPT !.elapsed = @ + 1]
       ELSE reservation[o]]
  /\ UNCHANGED <<policy, phase>>

Next ==
  \/ \E p \in Policies : PutPolicy(p)
  \/ \E o \in Owners :
       \/ Reserve(o) \/ Activate(o) \/ CheckTime(o)
       \/ \E u \in Usages : Meter(o, u) \/ ReportUsage(o, u)
       \/ Pause(o) \/ Finish(o) \/ Retry(o) \/ FailOrCancel(o)
  \/ Tick

Spec == Init /\ [][Next]_vars

-----------------------------------------------------------------------------
(* Properties *)

(* max_concurrent_runs is never exceeded, over filings, resumes of runs    *)
(* that waited, retries of jobs and changes of the policy itself.          *)
ConcurrencyWithinPolicy ==
  \A p \in policy : Cardinality(ActiveOwners) <= p.runs

(* In no dimension do the active reservations, each under the limits it    *)
(* pinned, together hold more than the policy of now admits.               *)
EnvelopesWithinPolicy ==
  \A p \in policy, d \in Dimensions : Cardinality(Outstanding(d)) <= p.max[d]

(* Usage beyond a limit is never committed without the mark that makes the *)
(* executor give up.                                                       *)
OverrunIsRecorded ==
  \A o \in Owners : Exceeds(reservation[o]) => reservation[o].exceeded

(* A run that waits is within its limits: an overrun is met by the pause   *)
(* that would hide it, and the run fails instead.                          *)
WaitingRunWithinLimits ==
  \A o \in Runs : phase[o] = "waiting" => ~Exceeds(reservation[o])

(* The cost of a reservation is the price of all its tokens rounded up     *)
(* once, however many calls reported them: it never undercounts, and       *)
(* overcounts by less than one microunit.                                  *)
CostIsRoundedOnce ==
  \A o \in Owners :
    LET price == reservation[o].used["tokens"] * reservation[o].rate
        cost  == reservation[o].used["cost"] * Unit
    IN  price <= cost /\ cost < price + Unit

=============================================================================
