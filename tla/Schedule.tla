------------------------------ MODULE Schedule ------------------------------
(***************************************************************************)
(* One schedule (modules/scheduler, jobs/scheduler.py): operators publish, *)
(* revoke and cancel its revisions; dispatchers claim it when its next     *)
(* occurrence has arrived, resolve what it owes, file a run for each owed  *)
(* occurrence, each in a transaction of its own, and only then put the     *)
(* schedule back; a sweep recovers a schedule that was claimed and never   *)
(* put back.                                                               *)
(*                                                                         *)
(* Time is counted in instants from 1; 0 stands for "none" in a column     *)
(* that holds a time, and for the instant before starts_at.                *)
(***************************************************************************)
EXTENDS Naturals, FiniteSets, FiniteSetsExt

CONSTANTS
  Dispatchers,   \* workers that poll or sweep
  Horizon,       \* bound: the last instant the clock may show
  Clock,         \* bound: the instants it shows, when anything happens
  Definitions,   \* what operators publish: a recurrence, as the instants its
                 \* rule expands to and ends_at, and a misfire policy; an
                 \* instant past Horizon stands for a rule that goes on
  Day,           \* the margin a lookup widens its window by, a day
  Probes,        \* candidates a lookup tries before it gives up, 64
  BatchLimit,    \* MAX_OCCURRENCES_PER_RESOLUTION
  CountLimit,    \* MAX_SKIPPED_COUNTED
  MaxRevision    \* bound: number of revisions published

ASSUME ScheduleAssumption ==
  /\ Horizon \in Nat
  /\ Clock \subseteq 0..Horizon
  /\ Definitions \subseteq
       [rule   : [times : SUBSET (1..(Horizon + 1)), ends : 1..(Horizon + 1)],
        policy : {"coalesce", "fire_all"}]
  /\ Day \in Nat
  /\ Probes \in Nat \ {0}
  /\ BatchLimit \in Nat \ {0}
  /\ CountLimit \in Nat \ {0}
  /\ MaxRevision \in Nat \ {0}

VARIABLES
  now,          \* the clock
  schedule,     \* the schedule row
  definition,   \* its revision rows
  run,          \* the run of each instant: unique, whatever its revision
  dispatcher,   \* what each dispatcher is at
  base,         \* history: last_fired_at when the revision was published
  counted,      \* history: instants in the misfired_count of a filed run
  floored,      \* history: <<t, u>> when t was left out of the count of u's
                \* run, because the count had reached its limit
  uncounted,    \* history: instants whose count was dropped with a run that
                \* already existed
  outrun        \* history: instants a dispatcher had resolved from a
                \* definition that was revoked before it was done

histories == <<base, counted, floored, uncounted, outrun>>
vars      == <<now, schedule, definition, run, dispatcher, histories>>

Instants  == 1..(Horizon + 1)
Moments   == 0..(Horizon + 1)
Revisions == 1..MaxRevision

ScheduleRow ==
  [revision : Revisions, enabled : BOOLEAN, deleted : BOOLEAN,
   next : Moments, lastFired : Moments, retired : BOOLEAN]
Recurrence == [times : SUBSET Instants, ends : Instants]
Policies   == {"coalesce", "fire_all"}
DefinitionRow ==
  [rule : Recurrence, policy : Policies,
   state : {"none", "published", "revoked"}]
RunRow ==
  [revision : {0} \union Revisions, cancelled : BOOLEAN, misfired : 0..CountLimit]
DispatcherState ==
  [at : {"idle", "check", "load", "file", "mark"},
   revision : {0} \union Revisions, now : Moments,
   due : SUBSET Instants, missed : SUBSET Instants,
   firedAt : Moments, next : Moments]

Idle == [at |-> "idle", revision |-> 0, now |-> 0, due |-> {}, missed |-> {},
         firedAt |-> 0, next |-> 0]

Consistent(me) ==
  /\ (me.at = "file") = (me.due # {})
  /\ (me.at = "idle") = (me.revision = 0)

TypeOK ==
  /\ now \in Clock
  /\ schedule \in ScheduleRow
  /\ definition \in [Revisions -> DefinitionRow]
  /\ run \in [Instants -> RunRow]
  /\ dispatcher \in [Dispatchers -> DispatcherState]
  /\ \A d \in Dispatchers : Consistent(dispatcher[d])
  /\ base \in Moments
  /\ counted \subseteq Instants
  /\ floored \subseteq Instants \X Instants
  /\ uncounted \subseteq Instants
  /\ outrun \subseteq Instants

-----------------------------------------------------------------------------
(* Recurrences *)

Occurrences(rule) == {t \in rule.times : t <= rule.ends}

Earliest(times) == CHOOSE t \in times : \A u \in times : t <= u
Latest(times)   == CHOOSE t \in times : \A u \in times : t >= u

(* How far a bounded walk over a set of instants gets, from either end.    *)
Oldest(n, times) == {t \in times : Cardinality({u \in times : u <= t}) <= n}
Newest(n, times) == {t \in times : Cardinality({u \in times : u >= t}) <= n}

Between(rule, after, until) ==
  {t \in Occurrences(rule) : after < t /\ t <= until}

(* next_occurrence walks forward from a day before the moment, and gives   *)
(* up after Probes candidates.                                             *)
NextCandidates(rule, moment) ==
  {t \in Oldest(Probes, {u \in rule.times : u + Day >= moment}) : t > moment}

NextOccurrence(rule, moment) ==
  LET found == NextCandidates(rule, moment)
  IN IF found = {} THEN 0
     ELSE IF Earliest(found) > rule.ends THEN 0 ELSE Earliest(found)

(* latest_occurrence walks back from a day after the moment, and asks again*)
(* from ends_at when it meets a candidate past it.                         *)
LatestCandidate(rule, moment) ==
  LET found == {t \in Newest(Probes, {u \in rule.times : u <= moment + Day}) : t <= moment}
  IN IF found = {} THEN 0 ELSE Latest(found)

LatestOccurrence(rule, moment) ==
  LET found == LatestCandidate(rule, moment)
  IN IF found > rule.ends THEN LatestCandidate(rule, rule.ends) ELSE found

(* resolve_due: the occurrences to file for a schedule that last fired at  *)
(* `since`, and those owed that go into the count of the skipped ones.     *)
Owe(rule, policy, since, moment) ==
  IF policy = "coalesce"
  THEN {t \in {LatestOccurrence(rule, moment)} : t > since}
  ELSE Oldest(BatchLimit, Between(rule, since, moment))

Missed(rule, policy, since, moment) ==
  LET owe == Owe(rule, policy, since, moment)
  IN IF owe = {} THEN {} ELSE Between(rule, since, moment) \ owe

(* The count stops at its limit.                                           *)
Skipped(missed) == Oldest(CountLimit, missed)

Unpublished ==
  [rule |-> [times |-> {}, ends |-> 1], policy |-> "coalesce", state |-> "none"]

PublishedRow(new) ==
  [rule |-> new.rule, policy |-> new.policy, state |-> "published"]

(* create_schedule: a definition needs a first occurrence, of any time.    *)
Init ==
  /\ now \in Clock
  /\ \E new \in Definitions :
       /\ NextOccurrence(new.rule, 0) # 0
       /\ definition = [r \in Revisions |->
            IF r = 1 THEN PublishedRow(new) ELSE Unpublished]
       /\ schedule = [revision |-> 1, enabled |-> TRUE, deleted |-> FALSE,
                      next |-> NextOccurrence(new.rule, 0), lastFired |-> 0,
                      retired |-> FALSE]
  /\ run = [t \in Instants |-> [revision |-> 0, cancelled |-> FALSE, misfired |-> 0]]
  /\ dispatcher = [d \in Dispatchers |-> Idle]
  /\ base = 0
  /\ counted = {} /\ floored = {} /\ uncounted = {} /\ outrun = {}

Tick ==
  /\ \E t \in Clock : t > now /\ now' = t
  /\ UNCHANGED <<schedule, definition, run, dispatcher, histories>>

-----------------------------------------------------------------------------
(* Operators *)

(* Mutant: the row stays retired.                                          *)
PublishedKeepingRetired(rule) ==
  [schedule EXCEPT !.revision = @ + 1, !.enabled = TRUE,
                   !.next = NextOccurrence(rule, 0)]

Published(rule) ==
  [schedule EXCEPT !.revision = @ + 1, !.enabled = TRUE,
                   !.next = NextOccurrence(rule, 0), !.retired = FALSE]

(* update_schedule: the next time is the first occurrence from starts_at,  *)
(* which may have passed; the time it last fired stays.                    *)
UpdateSchedule ==
  /\ ~schedule.deleted
  /\ schedule.revision < MaxRevision
  /\ \E new \in Definitions :
       /\ NextOccurrence(new.rule, 0) # 0
       /\ schedule' = Published(new.rule)
       /\ definition' =
            [definition EXCEPT ![schedule.revision + 1] = PublishedRow(new)]
  /\ base' = schedule.lastFired
  /\ UNCHANGED <<now, run, dispatcher, counted, floored, uncounted, outrun>>

CancelSchedule ==
  /\ ~schedule.deleted
  /\ schedule' = [schedule EXCEPT !.enabled = FALSE, !.next = 0, !.deleted = TRUE]
  /\ UNCHANGED <<now, definition, run, dispatcher, histories>>

RunsOf(r) == {t \in Instants : run[t].revision = r}

(* revoke_schedule_revision, up to its commit.                             *)
RevokeRevision(r) ==
  /\ ~schedule.deleted
  /\ definition[r].state = "published"
  /\ definition' = [definition EXCEPT ![r].state = "revoked"]
  /\ schedule' = IF schedule.revision = r
                 THEN [schedule EXCEPT !.enabled = FALSE, !.next = 0]
                 ELSE schedule
  /\ run' = [t \in Instants |->
       IF t \in RunsOf(r) THEN [run[t] EXCEPT !.cancelled = TRUE] ELSE run[t]]
  /\ outrun' = outrun \union
       UNION {dispatcher[d].due : d \in {e \in Dispatchers : dispatcher[e].revision = r}}
  /\ UNCHANGED <<now, dispatcher, base, counted, floored, uncounted>>

-----------------------------------------------------------------------------
(* Dispatchers *)

Goto(d, state) == dispatcher' = [dispatcher EXCEPT ![d] = state]

(* claim_due: the time is read before the claim.                           *)
ClaimDue(d) ==
  /\ dispatcher[d].at = "idle"
  /\ schedule.enabled /\ ~schedule.deleted
  /\ schedule.next # 0 /\ schedule.next <= now
  /\ schedule' = [schedule EXCEPT !.next = 0]
  /\ Goto(d, [Idle EXCEPT !.at = "load", !.revision = schedule.revision, !.now = now])
  /\ UNCHANGED <<now, definition, run, histories>>

(* stranded, as recover_stranded_schedules calls it: the claim is older    *)
(* than fifteen minutes, its dispatcher may be slow or dead.               *)
FindStranded(d) ==
  /\ dispatcher[d].at = "idle"
  /\ schedule.enabled /\ ~schedule.deleted
  /\ schedule.next = 0 /\ ~schedule.retired
  /\ Goto(d, [Idle EXCEPT !.at = "check", !.revision = schedule.revision])
  /\ UNCHANGED <<now, schedule, definition, run, histories>>

(* The rest of the sweep's turn: the revision it has read must still be    *)
(* published, not current.                                                 *)
RecoverStranded(d) ==
  LET me == dispatcher[d] IN
  /\ me.at = "check"
  /\ IF definition[me.revision].state = "published"
     THEN Goto(d, [me EXCEPT !.at = "load", !.now = now])
     ELSE Goto(d, Idle)
  /\ UNCHANGED <<now, schedule, definition, run, histories>>

(* Mutant: a definition is loaded whatever became of it.                   *)
LoadableAnyway(r) == definition[r].state # "none"

Loadable(r) == definition[r].state = "published"

(* _dispatch_one, its first transaction: the definition is the claimed     *)
(* one, the time it last fired is the row's own.                           *)
LoadUnavailable(d) ==
  /\ dispatcher[d].at = "load"
  /\ ~Loadable(dispatcher[d].revision)
  /\ Goto(d, Idle)
  /\ UNCHANGED <<now, schedule, definition, run, histories>>

(* Mutant: a schedule that owes nothing is not put back on its own.        *)
AfterLoadFile(owe) == "file"

(* With nothing left to file, the schedule is put back.                    *)
AfterLoad(owe) == IF owe = {} THEN "mark" ELSE "file"

LoadDefinition(d) ==
  LET me     == dispatcher[d]
      defn   == definition[me.revision]
      since  == schedule.lastFired
      owe    == Owe(defn.rule, defn.policy, since, me.now)
      fired  == IF owe # {} THEN Latest(owe) ELSE IF since = 0 THEN me.now ELSE since
  IN
  /\ me.at = "load"
  /\ Loadable(me.revision)
  /\ Goto(d, [me EXCEPT !.at = AfterLoad(owe),
                        !.due = owe,
                        !.missed = Missed(defn.rule, defn.policy, since, me.now),
                        !.firedAt = fired, !.now = 0,
                        !.next = NextOccurrence(defn.rule, me.now)])
  /\ UNCHANGED <<now, schedule, definition, run, histories>>

Filed(t) == run[t].revision # 0

(* One occurrence, oldest first, with its Agent run; only the first run    *)
(* carries the count of those skipped.  An occurrence that exists already  *)
(* rolls its savepoint back, and the count with it.                        *)
FileOccurrence(d) ==
  LET me      == dispatcher[d]
      t       == Earliest(me.due)
      rest    == me.due \ {t}
      skipped == Skipped(me.missed)
  IN
  /\ me.at = "file"
  /\ IF Filed(t)
     THEN /\ uncounted' = uncounted \union me.missed
          /\ UNCHANGED <<run, counted, floored>>
     ELSE /\ run' = [run EXCEPT ![t].revision = me.revision,
                                ![t].misfired = Cardinality(skipped)]
          /\ counted' = counted \union skipped
          /\ floored' = floored \union ((me.missed \ skipped) \X {t})
          /\ uncounted' = uncounted
  /\ Goto(d, [me EXCEPT !.at = AfterLoad(rest),
                        !.due = rest, !.missed = {}])
  /\ UNCHANGED <<now, schedule, definition, base, outrun>>

(* Mutant: the update does not name the revision that was claimed.         *)
FiredWhatever(me) ==
  [schedule EXCEPT !.lastFired = me.firedAt, !.next = me.next, !.retired = (me.next = 0)]

(* mark_fired: the row of the revision that was claimed.                   *)
Fired(me) ==
  IF schedule.revision # me.revision THEN schedule
  ELSE [schedule EXCEPT !.lastFired = me.firedAt, !.next = me.next,
                        !.retired = (me.next = 0)]

MarkFired(d) ==
  /\ dispatcher[d].at = "mark"
  /\ schedule' = Fired(dispatcher[d])
  /\ Goto(d, Idle)
  /\ UNCHANGED <<now, definition, run, histories>>

(* A dispatcher gives up before it has put the schedule back, and leaves   *)
(* the rows as they are: its process dies; the rule does not resolve; the  *)
(* budget refuses the run of an occurrence (only a conflict of occurrences *)
(* is caught); or the refusal of another schedule ended its whole batch.   *)
GiveUp(d) ==
  /\ dispatcher[d].at # "idle"
  /\ Goto(d, Idle)
  /\ UNCHANGED <<now, schedule, definition, run, histories>>

Dispatch(d) ==
  \/ RecoverStranded(d)
  \/ LoadUnavailable(d) \/ LoadDefinition(d)
  \/ FileOccurrence(d) \/ MarkFired(d)

Next ==
  \/ Tick
  \/ UpdateSchedule \/ CancelSchedule
  \/ \E r \in Revisions : RevokeRevision(r)
  \/ \E d \in Dispatchers :
       ClaimDue(d) \/ FindStranded(d) \/ Dispatch(d) \/ GiveUp(d)

(* The poll and the sweep are periodic work, and a dispatcher that does    *)
(* not give up gets on.                                                    *)
Fairness ==
  /\ WF_vars(\E d \in Dispatchers : ClaimDue(d))
  /\ WF_vars(\E d \in Dispatchers : FindStranded(d))
  /\ \A d \in Dispatchers : WF_vars(Dispatch(d))

Spec == Init /\ [][Next]_vars /\ Fairness

-----------------------------------------------------------------------------
(* Properties *)

Current  == definition[schedule.revision]
Promised == {t \in Occurrences(Current.rule) : t > base}
Passed   == IF schedule.retired THEN Promised
            ELSE {t \in Promised : t <= schedule.lastFired}
Floored  == {t \in Instants : \E u \in Instants :
               <<t, u>> \in floored /\ Filed(u) /\ run[u].misfired = CountLimit}
Counted  == counted \union uncounted \union Floored

(* The lookups reach: fewer than Probes candidates lie in the day up to a  *)
(* moment that others follow, and in the day after a moment.               *)
Walkable(rule) ==
  \A m \in Moments :
    /\ (\E t \in rule.times : t > m)
         => Cardinality({t \in rule.times : m <= t + Day /\ t <= m}) < Probes
    /\ Cardinality({t \in rule.times : m < t /\ t <= m + Day}) < Probes

(* What the schedule has put behind it - the occurrences of its current    *)
(* revision up to last_fired_at, all of them once it is retired - is filed,*)
(* or was counted as skipped: for a later one that is filed, where they are*)
(* coalesced, and otherwise past the last one fired.  One left out of a    *)
(* count has a filed run whose count is at its limit, and so a floor.  Only*)
(* a rule too dense for the bounded lookups is promised nothing.           *)
NothingSlipsBy ==
  Walkable(Current.rule) =>
    \A t \in Passed :
      \/ Filed(t)
      \/ /\ t \in Counted
         /\ IF Current.policy = "coalesce"
            THEN \E u \in Passed : u > t /\ Filed(u)
            ELSE t > schedule.lastFired

(* A run of a revision that is revoked was asked to stop, or a dispatcher  *)
(* had resolved its occurrence from the definition before the revocation.  *)
RevokedWorkIsCancelled ==
  \A t \in Instants :
    Filed(t) /\ definition[run[t].revision].state = "revoked"
      => run[t].cancelled \/ t \in outrun

(* An occurrence of a rule the lookups can walk, arrived and not accounted *)
(* for, in a schedule that is in service.                                  *)
Overdue ==
  /\ schedule.enabled
  /\ Walkable(Current.rule)
  /\ \E t \in Promised : t <= now /\ ~Filed(t) /\ t \notin Counted

(* As long as dispatchers do not give up for ever, an occurrence that has  *)
(* arrived does not stay overdue, whoever gave up on the way: it is filed  *)
(* or counted as skipped, unless the revision that promised it is replaced *)
(* or taken out of service.                                                *)
NothingStaysOverdue ==
  <>[][\A d \in Dispatchers : ~GiveUp(d)]_vars => []<>(~Overdue)
=============================================================================
