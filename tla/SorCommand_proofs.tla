------------------------- MODULE SorCommand_proofs -------------------------
(***************************************************************************)
(* Proofs about SorCommand: what a receipt says of the vendor's record is  *)
(* true, and receipts keep their contract with the Agent run that waits    *)
(* for them, and of no settled command is the run left unaware, whatever   *)
(* stalls, dies, is retried, revoked or cancelled.                         *)
(***************************************************************************)
EXTENDS SorCommand, AbsurdPool_proofs

-----------------------------------------------------------------------------
(* Types, as far as the proofs need them *)

PCs       == {"idle"} \union CommandSteps
RowStates == {"none"} \union Active \union Outcomes

CommandKind ==
  [state : RowStates, bound : BOOLEAN, attempts : Nat, applied : BOOLEAN]
TaskKind == [state : {"none", "ready", "running"} \union Over, tries : Nat]

LaneTypes ==
  /\ lane \in [Lanes -> LaneRow(PCs, {"none"})]
  /\ \A l \in Lanes : lane[l].pc # "idle" => lane[l].job \in Commands
  /\ \A l \in Lanes : lane[l].pc = "idle" => lane[l].job \notin Commands

RowTypes ==
  /\ cmd \in [Commands -> CommandKind]
  /\ task \in [Commands -> TaskKind]
  /\ wrote \in [Commands -> 0..2]
  /\ DOMAIN agent = Commands /\ DOMAIN told = Commands

-----------------------------------------------------------------------------
(* The invariant, command by command *)

Early     == {"claim", "check", "write", "conflicting"}  \* before the vendor
Reading   == {"fetch", "project"}                        \* after the write is recorded
PastBegin == Early \union Reading \union {"save", "record", "failing", "rejecting"}

On(l, c, pcs) == lane[l].job = c /\ lane[l].pc \in pcs
Holder(l, c)  == lane[l].job = c /\ lane[l].holds

Settled(c)   == cmd[c].state \in Outcomes
Applied(c)   == cmd[c].applied
Bound(c)     == cmd[c].bound
Begun(c)     == cmd[c].attempts > 0
First(c)     == cmd[c].attempts = 1
Performed(c) == wrote[c] > 0
Once(c)      == wrote[c] <= 1

(* Whoever says that a command is settled is right.                        *)
SettledIsSaid(c) ==
  /\ agent[c] = "idle" => cmd[c].state = "none"
  /\ c \in woken \/ <<c, "emit">> \in notices => Settled(c)
  /\ \A l \in Lanes : On(l, c, {"emit"}) => Settled(c)

(* One lane at most holds the claim of the task, which runs.               *)
OneHolder(c) ==
  \A l \in Lanes : Holder(l, c) =>
    /\ task[c].state = "running"
    /\ \A k \in Lanes : Holder(k, c) => k = l

(* Where the write is recorded, it was performed.                          *)
AppliedIsWritten(c) ==
  /\ cmd[c].state = "succeeded" => Applied(c)
  /\ Applied(c) => Performed(c)
  /\ c \in written => Performed(c)
  /\ \A l \in Lanes : On(l, c, Reading) => Applied(c)
  /\ \A l \in Lanes : On(l, c, {"save", "record"}) => Performed(c)

(* Nothing is performed before an attempt began, which takes a binding.    *)
BegunBefore(c) ==
  /\ Performed(c) => Begun(c)
  /\ \A l \in Lanes : On(l, c, PastBegin) => Begun(c)
  /\ Begun(c) => Bound(c)
  /\ c \in spawning => ~Bound(c)

(* In the first attempt one lane at most works on the command, and has not *)
(* sent it before it comes to the vendor.                                  *)
FirstAttempt(c) ==
  First(c) =>
    /\ \A l, k \in Lanes : On(l, c, PastBegin) /\ On(k, c, PastBegin) => l = k
    /\ \A l \in Lanes : On(l, c, Early) => ~Performed(c)
    /\ cmd[c].state = "conflict" => ~Performed(c) /\ \A l \in Lanes : ~On(l, c, PastBegin)

(* A command performed without doubt is saved, or the lane that holds it is*)
(* about to save it.                                                       *)
DoubtIsKnown(c) ==
  c \notin doubt =>
    /\ Once(c)
    /\ Performed(c) /\ c \notin written =>
         \E l \in Lanes : On(l, c, {"save"}) /\ Holder(l, c)

CommandInv(c) ==
  /\ SettledIsSaid(c) /\ OneHolder(c) /\ AppliedIsWritten(c)
  /\ BegunBefore(c) /\ FirstAttempt(c) /\ DoubtIsKnown(c)

SorInv == LaneTypes /\ RowTypes /\ \A c \in Commands : CommandInv(c)

LEMMA StepSets ==
  /\ {"claim", "check", "write", "conflicting"} = Early
  /\ {"fetch", "project"} = Reading
  /\ {"claim", "check", "write", "conflicting", "fetch", "project", "save", "record",
      "failing", "rejecting"} = PastBegin
  /\ PastBegin \union {"begin", "emit"} = CommandSteps
  /\ "idle" \notin CommandSteps
  /\ Outcomes \intersect Active = {} /\ "none" \notin Outcomes \union Active
BY DEF Early, Reading, PastBegin, CommandSteps, Outcomes, Active

-----------------------------------------------------------------------------
(* Steps that leave a command aside *)

Aside(c) ==
  /\ \A l \in Lanes : lane[l].job = c \/ lane'[l].job = c => lane'[l] = lane[l]
  /\ cmd'[c] = cmd[c] /\ task'[c] = task[c] /\ wrote'[c] = wrote[c] /\ agent'[c] = agent[c]
  /\ c \in written' <=> c \in written
  /\ c \in doubt' <=> c \in doubt
  /\ c \in spawning' <=> c \in spawning
  /\ c \in woken' <=> c \in woken
  /\ <<c, "emit">> \in notices' <=> <<c, "emit">> \in notices

LEMMA AsideKeeps ==
  ASSUME NEW c \in Commands, CommandInv(c), Aside(c)
  PROVE  CommandInv(c)'
<1>1. /\ Applied(c)' <=> Applied(c)
      /\ Bound(c)' <=> Bound(c)
      /\ Settled(c)' <=> Settled(c)
      /\ cmd'[c].state = cmd[c].state
  BY DEF Aside, Applied, Bound, Settled
<1>2. /\ Begun(c)' <=> Begun(c)
      /\ First(c)' <=> First(c)
      /\ Performed(c)' <=> Performed(c)
      /\ Once(c)' <=> Once(c)
  BY DEF Aside, Begun, First, Performed, Once
<1>3. \A l \in Lanes : \A s : On(l, c, s)' <=> On(l, c, s)
  BY DEF Aside, On
<1>4. \A l \in Lanes : Holder(l, c)' <=> Holder(l, c)
  BY DEF Aside, Holder
<1>5. SettledIsSaid(c)'  BY <1>1, <1>3 DEF CommandInv, SettledIsSaid, Aside
<1>6. OneHolder(c)'  BY <1>4 DEF CommandInv, OneHolder, Aside
<1>7. AppliedIsWritten(c)'  BY <1>1, <1>2, <1>3 DEF CommandInv, AppliedIsWritten, Aside
<1>8. BegunBefore(c)'  BY <1>1, <1>2, <1>3 DEF CommandInv, BegunBefore, Aside
<1>9. FirstAttempt(c)'  BY <1>1, <1>2, <1>3 DEF CommandInv, FirstAttempt
<1>10. DoubtIsKnown(c)'  BY <1>2, <1>3, <1>4 DEF CommandInv, DoubtIsKnown, Aside
<1> QED BY <1>5, <1>6, <1>7, <1>8, <1>9, <1>10 DEF CommandInv

-----------------------------------------------------------------------------
(* What a handler does to its command *)

(* The lane of a command goes on to another step, or leaves it.            *)
Goes(l, c, pc) ==
  /\ lane[l].job = c
  /\ \A k \in Lanes : k # l => lane'[k] = lane[k]
  /\ lane'[l].job = c /\ lane'[l].pc = pc /\ lane'[l].holds = lane[l].holds
  /\ task'[c] = task[c]

Leaves(l, c) ==
  /\ lane[l].job = c
  /\ \A k \in Lanes : k # l => lane'[k] = lane[k]
  /\ lane'[l].job # c
  /\ task'[c] = task[c] \/ Holder(l, c)

(* What the row of a command may turn into, and what says so.              *)
RowMoves(c) ==
  /\ Bound(c)' <=> Bound(c)
  /\ Begun(c)' <=> Begun(c)
  /\ First(c)' <=> First(c)
  /\ Applied(c) => Applied(c)'
  /\ Applied(c)' => Performed(c)
  /\ cmd[c].state = "succeeded" => Applied(c)
  /\ \/ cmd'[c].state = cmd[c].state
     \/ cmd[c].state \in Active /\ (cmd'[c].state = "succeeded" => Applied(c)')

SayMoves(c) ==
  /\ agent'[c] = agent[c]
  /\ c \in spawning' <=> c \in spawning
  /\ c \in woken' \/ <<c, "emit">> \in notices' => Settled(c)'

EffectStays(c) ==
  /\ Performed(c)' <=> Performed(c)
  /\ Once(c)' <=> Once(c)
  /\ c \in written' <=> c \in written
  /\ c \in doubt => c \in doubt'

LEMMA SettledStays ==
  ASSUME NEW c \in Commands, RowMoves(c)
  PROVE  /\ Settled(c) => Settled(c)' /\ cmd'[c].state = cmd[c].state
         /\ cmd[c].state = "none" => cmd'[c].state = "none"
BY StepSets DEF RowMoves, Settled

LEMMA GoesKeeps ==
  ASSUME NEW c \in Commands, CommandInv(c), NEW l \in Lanes, NEW pc, Goes(l, c, pc),
         RowMoves(c), SayMoves(c), EffectStays(c),
         pc = "emit" => Settled(c)',
         pc \in Reading => Applied(c)',
         pc \in {"save", "record"} => Performed(c),
         pc \in PastBegin => lane[l].pc \in PastBegin,
         pc \in Early => lane[l].pc \in Early,
         lane[l].pc = "save" => ~Holder(l, c),
         cmd'[c].state = "conflict" => \/ cmd[c].state = "conflict"
                                       \/ lane[l].pc \in Early /\ pc \notin PastBegin
  PROVE  CommandInv(c)'
<1>1. \A k \in Lanes : \A s : On(k, c, s)' <=> IF k = l THEN pc \in s ELSE On(k, c, s)
  BY DEF Goes, On
<1>2. \A k \in Lanes : Holder(k, c)' <=> Holder(k, c)
  BY DEF Goes, Holder
<1>3. \A s : On(l, c, s) <=> lane[l].pc \in s
  BY DEF Goes, On
<1>4. SettledIsSaid(c)'
  <2>1. \A k \in Lanes : On(k, c, {"emit"})' => Settled(c)'
    BY <1>1, SettledStays DEF CommandInv, SettledIsSaid
  <2> QED BY <2>1, SettledStays DEF CommandInv, SettledIsSaid, SayMoves
<1>5. OneHolder(c)'  BY <1>2 DEF CommandInv, OneHolder, Goes
<1>6. AppliedIsWritten(c)'
  <2>1. cmd'[c].state = "succeeded" => Applied(c)'  BY DEF RowMoves
  <2>2. \A k \in Lanes : On(k, c, Reading)' => Applied(c)'
    BY <1>1 DEF RowMoves, CommandInv, AppliedIsWritten
  <2>3. \A k \in Lanes : On(k, c, {"save", "record"})' => Performed(c)'
    BY <1>1 DEF EffectStays, CommandInv, AppliedIsWritten
  <2> QED BY <2>1, <2>2, <2>3 DEF CommandInv, AppliedIsWritten, RowMoves, EffectStays
<1>7. BegunBefore(c)'
  <2>1. \A k \in Lanes : On(k, c, PastBegin)' => Begun(c)'
    BY <1>1, <1>3 DEF CommandInv, BegunBefore, RowMoves
  <2> QED BY <2>1 DEF CommandInv, BegunBefore, RowMoves, EffectStays, SayMoves
<1>8. FirstAttempt(c)'
  <2> SUFFICES ASSUME First(c)
               PROVE  /\ \A j, k \in Lanes : On(j, c, PastBegin)' /\ On(k, c, PastBegin)' => j = k
                      /\ \A k \in Lanes : On(k, c, Early)' => ~Performed(c)'
                      /\ cmd'[c].state = "conflict" =>
                           ~Performed(c)' /\ \A k \in Lanes : ~On(k, c, PastBegin)'
    BY DEF FirstAttempt, RowMoves
  <2>0. \A k \in Lanes : On(k, c, PastBegin)' => On(k, c, PastBegin)
    BY <1>1, <1>3
  <2>1. \A j, k \in Lanes : On(j, c, PastBegin)' /\ On(k, c, PastBegin)' => j = k
    BY <2>0 DEF CommandInv, FirstAttempt
  <2>2. \A k \in Lanes : On(k, c, Early)' => ~Performed(c)'
    BY <1>1, <1>3 DEF CommandInv, FirstAttempt, EffectStays
  <2>3. ASSUME cmd'[c].state = "conflict"
        PROVE  ~Performed(c)' /\ \A k \in Lanes : ~On(k, c, PastBegin)'
    <3>1. CASE cmd[c].state = "conflict"
      BY <2>0, <3>1 DEF CommandInv, FirstAttempt, EffectStays
    <3>2. CASE lane[l].pc \in Early /\ pc \notin PastBegin
      <4>1. On(l, c, Early) /\ On(l, c, PastBegin)  BY <1>3, <3>2 DEF PastBegin
      <4>2. ~Performed(c)'  BY <4>1 DEF CommandInv, FirstAttempt, EffectStays
      <4>3. \A k \in Lanes : On(k, c, PastBegin) => k = l
        BY <4>1 DEF CommandInv, FirstAttempt
      <4> QED BY <1>1, <2>0, <3>2, <4>2, <4>3
    <3> QED BY <2>3, <3>1, <3>2
  <2> QED BY <2>1, <2>2, <2>3
<1>9. DoubtIsKnown(c)'
  <2> SUFFICES ASSUME c \notin doubt, Performed(c), c \notin written
               PROVE  \E k \in Lanes : On(k, c, {"save"})' /\ Holder(k, c)'
    BY DEF CommandInv, DoubtIsKnown, EffectStays
  <2>1. PICK k \in Lanes : On(k, c, {"save"}) /\ Holder(k, c)
    BY DEF CommandInv, DoubtIsKnown
  <2>2. k # l  BY <1>3, <2>1
  <2> QED BY <1>1, <1>2, <2>1, <2>2
<1> QED BY <1>4, <1>5, <1>6, <1>7, <1>8, <1>9 DEF CommandInv

LEMMA LeavesKeeps ==
  ASSUME NEW c \in Commands, CommandInv(c), NEW l \in Lanes, Leaves(l, c),
         RowMoves(c), SayMoves(c), EffectStays(c),
         lane[l].pc = "save" => ~Holder(l, c) \/ c \in doubt',
         cmd'[c].state = "conflict" => cmd[c].state = "conflict"
  PROVE  CommandInv(c)'
<1>1. \A k \in Lanes : \A s : On(k, c, s)' => On(k, c, s)
  BY DEF Leaves, On
<1>2. \A k \in Lanes : k # l => (\A s : On(k, c, s)' <=> On(k, c, s)) /\ (Holder(k, c)' <=> Holder(k, c))
  BY DEF Leaves, On, Holder
<1>3. ~Holder(l, c)'  BY DEF Leaves, Holder
<1>4. SettledIsSaid(c)'
  BY <1>1, SettledStays DEF CommandInv, SettledIsSaid, SayMoves
<1>5. OneHolder(c)'
  <2>1. \A k \in Lanes : Holder(k, c)' => Holder(k, c) /\ k # l  BY <1>2, <1>3
  <2>2. \A k \in Lanes : Holder(k, c)' => task'[c] = task[c]
    BY <2>1 DEF CommandInv, OneHolder, Leaves
  <2> QED BY <2>1, <2>2 DEF CommandInv, OneHolder
<1>6. AppliedIsWritten(c)'
  BY <1>1 DEF CommandInv, AppliedIsWritten, RowMoves, EffectStays
<1>7. BegunBefore(c)'
  BY <1>1 DEF CommandInv, BegunBefore, RowMoves, EffectStays, SayMoves
<1>8. FirstAttempt(c)'
  BY <1>1 DEF CommandInv, FirstAttempt, RowMoves, EffectStays
<1>9. DoubtIsKnown(c)'
  <2> SUFFICES ASSUME c \notin doubt', Performed(c), c \notin written
               PROVE  \E k \in Lanes : On(k, c, {"save"})' /\ Holder(k, c)'
    BY DEF CommandInv, DoubtIsKnown, EffectStays
  <2>1. PICK k \in Lanes : On(k, c, {"save"}) /\ Holder(k, c)
    BY DEF CommandInv, DoubtIsKnown, EffectStays
  <2>2. k # l  BY <2>1 DEF On
  <2> QED BY <1>2, <2>1, <2>2
<1> QED BY <1>4, <1>5, <1>6, <1>7, <1>8, <1>9 DEF CommandInv
-----------------------------------------------------------------------------
(* Lanes and rows of the actions *)

(* The lanes and the task of every other command stay as they are.         *)
LanesAside(c) ==
  \A d \in Commands : d # c =>
    /\ \A k \in Lanes : lane[k].job = d \/ lane'[k].job = d => lane'[k] = lane[k]
    /\ task'[d] = task[d]

LEMMA StepGoes ==
  ASSUME LaneTypes, RowTypes, NEW l \in Lanes, NEW pc \in CommandSteps,
         Step(l, pc, "none"), lane[l].pc \in CommandSteps
  PROVE  /\ LaneTypes' /\ task' \in [Commands -> TaskKind]
         /\ lane[l].job \in Commands /\ Goes(l, lane[l].job, pc)
         /\ LanesAside(lane[l].job)
<1>1. lane' = [lane EXCEPT ![l].pc = pc, ![l].res = "none"] /\ task' = task  BY DEF Step
<1>2. lane[l] \in LaneRow(PCs, {"none"}) /\ pc \in PCs /\ pc # "idle" /\ lane[l].pc # "idle"
  BY StepSets DEF LaneTypes, PCs
<1>3. /\ lane'[l] \in LaneRow(PCs, {"none"})
      /\ lane'[l].job = lane[l].job /\ lane'[l].pc = pc /\ lane'[l].holds = lane[l].holds
  BY <1>1, <1>2 DEF LaneTypes, LaneRow
<1>4. \A k \in Lanes : k # l => lane'[k] = lane[k]  BY <1>1 DEF LaneTypes
<1>5. lane' \in [Lanes -> LaneRow(PCs, {"none"})]  BY <1>1, <1>3, <1>4 DEF LaneTypes
<1>6. lane[l].job \in Commands  BY <1>2 DEF LaneTypes
<1>7. LaneTypes'  BY <1>2, <1>3, <1>4, <1>5, <1>6 DEF LaneTypes
<1>8. Goes(l, lane[l].job, pc)  BY <1>1, <1>3, <1>4 DEF Goes
<1>9. LanesAside(lane[l].job)  BY <1>1, <1>3, <1>4 DEF LanesAside
<1> QED BY <1>1, <1>6, <1>7, <1>8, <1>9 DEF RowTypes

(* A handler that ends, one way or another.                                *)
LEMMA EndingLeaves ==
  ASSUME LaneTypes, RowTypes, NEW l \in Lanes, lane[l].pc \in CommandSteps,
         Returns(l) \/ GivesBack(l) \/ Dies(l)
  PROVE  /\ LaneTypes' /\ task' \in [Commands -> TaskKind]
         /\ lane[l].job \in Commands /\ Leaves(l, lane[l].job)
         /\ LanesAside(lane[l].job)
<1>1. lane' = [lane EXCEPT ![l] = Idle]  BY DEF Returns, GivesBack, Dies
<1>2. PICK c \in Commands : c = lane[l].job  BY StepSets DEF LaneTypes
<1>3. /\ lane'[l] = Idle /\ \A k \in Lanes : k # l => lane'[k] = lane[k]
  BY <1>1 DEF LaneTypes
<1>4. Idle \in LaneRow(PCs, {"none"}) /\ Idle.job \notin Commands /\ Idle.pc = "idle"
  BY PoolAssumption, CommandsAssumption DEF Idle, LaneRow, PCs
<1>5. lane' \in [Lanes -> LaneRow(PCs, {"none"})]  BY <1>1, <1>4 DEF LaneTypes
<1>6. LaneTypes'  BY <1>3, <1>4, <1>5 DEF LaneTypes
<1>7. PICK s \in {"ready", "ended", "failed"} :
        task' = task \/ (lane[l].holds /\ task' = [task EXCEPT ![c].state = s])
  BY <1>2 DEF Returns, GivesBack, Dies, Failed, Job
<1>8. /\ task' \in [Commands -> TaskKind]
      /\ \A d \in Commands : d # c => task'[d] = task[d]
      /\ task'[c] = task[c] \/ lane[l].holds
  BY <1>7 DEF RowTypes, TaskKind, Over
<1>9. Leaves(l, c)  BY <1>2, <1>3, <1>4, <1>8 DEF Leaves, Holder
<1>10. LanesAside(c)  BY <1>2, <1>3, <1>4, <1>8 DEF LanesAside
<1> QED BY <1>2, <1>6, <1>8, <1>9, <1>10

(* A row that stays.                                                       *)
LEMMA SameRow ==
  ASSUME NEW c \in Commands, CommandInv(c), cmd'[c] = cmd[c]
  PROVE  /\ RowMoves(c) /\ cmd'[c].state = cmd[c].state
         /\ Settled(c)' <=> Settled(c)
         /\ Applied(c)' <=> Applied(c)
BY DEF CommandInv, AppliedIsWritten, RowMoves, Settled, Applied, Bound, Begun, First

(* A row that takes another state.                                         *)
LEMMA StateRow ==
  ASSUME RowTypes, NEW c \in Commands, CommandInv(c), NEW s \in RowStates,
         cmd[c].state \in Active, s = "succeeded" => Applied(c), SetState(c, s)
  PROVE  /\ RowMoves(c) /\ cmd'[c].state = s
         /\ cmd' \in [Commands -> CommandKind]
         /\ \A d \in Commands : d # c => cmd'[d] = cmd[d]
<1>1. cmd' = [cmd EXCEPT ![c].state = s]  BY DEF SetState
<1>2. cmd[c] \in CommandKind /\ cmd \in [Commands -> CommandKind]  BY DEF RowTypes
<1>3. /\ cmd'[c].state = s /\ cmd'[c].bound = cmd[c].bound
      /\ cmd'[c].attempts = cmd[c].attempts /\ cmd'[c].applied = cmd[c].applied
      /\ cmd'[c] \in CommandKind
  BY <1>1, <1>2 DEF CommandKind
<1>4. /\ cmd' \in [Commands -> CommandKind]
      /\ \A d \in Commands : d # c => cmd'[d] = cmd[d]
  BY <1>1, <1>2, <1>3
<1>5. /\ Applied(c)' <=> Applied(c)
      /\ Bound(c)' <=> Bound(c)
      /\ Begun(c)' <=> Begun(c)
      /\ First(c)' <=> First(c)
  BY <1>3 DEF Applied, Bound, Begun, First
<1>6. cmd[c].state # "succeeded"  BY StepSets DEF Outcomes
<1> QED BY <1>3, <1>4, <1>5, <1>6 DEF RowMoves, CommandInv, AppliedIsWritten

(* The rest of what the handler does not touch.                            *)
LEMMA FrameSays ==
  ASSUME NEW c \in Commands, CommandInv(c), UNCHANGED <<handlerFrame, woken>>,
         Settled(c) => Settled(c)'
  PROVE  SayMoves(c)
BY DEF SayMoves, handlerFrame, runVars, CommandInv, SettledIsSaid

LEMMA FrameEffects ==
  ASSUME NEW c \in Commands, UNCHANGED effectVars
  PROVE  EffectStays(c)
BY DEF EffectStays, effectVars, Performed, Once

(* All other commands.                                                     *)
LEMMA OthersKeep ==
  ASSUME \A d \in Commands : CommandInv(d), NEW c \in Commands, LanesAside(c),
         \A d \in Commands : d # c => /\ cmd'[d] = cmd[d]
                                      /\ wrote'[d] = wrote[d] /\ agent'[d] = agent[d]
                                      /\ d \in written' <=> d \in written
                                      /\ d \in doubt' <=> d \in doubt
                                      /\ d \in spawning' <=> d \in spawning
                                      /\ d \in woken' <=> d \in woken
                                      /\ <<d, "emit">> \in notices' <=> <<d, "emit">> \in notices
  PROVE  \A d \in Commands : d # c => CommandInv(d)'
<1>1. \A d \in Commands : d # c => Aside(d)  BY DEF LanesAside, Aside
<1> QED BY <1>1, AsideKeeps

-----------------------------------------------------------------------------
(* Steps of the handler that change no row *)

(* Where a handler may go without changing its command.                    *)
MayGo(l, c, pc) ==
  /\ pc = "emit" => Settled(c)
  /\ pc \in Reading => Applied(c)
  /\ pc \in {"save", "record"} => Performed(c)
  /\ pc \in PastBegin => lane[l].pc \in PastBegin
  /\ pc \in Early => lane[l].pc \in Early
  /\ lane[l].pc = "save" => ~Holder(l, c)

LEMMA QuietGo ==
  ASSUME SorInv, NEW l \in Lanes, lane[l].pc \in CommandSteps, NEW pc \in CommandSteps,
         Step(l, pc, "none"), UNCHANGED stepFrame, MayGo(l, lane[l].job, pc)
  PROVE  SorInv'
<1>1. LaneTypes /\ RowTypes /\ \A d \in Commands : CommandInv(d)  BY DEF SorInv
<1>2. PICK c \in Commands :
        /\ c = lane[l].job /\ LaneTypes' /\ task' \in [Commands -> TaskKind]
        /\ Goes(l, c, pc) /\ LanesAside(c)
  BY <1>1, StepGoes
<1>3. UNCHANGED <<cmd, agent, told, written, wrote, doubt, spawning, woken, notices>>
  BY DEF stepFrame, rowVars, effectVars, handlerFrame, runVars
<1>4. RowTypes'  BY <1>1, <1>2, <1>3 DEF RowTypes
<1>5. CommandInv(c)'
  <2>1. /\ RowMoves(c) /\ cmd'[c].state = cmd[c].state
        /\ Settled(c)' <=> Settled(c)
        /\ Applied(c)' <=> Applied(c)
    BY <1>1, <1>3, SameRow
  <2>2. SayMoves(c)  BY <1>1, <2>1, FrameSays DEF stepFrame
  <2>3. EffectStays(c)  BY FrameEffects DEF stepFrame
  <2> QED BY <1>1, <1>2, <2>1, <2>2, <2>3, GoesKeeps DEF MayGo
<1>6. \A d \in Commands : d # c => CommandInv(d)'
  BY <1>1, <1>2, <1>3, OthersKeep
<1> QED BY <1>2, <1>4, <1>5, <1>6 DEF SorInv

LEMMA QuietEnd ==
  ASSUME SorInv, NEW l \in Lanes, lane[l].pc \in CommandSteps,
         Returns(l) \/ GivesBack(l), UNCHANGED stepFrame,
         lane[l].pc = "save" => ~lane[l].holds
  PROVE  SorInv'
<1>1. LaneTypes /\ RowTypes /\ \A d \in Commands : CommandInv(d)  BY DEF SorInv
<1>2. PICK c \in Commands :
        /\ c = lane[l].job /\ LaneTypes' /\ task' \in [Commands -> TaskKind]
        /\ Leaves(l, c) /\ LanesAside(c)
  BY <1>1, EndingLeaves
<1>3. UNCHANGED <<cmd, agent, told, written, wrote, doubt, spawning, woken, notices>>
  BY DEF stepFrame, rowVars, effectVars, handlerFrame, runVars
<1>4. RowTypes'  BY <1>1, <1>2, <1>3 DEF RowTypes
<1>5. CommandInv(c)'
  <2>1. /\ RowMoves(c) /\ cmd'[c].state = cmd[c].state
        /\ Settled(c)' <=> Settled(c)
    BY <1>1, <1>3, SameRow
  <2>2. SayMoves(c)  BY <1>1, <2>1, FrameSays DEF stepFrame
  <2>3. EffectStays(c)  BY FrameEffects DEF stepFrame
  <2>4. lane[l].pc = "save" => ~Holder(l, c)  BY DEF Holder
  <2> QED BY <1>1, <1>2, <2>1, <2>2, <2>3, <2>4, LeavesKeeps
<1>6. \A d \in Commands : d # c => CommandInv(d)'
  BY <1>1, <1>2, <1>3, OthersKeep
<1> QED BY <1>2, <1>4, <1>5, <1>6 DEF SorInv

(* What the invariant says of the handler of a lane.                       *)
LEMMA HandlerFacts ==
  ASSUME SorInv, NEW l \in Lanes, lane[l].pc \in CommandSteps
  PROVE  /\ lane[l].job \in Commands /\ CommandInv(lane[l].job)
         /\ lane[l].pc = "emit" => Settled(lane[l].job)
         /\ lane[l].pc \in Reading => Applied(lane[l].job)
         /\ lane[l].pc \in {"save", "record"} => Performed(lane[l].job)
         /\ lane[l].pc \in PastBegin => Begun(lane[l].job)
         /\ lane[l].job \in written => Performed(lane[l].job)
<1>1. PICK c \in Commands : c = lane[l].job  BY StepSets DEF SorInv, LaneTypes
<1>2. CommandInv(c)  BY DEF SorInv
<1>3. \A s : lane[l].pc \in s => On(l, c, s)  BY <1>1 DEF On
<1> QED BY <1>1, <1>2, <1>3 DEF CommandInv, SettledIsSaid, AppliedIsWritten, BegunBefore
LEMMA QuietHandler ==
  ASSUME SorInv, NEW l \in Lanes,
         \/ BeginSettled(l) \/ BeginUnbound(l) \/ Refused(l) \/ LoadClaim(l)
         \/ CheckTarget(l) \/ WriteReplayed(l) \/ VendorDeclines(l) \/ NoLongerRunning(l)
         \/ FetchRecord(l) \/ StepRaises(l) \/ EngineRaises(l)
         \/ FailureFindsSettled(l) \/ FailureRaises(l) \/ HandlerStopped(l)
  PROVE  SorInv'
<1> DEFINE c == lane[l].job
<1>0. lane[l].pc \in CommandSteps /\ UNCHANGED stepFrame
  BY StepSets
     DEF BeginSettled, BeginUnbound, Refused, LoadClaim, CheckTarget, WriteReplayed,
         VendorDeclines, NoLongerRunning, FetchRecord, StepRaises, EngineRaises,
         FailureFindsSettled, FailureRaises, HandlerStopped, Failing, At, CommandSteps
<1>1. CASE BeginUnbound(l) \/ FailureRaises(l) \/ HandlerStopped(l)
  <2>1. /\ Returns(l) \/ GivesBack(l)
        /\ lane[l].pc = "save" => ~lane[l].holds
    BY <1>1 DEF BeginUnbound, FailureRaises, HandlerStopped, Raises, At, Failing
  <2> QED BY <1>0, <2>1, QuietEnd
<1>2. CASE BeginSettled(l) \/ FailureFindsSettled(l)
  <2>1. /\ Step(l, "emit", "none") /\ Settled(c)
        /\ lane[l].pc # "save"
    BY <1>2 DEF BeginSettled, FailureFindsSettled, Goto, Settled, Job, Failing, At
  <2>2. "emit" \in CommandSteps /\ MayGo(l, c, "emit")
    BY <2>1, StepSets DEF MayGo, CommandSteps, PastBegin, Early, Reading
  <2> QED BY <1>0, <2>1, <2>2, QuietGo
<1>3. CASE Refused(l) \/ NoLongerRunning(l) \/ VendorDeclines(l) \/ StepRaises(l) \/ EngineRaises(l)
  <2>1. PICK pc \in {"rejecting", "failing"} :
          /\ Step(l, pc, "none") /\ lane[l].pc \in PastBegin
          /\ lane[l].pc = "save" => ~lane[l].holds
    BY <1>3, StepSets
       DEF Refused, NoLongerRunning, VendorDeclines, StepRaises, EngineRaises, Goto, Trips, At
  <2>2. pc \in CommandSteps /\ MayGo(l, c, pc)
    BY <2>1 DEF MayGo, CommandSteps, Reading, Early, Holder
  <2> QED BY <1>0, <2>1, <2>2, QuietGo
<1>4. CASE LoadClaim(l)
  <2>1. /\ lane[l].pc = "claim"
        /\ Step(l, IF Applied(c) THEN "fetch" ELSE "check", "none")
    BY <1>4 DEF LoadClaim, Goto, At, Applied, Job
  <2>2. CASE Applied(c)
    <3>1. MayGo(l, c, "fetch") /\ "fetch" \in CommandSteps
      BY <2>1, <2>2, StepSets DEF MayGo, CommandSteps, Early
    <3> QED BY <1>0, <2>1, <2>2, <3>1, QuietGo
  <2>3. CASE ~Applied(c)
    <3>1. MayGo(l, c, "check") /\ "check" \in CommandSteps
      BY <2>1, <2>3, StepSets DEF MayGo, CommandSteps, Reading
    <3> QED BY <1>0, <2>1, <2>3, <3>1, QuietGo
  <2> QED BY <2>2, <2>3
<1>5. CASE CheckTarget(l)
  <2>1. PICK pc \in {"conflicting", "write"} : lane[l].pc = "check" /\ Step(l, pc, "none")
    BY <1>5 DEF CheckTarget, Goto, At
  <2>2. pc \in CommandSteps /\ MayGo(l, c, pc)
    BY <2>1, StepSets DEF MayGo, CommandSteps, Reading
  <2> QED BY <1>0, <2>1, <2>2, QuietGo
<1>6. CASE WriteReplayed(l)
  <2>1. lane[l].pc = "write" /\ Step(l, "record", "none") /\ Performed(c)
    BY <1>0, <1>6, HandlerFacts DEF WriteReplayed, Goto, At, Job
  <2>2. "record" \in CommandSteps /\ MayGo(l, c, "record")
    BY <2>1, StepSets DEF MayGo, CommandSteps, Reading, Early
  <2> QED BY <1>0, <2>1, <2>2, QuietGo
<1>7. CASE FetchRecord(l)
  <2>1. lane[l].pc = "fetch" /\ Step(l, "project", "none") /\ Applied(c)
    BY <1>0, <1>7, HandlerFacts, StepSets DEF FetchRecord, Goto, At
  <2>2. "project" \in CommandSteps /\ MayGo(l, c, "project")
    BY <2>1, StepSets DEF MayGo, CommandSteps, Early
  <2> QED BY <1>0, <2>1, <2>2, QuietGo
<1> QED BY <1>1, <1>2, <1>3, <1>4, <1>5, <1>6, <1>7

-----------------------------------------------------------------------------
(* Steps of the handler that change a row *)

(* The state of the row changes, or its record of the write, and the       *)
(* handler goes on.                                                        *)
LEMMA RowGo ==
  ASSUME SorInv, NEW l \in Lanes, lane[l].pc \in CommandSteps \ {"save"}, NEW pc \in CommandSteps,
         Step(l, pc, "none"), UNCHANGED <<effectVars, woken, handlerFrame>>,
         NEW c \in Commands, c = lane[l].job,
         cmd' \in [Commands -> CommandKind],
         \A d \in Commands : d # c => cmd'[d] = cmd[d],
         RowMoves(c),
         pc = "emit" => Settled(c)',
         pc \in Reading => Applied(c)',
         pc \in {"emit", "fetch"},
         lane[l].pc \in PastBegin,
         cmd'[c].state = "conflict" => \/ cmd[c].state = "conflict"
                                       \/ lane[l].pc \in Early /\ pc = "emit"
  PROVE  SorInv'
<1>1. LaneTypes /\ RowTypes /\ \A d \in Commands : CommandInv(d)  BY DEF SorInv
<1>2. /\ LaneTypes' /\ task' \in [Commands -> TaskKind]
      /\ Goes(l, c, pc) /\ LanesAside(c)
  BY <1>1, StepGoes
<1>3. UNCHANGED <<agent, told, written, wrote, doubt, spawning, woken, notices>>
  BY DEF effectVars, handlerFrame, runVars
<1>4. RowTypes'  BY <1>1, <1>2, <1>3 DEF RowTypes
<1>5. SayMoves(c)  BY <1>1, SettledStays, FrameSays
<1>6. EffectStays(c)  BY FrameEffects
<1>7. /\ pc \notin {"save", "record"} /\ pc \notin Early /\ lane[l].pc # "save"
      /\ pc = "emit" => pc \notin PastBegin
  BY StepSets DEF Early
<1>8. CommandInv(c)'  BY <1>1, <1>2, <1>5, <1>6, <1>7, GoesKeeps
<1>9. \A d \in Commands : d # c => CommandInv(d)'
  BY <1>1, <1>2, <1>3, OthersKeep
<1> QED BY <1>2, <1>4, <1>8, <1>9 DEF SorInv

LEMMA SettlingKeeps ==
  ASSUME SorInv, NEW l \in Lanes, Project(l) \/ Conflict(l) \/ Fail(l)
  PROVE  SorInv'
<1>1. lane[l].pc \in CommandSteps \ {"save"} /\ lane[l].pc \in PastBegin /\ "emit" \in CommandSteps
  BY StepSets DEF Project, Conflict, Fail, At, CommandSteps
<1>2. PICK c \in Commands : c = lane[l].job /\ CommandInv(c)  BY <1>1, HandlerFacts
<1>3. PICK s \in {"succeeded", "conflict", "failed"} :
        /\ SetState(c, s) /\ cmd[c].state \in Active
        /\ Step(l, "emit", "none") /\ UNCHANGED <<effectVars, woken, handlerFrame>>
        /\ s = "succeeded" => lane[l].pc = "project"
        /\ s = "conflict" => lane[l].pc = "conflicting"
  BY <1>2 DEF Project, Conflict, Fail, Goto, Job, Active, At
<1>4. s \in RowStates /\ s \in Outcomes  BY DEF RowStates, Outcomes
<1>5. s = "succeeded" => Applied(c)
  BY <1>1, <1>2, <1>3, HandlerFacts, StepSets
<1>6. /\ RowMoves(c) /\ cmd'[c].state = s /\ cmd' \in [Commands -> CommandKind]
      /\ \A d \in Commands : d # c => cmd'[d] = cmd[d]
  BY <1>2, <1>3, <1>4, <1>5, StateRow DEF SorInv
<1>7. Settled(c)'  BY <1>4, <1>6 DEF Settled
<1>8. "emit" \notin Reading /\ "conflicting" \in Early  BY StepSets
<1> QED BY <1>1, <1>2, <1>3, <1>6, <1>7, <1>8, RowGo

LEMMA RecordingKeeps ==
  ASSUME SorInv, NEW l \in Lanes, RecordWrite(l)
  PROVE  SorInv'
<1>1. /\ lane[l].pc = "record" /\ lane[l].pc \in CommandSteps \ {"save"} /\ lane[l].pc \in PastBegin
      /\ "fetch" \in CommandSteps
  BY StepSets DEF RecordWrite, At, CommandSteps
<1>2. PICK c \in Commands : c = lane[l].job /\ CommandInv(c) /\ Performed(c)
  BY <1>1, HandlerFacts
<1>3. /\ cmd' = [cmd EXCEPT ![c].applied = TRUE] /\ cmd[c].state = "running"
      /\ Step(l, "fetch", "none") /\ UNCHANGED <<effectVars, woken, handlerFrame>>
  BY <1>2 DEF RecordWrite, Goto, Job
<1>4. cmd \in [Commands -> CommandKind] /\ cmd[c] \in CommandKind  BY DEF SorInv, RowTypes
<1>5. /\ cmd'[c].applied = TRUE /\ cmd'[c].state = cmd[c].state
      /\ cmd'[c].bound = cmd[c].bound /\ cmd'[c].attempts = cmd[c].attempts
      /\ cmd'[c] \in CommandKind
  BY <1>3, <1>4 DEF CommandKind
<1>6. /\ cmd' \in [Commands -> CommandKind]
      /\ \A d \in Commands : d # c => cmd'[d] = cmd[d]
  BY <1>3, <1>4, <1>5
<1>7. Applied(c)' /\ RowMoves(c)
  BY <1>2, <1>3, <1>5 DEF Applied, RowMoves, Bound, Begun, First
<1> QED BY <1>1, <1>2, <1>3, <1>5, <1>6, <1>7, RowGo

(* The handler ends: its row waits for another attempt, its event was      *)
(* emitted or not, or its lane died.                                       *)
LEMMA RowEnd ==
  ASSUME SorInv, NEW l \in Lanes, lane[l].pc \in CommandSteps,
         Returns(l) \/ GivesBack(l) \/ Dies(l), UNCHANGED <<wrote, written, handlerFrame>>,
         NEW c \in Commands, c = lane[l].job,
         cmd' \in [Commands -> CommandKind],
         \A d \in Commands : d # c => /\ cmd'[d] = cmd[d]
                                      /\ d \in doubt' <=> d \in doubt
                                      /\ d \in woken' <=> d \in woken,
         c \in doubt => c \in doubt',
         RowMoves(c),
         cmd'[c].state = "conflict" => cmd[c].state = "conflict",
         c \in woken' => c \in woken \/ Settled(c),
         lane[l].pc = "save" => ~lane[l].holds \/ c \in doubt'
  PROVE  SorInv'
<1>1. LaneTypes /\ RowTypes /\ \A d \in Commands : CommandInv(d)  BY DEF SorInv
<1>2. /\ LaneTypes' /\ task' \in [Commands -> TaskKind]
      /\ Leaves(l, c) /\ LanesAside(c)
  BY <1>1, EndingLeaves
<1>3. UNCHANGED <<agent, told, written, wrote, spawning, notices>>
  BY DEF handlerFrame, runVars
<1>4. RowTypes'  BY <1>1, <1>2, <1>3 DEF RowTypes
<1>5. SayMoves(c)
  BY <1>1, <1>3, SettledStays DEF SayMoves, CommandInv, SettledIsSaid
<1>6. EffectStays(c)  BY <1>3 DEF EffectStays, Performed, Once
<1>7. lane[l].pc = "save" => ~Holder(l, c) \/ c \in doubt'  BY DEF Holder
<1>8. CommandInv(c)'  BY <1>1, <1>2, <1>5, <1>6, <1>7, LeavesKeeps
<1>9. \A d \in Commands : d # c => CommandInv(d)'
  BY <1>1, <1>2, <1>3, OthersKeep
<1> QED BY <1>2, <1>4, <1>8, <1>9 DEF SorInv

LEMMA RetryKeeps ==
  ASSUME SorInv, NEW l \in Lanes, Retry(l)
  PROVE  SorInv'
<1>1. lane[l].pc = "failing" /\ lane[l].pc \in CommandSteps
  BY StepSets DEF Retry, At, CommandSteps
<1>2. PICK c \in Commands : c = lane[l].job /\ CommandInv(c)  BY <1>1, HandlerFacts
<1>3. /\ SetState(c, "pending") /\ cmd[c].state \in Active
      /\ GivesBack(l) /\ UNCHANGED <<effectVars, woken, handlerFrame>>
  BY <1>2 DEF Retry, Raises, Job, Active
<1>4. "pending" \in RowStates  BY DEF RowStates, Active
<1>5. /\ RowMoves(c) /\ cmd'[c].state = "pending" /\ cmd' \in [Commands -> CommandKind]
      /\ \A d \in Commands : d # c => cmd'[d] = cmd[d]
  BY <1>2, <1>3, <1>4, StateRow DEF SorInv
<1>6. UNCHANGED <<wrote, written, doubt>>  BY <1>3 DEF effectVars
<1> QED BY <1>1, <1>2, <1>3, <1>5, <1>6, RowEnd

LEMMA EmissionKeeps ==
  ASSUME SorInv, NEW l \in Lanes, EmitTerminal(l)
  PROVE  SorInv'
<1>1. lane[l].pc = "emit" /\ lane[l].pc \in CommandSteps
  BY StepSets DEF EmitTerminal, At, CommandSteps
<1>2. PICK c \in Commands : c = lane[l].job /\ CommandInv(c) /\ Settled(c)
  BY <1>1, HandlerFacts
<1>3. /\ Returns(l) \/ GivesBack(l)
      /\ woken' = woken \union {c} \/ woken' = woken
      /\ UNCHANGED <<rowVars, effectVars, handlerFrame>>
  BY <1>2 DEF EmitTerminal, Job
<1>4. cmd' = cmd /\ UNCHANGED <<wrote, written, doubt, handlerFrame>>
  BY <1>3 DEF rowVars, effectVars
<1>5. RowMoves(c) /\ cmd'[c].state = cmd[c].state  BY <1>2, <1>4, SameRow
<1>6. cmd' \in [Commands -> CommandKind]  BY <1>4 DEF SorInv, RowTypes
<1> QED BY <1>1, <1>2, <1>3, <1>4, <1>5, <1>6, RowEnd

LEMMA DeathKeeps ==
  ASSUME SorInv, NEW l \in Lanes, LaneDies(l)
  PROVE  SorInv'
<1>1. lane[l].pc \in CommandSteps
  BY DEF SorInv, LaneTypes, LaneRow, PCs, LaneDies, Dies, At
<1>2. PICK c \in Commands : c = lane[l].job /\ CommandInv(c)  BY <1>1, HandlerFacts
<1>3. /\ Dies(l) /\ cmd' = cmd /\ woken' = woken
      /\ doubt' = IF lane[l].pc \in {"write", "save"} THEN doubt \union {c} ELSE doubt
      /\ UNCHANGED <<wrote, written, handlerFrame>>
  BY <1>2 DEF LaneDies, InDoubt, rowVars, Job
<1>4. RowMoves(c) /\ cmd'[c].state = cmd[c].state  BY <1>2, <1>3, SameRow
<1>5. cmd' \in [Commands -> CommandKind]  BY <1>3 DEF SorInv, RowTypes
<1> QED BY <1>1, <1>2, <1>3, <1>4, <1>5, RowEnd
-----------------------------------------------------------------------------
(* Steps of the runs, the spawners and the revokers: the handlers stay     *)
(* where they are, and may lose their claims                               *)

HandlersStay(c) ==
  \A l \in Lanes : lane[l].job = c \/ lane'[l].job = c =>
    lane'[l].job = lane[l].job /\ lane'[l].pc = lane[l].pc

ClaimsStay(c) ==
  /\ \A l \in Lanes : Holder(l, c)' <=> Holder(l, c)
  /\ task'[c] = task[c] \/ \A l \in Lanes : ~Holder(l, c)

ClaimsLost(c) ==
  /\ \A l \in Lanes : ~Holder(l, c)'
  /\ \A l \in Lanes : On(l, c, {"save"}) => c \in doubt'

RowStays(c) ==
  /\ Begun(c)' <=> Begun(c)
  /\ First(c)' <=> First(c)
  /\ Applied(c)' <=> Applied(c)
  /\ Bound(c) => Bound(c)'
  /\ c \in spawning' => ~Bound(c)'
  /\ Settled(c) => Settled(c)'
  /\ cmd'[c].state \in {"succeeded", "conflict"} => cmd'[c].state = cmd[c].state

LEMMA ControlKeeps ==
  ASSUME NEW c \in Commands, CommandInv(c), HandlersStay(c), ClaimsStay(c) \/ ClaimsLost(c),
         RowStays(c), EffectStays(c),
         agent'[c] = "idle" => cmd'[c].state = "none",
         c \in woken' \/ <<c, "emit">> \in notices' => Settled(c)'
  PROVE  CommandInv(c)'
<1>1. \A l \in Lanes : \A s : On(l, c, s)' <=> On(l, c, s)
  BY DEF HandlersStay, On
<1>2. SettledIsSaid(c)'
  BY <1>1 DEF CommandInv, SettledIsSaid, RowStays
<1>3. OneHolder(c)'
  BY DEF CommandInv, OneHolder, ClaimsStay, ClaimsLost
<1>4. AppliedIsWritten(c)'
  BY <1>1 DEF CommandInv, AppliedIsWritten, RowStays, EffectStays
<1>5. BegunBefore(c)'
  BY <1>1 DEF CommandInv, BegunBefore, RowStays, EffectStays
<1>6. FirstAttempt(c)'
  BY <1>1 DEF CommandInv, FirstAttempt, RowStays, EffectStays
<1>7. DoubtIsKnown(c)'
  <2> SUFFICES ASSUME c \notin doubt', Performed(c), c \notin written
               PROVE  \E k \in Lanes : On(k, c, {"save"})' /\ Holder(k, c)'
    BY DEF CommandInv, DoubtIsKnown, EffectStays
  <2>1. PICK k \in Lanes : On(k, c, {"save"}) /\ Holder(k, c)
    BY DEF CommandInv, DoubtIsKnown, EffectStays
  <2>2. ClaimsStay(c)  BY <2>1 DEF ClaimsLost
  <2> QED BY <1>1, <2>1, <2>2 DEF ClaimsStay
<1> QED BY <1>2, <1>3, <1>4, <1>5, <1>6, <1>7 DEF CommandInv

LEMMA SameClaims ==
  ASSUME NEW c \in Commands, lane' = lane, task'[c] = task[c]
  PROVE  HandlersStay(c) /\ ClaimsStay(c)
BY DEF HandlersStay, ClaimsStay, Holder

LEMMA SameRowStays ==
  ASSUME NEW c \in Commands, CommandInv(c), cmd'[c] = cmd[c], c \in spawning' => c \in spawning
  PROVE  RowStays(c)
BY DEF RowStays, CommandInv, BegunBefore, Begun, First, Applied, Bound, Settled

LEMMA SameEffects ==
  ASSUME NEW c \in Commands, UNCHANGED <<wrote, written, doubt>>
  PROVE  EffectStays(c)
BY DEF EffectStays, Performed, Once

(* The run looks, waits or goes, the source opens or closes, a notice is   *)
(* lost.                                                                   *)
LEMMA QuietControl ==
  ASSUME SorInv,
         \/ \E c \in Commands : \/ AgentReads(c) \/ AgentPauses(c) \/ AgentWakes(c)
                                \/ AgentGoes(c) \/ TargetMoves(c)
         \/ RevokeGrant \/ FenceSource \/ SourceSetup \/ RevokerDies
  PROVE  SorInv'
<1>1. LaneTypes /\ RowTypes /\ \A d \in Commands : CommandInv(d)  BY DEF SorInv
<1>2. /\ UNCHANGED <<task, lane, cmd, wrote, written, doubt, spawning, woken>>
      /\ notices' \subseteq notices
  BY DEF AgentReads, AgentPauses, AgentWakes, AgentGoes, TargetMoves, RevokeGrant, FenceSource,
         SourceSetup, RevokerDies, runFrame, controlFrame, pool, rowVars, stopVars, effectVars
<1>3. /\ \A d \in Commands : agent'[d] = "idle" => agent[d] = "idle"
      /\ DOMAIN agent' = Commands /\ DOMAIN told' = Commands
  BY <1>1 DEF RowTypes, AgentReads, AgentPauses, AgentWakes, AgentGoes, TargetMoves, Tell,
              RevokeGrant, FenceSource, SourceSetup, RevokerDies, runFrame, controlFrame, runVars
<1>4. LaneTypes' /\ RowTypes'  BY <1>1, <1>2, <1>3 DEF LaneTypes, RowTypes
<1>5. ASSUME NEW d \in Commands PROVE CommandInv(d)'
  <2>1. HandlersStay(d) /\ ClaimsStay(d)  BY <1>2, SameClaims
  <2>2. RowStays(d) /\ EffectStays(d)  BY <1>1, <1>2, SameRowStays, SameEffects
  <2>3. /\ agent'[d] = "idle" => cmd'[d].state = "none"
        /\ d \in woken' \/ <<d, "emit">> \in notices' => Settled(d)'
    BY <1>1, <1>2, <1>3, <2>2 DEF CommandInv, SettledIsSaid, RowStays
  <2> QED BY <1>1, <2>1, <2>2, <2>3, ControlKeeps
<1> QED BY <1>4, <1>5 DEF SorInv

LEMMA FilingKeeps ==
  ASSUME SorInv, NEW c \in Commands, AgentFiles(c)
  PROVE  SorInv'
<1>1. LaneTypes /\ RowTypes /\ \A d \in Commands : CommandInv(d)  BY DEF SorInv
<1>2. /\ UNCHANGED <<told, task, lane, wrote, written, doubt, spawning, woken, notices>>
      /\ agent' = [agent EXCEPT ![c] = "reading"] /\ agent[c] = "idle"
      /\ SetState(c, "pending")
  BY DEF AgentFiles, runFrame, pool, stopVars, effectVars
<1>3. cmd[c].state = "none"  BY <1>1, <1>2 DEF CommandInv, SettledIsSaid
<1>4. /\ cmd' = [cmd EXCEPT ![c].state = "pending"] /\ cmd \in [Commands -> CommandKind]
      /\ cmd[c] \in CommandKind /\ "pending" \in RowStates
  BY <1>1, <1>2 DEF SetState, RowTypes, RowStates, Active
<1>5. /\ cmd'[c].state = "pending" /\ cmd'[c].bound = cmd[c].bound
      /\ cmd'[c].attempts = cmd[c].attempts /\ cmd'[c].applied = cmd[c].applied
      /\ cmd'[c] \in CommandKind
  BY <1>4 DEF CommandKind
<1>6. cmd' \in [Commands -> CommandKind] /\ \A d \in Commands : d # c => cmd'[d] = cmd[d]
  BY <1>4, <1>5
<1>7. LaneTypes' /\ RowTypes'  BY <1>1, <1>2, <1>6 DEF LaneTypes, RowTypes
<1>8. ASSUME NEW d \in Commands PROVE CommandInv(d)'
  <2>1. HandlersStay(d) /\ ClaimsStay(d) /\ EffectStays(d)
    BY <1>2, SameClaims, SameEffects
  <2>2. RowStays(d)
    <3>1. CASE d # c  BY <1>1, <1>2, <1>6, <3>1, SameRowStays
    <3>2. CASE d = c
      <4>1. ~Settled(c)  BY <1>3, StepSets DEF Settled
      <4> QED BY <1>1, <1>2, <1>5, <3>2, <4>1
                 DEF RowStays, CommandInv, BegunBefore, Begun, First, Applied, Bound
    <3> QED BY <3>1, <3>2
  <2>3. /\ agent'[d] = "idle" => cmd'[d].state = "none"
        /\ d \in woken' \/ <<d, "emit">> \in notices' => Settled(d)'
    BY <1>1, <1>2, <1>6, <2>2 DEF CommandInv, SettledIsSaid, RowStays, RowTypes
  <2> QED BY <1>1, <2>1, <2>2, <2>3, ControlKeeps
<1> QED BY <1>7, <1>8 DEF SorInv
(* A task is cancelled or its claim runs out: its handlers lose their      *)
(* claims and go on.                                                       *)
LEMMA ClaimsTaken ==
  ASSUME LaneTypes, RowTypes, NEW c \in Commands, CancelTask(c) \/ ClaimRunsOut(c)
  PROVE  /\ LaneTypes' /\ task' \in [Commands -> TaskKind]
         /\ \A d \in Commands : HandlersStay(d)
         /\ \A l \in Lanes : ~Holder(l, c)'
         /\ \A d \in Commands : d # c => ClaimsStay(d)
<1>1. PICK s \in {"cancelled", "ready", "failed"} :
        task' = task \/ task' = [task EXCEPT ![c].state = s]
  BY DEF CancelTask, ClaimRunsOut, Failed
<1>2. /\ task' \in [Commands -> TaskKind]
      /\ \A d \in Commands : d # c => task'[d] = task[d]
  BY <1>1 DEF RowTypes, TaskKind, Over
<1>3. lane' = [l \in Lanes |-> IF lane[l].job = c THEN [lane[l] EXCEPT !.holds = FALSE] ELSE lane[l]]
  BY DEF CancelTask, ClaimRunsOut, Job
<1>4. ASSUME NEW l \in Lanes
      PROVE  /\ lane'[l] \in LaneRow(PCs, {"none"})
             /\ lane'[l].job = lane[l].job /\ lane'[l].pc = lane[l].pc
             /\ lane[l].job = c => ~lane'[l].holds
             /\ lane[l].job # c => lane'[l] = lane[l]
  <2>1. lane[l] \in LaneRow(PCs, {"none"})  BY DEF LaneTypes
  <2>2. CASE lane[l].job = c  BY <1>3, <2>1, <2>2 DEF LaneRow
  <2>3. CASE lane[l].job # c  BY <1>3, <2>1, <2>3
  <2> QED BY <2>2, <2>3
<1>5. lane' \in [Lanes -> LaneRow(PCs, {"none"})]  BY <1>3, <1>4
<1>6. LaneTypes'  BY <1>4, <1>5 DEF LaneTypes
<1>7. \A d \in Commands : HandlersStay(d)  BY <1>4 DEF HandlersStay
<1>8. \A l \in Lanes : ~Holder(l, c)'  BY <1>4 DEF Holder
<1>9. \A d \in Commands : d # c => ClaimsStay(d)  BY <1>2, <1>4 DEF ClaimsStay, Holder
<1> QED BY <1>2, <1>6, <1>7, <1>8, <1>9

(* The history records whose write was in the air.                         *)
LEMMA DoubtGrows ==
  ASSUME SorInv, NEW c \in Commands, doubt' = InDoubt({l \in Lanes : Job(l) = c})
  PROVE  /\ \A l \in Lanes : On(l, c, {"save"}) => c \in doubt'
         /\ \A d \in Commands : d \in doubt => d \in doubt'
BY DEF InDoubt, On, Job

LEMMA ClaimsTakenKeeps ==
  ASSUME SorInv, NEW c \in Commands, CancelTask(c) \/ ClaimRunsOut(c),
         UNCHANGED <<cmd, wrote, written, agent, told, woken>>,
         spawning' \subseteq spawning,
         \A d \in Commands : <<d, "emit">> \in notices' => <<d, "emit">> \in notices,
         doubt' = InDoubt({l \in Lanes : Job(l) = c})
  PROVE  SorInv'
<1>1. LaneTypes /\ RowTypes /\ \A d \in Commands : CommandInv(d)  BY DEF SorInv
<1>2. /\ LaneTypes' /\ task' \in [Commands -> TaskKind]
      /\ \A d \in Commands : HandlersStay(d)
      /\ \A l \in Lanes : ~Holder(l, c)'
      /\ \A d \in Commands : d # c => ClaimsStay(d)
  BY <1>1, ClaimsTaken
<1>3. /\ \A l \in Lanes : On(l, c, {"save"}) => c \in doubt'
      /\ \A d \in Commands : d \in doubt => d \in doubt'
  BY DoubtGrows
<1>4. RowTypes'  BY <1>1, <1>2 DEF RowTypes
<1>5. ASSUME NEW d \in Commands PROVE CommandInv(d)'
  <2>1. ClaimsStay(d) \/ ClaimsLost(d)  BY <1>2, <1>3 DEF ClaimsLost
  <2>2. RowStays(d)  BY <1>1, SameRowStays
  <2>3. EffectStays(d)  BY <1>3 DEF EffectStays, Performed, Once
  <2>4. /\ agent'[d] = "idle" => cmd'[d].state = "none"
        /\ d \in woken' \/ <<d, "emit">> \in notices' => Settled(d)'
    BY <1>1, <2>2 DEF CommandInv, SettledIsSaid, RowStays
  <2> QED BY <1>1, <1>2, <2>1, <2>2, <2>3, <2>4, ControlKeeps
<1> QED BY <1>2, <1>4, <1>5 DEF SorInv

LEMMA LosingKeeps ==
  ASSUME SorInv, NEW c \in Commands, ClaimExpires(c) \/ NotifyStops(c)
  PROVE  SorInv'
<1>1. CancelTask(c) \/ ClaimRunsOut(c)  BY DEF ClaimExpires, NotifyStops
<1>2. /\ UNCHANGED <<cmd, wrote, written, agent, told, woken, spawning>>
      /\ notices' \subseteq notices
      /\ doubt' = InDoubt({l \in Lanes : Job(l) = c})
  BY DEF ClaimExpires, NotifyStops, rowVars, handlerFrame, noticeFrame, runVars
<1> QED BY <1>1, <1>2, ClaimsTakenKeeps

LEMMA SpawningKeeps ==
  ASSUME SorInv, NEW c \in Commands, SpawnReads(c) \/ SpawnTask(c)
  PROVE  SorInv'
<1>1. LaneTypes /\ RowTypes /\ \A d \in Commands : CommandInv(d)  BY DEF SorInv
<1>2. UNCHANGED <<cmd, lane, wrote, written, doubt, agent, told, woken, notices>>
  BY DEF SpawnReads, SpawnTask, spawnFrame, pool, runVars, effectVars
<1>3. \/ task' = task
      \/ task[c].state = "none" /\ task' = [task EXCEPT ![c].state = "ready"]
  BY DEF SpawnReads, SpawnTask, pool, Spawned
<1>4. /\ task' \in [Commands -> TaskKind]
      /\ \A d \in Commands : task'[d] = task[d] \/ task[d].state = "none"
  BY <1>1, <1>3 DEF RowTypes, TaskKind
<1>5. \A d \in Commands : d \in spawning' => d \in spawning \/ ~Bound(d)
  BY DEF SpawnReads, SpawnTask, Bound
<1>6. LaneTypes' /\ RowTypes'  BY <1>1, <1>2, <1>4 DEF LaneTypes, RowTypes
<1>7. ASSUME NEW d \in Commands PROVE CommandInv(d)'
  <2>1. HandlersStay(d)  BY <1>2 DEF HandlersStay
  <2>2. ClaimsStay(d)
    <3>1. task[d].state = "none" => \A l \in Lanes : ~Holder(l, d)
      BY <1>1 DEF CommandInv, OneHolder
    <3> QED BY <1>2, <1>4, <3>1 DEF ClaimsStay, Holder
  <2>3. RowStays(d)
    BY <1>1, <1>2, <1>5
       DEF RowStays, CommandInv, BegunBefore, Begun, First, Applied, Bound, Settled
  <2>4. EffectStays(d)  BY <1>2, SameEffects
  <2>5. /\ agent'[d] = "idle" => cmd'[d].state = "none"
        /\ d \in woken' \/ <<d, "emit">> \in notices' => Settled(d)'
    BY <1>1, <1>2, <2>3 DEF CommandInv, SettledIsSaid, RowStays
  <2> QED BY <1>1, <2>1, <2>2, <2>3, <2>4, <2>5, ControlKeeps
<1> QED BY <1>6, <1>7 DEF SorInv
LEMMA BindingKeeps ==
  ASSUME SorInv, NEW c \in Commands, SpawnBinds(c)
  PROVE  SorInv'
<1>1. LaneTypes /\ RowTypes /\ \A d \in Commands : CommandInv(d)  BY DEF SorInv
<1>2. /\ UNCHANGED <<wrote, written, doubt, agent, told, woken, notices>>
      /\ spawning' = spawning \ {c} /\ c \in spawning
      /\ cmd' = [cmd EXCEPT ![c].bound = TRUE]
      /\ CancelTask(c) \/ UNCHANGED <<task, lane>>
  BY DEF SpawnBinds, spawnFrame, runVars, effectVars, pool
<1>3. /\ cmd \in [Commands -> CommandKind] /\ cmd[c] \in CommandKind  BY <1>1 DEF RowTypes
<1>4. /\ cmd'[c].bound = TRUE /\ cmd'[c].state = cmd[c].state
      /\ cmd'[c].attempts = cmd[c].attempts /\ cmd'[c].applied = cmd[c].applied
      /\ cmd'[c] \in CommandKind
  BY <1>2, <1>3 DEF CommandKind
<1>5. cmd' \in [Commands -> CommandKind] /\ \A d \in Commands : d # c => cmd'[d] = cmd[d]
  BY <1>2, <1>3, <1>4
<1>6. \A l \in Lanes : ~On(l, c, {"save"})
  <2>1. ~Begun(c)  BY <1>1, <1>2 DEF CommandInv, BegunBefore
  <2>2. \A l \in Lanes : ~On(l, c, PastBegin)  BY <1>1, <2>1 DEF CommandInv, BegunBefore
  <2> QED BY <2>2 DEF On, PastBegin
<1>7. /\ LaneTypes' /\ task' \in [Commands -> TaskKind]
      /\ \A d \in Commands : HandlersStay(d) /\ (ClaimsStay(d) \/ ClaimsLost(d))
  <2>1. CASE CancelTask(c)
    BY <1>1, <1>6, <2>1, ClaimsTaken DEF ClaimsLost
  <2>2. CASE UNCHANGED <<task, lane>>
    BY <1>1, <2>2, SameClaims DEF LaneTypes, RowTypes
  <2> QED BY <1>2, <2>1, <2>2
<1>8. RowTypes'  BY <1>1, <1>2, <1>5, <1>7 DEF RowTypes
<1>9. ASSUME NEW d \in Commands PROVE CommandInv(d)'
  <2>1. RowStays(d)
    <3>1. CASE d # c  BY <1>1, <1>2, <1>5, <3>1, SameRowStays
    <3>2. CASE d = c
      BY <1>1, <1>2, <1>4, <3>2 DEF RowStays, Begun, First, Applied, Bound, Settled
    <3> QED BY <3>1, <3>2
  <2>2. EffectStays(d)  BY <1>2, SameEffects
  <2>3. cmd'[d].state = cmd[d].state  BY <1>4, <1>5
  <2>4. /\ agent'[d] = "idle" => cmd'[d].state = "none"
        /\ d \in woken' \/ <<d, "emit">> \in notices' => Settled(d)'
    BY <1>1, <1>2, <2>1, <2>3 DEF CommandInv, SettledIsSaid, RowStays
  <2> QED BY <1>1, <1>7, <2>1, <2>2, <2>4, ControlKeeps
<1> QED BY <1>7, <1>8, <1>9 DEF SorInv

LEMMA CancellingKeeps ==
  ASSUME SorInv, NEW c \in Commands, CancelCommand(c)
  PROVE  SorInv'
<1>1. LaneTypes /\ RowTypes /\ \A d \in Commands : CommandInv(d)  BY DEF SorInv
<1>2. UNCHANGED <<task, lane, wrote, written, doubt, agent, told, woken, spawning>>
  BY DEF CancelCommand, pool, runVars, effectVars
<1>3. \/ UNCHANGED <<cmd, notices>>
      \/ /\ cmd[c].state \in Active
         /\ \A d \in Commands : d # c => (<<d, "emit">> \in notices' <=> <<d, "emit">> \in notices)
         /\ \E s \in {"cancelled", "failed"} : SetState(c, s)
  BY DEF CancelCommand
<1>4. CASE UNCHANGED <<cmd, notices>>
  <2>1. LaneTypes' /\ RowTypes'  BY <1>1, <1>2, <1>4 DEF LaneTypes, RowTypes
  <2>2. ASSUME NEW d \in Commands PROVE CommandInv(d)'
    <3>1. HandlersStay(d) /\ ClaimsStay(d)  BY <1>2, SameClaims
    <3>2. RowStays(d) /\ EffectStays(d)  BY <1>1, <1>2, <1>4, SameRowStays, SameEffects
    <3>3. /\ agent'[d] = "idle" => cmd'[d].state = "none"
          /\ d \in woken' \/ <<d, "emit">> \in notices' => Settled(d)'
      BY <1>1, <1>2, <1>4, <3>2 DEF CommandInv, SettledIsSaid, RowStays
    <3> QED BY <1>1, <3>1, <3>2, <3>3, ControlKeeps
  <2> QED BY <2>1, <2>2 DEF SorInv
<1>5. ASSUME cmd[c].state \in Active,
             \A d \in Commands : d # c => (<<d, "emit">> \in notices' <=> <<d, "emit">> \in notices),
             NEW s \in {"cancelled", "failed"}, SetState(c, s)
      PROVE  SorInv'
  <2>1. s \in RowStates /\ s \in Outcomes /\ s \notin {"succeeded", "conflict"}
    BY DEF RowStates, Outcomes
  <2>2. /\ RowMoves(c) /\ cmd'[c].state = s
        /\ cmd' \in [Commands -> CommandKind]
        /\ \A d \in Commands : d # c => cmd'[d] = cmd[d]
    BY <1>1, <1>5, <2>1, StateRow
  <2>3. LaneTypes' /\ RowTypes'  BY <1>1, <1>2, <2>2 DEF LaneTypes, RowTypes
  <2>4. Settled(c)' /\ ~Settled(c) /\ cmd[c].state # "none"
    BY <1>5, <2>1, <2>2, StepSets DEF Settled
  <2>5. cmd'[c] = [cmd[c] EXCEPT !.state = s]  BY <1>1, <1>5 DEF SetState, RowTypes
  <2>6. /\ Begun(c)' <=> Begun(c)
        /\ First(c)' <=> First(c)
        /\ Applied(c)' <=> Applied(c)
        /\ Bound(c)' <=> Bound(c)
    BY <1>1, <2>5 DEF RowTypes, CommandKind, Begun, First, Applied, Bound
  <2>7. ASSUME NEW d \in Commands PROVE CommandInv(d)'
    <3>1. HandlersStay(d) /\ ClaimsStay(d) /\ EffectStays(d)
      BY <1>2, SameClaims, SameEffects
    <3>2. CASE d # c
      <4>1. RowStays(d)  BY <1>1, <1>2, <2>2, <3>2, SameRowStays
      <4>2. /\ agent'[d] = "idle" => cmd'[d].state = "none"
            /\ d \in woken' \/ <<d, "emit">> \in notices' => Settled(d)'
        BY <1>1, <1>2, <1>5, <2>2, <3>2, <4>1 DEF CommandInv, SettledIsSaid, RowStays
      <4> QED BY <1>1, <3>1, <4>1, <4>2, ControlKeeps
    <3>3. CASE d = c
      <4>1. RowStays(c)
        BY <1>1, <1>2, <2>1, <2>2, <2>4, <2>6 DEF RowStays, CommandInv, BegunBefore
      <4>2. agent'[c] # "idle"  BY <1>1, <1>2, <2>4 DEF CommandInv, SettledIsSaid
      <4> QED BY <1>1, <2>4, <3>1, <3>3, <4>1, <4>2, ControlKeeps
    <3> QED BY <3>2, <3>3
  <2> QED BY <2>3, <2>7 DEF SorInv
<1> QED BY <1>3, <1>4, <1>5

LEMMA NotifyingKeeps ==
  ASSUME SorInv, NEW c \in Commands, NotifyEmits(c)
  PROVE  SorInv'
<1>1. LaneTypes /\ RowTypes /\ \A d \in Commands : CommandInv(d)  BY DEF SorInv
<1>2. /\ UNCHANGED <<task, lane, cmd, wrote, written, doubt, spawning, agent, told>>
      /\ notices' \subseteq notices
      /\ \A d \in Commands : d \in woken' => d \in woken \/ <<d, "emit">> \in notices
  BY DEF NotifyEmits, noticeFrame, rowVars, runVars, effectVars
<1>3. LaneTypes' /\ RowTypes'  BY <1>1, <1>2 DEF LaneTypes, RowTypes
<1>4. ASSUME NEW d \in Commands PROVE CommandInv(d)'
  <2>1. HandlersStay(d) /\ ClaimsStay(d)  BY <1>2, SameClaims
  <2>2. RowStays(d) /\ EffectStays(d)  BY <1>1, <1>2, SameRowStays, SameEffects
  <2>3. /\ agent'[d] = "idle" => cmd'[d].state = "none"
        /\ d \in woken' \/ <<d, "emit">> \in notices' => Settled(d)'
    BY <1>1, <1>2, <2>2 DEF CommandInv, SettledIsSaid, RowStays
  <2> QED BY <1>1, <2>1, <2>2, <2>3, ControlKeeps
<1> QED BY <1>3, <1>4 DEF SorInv
-----------------------------------------------------------------------------
(* The steps in which an attempt begins, sends its write and saves it      *)

LEMMA ClaimingKeeps ==
  ASSUME SorInv, NEW l \in Lanes, NEW c \in Commands, ClaimCommand(l, c)
  PROVE  SorInv'
<1>1. LaneTypes /\ RowTypes /\ \A d \in Commands : CommandInv(d)  BY DEF SorInv
<1>2. /\ lane[l].pc = "idle" /\ task[c].state = "ready"
      /\ task' = [task EXCEPT ![c] = [state |-> "running", tries |-> @.tries + 1]]
      /\ lane' = [lane EXCEPT ![l] = [pc |-> "begin", job |-> c, holds |-> TRUE, res |-> "none"]]
      /\ UNCHANGED stepFrame
  BY DEF ClaimCommand, Claim, At
<1>3. UNCHANGED <<cmd, agent, told, written, wrote, doubt, spawning, woken, notices>>
  BY <1>2 DEF stepFrame, rowVars, effectVars, handlerFrame, runVars
<1>4. lane[l].job \notin Commands  BY <1>1, <1>2 DEF LaneTypes
<1>5. /\ lane'[l].job = c /\ lane'[l].pc = "begin" /\ lane'[l].holds
      /\ \A k \in Lanes : k # l => lane'[k] = lane[k]
  BY <1>1, <1>2 DEF LaneTypes
<1>6. LaneTypes'
  <2>1. [pc |-> "begin", job |-> c, holds |-> TRUE, res |-> "none"] \in LaneRow(PCs, {"none"})
    BY CommandsAssumption, StepSets DEF LaneRow, PCs
  <2>2. lane' \in [Lanes -> LaneRow(PCs, {"none"})]  BY <1>1, <1>2, <2>1 DEF LaneTypes
  <2> QED BY <1>1, <1>5, <2>2 DEF LaneTypes
<1>7. /\ task' \in [Commands -> TaskKind]
      /\ task'[c].state = "running"
      /\ \A d \in Commands : d # c => task'[d] = task[d]
  BY <1>1, <1>2 DEF RowTypes, TaskKind
<1>8. RowTypes'  BY <1>1, <1>3, <1>7 DEF RowTypes
<1>9. \A d \in Commands : d # c => CommandInv(d)'
  <2>1. LanesAside(c)  BY <1>4, <1>5, <1>7 DEF LanesAside
  <2> QED BY <1>1, <1>3, <2>1, OthersKeep
<1>10. CommandInv(c)'
  <2>1. \A k \in Lanes : \A s : "begin" \notin s => (On(k, c, s)' <=> On(k, c, s))
    BY <1>4, <1>5 DEF On
  <2>2. "begin" \notin {"emit"} /\ "begin" \notin {"save", "record"} /\ "begin" \notin {"save"}
    OBVIOUS
  <2>3. "begin" \notin Reading /\ "begin" \notin Early /\ "begin" \notin PastBegin
    BY DEF Reading, Early, PastBegin
  <2>4. /\ RowMoves(c) /\ cmd'[c].state = cmd[c].state
        /\ Settled(c)' <=> Settled(c)
        /\ Applied(c)' <=> Applied(c)
    BY <1>1, <1>3, SameRow
  <2>5. EffectStays(c)  BY <1>3, SameEffects
  <2>6. \A k \in Lanes : ~Holder(k, c)  BY <1>1, <1>2 DEF CommandInv, OneHolder
  <2>7. \A k \in Lanes : Holder(k, c)' => k = l  BY <1>5, <2>6 DEF Holder
  <2>8. SettledIsSaid(c)'  BY <1>1, <1>3, <2>1, <2>2, <2>4 DEF CommandInv, SettledIsSaid
  <2>9. OneHolder(c)'  BY <1>7, <2>7 DEF OneHolder
  <2>10. AppliedIsWritten(c)'
    BY <1>1, <2>1, <2>2, <2>3, <2>4, <2>5 DEF CommandInv, AppliedIsWritten, EffectStays
  <2>11. BegunBefore(c)'
    BY <1>1, <1>3, <2>1, <2>3, <2>4, <2>5 DEF CommandInv, BegunBefore, EffectStays, RowMoves
  <2>12. FirstAttempt(c)'
    BY <1>1, <2>1, <2>3, <2>4, <2>5 DEF CommandInv, FirstAttempt, EffectStays, RowMoves
  <2>13. DoubtIsKnown(c)'
    BY <1>1, <1>3, <2>5, <2>6 DEF CommandInv, DoubtIsKnown, EffectStays
  <2> QED BY <2>8, <2>9, <2>10, <2>11, <2>12, <2>13 DEF CommandInv
<1> QED BY <1>6, <1>8, <1>9, <1>10 DEF SorInv

LEMMA BeginningKeeps ==
  ASSUME SorInv, NEW l \in Lanes, Begin(l)
  PROVE  SorInv'
<1>1. LaneTypes /\ RowTypes /\ \A d \in Commands : CommandInv(d)  BY DEF SorInv
<1>2. lane[l].pc = "begin" /\ "begin" \in CommandSteps /\ "claim" \in CommandSteps
  BY DEF Begin, At, CommandSteps
<1>3. PICK c \in Commands : c = lane[l].job  BY <1>2, HandlerFacts
<1>4. /\ cmd[c].state \in Active /\ Bound(c) /\ Step(l, "claim", "none")
      /\ cmd' = [cmd EXCEPT ![c].state = "running", ![c].attempts = @ + 1]
      /\ UNCHANGED <<agent, told, written, wrote, doubt, spawning, woken, notices>>
  BY <1>3 DEF Begin, Goto, Job, Bound, effectVars, handlerFrame, runVars
<1>5. /\ LaneTypes' /\ task' \in [Commands -> TaskKind]
      /\ Goes(l, c, "claim") /\ LanesAside(c)
  BY <1>1, <1>2, <1>3, <1>4, StepGoes
<1>6. cmd \in [Commands -> CommandKind] /\ cmd[c] \in CommandKind /\ "running" \in RowStates
  BY <1>1 DEF RowTypes, RowStates, Active
<1>7. /\ cmd'[c].state = "running" /\ cmd'[c].bound = cmd[c].bound
      /\ cmd'[c].attempts = cmd[c].attempts + 1 /\ cmd'[c].applied = cmd[c].applied
      /\ cmd'[c] \in CommandKind
  BY <1>4, <1>6 DEF CommandKind
<1>8. cmd' \in [Commands -> CommandKind] /\ \A d \in Commands : d # c => cmd'[d] = cmd[d]
  BY <1>4, <1>6, <1>7
<1>9. RowTypes'  BY <1>1, <1>4, <1>5, <1>8 DEF RowTypes
<1>10. \A d \in Commands : d # c => CommandInv(d)'
  BY <1>1, <1>4, <1>5, <1>8, OthersKeep
<1>11. CommandInv(c)'
  <2>1. \A k \in Lanes : \A s : On(k, c, s)' <=> IF k = l THEN "claim" \in s ELSE On(k, c, s)
    BY <1>5 DEF Goes, On
  <2>2. \A k \in Lanes : Holder(k, c)' <=> Holder(k, c)
    BY <1>5 DEF Goes, Holder
  <2>3. cmd[c].attempts \in Nat  BY <1>6 DEF CommandKind
  <2>4. /\ Applied(c)' <=> Applied(c)
        /\ Bound(c)'
        /\ Begun(c)'
        /\ First(c)' => ~Begun(c)
    <3>1. (Applied(c)' <=> Applied(c)) /\ Bound(c)'
      BY <1>4, <1>7 DEF Applied, Bound
    <3>2. Begun(c)' /\ (First(c)' => ~Begun(c))
      BY <1>7, <2>3 DEF Begun, First
    <3> QED BY <3>1, <3>2
  <2>5. ~Settled(c) /\ cmd[c].state # "none"
    BY <1>4, StepSets DEF Settled
  <2>6. EffectStays(c)  BY <1>4, SameEffects
  <2>7. "claim" \notin Reading /\ "claim" \in Early /\ "claim" \in PastBegin
    BY DEF Reading, Early, PastBegin
  <2>8. SettledIsSaid(c)'
    BY <1>1, <1>4, <2>1, <2>5 DEF CommandInv, SettledIsSaid
  <2>9. OneHolder(c)'  BY <1>1, <1>5, <2>2 DEF CommandInv, OneHolder, Goes
  <2>10. AppliedIsWritten(c)'
    BY <1>1, <1>7, <2>1, <2>4, <2>6, <2>7 DEF CommandInv, AppliedIsWritten, EffectStays
  <2>11. BegunBefore(c)'
    BY <1>1, <1>4, <2>4 DEF CommandInv, BegunBefore
  <2>12. FirstAttempt(c)'
    <3> SUFFICES ASSUME First(c)'
                 PROVE  /\ \A k \in Lanes : On(k, c, PastBegin)' => k = l
                        /\ ~Performed(c)'
      BY <1>7 DEF FirstAttempt
    <3>1. ~Performed(c) /\ \A k \in Lanes : ~On(k, c, PastBegin)
      BY <1>1, <2>4 DEF CommandInv, BegunBefore
    <3> QED BY <2>1, <2>6, <3>1 DEF EffectStays
  <2>13. DoubtIsKnown(c)'
    <3> SUFFICES ASSUME c \notin doubt, Performed(c), c \notin written
                 PROVE  \E k \in Lanes : On(k, c, {"save"})' /\ Holder(k, c)'
      BY <1>1, <1>4, <2>6 DEF CommandInv, DoubtIsKnown, EffectStays
    <3>1. PICK k \in Lanes : On(k, c, {"save"}) /\ Holder(k, c)
      BY <1>1 DEF CommandInv, DoubtIsKnown
    <3>2. k # l  BY <1>2, <3>1 DEF On
    <3> QED BY <2>1, <2>2, <3>1, <3>2
  <2> QED BY <2>8, <2>9, <2>10, <2>11, <2>12, <2>13 DEF CommandInv
<1> QED BY <1>5, <1>9, <1>10, <1>11 DEF SorInv
(* Whoever sends the write finds it unsent, or is not the first to try, or *)
(* goes on in doubt.                                                       *)
LEMMA WritingKeeps ==
  ASSUME SorInv, NEW l \in Lanes, VendorWrites(l)
  PROVE  SorInv'
<1>1. LaneTypes /\ RowTypes /\ \A d \in Commands : CommandInv(d)  BY DEF SorInv
<1>2. lane[l].pc = "write" /\ lane[l].pc \in CommandSteps
  BY DEF VendorWrites, At, CommandSteps
<1>3. PICK c \in Commands : c = lane[l].job  BY <1>2, HandlerFacts
<1>4. PICK pc \in {"save", "rejecting", "failing"} :
        /\ Step(l, pc, "none")
        /\ doubt' = IF pc = "save" /\ lane[l].holds THEN doubt ELSE doubt \union {c}
  BY <1>3 DEF VendorWrites, Goto, Trips, Job
<1>5. /\ c \notin written
      /\ wrote' = [wrote EXCEPT ![c] = IF @ < 2 THEN @ + 1 ELSE @]
      /\ UNCHANGED <<cmd, agent, told, written, spawning, woken, notices>>
  BY <1>3 DEF VendorWrites, Job, rowVars, handlerFrame, runVars
<1>6. pc \in CommandSteps  BY <1>4 DEF CommandSteps
<1>7. /\ LaneTypes' /\ task' \in [Commands -> TaskKind]
      /\ Goes(l, c, pc) /\ LanesAside(c)
  BY <1>1, <1>2, <1>3, <1>4, <1>6, StepGoes
<1>8. /\ wrote' \in [Commands -> 0..2]
      /\ \A d \in Commands : d # c => wrote'[d] = wrote[d]
      /\ wrote'[c] > 0
      /\ wrote[c] = 0 => wrote'[c] = 1
  BY <1>1, <1>5 DEF RowTypes
<1>9. RowTypes'  BY <1>1, <1>5, <1>7, <1>8 DEF RowTypes
<1>10. \A d \in Commands : d # c => (d \in doubt' <=> d \in doubt)  BY <1>4
<1>11. \A d \in Commands : d # c => CommandInv(d)'
  BY <1>1, <1>5, <1>7, <1>8, <1>10, OthersKeep
<1>12. CommandInv(c)'
  <2>1. \A k \in Lanes : \A s : On(k, c, s)' <=> IF k = l THEN pc \in s ELSE On(k, c, s)
    BY <1>7 DEF Goes, On
  <2>2. \A k \in Lanes : Holder(k, c)' <=> Holder(k, c)
    BY <1>7 DEF Goes, Holder
  <2>3. /\ RowMoves(c) /\ cmd'[c].state = cmd[c].state
        /\ Settled(c)' <=> Settled(c)
        /\ Applied(c)' <=> Applied(c)
    BY <1>1, <1>5, SameRow
  <2>4. Performed(c)'  BY <1>8 DEF Performed
  <2>5. On(l, c, PastBegin) /\ Begun(c)
    BY <1>1, <1>2, <1>3 DEF On, PastBegin, Early, CommandInv, BegunBefore
  <2>6. pc \notin Reading /\ pc \notin Early /\ pc # "emit"
    BY <1>4 DEF Reading, Early
  <2>7. SettledIsSaid(c)'
    BY <1>1, <1>5, <2>1, <2>3, <2>6 DEF CommandInv, SettledIsSaid
  <2>8. OneHolder(c)'  BY <1>1, <1>7, <2>2 DEF CommandInv, OneHolder, Goes
  <2>9. AppliedIsWritten(c)'
    BY <1>1, <2>1, <2>3, <2>4, <2>6 DEF CommandInv, AppliedIsWritten
  <2>10. BegunBefore(c)'
    BY <1>1, <1>5, <2>3, <2>5 DEF CommandInv, BegunBefore, RowMoves
  <2>11. FirstAttempt(c)'
    <3> SUFFICES ASSUME First(c)
                 PROVE  /\ \A j, k \in Lanes : On(j, c, PastBegin)' /\ On(k, c, PastBegin)' => j = k
                        /\ \A k \in Lanes : ~On(k, c, Early)'
                        /\ cmd[c].state # "conflict"
      BY <2>3 DEF FirstAttempt, RowMoves
    <3>1. \A k \in Lanes : On(k, c, PastBegin) => k = l
      BY <1>1, <2>5 DEF CommandInv, FirstAttempt
    <3>2. \A k \in Lanes : On(k, c, PastBegin)' => k = l  BY <2>1, <3>1
    <3>3. \A k \in Lanes : On(k, c, Early)' => On(k, c, PastBegin)'  BY DEF On, PastBegin
    <3>4. ~On(l, c, Early)'  BY <2>1, <2>6
    <3>5. cmd[c].state # "conflict"  BY <1>1, <2>5 DEF CommandInv, FirstAttempt
    <3> QED BY <3>2, <3>3, <3>4, <3>5
  <2>12. DoubtIsKnown(c)'
    <3> SUFFICES ASSUME c \notin doubt'
                 PROVE  Once(c)' /\ On(l, c, {"save"})' /\ Holder(l, c)'
      BY DEF DoubtIsKnown
    <3>1. c \notin doubt /\ pc = "save" /\ lane[l].holds  BY <1>4
    <3>2. On(l, c, {"save"})'  BY <2>1, <3>1
    <3>3. Holder(l, c) /\ Holder(l, c)'  BY <1>3, <2>2, <3>1 DEF Holder
    <3>4. ~Performed(c)
      <4> SUFFICES ASSUME Performed(c) PROVE FALSE  OBVIOUS
      <4>1. PICK k \in Lanes : On(k, c, {"save"}) /\ Holder(k, c)
        BY <1>1, <1>5, <3>1 DEF CommandInv, DoubtIsKnown
      <4>2. k = l  BY <1>1, <3>3, <4>1 DEF CommandInv, OneHolder
      <4> QED BY <1>2, <4>1, <4>2 DEF On
    <3>5. wrote[c] \in 0..2  BY <1>1 DEF RowTypes
    <3>6. wrote[c] = 0  BY <3>4, <3>5 DEF Performed
    <3>7. Once(c)'  BY <1>8, <3>6 DEF Once
    <3> QED BY <3>2, <3>3, <3>7
  <2> QED BY <2>7, <2>8, <2>9, <2>10, <2>11, <2>12 DEF CommandInv
<1> QED BY <1>7, <1>9, <1>11, <1>12 DEF SorInv

LEMMA SavingKeeps ==
  ASSUME SorInv, NEW l \in Lanes, SaveWrite(l)
  PROVE  SorInv'
<1>1. LaneTypes /\ RowTypes /\ \A d \in Commands : CommandInv(d)  BY DEF SorInv
<1>2. lane[l].pc = "save" /\ lane[l].pc \in CommandSteps /\ "record" \in CommandSteps
  BY DEF SaveWrite, At, CommandSteps
<1>3. PICK c \in Commands : c = lane[l].job /\ Performed(c)  BY <1>2, HandlerFacts
<1>4. /\ Step(l, "record", "none") /\ written' = written \union {c}
      /\ UNCHANGED <<cmd, agent, told, wrote, doubt, spawning, woken, notices>>
  BY <1>3 DEF SaveWrite, Goto, Job, rowVars, handlerFrame, runVars
<1>5. /\ LaneTypes' /\ task' \in [Commands -> TaskKind]
      /\ Goes(l, c, "record") /\ LanesAside(c)
  BY <1>1, <1>2, <1>3, <1>4, StepGoes
<1>6. RowTypes'  BY <1>1, <1>4, <1>5 DEF RowTypes
<1>7. \A d \in Commands : d # c => CommandInv(d)'
  BY <1>1, <1>4, <1>5, OthersKeep
<1>8. CommandInv(c)'
  <2>1. \A k \in Lanes : \A s : On(k, c, s)' <=> IF k = l THEN "record" \in s ELSE On(k, c, s)
    BY <1>5 DEF Goes, On
  <2>2. \A k \in Lanes : Holder(k, c)' <=> Holder(k, c)
    BY <1>5 DEF Goes, Holder
  <2>3. /\ RowMoves(c) /\ cmd'[c].state = cmd[c].state
        /\ Settled(c)' <=> Settled(c)
        /\ Applied(c)' <=> Applied(c)
    BY <1>1, <1>4, SameRow
  <2>4. /\ Performed(c)' /\ (Performed(c)' <=> Performed(c))
        /\ Once(c)' <=> Once(c)
    BY <1>3, <1>4 DEF Performed, Once
  <2>5. On(l, c, PastBegin)  BY <1>2, <1>3 DEF On, PastBegin
  <2>6. "record" \notin Reading /\ "record" \notin Early
    BY DEF Reading, Early
  <2>7. SettledIsSaid(c)'
    BY <1>1, <1>4, <2>1, <2>3 DEF CommandInv, SettledIsSaid
  <2>8. OneHolder(c)'  BY <1>1, <1>5, <2>2 DEF CommandInv, OneHolder, Goes
  <2>9. AppliedIsWritten(c)'
    BY <1>1, <2>1, <2>3, <2>4, <2>6 DEF CommandInv, AppliedIsWritten
  <2>10. BegunBefore(c)'
    BY <1>1, <1>4, <2>1, <2>3, <2>4, <2>5 DEF CommandInv, BegunBefore, RowMoves
  <2>11. FirstAttempt(c)'
    <3> SUFFICES ASSUME First(c)
                 PROVE  /\ \A j, k \in Lanes : On(j, c, PastBegin)' /\ On(k, c, PastBegin)' => j = k
                        /\ \A k \in Lanes : ~On(k, c, Early)'
                        /\ cmd[c].state # "conflict"
      BY <2>3 DEF FirstAttempt, RowMoves
    <3>1. \A k \in Lanes : On(k, c, PastBegin) => k = l
      BY <1>1, <2>5 DEF CommandInv, FirstAttempt
    <3>2. \A k \in Lanes : On(k, c, PastBegin)' => k = l  BY <2>1, <3>1
    <3>3. \A k \in Lanes : On(k, c, Early)' => On(k, c, PastBegin)'  BY DEF On, PastBegin
    <3>4. ~On(l, c, Early)'  BY <2>1, <2>6
    <3>5. cmd[c].state # "conflict"  BY <1>1, <2>5 DEF CommandInv, FirstAttempt
    <3> QED BY <3>2, <3>3, <3>4, <3>5
  <2>12. DoubtIsKnown(c)'
    BY <1>1, <1>4, <2>4 DEF CommandInv, DoubtIsKnown
  <2> QED BY <2>7, <2>8, <2>9, <2>10, <2>11, <2>12 DEF CommandInv
<1> QED BY <1>5, <1>6, <1>7, <1>8 DEF SorInv
-----------------------------------------------------------------------------
(* Every step *)

LEMMA InitHolds == Init => SorInv
<1> SUFFICES ASSUME Init PROVE SorInv  OBVIOUS
<1>1. LaneTypes
  BY PoolAssumption, CommandsAssumption DEF Init, PoolInit, LaneTypes, LaneRow, Idle, PCs
<1>2. RowTypes
  BY CommandsAssumption DEF Init, PoolInit, RowTypes, CommandKind, TaskKind, RowStates
<1>3. ASSUME NEW c \in Commands PROVE CommandInv(c)
  <2>1. \A l \in Lanes : lane[l].job # c
    BY <1>3, PoolAssumption, CommandsAssumption DEF Init, PoolInit, Idle
  <2>2. (\A l \in Lanes : \A s : ~On(l, c, s)) /\ (\A l \in Lanes : ~Holder(l, c))
    BY <2>1 DEF On, Holder
  <2>3. /\ cmd[c].state = "none" /\ agent[c] = "idle"
        /\ c \notin woken /\ <<c, "emit">> \notin notices /\ c \notin written
    BY <1>3 DEF Init
  <2>4. ~Applied(c) /\ ~Begun(c) /\ ~First(c) /\ ~Bound(c) /\ ~Performed(c) /\ Once(c)
    BY <1>3 DEF Init, Applied, Begun, First, Bound, Performed, Once
  <2>5. SettledIsSaid(c)  BY <2>2, <2>3 DEF SettledIsSaid
  <2>6. OneHolder(c)  BY <2>2 DEF OneHolder
  <2>7. AppliedIsWritten(c)  BY <2>2, <2>3, <2>4 DEF AppliedIsWritten
  <2>8. BegunBefore(c)  BY <2>2, <2>4 DEF BegunBefore
  <2>9. FirstAttempt(c)  BY <2>4 DEF FirstAttempt
  <2>10. DoubtIsKnown(c)  BY <2>4 DEF DoubtIsKnown
  <2> QED BY <2>5, <2>6, <2>7, <2>8, <2>9, <2>10 DEF CommandInv
<1> QED BY <1>1, <1>2, <1>3 DEF SorInv

LEMMA StandingStill ==
  ASSUME SorInv, UNCHANGED vars
  PROVE  SorInv'
<1>1. LaneTypes /\ RowTypes /\ \A d \in Commands : CommandInv(d)  BY DEF SorInv
<1>2. UNCHANGED <<task, lane, cmd, wrote, written, doubt, spawning, woken, notices, agent, told>>
  BY DEF vars, pool, rowVars, runVars, stopVars, effectVars
<1>3. LaneTypes' /\ RowTypes'  BY <1>1, <1>2 DEF LaneTypes, RowTypes
<1>4. \A d \in Commands : Aside(d)  BY <1>2 DEF Aside
<1> QED BY <1>1, <1>3, <1>4, AsideKeeps DEF SorInv

LEMMA WorkerKeeps ==
  ASSUME SorInv, NEW l \in Lanes, Worker(l)
  PROVE  SorInv'
<1>1. CASE \E c \in Commands : ClaimCommand(l, c)  BY <1>1, ClaimingKeeps
<1>2. CASE \/ BeginSettled(l) \/ BeginUnbound(l) \/ Refused(l) \/ LoadClaim(l)
           \/ CheckTarget(l) \/ WriteReplayed(l) \/ VendorDeclines(l) \/ NoLongerRunning(l)
           \/ FetchRecord(l) \/ StepRaises(l) \/ EngineRaises(l)
           \/ FailureFindsSettled(l) \/ FailureRaises(l) \/ HandlerStopped(l)
  BY <1>2, QuietHandler
<1>3. CASE Begin(l)  BY <1>3, BeginningKeeps
<1>4. CASE VendorWrites(l)  BY <1>4, WritingKeeps
<1>5. CASE SaveWrite(l)  BY <1>5, SavingKeeps
<1>6. CASE RecordWrite(l)  BY <1>6, RecordingKeeps
<1>7. CASE Project(l) \/ Conflict(l) \/ Fail(l)  BY <1>7, SettlingKeeps
<1>8. CASE Retry(l)  BY <1>8, RetryKeeps
<1>9. CASE EmitTerminal(l)  BY <1>9, EmissionKeeps
<1> QED BY <1>1, <1>2, <1>3, <1>4, <1>5, <1>6, <1>7, <1>8, <1>9 DEF Worker, Handler

LEMMA NextKeeps ==
  ASSUME SorInv, [Next]_vars
  PROVE  SorInv'
<1>1. CASE UNCHANGED vars  BY <1>1, StandingStill
<1>2. ASSUME NEW l \in Lanes, Worker(l) PROVE SorInv'  BY <1>2, WorkerKeeps
<1>3. ASSUME NEW l \in Lanes, LaneDies(l) PROVE SorInv'  BY <1>3, DeathKeeps
<1>4. ASSUME NEW c \in Commands, AgentFiles(c) PROVE SorInv'  BY <1>4, FilingKeeps
<1>5. ASSUME NEW c \in Commands, Spawner(c) PROVE SorInv'
  BY <1>5, SpawningKeeps, BindingKeeps DEF Spawner
<1>6. ASSUME NEW c \in Commands, Canceller(c) \/ ClaimExpires(c) PROVE SorInv'
  BY <1>6, CancellingKeeps, NotifyingKeeps, LosingKeeps DEF Canceller
<1>7. CASE \/ \E c \in Commands : \/ AgentReads(c) \/ AgentPauses(c) \/ AgentWakes(c)
                                  \/ AgentGoes(c) \/ TargetMoves(c)
           \/ RevokeGrant \/ FenceSource \/ SourceSetup \/ RevokerDies
  BY <1>7, QuietControl
<1> QED BY <1>1, <1>2, <1>3, <1>4, <1>5, <1>6, <1>7 DEF Next, AgentStep

LEMMA InvariantHolds == Spec => []SorInv
<1>1. Init => SorInv  BY InitHolds
<1>2. SorInv /\ [Next]_vars => SorInv'  BY NextKeeps
<1> QED BY <1>1, <1>2, PTL DEF Spec

LEMMA InvImpliesTruth == SorInv => ReceiptTellsTheTruth
<1> SUFFICES ASSUME SorInv, NEW c \in Commands
             PROVE  /\ cmd[c].state = "succeeded" => cmd[c].applied
                    /\ cmd[c].applied => wrote[c] > 0
                    /\ cmd[c].state = "cancelled" /\ cmd[c].attempts = 0 => wrote[c] = 0
                    /\ cmd[c].state = "conflict" /\ cmd[c].attempts = 1 => wrote[c] = 0
                    /\ wrote[c] > 1 => c \in doubt
  BY DEF ReceiptTellsTheTruth
<1>1. CommandInv(c) /\ wrote[c] \in 0..2 /\ cmd[c].attempts \in Nat
  BY DEF SorInv, RowTypes, CommandKind
<1>2. cmd[c].state = "succeeded" => cmd[c].applied
  BY <1>1 DEF CommandInv, AppliedIsWritten, Applied
<1>3. cmd[c].applied => wrote[c] > 0
  BY <1>1 DEF CommandInv, AppliedIsWritten, Applied, Performed
<1>4. cmd[c].state = "cancelled" /\ cmd[c].attempts = 0 => wrote[c] = 0
  BY <1>1 DEF CommandInv, BegunBefore, Begun, Performed
<1>5. cmd[c].state = "conflict" /\ cmd[c].attempts = 1 => wrote[c] = 0
  BY <1>1 DEF CommandInv, FirstAttempt, First, Performed
<1>6. wrote[c] > 1 => c \in doubt
  BY <1>1 DEF CommandInv, DoubtIsKnown, Once
<1> QED BY <1>2, <1>3, <1>4, <1>5, <1>6

(* What a receipt says of the vendor's record is true: a success was       *)
(* performed and recorded, a cancellation before the first attempt and a   *)
(* conflict on it mean that nothing was performed, and a command is        *)
(* performed twice only in doubt (sor/runtime/commands.py).                *)
THEOREM ReceiptsAreTrue == Spec => []ReceiptTellsTheTruth
BY InvariantHolds, InvImpliesTruth, PTL
-----------------------------------------------------------------------------
(* Receipts keep their contract *)

receipts == [c \in Commands |-> Receipt(c)]

LEMMA ReceiptSays ==
  ASSUME NEW c \in Commands
  PROVE  /\ cmd[c].state = "none" => Receipt(c) = "unfiled"
         /\ cmd[c].state \in Active => Receipt(c) = "open"
         /\ cmd[c].state \in Outcomes => Receipt(c) = cmd[c].state
BY DEF Receipt, Active, Outcomes

LEMMA ReceiptSame ==
  ASSUME NEW c \in Commands,
         cmd'[c].state = cmd[c].state \/ {cmd[c].state, cmd'[c].state} \subseteq Active
  PROVE  Receipt(c)' = Receipt(c)
BY DEF Receipt, Active

(* Only its own row decides about a receipt.                               *)
LEMMA ReceiptMoves ==
  ASSUME NEW c \in Commands, \A d \in Commands : d # c => cmd'[d] = cmd[d]
  PROVE  receipts' = [receipts EXCEPT ![c] = Receipt(c)']
<1>1. \A d \in Commands : d # c => Receipt(d)' = Receipt(d)  BY ReceiptSame
<1> QED BY <1>1 DEF receipts

LEMMA Settles ==
  ASSUME RowTypes, NEW c \in Commands, cmd[c].state \in Active, NEW s \in Outcomes, SetState(c, s),
         told' = told,
         projected' = IF s = "succeeded" THEN projected \union {c} ELSE projected
  PROVE  Contract!Next
<1>1. cmd' = [cmd EXCEPT ![c].state = s] /\ cmd \in [Commands -> CommandKind]
  BY DEF SetState, RowTypes
<1>2. cmd'[c].state = s /\ \A d \in Commands : d # c => cmd'[d] = cmd[d]
  BY <1>1 DEF CommandKind
<1>3. Receipt(c) = "open"  BY ReceiptSays
<1>4. Receipt(c)' = s  BY <1>2 DEF Receipt, Outcomes, Active
<1>5. receipts' = [receipts EXCEPT ![c] = s] /\ receipts[c] = "open"
  BY <1>2, <1>3, <1>4, ReceiptMoves DEF receipts
<1>6. Contract!Settle(c, s)  BY <1>5 DEF Contract!Settle, receipts
<1>7. s \in Contract!Outcomes  BY DEF Contract!Outcomes, Outcomes
<1> QED BY <1>6, <1>7 DEF Contract!Next

LEMMA Stutters ==
  ASSUME \A c \in Commands : cmd'[c].state = cmd[c].state \/ {cmd[c].state, cmd'[c].state} \subseteq Active,
         UNCHANGED <<projected, told>>
  PROVE  UNCHANGED Contract!vars
<1>1. receipts' = receipts  BY ReceiptSame DEF receipts
<1> QED BY <1>1 DEF Contract!vars, receipts

LEMMA Tells ==
  ASSUME SorInv, NEW c \in Commands, Settled(c), Tell(c), UNCHANGED <<cmd, projected>>
  PROVE  Contract!Next
<1>1. Receipt(c) = cmd[c].state  BY ReceiptSays DEF Settled
<1>2. receipts' = receipts  BY ReceiptSame DEF receipts
<1>3. receipts[c] = cmd[c].state /\ receipts[c] \in Outcomes  BY <1>1 DEF receipts, Settled
<1>4. Contract!Tell(c)
  BY <1>2, <1>3 DEF Tell, Contract!Tell, receipts, Contract!Outcomes, Outcomes
<1> QED BY <1>4 DEF Contract!Next

LEMMA Files ==
  ASSUME SorInv, NEW c \in Commands, AgentFiles(c)
  PROVE  Contract!Next
<1>1. /\ SetState(c, "pending") /\ agent[c] = "idle" /\ UNCHANGED <<told, projected>>
  BY DEF AgentFiles, runFrame
<1>2. cmd[c].state = "none"  BY <1>1 DEF SorInv, CommandInv, SettledIsSaid
<1>3. cmd' = [cmd EXCEPT ![c].state = "pending"] /\ cmd \in [Commands -> CommandKind]
  BY <1>1 DEF SetState, SorInv, RowTypes
<1>4. cmd'[c].state = "pending" /\ \A d \in Commands : d # c => cmd'[d] = cmd[d]
  BY <1>3 DEF CommandKind
<1>5. Receipt(c) = "unfiled" /\ Receipt(c)' = "open"
  BY <1>2, <1>4 DEF Receipt, Active
<1>6. receipts' = [receipts EXCEPT ![c] = "open"] /\ receipts[c] = "unfiled"
  BY <1>4, <1>5, ReceiptMoves DEF receipts
<1>7. Contract!File(c)  BY <1>1, <1>6 DEF Contract!File, receipts
<1> QED BY <1>7 DEF Contract!Next

LEMMA WorkerKeepsContract ==
  ASSUME SorInv, NEW l \in Lanes, Worker(l)
  PROVE  [Contract!Next]_Contract!vars
<1>1. CASE \/ \E c \in Commands : ClaimCommand(l, c)
           \/ BeginSettled(l) \/ BeginUnbound(l) \/ Refused(l) \/ LoadClaim(l)
           \/ CheckTarget(l) \/ WriteReplayed(l) \/ VendorDeclines(l) \/ NoLongerRunning(l)
           \/ FetchRecord(l) \/ StepRaises(l) \/ EngineRaises(l)
           \/ FailureFindsSettled(l) \/ FailureRaises(l) \/ HandlerStopped(l)
           \/ VendorWrites(l) \/ SaveWrite(l) \/ EmitTerminal(l)
  <2>1. UNCHANGED <<cmd, projected, told>>
    BY <1>1 DEF ClaimCommand, BeginSettled, BeginUnbound, Refused, LoadClaim, CheckTarget,
         WriteReplayed, VendorDeclines, NoLongerRunning, FetchRecord, StepRaises, EngineRaises,
         FailureFindsSettled, FailureRaises, HandlerStopped, VendorWrites, SaveWrite,
         EmitTerminal, stepFrame, rowVars, handlerFrame, runVars
  <2> QED BY <2>1, Stutters
<1>2. CASE Begin(l) \/ RecordWrite(l) \/ Retry(l)
  <2>1. PICK c \in Commands : c = lane[l].job
    BY <1>2, HandlerFacts DEF Begin, RecordWrite, Retry, At, CommandSteps
  <2>2. cmd \in [Commands -> CommandKind]  BY DEF SorInv, RowTypes
  <2>3. /\ cmd[c].state \in Active /\ cmd'[c].state \in Active
        /\ \A d \in Commands : d # c => cmd'[d] = cmd[d]
    <3>1. CASE Begin(l)  BY <2>1, <2>2, <3>1 DEF Begin, Job, Active, CommandKind
    <3>2. CASE RecordWrite(l)  BY <2>1, <2>2, <3>2 DEF RecordWrite, Job, Active, CommandKind
    <3>3. CASE Retry(l)  BY <2>1, <2>2, <3>3 DEF Retry, SetState, Job, Active, CommandKind
    <3> QED BY <1>2, <3>1, <3>2, <3>3
  <2>4. UNCHANGED <<projected, told>>
    BY <1>2 DEF Begin, RecordWrite, Retry, handlerFrame, runVars
  <2> QED BY <2>3, <2>4, Stutters
<1>3. CASE Project(l) \/ Conflict(l) \/ Fail(l)
  <2>1. PICK c \in Commands : c = lane[l].job
    BY <1>3, HandlerFacts DEF Project, Conflict, Fail, At, CommandSteps
  <2>2. told' = told /\ cmd[c].state \in Active
    BY <1>3, <2>1 DEF Project, Conflict, Fail, Job, Active, handlerFrame, runVars
  <2>3. PICK s \in {"succeeded", "conflict", "failed"} :
          /\ SetState(c, s)
          /\ projected' = IF s = "succeeded" THEN projected \union {c} ELSE projected
    BY <1>3, <2>1 DEF Project, Conflict, Fail, Job
  <2>4. s \in Outcomes /\ RowTypes  BY DEF Outcomes, SorInv
  <2> QED BY <2>2, <2>3, <2>4, Settles
<1> QED BY <1>1, <1>2, <1>3 DEF Worker, Handler

LEMMA StepKeepsContract ==
  ASSUME SorInv, [Next]_vars
  PROVE  [Contract!Next]_Contract!vars
<1>1. CASE \/ UNCHANGED vars
           \/ \E l \in Lanes : LaneDies(l)
           \/ \E c \in Commands : \/ AgentPauses(c) \/ AgentGoes(c) \/ Spawner(c) \/ ClaimExpires(c)
                                  \/ NotifyEmits(c) \/ NotifyStops(c) \/ TargetMoves(c)
           \/ RevokeGrant \/ FenceSource \/ SourceSetup \/ RevokerDies
  <2>1. UNCHANGED <<projected, told>>
    BY <1>1 DEF vars, rowVars, runVars, LaneDies, handlerFrame, AgentPauses, AgentGoes, runFrame,
         Spawner, SpawnReads, SpawnTask, SpawnBinds, spawnFrame, ClaimExpires, NotifyEmits,
         NotifyStops, noticeFrame, TargetMoves, RevokeGrant, FenceSource, SourceSetup,
         controlFrame, RevokerDies
  <2>2. cmd' = cmd \/ \E c \in Commands : cmd' = [cmd EXCEPT ![c].bound = TRUE]
    BY <1>1 DEF vars, rowVars, LaneDies, AgentPauses, AgentGoes, runFrame,
         Spawner, SpawnReads, SpawnTask, SpawnBinds, ClaimExpires, NotifyEmits,
         NotifyStops, noticeFrame, TargetMoves, RevokeGrant, FenceSource, SourceSetup,
         controlFrame, RevokerDies
  <2>3. cmd \in [Commands -> CommandKind]  BY DEF SorInv, RowTypes
  <2>4. \A c \in Commands : cmd'[c].state = cmd[c].state  BY <2>2, <2>3 DEF CommandKind
  <2> QED BY <2>1, <2>4, Stutters
<1>2. ASSUME NEW l \in Lanes, Worker(l) PROVE [Contract!Next]_Contract!vars
  BY <1>2, WorkerKeepsContract
<1>3. ASSUME NEW c \in Commands, AgentFiles(c) PROVE [Contract!Next]_Contract!vars
  BY <1>3, Files
<1>4. ASSUME NEW c \in Commands, AgentReads(c) PROVE [Contract!Next]_Contract!vars
  <2>1. CASE cmd[c].state \in Outcomes
    <3>1. Settled(c) /\ Tell(c) /\ UNCHANGED <<cmd, projected>>
      BY <1>4, <2>1 DEF AgentReads, runFrame, Settled
    <3> QED BY <3>1, Tells
  <2>2. CASE cmd[c].state \notin Outcomes
    <3>1. UNCHANGED <<cmd, projected, told>>
      BY <1>4, <2>2 DEF AgentReads, runFrame
    <3> QED BY <3>1, Stutters
  <2> QED BY <2>1, <2>2
<1>5. ASSUME NEW c \in Commands, AgentWakes(c) PROVE [Contract!Next]_Contract!vars
  <2>1. Tell(c) /\ c \in woken /\ UNCHANGED <<cmd, projected>>
    BY <1>5 DEF AgentWakes, runFrame
  <2>2. Settled(c)  BY <2>1 DEF SorInv, CommandInv, SettledIsSaid
  <2> QED BY <2>1, <2>2, Tells
<1>6. ASSUME NEW c \in Commands, CancelCommand(c) PROVE [Contract!Next]_Contract!vars
  <2>1. UNCHANGED <<projected, told>>  BY <1>6 DEF CancelCommand, runVars
  <2>2. CASE cmd[c].state \in Active
    <3>1. PICK s \in {"cancelled", "failed"} : SetState(c, s)
      BY <1>6, <2>2 DEF CancelCommand
    <3>2. s \in Outcomes /\ s # "succeeded" /\ RowTypes  BY DEF Outcomes, SorInv
    <3> QED BY <2>1, <2>2, <3>1, <3>2, Settles
  <2>3. CASE cmd[c].state \notin Active
    <3>1. cmd' = cmd  BY <1>6, <2>3 DEF CancelCommand
    <3> QED BY <2>1, <3>1, Stutters
  <2> QED BY <2>2, <2>3
<1> QED BY <1>1, <1>2, <1>3, <1>4, <1>5, <1>6 DEF Next, AgentStep, Canceller

LEMMA InitKeepsContract == Init => Contract!Init
<1> SUFFICES ASSUME Init PROVE Contract!Init  OBVIOUS
<1>1. \A c \in Commands : Receipt(c) = "unfiled"  BY ReceiptSays DEF Init
<1> QED BY <1>1 DEF Init, Contract!Init

(* However the handler is stalled, killed, retried or cancelled, a receipt *)
(* is settled once, the projection goes with success, and the Agent is told*)
(* the settled receipt (SorCommandContract).                               *)
THEOREM ReceiptsImplementContract == Spec => ReceiptsKeepContract
<1>1. Init => Contract!Init  BY InitKeepsContract
<1>2. SorInv /\ [Next]_vars => [Contract!Next]_Contract!vars  BY StepKeepsContract
<1> QED BY <1>1, <1>2, InvariantHolds, PTL DEF Spec, ReceiptsKeepContract, Contract!Spec
-----------------------------------------------------------------------------
(* What the contract gives *)

ContractInv == Contract!TypeOK /\ Contract!ToldIsWhatHappened

LEMMA ContractStep ==
  ASSUME ContractInv, [Contract!Next]_Contract!vars
  PROVE  ContractInv'
<1>1. /\ receipts \in [Commands -> {"unfiled", "open"} \union Outcomes]
      /\ projected \in SUBSET Commands
      /\ told \in [Commands -> {"none"} \union Outcomes]
      /\ \A c \in Commands : /\ told[c] \in {"none", receipts[c]}
                             /\ c \in projected <=> receipts[c] = "succeeded"
  BY DEF ContractInv, Contract!TypeOK, Contract!ToldIsWhatHappened, Contract!Outcomes, Outcomes, receipts
<1>2. SUFFICES /\ receipts' \in [Commands -> {"unfiled", "open"} \union Outcomes]
               /\ projected' \in SUBSET Commands
               /\ told' \in [Commands -> {"none"} \union Outcomes]
               /\ \A c \in Commands : /\ told'[c] \in {"none", receipts'[c]}
                                      /\ c \in projected' <=> receipts'[c] = "succeeded"
  BY DEF ContractInv, Contract!TypeOK, Contract!ToldIsWhatHappened, Contract!Outcomes, Outcomes, receipts
<1>3. CASE UNCHANGED Contract!vars
  <2>1. UNCHANGED <<receipts, projected, told>>  BY <1>3 DEF Contract!vars, receipts
  <2> QED BY <1>1, <2>1
<1>4. ASSUME NEW c \in Commands, Contract!File(c)
      PROVE  /\ receipts' \in [Commands -> {"unfiled", "open"} \union Outcomes]
             /\ projected' \in SUBSET Commands
             /\ told' \in [Commands -> {"none"} \union Outcomes]
             /\ \A d \in Commands : /\ told'[d] \in {"none", receipts'[d]}
                                    /\ d \in projected' <=> receipts'[d] = "succeeded"
  <2>1. receipts[c] = "unfiled" /\ receipts' = [receipts EXCEPT ![c] = "open"]
        /\ projected' = projected /\ told' = told
    BY <1>4 DEF Contract!File, receipts
  <2> QED BY <1>1, <2>1 DEF Outcomes
<1>5. ASSUME NEW c \in Commands, NEW s \in Outcomes, Contract!Settle(c, s)
      PROVE  /\ receipts' \in [Commands -> {"unfiled", "open"} \union Outcomes]
             /\ projected' \in SUBSET Commands
             /\ told' \in [Commands -> {"none"} \union Outcomes]
             /\ \A d \in Commands : /\ told'[d] \in {"none", receipts'[d]}
                                    /\ d \in projected' <=> receipts'[d] = "succeeded"
  <2>1. receipts[c] = "open" /\ receipts' = [receipts EXCEPT ![c] = s]
        /\ projected' = (IF s = "succeeded" THEN projected \union {c} ELSE projected)
        /\ told' = told
    BY <1>5 DEF Contract!Settle, receipts
  <2> QED BY <1>1, <2>1 DEF Outcomes
<1>6. ASSUME NEW c \in Commands, Contract!Tell(c)
      PROVE  /\ receipts' \in [Commands -> {"unfiled", "open"} \union Outcomes]
             /\ projected' \in SUBSET Commands
             /\ told' \in [Commands -> {"none"} \union Outcomes]
             /\ \A d \in Commands : /\ told'[d] \in {"none", receipts'[d]}
                                    /\ d \in projected' <=> receipts'[d] = "succeeded"
  <2>1. receipts[c] \in Outcomes /\ receipts' = receipts /\ projected' = projected
        /\ told' = [told EXCEPT ![c] = receipts[c]]
    BY <1>6 DEF Contract!Tell, receipts, Contract!Outcomes, Outcomes
  <2> QED BY <1>1, <2>1
<1> QED BY <1>3, <1>4, <1>5, <1>6 DEF Contract!Next, Contract!Outcomes, Outcomes

(* What the Agent was told of a command is what its receipt says ever      *)
(* after, and the canonical records hold its result exactly if it succeeded*)
(* (execute_sor_mutation_tool, _project_and_complete).                     *)
THEOREM WhatIsToldHappened == Spec => []Contract!ToldIsWhatHappened
<1>1. Contract!Init => ContractInv
  BY DEF Contract!Init, ContractInv, Contract!TypeOK, Contract!ToldIsWhatHappened
<1>2. ContractInv /\ [Contract!Next]_Contract!vars => ContractInv'
  BY ContractStep
<1>3. ContractInv => Contract!ToldIsWhatHappened  BY DEF ContractInv
<1> QED
  BY <1>1, <1>2, <1>3, ReceiptsImplementContract, PTL DEF ReceiptsKeepContract, Contract!Spec
-----------------------------------------------------------------------------
(* Types: a command begins no more attempts than its task was claimed      *)

ControlTypes ==
  /\ kind \in [Commands -> {"create", "update", "versioned"}]
  /\ agent \in [Commands -> {"idle", "reading", "pausing", "waiting", "told", "gone"}]
  /\ told \in [Commands -> {"none"} \union Outcomes]
  /\ source \in {"open", "closed", "fenced"}
  /\ grant \in BOOLEAN
  /\ notices \subseteq Commands \X {"emit", "stop"}
  /\ spawning \subseteq Commands /\ revoked \subseteq Commands
  /\ woken \subseteq Commands /\ unsaid \subseteq Commands

EffectTypes ==
  /\ written \subseteq Commands /\ moved \subseteq Commands
  /\ projected \subseteq Commands /\ doubt \subseteq Commands

(* Of the tries of a command's task, each has begun one attempt at most,   *)
(* and the lanes at "begin" have still to.                                 *)
TriesCover(c) == cmd[c].attempts + Cardinality(Starting(c, "begin")) <= task[c].tries

TypeInv ==
  /\ PoolInv /\ ControlTypes /\ EffectTypes
  /\ upsets \in 0..MaxUpsets
  /\ \A c \in Commands : TriesCover(c)

(* What every step but a claim and a beginning does to the counts.         *)
CountsStay ==
  /\ PoolInv'
  /\ \A c \in Commands : Steady(c, "begin") /\ cmd'[c].attempts = cmd[c].attempts

LEMMA CommandsAreTasks == \A c \in Commands : c \in Tasks
BY CommandsAssumption

LEMMA UpsetsStay ==
  ASSUME upsets \in 0..MaxUpsets, Smooth \/ Upset
  PROVE  upsets' \in 0..MaxUpsets
BY PoolAssumption DEF Smooth, Upset

LEMMA CoverStays ==
  ASSUME RowTypes, TypeInv, CountsStay
  PROVE  \A c \in Commands : TriesCover(c)'
<1> TAKE c \in Commands
<1>1. c \in Tasks /\ task[c] \in TaskRow  BY CommandsAreTasks DEF TypeInv, PoolInv
<1>2. cmd[c].attempts \in Nat  BY DEF RowTypes, CommandKind
<1>3. TriesCover(c) /\ Steady(c, "begin") /\ cmd'[c].attempts = cmd[c].attempts
  BY DEF TypeInv, CountsStay
<1>4. cmd[c].attempts + Cardinality(Starting(c, "begin")') <= task'[c].tries
  BY <1>1, <1>2, <1>3, CountStays DEF TriesCover, Steady
<1> QED BY <1>3, <1>4 DEF TriesCover

(* Every step of a handler but Begin leaves "begin" behind, or its lane.   *)
HandlerGoes(l) ==
  \/ \E pc \in CommandSteps \ {"begin"} : Step(l, pc, "none")
  \/ Returns(l) \/ GivesBack(l)

LEMMA HandlerLeavesBegin ==
  ASSUME NEW l \in Lanes, Handler(l), ~Begin(l)
  PROVE  HandlerGoes(l) /\ (Smooth \/ Upset)
<1>1. CASE BeginSettled(l) \/ Refused(l) \/ LoadClaim(l) \/ CheckTarget(l) \/ WriteReplayed(l)
           \/ SaveWrite(l) \/ RecordWrite(l) \/ NoLongerRunning(l) \/ FetchRecord(l) \/ Project(l)
           \/ EngineRaises(l) \/ FailureFindsSettled(l) \/ Conflict(l) \/ Fail(l)
  BY <1>1 DEF BeginSettled, Refused, LoadClaim, CheckTarget, WriteReplayed, SaveWrite,
              RecordWrite, NoLongerRunning, FetchRecord, Project, EngineRaises,
              FailureFindsSettled, Conflict, Fail, Goto, HandlerGoes, CommandSteps
<1>2. CASE VendorWrites(l) \/ VendorDeclines(l) \/ StepRaises(l)
  BY <1>2 DEF VendorWrites, VendorDeclines, StepRaises, Goto, Trips, HandlerGoes, CommandSteps
<1>3. CASE \/ BeginUnbound(l) \/ FailureRaises(l) \/ Retry(l) \/ EmitTerminal(l)
           \/ HandlerStopped(l)
  BY <1>3 DEF BeginUnbound, FailureRaises, Retry, EmitTerminal, HandlerStopped, Raises,
              Returns, HandlerGoes
<1> QED BY <1>1, <1>2, <1>3 DEF Handler

LEMMA HandlerCounts ==
  ASSUME LaneTypes, RowTypes, TypeInv, NEW l \in Lanes, Handler(l), ~Begin(l)
  PROVE  CountsStay /\ upsets' \in 0..MaxUpsets
<1>1. HandlerGoes(l) /\ (Smooth \/ Upset)  BY HandlerLeavesBegin
<1>2. lane \in [Lanes -> LaneRow(PCs, {"none"})] /\ PoolInv  BY DEF LaneTypes, TypeInv
<1>3. PoolInv' /\ \A c \in Commands : Steady(c, "begin")
  <2>1. ASSUME NEW pc \in CommandSteps \ {"begin"}, Step(l, pc, "none")
        PROVE  PoolInv' /\ \A c \in Commands : Steady(c, "begin")
    <3>1. pc # "idle" /\ pc # "begin"  BY StepSets
    <3>2. PoolInv' /\ \A t \in Tasks : \A first : pc # first => Steady(t, first)
      BY <1>2, <2>1, <3>1, PoolSteps
    <3> QED BY <3>1, <3>2, CommandsAreTasks
  <2>2. CASE Returns(l) \/ GivesBack(l)
    BY <1>2, <2>2, PoolEnds, CommandsAreTasks
  <2> QED BY <1>1, <2>1, <2>2 DEF HandlerGoes
<1>4. \A c \in Commands : cmd'[c].attempts = cmd[c].attempts
  <2>1. CASE cmd' = cmd  BY <2>1
  <2>2. CASE RecordWrite(l)
    BY <2>2 DEF RecordWrite, RowTypes, CommandKind
  <2>3. ASSUME NEW c, NEW s, SetState(c, s)
        PROVE  \A d \in Commands : cmd'[d].attempts = cmd[d].attempts
    BY <2>3 DEF SetState, RowTypes, CommandKind
  <2>4. CASE Project(l) \/ Conflict(l) \/ Fail(l) \/ Retry(l)
    BY <2>3, <2>4 DEF Project, Conflict, Fail, Retry
  <2>5. CASE \/ BeginSettled(l) \/ BeginUnbound(l) \/ Refused(l) \/ LoadClaim(l)
             \/ CheckTarget(l) \/ WriteReplayed(l) \/ VendorWrites(l) \/ VendorDeclines(l)
             \/ SaveWrite(l) \/ NoLongerRunning(l) \/ FetchRecord(l) \/ StepRaises(l)
             \/ EngineRaises(l) \/ FailureFindsSettled(l) \/ FailureRaises(l)
             \/ EmitTerminal(l) \/ HandlerStopped(l)
    BY <2>1, <2>5 DEF BeginSettled, BeginUnbound, Refused, LoadClaim, CheckTarget, WriteReplayed,
         VendorWrites, VendorDeclines, SaveWrite, NoLongerRunning, FetchRecord, StepRaises,
         EngineRaises, FailureFindsSettled, FailureRaises, EmitTerminal, HandlerStopped,
         stepFrame, rowVars
  <2> QED BY <2>2, <2>4, <2>5 DEF Handler
<1>5. upsets' \in 0..MaxUpsets  BY <1>1, UpsetsStay DEF TypeInv
<1> QED BY <1>3, <1>4, <1>5 DEF CountsStay

LEMMA HandlerTypes ==
  ASSUME LaneTypes, TypeInv, NEW l \in Lanes, Handler(l)
  PROVE  ControlTypes' /\ EffectTypes'
<1>0. ControlTypes /\ EffectTypes  BY DEF TypeInv
<1>1. Job(l) \in Commands
  <2>1. lane[l].pc # "idle"
    BY DEF Handler, BeginSettled, BeginUnbound, Begin, Refused, LoadClaim, CheckTarget,
           WriteReplayed, VendorWrites, VendorDeclines, SaveWrite, RecordWrite, NoLongerRunning,
           FetchRecord, Project, StepRaises, EngineRaises, FailureFindsSettled, FailureRaises,
           Conflict, Fail, Retry, EmitTerminal, HandlerStopped, Failing, CommandSteps, At
  <2> QED BY <2>1 DEF LaneTypes, Job
<1>2. UNCHANGED handlerFrame /\ woken' \in {woken, woken \union {Job(l)}}
  BY DEF Handler, BeginSettled, BeginUnbound, Begin, Refused, LoadClaim, CheckTarget,
         WriteReplayed, VendorWrites, VendorDeclines, SaveWrite, RecordWrite, NoLongerRunning,
         FetchRecord, Project, StepRaises, EngineRaises, FailureFindsSettled, FailureRaises,
         Conflict, Fail, Retry, EmitTerminal, HandlerStopped, stepFrame
<1>3. ControlTypes'
  BY <1>0, <1>1, <1>2 DEF ControlTypes, handlerFrame, runVars, authority
<1>4. /\ written' \in {written, written \union {Job(l)}}
      /\ moved' \in {moved, moved \union {Job(l)}}
      /\ projected' \in {projected, projected \union {Job(l)}}
      /\ doubt' \in {doubt, doubt \union {Job(l)}}
  BY DEF Handler, BeginSettled, BeginUnbound, Begin, Refused, LoadClaim, CheckTarget,
         WriteReplayed, VendorWrites, VendorDeclines, SaveWrite, RecordWrite, NoLongerRunning,
         FetchRecord, Project, StepRaises, EngineRaises, FailureFindsSettled, FailureRaises,
         Conflict, Fail, Retry, EmitTerminal, HandlerStopped, stepFrame, effectVars, rowVars
<1>5. EffectTypes'  BY <1>0, <1>1, <1>4 DEF EffectTypes
<1> QED BY <1>3, <1>5

(* An attempt begins: one lane less has still to begin, and one attempt    *)
(* more is counted.                                                        *)
LEMMA BeginningCounts ==
  ASSUME LaneTypes, RowTypes, TypeInv, NEW l \in Lanes, Begin(l)
  PROVE  PoolInv' /\ (\A c \in Commands : TriesCover(c)') /\ upsets' \in 0..MaxUpsets
<1>1. lane[l].pc = "begin" /\ lane \in [Lanes -> LaneRow(PCs, {"none"})]
  BY DEF Begin, At, LaneTypes
<1>2. PICK c \in Commands : c = lane[l].job  BY <1>1 DEF LaneTypes
<1>3. /\ Step(l, "claim", "none") /\ Smooth
      /\ cmd' = [cmd EXCEPT ![c].state = "running", ![c].attempts = @ + 1]
  BY <1>2 DEF Begin, Goto, Job
<1>4. /\ PoolInv'
      /\ \A t \in Tasks : Steady(t, "begin") /\ l \notin Starting(t, "begin")'
  <2>1. \A t \in Tasks : \A first : "claim" # first =>
          Steady(t, first) /\ l \notin Starting(t, first)'
    BY <1>1, <1>3, PoolSteps DEF TypeInv
  <2> QED BY <1>1, <1>3, <2>1, PoolSteps DEF TypeInv
<1>5. \A d \in Commands :
        /\ d \in Tasks /\ task[d] \in TaskRow /\ cmd[d].attempts \in Nat
        /\ cmd[d].attempts + Cardinality(Starting(d, "begin")) <= task[d].tries
  BY CommandsAreTasks DEF TypeInv, PoolInv, RowTypes, CommandKind, TriesCover
<1>6. ASSUME NEW d \in Commands PROVE TriesCover(d)'
  <2>1. CASE d = c
    <3>1. l \in Starting(c, "begin")  BY <1>1, <1>2 DEF Starting
    <3>2. cmd'[c].attempts = cmd[c].attempts + 1  BY <1>3 DEF RowTypes, CommandKind
    <3>3. (cmd[c].attempts + 1) + Cardinality(Starting(c, "begin")') <= task'[c].tries
      BY <1>4, <1>5, <3>1, CountBegin DEF Steady
    <3> QED BY <2>1, <3>2, <3>3 DEF TriesCover
  <2>2. CASE d # c
    <3>1. cmd'[d].attempts = cmd[d].attempts  BY <1>3, <2>2 DEF RowTypes, CommandKind
    <3>2. cmd[d].attempts + Cardinality(Starting(d, "begin")') <= task'[d].tries
      BY <1>4, <1>5, CountStays DEF Steady
    <3> QED BY <3>1, <3>2 DEF TriesCover
  <2> QED BY <2>1, <2>2
<1> QED BY <1>3, <1>4, <1>6, UpsetsStay DEF TypeInv

LEMMA ClaimingCounts ==
  ASSUME LaneTypes, RowTypes, TypeInv, NEW l \in Lanes, NEW c \in Commands, ClaimCommand(l, c)
  PROVE  PoolInv' /\ (\A d \in Commands : TriesCover(d)') /\ upsets' \in 0..MaxUpsets
<1>1. /\ Claim(l, c, "begin") /\ cmd' = cmd /\ Smooth
      /\ lane \in [Lanes -> LaneRow(PCs, {"none"})]
  BY DEF ClaimCommand, stepFrame, rowVars, Claim, LaneTypes
<1>2. /\ PoolInv'
      /\ \A d \in Tasks : d # c => Starting(d, "begin")' \subseteq Starting(d, "begin")
      /\ \A d \in Tasks : d # c => task'[d] = task[d]
      /\ l \notin Starting(c, "begin")
      /\ Starting(c, "begin")' = Starting(c, "begin") \union {l}
      /\ task'[c].tries = task[c].tries + 1
  BY <1>1, CommandsAreTasks, PoolClaims DEF TypeInv
<1>3. \A d \in Commands :
        /\ d \in Tasks /\ task[d] \in TaskRow /\ cmd[d].attempts \in Nat
        /\ cmd[d].attempts + Cardinality(Starting(d, "begin")) <= task[d].tries
  BY CommandsAreTasks DEF TypeInv, PoolInv, RowTypes, CommandKind, TriesCover
<1>4. ASSUME NEW d \in Commands PROVE TriesCover(d)'
  <2>1. CASE d = c
    <3>1. cmd[c].attempts + Cardinality(Starting(c, "begin")') <= task'[c].tries
      BY <1>2, <1>3, CountClaim
    <3> QED BY <1>1, <2>1, <3>1 DEF TriesCover
  <2>2. CASE d # c
    <3>1. cmd[d].attempts + Cardinality(Starting(d, "begin")') <= task'[d].tries
      BY <1>2, <1>3, <2>2, CountStays
    <3> QED BY <1>1, <3>1 DEF TriesCover
  <2> QED BY <2>1, <2>2
<1> QED BY <1>1, <1>2, <1>4, UpsetsStay DEF TypeInv

(* Steps outside of the handlers, by what they do to tasks and lanes.      *)
PoolMoves ==
  \/ UNCHANGED <<task, lane>>
  \/ \E l \in Lanes : Dies(l)
  \/ \E c \in Commands : ClaimRunsOut(c) \/ CancelTask(c)
  \/ \E c \in Commands : task' = Spawned(c) /\ lane' = lane

LEMMA MovesCount ==
  ASSUME LaneTypes, RowTypes, TypeInv, PoolMoves,
         \A c \in Commands : cmd'[c].attempts = cmd[c].attempts
  PROVE  CountsStay
<1>1. lane \in [Lanes -> LaneRow(PCs, {"none"})] /\ PoolInv  BY DEF LaneTypes, TypeInv
<1>2. PoolInv' /\ \A t \in Tasks : Steady(t, "begin")
  <2>1. CASE UNCHANGED <<task, lane>>  BY <1>1, <2>1, PoolStays
  <2>2. ASSUME NEW l \in Lanes, Dies(l)
        PROVE  PoolInv' /\ \A t \in Tasks : Steady(t, "begin")
    BY <1>1, <2>2, PoolEnds
  <2>3. ASSUME NEW c \in Commands, ClaimRunsOut(c) \/ CancelTask(c)
        PROVE  PoolInv' /\ \A t \in Tasks : Steady(t, "begin")
    BY <1>1, <2>3, CommandsAreTasks, PoolLoses
  <2>4. ASSUME NEW c \in Commands, task' = Spawned(c), lane' = lane
        PROVE  PoolInv' /\ \A t \in Tasks : Steady(t, "begin")
    <3>1. /\ task' = [t \in Tasks |-> task'[t]]
          /\ \A t \in Tasks : TaskStays(t) \/ TaskSpawned(t)
      BY <1>1, <2>4 DEF Spawned, PoolInv, TaskStays, TaskSpawned
    <3> QED BY <1>1, <2>4, <3>1, PoolSpawns
  <2> QED BY <2>1, <2>2, <2>3, <2>4 DEF PoolMoves
<1> QED BY <1>2, CommandsAreTasks DEF CountsStay

LEMMA ControlCounts ==
  ASSUME LaneTypes, RowTypes, TypeInv,
         \/ \E l \in Lanes : LaneDies(l)
         \/ \E c \in Commands :
              AgentStep(c) \/ AgentGoes(c) \/ Spawner(c) \/ ClaimExpires(c) \/ Canceller(c)
              \/ TargetMoves(c)
         \/ RevokeGrant \/ FenceSource \/ SourceSetup \/ RevokerDies
  PROVE  CountsStay /\ upsets' \in 0..MaxUpsets
<1>1. /\ PoolMoves /\ (Smooth \/ Upset)
      /\ \A c \in Commands : cmd'[c].attempts = cmd[c].attempts
  <2>0. ASSUME NEW c, NEW s, SetState(c, s)
        PROVE  \A d \in Commands : cmd'[d].attempts = cmd[d].attempts
    BY <2>0 DEF SetState, RowTypes, CommandKind
  <2>1. CASE RevokeGrant \/ FenceSource \/ SourceSetup \/ RevokerDies
    BY <2>1 DEF RevokeGrant, FenceSource, SourceSetup, RevokerDies, controlFrame, rowVars, PoolMoves
  <2>2. ASSUME NEW l \in Lanes, LaneDies(l)
        PROVE  /\ PoolMoves /\ (Smooth \/ Upset)
               /\ \A c \in Commands : cmd'[c].attempts = cmd[c].attempts
    BY <2>2 DEF LaneDies, Dies, rowVars, PoolMoves
  <2>3. ASSUME NEW c \in Commands, AgentFiles(c)
        PROVE  /\ PoolMoves /\ (Smooth \/ Upset)
               /\ \A d \in Commands : cmd'[d].attempts = cmd[d].attempts
    BY <2>0, <2>3 DEF AgentFiles, runFrame, pool, PoolMoves, Smooth
  <2>4. ASSUME NEW c \in Commands,
               AgentReads(c) \/ AgentPauses(c) \/ AgentWakes(c) \/ AgentGoes(c) \/ TargetMoves(c)
        PROVE  /\ PoolMoves /\ (Smooth \/ Upset)
               /\ \A d \in Commands : cmd'[d].attempts = cmd[d].attempts
    BY <2>4 DEF AgentReads, AgentPauses, AgentWakes, AgentGoes, TargetMoves, runFrame, pool,
                rowVars, PoolMoves, Smooth
  <2>5. ASSUME NEW c \in Commands, SpawnReads(c) \/ SpawnTask(c)
        PROVE  /\ PoolMoves /\ (Smooth \/ Upset)
               /\ \A d \in Commands : cmd'[d].attempts = cmd[d].attempts
    BY <2>5 DEF SpawnReads, SpawnTask, pool, PoolMoves, Smooth
  <2>6. ASSUME NEW c \in Commands, SpawnBinds(c)
        PROVE  /\ PoolMoves /\ (Smooth \/ Upset)
               /\ \A d \in Commands : cmd'[d].attempts = cmd[d].attempts
    <3>1. \A d \in Commands : cmd'[d].attempts = cmd[d].attempts
      BY <2>6 DEF SpawnBinds, RowTypes, CommandKind
    <3>2. PoolMoves /\ (Smooth \/ Upset)
      BY <2>6 DEF SpawnBinds, CancelTask, pool, PoolMoves, Smooth
    <3> QED BY <3>1, <3>2
  <2>7. ASSUME NEW c \in Commands, ClaimExpires(c)
        PROVE  /\ PoolMoves /\ (Smooth \/ Upset)
               /\ \A d \in Commands : cmd'[d].attempts = cmd[d].attempts
    BY <2>7 DEF ClaimExpires, ClaimRunsOut, rowVars, PoolMoves
  <2>8. ASSUME NEW c \in Commands, CancelCommand(c)
        PROVE  /\ PoolMoves /\ (Smooth \/ Upset)
               /\ \A d \in Commands : cmd'[d].attempts = cmd[d].attempts
    BY <2>0, <2>8 DEF CancelCommand, pool, PoolMoves, Smooth
  <2>9. ASSUME NEW c \in Commands, NotifyEmits(c) \/ NotifyStops(c)
        PROVE  /\ PoolMoves /\ (Smooth \/ Upset)
               /\ \A d \in Commands : cmd'[d].attempts = cmd[d].attempts
    BY <2>9 DEF NotifyEmits, NotifyStops, CancelTask, noticeFrame, rowVars, PoolMoves
  <2> QED BY <2>1, <2>2, <2>3, <2>4, <2>5, <2>6, <2>7, <2>8, <2>9 DEF AgentStep, Spawner, Canceller
<1> QED BY <1>1, MovesCount, UpsetsStay DEF TypeInv

LEMMA ControlStepTypes ==
  ASSUME SorInv, TypeInv,
         \/ \E l \in Lanes : LaneDies(l)
         \/ \E c \in Commands :
              AgentStep(c) \/ AgentGoes(c) \/ Spawner(c) \/ ClaimExpires(c) \/ Canceller(c)
              \/ TargetMoves(c)
         \/ RevokeGrant \/ FenceSource \/ SourceSetup \/ RevokerDies
  PROVE  ControlTypes' /\ EffectTypes'
<1>0. /\ ControlTypes /\ EffectTypes /\ LaneTypes
      /\ \A c \in Commands : SettledIsSaid(c)
  BY DEF SorInv, CommandInv, TypeInv
<1>1. ASSUME NEW c \in Commands, AgentFiles(c) \/ AgentPauses(c) \/ AgentGoes(c)
      PROVE  ControlTypes' /\ EffectTypes'
  BY <1>0, <1>1 DEF AgentFiles, AgentPauses, AgentGoes, runFrame, authority, stopVars,
       effectVars, ControlTypes, EffectTypes
<1>2. ASSUME NEW c \in Commands, AgentReads(c) \/ AgentWakes(c)
      PROVE  ControlTypes' /\ EffectTypes'
  <2>1. \/ told' = told
        \/ told' = [told EXCEPT ![c] = cmd[c].state] /\ cmd[c].state \in Outcomes
    BY <1>0, <1>2 DEF AgentReads, AgentWakes, Tell, SettledIsSaid, Settled
  <2>2. told' \in [Commands -> {"none"} \union Outcomes]  BY <1>0, <2>1 DEF ControlTypes
  <2>3. agent' \in [Commands -> {"idle", "reading", "pausing", "waiting", "told", "gone"}]
    BY <1>0, <1>2 DEF AgentReads, AgentWakes, Tell, ControlTypes
  <2>4. UNCHANGED <<projected, kind, authority, stopVars, effectVars>>
    BY <1>2 DEF AgentReads, AgentWakes, runFrame
  <2> QED BY <1>0, <2>2, <2>3, <2>4 DEF authority, stopVars, effectVars, ControlTypes, EffectTypes
<1>3. ASSUME NEW c \in Commands, Spawner(c)
      PROVE  ControlTypes' /\ EffectTypes'
  <2>1. spawning' \in {spawning, spawning \union {c}, spawning \ {c}} /\ UNCHANGED spawnFrame
    BY <1>3 DEF Spawner, SpawnReads, SpawnTask, SpawnBinds
  <2> QED BY <1>0, <2>1 DEF spawnFrame, runVars, authority, effectVars, ControlTypes, EffectTypes
<1>4. ASSUME NEW c \in Commands, CancelCommand(c)
      PROVE  ControlTypes' /\ EffectTypes'
  <2>1. /\ notices' \subseteq notices \union {<<c, "emit">>, <<c, "stop">>}
        /\ revoked' = revoked \ {c}
        /\ UNCHANGED <<projected, kind, runVars, authority, spawning, woken, unsaid, effectVars>>
    BY <1>4 DEF CancelCommand
  <2> QED BY <1>0, <2>1 DEF runVars, authority, effectVars, ControlTypes, EffectTypes
<1>5. ASSUME NEW c \in Commands, NotifyEmits(c)
      PROVE  ControlTypes' /\ EffectTypes'
  BY <1>0, <1>5 DEF NotifyEmits, noticeFrame, rowVars, runVars, authority, effectVars,
       ControlTypes, EffectTypes
<1>6. \A cut \in SUBSET Lanes : InDoubt(cut) \subseteq Commands
  BY <1>0 DEF InDoubt, LaneTypes, EffectTypes, Job
<1>7. ASSUME NEW c \in Commands, NotifyStops(c) \/ ClaimExpires(c)
      PROVE  ControlTypes' /\ EffectTypes'
  <2>1. /\ notices' \subseteq notices
        /\ doubt' = InDoubt({l \in Lanes : Job(l) = c})
        /\ UNCHANGED <<written, moved, projected, kind, runVars, authority, spawning, revoked,
                       woken, unsaid>>
    BY <1>7 DEF NotifyStops, ClaimExpires, noticeFrame, handlerFrame, rowVars
  <2>2. doubt' \subseteq Commands  BY <1>6, <2>1
  <2> QED BY <1>0, <2>1, <2>2 DEF runVars, authority, ControlTypes, EffectTypes
<1>8. ASSUME NEW l \in Lanes, LaneDies(l)
      PROVE  ControlTypes' /\ EffectTypes'
  <2>1. /\ doubt' = InDoubt({l})
        /\ UNCHANGED <<written, moved, projected, woken, handlerFrame>>
    BY <1>8 DEF LaneDies, rowVars
  <2>2. doubt' \subseteq Commands  BY <1>6, <2>1
  <2> QED BY <1>0, <2>1, <2>2 DEF handlerFrame, runVars, authority, ControlTypes, EffectTypes
<1>9. ASSUME NEW c \in Commands, TargetMoves(c)
      PROVE  ControlTypes' /\ EffectTypes'
  BY <1>0, <1>9 DEF TargetMoves, rowVars, runVars, authority, stopVars, ControlTypes, EffectTypes
<1>10. CASE RevokeGrant \/ FenceSource \/ SourceSetup
  <2>1. /\ source' \in {source, "open", "closed", "fenced"} /\ grant' \in {grant, FALSE}
        /\ revoked' \in {revoked, revoked \union ActiveCommands}
        /\ UNCHANGED controlFrame
    BY <1>10 DEF RevokeGrant, FenceSource, SourceSetup
  <2> QED BY <1>0, <2>1 DEF ActiveCommands, controlFrame, rowVars, runVars, effectVars,
                            ControlTypes, EffectTypes
<1>11. CASE RevokerDies
  BY <1>0, <1>11 DEF RevokerDies, rowVars, runVars, authority, effectVars, ControlTypes, EffectTypes
<1> QED BY <1>1, <1>2, <1>3, <1>4, <1>5, <1>7, <1>8, <1>9, <1>10, <1>11
        DEF AgentStep, Canceller

LEMMA InitTypes == Init => TypeInv
<1> SUFFICES ASSUME Init PROVE TypeInv  OBVIOUS
<1>1. PoolInv /\ upsets \in 0..MaxUpsets
  BY InitPool, PoolAssumption DEF Init, PoolInit
<1>2. ControlTypes /\ EffectTypes  BY DEF Init, ControlTypes, EffectTypes
<1>3. ASSUME NEW c \in Commands PROVE TriesCover(c)
  <2>1. Starting(c, "begin") = {}
    BY DEF Init, PoolInit, Idle, Starting
  <2>2. cmd[c].attempts = 0 /\ task[c].tries = 0
    BY CommandsAreTasks DEF Init, PoolInit
  <2> QED BY <2>1, <2>2, FS_EmptySet DEF TriesCover
<1> QED BY <1>1, <1>2, <1>3 DEF TypeInv

LEMMA NextTypes ==
  ASSUME SorInv, TypeInv, [Next]_vars
  PROVE  TypeInv'
<1>0. LaneTypes /\ RowTypes  BY DEF SorInv
<1>1. CASE UNCHANGED vars
  <2>1. CountsStay
    BY <1>0, <1>1, MovesCount DEF vars, pool, rowVars, PoolMoves
  <2>2. ControlTypes' /\ EffectTypes' /\ upsets' \in 0..MaxUpsets
    BY <1>1 DEF vars, pool, rowVars, runVars, authority, stopVars, effectVars, TypeInv,
                ControlTypes, EffectTypes
  <2> QED BY <1>0, <2>1, <2>2, CoverStays DEF TypeInv, CountsStay
<1>2. ASSUME NEW l \in Lanes, Handler(l), ~Begin(l) PROVE TypeInv'
  BY <1>0, <1>2, HandlerCounts, HandlerTypes, CoverStays DEF TypeInv, CountsStay
<1>3. ASSUME NEW l \in Lanes, Begin(l) PROVE TypeInv'
  <2>1. Handler(l)  BY <1>3 DEF Handler
  <2> QED BY <1>0, <1>3, <2>1, BeginningCounts, HandlerTypes DEF TypeInv
<1>4. ASSUME NEW l \in Lanes, NEW c \in Commands, ClaimCommand(l, c) PROVE TypeInv'
  <2>1. ControlTypes' /\ EffectTypes'
    BY <1>4 DEF ClaimCommand, stepFrame, handlerFrame, rowVars, runVars, authority, effectVars,
                TypeInv, ControlTypes, EffectTypes
  <2> QED BY <1>0, <1>4, <2>1, ClaimingCounts DEF TypeInv
<1>5. CASE \/ \E l \in Lanes : LaneDies(l)
           \/ \E c \in Commands :
                AgentStep(c) \/ AgentGoes(c) \/ Spawner(c) \/ ClaimExpires(c) \/ Canceller(c)
                \/ TargetMoves(c)
           \/ RevokeGrant \/ FenceSource \/ SourceSetup \/ RevokerDies
  BY <1>0, <1>5, ControlCounts, ControlStepTypes, CoverStays DEF TypeInv, CountsStay
<1> QED BY <1>1, <1>2, <1>3, <1>4, <1>5 DEF Next, Worker

LEMMA InvImpliesTypes ==
  ASSUME SorInv, TypeInv
  PROVE  TypeOK
<1>1. ASSUME NEW c \in Commands PROVE cmd[c] \in CommandRow
  <2>1. cmd[c] \in CommandKind /\ c \in Tasks /\ task[c] \in TaskRow /\ TriesCover(c)
    BY CommandsAreTasks DEF SorInv, RowTypes, TypeInv, PoolInv
  <2>2. cmd[c].attempts \in Nat  BY <2>1 DEF CommandKind
  <2>3. Cardinality(Starting(c, "begin")) \in Nat  BY StartingFinite
  <2>4. task[c].tries \in 0..MaxTries /\ MaxTries \in Nat  BY <2>1, TaskStates DEF TaskRow
  <2>5. cmd[c].attempts \in 0..MaxTries  BY <2>1, <2>2, <2>3, <2>4 DEF TriesCover
  <2> QED BY <2>1, <2>5 DEF CommandKind, CommandRow, RowStates
<1>2. cmd \in [Commands -> CommandRow]  BY <1>1 DEF SorInv, RowTypes
<1>3. lane \in [Lanes -> LaneRow({"idle"} \union CommandSteps, {"none"})]
  BY DEF SorInv, LaneTypes, PCs
<1>4. \A s \in {spawning, revoked, woken, unsaid, written, moved, projected, doubt} :
        s \subseteq Commands
  BY DEF TypeInv, ControlTypes, EffectTypes
<1> QED BY <1>2, <1>3, <1>4 DEF TypeOK, TypeInv, PoolInv, ControlTypes, SorInv, RowTypes

(* A command, its task and the lanes stay of their types: a command is     *)
(* attempted no more often than the engine tries its task, although each   *)
(* is counted in a transaction of its own.                                 *)
THEOREM TypeCorrect == Spec => []TypeOK
<1>1. Init => SorInv /\ TypeInv  BY InitHolds, InitTypes
<1>2. SorInv /\ TypeInv /\ [Next]_vars => SorInv' /\ TypeInv'  BY NextKeeps, NextTypes
<1>3. SorInv /\ TypeInv => TypeOK  BY InvImpliesTypes
<1> QED BY <1>1, <1>2, <1>3, PTL DEF Spec

-----------------------------------------------------------------------------
(* A settled command is told of                                            *)

(* Its terminal event is emitted or about to be, or could not be.          *)
Announced(c) == c \in woken \union unsaid \/ <<c, "emit">> \in notices

(* Who settles a command without a word leaves it to a try of its task.    *)
SettledIsTold ==
  \A c \in Commands :
    /\ Settled(c) => Announced(c) \/ task[c].state \in {"ready", "running", "failed"}
    /\ task[c].state \in {"ended", "cancelled"} => Settled(c)

TellInv(c) ==
  /\ task[c].state \in {"ended", "cancelled"} => Settled(c)
  /\ Settled(c) => Announced(c) \/ task[c].state \in {"ready", "running", "failed"}
  /\ cmd[c].state = "cancelled" => Announced(c)
  /\ <<c, "stop">> \in notices => Settled(c) /\ Announced(c)
  /\ Bound(c) => task[c].state # "none"

(* What a step makes of the row of a command, and of what is said of it.   *)
RowTells(c) ==
  /\ Settled(c) => Settled(c)'
  /\ Announced(c) => Announced(c)'
  /\ Settled(c)' => Settled(c) \/ Bound(c) \/ Announced(c)'
  /\ cmd'[c].state = "cancelled" => cmd[c].state = "cancelled" \/ Announced(c)'
  /\ <<c, "stop">> \in notices' => <<c, "stop">> \in notices \/ (Settled(c)' /\ Announced(c)')
  /\ Bound(c)' => Bound(c) \/ task[c].state # "none"

(* What it makes of the task.                                              *)
TaskQuiet(c) ==
  /\ task'[c].state = "none" => task[c].state = "none"
  /\ task'[c].state \in {"ended", "cancelled"} => task'[c].state = task[c].state

TaskTells(c) ==
  /\ task'[c].state = "none" => task[c].state = "none"
  /\ task'[c].state \in {"ended", "cancelled"} =>
       task'[c].state = task[c].state \/ (Settled(c) /\ Announced(c)')

LEMMA TellingKeeps ==
  ASSUME RowTypes', NEW c \in Commands, TellInv(c), RowTells(c), TaskTells(c)
  PROVE  TellInv(c)'
<1>1. task'[c].state \in {"none", "ready", "running", "ended", "failed", "cancelled"}
  BY DEF RowTypes, TaskKind, Over
<1>2. (task[c].state \in {"ended", "cancelled"} => Settled(c))'
  BY DEF TellInv, RowTells, TaskTells
<1>3. (Bound(c) => task[c].state # "none")'
  BY DEF TellInv, RowTells, TaskTells
<1>4. (Settled(c) => Announced(c) \/ task[c].state \in {"ready", "running", "failed"})'
  <2> SUFFICES ASSUME Settled(c)', ~Announced(c)'
               PROVE  task'[c].state \notin {"none", "ended", "cancelled"}
    BY <1>1
  <2>1. task'[c].state # "none"  BY DEF TellInv, RowTells, TaskTells
  <2>2. task'[c].state \notin {"ended", "cancelled"}  BY DEF TellInv, RowTells, TaskTells
  <2> QED BY <2>1, <2>2
<1>5. (cmd[c].state = "cancelled" => Announced(c))'  BY DEF TellInv, RowTells
<1>6. (<<c, "stop">> \in notices => Settled(c) /\ Announced(c))'  BY DEF TellInv, RowTells
<1> QED BY <1>2, <1>3, <1>4, <1>5, <1>6 DEF TellInv

LEMMA QuietTells ==
  ASSUME NEW c \in Commands, TaskQuiet(c)
  PROVE  TaskTells(c)
BY DEF TaskQuiet, TaskTells

LEMMA SameRowTells ==
  ASSUME NEW c \in Commands, cmd'[c] = cmd[c], UNCHANGED <<notices, woken, unsaid>>
  PROVE  RowTells(c)
BY DEF RowTells, Settled, Bound, Announced

(* A row that takes another state.                                         *)
LEMMA StateTells ==
  ASSUME RowTypes, NEW c \in Commands, NEW s \in Active \union (Outcomes \ {"cancelled"}),
         SetState(c, s), ~Settled(c), s \in Active \/ Bound(c),
         UNCHANGED <<notices, woken, unsaid>>
  PROVE  \A d \in Commands : RowTells(d)
<1>1. cmd'[c].state = s /\ cmd'[c].bound = cmd[c].bound
  BY DEF SetState, RowTypes, CommandKind
<1>2. RowTells(c)
  BY <1>1, StepSets DEF RowTells, Settled, Bound, Announced, Outcomes, Active
<1>3. \A d \in Commands : d # c => cmd'[d] = cmd[d]
  BY DEF SetState, RowTypes
<1> QED BY <1>2, <1>3, SameRowTells

LEMMA TaskMoves ==
  ASSUME RowTypes, NEW c \in Commands, NEW s \in {"ready", "running", "failed"},
         task' = [task EXCEPT ![c].state = s]
  PROVE  \A d \in Commands : TaskQuiet(d)
BY DEF RowTypes, TaskKind, TaskQuiet

LEMMA TaskStaysQuiet ==
  ASSUME task' = task
  PROVE  \A d \in Commands : TaskQuiet(d)
BY DEF TaskQuiet

LEMMA FailingIsQuiet ==
  ASSUME RowTypes, NEW c \in Commands, task' = Failed(c)
  PROVE  \A d \in Commands : TaskQuiet(d)
BY TaskMoves DEF Failed

LEMMA GivingBackIsQuiet ==
  ASSUME RowTypes, NEW l \in Lanes, lane[l].job \in Commands, GivesBack(l)
  PROVE  \A d \in Commands : TaskQuiet(d)
BY FailingIsQuiet, TaskStaysQuiet DEF GivesBack, Job

(* Only what is announced as settled is cancelled.                         *)
LEMMA CancelTells ==
  ASSUME RowTypes, NEW c \in Commands, CancelTask(c), Settled(c), Announced(c)'
  PROVE  \A d \in Commands : TaskTells(d)
<1>1. task' = task \/ task' = [task EXCEPT ![c].state = "cancelled"]
  BY DEF CancelTask
<1>2. \A d \in Commands : d # c => task'[d] = task[d]
  BY <1>1 DEF RowTypes
<1>3. task'[c].state \in {task[c].state, "cancelled"}
  BY <1>1 DEF RowTypes, TaskKind
<1> QED BY <1>2, <1>3 DEF TaskTells

(* A worker's steps.                                                       *)
LEMMA WorkerTells ==
  ASSUME SorInv, NEW l \in Lanes, Worker(l)
  PROVE  \A c \in Commands : RowTells(c) /\ TaskTells(c)
<1>0. RowTypes /\ LaneTypes  BY DEF SorInv
<1>h. lane[l].pc \in CommandSteps => lane[l].job \in Commands
  BY <1>0, StepSets DEF LaneTypes
<1>s. ASSUME NEW pc, Step(l, pc, "none") PROVE \A c \in Commands : TaskQuiet(c)
  BY <1>s, TaskStaysQuiet DEF Step
<1>1. CASE \/ BeginSettled(l) \/ Refused(l) \/ LoadClaim(l) \/ CheckTarget(l) \/ WriteReplayed(l)
           \/ VendorWrites(l) \/ VendorDeclines(l) \/ SaveWrite(l) \/ NoLongerRunning(l)
           \/ FetchRecord(l) \/ StepRaises(l) \/ EngineRaises(l) \/ FailureFindsSettled(l)
  <2>1. UNCHANGED <<cmd, notices, woken, unsaid>>
    BY <1>1 DEF BeginSettled, Refused, LoadClaim, CheckTarget, WriteReplayed, VendorWrites,
         VendorDeclines, SaveWrite, NoLongerRunning, FetchRecord, StepRaises, EngineRaises,
         FailureFindsSettled, stepFrame, handlerFrame, rowVars
  <2>2. \E pc : Step(l, pc, "none")
    BY <1>1 DEF BeginSettled, Refused, LoadClaim, CheckTarget, WriteReplayed, VendorWrites,
         VendorDeclines, SaveWrite, NoLongerRunning, FetchRecord, StepRaises, EngineRaises,
         FailureFindsSettled, Goto, Trips
  <2> QED BY <2>1, <2>2, <1>s, SameRowTells, QuietTells
<1>2. CASE BeginUnbound(l) \/ FailureRaises(l) \/ HandlerStopped(l)
  <2>1. UNCHANGED <<cmd, notices, woken, unsaid>> /\ GivesBack(l) /\ lane[l].pc \in CommandSteps
    BY <1>2 DEF BeginUnbound, FailureRaises, HandlerStopped, Raises, stepFrame, handlerFrame,
         rowVars, At, Failing, CommandSteps
  <2> QED BY <2>1, <1>0, <1>h, GivingBackIsQuiet, SameRowTells, QuietTells
<1>3. CASE Begin(l) \/ RecordWrite(l)
  <2>1. PICK c \in Commands : c = lane[l].job
    BY <1>3, <1>h DEF Begin, RecordWrite, At, CommandSteps
  <2>2. /\ \E pc : Step(l, pc, "none")
        /\ ~Settled(c) /\ UNCHANGED <<notices, woken, unsaid>>
    BY <1>3, <2>1, StepSets DEF Begin, RecordWrite, Goto, handlerFrame, Job, Settled, Active,
         Outcomes
  <2>3. /\ cmd'[c].state = "running" /\ cmd'[c].bound = cmd[c].bound
        /\ \A d \in Commands : d # c => cmd'[d] = cmd[d]
    BY <1>0, <1>3, <2>1 DEF Begin, RecordWrite, RowTypes, CommandKind, Job
  <2>4. RowTells(c)
    BY <2>2, <2>3 DEF RowTells, Settled, Bound, Announced, Outcomes
  <2> QED BY <2>2, <2>3, <2>4, <1>s, SameRowTells, QuietTells
<1>4. CASE Project(l) \/ Conflict(l) \/ Fail(l)
  <2>1. PICK s \in {"succeeded", "conflict", "failed"} : SetState(lane[l].job, s)
    BY <1>4 DEF Project, Conflict, Fail, Job
  <2>2. /\ Step(l, "emit", "none") /\ UNCHANGED <<notices, woken, unsaid>>
        /\ lane[l].pc \in PastBegin /\ cmd[lane[l].job].state = "running"
    BY <1>4 DEF Project, Conflict, Fail, Job, Goto, At, PastBegin, Early, Reading, handlerFrame
  <2>3. lane[l].pc \in CommandSteps  BY <2>2, StepSets
  <2>4. lane[l].job \in Commands /\ ~Settled(lane[l].job) /\ Bound(lane[l].job)
    BY <2>2, <2>3, HandlerFacts DEF CommandInv, BegunBefore, Settled, Outcomes
  <2>5. s \in Outcomes \ {"cancelled"}  BY DEF Outcomes
  <2> QED BY <2>1, <2>2, <2>4, <2>5, <1>0, <1>s, StateTells, QuietTells
<1>5. CASE Retry(l)
  <2>1. /\ SetState(lane[l].job, "pending") /\ GivesBack(l) /\ UNCHANGED <<notices, woken, unsaid>>
        /\ lane[l].job \in Commands /\ ~Settled(lane[l].job)
    BY <1>5, <1>h DEF Retry, Raises, At, CommandSteps, handlerFrame, Settled, Outcomes, Job
  <2> QED BY <2>1, <1>0, GivingBackIsQuiet, StateTells, QuietTells DEF Active
<1>6. CASE EmitTerminal(l)
  <2>1. PICK c \in Commands : c = lane[l].job
    BY <1>6, <1>h DEF EmitTerminal, At, CommandSteps
  <2>2. /\ Settled(c) /\ UNCHANGED <<cmd, notices, unsaid>>
        /\ woken' \in {woken, woken \union {c}}
    BY <1>6, <2>1, HandlerFacts DEF EmitTerminal, At, CommandSteps, rowVars, handlerFrame, Job
  <2>3. \A d \in Commands : RowTells(d)
    BY <2>2 DEF RowTells, Announced, Settled, Bound
  <2>4. CASE GivesBack(l)
    BY <1>0, <2>1, <2>3, <2>4, GivingBackIsQuiet, QuietTells
  <2>5. CASE Returns(l) /\ woken' = woken \union {c}
    <3>1. \A d \in Commands : d # c => task'[d] = task[d]
      BY <1>0, <2>1, <2>5 DEF Returns, Job, RowTypes
    <3>2. task'[c].state \in {task[c].state, "ended"}
      BY <1>0, <2>1, <2>5 DEF Returns, Job, RowTypes, TaskKind
    <3>3. Announced(c)'  BY <2>5 DEF Announced
    <3> QED BY <2>2, <2>3, <3>1, <3>2, <3>3 DEF TaskTells
  <2> QED BY <1>6, <2>1, <2>4, <2>5 DEF EmitTerminal, Job
<1>7. ASSUME NEW c \in Commands, ClaimCommand(l, c)
      PROVE  \A d \in Commands : RowTells(d) /\ TaskTells(d)
  <2>1. /\ UNCHANGED <<cmd, notices, woken, unsaid>>
        /\ task' = [task EXCEPT ![c] = [state |-> "running", tries |-> @.tries + 1]]
    BY <1>7 DEF ClaimCommand, Claim, stepFrame, handlerFrame, rowVars
  <2>2. \A d \in Commands : TaskQuiet(d)
    BY <1>0, <2>1 DEF RowTypes, TaskQuiet
  <2> QED BY <2>1, <2>2, SameRowTells, QuietTells
<1> QED BY <1>1, <1>2, <1>3, <1>4, <1>5, <1>6, <1>7 DEF Worker, Handler

(* The steps of runs, spawners, the engine and the revocation.             *)
LEMMA ControlTells ==
  ASSUME SorInv, \A c \in Commands : TellInv(c),
         \/ \E l \in Lanes : LaneDies(l)
         \/ \E c \in Commands :
              AgentStep(c) \/ AgentGoes(c) \/ Spawner(c) \/ ClaimExpires(c) \/ Canceller(c)
              \/ TargetMoves(c)
         \/ RevokeGrant \/ FenceSource \/ SourceSetup \/ RevokerDies
         \/ UNCHANGED vars
  PROVE  \A c \in Commands : RowTells(c) /\ TaskTells(c)
<1>0. RowTypes /\ \A c \in Commands : SettledIsSaid(c)
  BY DEF SorInv, CommandInv
<1>q. ASSUME UNCHANGED <<cmd, notices, woken, unsaid>>, \A c \in Commands : TaskQuiet(c)
      PROVE  \A c \in Commands : RowTells(c) /\ TaskTells(c)
  BY <1>q, SameRowTells, QuietTells
<1>1. CASE \/ \E l \in Lanes : LaneDies(l)
           \/ \E c \in Commands : AgentReads(c) \/ AgentPauses(c) \/ AgentWakes(c) \/ AgentGoes(c)
                                  \/ SpawnReads(c) \/ TargetMoves(c)
           \/ RevokeGrant \/ FenceSource \/ SourceSetup \/ UNCHANGED vars
  <2>1. UNCHANGED <<cmd, notices, woken, unsaid, task>>
    BY <1>1 DEF LaneDies, Dies, AgentReads, AgentPauses, AgentWakes, AgentGoes, SpawnReads,
         TargetMoves, RevokeGrant, FenceSource, SourceSetup, runFrame, spawnFrame, controlFrame,
         handlerFrame, stopVars, rowVars, pool, vars
  <2> QED BY <2>1, <1>q, TaskStaysQuiet
<1>2. ASSUME NEW c \in Commands, AgentFiles(c)
      PROVE  \A d \in Commands : RowTells(d) /\ TaskTells(d)
  <2>1. SetState(c, "pending") /\ ~Settled(c) /\ UNCHANGED <<notices, woken, unsaid, task>>
    BY <1>0, <1>2 DEF AgentFiles, runFrame, stopVars, pool, SettledIsSaid, Settled, Outcomes
  <2> QED BY <1>0, <2>1, StateTells, TaskStaysQuiet, QuietTells DEF Active
<1>3. ASSUME NEW c \in Commands, SpawnTask(c)
      PROVE  \A d \in Commands : RowTells(d) /\ TaskTells(d)
  <2>1. UNCHANGED <<cmd, notices, woken, unsaid>> /\ task' = [task EXCEPT ![c].state = "ready"]
    BY <1>3 DEF SpawnTask, Spawned, spawnFrame
  <2> QED BY <1>0, <1>q, <2>1, TaskMoves
<1>4. ASSUME NEW c \in Commands, SpawnBinds(c)
      PROVE  \A d \in Commands : RowTells(d) /\ TaskTells(d)
  <2>1. /\ cmd' = [cmd EXCEPT ![c].bound = TRUE] /\ UNCHANGED <<notices, woken, unsaid>>
        /\ task[c].state # "none"
        /\ task' = task \/ (CancelTask(c) /\ cmd[c].state = "cancelled")
    BY <1>4 DEF SpawnBinds, spawnFrame, pool
  <2>2. \A d \in Commands : cmd'[d].state = cmd[d].state /\ (d # c => cmd'[d] = cmd[d])
    BY <1>0, <2>1 DEF RowTypes, CommandKind
  <2>3. \A d \in Commands : RowTells(d)
    BY <2>1, <2>2 DEF RowTells, Settled, Bound, Announced
  <2>4. CASE task' = task  BY <2>3, <2>4, TaskStaysQuiet, QuietTells
  <2>5. CASE CancelTask(c) /\ cmd[c].state = "cancelled"
    <3>1. Settled(c) /\ Announced(c)'
      BY <2>1, <2>5 DEF TellInv, Settled, Outcomes, Announced
    <3> QED BY <1>0, <2>3, <2>5, <3>1, CancelTells
  <2> QED BY <2>1, <2>4, <2>5
<1>5. ASSUME NEW c \in Commands, ClaimExpires(c)
      PROVE  \A d \in Commands : RowTells(d) /\ TaskTells(d)
  <2>1. UNCHANGED <<cmd, notices, woken, unsaid>> /\ task' = Failed(c)
    BY <1>5 DEF ClaimExpires, ClaimRunsOut, rowVars, handlerFrame
  <2> QED BY <1>0, <1>q, <2>1, FailingIsQuiet
<1>6. ASSUME NEW c \in Commands, CancelCommand(c)
      PROVE  \A d \in Commands : RowTells(d) /\ TaskTells(d)
  <2>1. UNCHANGED <<woken, unsaid, task>>  BY <1>6 DEF CancelCommand, pool
  <2>2. CASE UNCHANGED <<cmd, notices>>
    BY <1>q, <2>1, <2>2, TaskStaysQuiet
  <2>3. CASE cmd[c].state \in Active
    <3>1. PICK s \in {"cancelled", "failed"} : SetState(c, s)
      BY <1>6, <2>3 DEF CancelCommand
    <3>2. /\ notices \subseteq notices' /\ <<c, "emit">> \in notices'
          /\ \A d \in Commands : d # c => (<<d, "stop">> \in notices' => <<d, "stop">> \in notices)
      BY <1>6, <2>3 DEF CancelCommand
    <3>3. /\ cmd'[c].state = s /\ cmd'[c].bound = cmd[c].bound
          /\ \A d \in Commands : d # c => cmd'[d] = cmd[d]
      BY <1>0, <3>1 DEF SetState, RowTypes, CommandKind
    <3>4. Announced(c)' /\ Settled(c)'
      BY <3>2, <3>3 DEF Announced, Settled, Outcomes
    <3>5. RowTells(c)  BY <3>3, <3>4 DEF RowTells, Bound
    <3>6. \A d \in Commands : d # c => RowTells(d)
      BY <2>1, <3>2, <3>3 DEF RowTells, Settled, Bound, Announced
    <3> QED BY <2>1, <3>5, <3>6, TaskStaysQuiet, QuietTells
  <2> QED BY <1>6, <2>2, <2>3 DEF CancelCommand
<1>7. ASSUME NEW c \in Commands, NotifyEmits(c)
      PROVE  \A d \in Commands : RowTells(d) /\ TaskTells(d)
  <2>1. /\ notices' = notices \ {<<c, "emit">>} /\ UNCHANGED <<cmd, task>>
        /\ woken \subseteq woken' /\ unsaid \subseteq unsaid' /\ c \in woken' \union unsaid'
    BY <1>7 DEF NotifyEmits, noticeFrame, rowVars
  <2>2. \A d \in Commands : Announced(d) => Announced(d)'
    BY <2>1 DEF Announced
  <2>3. \A d \in Commands : RowTells(d)
    BY <2>1, <2>2 DEF RowTells, Settled, Bound, TellInv
  <2> QED BY <2>1, <2>3, TaskStaysQuiet, QuietTells
<1>8. ASSUME NEW c \in Commands, NotifyStops(c)
      PROVE  \A d \in Commands : RowTells(d) /\ TaskTells(d)
  <2>1. /\ <<c, "stop">> \in notices /\ notices' = notices \ {<<c, "stop">>}
        /\ CancelTask(c) /\ UNCHANGED <<cmd, woken, unsaid>>
    BY <1>8 DEF NotifyStops, noticeFrame, rowVars
  <2>2. \A d \in Commands : Announced(d)' <=> Announced(d)
    BY <2>1 DEF Announced
  <2>3. \A d \in Commands : RowTells(d)
    BY <2>1, <2>2 DEF RowTells, Settled, Bound
  <2>4. Settled(c) /\ Announced(c)'  BY <2>1, <2>2 DEF TellInv
  <2> QED BY <1>0, <2>1, <2>3, <2>4, CancelTells
<1>9. CASE RevokerDies
  <2>1. /\ notices' = {} /\ UNCHANGED <<cmd, task, woken>>
        /\ unsaid' = unsaid \union {c \in Commands : <<c, "emit">> \in notices}
    BY <1>9 DEF RevokerDies, rowVars
  <2>2. \A d \in Commands : Announced(d) => Announced(d)'
    BY <2>1 DEF Announced
  <2>3. \A d \in Commands : RowTells(d)
    BY <2>1, <2>2 DEF RowTells, Settled, Bound
  <2> QED BY <2>1, <2>3, TaskStaysQuiet, QuietTells
<1> QED BY <1>1, <1>2, <1>3, <1>4, <1>5, <1>6, <1>7, <1>8, <1>9 DEF AgentStep, Spawner, Canceller

(* A receipt does not stay with the row: of a settled command the terminal *)
(* event is emitted, or about to be emitted by who cancelled it, or failed *)
(* to be; otherwise a try of its task is still to emit it, or the last one *)
(* was cut off.  The engine is never told to end or to cancel the task of  *)
(* a command nobody has settled.                                           *)
THEOREM SettledCommandsAreTold == Spec => []SettledIsTold
<1>1. Init => SorInv /\ \A c \in Commands : TellInv(c)
  <2> SUFFICES ASSUME Init PROVE SorInv /\ \A c \in Commands : TellInv(c)
    OBVIOUS
  <2>1. ASSUME NEW c \in Commands PROVE TellInv(c)
    BY CommandsAreTasks DEF Init, PoolInit, TellInv, Settled, Outcomes, Announced, Bound
  <2> QED BY <2>1, InitHolds
<1>2. SorInv /\ (\A c \in Commands : TellInv(c)) /\ [Next]_vars
        => SorInv' /\ (\A c \in Commands : TellInv(c))'
  <2> SUFFICES ASSUME SorInv, \A c \in Commands : TellInv(c), [Next]_vars
               PROVE  SorInv' /\ \A c \in Commands : TellInv(c)'
    OBVIOUS
  <2>1. SorInv' /\ RowTypes'  BY NextKeeps DEF SorInv
  <2>2. \A c \in Commands : RowTells(c) /\ TaskTells(c)
    BY WorkerTells, ControlTells DEF Next
  <2> QED BY <2>1, <2>2, TellingKeeps
<1>3. SorInv /\ (\A c \in Commands : TellInv(c)) => SettledIsTold
  BY DEF TellInv, SettledIsTold
<1> QED BY <1>1, <1>2, <1>3, PTL DEF Spec
=============================================================================
