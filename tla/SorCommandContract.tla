------------------------- MODULE SorCommandContract -------------------------
(***************************************************************************)
(* What a system-of-record command promises the Agent run that files it:   *)
(* one receipt that is settled once, a projection that is committed with   *)
(* success and never otherwise, and an answer that is the settled receipt. *)
(***************************************************************************)
CONSTANT Commands

VARIABLES
  receipt,    \* what has become of each command
  projected,  \* commands whose result is in the canonical records
  told        \* what the Agent was told, "none" until then

vars == <<receipt, projected, told>>

Outcomes == {"succeeded", "failed", "conflict", "cancelled"}

TypeOK ==
  /\ receipt \in [Commands -> {"unfiled", "open"} \union Outcomes]
  /\ projected \in SUBSET Commands
  /\ told \in [Commands -> {"none"} \union Outcomes]

Init ==
  /\ receipt = [c \in Commands |-> "unfiled"]
  /\ projected = {}
  /\ told = [c \in Commands |-> "none"]

File(c) ==
  /\ receipt[c] = "unfiled"
  /\ receipt' = [receipt EXCEPT ![c] = "open"]
  /\ UNCHANGED <<projected, told>>

Settle(c, outcome) ==
  /\ receipt[c] = "open"
  /\ receipt' = [receipt EXCEPT ![c] = outcome]
  /\ projected' = IF outcome = "succeeded" THEN projected \union {c} ELSE projected
  /\ UNCHANGED told

Tell(c) ==
  /\ receipt[c] \in Outcomes
  /\ told' = [told EXCEPT ![c] = receipt[c]]
  /\ UNCHANGED <<receipt, projected>>

Next == \E c \in Commands : File(c) \/ Tell(c) \/ \E outcome \in Outcomes : Settle(c, outcome)

Spec == Init /\ [][Next]_vars

(* What the Agent was told is what happened, and what it can read.         *)
ToldIsWhatHappened ==
  \A c \in Commands :
    /\ told[c] \in {"none", receipt[c]}
    /\ c \in projected <=> receipt[c] = "succeeded"
=============================================================================
