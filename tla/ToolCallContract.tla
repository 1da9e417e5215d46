-------------------------- MODULE ToolCallContract --------------------------
(***************************************************************************)
(* What the approval layer promises of a tool call, whatever runs beside   *)
(* it: the handler runs at most once, never without a licence, never after *)
(* a denial; and a strict call has no licence but the operator's decision  *)
(* about that very call.                                                   *)
(***************************************************************************)
CONSTANTS Call, Strict

VARIABLES
  stage,   \* how far the call is
  licence  \* what it may run on

contractVars == <<stage, licence>>

Stage == {"new", "asked", "granted", "denied", "ran", "refused", "gone"}
Licence == {"none", "standing", "single", "bulk"}

ContractTypeOK == /\ stage \in [Call -> Stage]
                  /\ licence \in [Call -> Licence]

ContractInit == /\ stage = [c \in Call |-> "new"]
                /\ licence = [c \in Call |-> "none"]

Move(c, to, by) == /\ stage' = [stage EXCEPT ![c] = to]
                   /\ licence' = [licence EXCEPT ![c] = by]

\* The policy lets the call through at once.
RunAtOnce(c) == stage[c] = "new" /\ c \notin Strict /\ Move(c, "ran", "standing")

Ask(c) == stage[c] = "new" /\ Move(c, "asked", "none")

Grant(c) == \E by \in {"single", "bulk"} :
              /\ stage[c] = "asked"
              /\ c \in Strict => by = "single"
              /\ Move(c, "granted", by)

Deny(c) == stage[c] = "asked" /\ Move(c, "denied", "none")

Run(c) == stage[c] = "granted" /\ Move(c, "ran", licence[c])

Refuse(c) == stage[c] \in {"new", "denied"} /\ Move(c, "refused", "none")

\* Callers give up and the daemon dies, with any number of calls under way.
Vanish(cs) ==
  /\ \A c \in cs : stage[c] \in {"new", "asked", "granted", "denied"}
  /\ stage' = [c \in Call |-> IF c \in cs THEN "gone" ELSE stage[c]]
  /\ licence' = [c \in Call |-> IF c \in cs THEN "none" ELSE licence[c]]

ContractNext ==
  \/ \E c \in Call : \/ RunAtOnce(c) \/ Ask(c) \/ Grant(c) \/ Deny(c)
                     \/ Run(c) \/ Refuse(c)
  \/ \E cs \in SUBSET Call : Vanish(cs)

ContractSpec == ContractInit /\ [][ContractNext]_contractVars
=============================================================================
