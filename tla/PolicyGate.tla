----------------------------- MODULE PolicyGate -----------------------------
(***************************************************************************)
(* The policy gate in front of every tool call: core/policy/gate.py with   *)
(* its three sub-policies (financial, system, comms) and the matching of   *)
(* trust rules.  The gate is a pure decision over a call, the trust rules  *)
(* alive and the caller's autonomy profile; ApprovalQueue gives it its     *)
(* changing inputs.                                                        *)
(*                                                                         *)
(* A call is a record.  `args' is the set of key/value bindings the tool   *)
(* was called with, `trading' says that the caller's sandbox carries the   *)
(* trading capability, `direct' marks the two requests the orchestrator    *)
(* opens itself, without asking the gate.                                  *)
(***************************************************************************)
CONSTANTS
  Agent,      \* names of registered agents
  NoAgent,    \* top-level chat: agent_name is None
  Plan,       \* plan ids
  Binding     \* key/value pairs that may occur in a call's arguments

ASSUME NoAgentAssumption == NoAgent \notin Agent

RiskClass == {"READ", "WRITE_LOCAL", "EXEC_LOCAL", "NET_READ", "BROWSE",
              "NET_WRITE", "COMMS", "FINANCIAL", "IRREVERSIBLE"}

CallRecord == [plan: Plan, agent: Agent \cup {NoAgent}, tool: STRING,
               risk: RiskClass, args: SUBSET Binding, trading: BOOLEAN,
               direct: BOOLEAN]

-----------------------------------------------------------------------------
(***************************************************************************)
(* The name lists of the sub-policies.                                     *)
(***************************************************************************)
NeverWhitelistableFinancial ==
  {"finance_deposit", "finance_withdraw", "finance_transfer"}

TradingTools == {"trade_execute"}

NeverWhitelistableComms ==
  {"gmail_send_as_me", "slack_post_as_me", "linkedin_post_as_me",
   "x_post_as_me", "facebook_post_to_page", "instagram_post_to_business"}

AlwaysRequiresApproval == {"agent_create"}

FinancialReject(call) == call.tool \in TradingTools /\ ~call.trading

FinancialBypass(call) ==
  \/ call.tool \in TradingTools /\ call.trading
  \/ call.tool \in NeverWhitelistableFinancial

\* The bypass_trust flag the request carries.  The orchestrator sets it by
\* hand on the requests it opens directly.
BypassTrust(call) ==
  \/ FinancialBypass(call)
  \/ call.tool \in AlwaysRequiresApproval
  \/ call.tool \in NeverWhitelistableComms
  \/ call.direct

-----------------------------------------------------------------------------
(***************************************************************************)
(* Trust rules.  A rule names a tool, an agent or everybody, a set of      *)
(* bindings the arguments must contain (subset semantics), and the argument *)
(* sets its predicate accepts: all of them unless it was seeded at boot.   *)
(***************************************************************************)
RuleRecord(From) == [from: From, agent: Agent \cup {NoAgent}, tool: STRING,
                     matcher: SUBSET Binding,
                     accepts: SUBSET SUBSET Binding]

Matches(rule, call) ==
  /\ rule.tool = call.tool
  /\ rule.agent # NoAgent => rule.agent = call.agent
  /\ rule.matcher \subseteq call.args
  /\ call.args \in rule.accepts

-----------------------------------------------------------------------------
Profile == {"observer", "assistant", "operator", "autonomous"}

DefaultProfile == "assistant"

AutoAllow == {"READ", "WRITE_LOCAL", "EXEC_LOCAL", "NET_READ", "BROWSE"}

ProfileAutoAllow(profile) ==
  CASE profile = "operator"   -> {"NET_WRITE"}
    [] profile = "autonomous" -> {"NET_WRITE", "COMMS"}
    [] OTHER                  -> {}

\* Faulty variant: the profile widens before the bypass is looked at.
AllowedByProfileFirst(call, rules, profile) ==
  \/ ~BypassTrust(call) /\ \E rule \in rules : Matches(rule, call)
  \/ call.risk \in AutoAllow \cup ProfileAutoAllow(profile)

\* A sub-policy's bypass outranks both the rules and the profile.
Allowed(call, rules, profile) ==
  /\ ~BypassTrust(call)
  /\ \/ \E rule \in rules : Matches(rule, call)
     \/ call.risk \in AutoAllow \cup ProfileAutoAllow(profile)

\* The decision order of the gate: first match wins.
Evaluate(call, rules, profile) ==
  CASE FinancialReject(call)         -> "reject"
    [] ~FinancialReject(call) /\ Allowed(call, rules, profile) -> "allow"
    [] OTHER                         -> "approve"
=============================================================================
