--------------------------- MODULE ApprovalQueue ---------------------------
(***************************************************************************)
(* Tool calls waiting for the operator: the gateway's execute              *)
(* (core/tools/gateway.py), the approval queue (core/policy/approvals.py), *)
(* the trust store (core/policy/trust.py) and the requests that decide:    *)
(* REST, Telegram buttons and the orchestrator's cancel.                   *)
(*                                                                         *)
(* Everything runs on one asyncio loop, so a step is what a coroutine does *)
(* between two awaits.  The awaits that matter are the SQLite statements,  *)
(* the broadcasts and the wait on the request's future.  `pending' is the  *)
(* dictionary of the manager, `row' its mirror in the approvals table and  *)
(* `future' what the waiting gateway sees.  `task' is what each request    *)
(* handler is in the middle of.  Handlers pop a request first, tell the    *)
(* database next and the waiter last.                                      *)
(***************************************************************************)
EXTENDS PolicyGate, FiniteSets, Naturals

CONSTANTS
  Call,         \* the tool calls of a behaviour
  NoCall,       \* a handler that holds no request
  CallOf,       \* what each call asks for
  Handler,      \* request handlers that may run at the same time
  Boot,         \* who installed the rules seeded at startup
  Seeded,       \* those rules
  Registered,   \* tools the registry knows
  Profiles,     \* the profiles the operator switches agents between
  MaxInFlight,  \* gateway callers at once: 1 under the orchestrator's lock
  DbMayFail     \* whether a SQLite statement may raise

ASSUME ApprovalAssumptions ==
  /\ NoCall \notin Call
  /\ Boot \notin Call
  /\ CallOf \in [Call -> CallRecord]
  /\ Seeded \subseteq RuleRecord({Boot})
  /\ Profiles \subseteq Profile
  /\ MaxInFlight \in Nat \ {0}
  /\ DbMayFail \in BOOLEAN

\* The orchestrator's own requests bear names that no tool has, and no rule is seeded
\* for a tool that demands a fresh decision.
ASSUME TrustAssumptions ==
  /\ \A c \in Call : CallOf[c].direct => CallOf[c].tool \notin Registered
  /\ \A rule \in Seeded, c \in Call : BypassTrust(CallOf[c]) => rule.tool # CallOf[c].tool

VARIABLES
  pc,          \* where each call is in Gateway.execute
  pending,     \* ApprovalManager._pending
  row,         \* the approvals table, "none" before the INSERT
  future,      \* ApprovalRequest.future
  resolvedBy,  \* history: which operation popped the request
  rules,       \* TrustStore._rules
  profile,     \* AgentPolicyStore._cache
  armed,       \* plans whose cancel event is set
  task         \* the handler's progress

vars == <<pc, pending, row, future, resolvedBy, rules, profile, armed, task>>

InQueue == {"inserting", "announcing", "waiting"}
InFlightPc == InQueue \cup {"opening", "resumed"}
EndedPc == {"invoked", "refused", "raised", "abandoned", "lost"}
Verdict == {"approved", "rejected", "cancelled"}

Idle == [op |-> "idle", cur |-> NoCall, todo |-> {}, phase |-> "next"]

TypeOK ==
  /\ pc \in [Call -> {"idle"} \cup InFlightPc \cup EndedPc]
  /\ pending \subseteq Call
  /\ row \in [Call -> {"none", "pending"} \cup Verdict]
  /\ future \in [Call -> {"open", "dropped"} \cup Verdict]
  /\ resolvedBy \in [Call -> {"nobody", "single", "bulk", "cancel"}]
  /\ rules \subseteq RuleRecord(Call \cup {Boot})
  /\ profile \in [Agent -> Profile]
  /\ armed \subseteq Plan
  /\ task \in [Handler -> [op: {"idle", "approve", "reject", "cancel", "batch"},
                           cur: Call \cup {NoCall}, todo: SUBSET Call,
                           phase: {"next", "auditing", "marking", "settling"}]]

Init ==
  /\ pc = [c \in Call |-> "idle"]
  /\ pending = {}
  /\ row = [c \in Call |-> "none"]
  /\ future = [c \in Call |-> "open"]
  /\ resolvedBy = [c \in Call |-> "nobody"]
  /\ rules = Seeded
  /\ profile = [a \in Agent |-> DefaultProfile]
  /\ armed = {}
  /\ task = [h \in Handler |-> Idle]

queueVars == <<pending, row, future, resolvedBy>>
policyVars == <<rules, profile, armed>>

-----------------------------------------------------------------------------
(***************************************************************************)
(* The gateway.                                                            *)
(***************************************************************************)
ProfileOf(call) ==
  IF call.agent = NoAgent THEN DefaultProfile ELSE profile[call.agent]

\* A call that raised or was given up ends its plan, and so does a restart.
PlanRuns(p) ==
  \A c \in Call : CallOf[c].plan = p => pc[c] \notin {"raised", "abandoned", "lost"}

\* The driver makes one call after the other and stops at its first check once
\* the cancel event is set.  Requests opened directly come before that check.
MayCall(c) ==
  /\ pc[c] = "idle"
  /\ Cardinality({d \in Call : pc[d] \in InFlightPc}) < MaxInFlight
  /\ PlanRuns(CallOf[c].plan)
  /\ CallOf[c].plan \in armed => CallOf[c].direct

Enter(c, next) ==
  /\ pc' = [pc EXCEPT ![c] = next]
  /\ UNCHANGED <<queueVars, policyVars, task>>

\* Unknown tool, account access not granted (an external decision: the grants
\* are the operator's), or a hard rejection.
RefuseCall(c) ==
  /\ MayCall(c)
  /\ ~CallOf[c].direct
  /\ \/ CallOf[c].tool \notin Registered
     \/ CallOf[c].agent # NoAgent
     \/ Evaluate(CallOf[c], rules, ProfileOf(CallOf[c])) = "reject"
  /\ Enter(c, "refused")

AllowCall(c) ==
  /\ MayCall(c)
  /\ ~CallOf[c].direct
  /\ CallOf[c].tool \in Registered
  /\ Evaluate(CallOf[c], rules, ProfileOf(CallOf[c])) = "allow"
  /\ Enter(c, "invoked")

\* The gateway marks the step awaiting_approval before it opens the request.
AskForCall(c) ==
  /\ MayCall(c)
  /\ ~CallOf[c].direct
  /\ CallOf[c].tool \in Registered
  /\ Evaluate(CallOf[c], rules, ProfileOf(CallOf[c])) = "approve"
  /\ Enter(c, "opening")

\* ApprovalManager.request up to its first await: the request is visible to
\* every resolver before its row exists.
OpenRequest(c) ==
  /\ \/ pc[c] = "opening"
     \/ MayCall(c) /\ CallOf[c].direct
  /\ pc' = [pc EXCEPT ![c] = "inserting"]
  /\ pending' = pending \cup {c}
  /\ UNCHANGED <<row, future, resolvedBy, policyVars, task>>

InsertRow(c) ==
  /\ pc[c] = "inserting"
  /\ pc' = [pc EXCEPT ![c] = "announcing"]
  /\ row' = [row EXCEPT ![c] = "pending"]
  /\ UNCHANGED <<pending, future, resolvedBy, policyVars, task>>

\* A step's status or the request's INSERT raises.  The exception leaves execute and
\* fails the plan; a request that was opened stays pending.
StatementRaises(c) ==
  /\ DbMayFail
  /\ pc[c] = "inserting" \/ (pc[c] \in {"opening", "resumed"} /\ ~CallOf[c].direct)
  /\ Enter(c, "raised")

AnnounceRequest(c) ==
  /\ pc[c] = "announcing"
  /\ Enter(c, "waiting")

ResumeCall(c) ==
  /\ pc[c] = "waiting"
  /\ future[c] \in Verdict
  /\ Enter(c, "resumed")

\* Faulty variant: only an explicit rejection refuses the call.
FinishUnlessRejected(c) ==
  /\ pc[c] = "resumed"
  /\ Enter(c, IF future[c] # "rejected" THEN "invoked" ELSE "refused")

\* After the step is marked running again.
FinishCall(c) ==
  /\ pc[c] = "resumed"
  /\ Enter(c, IF future[c] = "approved" THEN "invoked" ELSE "refused")

\* The caller's asyncio.wait_for expires and cancels the coroutine at the await
\* it is in.  An INSERT under way may still be committed; cancelling the wait
\* cancels the future.  Nobody takes the request out of pending.
AbandonCall(c) ==
  /\ pc[c] \in InFlightPc
  /\ pc' = [pc EXCEPT ![c] = "abandoned"]
  /\ row' \in {row} \cup (IF pc[c] = "inserting"
                            THEN {[row EXCEPT ![c] = "pending"]} ELSE {})
  /\ future' = IF pc[c] = "waiting" /\ future[c] = "open"
                 THEN [future EXCEPT ![c] = "dropped"] ELSE future
  /\ UNCHANGED <<pending, resolvedBy, policyVars, task>>

-----------------------------------------------------------------------------
(***************************************************************************)
(* Resolutions.                                                            *)
(***************************************************************************)
VerdictOf(op) == CASE op \in {"approve", "batch"} -> "approved"
                   [] op = "reject"               -> "rejected"
                   [] OTHER                       -> "cancelled"

Scope == {"none", "agent", "agent+args"}

NewRule(c, scope) ==
  [from |-> c, agent |-> CallOf[c].agent, tool |-> CallOf[c].tool,
   matcher |-> IF scope = "agent+args" THEN CallOf[c].args ELSE {},
   accepts |-> SUBSET Binding]

\* Faulty variant: the bypass flag does not stop the rule.
InstallsRuleAlways(c, scope) == scope # "none"

InstallsRule(c, scope) == scope # "none" /\ ~BypassTrust(CallOf[c])

\* Faulty variant: the request is read and not popped.
PopReadsOnly(cs, who) ==
  /\ pending' = pending
  /\ resolvedBy' = [c \in Call |-> IF c \in cs THEN who ELSE resolvedBy[c]]

Pop(cs, who) ==
  /\ pending' = pending \ cs
  /\ resolvedBy' = [c \in Call |-> IF c \in cs THEN who ELSE resolvedBy[c]]

Work(op, c, todo, phase) == [op |-> op, cur |-> c, todo |-> todo, phase |-> phase]

\* The REST endpoint or, with scope "none", the Telegram button.  The rule is
\* live before its audit row and before the decision reaches the waiter.
Approve(h, c, scope) ==
  /\ task[h] = Idle
  /\ c \in pending
  /\ Pop({c}, "single")
  /\ rules' = rules \cup (IF InstallsRule(c, scope)
                            THEN {NewRule(c, scope)} ELSE {})
  /\ task' = [task EXCEPT ![h] =
                Work("approve", c, {},
                     IF InstallsRule(c, scope) THEN "auditing" ELSE "marking")]
  /\ UNCHANGED <<pc, row, future, profile, armed>>

Reject(h, c) ==
  /\ task[h] = Idle
  /\ c \in pending
  /\ Pop({c}, "single")
  /\ task' = [task EXCEPT ![h] = Work("reject", c, {}, "marking")]
  /\ UNCHANGED <<pc, row, future, policyVars>>

\* Faulty variant: cancelling one plan empties the whole queue.
CancelClearsQueue(h, p) ==
  LET taken == {c \in pending : CallOf[c].plan = p}
  IN  /\ task[h] = Idle
      /\ PlanRuns(p)
      /\ armed' = armed \cup {p}
      /\ pending' = {}
      /\ resolvedBy' = [c \in Call |-> IF c \in taken THEN "cancel" ELSE resolvedBy[c]]
      /\ task' = [task EXCEPT ![h] =
                    IF taken = {} THEN Idle
                    ELSE Work("cancel", NoCall, taken, "next")]
      /\ UNCHANGED <<pc, row, future, rules, profile>>

\* Orchestrator.cancel_plan and the queue's: arm the event, take every request
\* of the plan that is pending now.
CancelPlan(h, p) ==
  LET taken == {c \in pending : CallOf[c].plan = p}
  IN  /\ task[h] = Idle
      /\ PlanRuns(p)
      /\ armed' = armed \cup {p}
      /\ Pop(taken, "cancel")
      /\ task' = [task EXCEPT ![h] =
                    IF taken = {} THEN Idle
                    ELSE Work("cancel", NoCall, taken, "next")]
      /\ UNCHANGED <<pc, row, future, rules, profile>>

\* Faulty variant: the snapshot pops, so each approve finds nothing to decide.
BatchPopsFirst(h) ==
  LET noted == {c \in pending : ~BypassTrust(CallOf[c])}
  IN  /\ task[h] = Idle
      /\ noted # {}
      /\ Pop(noted, "bulk")
      /\ task' = [task EXCEPT ![h] = Work("batch", NoCall, noted, "next")]
      /\ UNCHANGED <<pc, row, future, policyVars>>

\* approve_batch notes the whitelistable requests; each is popped by its own
\* approve, when its turn comes.
ApproveBatch(h) ==
  LET noted == {c \in pending : ~BypassTrust(CallOf[c])}
  IN  /\ task[h] = Idle
      /\ noted # {}
      /\ task' = [task EXCEPT ![h] = Work("batch", NoCall, noted, "next")]
      /\ UNCHANGED <<pc, queueVars, policyVars>>

Then(h, todo) ==
  task' = [task EXCEPT ![h] =
             IF todo = {} THEN Idle ELSE Work(@.op, NoCall, todo, "next")]

CancelNext(h) ==
  /\ task[h].op = "cancel" /\ task[h].phase = "next"
  /\ \E c \in task[h].todo :
       task' = [task EXCEPT ![h] = Work("cancel", c, @.todo \ {c}, "marking")]
  /\ UNCHANGED <<pc, queueVars, policyVars>>

BatchNext(h) ==
  /\ task[h].op = "batch" /\ task[h].phase = "next"
  /\ \E c \in task[h].todo \cap pending :
       /\ Pop({c}, "bulk")
       /\ task' = [task EXCEPT ![h] = Work("batch", c, @.todo \ {c}, "marking")]
  /\ UNCHANGED <<pc, row, future, policyVars>>

\* Somebody else resolved it meanwhile: LookupError, continue.
BatchSkip(h) ==
  /\ task[h].op = "batch" /\ task[h].phase = "next"
  /\ \E c \in task[h].todo \ pending : Then(h, task[h].todo \ {c})
  /\ UNCHANGED <<pc, queueVars, policyVars>>

AuditRule(h) ==
  /\ task[h].phase = "auditing"
  /\ task' = [task EXCEPT ![h].phase = "marking"]
  /\ UNCHANGED <<pc, queueVars, policyVars>>

\* Faulty variant: an upsert, which the INSERT may still overwrite.
MarkUpserts(h) ==
  /\ task[h].phase = "marking"
  /\ row' = [row EXCEPT ![task[h].cur] = VerdictOf(task[h].op)]
  /\ task' = [task EXCEPT ![h].phase = "settling"]
  /\ UNCHANGED <<pc, pending, future, resolvedBy, policyVars>>

\* UPDATE ... WHERE id = ?: no row, no effect.
MarkRow(h) ==
  /\ task[h].phase = "marking"
  /\ row' = [row EXCEPT ![task[h].cur] =
               IF @ = "none" THEN @ ELSE VerdictOf(task[h].op)]
  /\ task' = [task EXCEPT ![h].phase = "settling"]
  /\ UNCHANGED <<pc, pending, future, resolvedBy, policyVars>>

\* Faulty variant: only a caller that already waits is told.
SettleWaitersOnly(h) ==
  /\ task[h].phase = "settling"
  /\ future' = [future EXCEPT ![task[h].cur] =
                  IF pc[task[h].cur] = "waiting" THEN VerdictOf(task[h].op) ELSE @]
  /\ Then(h, task[h].todo)
  /\ UNCHANGED <<pc, pending, row, resolvedBy, policyVars>>

SettleFuture(h) ==
  /\ task[h].phase = "settling"
  /\ future' = [future EXCEPT ![task[h].cur] =
                  IF @ = "open" THEN VerdictOf(task[h].op) ELSE @]
  /\ Then(h, task[h].todo)
  /\ UNCHANGED <<pc, pending, row, resolvedBy, policyVars>>

\* The statement raises and the handler ends with what it still held.
HandlerFails(h) ==
  /\ DbMayFail
  /\ task[h].phase \in {"auditing", "marking"}
  /\ task' = [task EXCEPT ![h] = Idle]
  /\ UNCHANGED <<pc, queueVars, policyVars>>

-----------------------------------------------------------------------------
(***************************************************************************)
(* The policy's own changes, and the daemon's restart.                     *)
(***************************************************************************)
\* A rule with a TTL runs out at any time; one seeded at boot never does.
ExpireRule(rule) ==
  /\ rule \in rules
  /\ rule.from # Boot
  /\ rules' = rules \ {rule}
  /\ UNCHANGED <<pc, queueVars, profile, armed, task>>

RevokeRule(rule) ==
  /\ rule \in rules
  /\ rules' = rules \ {rule}
  /\ UNCHANGED <<pc, queueVars, profile, armed, task>>

SetProfile(a, p) ==
  /\ profile' = [profile EXCEPT ![a] = p]
  /\ UNCHANGED <<pc, queueVars, rules, armed, task>>

\* Memory is lost: requests, futures, handlers and the operator's rules.  The
\* approvals rows and the profiles are on disk.  Plans under way do not resume.
Crash ==
  /\ pc' = [c \in Call |->
              IF \/ pc[c] \in InFlightPc
                 \/ pc[c] = "idle" /\ \E d \in Call :
                      CallOf[d].plan = CallOf[c].plan /\ pc[d] # "idle"
                THEN "lost" ELSE pc[c]]
  /\ pending' = {}
  /\ rules' = Seeded
  /\ task' = [h \in Handler |-> Idle]
  /\ UNCHANGED <<row, future, resolvedBy, profile, armed>>

-----------------------------------------------------------------------------
(***************************************************************************)
(* The specification.  The daemon's own coroutines make progress; nothing  *)
(* obliges the operator, a caller's timeout or a crash to act.             *)
(***************************************************************************)
CallStep(c) ==
  \/ pc[c] = "opening" /\ OpenRequest(c)
  \/ InsertRow(c) \/ StatementRaises(c) \/ AnnounceRequest(c)
  \/ ResumeCall(c) \/ FinishCall(c)

CallStart(c) ==
  \/ RefuseCall(c) \/ AllowCall(c) \/ AskForCall(c)
  \/ pc[c] = "idle" /\ OpenRequest(c)

HandlerStep(h) ==
  \/ CancelNext(h) \/ BatchNext(h) \/ BatchSkip(h)
  \/ AuditRule(h) \/ MarkRow(h) \/ SettleFuture(h) \/ HandlerFails(h)

OperatorActs(h) ==
  \/ \E c \in Call : Reject(h, c) \/ \E s \in Scope : Approve(h, c, s)
  \/ \E p \in Plan : CancelPlan(h, p)
  \/ ApproveBatch(h)

Next ==
  \/ \E c \in Call : CallStart(c) \/ CallStep(c) \/ AbandonCall(c)
  \/ \E h \in Handler : OperatorActs(h) \/ HandlerStep(h)
  \/ \E rule \in rules : ExpireRule(rule) \/ RevokeRule(rule)
  \/ \E a \in Agent, p \in Profiles : SetProfile(a, p)
  \/ Crash

Spec == Init /\ [][Next]_vars

Fairness ==
  /\ \A c \in Call : WF_vars(CallStep(c))
  /\ \A h \in Handler : WF_vars(HandlerStep(h))

FairSpec == Spec /\ Fairness
-----------------------------------------------------------------------------
(***************************************************************************)
(* Safety.                                                                 *)
(***************************************************************************)
\* What handler h has popped and not yet settled.
Held(h) ==
  (Call \cap {task[h].cur}) \cup (IF task[h].op = "cancel" THEN task[h].todo ELSE {})

\* A tool on the never-whitelistable lists, and a request the orchestrator opens
\* itself, runs only when the operator approved that very request: no rule, no
\* profile and no bulk approval stands in for it (gate.py, approve_batch).
FreshDecision ==
  \A c \in Call : pc[c] = "invoked" /\ BypassTrust(CallOf[c]) =>
    resolvedBy[c] = "single" /\ future[c] = "approved"

\* However approvals with a trust scope interleave, no rule alive ever covers a
\* call whose tool demands a fresh decision (approve's bypass check).
NoStandingTrust ==
  \A rule \in rules, c \in Call :
    BypassTrust(CallOf[c]) => ~Matches(rule, CallOf[c])

\* A request is pending or in the hands of at most one handler: two handlers
\* that race for it cannot both decide (the pop under the manager's lock).
SingleOwner ==
  \A g, h \in Handler :
    /\ Held(h) \cap pending = {}
    /\ g # h => Held(g) \cap Held(h) = {}

\* A call in the queue that nobody has decided yet.
Undecided(c) == pc[c] \in InQueue /\ future[c] = "open"

\* Its request can still be decided: it is pending or a handler holds it.
Covered(c) == c \in pending \/ \E h \in Handler : c \in Held(h)

\* Only a raising statement strands a waiter, and only one whose request the
\* raising handler held: no interleaving of cancel, batch and single decisions
\* takes an undecided call's request out of everybody's hands, in particular
\* not when others resolve what a batch has noted but not yet come to.
WaiterCovered ==
  [][\A c \in Call : Undecided(c)' =>
       \/ Covered(c)'
       \/ Undecided(c) /\ ~Covered(c)
       \/ \E h \in Handler : c \in Held(h) /\ HandlerFails(h)]_vars

\* A failing statement costs at most the requests its handler had popped: every
\* other undecided call in the queue can still be decided.
FaultContained ==
  \A c \in Call : pc[c] \in InQueue /\ future[c] = "open" =>
    \/ c \in pending \cup UNION {Held(h) : h \in Handler}
    \/ resolvedBy[c] # "nobody"

\* The table never tells another verdict than the one the waiter was given.
VerdictsAgree ==
  \A c \in Call : row[c] \in Verdict /\ future[c] \in Verdict => row[c] = future[c]

\* A verdict, once in the table or with the waiter, is never replaced: neither
\* by a second handler nor by a late INSERT, nor across a restart.
VerdictFinal ==
  [][\A c \in Call : /\ row[c] \in Verdict => row'[c] = row[c]
                     /\ future[c] # "open" => future'[c] = future[c]]_vars

(***************************************************************************)
(* Liveness.                                                               *)
(***************************************************************************)
\* A request somebody resolved leaves the gateway: the decision is not lost even
\* when it is taken while the row is being inserted or the request announced.
DecisionArrives ==
  \A c \in Call : (resolvedBy[c] # "nobody") ~> (pc[c] \in EndedPc)

(***************************************************************************)
(* What the code's comments promise.                                       *)
(***************************************************************************)
\* approvals.py: "the DB is a durable mirror".  Unless the call was given up or lost,
\* the row of a request that a handler is done with shows the decision.
MirrorAgrees ==
  \A c \in Call :
    /\ row[c] = "pending"
    /\ resolvedBy[c] # "nobody"
    /\ pc[c] \notin {"abandoned", "lost"}
    => \E h \in Handler : c \in Held(h)

\* orchestrator.py: cancelling unblocks any approval the plan is waiting on,
\* "instead of sitting on a future that no one will resolve".
CancelUnblocks ==
  \A c \in Call :
    (CallOf[c].plan \in armed /\ pc[c] \in InFlightPc) ~> (pc[c] \in EndedPc)
=============================================================================
