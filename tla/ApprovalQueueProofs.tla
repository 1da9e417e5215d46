------------------------ MODULE ApprovalQueueProofs ------------------------
(***************************************************************************)
(* The safety of the approval queue, for any number of calls, handlers,    *)
(* agents and plans, whether or not the database fails.                    *)
(***************************************************************************)
EXTENDS ApprovalRefinement, TLAPS

\* Who is recorded as having resolved what a handler with this operation holds.
WhoOf(op) == CASE op \in {"approve", "reject"} -> "single"
               [] op = "batch"                 -> "bulk"
               [] OTHER                        -> "cancel"

\* The shapes a handler's progress can have.
TaskOK ==
  \A h \in Handler :
    /\ task[h].op = "idle" => task[h] = Idle
    /\ task[h].phase = "next" <=> task[h].cur = NoCall
    /\ task[h].op \in {"approve", "reject"} => task[h].todo = {}
    /\ task[h].op = "batch" => \A c \in task[h].todo : ~BypassTrust(CallOf[c])
    /\ task[h].cur \notin task[h].todo

\* What a handler holds was resolved by its operation, is no longer pending, has
\* no verdict yet, and has one in the table only between MarkRow and SettleFuture.
HeldOK ==
  \A h \in Handler : \A c \in Held(h) :
    /\ c \notin pending
    /\ resolvedBy[c] = WhoOf(task[h].op)
    /\ future[c] \notin Verdict
    /\ row[c] \in Verdict => /\ task[h].cur = c
                             /\ task[h].phase = "settling"
                             /\ row[c] = VerdictOf(task[h].op)

Disjoint == \A g, h \in Handler : g # h => Held(g) \cap Held(h) = {}

\* Requests nobody resolved have no verdict; a bulk approval never resolves one
\* that needs a fresh decision; only the approving operations approve.
ResolvedOK ==
  \A c \in Call :
    /\ c \in pending => resolvedBy[c] = "nobody"
    /\ resolvedBy[c] = "nobody" => future[c] \notin Verdict /\ row[c] \notin Verdict
    /\ resolvedBy[c] = "bulk" => ~BypassTrust(CallOf[c])
    /\ future[c] = "approved" => resolvedBy[c] \in {"single", "bulk"}

\* Where a call is in the gateway, against its request.
StageOK ==
  \A c \in Call :
    /\ pc[c] \in {"idle", "opening"} =>
         c \notin pending /\ resolvedBy[c] = "nobody" /\ future[c] = "open"
    /\ pc[c] \in {"idle", "opening", "inserting"} => row[c] = "none"
    /\ future[c] = "dropped" => pc[c] \in {"abandoned", "lost"}
    /\ pc[c] = "resumed" => future[c] \in Verdict
    /\ pc[c] = "invoked" /\ BypassTrust(CallOf[c]) => future[c] = "approved"

Safe == TaskOK /\ HeldOK /\ Disjoint /\ ResolvedOK /\ StageOK /\ VerdictsAgree

IInv == TypeOK /\ Safe

-----------------------------------------------------------------------------
(***************************************************************************)
(* Type correctness.                                                       *)
(***************************************************************************)
LEMMA WorkType ==
  ASSUME NEW op \in {"idle", "approve", "reject", "cancel", "batch"},
         NEW cur \in Call \cup {NoCall}, NEW todo \in SUBSET Call,
         NEW phase \in {"next", "auditing", "marking", "settling"}
  PROVE  Work(op, cur, todo, phase) \in
           [op: {"idle", "approve", "reject", "cancel", "batch"},
            cur: Call \cup {NoCall}, todo: SUBSET Call,
            phase: {"next", "auditing", "marking", "settling"}]
BY DEF Work

LEMMA RuleTypes ==
  /\ \A c \in Call, s \in Scope : NewRule(c, s) \in RuleRecord(Call \cup {Boot})
  /\ Seeded \subseteq RuleRecord(Call \cup {Boot})
BY ApprovalAssumptions DEF RuleRecord, NewRule, CallRecord, Scope

LEMMA PopType ==
  ASSUME TypeOK, NEW cs \in SUBSET Call, NEW who \in {"single", "bulk", "cancel"},
         Pop(cs, who)
  PROVE  /\ pending' \subseteq Call
         /\ resolvedBy' \in [Call -> {"nobody", "single", "bulk", "cancel"}]
BY DEF TypeOK, Pop

LEMMA ThenType ==
  ASSUME TypeOK, NEW h \in Handler, NEW todo \in SUBSET Call, Then(h, todo)
  PROVE  TypeOK!9'
<1>1. task[h].op \in {"idle", "approve", "reject", "cancel", "batch"}
  BY DEF TypeOK
<1>2. Work(task[h].op, NoCall, todo, "next") \in
           [op: {"idle", "approve", "reject", "cancel", "batch"},
            cur: Call \cup {NoCall}, todo: SUBSET Call,
            phase: {"next", "auditing", "marking", "settling"}]
  BY <1>1, WorkType
<1> QED
  BY <1>2 DEF Then, TypeOK, Idle

LEMMA TypeStep ==
  ASSUME TypeOK, [Next]_vars
  PROVE  TypeOK'
<1>1. ASSUME NEW c \in Call, CallStart(c) \/ CallStep(c) PROVE TypeOK'
  BY <1>1 DEF TypeOK, CallStart, CallStep, RefuseCall, AllowCall, AskForCall,
       OpenRequest, InsertRow, StatementRaises, AnnounceRequest, ResumeCall, FinishCall,
       Enter, queueVars, policyVars, InFlightPc, InQueue, EndedPc, MayCall
<1>2. ASSUME NEW c \in Call, AbandonCall(c) PROVE TypeOK'
  BY <1>2 DEF TypeOK, AbandonCall, policyVars, InFlightPc, InQueue, EndedPc
<1>3. ASSUME NEW h \in Handler, NEW c \in Call, NEW s \in Scope, Approve(h, c, s)
      PROVE  TypeOK'
  <2>1. /\ pending' \subseteq Call
        /\ resolvedBy' \in [Call -> {"nobody", "single", "bulk", "cancel"}]
    BY <1>3, PopType DEF Approve
  <2>2. rules' \subseteq RuleRecord(Call \cup {Boot})
    <3>1. rules' \subseteq rules \cup {NewRule(c, s)}
      BY <1>3 DEF Approve
    <3> QED
      <4>1. NewRule(c, s) \in RuleRecord(Call \cup {Boot})
        BY RuleTypes
      <4>2. rules \subseteq RuleRecord(Call \cup {Boot})
        BY DEF TypeOK
      <4> QED
        BY <3>1, <4>1, <4>2
  <2>3. TypeOK!9'
    BY <1>3, WorkType DEF Approve, TypeOK
  <2> QED
    BY <1>3, <2>1, <2>2, <2>3 DEF Approve, TypeOK
<1>4. ASSUME NEW h \in Handler, NEW c \in Call, Reject(h, c) PROVE TypeOK'
  <2>1. /\ pending' \subseteq Call
        /\ resolvedBy' \in [Call -> {"nobody", "single", "bulk", "cancel"}]
    BY <1>4, PopType DEF Reject
  <2>2. TypeOK!9'
    BY <1>4, WorkType DEF Reject, TypeOK
  <2> QED
    BY <1>4, <2>1, <2>2 DEF Reject, TypeOK, policyVars
<1>5. ASSUME NEW h \in Handler, NEW p \in Plan, CancelPlan(h, p) PROVE TypeOK'
  <2> DEFINE taken == {c \in pending : CallOf[c].plan = p}
  <2>1. taken \in SUBSET Call
    BY DEF TypeOK
  <2>2. /\ pending' \subseteq Call
        /\ resolvedBy' \in [Call -> {"nobody", "single", "bulk", "cancel"}]
    BY <1>5, <2>1, PopType DEF CancelPlan
  <2>3. TypeOK!9'
    BY <1>5, <2>1, WorkType DEF CancelPlan, TypeOK, Idle
  <2> QED
    BY <1>5, <2>2, <2>3 DEF CancelPlan, TypeOK
<1>6. ASSUME NEW h \in Handler, ApproveBatch(h) PROVE TypeOK'
  <2> DEFINE noted == {c \in pending : ~BypassTrust(CallOf[c])}
  <2>1. noted \in SUBSET Call
    BY DEF TypeOK
  <2>2. TypeOK!9'
    BY <1>6, <2>1, WorkType DEF ApproveBatch, TypeOK
  <2> QED
    BY <1>6, <2>2 DEF ApproveBatch, TypeOK, queueVars, policyVars
<1>7. ASSUME NEW h \in Handler, CancelNext(h) PROVE TypeOK'
  <2>1. TypeOK!9'
    BY <1>7, WorkType DEF CancelNext, TypeOK
  <2> QED
    BY <1>7, <2>1 DEF CancelNext, TypeOK, queueVars, policyVars
<1>8. ASSUME NEW h \in Handler, BatchNext(h) PROVE TypeOK'
  <2>1. PICK c \in task[h].todo \cap pending :
          /\ Pop({c}, "bulk")
          /\ task' = [task EXCEPT ![h] =
                        Work("batch", c, task[h].todo \ {c}, "marking")]
    BY <1>8 DEF BatchNext
  <2>2. c \in Call
    BY DEF TypeOK
  <2>3. /\ pending' \subseteq Call
        /\ resolvedBy' \in [Call -> {"nobody", "single", "bulk", "cancel"}]
    BY <2>1, <2>2, PopType
  <2>4. TypeOK!9'
    BY <2>1, <2>2, WorkType DEF TypeOK
  <2> QED
    BY <1>8, <2>3, <2>4 DEF BatchNext, TypeOK, policyVars
<1>9. ASSUME NEW h \in Handler, BatchSkip(h) PROVE TypeOK'
  <2>1. PICK c \in task[h].todo \ pending : Then(h, task[h].todo \ {c})
    BY <1>9 DEF BatchSkip
  <2>2. task[h].todo \ {c} \in SUBSET Call
    BY DEF TypeOK
  <2>3. TypeOK!9'
    BY <2>1, <2>2, ThenType
  <2> QED
    BY <1>9, <2>3 DEF BatchSkip, TypeOK, queueVars, policyVars
<1>10. ASSUME NEW h \in Handler, AuditRule(h) PROVE TypeOK'
  BY <1>10 DEF AuditRule, TypeOK, queueVars, policyVars
<1>17. ASSUME NEW h \in Handler, HandlerFails(h) PROVE TypeOK'
  BY <1>17 DEF HandlerFails, TypeOK, Idle, queueVars, policyVars
<1>11. ASSUME NEW h \in Handler, MarkRow(h) PROVE TypeOK'
  BY ZenonT(30), <1>11 DEF MarkRow, TypeOK, VerdictOf, Verdict, policyVars
<1>12. ASSUME NEW h \in Handler, SettleFuture(h) PROVE TypeOK'
  <2>1. TypeOK!9'
    BY <1>12, ThenType DEF SettleFuture, TypeOK
  <2> QED
    BY <1>12, <2>1 DEF SettleFuture, TypeOK, VerdictOf, Verdict, policyVars
<1>13. ASSUME NEW rule \in rules, ExpireRule(rule) \/ RevokeRule(rule) PROVE TypeOK'
  BY <1>13 DEF ExpireRule, RevokeRule, TypeOK, queueVars
<1>14. ASSUME NEW a \in Agent, NEW p \in Profiles, SetProfile(a, p) PROVE TypeOK'
  BY <1>14, ApprovalAssumptions DEF SetProfile, TypeOK, queueVars
<1>15. CASE Crash
  BY <1>15, RuleTypes DEF Crash, TypeOK, Idle, EndedPc
<1>16. CASE UNCHANGED vars
  BY <1>16 DEF TypeOK, vars
<1> QED
  BY <1>1, <1>2, <1>3, <1>4, <1>5, <1>6, <1>7, <1>8, <1>9, <1>10, <1>11, <1>12,
     <1>13, <1>14, <1>15, <1>16, <1>17 DEF Next, OperatorActs, HandlerStep
LEMMA InitType == Init => TypeOK
<1> SUFFICES ASSUME Init PROVE TypeOK
  OBVIOUS
<1>1. rules \subseteq RuleRecord(Call \cup {Boot})
  BY RuleTypes DEF Init
<1>2. profile \in [Agent -> Profile]
  BY DEF Init, DefaultProfile, Profile
<1>3. TypeOK!9
  BY DEF Init, Idle
<1> QED
  BY <1>1, <1>2, <1>3 DEF Init, TypeOK

\* Every variable keeps its type (core/policy/approvals.py, core/tools/gateway.py).
THEOREM TypeCorrect == Spec => []TypeOK
<1>1. TypeOK /\ [Next]_vars => TypeOK'
  BY TypeStep
<1> QED
  BY InitType, <1>1, PTL DEF Spec
-----------------------------------------------------------------------------
(***************************************************************************)
(* The inductive step: gateway actions, which leave every handler alone.   *)
(***************************************************************************)
LEMMA GatewayKeepsHeld ==
  ASSUME UNCHANGED task
  PROVE  \A h \in Handler : Held(h)' = Held(h)
BY DEF Held

LEMMA EnterSafe ==
  ASSUME IInv, NEW c \in Call, NEW next, Enter(c, next),
         next \in {"invoked", "refused", "opening", "raised", "announcing", "waiting",
                   "resumed"},
         pc[c] \notin {"idle", "opening"} => next \notin {"idle", "opening"},
         next = "resumed" => future[c] \in Verdict,
         next = "invoked" /\ BypassTrust(CallOf[c]) => future[c] = "approved",
         pc[c] \notin {"abandoned", "lost"}
  PROVE  Safe'
<1> USE DEF IInv, Safe, Enter, queueVars
<1>1. TaskOK'
  BY DEF TaskOK
<1>2. HeldOK' /\ Disjoint'
  BY GatewayKeepsHeld DEF HeldOK, Disjoint
<1>3. ResolvedOK' /\ VerdictsAgree'
  BY DEF ResolvedOK, VerdictsAgree
<1>4. StageOK'
  BY DEF StageOK, TypeOK
<1> QED
  BY <1>1, <1>2, <1>3, <1>4

LEMMA OpenRequestSafe ==
  ASSUME IInv, NEW c \in Call, OpenRequest(c), pc[c] \in {"idle", "opening"}
  PROVE  Safe'
<1> USE DEF IInv, Safe, OpenRequest
<1>1. TaskOK'
  BY DEF TaskOK
<1>2. \A h \in Handler : c \notin Held(h)
  BY DEF HeldOK, StageOK, WhoOf
<1>3. HeldOK' /\ Disjoint'
  BY <1>2, GatewayKeepsHeld DEF HeldOK, Disjoint
<1>4. ResolvedOK' /\ VerdictsAgree'
  BY DEF ResolvedOK, VerdictsAgree, StageOK
<1>5. StageOK'
  BY DEF StageOK, TypeOK
<1> QED
  BY <1>1, <1>3, <1>4, <1>5

\* A late INSERT finds no verdict in the table.
LEMMA InsertRowSafe ==
  ASSUME IInv, NEW c \in Call, InsertRow(c)
  PROVE  Safe'
<1> USE DEF IInv, Safe, InsertRow
<1>1. TaskOK'
  BY DEF TaskOK
<1>2. row'[c] \notin Verdict /\ \A d \in Call \ {c} : row'[d] = row[d]
  BY DEF TypeOK, Verdict
<1>3. HeldOK' /\ Disjoint'
  BY <1>2, GatewayKeepsHeld DEF HeldOK, Disjoint, Held
<1>4. ResolvedOK' /\ VerdictsAgree'
  BY <1>2 DEF ResolvedOK, VerdictsAgree
<1>5. StageOK'
  BY <1>2 DEF StageOK, TypeOK
<1> QED
  BY <1>1, <1>3, <1>4, <1>5

LEMMA AbandonCallSafe ==
  ASSUME IInv, NEW c \in Call, AbandonCall(c)
  PROVE  Safe'
<1>0. TypeOK /\ TaskOK /\ HeldOK /\ Disjoint /\ ResolvedOK /\ StageOK /\ VerdictsAgree
  BY DEF IInv, Safe
<1>1. TaskOK'
  BY <1>0 DEF TaskOK, AbandonCall
<1>2. /\ row'[c] = row[c] \/ (row'[c] = "pending" /\ row[c] = "none")
      /\ \A d \in Call \ {c} : row'[d] = row[d]
  <2>1. \/ row' = row
        \/ pc[c] = "inserting" /\ row' = [row EXCEPT ![c] = "pending"]
    BY DEF AbandonCall
  <2>2. row \in [Call -> {"none", "pending"} \cup Verdict]
    BY <1>0 DEF TypeOK
  <2>3. pc[c] = "inserting" => row[c] = "none"
    BY <1>0 DEF StageOK
  <2> QED
    BY <2>1, <2>2, <2>3
<1>3. /\ future'[c] = future[c] \/ (future[c] = "open" /\ future'[c] = "dropped")
      /\ \A d \in Call \ {c} : future'[d] = future[d]
  <2>1. \/ future' = future
        \/ future[c] = "open" /\ future' = [future EXCEPT ![c] = "dropped"]
    BY DEF AbandonCall
  <2>2. future \in [Call -> {"open", "dropped"} \cup Verdict]
    BY <1>0 DEF TypeOK
  <2> QED
    BY <2>1, <2>2
<1>4. HeldOK' /\ Disjoint'
  <2>1. \A d \in Call : /\ row'[d] \in Verdict => row[d] \in Verdict /\ row'[d] = row[d]
                        /\ future'[d] \in Verdict => future[d] \in Verdict
    BY <1>2, <1>3 DEF Verdict
  <2>2. \A h \in Handler : Held(h) \subseteq Call
    BY <1>0 DEF Held, TypeOK
  <2> QED
    <3>1. UNCHANGED <<pending, resolvedBy, task>>
      BY DEF AbandonCall
    <3>2. \A h \in Handler : Held(h)' = Held(h)
      BY <3>1, GatewayKeepsHeld
    <3>3. Disjoint'
      BY <1>0, <3>2 DEF Disjoint
    <3>4. HeldOK'
      <4> SUFFICES ASSUME NEW h \in Handler, NEW d \in Held(h)
                   PROVE  /\ d \notin pending'
                          /\ resolvedBy'[d] = WhoOf(task'[h].op)
                          /\ future'[d] \notin Verdict
                          /\ row'[d] \in Verdict =>
                               /\ task'[h].cur = d
                               /\ task'[h].phase = "settling"
                               /\ row'[d] = VerdictOf(task'[h].op)
        BY <3>2 DEF HeldOK
      <4>1. d \in Call
        BY <2>2
      <4> QED
        BY <1>0, <2>1, <3>1, <4>1 DEF HeldOK
    <3> QED
      BY <3>3, <3>4
<1>5. ResolvedOK' /\ VerdictsAgree'
  BY <1>0, <1>2, <1>3 DEF ResolvedOK, VerdictsAgree, Verdict, AbandonCall
<1>6. StageOK'
  BY <1>0, <1>2, <1>3 DEF StageOK, TypeOK, AbandonCall, InFlightPc, InQueue
<1> QED
  BY <1>1, <1>4, <1>5, <1>6 DEF Safe

LEMMA GatewayStepSafe ==
  ASSUME IInv, NEW c \in Call, CallStart(c) \/ CallStep(c)
  PROVE  Safe'
<1>1. CASE RefuseCall(c)
  BY <1>1, EnterSafe DEF RefuseCall, MayCall
<1>2. CASE AllowCall(c)
  <2>1. ~BypassTrust(CallOf[c])
    BY <1>2 DEF AllowCall, Evaluate, Allowed
  <2> QED
    BY <1>2, <2>1, EnterSafe DEF AllowCall, MayCall
<1>3. CASE AskForCall(c)
  BY <1>3, EnterSafe DEF AskForCall, MayCall
<1>4. CASE OpenRequest(c)
  BY <1>4, OpenRequestSafe DEF OpenRequest, MayCall
<1>5. CASE InsertRow(c)
  BY <1>5, InsertRowSafe
<1>6. CASE StatementRaises(c)
  BY <1>6, EnterSafe DEF StatementRaises
<1>7. CASE AnnounceRequest(c)
  BY <1>7, EnterSafe DEF AnnounceRequest
<1>8. CASE ResumeCall(c)
  BY <1>8, EnterSafe DEF ResumeCall
<1>9. CASE FinishCall(c)
  BY <1>9, EnterSafe DEF FinishCall, IInv, Safe
<1> QED
  BY <1>1, <1>2, <1>3, <1>4, <1>5, <1>6, <1>7, <1>8, <1>9 DEF CallStart, CallStep

-----------------------------------------------------------------------------
(***************************************************************************)
(* The inductive step: handlers.                                           *)
(***************************************************************************)
LEMMA OthersKeepHeld ==
  ASSUME TypeOK, NEW h \in Handler, NEW t, task' = [task EXCEPT ![h] = t]
  PROVE  /\ task'[h] = t
         /\ \A g \in Handler \ {h} : task'[g] = task[g] /\ Held(g)' = Held(g)
<1>1. task'[h] = t /\ \A g \in Handler \ {h} : task'[g] = task[g]
  BY DEF TypeOK
<1> QED
  BY <1>1 DEF Held

LEMMA TaskStep ==
  ASSUME TypeOK, TaskOK, NEW h \in Handler, NEW t, task' = [task EXCEPT ![h] = t],
         t.op = "idle" => t = Idle,
         t.phase = "next" <=> t.cur = NoCall,
         t.op \in {"approve", "reject"} => t.todo = {},
         t.op = "batch" => \A c \in t.todo : ~BypassTrust(CallOf[c]),
         t.cur \notin t.todo
  PROVE  TaskOK'
BY OthersKeepHeld DEF TaskOK

LEMMA HeldTypes ==
  ASSUME TypeOK
  PROVE  \A h \in Handler : Held(h) \subseteq Call
BY DEF TypeOK, Held

\* Steps that touch no request: a handler only keeps or drops what it holds.
LEMMA KeepSafe ==
  ASSUME IInv, NEW h \in Handler, NEW t, task' = [task EXCEPT ![h] = t],
         UNCHANGED <<pc, queueVars>>, TaskOK', Held(h)' \subseteq Held(h),
         \A c \in Held(h)' : t.op = task[h].op /\ row[c] \notin Verdict
  PROVE  Safe'
<1>0. TypeOK /\ TaskOK /\ HeldOK /\ Disjoint /\ ResolvedOK /\ StageOK /\ VerdictsAgree
  BY DEF IInv, Safe
<1>1. UNCHANGED <<pc, pending, row, future, resolvedBy>>
  BY DEF queueVars
<1>2. /\ task'[h] = t
      /\ \A g \in Handler \ {h} : task'[g] = task[g] /\ Held(g)' = Held(g)
  BY <1>0, OthersKeepHeld
<1>3. Disjoint'
  BY <1>0, <1>2 DEF Disjoint
<1>4. HeldOK'
  BY <1>0, <1>1, <1>2 DEF HeldOK
<1>5. ResolvedOK' /\ StageOK' /\ VerdictsAgree'
  BY <1>0, <1>1 DEF ResolvedOK, StageOK, VerdictsAgree
<1> QED
  BY <1>3, <1>4, <1>5 DEF Safe

\* A handler that held nothing pops one request.
LEMMA TakeSafe ==
  ASSUME IInv, NEW h \in Handler, NEW c \in pending, NEW op, NEW todo, NEW phase,
         task' = [task EXCEPT ![h] = Work(op, c, todo, phase)],
         op \in {"approve", "reject", "batch"}, phase # "next",
         Pop({c}, WhoOf(op)), UNCHANGED <<pc, row, future>>, TaskOK',
         Held(h) = {}, op = "batch" => ~BypassTrust(CallOf[c])
  PROVE  Safe'
<1>0. TypeOK /\ TaskOK /\ HeldOK /\ Disjoint /\ ResolvedOK /\ StageOK /\ VerdictsAgree
  BY DEF IInv, Safe
<1>1. c \in Call /\ c # NoCall
  BY <1>0, ApprovalAssumptions DEF TypeOK
<1>2. /\ task'[h] = Work(op, c, todo, phase)
      /\ \A g \in Handler \ {h} : task'[g] = task[g] /\ Held(g)' = Held(g)
  BY <1>0, OthersKeepHeld
<1>3. Held(h)' = {c}
  BY <1>1, <1>2 DEF Held, Work
<1>4. \A g \in Handler : c \notin Held(g)
  BY <1>0 DEF HeldOK
<1>5. /\ pending' = pending \ {c}
      /\ resolvedBy'[c] = WhoOf(op)
      /\ \A d \in Call \ {c} : resolvedBy'[d] = resolvedBy[d]
  BY <1>1 DEF Pop
<1>6. WhoOf(op) \in {"single", "bulk"} /\ (WhoOf(op) = "bulk" => op = "batch")
  BY DEF WhoOf
<1>7. Disjoint'
  BY <1>0, <1>2, <1>3, <1>4 DEF Disjoint
<1>8. HeldOK'
  <2>1. ASSUME NEW g \in Handler \ {h}, NEW d \in Held(g)' PROVE HeldOK!(g)!(d)'
    BY <1>0, <1>2, <1>4, <1>5, HeldTypes, <2>1 DEF HeldOK
  <2>2. HeldOK!(h)!(c)'
    BY <1>0, <1>1, <1>2, <1>5 DEF ResolvedOK, Work
  <2> QED
    BY <1>3, <2>1, <2>2 DEF HeldOK
<1>9. ResolvedOK'
  BY <1>0, <1>1, <1>5, <1>6 DEF ResolvedOK
<1>10. StageOK' /\ VerdictsAgree'
  BY <1>0, <1>1, <1>5 DEF StageOK, VerdictsAgree
<1> QED
  BY <1>7, <1>8, <1>9, <1>10 DEF Safe

LEMMA IdleHoldsNothing ==
  ASSUME NEW h \in Handler, task[h] = Idle
  PROVE  Held(h) = {}
BY ApprovalAssumptions DEF Held, Idle

LEMMA ApproveSafe ==
  ASSUME IInv, NEW h \in Handler, NEW c \in Call, NEW s \in Scope, Approve(h, c, s)
  PROVE  Safe'
<1> DEFINE phase == IF InstallsRule(c, s) THEN "auditing" ELSE "marking"
<1>1. task' = [task EXCEPT ![h] = Work("approve", c, {}, phase)]
  BY DEF Approve
<1>5. phase \in {"auditing", "marking"}
  OBVIOUS
<1> HIDE DEF phase
<1>2. TaskOK'
  BY <1>1, <1>5, TaskStep, ApprovalAssumptions DEF IInv, Safe, Work
<1>3. Held(h) = {} /\ WhoOf("approve") = "single"
  BY IdleHoldsNothing DEF Approve, WhoOf
<1>4. /\ c \in pending /\ Pop({c}, WhoOf("approve"))
      /\ UNCHANGED <<pc, row, future>>
  BY <1>3 DEF Approve
<1> QED
  BY <1>1, <1>2, <1>3, <1>4, <1>5, TakeSafe

LEMMA RejectSafe ==
  ASSUME IInv, NEW h \in Handler, NEW c \in Call, Reject(h, c)
  PROVE  Safe'
<1>1. task' = [task EXCEPT ![h] = Work("reject", c, {}, "marking")]
  BY DEF Reject
<1>2. TaskOK'
  BY <1>1, TaskStep, ApprovalAssumptions DEF IInv, Safe, Work
<1>3. Held(h) = {} /\ WhoOf("reject") = "single"
  BY IdleHoldsNothing DEF Reject, WhoOf
<1>4. /\ c \in pending /\ Pop({c}, WhoOf("reject"))
      /\ UNCHANGED <<pc, row, future>>
  BY <1>3 DEF Reject
<1> QED
  BY <1>1, <1>2, <1>3, <1>4, TakeSafe

LEMMA BatchNextSafe ==
  ASSUME IInv, NEW h \in Handler, BatchNext(h)
  PROVE  Safe'
<1>0. TypeOK /\ TaskOK
  BY DEF IInv, Safe
<1>1. PICK c \in task[h].todo \cap pending :
        /\ Pop({c}, "bulk")
        /\ task' = [task EXCEPT ![h] = Work("batch", c, task[h].todo \ {c}, "marking")]
  BY DEF BatchNext
<1>2. c \in Call /\ c # NoCall /\ ~BypassTrust(CallOf[c])
  BY <1>0, ApprovalAssumptions DEF TypeOK, TaskOK, BatchNext
<1>3. TaskOK'
  BY <1>0, <1>1, <1>2, TaskStep DEF TaskOK, BatchNext, Work
<1>4. Held(h) = {} /\ WhoOf("batch") = "bulk"
  BY <1>0, ApprovalAssumptions DEF Held, TaskOK, BatchNext, WhoOf
<1>5. UNCHANGED <<pc, row, future>>
  BY DEF BatchNext
<1> QED
  BY <1>1, <1>2, <1>3, <1>4, <1>5, TakeSafe

LEMMA ApproveBatchSafe ==
  ASSUME IInv, NEW h \in Handler, ApproveBatch(h)
  PROVE  Safe'
<1> DEFINE noted == {c \in pending : ~BypassTrust(CallOf[c])}
<1>0. TypeOK /\ TaskOK
  BY DEF IInv, Safe
<1>1. task' = [task EXCEPT ![h] = Work("batch", NoCall, noted, "next")]
  BY DEF ApproveBatch
<1>2. NoCall \notin noted
  BY <1>0, ApprovalAssumptions DEF TypeOK
<1>3. TaskOK'
  BY <1>0, <1>1, <1>2, TaskStep DEF Work
<1>4. task'[h] = Work("batch", NoCall, noted, "next")
  BY <1>0, <1>1, OthersKeepHeld
<1>5. Held(h)' = {}
  BY <1>4, ApprovalAssumptions DEF Held, Work
<1>6. UNCHANGED <<pc, queueVars>>
  BY DEF ApproveBatch
<1> QED
  BY <1>1, <1>3, <1>5, <1>6, KeepSafe

LEMMA CancelNextSafe ==
  ASSUME IInv, NEW h \in Handler, CancelNext(h)
  PROVE  Safe'
<1>0. TypeOK /\ TaskOK /\ HeldOK
  BY DEF IInv, Safe
<1>1. PICK c \in task[h].todo :
        task' = [task EXCEPT ![h] = Work("cancel", c, task[h].todo \ {c}, "marking")]
  BY DEF CancelNext
<1>2. c \in Call /\ c # NoCall
  BY <1>0, ApprovalAssumptions DEF TypeOK
<1>3. TaskOK'
  BY <1>0, <1>1, <1>2, TaskStep DEF Work
<1>4. task'[h] = Work("cancel", c, task[h].todo \ {c}, "marking")
  BY <1>0, <1>1, OthersKeepHeld
<1>5. Held(h)' = task[h].todo /\ Held(h) = task[h].todo
  BY <1>0, <1>2, <1>4, ApprovalAssumptions DEF Held, Work, CancelNext, TypeOK, TaskOK
<1>6. \A d \in Held(h)' : row[d] \notin Verdict
  BY <1>0, <1>5 DEF HeldOK, CancelNext
<1>7. UNCHANGED <<pc, queueVars>> /\ task[h].op = "cancel"
  BY DEF CancelNext
<1>8. Work("cancel", c, task[h].todo \ {c}, "marking").op = "cancel"
  BY DEF Work
<1> QED
  BY <1>1, <1>3, <1>5, <1>6, <1>7, <1>8, KeepSafe

LEMMA BatchSkipSafe ==
  ASSUME IInv, NEW h \in Handler, BatchSkip(h)
  PROVE  Safe'
<1>0. TypeOK /\ TaskOK
  BY DEF IInv, Safe
<1>1. PICK c \in task[h].todo \ pending : Then(h, task[h].todo \ {c})
  BY DEF BatchSkip
<1> DEFINE todo == task[h].todo \ {c}
           t == IF todo = {} THEN Idle ELSE Work(task[h].op, NoCall, todo, "next")
<1>2. task' = [task EXCEPT ![h] = t] /\ task[h].op = "batch"
  BY <1>1 DEF Then, BatchSkip
<1>3. NoCall \notin todo
  BY <1>0, ApprovalAssumptions DEF TypeOK
<1>4. TaskOK'
  <2>1. \A d \in t.todo : ~BypassTrust(CallOf[d])
    BY <1>0, <1>2 DEF TaskOK, Work, Idle
  <2>2. t.op = "idle" => t = Idle
    BY <1>2 DEF Work, Idle
  <2>3. t.phase = "next" /\ t.cur = NoCall /\ t.op \in {"idle", "batch"}
        /\ t.cur \notin t.todo
    BY <1>2, <1>3 DEF Work, Idle
  <2> HIDE DEF t
  <2> QED
    BY <1>0, <1>2, <2>1, <2>2, <2>3, TaskStep
<1>5. task'[h] = t
  BY <1>0, <1>2, OthersKeepHeld
<1>6. Held(h)' = {}
  BY <1>2, <1>5, ApprovalAssumptions DEF Held, Work, Idle
<1>7. UNCHANGED <<pc, queueVars>>
  BY DEF BatchSkip
<1> HIDE DEF t
<1> QED
  BY <1>2, <1>4, <1>6, <1>7, KeepSafe

\* Cancelling takes every pending request of the plan at once.
LEMMA CancelPlanSafe ==
  ASSUME IInv, NEW h \in Handler, NEW p \in Plan, CancelPlan(h, p)
  PROVE  Safe'
<1> DEFINE taken == {c \in pending : CallOf[c].plan = p}
           t == IF taken = {} THEN Idle ELSE Work("cancel", NoCall, taken, "next")
<1>0. TypeOK /\ TaskOK /\ HeldOK /\ Disjoint /\ ResolvedOK /\ StageOK /\ VerdictsAgree
  BY DEF IInv, Safe
<1>1. /\ task' = [task EXCEPT ![h] = t]
      /\ UNCHANGED <<pc, row, future>>
  BY DEF CancelPlan
<1>2. /\ pending' = pending \ taken
      /\ resolvedBy' = [c \in Call |-> IF c \in taken THEN "cancel" ELSE resolvedBy[c]]
  BY DEF CancelPlan, Pop
<1>3. taken \subseteq pending /\ taken \subseteq Call /\ NoCall \notin taken
  BY <1>0, ApprovalAssumptions DEF TypeOK
<1>4. /\ t.op \in {"idle", "cancel"} /\ t.phase = "next" /\ t.cur = NoCall
      /\ t.todo = taken /\ (t.op = "idle" => t = Idle) /\ (t.op = "cancel" \/ taken = {})
  BY DEF Work, Idle
<1>5. Held(h) = {}
  BY IdleHoldsNothing DEF CancelPlan
<1> HIDE DEF taken, t
<1>6. TaskOK'
  BY <1>0, <1>1, <1>3, <1>4, TaskStep
<1>7. /\ task'[h] = t
      /\ \A g \in Handler \ {h} : task'[g] = task[g] /\ Held(g)' = Held(g)
  BY <1>0, <1>1, OthersKeepHeld
<1>8. Held(h)' = taken
  BY <1>3, <1>4, <1>7, ApprovalAssumptions DEF Held
<1>9. \A g \in Handler : Held(g) \cap taken = {}
  BY <1>0, <1>3 DEF HeldOK
<1>10. Disjoint'
  BY <1>0, <1>7, <1>8, <1>9 DEF Disjoint
<1>11. HeldOK'
  <2>1. ASSUME NEW g \in Handler \ {h}, NEW d \in Held(g)' PROVE HeldOK!(g)!(d)'
    BY <1>0, <1>1, <1>2, <1>7, <1>9, <2>1, HeldTypes DEF HeldOK
  <2>2. ASSUME NEW d \in Held(h)' PROVE HeldOK!(h)!(d)'
    BY <1>0, <1>1, <1>2, <1>3, <1>4, <1>7, <1>8, <2>2 DEF ResolvedOK, WhoOf
  <2> QED
    BY <2>1, <2>2 DEF HeldOK
<1>12. ResolvedOK'
  BY <1>0, <1>1, <1>2, <1>3 DEF ResolvedOK
<1>13. StageOK' /\ VerdictsAgree'
  BY <1>0, <1>1, <1>2, <1>3 DEF StageOK, VerdictsAgree
<1> QED
  BY <1>6, <1>10, <1>11, <1>12, <1>13 DEF Safe

LEMMA AuditRuleSafe ==
  ASSUME IInv, NEW h \in Handler, AuditRule(h)
  PROVE  Safe'
<1> DEFINE t == [task[h] EXCEPT !.phase = "marking"]
<1>0. TypeOK /\ TaskOK /\ HeldOK
  BY DEF IInv, Safe
<1>1. task' = [task EXCEPT ![h] = t] /\ UNCHANGED <<pc, queueVars>>
  BY DEF AuditRule
<1>2. /\ t.op = task[h].op /\ t.cur = task[h].cur /\ t.todo = task[h].todo
      /\ t.phase = "marking" /\ task[h].phase = "auditing"
  BY <1>0 DEF TypeOK, AuditRule
<1> HIDE DEF t
<1>3. t.op # "idle" /\ t.cur # NoCall
  BY <1>0, <1>2 DEF TaskOK, Idle
<1>4. TaskOK'
  <2>1. /\ t.op \in {"approve", "reject"} => t.todo = {}
        /\ t.op = "batch" => \A c \in t.todo : ~BypassTrust(CallOf[c])
        /\ t.cur \notin t.todo
    BY <1>0, <1>2 DEF TaskOK
  <2> QED
    BY <1>0, <1>1, <1>2, <1>3, <2>1, TaskStep
<1>5. task'[h] = t
  BY <1>0, <1>1, OthersKeepHeld
<1>6. Held(h)' = Held(h)
  BY <1>2, <1>5 DEF Held
<1>7. \A c \in Held(h) : row[c] \notin Verdict
  BY <1>0, <1>2 DEF HeldOK
<1> QED
  BY <1>1, <1>2, <1>4, <1>6, <1>7, KeepSafe

\* What a failing handler held is lost: nobody holds it, and it is not pending.
LEMMA HandlerFailsSafe ==
  ASSUME IInv, NEW h \in Handler, HandlerFails(h)
  PROVE  Safe'
<1>0. TypeOK /\ TaskOK
  BY DEF IInv, Safe
<1>1. task' = [task EXCEPT ![h] = Idle] /\ UNCHANGED <<pc, queueVars>>
  BY DEF HandlerFails
<1>2. TaskOK'
  BY <1>0, <1>1, TaskStep DEF Idle
<1>3. task'[h] = Idle
  BY <1>0, <1>1, OthersKeepHeld
<1>4. Held(h)' = {}
  BY <1>3, ApprovalAssumptions DEF Held, Idle
<1> QED
  BY <1>1, <1>2, <1>4, KeepSafe

LEMMA CurIsHeld ==
  ASSUME TypeOK, TaskOK, NEW h \in Handler, task[h].phase # "next"
  PROVE  /\ task[h].cur \in Call /\ task[h].cur # NoCall /\ task[h].op # "idle"
         /\ task[h].cur \in Held(h)
<1>1. task[h].cur \in Call \cup {NoCall}
  BY DEF TypeOK
<1>2. task[h].cur # NoCall /\ task[h].op # "idle"
  BY DEF TaskOK, Idle
<1> QED
  BY <1>1, <1>2 DEF Held

LEMMA MarkRowSafe ==
  ASSUME IInv, NEW h \in Handler, MarkRow(h)
  PROVE  Safe'
<1> DEFINE c == task[h].cur
           t == [task[h] EXCEPT !.phase = "settling"]
<1>0. TypeOK /\ TaskOK /\ HeldOK /\ Disjoint /\ ResolvedOK /\ StageOK /\ VerdictsAgree
  BY DEF IInv, Safe
<1>1. /\ task' = [task EXCEPT ![h] = t]
      /\ UNCHANGED <<pc, pending, future, resolvedBy>>
      /\ task[h].phase = "marking"
  BY DEF MarkRow
<1>2. c \in Call /\ c # NoCall /\ task[h].op # "idle" /\ c \in Held(h)
  BY <1>0, <1>1, CurIsHeld
<1>3. /\ t.op = task[h].op /\ t.cur = c /\ t.todo = task[h].todo /\ t.phase = "settling"
  BY <1>0 DEF TypeOK
<1>4. /\ row'[c] = "none" \/ row'[c] = VerdictOf(task[h].op)
      /\ row[c] = "none" => row'[c] = "none"
      /\ \A d \in Call \ {c} : row'[d] = row[d]
  <2>1. row' = [row EXCEPT ![c] = IF row[c] = "none" THEN row[c]
                                    ELSE VerdictOf(task[h].op)]
    BY DEF MarkRow
  <2>2. row \in [Call -> {"none", "pending"} \cup Verdict]
    BY <1>0 DEF TypeOK
  <2> HIDE DEF c
  <2> QED
    BY <1>2, <2>1, <2>2
<1> HIDE DEF c, t
<1>5. /\ future[c] \notin Verdict /\ c \notin pending
      /\ resolvedBy[c] = WhoOf(task[h].op)
  BY <1>0, <1>2 DEF HeldOK
<1>6. TaskOK'
  <2>1. /\ t.op \in {"approve", "reject"} => t.todo = {}
        /\ t.op = "batch" => \A d \in t.todo : ~BypassTrust(CallOf[d])
        /\ t.cur \notin t.todo
    BY <1>0, <1>3 DEF TaskOK, c
  <2> QED
    BY <1>0, <1>1, <1>2, <1>3, <2>1, TaskStep
<1>7. /\ task'[h] = t
      /\ \A g \in Handler \ {h} : task'[g] = task[g] /\ Held(g)' = Held(g)
  BY <1>0, <1>1, OthersKeepHeld
<1>8. Held(h)' = Held(h)
  BY <1>3, <1>7 DEF Held, c
<1>9. Disjoint'
  BY <1>0, <1>7, <1>8 DEF Disjoint
<1>10. HeldOK'
  <2>1. ASSUME NEW g \in Handler \ {h}, NEW d \in Held(g)' PROVE HeldOK!(g)!(d)'
    <3>1. d \in Held(g) /\ d \in Call /\ d # c
      BY <1>0, <1>2, <1>7, <2>1, HeldTypes DEF Disjoint
    <3> QED
      BY <1>0, <1>1, <1>4, <1>7, <3>1 DEF HeldOK
  <2>2. ASSUME NEW d \in Held(h)', d # c PROVE HeldOK!(h)!(d)'
    <3>1. d \in Held(h) /\ d \in Call
      BY <1>0, <1>8, <2>2, HeldTypes
    <3>2. row[d] \notin Verdict /\ task[h].op = task'[h].op
      BY <1>0, <1>3, <1>7, <2>2, <3>1 DEF HeldOK, c
    <3> QED
      BY <1>0, <1>1, <1>4, <2>2, <3>1, <3>2 DEF HeldOK
  <2>3. PICK e : e = c
    OBVIOUS
  <2>4. HeldOK!(h)!(e)'
    BY <1>0, <1>1, <1>3, <1>4, <1>5, <1>7, <2>3 DEF Verdict
  <2> QED
    BY <2>1, <2>2, <2>3, <2>4 DEF HeldOK
<1>11. ResolvedOK' /\ StageOK' /\ VerdictsAgree'
  <2>1. WhoOf(task[h].op) # "nobody"
    BY DEF WhoOf
  <2>2. ResolvedOK'
    BY <1>0, <1>1, <1>2, <1>4, <1>5, <2>1 DEF ResolvedOK
  <2>3. StageOK'
    BY <1>0, <1>1, <1>2, <1>4, <1>5, <2>1 DEF StageOK
  <2>4. VerdictsAgree'
    BY <1>0, <1>1, <1>2, <1>4, <1>5 DEF VerdictsAgree
  <2> QED
    BY <2>2, <2>3, <2>4
<1> QED
  BY <1>6, <1>9, <1>10, <1>11 DEF Safe

LEMMA SettleFutureSafe ==
  ASSUME IInv, NEW h \in Handler, SettleFuture(h)
  PROVE  Safe'
<1> DEFINE c == task[h].cur
           todo == task[h].todo
           t == IF todo = {} THEN Idle ELSE Work(task[h].op, NoCall, todo, "next")
<1>0. TypeOK /\ TaskOK /\ HeldOK /\ Disjoint /\ ResolvedOK /\ StageOK /\ VerdictsAgree
  BY DEF IInv, Safe
<1>1. /\ task' = [task EXCEPT ![h] = t]
      /\ UNCHANGED <<pc, pending, row, resolvedBy>>
      /\ task[h].phase = "settling"
  BY DEF SettleFuture, Then
<1>2. c \in Call /\ c # NoCall /\ task[h].op # "idle" /\ c \in Held(h)
  BY <1>0, <1>1, CurIsHeld
<1>3. /\ t.op = task[h].op \/ t = Idle
      /\ t.op = "idle" => t = Idle
      /\ t.phase = "next" /\ t.cur = NoCall /\ t.todo = todo /\ (t = Idle => todo = {})
  BY <1>2 DEF Work, Idle
<1>4. /\ \/ future'[c] = future[c] /\ future[c] # "open"
         \/ future[c] = "open" /\ future'[c] = VerdictOf(task[h].op)
      /\ \A d \in Call \ {c} : future'[d] = future[d]
  <2>1. future' = [future EXCEPT ![c] = IF future[c] = "open"
                                          THEN VerdictOf(task[h].op) ELSE future[c]]
    BY DEF SettleFuture
  <2>2. future \in [Call -> {"open", "dropped"} \cup Verdict]
    BY <1>0 DEF TypeOK
  <2> HIDE DEF c
  <2> QED
    BY <1>2, <2>1, <2>2
<1>5. /\ future[c] \notin Verdict /\ c \notin pending
      /\ resolvedBy[c] = WhoOf(task[h].op)
      /\ row[c] \in Verdict => row[c] = VerdictOf(task[h].op)
  BY <1>0, <1>2 DEF HeldOK
<1>6. NoCall \notin todo /\ c \notin todo
      /\ (task[h].op = "batch" => \A d \in todo : ~BypassTrust(CallOf[d]))
      /\ (task[h].op \in {"approve", "reject"} => todo = {})
  BY <1>0, ApprovalAssumptions DEF TypeOK, TaskOK
<1>7. Held(h) = {c} \cup (IF task[h].op = "cancel" THEN todo ELSE {})
  BY <1>2 DEF Held
<1> HIDE DEF c, t, todo
<1>8. TaskOK'
  <2>1. /\ t.op \in {"approve", "reject"} => t.todo = {}
        /\ t.op = "batch" => \A d \in t.todo : ~BypassTrust(CallOf[d])
    BY <1>3, <1>6 DEF Idle
  <2> QED
    BY <1>0, <1>1, <1>3, <1>6, <2>1, TaskStep
<1>9. /\ task'[h] = t
      /\ \A g \in Handler \ {h} : task'[g] = task[g] /\ Held(g)' = Held(g)
  BY <1>0, <1>1, OthersKeepHeld
<1>10. Held(h)' = Held(h) \ {c} /\ \A d \in Held(h)' : t.op = task[h].op
  <2>1. Held(h)' = IF t.op = "cancel" THEN todo ELSE {}
    BY <1>3, <1>9, ApprovalAssumptions DEF Held
  <2>2. t = Idle => t.op = "idle"
    BY DEF Idle
  <2> QED
    BY <1>3, <1>6, <1>7, <2>1, <2>2
<1>11. Disjoint'
  BY <1>0, <1>9, <1>10 DEF Disjoint
<1>12. HeldOK'
  <2>1. ASSUME NEW g \in Handler \ {h}, NEW d \in Held(g)' PROVE HeldOK!(g)!(d)'
    <3>1. d \in Held(g) /\ d \in Call /\ d # c
      BY <1>0, <1>2, <1>9, <2>1, HeldTypes DEF Disjoint
    <3> QED
      BY <1>0, <1>1, <1>4, <1>9, <3>1 DEF HeldOK
  <2>2. ASSUME NEW d \in Held(h)' PROVE HeldOK!(h)!(d)'
    <3>1. d \in Held(h) /\ d \in Call /\ d # c /\ t.op = task[h].op
      BY <1>0, <1>10, <2>2, HeldTypes
    <3>2. row[d] \notin Verdict
      BY <1>0, <3>1 DEF HeldOK, c
    <3> QED
      BY <1>0, <1>1, <1>4, <1>9, <3>1, <3>2 DEF HeldOK
  <2> QED
    BY <2>1, <2>2 DEF HeldOK
<1>13. WhoOf(task[h].op) # "nobody"
       /\ (VerdictOf(task[h].op) = "approved" => WhoOf(task[h].op) \in {"single", "bulk"})
       /\ VerdictOf(task[h].op) # "dropped"
  BY DEF WhoOf, VerdictOf
<1>14. ResolvedOK'
  BY <1>0, <1>1, <1>2, <1>4, <1>5, <1>13 DEF ResolvedOK, Verdict
<1>15. StageOK'
  BY <1>0, <1>1, <1>2, <1>4, <1>5, <1>13 DEF StageOK, Verdict
<1>16. VerdictsAgree'
  BY <1>0, <1>1, <1>2, <1>4, <1>5 DEF VerdictsAgree
<1> QED
  BY <1>8, <1>11, <1>12, <1>14, <1>15, <1>16 DEF Safe

-----------------------------------------------------------------------------
(***************************************************************************)
(* The inductive step: restart, policy changes, stuttering; the theorems.  *)
(***************************************************************************)
LEMMA CrashSafe ==
  ASSUME IInv, Crash
  PROVE  Safe'
<1>0. TypeOK /\ ResolvedOK /\ StageOK /\ VerdictsAgree
  BY DEF IInv, Safe
<1>1. \A h \in Handler : task'[h] = Idle
  BY DEF Crash
<1>2. \A h \in Handler : Held(h)' = {}
  BY <1>1, ApprovalAssumptions DEF Held, Idle
<1>3. TaskOK' /\ HeldOK' /\ Disjoint'
  BY <1>1, <1>2 DEF TaskOK, HeldOK, Disjoint, Idle
<1>4. pending' = {} /\ UNCHANGED <<row, future, resolvedBy>>
      /\ \A c \in Call : pc'[c] = pc[c] \/ pc'[c] = "lost"
  BY DEF Crash
<1>5. ResolvedOK' /\ VerdictsAgree'
  BY <1>0, <1>4 DEF ResolvedOK, VerdictsAgree
<1>6. StageOK'
  BY <1>0, <1>4 DEF StageOK
<1> QED
  BY <1>3, <1>5, <1>6 DEF Safe

LEMMA PolicyStepSafe ==
  ASSUME IInv, UNCHANGED <<pc, queueVars, task>>
  PROVE  Safe'
<1>1. UNCHANGED <<pc, pending, row, future, resolvedBy, task>>
  BY DEF queueVars
<1>2. \A h \in Handler : Held(h)' = Held(h)
  BY <1>1, GatewayKeepsHeld
<1>3. TaskOK' /\ Disjoint'
  BY <1>1, <1>2 DEF IInv, Safe, TaskOK, Disjoint
<1>4. HeldOK'
  BY <1>1, <1>2 DEF IInv, Safe, HeldOK
<1>5. ResolvedOK' /\ StageOK' /\ VerdictsAgree'
  BY <1>1 DEF IInv, Safe, ResolvedOK, StageOK, VerdictsAgree
<1> QED
  BY <1>3, <1>4, <1>5 DEF Safe

LEMMA SafeStep ==
  ASSUME IInv, [Next]_vars
  PROVE  Safe'
<1>1. ASSUME NEW h \in Handler, OperatorActs(h) PROVE Safe'
  BY <1>1, ApproveSafe, RejectSafe, CancelPlanSafe, ApproveBatchSafe DEF OperatorActs
<1>2. ASSUME NEW h \in Handler, HandlerStep(h) PROVE Safe'
  BY <1>2, CancelNextSafe, BatchNextSafe, BatchSkipSafe, AuditRuleSafe, MarkRowSafe,
     SettleFutureSafe, HandlerFailsSafe DEF HandlerStep
<1>3. ASSUME NEW rule \in rules, ExpireRule(rule) \/ RevokeRule(rule) PROVE Safe'
  BY <1>3, PolicyStepSafe DEF ExpireRule, RevokeRule
<1>4. ASSUME NEW a \in Agent, NEW p \in Profiles, SetProfile(a, p) PROVE Safe'
  BY <1>4, PolicyStepSafe DEF SetProfile
<1>5. CASE UNCHANGED vars
  BY <1>5, PolicyStepSafe DEF vars, queueVars
<1> QED
  BY <1>1, <1>2, <1>3, <1>4, <1>5, GatewayStepSafe, AbandonCallSafe, CrashSafe DEF Next

LEMMA InitSafe == Init => IInv
<1> SUFFICES ASSUME Init PROVE IInv
  OBVIOUS
<1>1. TypeOK
  BY InitType
<1>2. \A h \in Handler : task[h] = Idle /\ Held(h) = {}
  BY IdleHoldsNothing DEF Init
<1>3. TaskOK /\ HeldOK /\ Disjoint
  BY <1>2 DEF TaskOK, HeldOK, Disjoint, Idle
<1>4. ResolvedOK /\ StageOK /\ VerdictsAgree
  BY DEF Init, ResolvedOK, StageOK, VerdictsAgree, Verdict
<1> QED
  BY <1>1, <1>3, <1>4 DEF IInv, Safe

THEOREM Invariance == Spec => []IInv
<1>1. IInv /\ [Next]_vars => IInv'
  BY TypeStep, SafeStep DEF IInv
<1> QED
  BY InitSafe, <1>1, PTL DEF Spec

\* A tool that demands a fresh decision runs only on the operator's own approval of
\* that very request, whatever rules, profiles, bulk approvals, timeouts, failing
\* statements and restarts come between (gate.py, approvals.py).
THEOREM FreshDecisionHolds == Spec => []FreshDecision
<1>1. IInv => FreshDecision
  <2> SUFFICES ASSUME IInv, NEW c \in Call, pc[c] = "invoked", BypassTrust(CallOf[c])
               PROVE  resolvedBy[c] = "single" /\ future[c] = "approved"
    BY DEF FreshDecision
  <2>1. future[c] = "approved"
    BY DEF IInv, Safe, StageOK
  <2> QED
    BY <2>1 DEF IInv, Safe, ResolvedOK
<1> QED
  BY Invariance, <1>1, PTL

\* Two handlers never hold the same request, and what one holds is not pending.
THEOREM SingleOwnerHolds == Spec => []SingleOwner
<1>1. IInv => SingleOwner
  BY DEF IInv, Safe, HeldOK, Disjoint, SingleOwner
<1> QED
  BY Invariance, <1>1, PTL

\* The approvals table and the waiter never disagree about a verdict.
THEOREM VerdictsAgreeHolds == Spec => []VerdictsAgree
<1>1. IInv => VerdictsAgree
  BY DEF IInv, Safe
<1> QED
  BY Invariance, <1>1, PTL

-----------------------------------------------------------------------------
(***************************************************************************)
(* A verdict is final.                                                     *)
(***************************************************************************)
RowKept == \A c \in Call : row[c] \in Verdict => row'[c] = row[c]
FutureKept == \A c \in Call : future[c] # "open" => future'[c] = future[c]

LEMMA MarkRowKeeps ==
  ASSUME IInv, NEW h \in Handler, MarkRow(h)
  PROVE  RowKept /\ FutureKept
<1>1. PICK e : e = task[h].cur
  OBVIOUS
<1>2. e \in Call /\ e \in Held(h) /\ task[h].phase = "marking"
  BY <1>1, CurIsHeld DEF IInv, Safe, MarkRow
<1>3. row[e] \notin Verdict
  BY <1>2 DEF IInv, Safe, HeldOK
<1>4. \A c \in Call \ {e} : row'[c] = row[c]
  BY <1>1, <1>2 DEF MarkRow, IInv, TypeOK
<1> QED
  BY <1>3, <1>4 DEF RowKept, FutureKept, MarkRow

LEMMA SettleFutureKeeps ==
  ASSUME IInv, NEW h \in Handler, SettleFuture(h)
  PROVE  RowKept /\ FutureKept
<1>1. \A c \in Call : future[c] # "open" => future'[c] = future[c]
  BY DEF SettleFuture, IInv, TypeOK
<1> QED
  BY <1>1 DEF RowKept, FutureKept, SettleFuture

LEMMA InsertRowKeeps ==
  ASSUME IInv, NEW c \in Call, InsertRow(c)
  PROVE  RowKept /\ FutureKept
<1>1. row[c] \notin Verdict
  BY DEF IInv, Safe, StageOK, InsertRow, Verdict
<1>2. \A d \in Call \ {c} : row'[d] = row[d]
  BY DEF InsertRow, IInv, TypeOK
<1> QED
  BY <1>1, <1>2 DEF RowKept, FutureKept, InsertRow

LEMMA AbandonCallKeeps ==
  ASSUME IInv, NEW c \in Call, AbandonCall(c)
  PROVE  RowKept /\ FutureKept
<1>1. \/ row' = row
      \/ pc[c] = "inserting" /\ row' = [row EXCEPT ![c] = "pending"]
  BY DEF AbandonCall
<1>2. \/ future' = future
      \/ future[c] = "open" /\ future' = [future EXCEPT ![c] = "dropped"]
  BY DEF AbandonCall
<1>3. row \in [Call -> {"none", "pending"} \cup Verdict]
  BY DEF IInv, TypeOK
<1>4. future \in [Call -> {"open", "dropped"} \cup Verdict]
  BY DEF IInv, TypeOK
<1>5. pc[c] = "inserting" => row[c] \notin Verdict
  BY DEF IInv, Safe, StageOK, Verdict
<1>6. RowKept
  BY <1>1, <1>3, <1>5 DEF RowKept
<1>7. FutureKept
  BY <1>2, <1>4 DEF FutureKept
<1> QED
  BY <1>6, <1>7

LEMMA VerdictStep ==
  ASSUME IInv, [Next]_vars
  PROVE  RowKept /\ FutureKept
<1>0. UNCHANGED <<row, future>> => RowKept /\ FutureKept
  BY DEF RowKept, FutureKept
<1>1. ASSUME NEW c \in Call, CallStart(c) \/ CallStep(c) PROVE RowKept /\ FutureKept
  BY <1>0, <1>1, InsertRowKeeps DEF CallStart, CallStep, RefuseCall, AllowCall,
     AskForCall, OpenRequest, StatementRaises, AnnounceRequest, ResumeCall, FinishCall,
     Enter, queueVars
<1>2. ASSUME NEW h \in Handler, OperatorActs(h) PROVE RowKept /\ FutureKept
  BY <1>0, <1>2 DEF OperatorActs, Approve, Reject, CancelPlan, ApproveBatch, queueVars
<1>3. ASSUME NEW h \in Handler, HandlerStep(h) PROVE RowKept /\ FutureKept
  BY <1>0, <1>3, MarkRowKeeps, SettleFutureKeeps DEF HandlerStep, CancelNext,
     BatchNext, BatchSkip, AuditRule, HandlerFails, queueVars
<1>4. ASSUME NEW rule \in rules, ExpireRule(rule) \/ RevokeRule(rule)
      PROVE  RowKept /\ FutureKept
  BY <1>0, <1>4 DEF ExpireRule, RevokeRule, queueVars
<1>5. ASSUME NEW a \in Agent, NEW p \in Profiles, SetProfile(a, p)
      PROVE  RowKept /\ FutureKept
  BY <1>0, <1>5 DEF SetProfile, queueVars
<1>6. Crash \/ UNCHANGED vars => RowKept /\ FutureKept
  BY <1>0 DEF Crash, vars
<1> QED
  BY <1>1, <1>2, <1>3, <1>4, <1>5, <1>6, AbandonCallKeeps DEF Next

\* Neither a second handler, a late INSERT, a timeout nor a restart replaces a
\* verdict that is in the table or with the waiter.
THEOREM VerdictFinalHolds == Spec => VerdictFinal
<1>1. IInv /\ [Next]_vars =>
        [\A c \in Call : /\ row[c] \in Verdict => row'[c] = row[c]
                         /\ future[c] # "open" => future'[c] = future[c]]_vars
  BY VerdictStep DEF RowKept, FutureKept
<1> QED
  BY Invariance, <1>1, PTL DEF Spec, VerdictFinal

-----------------------------------------------------------------------------
(***************************************************************************)
(* Only a raising statement strands a waiter.                              *)
(***************************************************************************)
LEMMA CoveredKept ==
  ASSUME IInv, NEW h \in Handler, OperatorActs(h) \/ HandlerStep(h),
         NEW c \in Call, Covered(c), future'[c] = "open",
         ~(c \in Held(h) /\ HandlerFails(h))
  PROVE  Covered(c)'
<1>0. TypeOK /\ TaskOK /\ HeldOK
  BY DEF IInv, Safe
<1>1. ASSUME NEW e \in Call, NEW s \in Scope, Approve(h, e, s) PROVE Covered(c)'
  <2> DEFINE phase == IF InstallsRule(e, s) THEN "auditing" ELSE "marking"
  <2>1. task' = [task EXCEPT ![h] = Work("approve", e, {}, phase)]
    BY <1>1 DEF Approve
  <2>2. task'[h] = Work("approve", e, {}, phase)
        /\ \A g \in Handler \ {h} : Held(g)' = Held(g)
    BY <1>0, <2>1, OthersKeepHeld
  <2>3. Held(h)' = {e} /\ Held(h) = {} /\ pending' = pending \ {e}
    BY <1>1, <2>2, IdleHoldsNothing DEF Held, Work, Approve, Pop
  <2> QED
    BY <2>2, <2>3 DEF Covered
<1>2. ASSUME NEW e \in Call, Reject(h, e) PROVE Covered(c)'
  <2>1. task'[h] = Work("reject", e, {}, "marking")
        /\ \A g \in Handler \ {h} : Held(g)' = Held(g)
    BY <1>0, <1>2, OthersKeepHeld DEF Reject
  <2>2. Held(h)' = {e} /\ Held(h) = {} /\ pending' = pending \ {e}
    BY <1>2, <2>1, IdleHoldsNothing DEF Held, Work, Reject, Pop
  <2> QED
    BY <2>1, <2>2 DEF Covered
<1>3. ASSUME NEW p \in Plan, CancelPlan(h, p) PROVE Covered(c)'
  <2> DEFINE taken == {d \in pending : CallOf[d].plan = p}
             t == IF taken = {} THEN Idle ELSE Work("cancel", NoCall, taken, "next")
  <2>1. task' = [task EXCEPT ![h] = t] /\ pending' = pending \ taken
    BY <1>3 DEF CancelPlan, Pop
  <2>2. task'[h] = t /\ \A g \in Handler \ {h} : Held(g)' = Held(g)
    BY <1>0, <2>1, OthersKeepHeld
  <2>3. taken \subseteq Held(h)' /\ Held(h) = {}
    BY <1>3, <2>2, IdleHoldsNothing DEF Held, Work, CancelPlan
  <2> QED
    BY <2>1, <2>2, <2>3 DEF Covered
<1>4. ASSUME ApproveBatch(h) PROVE Covered(c)'
  <2>1. /\ \A g \in Handler \ {h} : Held(g)' = Held(g)
        /\ Held(h) = {} /\ pending' = pending
    BY <1>0, <1>4, OthersKeepHeld, IdleHoldsNothing DEF ApproveBatch, queueVars
  <2> QED
    BY <2>1 DEF Covered
<1>5. ASSUME CancelNext(h) PROVE Covered(c)'
  <2>1. PICK e \in task[h].todo :
          task' = [task EXCEPT ![h] = Work("cancel", e, task[h].todo \ {e}, "marking")]
    BY <1>5 DEF CancelNext
  <2>2. task'[h] = Work("cancel", e, task[h].todo \ {e}, "marking")
        /\ \A g \in Handler \ {h} : Held(g)' = Held(g)
    BY <1>0, <2>1, OthersKeepHeld
  <2>3. e \in Call
    BY <1>0, <2>1 DEF TypeOK
  <2>4. Held(h) \subseteq Held(h)' /\ pending' = pending
    BY <1>0, <1>5, <2>2, <2>3, ApprovalAssumptions
       DEF Held, Work, CancelNext, TaskOK, queueVars
  <2> QED
    BY <2>2, <2>4 DEF Covered
<1>6. ASSUME BatchNext(h) PROVE Covered(c)'
  <2>1. PICK e \in task[h].todo \cap pending :
          /\ Pop({e}, "bulk")
          /\ task' = [task EXCEPT ![h] = Work("batch", e, task[h].todo \ {e}, "marking")]
    BY <1>6 DEF BatchNext
  <2>2. task'[h] = Work("batch", e, task[h].todo \ {e}, "marking")
        /\ \A g \in Handler \ {h} : Held(g)' = Held(g)
    BY <1>0, <2>1, OthersKeepHeld
  <2>3. e \in Call
    BY <1>0, <2>1 DEF TypeOK
  <2>4. e \in Held(h)' /\ Held(h) = {} /\ pending' = pending \ {e}
    BY <1>0, <1>6, <2>1, <2>2, <2>3, ApprovalAssumptions
       DEF Held, Work, BatchNext, TaskOK, Pop
  <2> QED
    BY <2>2, <2>4 DEF Covered
<1>7. ASSUME BatchSkip(h) PROVE Covered(c)'
  <2>1. \A g \in Handler \ {h} : Held(g)' = Held(g)
    BY <1>0, <1>7, OthersKeepHeld DEF BatchSkip, Then
  <2>2. Held(h) = {} /\ pending' = pending
    BY <1>0, <1>7, ApprovalAssumptions DEF Held, BatchSkip, TaskOK, queueVars
  <2> QED
    BY <2>1, <2>2 DEF Covered
<1>8. ASSUME AuditRule(h) \/ MarkRow(h) PROVE Covered(c)'
  <2>1. PICK ph : task' = [task EXCEPT ![h] = [task[h] EXCEPT !.phase = ph]]
    BY <1>8 DEF AuditRule, MarkRow
  <2>2. task'[h] = [task[h] EXCEPT !.phase = ph]
        /\ \A g \in Handler \ {h} : Held(g)' = Held(g)
    BY <1>0, <2>1, OthersKeepHeld
  <2>3. task'[h].op = task[h].op /\ task'[h].cur = task[h].cur
        /\ task'[h].todo = task[h].todo
    BY <1>0, <2>2 DEF TypeOK
  <2>4. Held(h)' = Held(h) /\ pending' = pending
    BY <1>8, <2>3 DEF Held, AuditRule, MarkRow, queueVars
  <2> QED
    BY <2>2, <2>4 DEF Covered
<1>9. ASSUME SettleFuture(h) PROVE Covered(c)'
  <2> DEFINE t == IF task[h].todo = {} THEN Idle
                    ELSE Work(task[h].op, NoCall, task[h].todo, "next")
  <2>1. task' = [task EXCEPT ![h] = t] /\ pending' = pending
    BY <1>9 DEF SettleFuture, Then
  <2>2. task'[h] = t /\ \A g \in Handler \ {h} : Held(g)' = Held(g)
    BY <1>0, <2>1, OthersKeepHeld
  <2>3. c # task[h].cur
    BY <1>0, <1>9 DEF SettleFuture, TypeOK, VerdictOf
  <2>4. c \in Held(h) => c \in Held(h)'
    BY <2>2, <2>3 DEF Held, Work
  <2> QED
    BY <2>1, <2>2, <2>4 DEF Covered
<1>10. ASSUME HandlerFails(h) PROVE Covered(c)'
  <2>1. \A g \in Handler \ {h} : Held(g)' = Held(g)
    BY <1>0, <1>10, OthersKeepHeld DEF HandlerFails
  <2>2. c \notin Held(h) /\ pending' = pending
    BY <1>10 DEF HandlerFails, queueVars
  <2> QED
    BY <2>1, <2>2 DEF Covered
<1> QED
  BY <1>1, <1>2, <1>3, <1>4, <1>5, <1>6, <1>7, <1>8, <1>9, <1>10
     DEF OperatorActs, HandlerStep

LEMMA CallKeepsCovered ==
  ASSUME TypeOK, NEW e \in Call, CallStart(e) \/ CallStep(e) \/ AbandonCall(e),
         NEW c \in Call, Undecided(c)'
  PROVE  Covered(c)' \/ (Undecided(c) /\ ~Covered(c))
<1>1. UNCHANGED task /\ (pending' = pending \/ pending' = pending \cup {e})
  BY DEF CallStart, CallStep, RefuseCall, AllowCall, AskForCall, OpenRequest,
         InsertRow, StatementRaises, AnnounceRequest, ResumeCall, FinishCall, AbandonCall,
         Enter, queueVars
<1>2. \A h \in Handler : Held(h)' = Held(h)
  BY <1>1, GatewayKeepsHeld
<1>3. Covered(c) => Covered(c)'
  BY <1>1, <1>2 DEF Covered
<1>4. CASE OpenRequest(e) /\ c = e
  BY <1>4 DEF OpenRequest, Covered
<1>5. CASE ~(OpenRequest(e) /\ c = e)
  <2>0. pc'[c] \in InQueue /\ future'[c] = "open"
    BY DEF Undecided
  <2>1. pc[c] \in InQueue
    BY <1>5, <2>0 DEF TypeOK, CallStart, CallStep, RefuseCall, AllowCall, AskForCall,
         OpenRequest, InsertRow, StatementRaises, AnnounceRequest, ResumeCall, FinishCall,
         AbandonCall, Enter, InQueue
  <2>2. future[c] = "open"
    BY <2>0 DEF TypeOK, CallStart, CallStep, RefuseCall, AllowCall, AskForCall,
         OpenRequest, InsertRow, StatementRaises, AnnounceRequest, ResumeCall, FinishCall,
         AbandonCall, Enter, queueVars
  <2> QED
    BY <2>1, <2>2, <1>3 DEF Undecided
<1> QED
  BY <1>4, <1>5

LEMMA WaiterCoveredStep ==
  ASSUME IInv, Next, NEW c \in Call, Undecided(c)'
  PROVE  \/ Covered(c)'
         \/ Undecided(c) /\ ~Covered(c)
         \/ \E h \in Handler : c \in Held(h) /\ HandlerFails(h)
<1>0. TypeOK
  BY DEF IInv
<1>1. ASSUME NEW e \in Call, CallStart(e) \/ CallStep(e) \/ AbandonCall(e)
      PROVE  Covered(c)' \/ (Undecided(c) /\ ~Covered(c))
  BY <1>0, <1>1, CallKeepsCovered
<1>2. ASSUME NEW h \in Handler, OperatorActs(h) \/ HandlerStep(h),
             ~(c \in Held(h) /\ HandlerFails(h))
      PROVE  Covered(c)' \/ (Undecided(c) /\ ~Covered(c))
  <2>0. pc'[c] \in InQueue /\ future'[c] = "open"
    BY DEF Undecided
  <2>1. pc' = pc
    BY <1>2 DEF OperatorActs, HandlerStep, Approve, Reject, CancelPlan, ApproveBatch,
         CancelNext, BatchNext, BatchSkip, AuditRule, MarkRow, SettleFuture, HandlerFails
  <2>2. future[c] = "open"
    BY <2>0, VerdictStep DEF FutureKept
  <2>3. Covered(c) => Covered(c)'
    BY <1>2, <2>0, CoveredKept
  <2> QED
    BY <2>0, <2>1, <2>2, <2>3 DEF Undecided
<1>3. ASSUME UNCHANGED <<pc, queueVars, task>>
      PROVE  Covered(c)' \/ (Undecided(c) /\ ~Covered(c))
  <2>1. \A h \in Handler : Held(h)' = Held(h)
    BY <1>3, GatewayKeepsHeld
  <2> QED
    BY <1>3, <2>1 DEF Covered, Undecided, queueVars
<1>4. ~Crash
  BY <1>0 DEF Crash, Undecided, TypeOK, InQueue, InFlightPc
<1> QED
  BY <1>1, <1>2, <1>3, <1>4 DEF Next, ExpireRule, RevokeRule, SetProfile

\* Whatever mix of cancel, batch and single decisions is under way, and however
\* many handlers share it, a call waiting in the queue can still be decided; only
\* a raising statement strands waiters, those its own handler held
\* (ApprovalManager.cancel_plan and approve_batch beside approve and reject).
THEOREM WaiterCoveredHolds == Spec => WaiterCovered
<1>1. IInv /\ [Next]_vars =>
        [\A c \in Call : Undecided(c)' =>
           \/ Covered(c)'
           \/ Undecided(c) /\ ~Covered(c)
           \/ \E h \in Handler : c \in Held(h) /\ HandlerFails(h)]_vars
  BY WaiterCoveredStep
<1> QED
  BY Invariance, <1>1, PTL DEF Spec, WaiterCovered

-----------------------------------------------------------------------------
(***************************************************************************)
(* Steps, as far as the requests go.                                       *)
(***************************************************************************)
LEMMA CallEffect ==
  ASSUME TypeOK, NEW c \in Call, CallStart(c) \/ CallStep(c) \/ AbandonCall(c)
  PROVE  /\ UNCHANGED <<resolvedBy, rules>>
         /\ \A d \in Call \ {c} : pc'[d] = pc[d]
         /\ \/ pending' = pending
            \/ /\ pending' = pending \cup {c} /\ pc'[c] = "inserting"
               /\ pc[c] = "opening" \/ CallOf[c].direct
         /\ pc'[c] \in InQueue => pc[c] \in InQueue \/ c \in pending'
         /\ pc'[c] = "opening" => AskForCall(c)
<1>1. ASSUME NEW next, Enter(c, next)
      PROVE  /\ UNCHANGED <<resolvedBy, rules, pending>> /\ pc'[c] = next
             /\ \A d \in Call \ {c} : pc'[d] = pc[d]
  BY <1>1 DEF Enter, queueVars, policyVars, TypeOK
<1>2. CASE CallStart(c) /\ ~OpenRequest(c)
  BY <1>1, <1>2 DEF CallStart, RefuseCall, AllowCall, AskForCall, InQueue
<1>3. CASE OpenRequest(c)
  BY <1>3 DEF OpenRequest, MayCall, policyVars, TypeOK
<1>4. CASE InsertRow(c)
  BY <1>4 DEF InsertRow, policyVars, TypeOK, InQueue
<1>5. CASE CallStep(c) /\ ~OpenRequest(c) /\ ~InsertRow(c)
  BY <1>1, <1>5 DEF CallStep, StatementRaises, AnnounceRequest, ResumeCall, FinishCall, InQueue
<1>6. CASE AbandonCall(c)
  BY <1>6 DEF AbandonCall, policyVars, TypeOK, InQueue
<1> QED
  BY <1>2, <1>3, <1>4, <1>5, <1>6 DEF CallStart, CallStep

\* No handler moves a call; what it takes from `pending' it is recorded for.
LEMMA HandlerEffect ==
  ASSUME NEW h \in Handler, OperatorActs(h) \/ HandlerStep(h)
  PROVE  /\ pc' = pc
         /\ \/ UNCHANGED <<pending, resolvedBy>>
            \/ \E cs \in SUBSET pending, who \in {"single", "bulk", "cancel"} : Pop(cs, who)
<1>1. ASSUME NEW c \in Call, Reject(h, c) \/ \E s \in Scope : Approve(h, c, s)
      PROVE  pc' = pc /\ {c} \in SUBSET pending /\ Pop({c}, "single")
  BY <1>1 DEF Reject, Approve
<1>2. ASSUME NEW p \in Plan, CancelPlan(h, p)
      PROVE  /\ pc' = pc /\ {c \in pending : CallOf[c].plan = p} \in SUBSET pending
             /\ Pop({c \in pending : CallOf[c].plan = p}, "cancel")
  BY <1>2 DEF CancelPlan
<1>3. CASE BatchNext(h)
  <2>1. PICK c \in task[h].todo \cap pending : Pop({c}, "bulk")
    BY <1>3 DEF BatchNext
  <2> QED
    BY <1>3, <2>1 DEF BatchNext
<1>4. CASE \/ ApproveBatch(h) \/ CancelNext(h) \/ BatchSkip(h) \/ AuditRule(h) \/ MarkRow(h)
           \/ SettleFuture(h) \/ HandlerFails(h)
  BY <1>4 DEF ApproveBatch, CancelNext, BatchSkip, AuditRule, MarkRow, SettleFuture,
     HandlerFails, queueVars
<1>5. CASE OperatorActs(h)
  BY <1>1, <1>2, <1>4, <1>5 DEF OperatorActs
<1>6. CASE HandlerStep(h)
  BY <1>3, <1>4, <1>6 DEF HandlerStep
<1> QED
  BY <1>5, <1>6

LEMMA CrashEffect ==
  ASSUME TypeOK, Crash
  PROVE  /\ pending' = {} /\ rules' = Seeded /\ UNCHANGED <<resolvedBy, future>>
         /\ \A c \in Call : \/ pc'[c] = pc[c] /\ pc[c] \notin InFlightPc
                            \/ pc'[c] = "lost" /\ pc[c] \in InFlightPc \cup {"idle"}
BY DEF Crash, TypeOK

-----------------------------------------------------------------------------
(***************************************************************************)
(* What a failing statement costs.                                         *)
(***************************************************************************)
\* A request leaves `pending' only with somebody recorded as having resolved it.
Answerable == \A c \in Call : pc[c] \in InQueue /\ resolvedBy[c] = "nobody" => c \in pending

LEMMA AnswerableStep ==
  ASSUME TypeOK, Answerable, [Next]_vars
  PROVE  Answerable'
<1>1. ASSUME NEW c \in Call, CallStart(c) \/ CallStep(c) \/ AbandonCall(c) PROVE Answerable'
  BY <1>1, CallEffect DEF Answerable
<1>2. ASSUME NEW h \in Handler, OperatorActs(h) \/ HandlerStep(h) PROVE Answerable'
  BY <1>2, HandlerEffect DEF Answerable, Pop
<1>3. CASE Crash
  BY <1>3, CrashEffect DEF Answerable, InQueue, InFlightPc
<1>4. ASSUME UNCHANGED <<pc, pending, resolvedBy>> PROVE Answerable'
  BY <1>4 DEF Answerable
<1> QED
  BY <1>1, <1>2, <1>3, <1>4
     DEF Next, vars, queueVars, ExpireRule, RevokeRule, SetProfile

\* A statement that raises strands at most what its handler had popped: any other call
\* that waits undecided can still be decided (approvals.py pops before it writes).
THEOREM FaultContainedHolds == Spec => []FaultContained
<1>1. Init => Answerable
  BY DEF Init, Answerable, InQueue
<1>2. TypeOK /\ Answerable /\ [Next]_vars => Answerable'
  BY AnswerableStep
<1>3. Answerable => FaultContained
  BY DEF Answerable, FaultContained
<1> QED
  BY <1>1, <1>2, <1>3, TypeCorrect, PTL DEF Spec

-----------------------------------------------------------------------------
(***************************************************************************)
(* Standing trust.                                                         *)
(***************************************************************************)
\* What waits for the operator went through the gate, or the orchestrator opened it.
GateFirst ==
  \A c \in Call : c \in pending \/ pc[c] = "opening" =>
    \/ CallOf[c].direct
    \/ CallOf[c].tool \in Registered /\ ~FinancialReject(CallOf[c])

\* No rule alive names a tool that demands a fresh decision of some call.
RulesOrdinary ==
  \A rule \in rules, c \in Call : BypassTrust(CallOf[c]) => rule.tool # CallOf[c].tool

\* The gate asks about tools it knows and does not reject.
LEMMA AsksOrdinary ==
  ASSUME NEW c \in Call, AskForCall(c)
  PROVE  CallOf[c].tool \in Registered /\ ~FinancialReject(CallOf[c])
BY DEF AskForCall, Evaluate

\* A tool one of whose calls went through the gate to be approved, with trust allowed,
\* demands a fresh decision of no call.
LEMMA OrdinaryTool ==
  ASSUME NEW c \in Call, ~BypassTrust(CallOf[c]), ~FinancialReject(CallOf[c]),
         CallOf[c].tool \in Registered,
         NEW d \in Call, BypassTrust(CallOf[d])
  PROVE  CallOf[c].tool # CallOf[d].tool
<1>1. CallOf[d].direct => CallOf[d].tool \notin Registered
  BY TrustAssumptions
<1> QED
  BY <1>1 DEF BypassTrust, FinancialBypass, FinancialReject

LEMMA TrustStep ==
  ASSUME TypeOK, GateFirst, RulesOrdinary, [Next]_vars
  PROVE  GateFirst' /\ RulesOrdinary'
<1>1. ASSUME NEW c \in Call, CallStart(c) \/ CallStep(c) \/ AbandonCall(c)
      PROVE  GateFirst' /\ RulesOrdinary'
  <2>1. GateFirst'
    BY <1>1, CallEffect, AsksOrdinary DEF GateFirst
  <2>2. RulesOrdinary'
    BY <1>1, CallEffect DEF RulesOrdinary
  <2> QED
    BY <2>1, <2>2
<1>2. ASSUME NEW h \in Handler, OperatorActs(h) \/ HandlerStep(h)
      PROVE  GateFirst' /\ RulesOrdinary'
  <2>1. GateFirst'
    BY <1>2, HandlerEffect DEF GateFirst, Pop
  <2>2. CASE rules' = rules
    BY <2>2, <2>1 DEF RulesOrdinary
  <2>3. ASSUME NEW c \in Call, NEW s \in Scope, Approve(h, c, s) PROVE RulesOrdinary'
    <3>1. c \in pending /\ (rules' = rules \/ (InstallsRule(c, s) /\ rules' = rules \cup {NewRule(c, s)}))
      BY <2>3 DEF Approve
    <3>2. CASE rules' = rules
      BY <3>2 DEF RulesOrdinary
    <3>3. CASE InstallsRule(c, s) /\ rules' = rules \cup {NewRule(c, s)}
      <4>1. ~BypassTrust(CallOf[c])
        BY <3>3 DEF InstallsRule
      <4>2. CallOf[c].tool \in Registered /\ ~FinancialReject(CallOf[c])
        BY <3>1, <4>1 DEF GateFirst, BypassTrust
      <4>3. NewRule(c, s).tool = CallOf[c].tool
        BY DEF NewRule
      <4> HIDE DEF NewRule
      <4>4. ASSUME NEW rule \in rules', NEW d \in Call, BypassTrust(CallOf[d])
            PROVE  rule.tool # CallOf[d].tool
        BY <3>3, <4>1, <4>2, <4>3, <4>4, OrdinaryTool DEF RulesOrdinary
      <4> QED
        BY <4>4 DEF RulesOrdinary
    <3> QED
      BY <3>1, <3>2, <3>3
  <2>4. rules' = rules \/ \E c \in Call, s \in Scope : Approve(h, c, s)
    BY <1>2 DEF OperatorActs, HandlerStep, Reject, CancelPlan, ApproveBatch, CancelNext,
       BatchNext, BatchSkip, AuditRule, MarkRow, SettleFuture, HandlerFails, policyVars
  <2> QED
    BY <2>1, <2>2, <2>3, <2>4
<1>3. CASE Crash
  <2>1. GateFirst'
    BY <1>3, CrashEffect DEF GateFirst, InFlightPc
  <2>2. RulesOrdinary'
    BY <1>3, CrashEffect, TrustAssumptions DEF RulesOrdinary
  <2> QED
    BY <2>1, <2>2
<1>4. ASSUME UNCHANGED <<pc, pending>>, rules' \subseteq rules PROVE GateFirst' /\ RulesOrdinary'
  BY <1>4 DEF GateFirst, RulesOrdinary
<1> QED
  BY <1>1, <1>2, <1>3, <1>4
     DEF Next, vars, queueVars, ExpireRule, RevokeRule, SetProfile

\* Whatever the operator approves with a trust scope, and whichever rules expire or are
\* seeded again by a restart: no rule of TrustStore ever covers a call whose tool
\* demands a fresh decision.  A trading tool is the one whose calls differ: the gate
\* rejects it in a sandbox without the trading capability, so no rule can come of it.
THEOREM NoStandingTrustHolds == Spec => []NoStandingTrust
<1>1. Init => GateFirst /\ RulesOrdinary
  BY TrustAssumptions DEF Init, GateFirst, RulesOrdinary
<1>2. TypeOK /\ GateFirst /\ RulesOrdinary /\ [Next]_vars => GateFirst' /\ RulesOrdinary'
  BY TrustStep
<1>3. RulesOrdinary => NoStandingTrust
  BY DEF RulesOrdinary, NoStandingTrust, Matches
<1> QED
  BY <1>1, <1>2, <1>3, TypeCorrect, PTL DEF Spec

-----------------------------------------------------------------------------
(***************************************************************************)
(* The refinement of ToolCallContract.                                     *)
(***************************************************************************)
\* A call that ran at once, or was refused at once, is never anybody's request.
EndedUnasked ==
  \A c \in Call : pc[c] = "invoked" /\ future[c] = "open" =>
    c \notin pending /\ resolvedBy[c] = "nobody"

LEMMA EndedUnaskedStep ==
  ASSUME IInv, EndedUnasked, [Next]_vars
  PROVE  EndedUnasked'
<1>0. TypeOK /\ StageOK
  BY DEF IInv, Safe
<1>1. ASSUME NEW c \in Call, CallStart(c) \/ CallStep(c) \/ AbandonCall(c) PROVE EndedUnasked'
  <2>1. \A d \in Call : future'[d] = "open" => future[d] = "open"
    BY <1>1, VerdictStep DEF FutureKept, Next
  <2>2. pc'[c] = "invoked" /\ future'[c] = "open" =>
           c \notin pending /\ resolvedBy[c] = "nobody"
    <3>1. pc'[c] = "invoked" => AllowCall(c) \/ FinishCall(c) \/ pc[c] = "invoked"
      BY <1>0, <1>1
      DEF CallStart, CallStep, RefuseCall, AllowCall, AskForCall, OpenRequest, InsertRow,
          StatementRaises, AnnounceRequest, ResumeCall, AbandonCall, Enter, TypeOK
    <3>2. CASE AllowCall(c)
      BY <1>0, <3>2 DEF AllowCall, MayCall, StageOK
    <3>3. CASE FinishCall(c)
      BY <1>0, <3>3, <2>1 DEF FinishCall, StageOK, Verdict
    <3>4. CASE pc[c] = "invoked"
      BY <2>1, <3>4 DEF EndedUnasked
    <3> QED
      BY <3>1, <3>2, <3>3, <3>4
  <2>3. pc'[c] = "invoked" => pending' = pending
    BY <1>0, <1>1, CallEffect
  <2>4. \A d \in Call \ {c} : pc'[d] = pc[d] /\ (d \in pending' => d \in pending)
    BY <1>0, <1>1, CallEffect
  <2>5. resolvedBy' = resolvedBy
    BY <1>0, <1>1, CallEffect
  <2> QED
    BY <2>1, <2>2, <2>3, <2>4, <2>5 DEF EndedUnasked
<1>2. ASSUME NEW h \in Handler, OperatorActs(h) \/ HandlerStep(h) PROVE EndedUnasked'
  <2>1. \A d \in Call : future'[d] = "open" => future[d] = "open"
    BY <1>2, VerdictStep DEF FutureKept, Next
  <2> QED
    BY <1>2, <2>1, HandlerEffect DEF EndedUnasked, Pop
<1>3. CASE Crash
  BY <1>0, <1>3, CrashEffect DEF EndedUnasked
<1>4. ASSUME UNCHANGED <<pc, pending, resolvedBy, future>> PROVE EndedUnasked'
  BY <1>4 DEF EndedUnasked
<1> QED
  BY <1>1, <1>2, <1>3, <1>4
     DEF Next, vars, queueVars, ExpireRule, RevokeRule, SetProfile

LEMMA Stays ==
  ASSUME NEW c \in Call, pc'[c] = pc[c], future'[c] = future[c],
         resolvedBy'[c] = resolvedBy[c] \/ (future[c] \notin Verdict /\ pc[c] # "invoked")
  PROVE  StageOf(c)' = StageOf(c) /\ LicenceOf(c)' = LicenceOf(c)
BY DEF StageOf, LicenceOf, Verdict

LEMMA MoveIs ==
  ASSUME NEW c \in Call, NEW to, NEW by, StageOf(c)' = to, LicenceOf(c)' = by,
         \A d \in Call \ {c} : StageOf(d)' = StageOf(d) /\ LicenceOf(d)' = LicenceOf(d)
  PROVE  Contract!Move(c, to, by)
BY DEF Contract!Move

LEMMA NothingMoves ==
  ASSUME \A d \in Call : StageOf(d)' = StageOf(d) /\ LicenceOf(d)' = LicenceOf(d)
  PROVE  UNCHANGED Contract!contractVars
BY DEF Contract!contractVars

\* What a call that leaves without a decision, or is refused, looks like to the contract.
LEMMA VanishIs ==
  ASSUME NEW cs \in SUBSET Call,
         \A c \in cs : StageOf(c) \in {"new", "asked", "granted", "denied"},
         \A c \in cs : StageOf(c)' = "gone" /\ LicenceOf(c)' = "none",
         \A d \in Call \ cs : StageOf(d)' = StageOf(d) /\ LicenceOf(d)' = LicenceOf(d)
  PROVE  Contract!Vanish(cs)
BY DEF Contract!Vanish

\* One call's step, when nothing else changes for the contract.
LEMMA CallRefines ==
  ASSUME IInv, NEW c \in Call, CallStart(c) \/ CallStep(c) \/ AbandonCall(c)
  PROVE  Contract!ContractNext \/ UNCHANGED Contract!contractVars
<1>0. TypeOK /\ StageOK /\ ResolvedOK
  BY DEF IInv, Safe
<1>1. \A d \in Call \ {c} : StageOf(d)' = StageOf(d) /\ LicenceOf(d)' = LicenceOf(d)
  <2>1. \A d \in Call \ {c} : pc'[d] = pc[d] /\ resolvedBy'[d] = resolvedBy[d]
    BY <1>0, CallEffect
  <2>2. \A d \in Call \ {c} : future'[d] = future[d]
    BY <1>0
    DEF CallStart, CallStep, AbandonCall, RefuseCall, AllowCall, AskForCall, OpenRequest,
        InsertRow, StatementRaises, AnnounceRequest, ResumeCall, FinishCall, Enter, queueVars, TypeOK
  <2> QED
    BY <2>1, <2>2, Stays
<1>2. ASSUME StageOf(c)' = StageOf(c), LicenceOf(c)' = LicenceOf(c)
      PROVE  UNCHANGED Contract!contractVars
  BY <1>1, <1>2, NothingMoves
<1>3. ASSUME NEW next, Enter(c, next) PROVE pc'[c] = next /\ UNCHANGED <<future, resolvedBy>>
  BY <1>0, <1>3 DEF Enter, queueVars, TypeOK
<1>4. CASE RefuseCall(c)
  <2>1. StageOf(c) = "new" /\ StageOf(c)' = "refused" /\ LicenceOf(c)' = "none"
    BY <1>3, <1>4 DEF RefuseCall, MayCall, StageOf, LicenceOf, InFlightPc, InQueue
  <2>2. Contract!Refuse(c)
    BY <1>1, <2>1, MoveIs DEF Contract!Refuse
  <2> QED
    BY <2>2 DEF Contract!ContractNext
<1>5. CASE AllowCall(c)
  <2>1. pc[c] = "idle" /\ pc'[c] = "invoked" /\ future'[c] = "open" /\ ~BypassTrust(CallOf[c])
    BY <1>0, <1>3, <1>5 DEF AllowCall, MayCall, StageOK, Evaluate, Allowed
  <2>2. StageOf(c) = "new" /\ StageOf(c)' = "ran" /\ LicenceOf(c)' = "standing"
    BY <2>1 DEF StageOf, LicenceOf, InFlightPc, InQueue
  <2>3. Contract!RunAtOnce(c)
    BY <1>1, <2>1, <2>2, MoveIs DEF Contract!RunAtOnce
  <2> QED
    BY <2>3 DEF Contract!ContractNext
<1>6. CASE \/ AskForCall(c) \/ OpenRequest(c) \/ InsertRow(c) \/ AnnounceRequest(c)
           \/ ResumeCall(c)
  <2>1. /\ pc[c] \in {"idle"} \cup InFlightPc /\ pc'[c] \in InFlightPc
        /\ future'[c] = future[c] /\ resolvedBy'[c] = resolvedBy[c]
    BY <1>0, <1>3, <1>6
    DEF AskForCall, OpenRequest, InsertRow, AnnounceRequest, ResumeCall, MayCall, InFlightPc,
        InQueue, TypeOK
  <2>2. CASE pc[c] = "idle"
    <3>1. StageOf(c) = "new" /\ StageOf(c)' = "asked" /\ LicenceOf(c)' = "none"
      BY <1>0, <2>1, <2>2 DEF StageOK, StageOf, LicenceOf, InFlightPc, InQueue
    <3>2. Contract!Ask(c)
      BY <1>1, <3>1, MoveIs DEF Contract!Ask
    <3> QED
      BY <3>2 DEF Contract!ContractNext
  <2>3. CASE pc[c] # "idle"
    <3>1. StageOf(c)' = StageOf(c) /\ LicenceOf(c)' = LicenceOf(c)
      BY <2>1, <2>3 DEF StageOf, LicenceOf, InFlightPc, InQueue
    <3> QED
      BY <1>2, <3>1
  <2> QED
    BY <2>2, <2>3
<1>7. CASE StatementRaises(c) \/ AbandonCall(c)
  <2>1. pc[c] \in InFlightPc /\ pc'[c] \in {"raised", "abandoned"}
    BY <1>0, <1>3, <1>7 DEF StatementRaises, AbandonCall, InFlightPc, InQueue, TypeOK
  <2>2. /\ StageOf(c) \in {"asked", "granted", "denied"}
        /\ StageOf(c)' = "gone" /\ LicenceOf(c)' = "none"
    BY <2>1 DEF StageOf, LicenceOf, InFlightPc, InQueue
  <2>3. Contract!Vanish({c})
    BY <1>1, <2>2, VanishIs
  <2> QED
    BY <2>3 DEF Contract!ContractNext
<1>8. CASE FinishCall(c)
  <2>1. pc[c] = "resumed" /\ future'[c] = future[c] /\ resolvedBy'[c] = resolvedBy[c]
    BY <1>3, <1>8 DEF FinishCall
  <2>2. future[c] \in Verdict
    BY <1>0, <2>1 DEF StageOK
  <2>3. CASE future[c] = "approved"
    <3>1. pc'[c] = "invoked"
      BY <1>3, <1>8, <2>3 DEF FinishCall
    <3>2. /\ StageOf(c) = "granted" /\ StageOf(c)' = "ran" /\ LicenceOf(c)' = LicenceOf(c)
      BY <2>1, <2>3, <3>1 DEF StageOf, LicenceOf, InFlightPc, InQueue
    <3>3. Contract!Run(c)
      BY <1>1, <3>2, MoveIs DEF Contract!Run
    <3> QED
      BY <3>3 DEF Contract!ContractNext
  <2>4. CASE future[c] # "approved"
    <3>1. pc'[c] = "refused"
      BY <1>3, <1>8, <2>4 DEF FinishCall
    <3>2. StageOf(c) = "denied" /\ StageOf(c)' = "refused" /\ LicenceOf(c)' = "none"
      BY <2>1, <2>2, <2>4, <3>1 DEF StageOf, LicenceOf, Verdict, InFlightPc, InQueue
    <3>3. Contract!Refuse(c)
      BY <1>1, <3>2, MoveIs DEF Contract!Refuse
    <3> QED
      BY <3>3 DEF Contract!ContractNext
  <2> QED
    BY <2>3, <2>4
<1> QED
  BY <1>4, <1>5, <1>6, <1>7, <1>8 DEF CallStart, CallStep

\* A verdict that reaches a call in flight is the contract's grant or denial; any other
\* call it reaches has ended.
LEMMA SettleRefines ==
  ASSUME IInv, EndedUnasked, NEW h \in Handler, SettleFuture(h)
  PROVE  Contract!ContractNext \/ UNCHANGED Contract!contractVars
<1>0. TypeOK /\ TaskOK /\ HeldOK /\ StageOK /\ ResolvedOK
  BY DEF IInv, Safe
<1>a. PICK c \in Call : c = task[h].cur
  BY <1>0, CurIsHeld DEF SettleFuture, Held
<1>b. PICK v : v = VerdictOf(task[h].op)
  OBVIOUS
<1>1. /\ c \in Call /\ c \in Held(h) /\ task[h].op # "idle" /\ pc' = pc /\ resolvedBy' = resolvedBy
      /\ future' = [future EXCEPT ![c] = IF @ = "open" THEN v ELSE @]
  BY <1>0, <1>a, <1>b, CurIsHeld DEF SettleFuture, policyVars, Held
<1>2. resolvedBy[c] = WhoOf(task[h].op) /\ future[c] \notin Verdict
  BY <1>0, <1>1 DEF HeldOK
<1>3. task[h].op \in {"approve", "reject", "cancel", "batch"}
  BY <1>0, <1>1 DEF TypeOK
<1>4. \A d \in Call \ {c} : StageOf(d)' = StageOf(d) /\ LicenceOf(d)' = LicenceOf(d)
  <2>1. \A d \in Call \ {c} : pc'[d] = pc[d] /\ future'[d] = future[d] /\ resolvedBy'[d] = resolvedBy[d]
    BY <1>0, <1>1 DEF TypeOK
  <2> QED
    BY <2>1, Stays
<1>5. CASE pc[c] \in InFlightPc /\ future[c] = "open"
  <2>1. future'[c] = v /\ pc'[c] = pc[c] /\ StageOf(c) = "asked"
    BY <1>0, <1>1, <1>5 DEF StageOf, InFlightPc, InQueue, TypeOK
  <2>2. CASE task[h].op \in {"approve", "batch"}
    <3>1. v = "approved" /\ resolvedBy[c] \in {"single", "bulk"}
      BY <1>2, <1>b, <2>2 DEF VerdictOf, WhoOf
    <3>2. BypassTrust(CallOf[c]) => resolvedBy[c] = "single"
      BY <1>0, <1>1, <3>1 DEF ResolvedOK
    <3>3. StageOf(c)' = "granted" /\ LicenceOf(c)' = resolvedBy[c]
      BY <1>1, <1>5, <2>1, <3>1 DEF StageOf, LicenceOf, InFlightPc, InQueue
    <3>4. Contract!Move(c, "granted", resolvedBy[c])
      BY <1>1, <1>4, <3>3, MoveIs
    <3>5. Contract!Grant(c)
      BY <1>1, <2>1, <3>1, <3>2, <3>4 DEF Contract!Grant
    <3> QED
      BY <1>1, <3>5 DEF Contract!ContractNext
  <2>3. CASE task[h].op \in {"reject", "cancel"}
    <3>1. v \in {"rejected", "cancelled"}
      BY <1>b, <2>3 DEF VerdictOf
    <3>2. StageOf(c)' = "denied" /\ LicenceOf(c)' = "none"
      BY <1>5, <2>1, <3>1 DEF StageOf, LicenceOf, InFlightPc, InQueue
    <3>3. Contract!Deny(c)
      BY <1>1, <1>4, <2>1, <3>2, MoveIs DEF Contract!Deny
    <3> QED
      BY <1>1, <3>3 DEF Contract!ContractNext
  <2> QED
    BY <1>3, <2>2, <2>3
<1>6. CASE pc[c] \notin InFlightPc /\ future[c] = "open"
  <2>1. pc[c] \in EndedPc \ {"invoked"}
    <3>1. resolvedBy[c] # "nobody"
      BY <1>2, <1>3 DEF WhoOf
    <3> QED
      BY <1>0, <1>1, <1>6, <3>1 DEF TypeOK, StageOK, EndedUnasked, InFlightPc
  <2>2. pc'[c] = pc[c]
    BY <1>1
  <2>3. StageOf(c)' = StageOf(c) /\ LicenceOf(c)' = LicenceOf(c)
    BY <2>1, <2>2 DEF StageOf, LicenceOf, EndedPc, InFlightPc, InQueue
  <2> QED
    BY <1>4, <2>3, NothingMoves
<1>7. CASE future[c] # "open"
  <2>1. future'[c] = future[c] /\ pc'[c] = pc[c] /\ resolvedBy'[c] = resolvedBy[c]
    BY <1>0, <1>1, <1>7 DEF TypeOK
  <2>2. StageOf(c)' = StageOf(c) /\ LicenceOf(c)' = LicenceOf(c)
    BY <1>1, <2>1, Stays
  <2> QED
    BY <1>4, <2>2, NothingMoves
<1> QED
  BY <1>5, <1>6, <1>7

\* What the other steps of handlers do is the queue's own business.
LEMMA HandlerRefines ==
  ASSUME IInv, EndedUnasked, NEW h \in Handler, OperatorActs(h) \/ HandlerStep(h)
  PROVE  Contract!ContractNext \/ UNCHANGED Contract!contractVars
<1>0. TypeOK /\ StageOK /\ ResolvedOK
  BY DEF IInv, Safe
<1>1. CASE SettleFuture(h)
  BY <1>1, SettleRefines
<1>2. CASE ~SettleFuture(h)
  <2>1. future' = future
    BY <1>2
    DEF OperatorActs, HandlerStep, Approve, Reject, CancelPlan, ApproveBatch, CancelNext,
        BatchNext, BatchSkip, AuditRule, MarkRow, HandlerFails, queueVars
  <2>2. ASSUME NEW d \in Call PROVE StageOf(d)' = StageOf(d) /\ LicenceOf(d)' = LicenceOf(d)
    <3>1. pc' = pc /\ (resolvedBy'[d] = resolvedBy[d] \/ d \in pending)
      BY HandlerEffect DEF Pop
    <3>2. d \in pending => future[d] \notin Verdict /\ pc[d] # "invoked"
      BY <1>0 DEF ResolvedOK, EndedUnasked, StageOK, TypeOK
    <3> QED
      BY <2>1, <3>1, <3>2, Stays
  <2> QED
    BY <2>2, NothingMoves
<1> QED
  BY <1>1, <1>2

LEMMA CrashRefines ==
  ASSUME IInv, Crash
  PROVE  Contract!ContractNext
<1> DEFINE cs == {c \in Call : pc'[c] = "lost" /\ pc[c] # "lost"}
<1>1. /\ UNCHANGED <<resolvedBy, future>>
      /\ \A c \in Call : \/ pc'[c] = pc[c] /\ pc[c] \notin InFlightPc
                         \/ pc'[c] = "lost" /\ pc[c] \in InFlightPc \cup {"idle"}
  BY CrashEffect DEF IInv
<1>2. \A c \in cs : StageOf(c) \in {"new", "asked", "granted", "denied"}
  BY <1>1 DEF StageOf, InFlightPc, InQueue
<1>3. \A c \in cs : StageOf(c)' = "gone" /\ LicenceOf(c)' = "none"
  BY DEF StageOf, LicenceOf, InFlightPc, InQueue
<1>4. \A d \in Call \ cs : StageOf(d)' = StageOf(d) /\ LicenceOf(d)' = LicenceOf(d)
  <2>1. \A d \in Call \ cs : pc'[d] = pc[d]
    BY <1>1
  <2> QED
    BY <1>1, <2>1, Stays
<1>5. cs \in SUBSET Call
  OBVIOUS
<1> HIDE DEF cs
<1>6. Contract!Vanish(cs)
  BY <1>2, <1>3, <1>4, <1>5, VanishIs
<1> QED
  BY <1>5, <1>6 DEF Contract!ContractNext

LEMMA StepRefines ==
  ASSUME IInv, EndedUnasked, [Next]_vars
  PROVE  Contract!ContractNext \/ UNCHANGED Contract!contractVars
<1>1. ASSUME UNCHANGED <<pc, future, resolvedBy>>
      PROVE  UNCHANGED Contract!contractVars
  <2>1. \A d \in Call : StageOf(d)' = StageOf(d) /\ LicenceOf(d)' = LicenceOf(d)
    BY <1>1, Stays
  <2> QED
    BY <2>1, NothingMoves
<1>2. ASSUME NEW c \in Call, CallStart(c) \/ CallStep(c) \/ AbandonCall(c)
      PROVE  Contract!ContractNext \/ UNCHANGED Contract!contractVars
  BY <1>2, CallRefines
<1>3. ASSUME NEW h \in Handler, OperatorActs(h) \/ HandlerStep(h)
      PROVE  Contract!ContractNext \/ UNCHANGED Contract!contractVars
  BY <1>3, HandlerRefines
<1>4. CASE Crash
  BY <1>4, CrashRefines
<1> QED
  BY <1>1, <1>2, <1>3, <1>4
     DEF Next, vars, queueVars, ExpireRule, RevokeRule, SetProfile

LEMMA InitRefines == Init => Contract!ContractInit
BY DEF Init, Contract!ContractInit, StageOf, LicenceOf, InFlightPc, InQueue

\* Gateway, queue and handlers implement ToolCallContract: with every race, timeout,
\* failing statement and restart, a call's handler runs at most once, on a licence the
\* policy or the operator gave, never after a denial, and a strict call only on the
\* operator's decision about that very call.
THEOREM ContractImplemented == Spec => ImplementsContract
<1>1. Init => EndedUnasked
  BY DEF Init, EndedUnasked
<1>2. IInv /\ EndedUnasked /\ [Next]_vars => EndedUnasked'
  BY EndedUnaskedStep
<1>3. IInv /\ EndedUnasked /\ [Next]_vars => [Contract!ContractNext]_(Contract!contractVars)
  BY StepRefines
<1> QED
  BY Invariance, InitRefines, <1>1, <1>2, <1>3, PTL
  DEF Spec, ImplementsContract, Contract!ContractSpec
=============================================================================
