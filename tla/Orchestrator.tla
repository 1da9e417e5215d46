---------------------------- MODULE Orchestrator ----------------------------
(***************************************************************************)
(* The plan runner: run, agent_run, _execute and _drive of                 *)
(* core/orchestrator/orchestrator.py, the plans table (plans.py) and the   *)
(* agents table (core/registry/registry.py).                               *)
(*                                                                         *)
(* One plan at a time holds the orchestrator's lock.  A plan's tool calls  *)
(* may queue delegations on the top frame of a stack; when the plan has    *)
(* ended and released the lock it pops a frame and runs what is in it, one *)
(* agent run after the other.  A `run' here is one execution of _execute:  *)
(* a top-level request or a delegation.  A step is what a coroutine does   *)
(* between two awaits.                                                     *)
(***************************************************************************)
EXTENDS Naturals, SequencesExt

CONSTANTS
  Agent, NoAgent,  \* agents, and the free chat path that has none
  Top,             \* runs somebody requests
  Delegated,       \* runs a plan may delegate to
  NoRun,
  AgentOf,         \* what a requested run runs
  Checked,         \* requests that are refused while running_plan_id is set
  Timed,           \* requests under asyncio.wait_for
  MaxTop,          \* bound: requested runs in flight at once
  MaxTurns,        \* plan_max_turns
  MayRaise,        \* bound: whether statements of the database raise
  MayRestart       \* bound: whether the daemon restarts

Run == Top \cup Delegated

ASSUME OrchestratorAssumptions ==
  /\ NoAgent \notin Agent
  /\ IsFiniteSet(Run) /\ Top \cap Delegated = {} /\ NoRun \notin Run
  /\ AgentOf \in [Top -> Agent \cup {NoAgent}]
  /\ Checked \subseteq Top /\ Timed \subseteq Top
  /\ MaxTop \in Nat \ {0} /\ MaxTurns \in Nat \ {0}
  /\ MayRaise \in BOOLEAN /\ MayRestart \in BOOLEAN

VARIABLES
  pc,        \* where a run is
  job,       \* what it runs, who asked for it and who awaits it
  outcome,   \* how _execute or agent_run ended
  frame,     \* the delegations it has popped and not yet run
  turn,      \* planning turns begun
  lock,      \* who holds Orchestrator._lock
  waiters,   \* who waits for it
  running,   \* _running_plan_id
  event,     \* whether _cancel_event is set
  stopped,   \* history: plans a cancel was armed for or whose preflight failed
  stack,     \* _delegation_stack
  depth,     \* _current_delegation_depth
  prior,     \* prior_depth of a run
  row,       \* plans.status
  agentRow,  \* agents.state
  cut,       \* history: runs cut off since the boot, and whether their frame stayed
  crowded    \* history: agent runs that met another request's run of their agent

vars == <<pc, job, outcome, frame, turn, lock, waiters, running, event, stopped,
          stack, depth, prior, row, agentRow, cut, crowded>>

lockVars == <<lock, waiters, running, event>>
stackVars == <<stack, depth, prior>>
history == <<cut, crowded>>

MaxDelegationDepth == 2

\* In front of the lock, holding it, behind it.
Before == {"starting", "checking", "capped", "queued"}
Holding == {"creating", "preflight", "turn", "acting", "failing", "closing"}
After == {"draining", "handing", "leaving"}
Live == Before \cup Holding \cup After

Terminal == {"completed", "failed", "cancelled"}

JobRecord ==
  [agent: Agent \cup {NoAgent}, depth: Nat,
   by: Run \cup {NoRun}, host: Run \cup {NoRun}, root: Run \cup {NoRun}]

TypeOK ==
  /\ pc \in [Run -> {"unborn", "delegated", "dropped", "gone"} \cup Live]
  /\ job \in [Run -> JobRecord]
  /\ outcome \in [Run -> {"none", "ok", "busy", "failed", "timed"}]
  /\ frame \in [Run -> Seq(Delegated)]
  /\ turn \in [Run -> 0 .. MaxTurns]
  /\ lock \in Run \cup {NoRun}
  /\ waiters \in Seq(Run)
  /\ running \in Run \cup {NoRun}
  /\ event \in BOOLEAN
  /\ stopped \subseteq Run
  /\ stack \in Seq(Seq(Delegated))
  /\ depth \in Nat
  /\ prior \in [Run -> Nat]
  /\ row \in [Run -> {"none", "running"} \cup Terminal]
  /\ agentRow \in [Agent -> {"ready", "running"}]
  /\ cut \in [Run -> {"no", "bare", "framed"}]
  /\ crowded \subseteq Run

\* agent_run's default depth is 1; the chat path is depth 0.
TopJob(r) ==
  [agent |-> AgentOf[r], depth |-> IF AgentOf[r] = NoAgent THEN 0 ELSE 1,
   by |-> NoRun, host |-> NoRun, root |-> r]

NoJob == [agent |-> NoAgent, depth |-> 0,
          by |-> NoRun, host |-> NoRun, root |-> NoRun]

Init ==
  /\ pc = [r \in Run |-> "unborn"]
  /\ job = [r \in Run |-> IF r \in Top THEN TopJob(r) ELSE NoJob]
  /\ outcome = [r \in Run |-> "none"]
  /\ frame = [r \in Run |-> <<>>]
  /\ turn = [r \in Run |-> 0]
  /\ lock = NoRun /\ waiters = <<>> /\ running = NoRun /\ event = FALSE
  /\ stopped = {}
  /\ stack = <<>> /\ depth = 0 /\ prior = [r \in Run |-> 0]
  /\ row = [r \in Run |-> "none"]
  /\ agentRow = [a \in Agent |-> "ready"]
  /\ cut = [r \in Run |-> "no"] /\ crowded = {}

Items(s) == {s[i] : i \in DOMAIN s}

\* Where _execute returns to: agent_run's finally, or nowhere for a chat run.
Ended(r) == IF job[r].agent = NoAgent THEN "gone" ELSE "leaving"

-----------------------------------------------------------------------------
(***************************************************************************)
(* Requests, and the way to the lock.                                      *)
(***************************************************************************)
\* _execute's first statement: while the lock is held the run is refused.
EnterExecute(r) ==
  IF lock = NoRun
    THEN /\ pc' = [pc EXCEPT ![r] = "checking"]
         /\ UNCHANGED outcome
    ELSE /\ pc' = [pc EXCEPT ![r] = Ended(r)]
         /\ outcome' = [outcome EXCEPT ![r] = "busy"]

\* A chat run reaches _execute at once, an agent run awaits its sandbox first.
Request(r) ==
  /\ r \in Top /\ pc[r] = "unborn"
  /\ Cardinality({t \in Top : pc[t] \in Live}) < MaxTop
  /\ r \in Checked => running = NoRun
  /\ IF job[r].agent = NoAgent
       THEN EnterExecute(r)
       ELSE /\ pc' = [pc EXCEPT ![r] = "starting"]
            /\ UNCHANGED outcome
  /\ UNCHANGED <<job, frame, turn, lockVars, stopped, stackVars, row, agentRow, history>>

\* The runs of r's agent that another request has under way.
Others(r) ==
  {q \in Run : /\ pc[q] \in Live \ {"starting"}
               /\ job[q].agent = job[r].agent /\ job[q].root # job[r].root}

Meet(r) ==
  crowded' = crowded \cup Others(r) \cup (IF Others(r) = {} THEN {} ELSE {r})

Mark(r, as) ==
  /\ pc[r] = "starting"
  /\ agentRow' = [agentRow EXCEPT ![job[r].agent] = as]
  /\ EnterExecute(r)
  /\ Meet(r)
  /\ UNCHANGED <<job, frame, turn, lockVars, stopped, stackVars, row, cut>>

\* Faulty variant: only the outermost agent run marks its agent.
MarkOutermost(r) ==
  Mark(r, IF job[r].host = NoRun THEN "running" ELSE agentRow[job[r].agent])

\* The agent is marked running before anything says that its plan may run.
MarkRunning(r) == Mark(r, "running")

\* Faulty variant: the frame is pushed before the caps are looked at.
CapAfterPush(r) ==
  /\ pc[r] = "checking"
  /\ pc' = [pc EXCEPT ![r] = "capped"]
  /\ row' = [row EXCEPT ![r] = "running"]
  /\ stack' = Append(stack, <<>>)
  /\ UNCHANGED <<job, outcome, frame, turn, lockVars, stopped, depth, prior, agentRow, history>>

\* A daily cap is reached: a plan is created only to be failed.
CapReached(r) ==
  /\ pc[r] = "checking"
  /\ pc' = [pc EXCEPT ![r] = "capped"]
  /\ row' = [row EXCEPT ![r] = "running"]
  /\ UNCHANGED <<job, outcome, frame, turn, lockVars, stopped, stackVars, agentRow, history>>

FailCapped(r) ==
  /\ pc[r] = "capped"
  /\ pc' = [pc EXCEPT ![r] = Ended(r)]
  /\ outcome' = [outcome EXCEPT ![r] = "ok"]
  /\ row' = [row EXCEPT ![r] = "failed"]
  /\ UNCHANGED <<job, frame, turn, lockVars, stopped, stackVars, agentRow, history>>

\* Pushes its frame and depth, then asks for the lock; the queue is fair.
PushFrame(r) ==
  /\ pc[r] = "checking"
  /\ stack' = Append(stack, <<>>)
  /\ prior' = [prior EXCEPT ![r] = depth]
  /\ depth' = job[r].depth
  /\ IF lock = NoRun /\ waiters = <<>>
       THEN /\ lock' = r
            /\ pc' = [pc EXCEPT ![r] = "creating"]
            /\ UNCHANGED waiters
       ELSE /\ waiters' = Append(waiters, r)
            /\ pc' = [pc EXCEPT ![r] = "queued"]
            /\ UNCHANGED lock
  /\ UNCHANGED <<job, outcome, frame, turn, running, event, stopped, row, agentRow, history>>

Acquire(r) ==
  /\ pc[r] = "queued"
  /\ lock = NoRun
  /\ Head(waiters) = r
  /\ lock' = r
  /\ waiters' = Tail(waiters)
  /\ pc' = [pc EXCEPT ![r] = "creating"]
  /\ UNCHANGED <<job, outcome, frame, turn, running, event, stopped, stackVars, row,
                 agentRow, history>>
-----------------------------------------------------------------------------
(***************************************************************************)
(* The plan, under the lock.                                               *)
(***************************************************************************)
\* The row is inserted, then the cancel event is made.
CreatePlan(r) ==
  /\ pc[r] = "creating"
  /\ pc' = [pc EXCEPT ![r] = "preflight"]
  /\ row' = [row EXCEPT ![r] = "running"]
  /\ running' = r
  /\ event' = FALSE
  /\ UNCHANGED <<job, outcome, frame, turn, lock, waiters, stopped, stackVars, agentRow, history>>

End(r, status) ==
  /\ pc' = [pc EXCEPT ![r] = "closing"]
  /\ row' = [row EXCEPT ![r] = status]
  /\ turn' = [turn EXCEPT ![r] = 0]
  /\ UNCHANGED <<job, outcome, frame, lockVars, stackVars, agentRow, history>>

PassPreflight(r) ==
  /\ pc[r] = "preflight"
  /\ pc' = [pc EXCEPT ![r] = "turn"]
  /\ UNCHANGED <<job, outcome, frame, turn, lockVars, stopped, stackVars, row, agentRow, history>>

\* An expensive chat plan asks first; a denial cancels it.
DeclinePreflight(r) ==
  /\ pc[r] = "preflight"
  /\ job[r].agent = NoAgent
  /\ stopped' = stopped \cup {r}
  /\ End(r, "cancelled")

\* The head of the loop; the event is looked at before every turn and every call.
BeginTurn(r) ==
  /\ pc[r] = "turn"
  /\ ~event
  /\ turn[r] < MaxTurns
  /\ pc' = [pc EXCEPT ![r] = "acting"]
  /\ turn' = [turn EXCEPT ![r] = @ + 1]
  /\ UNCHANGED <<job, outcome, frame, lockVars, stopped, stackVars, row, agentRow, history>>

StopAtCheck(r) ==
  /\ \/ pc[r] = "turn" /\ turn[r] < MaxTurns
     \/ pc[r] = "acting"
  /\ event
  /\ End(r, "cancelled")
  /\ UNCHANGED stopped

Queue(r, c, a) ==
  /\ pc[r] = "acting"
  /\ pc[c] = "unborn" /\ c \in Delegated
  /\ pc' = [pc EXCEPT ![c] = "delegated"]
  /\ job' = [job EXCEPT ![c] = [NoJob EXCEPT !.agent = a, !.depth = depth + 1,
                                             !.by = r]]
  /\ stack' = [stack EXCEPT ![Len(stack)] = Append(@, c)]
  /\ UNCHANGED <<outcome, frame, turn, lockVars, stopped, depth, prior, row, agentRow, history>>

\* The delegate_to_agent tool: onto the top frame, or refused.
Delegate(r, c, a) ==
  stack # <<>> /\ depth + 1 <= MaxDelegationDepth /\ Queue(r, c, a)

\* The model used a tool and gets another turn.
NextTurn(r) ==
  /\ pc[r] = "acting"
  /\ pc' = [pc EXCEPT ![r] = "turn"]
  /\ UNCHANGED <<job, outcome, frame, turn, lockVars, stopped, stackVars, row, agentRow, history>>

\* The model is done, or the turns are used up: no look at the event.
Complete(r) ==
  /\ \/ pc[r] = "acting"
     \/ pc[r] = "turn" /\ turn[r] = MaxTurns
  /\ End(r, "completed")
  /\ UNCHANGED stopped

\* The row says completed; reading it again raises, and the handler that fails the
\* plan is under way.
RereadRaises(r) ==
  /\ MayRaise
  /\ pc[r] = "closing" /\ row[r] = "completed"
  /\ pc' = [pc EXCEPT ![r] = "failing"]
  /\ UNCHANGED <<job, outcome, frame, turn, lockVars, stopped, stackVars, row, agentRow,
                 history>>

\* A model call or a statement fails, or the agent's own budget is used up.
FailPlan(r) ==
  /\ pc[r] \in {"preflight", "acting", "failing"}
  /\ End(r, "failed")
  /\ UNCHANGED stopped

\* The plan is over: the finally clause, the lock, the stack and prior_depth.
Finish(r, mine, left, holder) ==
  /\ pc[r] = "closing"
  /\ running' = NoRun
  /\ event' = FALSE
  /\ lock' = holder
  /\ stack' = left
  /\ frame' = [frame EXCEPT ![r] = mine]
  /\ depth' = prior[r]
  /\ prior' = [prior EXCEPT ![r] = 0]
  /\ pc' = [pc EXCEPT ![r] = IF mine = <<>> THEN Ended(r) ELSE "draining"]
  /\ outcome' = [outcome EXCEPT ![r] = "ok"]
  /\ UNCHANGED <<job, turn, waiters, stopped, row, agentRow, history>>

TopFrame == stack[Len(stack)]
Below == SubSeq(stack, 1, Len(stack) - 1)

\* Faulty variant: the frame is drained while the lock is still held.
CloseUnderLock(r) ==
  Finish(r, TopFrame, Below, IF TopFrame = <<>> THEN NoRun ELSE r)

\* Faulty variant: the frame is read and stays on the stack.
ClosePeeks(r) == Finish(r, TopFrame, stack, NoRun)

\* Faulty variant: the oldest frame is taken.
CloseTakesOldest(r) == Finish(r, stack[1], Tail(stack), NoRun)

\* Faulty variant: the delegations of a plan that did not complete are forgotten.
CloseDrainsOnSuccess(r) ==
  Finish(r, IF row[r] = "completed" THEN TopFrame ELSE <<>>, Below, NoRun)

\* Release and pop are one step: no await between them.
Close(r) == Finish(r, TopFrame, Below, NoRun)

-----------------------------------------------------------------------------
(***************************************************************************)
(* Hand-offs, and the ways back.                                           *)
(***************************************************************************)
\* r returns to the run that awaits it.  That one goes on after a success, drops
\* the rest of its frame after a failure and unwinds when its task is cancelled.
Return(r, out) ==
  LET h == job[r].host
      rest == IF h = NoRun \/ out = "ok" THEN {} ELSE Items(frame[h])
      next == IF out = "ok" /\ frame[h] # <<>> THEN "draining" ELSE Ended(h)
      kept == IF out = "timed" THEN "timed" ELSE "ok"
  IN  /\ pc' = [q \in Run |-> CASE q = r    -> "gone"
                                [] q = h    -> next
                                [] q \in rest -> "dropped"
                                [] OTHER    -> pc[q]]
      /\ outcome' = [q \in Run |-> CASE q = r -> out
                                     [] q = h -> kept
                                     [] OTHER -> outcome[q]]
      /\ frame' = [q \in Run |-> IF q = h /\ out # "ok" THEN <<>> ELSE frame[q]]

\* delegation.started, then agent_run.
HandOff(r) ==
  LET c == Head(frame[r])
  IN  /\ pc[r] = "draining"
      /\ frame' = [frame EXCEPT ![r] = Tail(@)]
      /\ job' = [job EXCEPT ![c].host = r, ![c].root = job[r].root]
      /\ pc' = [pc EXCEPT ![r] = "handing", ![c] = "starting"]
      /\ UNCHANGED <<outcome, turn, lockVars, stopped, stackVars, row, agentRow, history>>

\* The sandbox cannot be made: agent_run raises before its try.
SandboxFails(r) ==
  /\ pc[r] = "starting"
  /\ Return(r, "failed")
  /\ UNCHANGED <<job, turn, lockVars, stopped, stackVars, row, agentRow, history>>

\* agent_run's finally: the agent is marked ready, whoever else runs it.
MarkReady(r) ==
  /\ pc[r] = "leaving"
  /\ agentRow' = [agentRow EXCEPT ![job[r].agent] = "ready"]
  /\ Return(r, outcome[r])
  /\ UNCHANGED <<job, turn, lockVars, stopped, stackVars, row, history>>

-----------------------------------------------------------------------------
(***************************************************************************)
(* What comes from outside.                                                *)
(***************************************************************************)
Arm(p) ==
  /\ event' = TRUE
  /\ stopped' = stopped \cup {p}
  /\ UNCHANGED <<pc, job, outcome, frame, turn, lock, waiters, running, stackVars, row,
                 agentRow, history>>

\* Faulty variant: the plan id is not compared with the running one.
CancelAnything(p) == running # NoRun /\ row[p] # "none" /\ Arm(p)

\* cancel_plan of the running plan (its approvals: see ApprovalQueue).
Cancel(p) == running = p /\ Arm(p)

-----------------------------------------------------------------------------
(***************************************************************************)
(* Runs that are cut off: wait_for gives up on the request (CancelledError *)
(* at the await its run or delegation is in, which no handler catches), or *)
(* a statement of the database raises where nobody handles it.             *)
(***************************************************************************)
\* The finally clauses free the lock and forget the running plan; the pop is never
\* reached, and the row stays as it is or as the statement that was cut off left it.
\* The broadcast of plan.created comes before the try that forgets the plan.
Unwind(r, out) ==
  /\ row' \in {row} \cup (CASE pc[r] \in {"checking", "creating"} ->
                                 {[row EXCEPT ![r] = "running"]}
                            [] pc[r] = "capped" -> {[row EXCEPT ![r] = "failed"]}
                            [] OTHER -> {})
  /\ lock' = IF pc[r] \in Holding THEN NoRun ELSE lock
  /\ \/ /\ pc[r] \in Holding \ {"creating"}
        /\ running' = NoRun /\ event' = FALSE
     \/ /\ pc[r] \notin Holding \ {"creating", "preflight"}
        /\ UNCHANGED <<running, event>>
  /\ \/ pc[r] # "queued" /\ UNCHANGED waiters
     \/ \E i \in DOMAIN waiters : waiters[i] = r /\ waiters' = RemoveAt(waiters, i)
  /\ frame' = [frame EXCEPT ![r] = <<>>]
  /\ outcome' = [outcome EXCEPT ![r] = out]
  /\ pc' = [q \in Run |-> CASE q = r -> Ended(r)
                            [] q \in Items(frame[r]) -> "dropped"
                            [] OTHER -> pc[q]]
  /\ turn' = [turn EXCEPT ![r] = 0]
  /\ prior' = [prior EXCEPT ![r] = 0]
  /\ cut' = [cut EXCEPT ![r] = IF pc[r] \in Holding \cup {"queued"} THEN "framed"
                                                               ELSE "bare"]
  /\ UNCHANGED <<job, stopped, stack, depth, agentRow, crowded>>

Expire(r) ==
  /\ job[r].root \in Timed
  /\ pc[r] \in Live \ {"starting", "handing", "leaving"}
  /\ Unwind(r, "timed")

\* create_plan raises, or _fail and _cancel do while they end the plan; what raises
\* inside _drive is FailPlan and RereadRaises.
StatementRaises(r) ==
  /\ MayRaise
  /\ \/ pc[r] \in {"checking", "capped"} \cup (Holding \ {"closing"})
     \/ pc[r] = "closing" /\ row[r] # "completed"
  /\ Unwind(r, "failed")

\* The same while agent_run awaits its sandbox, where nothing is to be undone.
ExpireEarly(r) ==
  /\ job[r].root \in Timed
  /\ pc[r] = "starting"
  /\ Return(r, "timed")
  /\ UNCHANGED <<job, turn, lockVars, stopped, stackVars, row, agentRow, history>>

CutOff(r, out) ==
  \/ out = "timed" /\ job[r].root \in Timed
  \/ out = "failed" /\ MayRaise

\* mark_state is cut off, before or after its commit: in agent_run's try...
MarkRunningCut(r) ==
  /\ pc[r] = "starting"
  /\ \E out \in {"timed", "failed"} :
       CutOff(r, out) /\ outcome' = [outcome EXCEPT ![r] = out]
  /\ agentRow' \in {agentRow, [agentRow EXCEPT ![job[r].agent] = "running"]}
  /\ pc' = [pc EXCEPT ![r] = "leaving"]
  /\ Meet(r)
  /\ UNCHANGED <<job, frame, turn, lockVars, stopped, stackVars, row, cut>>

\* ... or in its finally.
MarkReadyCut(r) ==
  /\ pc[r] = "leaving"
  /\ agentRow' \in {agentRow, [agentRow EXCEPT ![job[r].agent] = "ready"]}
  /\ \E out \in {"timed", "failed"} : CutOff(r, out) /\ Return(r, out)
  /\ UNCHANGED <<job, turn, lockVars, stopped, stackVars, row, history>>

-----------------------------------------------------------------------------
\* Memory is gone, and so are the coroutines; the agents' states stay on disk.
Forget ==
  /\ MayRestart
  /\ pc' = [r \in Run |-> CASE pc[r] \in Live -> "gone"
                            [] pc[r] = "delegated" -> "dropped"
                            [] OTHER -> pc[r]]
  /\ frame' = [r \in Run |-> <<>>]
  /\ lock' = NoRun /\ waiters' = <<>> /\ running' = NoRun /\ event' = FALSE
  /\ stack' = <<>> /\ depth' = 0
  /\ turn' = [r \in Run |-> 0]
  /\ prior' = [r \in Run |-> 0]
  /\ cut' = [r \in Run |-> "no"] /\ crowded' = {}
  /\ UNCHANGED <<job, outcome, stopped, agentRow>>

\* Faulty variant: the restart fails every plan it finds.
RestartFailsAll ==
  Forget /\ row' = [r \in Run |-> IF row[r] # "none" THEN "failed" ELSE "none"]

\* Faulty variant: plans that were under way are left alone.
RestartForgetsPlans == Forget /\ row' = row

\* The daemon dies and starts again: recover_orphaned_plans fails what ran.
Restart ==
  Forget /\ row' = [r \in Run |-> IF row[r] = "running" THEN "failed" ELSE row[r]]

-----------------------------------------------------------------------------
Entering(r) ==
  \/ MarkRunning(r) \/ SandboxFails(r) \/ CapReached(r) \/ FailCapped(r)
  \/ PushFrame(r) \/ Acquire(r)

\* A model call or a tool may raise, and so end the plan.
Driving(r) ==
  \/ CreatePlan(r) \/ PassPreflight(r) \/ DeclinePreflight(r)
  \/ BeginTurn(r) \/ StopAtCheck(r) \/ NextTurn(r) \/ Complete(r) \/ FailPlan(r)
  \/ RereadRaises(r) \/ Close(r)

Leaving(r) == HandOff(r) \/ MarkReady(r)

Next ==
  \/ \E r \in Run : \/ Request(r) \/ Entering(r) \/ Driving(r) \/ Leaving(r)
                    \/ Cancel(r) \/ Expire(r) \/ ExpireEarly(r)
                    \/ StatementRaises(r) \/ MarkRunningCut(r) \/ MarkReadyCut(r)
                    \/ \E c \in Delegated, a \in Agent : Delegate(r, c, a)
  \/ Restart

Spec == Init /\ [][Next]_vars

\* Every live coroutine that can go on does, and every model call, tool call and
\* decision of the operator ends: a plan is not stuck in one turn.
GoesOn(r) == pc[r] \in Live /\ (Entering(r) \/ Driving(r) \/ Leaving(r))

FairSpec == Spec /\ \A r \in Run : WF_vars(GoesOn(r))

-----------------------------------------------------------------------------
(***************************************************************************)
(* Properties.                                                             *)
(***************************************************************************)
\* No plan ends cancelled but one that was asked to stop: a cancel never hits
\* the plan that runs next (cancel_plan compares ids, _execute makes a new event).
CancelHitsItsPlan == \A r \in Run : row[r] = "cancelled" => r \in stopped

\* A plan row that says running has a coroutine behind it, or one that a timeout or
\* a raising statement cut off since the boot: nothing else leaves a phantom, and no
\* phantom outlives a restart.
PhantomFree == \A r \in Run : row[r] = "running" => pc[r] \in Live \/ cut[r] # "no"

\* What ended failed or cancelled stays so, and what ended completed is rewritten by
\* its own coroutine only, when finish_plan could not read the row it had written:
\* never by another plan, by a late cancel or by the next boot.
RowFinal ==
  [][\A r \in Run : row[r] \in Terminal /\ row'[r] # row[r] =>
       row[r] = "completed" /\ row'[r] = "failed" /\ pc[r] = "failing"]_vars

\* Frames and runs stay matched while requests overlap, hand off, expire and fail:
\* one frame for each run between its push and its pop, and one for each run that
\* was cut off there, which stays until the daemon restarts.
FramesBalanced ==
  Len(stack) = Cardinality({r \in Run : \/ pc[r] \in Holding \cup {"queued"}
                                        \/ cut[r] = "framed"})

\* A delegation the tool accepted is in exactly one place until it runs, on the
\* stack or in a popped frame: never copied and never silently lost.
HeldOnce ==
  \A c \in Delegated :
    Cardinality({p \in (1 .. Len(stack)) \X (1 .. Cardinality(Delegated)) :
                   p[2] \in DOMAIN stack[p[1]] /\ stack[p[1]][p[2]] = c})
    + Cardinality({p \in Run \X (1 .. Cardinality(Delegated)) :
                     p[2] \in DOMAIN frame[p[1]] /\ frame[p[1]][p[2]] = c})
    = IF pc[c] = "delegated" THEN 1 ELSE 0

\* While an agent's plan holds the lock, the agents table says that it runs, unless a
\* run of that agent under another request was under way with it: neither hand-offs
\* nor refused, capped or cut-off runs of the same request take the mark away.
AgentRowHonest ==
  \A r \in Run : pc[r] \in Holding /\ job[r].agent # NoAgent /\ r \notin crowded =>
    agentRow[job[r].agent] = "running"

\* __init__: every plan drains the delegations it made itself, "rather than
\* tangling with siblings".
Scoped == \A c \in Delegated : job[c].host # NoRun => job[c].host = job[c].by

\* The delegate_to_agent tool tells the model that the agent "will take over as
\* soon as this plan ends": it is not refused because another plan runs.
TakesOver == \A c \in Delegated : outcome[c] # "busy"

\* However requests and hand-offs overlap, nobody waits for ever: a run that
\* awaits its delegation does not hold the lock the delegation needs.  And a
\* delegation that was accepted is run, or dropped after a failed sibling, unless
\* a run was cut off and its frame stayed on the stack.
RunsSettle ==
  /\ \A r \in Run : (pc[r] \in Live) ~> (pc[r] = "gone")
  /\ \A c \in Delegated :
       (pc[c] = "delegated") ~> \/ pc[c] \in {"gone", "dropped"}
                                \/ \E r \in Run : cut[r] = "framed"
=============================================================================
