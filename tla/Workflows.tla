------------------------------ MODULE Workflows ------------------------------
(***************************************************************************)
(* One workflow run: WorkflowEngine.start, resume, cancel and _execute     *)
(* (core/workflows/engine.py) over the workflow_runs and workflow_steps    *)
(* tables (store.py).                                                      *)
(*                                                                         *)
(* Every request of the operator (POST run, POST resume) executes the      *)
(* workflow inline, from the current_step and checkpoint it read to an     *)
(* approval gate, a failure or the end.  A step is what a request does     *)
(* between two awaits, here between two SQLite statements.                 *)
(***************************************************************************)
EXTENDS Naturals, FiniteSets

CONSTANTS
  Request,    \* bound: the requests the operator makes
  N,          \* the manifest's steps are 0 .. N - 1
  Kind,       \* their kinds
  Reachable   \* kinds whose target the engine reaches, see RunStep

Step == 0 .. N - 1

ASSUME WorkflowAssumptions ==
  /\ N \in Nat \ {0}
  /\ Kind \in [Step -> {"tool", "agent", "approval", "note"}]
  /\ Reachable \subseteq {"tool", "agent", "note"}

VARIABLES
  onFailure,   \* the manifest's failure_behavior
  status,      \* workflow_runs.status
  current,     \* workflow_runs.current_step
  checkpoint,  \* workflow_runs.checkpoint_json: the steps it has an entry for
  stepRow,     \* the status of a step's latest row in workflow_steps
  pc,          \* where a request is
  idx,         \* the step it is at
  ckpt,        \* its own copy of the checkpoint
  did,         \* history: who has run a step's tool, agent or note
  cleared,     \* history: gates behind which a resume has started
  overlapped,  \* history: whether two requests ever executed at once
  lost         \* history: whether an execution was cut off

row == <<status, current, checkpoint>>
mine == <<idx, ckpt>>
history == <<did, cleared, overlapped, lost>>
vars == <<onFailure, row, stepRow, pc, mine, history>>

Gate == {i \in Step : Kind[i] = "approval"}

Executing ==
  {"marking", "head", "adding", "acting", "pausing", "parking", "done", "failed",
   "failing"}

TypeOK ==
  /\ onFailure \in {"stop", "continue", "retry"}
  /\ status \in {"none", "pending", "running", "paused", "completed", "failed",
                 "cancelled"}
  /\ current \in 0 .. N
  /\ checkpoint \subseteq Step
  /\ stepRow \in [Step -> {"none", "running", "awaiting_approval", "done", "failed"}]
  /\ pc \in [Request -> {"unborn", "gone"} \cup Executing]
  /\ idx \in [Request -> 0 .. N]
  /\ ckpt \in [Request -> SUBSET Step]
  /\ did \in [Step -> SUBSET Request]
  /\ cleared \subseteq Gate
  /\ overlapped \in BOOLEAN /\ lost \in BOOLEAN

Init ==
  /\ onFailure \in {"stop", "continue", "retry"}
  /\ status = "none" /\ current = 0 /\ checkpoint = {}
  /\ stepRow = [i \in Step |-> "none"]
  /\ pc = [r \in Request |-> "unborn"]
  /\ idx = [r \in Request |-> 0]
  /\ ckpt = [r \in Request |-> {}]
  /\ did = [i \in Step |-> {}]
  /\ cleared = {} /\ overlapped = FALSE /\ lost = FALSE

Goto(r, place) == pc' = [pc EXCEPT ![r] = place]

\* The requests rs end, and their locals with them.
End(rs) ==
  /\ pc' = [r \in Request |-> IF r \in rs THEN "gone" ELSE pc[r]]
  /\ idx' = [r \in Request |-> IF r \in rs THEN 0 ELSE idx[r]]
  /\ ckpt' = [r \in Request |-> IF r \in rs THEN {} ELSE ckpt[r]]

\* r executes from step i with what the checkpoint holds.
Enter(r, i, entries) ==
  /\ Goto(r, "marking")
  /\ idx' = [idx EXCEPT ![r] = i]
  /\ ckpt' = [ckpt EXCEPT ![r] = entries]
  /\ overlapped' = (overlapped \/ \E q \in Request : pc[q] \in Executing)
-----------------------------------------------------------------------------
\* start: the row is created 'pending'.
Start(r) ==
  /\ pc[r] = "unborn"
  /\ status = "none"
  /\ status' = "pending"
  /\ Enter(r, 0, {})
  /\ UNCHANGED <<onFailure, current, checkpoint, stepRow, did, cleared, lost>>

ResumeFrom(r, statuses) ==
  /\ pc[r] = "unborn"
  /\ status # "none"
  /\ IF status \in statuses
       THEN /\ Enter(r, current, checkpoint)
            /\ cleared' = cleared \cup {g \in Gate : g + 1 = current}
       ELSE End({r}) /\ UNCHANGED <<cleared, overlapped>>
  /\ UNCHANGED <<onFailure, row, stepRow, did, lost>>

\* Faulty variant: a run that is marked running may be resumed too.
ResumeRunning(r) == ResumeFrom(r, {"paused", "pending", "running"})

\* resume reads the row and refuses every status but two; it writes later.
Resume(r) == ResumeFrom(r, {"paused", "pending"})

MarkRunning(r) ==
  /\ pc[r] = "marking"
  /\ status' = "running"
  /\ Goto(r, "head")
  /\ UNCHANGED <<onFailure, current, checkpoint, stepRow, mine, history>>

\* cancel: whatever the status is; nobody reads it between two steps.
Cancel ==
  /\ status # "none"
  /\ status' = "cancelled"
  /\ UNCHANGED <<onFailure, current, checkpoint, stepRow, pc, mine, history>>

-----------------------------------------------------------------------------
\* The head of the loop: the position and what was done before it, in one UPDATE.
Head(r) ==
  /\ pc[r] = "head"
  /\ idx[r] \in Step
  /\ current' = idx[r]
  /\ checkpoint' = ckpt[r]
  /\ Goto(r, "adding")
  /\ UNCHANGED <<onFailure, status, stepRow, mine, history>>

AddStep(r) ==
  /\ pc[r] = "adding"
  /\ stepRow' = [stepRow EXCEPT ![idx[r]] = "running"]
  /\ Goto(r, IF idx[r] \in Gate THEN "pausing" ELSE "acting")
  /\ UNCHANGED <<onFailure, row, mine, history>>

\* A tool, an agent or a note.  The daemon builds the engine with a gateway that
\* has no `run' and without an orchestrator, so that tool and agent steps fail
\* before they do anything.  An agent run that fails may have had its effects.
RunStep(r) ==
  /\ pc[r] = "acting"
  /\ \E ok, effect \in BOOLEAN :
       /\ ok => effect
       /\ effect => Kind[idx[r]] \in Reachable
       /\ did' = [did EXCEPT ![idx[r]] = IF effect THEN @ \cup {r} ELSE @]
       /\ Goto(r, IF ok THEN "done" ELSE "failed")
  /\ UNCHANGED <<onFailure, row, stepRow, mine, cleared, overlapped, lost>>

Proceed(r, entries) ==
  /\ Goto(r, "head")
  /\ idx' = [idx EXCEPT ![r] = @ + 1]
  /\ ckpt' = [ckpt EXCEPT ![r] = entries]

StepDone(r) ==
  /\ pc[r] = "done"
  /\ stepRow' = [stepRow EXCEPT ![idx[r]] = "done"]
  /\ Proceed(r, ckpt[r] \cup {idx[r]})
  /\ UNCHANGED <<onFailure, row, history>>

\* Faulty variant: a failed step leaves no entry in the checkpoint.
StepFailedForgets(r) ==
  /\ pc[r] = "failed"
  /\ stepRow' = [stepRow EXCEPT ![idx[r]] = "failed"]
  /\ IF onFailure = "continue" THEN Proceed(r, ckpt[r])
                               ELSE Goto(r, "failing") /\ UNCHANGED mine
  /\ UNCHANGED <<onFailure, row, history>>

\* 'retry' is accepted in a manifest and means 'stop'.
StepFailed(r) ==
  /\ pc[r] = "failed"
  /\ stepRow' = [stepRow EXCEPT ![idx[r]] = "failed"]
  /\ IF onFailure = "continue" THEN Proceed(r, ckpt[r] \cup {idx[r]})
                               ELSE Goto(r, "failing") /\ UNCHANGED mine
  /\ UNCHANGED <<onFailure, row, history>>

\* Faulty variant: the gate's step is taken for an ordinary one.
AwaitPassesOn(r) ==
  /\ pc[r] = "pausing"
  /\ stepRow' = [stepRow EXCEPT ![idx[r]] = "awaiting_approval"]
  /\ Proceed(r, ckpt[r])
  /\ UNCHANGED <<onFailure, row, history>>

AwaitApproval(r) ==
  /\ pc[r] = "pausing"
  /\ stepRow' = [stepRow EXCEPT ![idx[r]] = "awaiting_approval"]
  /\ Goto(r, "parking")
  /\ UNCHANGED <<onFailure, row, mine, history>>

\* Faulty variant: the position is stored and the status is not.
PauseSilently(r) ==
  /\ pc[r] = "parking"
  /\ current' = idx[r] + 1
  /\ checkpoint' = ckpt[r]
  /\ End({r})
  /\ UNCHANGED <<onFailure, status, stepRow, history>>

\* The run parks behind its gate: to resume it is to approve it.
Pause(r) ==
  /\ pc[r] = "parking"
  /\ status' = "paused"
  /\ current' = idx[r] + 1
  /\ checkpoint' = ckpt[r]
  /\ End({r})
  /\ UNCHANGED <<onFailure, stepRow, history>>

FailRun(r) ==
  /\ pc[r] = "failing"
  /\ status' = "failed"
  /\ End({r})
  /\ UNCHANGED <<onFailure, current, checkpoint, stepRow, history>>

\* Faulty variant: the last step's entry is not stored.
CompleteUnsaved(r) ==
  /\ pc[r] = "head"
  /\ idx[r] = N
  /\ status' = "completed"
  /\ End({r})
  /\ UNCHANGED <<onFailure, current, checkpoint, stepRow, history>>

Complete(r) ==
  /\ pc[r] = "head"
  /\ idx[r] = N
  /\ status' = "completed"
  /\ checkpoint' = ckpt[r]
  /\ End({r})
  /\ UNCHANGED <<onFailure, current, stepRow, history>>

\* A statement raises (or an output has no JSON): the request ends as it is.
Raise(r) ==
  /\ pc[r] \in Executing
  /\ End({r})
  /\ lost' = TRUE
  /\ UNCHANGED <<onFailure, row, stepRow, did, cleared, overlapped>>

\* The daemon dies.  Nothing at boot looks at runs that were under way.
Crash ==
  /\ \E r \in Request : pc[r] \in Executing
  /\ End({r \in Request : pc[r] \in Executing})
  /\ lost' = TRUE
  /\ UNCHANGED <<onFailure, row, stepRow, did, cleared, overlapped>>
-----------------------------------------------------------------------------
Execute(r) ==
  \/ MarkRunning(r) \/ Head(r) \/ AddStep(r) \/ RunStep(r)
  \/ StepDone(r) \/ StepFailed(r) \/ AwaitApproval(r) \/ Pause(r)
  \/ FailRun(r) \/ Complete(r)

Next ==
  \/ \E r \in Request : Start(r) \/ Resume(r) \/ Execute(r) \/ Raise(r)
  \/ Cancel \/ Crash

Spec == Init /\ [][Next]_vars

\* A request that is being executed goes on: its tools and statements end.
FairSpec == Spec /\ \A r \in Request : WF_vars(Execute(r))
-----------------------------------------------------------------------------
\* Whoever interleaves, the row is a position and a checkpoint that belong
\* together: every step before the position has its entry (_execute writes both
\* in one UPDATE), so that a resume never renders a later step without it.
CheckpointCovers == \A i \in Step \ Gate : i < current => i \in checkpoint

\* A step behind an approval gate is run only after a resume that found the run
\* parked behind that gate.
GateHeld == \A i \in Step, g \in Gate : did[i] # {} /\ g < i => g \in cleared

\* Pauses, failures, crashes and resumes never run a step a second time, unless
\* two requests execute the run at once.
StepOnce == ~overlapped => \A i \in Step : Cardinality(did[i]) <= 1

\* A completed run has an entry and a closed row for every step that is no gate.
CompletedIsWhole ==
  status = "completed" /\ ~overlapped =>
    \A i \in Step \ Gate : i \in checkpoint /\ stepRow[i] \in {"done", "failed"}

\* A run leaves 'running' again, unless an execution of it was cut off.
RunSettles == (status = "running") ~> (status # "running" \/ lost)

\* engine.py: "the engine checks for a pause/cancel request between steps".
CancelStops ==
  [][status = "cancelled" =>
       \A r \in Request : pc[r] = "head" => pc'[r] # "adding"]_vars
=============================================================================
