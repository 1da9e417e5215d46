--------------------------- MODULE WorkflowsProofs ---------------------------
(***************************************************************************)
(* Proofs about Workflows, for every manifest and any number of requests.  *)
(*                                                                         *)
(* TypeOK is inductive.  The other invariants are not: what a later        *)
(* request finds in the row depends on what the requests under way hold,   *)
(* which Carried says, and on where the last one left the row, which       *)
(* Parked and Alone say.                                                   *)
(***************************************************************************)
EXTENDS Workflows, FiniteSetTheorems, TLAPS

Busy(r) == pc[r] \in Executing

\* Where a request is says what kind of step it is at.
Placed ==
  \A r \in Request :
    /\ pc[r] \in {"adding", "failing"} => idx[r] \in Step
    /\ pc[r] \in {"acting", "done", "failed"} => idx[r] \in Step \ Gate
    /\ pc[r] \in {"pausing", "parking"} => idx[r] \in Gate

\* A request carries an entry for every step, and a resume for every gate,
\* before its own position.
Carried ==
  \A r \in Request : Busy(r) =>
    /\ \A i \in Step \ Gate : i < idx[r] => i \in ckpt[r]
    /\ \A g \in Gate : g < idx[r] => g \in cleared

\* All gates before the row's position are cleared but the one it is parked at.
Parked == \A g \in Gate : g + 1 < current => g \in cleared

\* One request executes at a time; nothing at or behind its position, or that of
\* a row that may be resumed, has been done.
Apart ==
  /\ \A q, r \in Request : Busy(q) /\ Busy(r) => q = r
  /\ \A r \in Request : Busy(r) /\ pc[r] # "marking" =>
       status \notin {"none", "paused", "pending"}
  /\ \A r \in Request : Busy(r) => \A i \in Step : did[i] # {} =>
       \/ i < idx[r]
       \/ i = idx[r] /\ pc[r] \in {"done", "failed", "failing"}
  /\ status \in {"paused", "pending"} => \A i \in Step : did[i] # {} => i < current
  /\ status = "none" => \A i \in Step : did[i] = {}

Alone == ~overlapped => Apart

Safe == Placed /\ Carried /\ Parked /\ CheckpointCovers /\ GateHeld

-----------------------------------------------------------------------------
LEMMA Constants == /\ N \in Nat
                   /\ Gate \subseteq Step
                   /\ Step \subseteq 0 .. N
                   /\ \A i \in Step : i \in Nat /\ i + 1 \in 0 .. N
BY WorkflowAssumptions DEF Gate, Step

LEMMA Below == \A m, n \in Nat : m < n + 1 /\ m # n => m < n
OBVIOUS

(***************************************************************************)
(* Type correctness.                                                       *)
(***************************************************************************)
\* What a request's own moves do to its place and its locals.
LEMMA MoveType ==
  ASSUME TypeOK, NEW r \in Request,
         NEW place \in {"unborn", "gone"} \cup Executing, Goto(r, place)
  PROVE  pc' \in [Request -> {"unborn", "gone"} \cup Executing]
BY DEF TypeOK, Goto

LEMMA EndType ==
  ASSUME TypeOK, NEW rs \in SUBSET Request, End(rs)
  PROVE  /\ pc' \in [Request -> {"unborn", "gone"} \cup Executing]
         /\ idx' \in [Request -> 0 .. N]
         /\ ckpt' \in [Request -> SUBSET Step]
BY Constants DEF TypeOK, End

LEMMA ProceedType ==
  ASSUME TypeOK, NEW r \in Request, idx[r] \in Step,
         NEW entries \in SUBSET Step, Proceed(r, entries)
  PROVE  idx' \in [Request -> 0 .. N] /\ ckpt' \in [Request -> SUBSET Step]
<1>1. idx' \in [Request -> 0 .. N]
  BY Constants DEF TypeOK, Proceed
<1>2. ckpt' \in [Request -> SUBSET Step]
  BY DEF TypeOK, Proceed
<1> QED BY <1>1, <1>2

LEMMA TypeInit == Init => TypeOK
<1> SUFFICES ASSUME Init PROVE TypeOK
  OBVIOUS
<1>1. /\ current \in 0 .. N
      /\ idx \in [Request -> 0 .. N]
  BY Constants DEF Init
<1>2. /\ checkpoint \subseteq Step
      /\ cleared \subseteq Gate
      /\ ckpt \in [Request -> SUBSET Step]
      /\ did \in [Step -> SUBSET Request]
  BY DEF Init
<1>3. /\ status \in {"none", "pending", "running", "paused", "completed", "failed",
                     "cancelled"}
      /\ stepRow \in [Step -> {"none", "running", "awaiting_approval", "done", "failed"}]
      /\ pc \in [Request -> {"unborn", "gone"} \cup Executing]
      /\ onFailure \in {"stop", "continue", "retry"}
      /\ overlapped \in BOOLEAN /\ lost \in BOOLEAN
  BY DEF Init
<1> QED BY <1>1, <1>2, <1>3 DEF TypeOK

\* Every step keeps the types.
LEMMA TypeStep == TypeOK /\ Placed /\ [Next]_vars => TypeOK'
<1> SUFFICES ASSUME TypeOK, Placed, [Next]_vars PROVE TypeOK'
  OBVIOUS
<1> USE Constants
<1>1. ASSUME NEW r \in Request, Start(r) PROVE TypeOK'
  <2>1. pc' \in [Request -> {"unborn", "gone"} \cup Executing]
    BY <1>1, MoveType DEF Start, Enter, Executing
  <2>2. /\ idx' \in [Request -> 0 .. N]
        /\ ckpt' \in [Request -> SUBSET Step]
        /\ overlapped' \in BOOLEAN
    BY <1>1 DEF Start, Enter, TypeOK
  <2> QED BY <1>1, <2>1, <2>2 DEF Start, TypeOK
<1>2. ASSUME NEW r \in Request, Resume(r) PROVE TypeOK'
  <2>1. CASE status \in {"paused", "pending"}
    <3>1. pc' \in [Request -> {"unborn", "gone"} \cup Executing]
      BY <1>2, <2>1, MoveType DEF Resume, ResumeFrom, Enter, Executing
    <3> QED BY ZenonT(30), <1>2, <2>1, <3>1 DEF Resume, ResumeFrom, Enter, TypeOK, row
  <2>2. CASE status \notin {"paused", "pending"}
    BY <1>2, <2>2, EndType DEF Resume, ResumeFrom, TypeOK, row
  <2> QED BY <2>1, <2>2
<1>3. ASSUME NEW r \in Request, Execute(r) PROVE TypeOK'
  <2>1. CASE MarkRunning(r)
    BY <2>1, MoveType DEF MarkRunning, TypeOK, Executing, mine, history
  <2>2. CASE Head(r)
    BY <2>2, MoveType DEF Head, TypeOK, Executing, mine, history
  <2>3. CASE AddStep(r)
    BY <2>3, MoveType DEF AddStep, TypeOK, Executing, row, mine, history
  <2>4. CASE RunStep(r)
    <3>1. pc' \in [Request -> {"unborn", "gone"} \cup Executing]
      BY <2>4, MoveType DEF RunStep, Executing
    <3>2. did' \in [Step -> SUBSET Request]
      <4>1. PICK effect \in BOOLEAN :
              did' = [did EXCEPT ![idx[r]] = IF effect THEN @ \cup {r} ELSE @]
        BY <2>4 DEF RunStep
      <4>2. CASE effect
        BY <4>1, <4>2 DEF TypeOK
      <4>3. CASE ~effect
        BY <4>1, <4>3 DEF TypeOK
      <4> QED BY <4>2, <4>3
    <3> QED BY <2>4, <3>1, <3>2 DEF RunStep, TypeOK, row, mine
  <2>5. CASE StepDone(r)
    <3>1. pc' \in [Request -> {"unborn", "gone"} \cup Executing]
      BY <2>5, MoveType DEF StepDone, Proceed, Executing
    <3>2. idx[r] \in Step
      BY <2>5 DEF StepDone, Placed
    <3>3. stepRow' \in [Step -> {"none", "running", "awaiting_approval", "done", "failed"}]
      BY <2>5 DEF StepDone, TypeOK
    <3>4. idx' \in [Request -> 0 .. N] /\ ckpt' \in [Request -> SUBSET Step]
      BY <2>5, <3>2, ProceedType DEF StepDone, TypeOK
    <3> QED BY <2>5, <3>1, <3>3, <3>4 DEF StepDone, TypeOK, row, history
  <2>6. CASE StepFailed(r)
    <3>1. pc' \in [Request -> {"unborn", "gone"} \cup Executing]
      BY <2>6, MoveType DEF StepFailed, Proceed, Executing
    <3>2. idx[r] \in Step
      BY <2>6 DEF StepFailed, Placed
    <3>3. stepRow' \in [Step -> {"none", "running", "awaiting_approval", "done", "failed"}]
      BY <2>6 DEF StepFailed, TypeOK
    <3>4. idx' \in [Request -> 0 .. N] /\ ckpt' \in [Request -> SUBSET Step]
      BY <2>6, <3>2, ProceedType DEF StepFailed, TypeOK, mine
    <3> QED BY <2>6, <3>1, <3>3, <3>4 DEF StepFailed, TypeOK, row, history
  <2>7. CASE AwaitApproval(r)
    BY <2>7, MoveType DEF AwaitApproval, TypeOK, Executing, row, mine, history
  <2>8. CASE Pause(r)
    <3>1. idx[r] \in Step
      BY <2>8 DEF Pause, Placed
    <3> QED BY <2>8, <3>1, EndType DEF Pause, TypeOK, history
  <2>9. CASE FailRun(r)
    BY <2>9, EndType DEF FailRun, TypeOK, history
  <2>10. CASE Complete(r)
    BY <2>10, EndType DEF Complete, TypeOK, history
  <2> QED BY <1>3, <2>1, <2>2, <2>3, <2>4, <2>5, <2>6, <2>7, <2>8, <2>9, <2>10
          DEF Execute
<1>4. ASSUME NEW r \in Request, Raise(r) PROVE TypeOK'
  BY <1>4, EndType DEF Raise, TypeOK, row
<1>5. CASE Cancel
  BY <1>5 DEF Cancel, TypeOK, mine, history
<1>6. CASE Crash
  BY <1>6, EndType DEF Crash, TypeOK, row
<1>7. CASE UNCHANGED vars
  BY <1>7 DEF vars, row, mine, history, TypeOK
<1> QED BY <1>1, <1>2, <1>3, <1>4, <1>5, <1>6, <1>7 DEF Next

-----------------------------------------------------------------------------
(***************************************************************************)
(* The checkpoint and the gates.                                           *)
(***************************************************************************)
LEMMA SafeInit == Init => Safe
<1> SUFFICES ASSUME Init PROVE Safe
  OBVIOUS
<1> USE Constants DEF Init
<1>1. Placed
  BY DEF Placed
<1>2. Carried
  BY DEF Carried, Busy, Executing
<1>3. Parked /\ CheckpointCovers
  BY DEF Parked, CheckpointCovers
<1>4. GateHeld
  BY DEF GateHeld
<1> QED BY <1>1, <1>2, <1>3, <1>4 DEF Safe

LEMMA EndSafe ==
  ASSUME TypeOK, Safe, NEW rs \in SUBSET Request, End(rs), cleared' = cleared
  PROVE  Placed' /\ Carried'
<1>1. \A q \in Request : \/ pc'[q] = "gone"
                         \/ pc'[q] = pc[q] /\ idx'[q] = idx[q] /\ ckpt'[q] = ckpt[q]
  BY DEF End
<1>2. Placed'
  BY <1>1 DEF Placed, Safe
<1>3. Carried'
  BY <1>1 DEF Carried, Safe, Busy, Executing
<1> QED BY <1>2, <1>3

\* Going on to the next step with an entry for this one.
LEMMA ProceedSafe ==
  ASSUME TypeOK, Safe, NEW r \in Request, pc[r] \in Executing, idx[r] \in Step \ Gate,
         Proceed(r, ckpt[r] \cup {idx[r]}), cleared' = cleared
  PROVE  Placed' /\ Carried'
<1> USE Constants
<1>1. Placed'
  BY DEF Proceed, Goto, Safe, Placed, TypeOK
<1>2. Carried'
  <2> SUFFICES ASSUME NEW q \in Request, Busy(q)'
               PROVE  /\ \A i \in Step \ Gate : i < idx'[q] => i \in ckpt'[q]
                      /\ \A g \in Gate : g < idx'[q] => g \in cleared'
    BY DEF Carried
  <2>1. CASE q = r
    <3>1. idx'[q] = idx[r] + 1 /\ ckpt'[q] = ckpt[r] \cup {idx[r]}
      BY <2>1 DEF Proceed, TypeOK
    <3>2. ASSUME NEW i \in Step, i < idx[r] + 1, i # idx[r] PROVE i < idx[r]
      <4>1. i \in Nat /\ idx[r] \in Nat
        OBVIOUS
      <4> QED BY <3>2, <4>1, Below
    <3>3. /\ \A i \in Step \ Gate : i < idx[r] => i \in ckpt[r]
          /\ \A g \in Gate : g < idx[r] => g \in cleared
      BY DEF Safe, Carried, Busy
    <3> QED BY <3>1, <3>2, <3>3
  <2>2. CASE q # r
    BY <2>2 DEF Proceed, Goto, Safe, Carried, Busy, TypeOK
  <2> QED BY <2>1, <2>2
<1> QED BY <1>1, <1>2

LEMMA SafeStep == TypeOK /\ Safe /\ [Next]_vars => Safe'
<1> SUFFICES ASSUME TypeOK, Safe, [Next]_vars PROVE Safe'
  OBVIOUS
<1> USE Constants
<1>1. ASSUME NEW r \in Request, Start(r) PROVE Safe'
  <2>1. Placed'
    BY <1>1 DEF Start, Enter, Goto, Safe, Placed, TypeOK
  <2>2. Carried'
    BY <1>1 DEF Start, Enter, Goto, Safe, Carried, Busy, TypeOK
  <2> QED BY <1>1, <2>1, <2>2 DEF Start, Safe, Parked, CheckpointCovers, GateHeld
<1>2. ASSUME NEW r \in Request, Resume(r) PROVE Safe'
  <2>1. CASE status \in {"paused", "pending"}
    <3>1. cleared' = cleared \cup {g \in Gate : g + 1 = current} /\ Enter(r, current, checkpoint)
      BY <1>2, <2>1 DEF Resume, ResumeFrom
    <3>2. Placed'
      BY <3>1 DEF Enter, Goto, Safe, Placed, TypeOK
    <3>3. Carried'
      <4> SUFFICES ASSUME NEW q \in Request, Busy(q)'
                   PROVE  /\ \A i \in Step \ Gate : i < idx'[q] => i \in ckpt'[q]
                          /\ \A g \in Gate : g < idx'[q] => g \in cleared'
        BY DEF Carried
      <4>1. CASE q = r
        <5>1. idx'[q] = current /\ ckpt'[q] = checkpoint
          BY <3>1, <4>1 DEF Enter, TypeOK
        <5>2. ASSUME NEW g \in Gate, g < current PROVE g \in cleared'
          BY <3>1, <5>2 DEF Safe, Parked, TypeOK
        <5> QED BY <5>1, <5>2 DEF Safe, CheckpointCovers
      <4>2. CASE q # r
        BY <3>1, <4>2 DEF Enter, Goto, Safe, Carried, Busy, TypeOK
      <4> QED BY <4>1, <4>2
    <3> QED BY <1>2, <3>1, <3>2, <3>3
            DEF Resume, ResumeFrom, Safe, Parked, CheckpointCovers, GateHeld, row
  <2>2. CASE status \notin {"paused", "pending"}
    <3>1. End({r}) /\ cleared' = cleared
      BY <1>2, <2>2 DEF Resume, ResumeFrom
    <3> QED BY <1>2, <3>1, EndSafe
            DEF Resume, ResumeFrom, Safe, Parked, CheckpointCovers, GateHeld, row
  <2> QED BY <2>1, <2>2
<1>3. ASSUME NEW r \in Request, Execute(r) PROVE Safe'
  <2>1. CASE MarkRunning(r)
    BY <2>1 DEF MarkRunning, Goto, Safe, Placed, Carried, Parked, CheckpointCovers,
                GateHeld, Busy, Executing, TypeOK, mine, history
  <2>2. CASE Head(r)
    <3>1. Placed' /\ Carried'
      BY <2>2 DEF Head, Goto, Safe, Placed, Carried, Busy, Executing, TypeOK, mine, history
    <3>2. Parked' /\ CheckpointCovers'
      BY <2>2 DEF Head, Safe, Carried, Parked, CheckpointCovers, Busy, Executing, TypeOK,
                  history
    <3> QED BY <2>2, <3>1, <3>2 DEF Head, Safe, GateHeld, history
  <2>3. CASE AddStep(r)
    <3>1. Placed' /\ Carried'
      BY <2>3 DEF AddStep, Goto, Safe, Placed, Carried, Busy, Executing, TypeOK, mine,
                  history
    <3> QED BY <2>3, <3>1 DEF AddStep, Safe, Parked, CheckpointCovers, GateHeld, row,
                              history
  <2>4. CASE RunStep(r)
    <3>1. PICK ok \in BOOLEAN, effect \in BOOLEAN :
            /\ did' = [did EXCEPT ![idx[r]] = IF effect THEN @ \cup {r} ELSE @]
            /\ Goto(r, IF ok THEN "done" ELSE "failed")
      BY <2>4 DEF RunStep
    <3>2. pc[r] = "acting" /\ idx[r] \in Step /\ UNCHANGED <<idx, ckpt, cleared>>
      BY <2>4 DEF RunStep, Safe, Placed, mine
    <3>3. Placed' /\ Carried'
      BY <3>1, <3>2 DEF Goto, Safe, Placed, Carried, Busy, Executing, TypeOK
    <3>4. GateHeld'
      <4> SUFFICES ASSUME NEW i \in Step, NEW g \in Gate, did'[i] # {}, g < i
                   PROVE  g \in cleared
        BY <3>2 DEF GateHeld
      <4>1. CASE i = idx[r]
        BY <3>2, <4>1 DEF Safe, Carried, Busy, Executing
      <4>2. CASE i # idx[r]
        BY <3>1, <4>2 DEF Safe, GateHeld, TypeOK
      <4> QED BY <4>1, <4>2
    <3> QED BY <2>4, <3>3, <3>4 DEF RunStep, Safe, Parked, CheckpointCovers, row
  <2>5. CASE StepDone(r)
    <3>1. pc[r] = "done" /\ idx[r] \in Step \ Gate /\ Proceed(r, ckpt[r] \cup {idx[r]})
      BY <2>5 DEF StepDone, Safe, Placed
    <3>2. cleared' = cleared
      BY <2>5 DEF StepDone, history
    <3> QED BY <2>5, <3>1, <3>2, ProceedSafe
            DEF StepDone, Executing, Safe, Parked, CheckpointCovers, GateHeld, row, history
  <2>6. CASE StepFailed(r)
    <3>1. CASE onFailure = "continue"
      <4>1. pc[r] = "failed" /\ idx[r] \in Step \ Gate /\ Proceed(r, ckpt[r] \cup {idx[r]})
        BY <2>6, <3>1 DEF StepFailed, Safe, Placed
      <4>2. cleared' = cleared
        BY <2>6 DEF StepFailed, history
      <4> QED BY <2>6, <4>1, <4>2, ProceedSafe
              DEF StepFailed, Executing, Safe, Parked, CheckpointCovers, GateHeld, row,
                  history
    <3>2. CASE onFailure # "continue"
      BY <2>6, <3>2 DEF StepFailed, Goto, Safe, Placed, Carried, Parked,
         CheckpointCovers, GateHeld, Busy, Executing, TypeOK, row, mine, history
    <3> QED BY <3>1, <3>2
  <2>7. CASE AwaitApproval(r)
    <3>1. Placed' /\ Carried'
      BY <2>7 DEF AwaitApproval, Goto, Safe, Placed, Carried, Busy, Executing, TypeOK,
                  mine, history
    <3> QED BY <2>7, <3>1 DEF AwaitApproval, Safe, Parked, CheckpointCovers, GateHeld,
                              row, history
  <2>8. CASE Pause(r)
    <3>1. pc[r] = "parking" /\ idx[r] \in Gate /\ current' = idx[r] + 1
          /\ checkpoint' = ckpt[r] /\ End({r}) /\ cleared' = cleared /\ did' = did
      BY <2>8 DEF Pause, Safe, Placed, history
    <3>2. Placed' /\ Carried'
      BY <3>1, EndSafe
    <3>3. /\ \A i \in Step \ Gate : i < idx[r] => i \in ckpt[r]
          /\ \A g \in Gate : g < idx[r] => g \in cleared
      BY <3>1 DEF Safe, Carried, Busy, Executing
    <3>4. ASSUME NEW i \in Step, i < idx[r] + 1, i # idx[r] PROVE i < idx[r]
      <4>1. i \in Nat /\ idx[r] \in Nat
        BY <3>1
      <4> QED BY <3>4, <4>1, Below
    <3>5. CheckpointCovers'
      BY <3>1, <3>3, <3>4 DEF CheckpointCovers
    <3>6. Parked'
      <4> SUFFICES ASSUME NEW g \in Gate, g + 1 < current' PROVE g \in cleared'
        BY DEF Parked
      <4>1. g \in Nat /\ idx[r] \in Nat
        BY <3>1
      <4>2. g < idx[r]
        BY <3>1, <4>1
      <4> QED BY <3>1, <3>3, <4>2
    <3> QED BY <3>1, <3>2, <3>5, <3>6 DEF Safe, GateHeld
  <2>9. CASE FailRun(r)
    BY <2>9, EndSafe DEF FailRun, Safe, Parked, CheckpointCovers, GateHeld, history
  <2>10. CASE Complete(r)
    <3>1. pc[r] = "head" /\ idx[r] = N /\ current' = current
          /\ checkpoint' = ckpt[r] /\ End({r}) /\ cleared' = cleared /\ did' = did
      BY <2>10 DEF Complete, history
    <3>2. Placed' /\ Carried'
      BY <3>1, EndSafe
    <3>3. CheckpointCovers'
      BY <3>1 DEF Safe, Carried, CheckpointCovers, Busy, Executing, Step
    <3> QED BY <3>1, <3>2, <3>3 DEF Safe, Parked, GateHeld
  <2> QED BY <1>3, <2>1, <2>2, <2>3, <2>4, <2>5, <2>6, <2>7, <2>8, <2>9, <2>10
          DEF Execute
<1>4. ASSUME NEW r \in Request, Raise(r) PROVE Safe'
  BY <1>4, EndSafe DEF Raise, Safe, Parked, CheckpointCovers, GateHeld, row
<1>5. CASE Cancel
  BY <1>5 DEF Cancel, Safe, Placed, Carried, Parked, CheckpointCovers, GateHeld, Busy,
              mine, history
<1>6. CASE Crash
  BY <1>6, EndSafe DEF Crash, Safe, Parked, CheckpointCovers, GateHeld, row
<1>7. CASE UNCHANGED vars
  BY <1>7 DEF vars, row, mine, history, Safe, Placed, Carried, Parked, CheckpointCovers,
              GateHeld, Busy
<1> QED BY <1>1, <1>2, <1>3, <1>4, <1>5, <1>6, <1>7 DEF Next

-----------------------------------------------------------------------------
(***************************************************************************)
(* At most once.                                                           *)
(***************************************************************************)
LEMMA AloneInit == Init => Alone /\ StepOnce
<1> SUFFICES ASSUME Init PROVE Alone /\ StepOnce
  OBVIOUS
<1>1. \A i \in Step : did[i] = {}
  BY DEF Init
<1>2. Apart
  BY <1>1 DEF Init, Apart, Busy, Executing
<1> QED BY <1>1, <1>2, FS_EmptySet DEF Alone, StepOnce

\* Requests that end, a status that may not be resumed.
LEMMA EndApart ==
  ASSUME Apart, NEW rs \in SUBSET Request, End(rs), did' = did, current' = current,
         \/ status' = status
         \/ status' \in {"completed", "failed", "cancelled"}
  PROVE  Apart'
<1>1. \A q \in Request : \/ pc'[q] = "gone"
                         \/ pc'[q] = pc[q] /\ idx'[q] = idx[q]
  BY DEF End
<1> QED BY <1>1 DEF Apart, Busy, Executing

\* A request that begins while nobody executes, where nothing has been done.
LEMMA EnterApart ==
  ASSUME TypeOK, NEW r \in Request, NEW from \in 0 .. N, NEW entries \in SUBSET Step,
         Enter(r, from, entries), ~overlapped', did' = did,
         \A i \in Step : did[i] # {} => i < from
  PROVE  /\ \A q \in Request : Busy(q)' => q = r
         /\ \A i \in Step : did'[i] # {} => i < idx'[r]
         /\ pc'[r] = "marking"
BY DEF Enter, Goto, Busy, TypeOK, Executing

LEMMA ProceedApart ==
  ASSUME TypeOK, Apart, NEW r \in Request, pc[r] \in Executing, pc[r] # "marking",
         idx[r] \in Step, NEW entries, Proceed(r, entries),
         UNCHANGED <<status, current, did>>
  PROVE  Apart'
<1>1. /\ pc'[r] = "head" /\ idx'[r] = idx[r] + 1
      /\ \A q \in Request \ {r} : pc'[q] = pc[q] /\ idx'[q] = idx[q]
  BY DEF Proceed, Goto, TypeOK
<1>2. ASSUME NEW i \in Step, did[i] # {} PROVE i < idx'[r]
  <2>1. i < idx[r] \/ i = idx[r]
    BY <1>2 DEF Apart, Busy
  <2>2. i \in Nat /\ idx[r] \in Nat
    BY Constants
  <2> QED BY <1>1, <2>1, <2>2
<1> QED BY <1>1, <1>2 DEF Apart, Busy, Executing

LEMMA AloneStep == TypeOK /\ Safe /\ Alone /\ [Next]_vars => Alone'
<1> SUFFICES ASSUME TypeOK, Safe, Alone, [Next]_vars, ~overlapped' PROVE Apart'
  BY DEF Alone
<1> USE Constants
<1>1. ASSUME NEW r \in Request, Start(r) PROVE Apart'
  <2>1. Apart /\ \A i \in Step : did[i] = {}
    BY <1>1 DEF Start, Enter, Alone, Apart, TypeOK
  <2>2. Enter(r, 0, {}) /\ did' = did /\ status' = "pending"
    BY <1>1 DEF Start
  <2>3. /\ \A q \in Request : Busy(q)' => q = r
        /\ \A i \in Step : did'[i] # {} => i < idx'[r]
        /\ pc'[r] = "marking"
    BY <2>1, <2>2, EnterApart
  <2> QED BY <2>1, <2>2, <2>3 DEF Apart
<1>2. ASSUME NEW r \in Request, Resume(r) PROVE Apart'
  <2>1. CASE status \in {"paused", "pending"}
    <3>1. Enter(r, current, checkpoint) /\ did' = did /\ status' = status /\ current' = current
      BY <1>2, <2>1 DEF Resume, ResumeFrom, row
    <3>2. Apart
      BY <3>1 DEF Enter, Alone, TypeOK
    <3>3. \A i \in Step : did[i] # {} => i < current
      BY <2>1, <3>2 DEF Apart
    <3>4. /\ \A q \in Request : Busy(q)' => q = r
          /\ \A i \in Step : did'[i] # {} => i < idx'[r]
          /\ pc'[r] = "marking"
      BY <3>1, <3>3, EnterApart DEF TypeOK
    <3> QED BY <2>1, <3>1, <3>3, <3>4 DEF Apart
  <2>2. CASE status \notin {"paused", "pending"}
    BY <1>2, <2>2, EndApart DEF Resume, ResumeFrom, row, Alone
  <2> QED BY <2>1, <2>2
<1>3. ASSUME NEW r \in Request, Execute(r) PROVE Apart'
  <2>0. overlapped' = overlapped
    BY <1>3 DEF Execute, MarkRunning, Head, AddStep, RunStep, StepDone, StepFailed,
                AwaitApproval, Pause, FailRun, Complete, history
  <2>a. Apart
    BY <2>0 DEF Alone
  <2>1. CASE MarkRunning(r)
    BY <2>1, <2>a DEF MarkRunning, Goto, Apart, Busy, Executing, TypeOK, mine, history
  <2>2. CASE Head(r)
    BY <2>2, <2>a DEF Head, Goto, Apart, Busy, Executing, TypeOK, mine, history
  <2>3. CASE AddStep(r)
    BY <2>3, <2>a DEF AddStep, Goto, Apart, Busy, Executing, TypeOK, row, mine, history
  <2>4. CASE RunStep(r)
    <3>1. PICK ok \in BOOLEAN, effect \in BOOLEAN :
            /\ did' = [did EXCEPT ![idx[r]] = IF effect THEN @ \cup {r} ELSE @]
            /\ Goto(r, IF ok THEN "done" ELSE "failed")
      BY <2>4 DEF RunStep
    <3>2. /\ pc[r] = "acting"
          /\ idx' = idx /\ status' = status /\ current' = current
      BY <2>4 DEF RunStep, mine, row
    <3>3. /\ pc'[r] \in {"done", "failed"}
          /\ \A q \in Request \ {r} : pc'[q] = pc[q]
      BY <3>1 DEF Goto, TypeOK
    <3>4. \A i \in Step : did'[i] # {} => did[i] # {} \/ i = idx[r]
      BY <3>1 DEF TypeOK
    <3>5. status \notin {"none", "paused", "pending"}
      BY <3>2, <2>a DEF Apart, Busy, Executing
    <3> QED BY <2>a, <3>2, <3>3, <3>4, <3>5 DEF Apart, Busy, Executing
  <2>5. CASE StepDone(r)
    <3>1. pc[r] = "done" /\ idx[r] \in Step /\ Proceed(r, ckpt[r] \cup {idx[r]})
          /\ UNCHANGED <<status, current, did>>
      BY <2>5 DEF StepDone, Safe, Placed, row, history
    <3> QED BY <2>a, <3>1, ProceedApart DEF Executing
  <2>6. CASE StepFailed(r)
    <3>1. CASE onFailure = "continue"
      <4>1. pc[r] = "failed" /\ idx[r] \in Step /\ Proceed(r, ckpt[r] \cup {idx[r]})
            /\ UNCHANGED <<status, current, did>>
        BY <2>6, <3>1 DEF StepFailed, Safe, Placed, row, history
      <4> QED BY <2>a, <4>1, ProceedApart DEF Executing
    <3>2. CASE onFailure # "continue"
      BY <2>6, <3>2, <2>a DEF StepFailed, Goto, Apart, Busy, Executing, TypeOK, row, mine,
                              history
    <3> QED BY <3>1, <3>2
  <2>7. CASE AwaitApproval(r)
    BY <2>7, <2>a DEF AwaitApproval, Goto, Apart, Busy, Executing, TypeOK, row, mine,
                      history
  <2>8. CASE Pause(r)
    <3>1. /\ pc[r] = "parking" /\ idx[r] \in Gate /\ current' = idx[r] + 1
          /\ status' = "paused" /\ End({r}) /\ did' = did
      BY <2>8 DEF Pause, Safe, Placed, history
    <3>2. \A q \in Request : ~Busy(q)'
      <4> SUFFICES ASSUME NEW q \in Request PROVE ~Busy(q)'
        OBVIOUS
      <4>1. CASE q = r
        BY <3>1, <4>1 DEF End, Busy, Executing
      <4>2. CASE q # r
        BY <2>a, <3>1, <4>2 DEF End, Apart, Busy, Executing
      <4> QED BY <4>1, <4>2
    <3>3. \A i \in Step : did[i] # {} => i < idx[r]
      BY <2>a, <3>1 DEF Apart, Busy, Executing
    <3>4. \A i \in Step : did'[i] # {} => i < current'
      <4> SUFFICES ASSUME NEW i \in Step, did[i] # {} PROVE i < idx[r] + 1
        BY <3>1
      <4>1. i \in Nat /\ idx[r] \in Nat /\ i < idx[r]
        BY <3>1, <3>3
      <4> QED BY <4>1
    <3> QED BY <3>1, <3>2, <3>4 DEF Apart
  <2>9. CASE FailRun(r)
    BY <2>9, <2>a, EndApart DEF FailRun, history
  <2>10. CASE Complete(r)
    BY <2>10, <2>a, EndApart DEF Complete, history
  <2> QED BY <1>3, <2>1, <2>2, <2>3, <2>4, <2>5, <2>6, <2>7, <2>8, <2>9, <2>10
          DEF Execute
<1>4. ASSUME NEW r \in Request, Raise(r) PROVE Apart'
  BY <1>4, EndApart DEF Raise, row, Alone
<1>5. CASE Cancel
  BY <1>5 DEF Cancel, Alone, Apart, Busy, mine, history
<1>6. CASE Crash
  BY <1>6, EndApart DEF Crash, row, Alone
<1>7. CASE UNCHANGED vars
  BY <1>7 DEF vars, row, mine, history, Alone, Apart, Busy
<1> QED BY <1>1, <1>2, <1>3, <1>4, <1>5, <1>6, <1>7 DEF Next

\* Where a request stands at a step, nobody has done it before.
LEMMA OnceStep == TypeOK /\ Safe /\ Alone /\ StepOnce /\ [Next]_vars => StepOnce'
<1> SUFFICES ASSUME TypeOK, Safe, Alone, StepOnce, [Next]_vars, ~overlapped',
                    NEW i \in Step
             PROVE  Cardinality(did'[i]) <= 1
  BY DEF StepOnce
<1>1. ~overlapped
  BY DEF Next, Start, Resume, ResumeFrom, Enter, Execute, MarkRunning, Head, AddStep,
         RunStep, StepDone, StepFailed, AwaitApproval, Pause, FailRun, Complete, Raise,
         Cancel, Crash, history, vars, TypeOK
<1>2. Apart /\ Cardinality(did[i]) <= 1
  BY <1>1 DEF Alone, StepOnce
<1>3. CASE did' = did
  BY <1>2, <1>3
<1>4. ASSUME NEW r \in Request, RunStep(r) PROVE Cardinality(did'[i]) <= 1
  <2>1. PICK effect \in BOOLEAN :
          did' = [did EXCEPT ![idx[r]] = IF effect THEN @ \cup {r} ELSE @]
    BY <1>4 DEF RunStep
  <2>2. pc[r] = "acting"
    BY <1>4 DEF RunStep
  <2>3. CASE i = idx[r] /\ effect
    <3>1. did[i] = {}
      BY <1>2, <2>2, <2>3, Constants DEF Apart, Busy, Executing
    <3>2. did'[i] = {r}
      BY <2>1, <2>3, <3>1 DEF TypeOK
    <3>3. Cardinality({r}) = 1
      BY FS_Singleton
    <3> QED BY <3>2, <3>3
  <2>4. CASE ~(i = idx[r] /\ effect)
    <3>1. did'[i] = did[i]
      BY <2>1, <2>4 DEF TypeOK
    <3> QED BY <1>2, <3>1
  <2> QED BY <2>3, <2>4
<1>5. did' = did \/ \E r \in Request : RunStep(r)
  BY DEF Next, Start, Resume, ResumeFrom, Execute, MarkRunning, Head, AddStep,
         StepDone, StepFailed, AwaitApproval, Pause, FailRun, Complete, Raise, Cancel,
         Crash, history, vars
<1> QED BY <1>3, <1>4, <1>5

-----------------------------------------------------------------------------
(***************************************************************************)
(* Whole runs.                                                             *)
(***************************************************************************)
IsClosed(i) == stepRow[i] \in {"done", "failed"}

\* The steps before a request's position, and before that of a row that may be resumed,
\* have closed rows; nobody executes a completed run.
Closed ==
  /\ \A r \in Request : Busy(r) =>
       /\ status # "completed"
       /\ \A i \in Step \ Gate : i < idx[r] => IsClosed(i)
  /\ status \in {"none", "paused", "pending"} =>
       \A i \in Step \ Gate : i < current => IsClosed(i)
  /\ status = "completed" => \A i \in Step \ Gate : i \in checkpoint /\ IsClosed(i)

Whole == ~overlapped => Closed

LEMMA WholeInit == Init => Whole
BY Constants DEF Init, Whole, Closed, Busy, Executing

\* Requests that end.
LEMMA EndClosed ==
  ASSUME Closed, NEW rs \in SUBSET Request, End(rs), UNCHANGED <<stepRow, current>>,
         \/ UNCHANGED <<status, checkpoint>>
         \/ status' \in {"failed", "cancelled"}
  PROVE  Closed'
<1>1. \A q \in Request : Busy(q)' => Busy(q) /\ idx'[q] = idx[q]
  BY DEF End, Busy, Executing
<1> QED BY <1>1 DEF Closed, IsClosed

\* Going on to the next step when this one's row is closed.
LEMMA ProceedClosed ==
  ASSUME TypeOK, Apart, Closed, NEW r \in Request, pc[r] \in Executing, pc[r] # "marking",
         idx[r] \in Step \ Gate, NEW entries, Proceed(r, entries),
         NEW closed \in {"done", "failed"}, stepRow' = [stepRow EXCEPT ![idx[r]] = closed],
         UNCHANGED row
  PROVE  Closed'
<1>1. /\ idx'[r] = idx[r] + 1 /\ pc'[r] = "head"
      /\ \A q \in Request \ {r} : pc'[q] = pc[q] /\ idx'[q] = idx[q]
  BY DEF Proceed, Goto, TypeOK
<1>2. stepRow'[idx[r]] = closed /\ \A i \in Step \ {idx[r]} : stepRow'[i] = stepRow[i]
  BY DEF TypeOK
<1>3. Busy(r) /\ status \notin {"none", "paused", "pending", "completed"}
  BY DEF Busy, Apart, Closed
<1>4. ASSUME NEW i \in Step \ Gate, i < idx[r] + 1 PROVE stepRow'[i] \in {"done", "failed"}
  <2>1. CASE i = idx[r]
    BY <1>2, <2>1
  <2>2. CASE i # idx[r]
    <3>1. i < idx[r]
      BY <1>4, <2>2, Constants, Below
    <3> QED BY <1>2, <1>3, <2>2, <3>1 DEF Closed, IsClosed
  <2> QED BY <2>1, <2>2
<1>5. \A q \in Request : Busy(q)' => q = r
  BY <1>1, <1>3 DEF Apart, Busy
<1> QED BY <1>1, <1>3, <1>4, <1>5 DEF Closed, IsClosed, row

LEMMA WholeStep == TypeOK /\ Safe /\ Alone /\ Whole /\ [Next]_vars => Whole'
<1> SUFFICES ASSUME TypeOK, Safe, Alone, Whole, [Next]_vars, ~overlapped' PROVE Closed'
  BY DEF Whole
<1> USE Constants
<1>0. Apart /\ Closed
  <2>1. ~overlapped
    BY DEF Next, Start, Resume, ResumeFrom, Enter, Execute, MarkRunning, Head, AddStep,
           RunStep, StepDone, StepFailed, AwaitApproval, Pause, FailRun, Complete, Raise,
           Cancel, Crash, history, vars, TypeOK
  <2> QED BY <2>1 DEF Alone, Whole
<1>1. ASSUME NEW r \in Request, Start(r) PROVE Closed'
  <2>1. \A q \in Request : Busy(q)' => q = r
    BY <1>1 DEF Start, Enter, Goto, Busy, TypeOK
  <2>2. idx'[r] = 0 /\ status = "none" /\ status' = "pending" /\ UNCHANGED <<current, stepRow>>
    BY <1>1 DEF Start, Enter, TypeOK
  <2>3. \A i \in Step : ~(i < 0)
    OBVIOUS
  <2> QED BY <1>0, <2>1, <2>2, <2>3 DEF Closed, IsClosed
<1>2. ASSUME NEW r \in Request, Resume(r) PROVE Closed'
  <2>1. CASE status \in {"paused", "pending"}
    <3>1. Enter(r, current, checkpoint) /\ UNCHANGED <<status, current, checkpoint, stepRow>>
      BY <1>2, <2>1 DEF Resume, ResumeFrom, row
    <3>2. \A q \in Request : Busy(q)' => q = r
      BY <3>1 DEF Enter, Goto, Busy, TypeOK
    <3>3. idx'[r] = current
      BY <3>1 DEF Enter, TypeOK
    <3> QED BY <1>0, <2>1, <3>1, <3>2, <3>3 DEF Closed, IsClosed
  <2>2. CASE status \notin {"paused", "pending"}
    BY <1>0, <1>2, <2>2, EndClosed DEF Resume, ResumeFrom, row
  <2> QED BY <2>1, <2>2
<1>3. ASSUME NEW r \in Request, Execute(r) PROVE Closed'
  <2>1. CASE MarkRunning(r)
    <3>1. /\ status' = "running" /\ UNCHANGED <<idx, stepRow>>
          /\ \A q \in Request : Busy(q)' => Busy(q)
      BY <2>1 DEF MarkRunning, Goto, Busy, Executing, TypeOK, mine
    <3> QED BY <1>0, <3>1 DEF Closed, IsClosed
  <2>2. CASE Head(r)
    <3>1. /\ UNCHANGED <<status, idx, stepRow>> /\ pc[r] = "head"
          /\ \A q \in Request : Busy(q)' => Busy(q)
      BY <2>2 DEF Head, Goto, Busy, Executing, TypeOK, mine
    <3>2. status \notin {"none", "paused", "pending", "completed"}
      BY <1>0, <3>1 DEF Apart, Closed, Busy, Executing
    <3> QED BY <1>0, <3>1, <3>2 DEF Closed, IsClosed
  <2>3. CASE AddStep(r)
    <3>1. /\ UNCHANGED <<status, current, checkpoint, idx>> /\ pc[r] = "adding"
          /\ \A i \in Step \ {idx[r]} : stepRow'[i] = stepRow[i]
          /\ \A q \in Request : Busy(q)' => Busy(q)
      BY <2>3 DEF AddStep, Goto, Busy, Executing, TypeOK, mine, row
    <3>2. /\ status \notin {"none", "paused", "pending", "completed"}
          /\ \A q \in Request : Busy(q) => q = r
      BY <1>0, <3>1 DEF Apart, Closed, Busy, Executing
    <3>3. \A i \in Step : i < idx[r] => i # idx[r]
      BY DEF TypeOK
    <3> QED BY <1>0, <3>1, <3>2, <3>3 DEF Closed, IsClosed
  <2>4. CASE RunStep(r)
    <3>1. PICK place \in {"done", "failed"} : Goto(r, place)
      BY <2>4 DEF RunStep
    <3>2. /\ UNCHANGED <<status, current, checkpoint, idx, stepRow>>
          /\ \A q \in Request : Busy(q)' => Busy(q)
      BY <2>4, <3>1 DEF RunStep, Goto, Busy, Executing, TypeOK, mine, row
    <3> QED BY <1>0, <3>2 DEF Closed, IsClosed
  <2>5. CASE StepDone(r)
    <3>1. /\ pc[r] = "done" /\ idx[r] \in Step \ Gate /\ Proceed(r, ckpt[r] \cup {idx[r]})
          /\ stepRow' = [stepRow EXCEPT ![idx[r]] = "done"] /\ UNCHANGED row
      BY <2>5 DEF StepDone, Safe, Placed
    <3> QED BY <1>0, <3>1, ProceedClosed DEF Executing
  <2>6. CASE StepFailed(r)
    <3>1. CASE onFailure = "continue"
      <4>1. /\ pc[r] = "failed" /\ idx[r] \in Step \ Gate /\ Proceed(r, ckpt[r] \cup {idx[r]})
            /\ stepRow' = [stepRow EXCEPT ![idx[r]] = "failed"] /\ UNCHANGED row
        BY <2>6, <3>1 DEF StepFailed, Safe, Placed
      <4> QED BY <1>0, <4>1, ProceedClosed DEF Executing
    <3>2. CASE onFailure # "continue"
      <4>1. /\ UNCHANGED <<status, current, checkpoint, idx>> /\ stepRow'[idx[r]] = "failed"
            /\ \A i \in Step \ {idx[r]} : stepRow'[i] = stepRow[i]
            /\ \A q \in Request : Busy(q)' => Busy(q)
        BY <2>6, <3>2 DEF StepFailed, Goto, Busy, Executing, TypeOK, mine, row, Safe, Placed
      <4> QED BY <1>0, <4>1 DEF Closed, IsClosed
    <3> QED BY <3>1, <3>2
  <2>7. CASE AwaitApproval(r)
    <3>1. /\ UNCHANGED <<status, current, checkpoint, idx>> /\ idx[r] \in Gate
          /\ \A i \in Step \ {idx[r]} : stepRow'[i] = stepRow[i]
          /\ \A q \in Request : Busy(q)' => Busy(q)
      BY <2>7 DEF AwaitApproval, Goto, Busy, Executing, TypeOK, mine, row, Safe, Placed
    <3> QED BY <1>0, <3>1 DEF Closed, IsClosed
  <2>8. CASE Pause(r)
    <3>1. /\ pc[r] = "parking" /\ idx[r] \in Gate /\ current' = idx[r] + 1
          /\ status' = "paused" /\ End({r}) /\ stepRow' = stepRow
      BY <2>8 DEF Pause, Safe, Placed
    <3>2. \A q \in Request : ~Busy(q)'
      <4> SUFFICES ASSUME NEW q \in Request, Busy(q)' PROVE FALSE
        OBVIOUS
      <4>1. q # r /\ Busy(q) /\ Busy(r)
        BY <3>1 DEF End, Busy, Executing
      <4> QED BY <1>0, <4>1 DEF Apart
    <3>3. ASSUME NEW i \in Step \ Gate, i < idx[r] + 1 PROVE IsClosed(i)
      <4>1. i < idx[r]
        BY <3>1, <3>3, Below
      <4> QED BY <1>0, <3>1, <4>1 DEF Closed, Busy, Executing
    <3> QED BY <3>1, <3>2, <3>3 DEF Closed, IsClosed
  <2>9. CASE FailRun(r)
    BY <2>9, <1>0, EndClosed DEF FailRun
  <2>10. CASE Complete(r)
    <3>1. /\ pc[r] = "head" /\ idx[r] = N /\ checkpoint' = ckpt[r]
          /\ status' = "completed" /\ End({r}) /\ stepRow' = stepRow
      BY <2>10 DEF Complete
    <3>2. \A q \in Request : ~Busy(q)'
      <4> SUFFICES ASSUME NEW q \in Request, Busy(q)' PROVE FALSE
        OBVIOUS
      <4>1. q # r /\ Busy(q) /\ Busy(r)
        BY <3>1 DEF End, Busy, Executing
      <4> QED BY <1>0, <4>1 DEF Apart
    <3>3. \A i \in Step : i < idx[r]
      BY <3>1 DEF Step
    <3>4. \A i \in Step \ Gate : i \in ckpt[r] /\ IsClosed(i)
      BY <1>0, <3>1, <3>3 DEF Closed, Safe, Carried, Busy, Executing
    <3> QED BY <3>1, <3>2, <3>4 DEF Closed, IsClosed
  <2> QED BY <1>3, <2>1, <2>2, <2>3, <2>4, <2>5, <2>6, <2>7, <2>8, <2>9, <2>10
          DEF Execute
<1>4. ASSUME NEW r \in Request, Raise(r) PROVE Closed'
  BY <1>0, <1>4, EndClosed DEF Raise, row
<1>5. CASE Cancel
  BY <1>0, <1>5 DEF Cancel, Closed, IsClosed, Busy, mine
<1>6. CASE Crash
  BY <1>0, <1>6, EndClosed DEF Crash, row
<1>7. CASE UNCHANGED vars
  BY <1>0, <1>7 DEF vars, row, mine, Closed, IsClosed, Busy
<1> QED BY <1>1, <1>2, <1>3, <1>4, <1>5, <1>6, <1>7 DEF Next

-----------------------------------------------------------------------------
(***************************************************************************)
(* The theorems.                                                           *)
(***************************************************************************)
IInv == TypeOK /\ Safe /\ Alone /\ StepOnce

\* The invariant behind the others holds in every reachable state.
THEOREM Invariance == Spec => []IInv
<1>1. Init => IInv
  BY TypeInit, SafeInit, AloneInit DEF IInv
<1>2. IInv /\ [Next]_vars => IInv'
  BY TypeStep, SafeStep, AloneStep, OnceStep DEF IInv, Safe
<1> QED BY <1>1, <1>2, PTL DEF Spec

\* Every reachable state is well typed: the position never leaves the manifest.
THEOREM TypeCorrect == Spec => []TypeOK
<1>1. IInv => TypeOK
  BY DEF IInv
<1> QED BY <1>1, Invariance, PTL

\* The row's position and checkpoint belong together, whoever writes them.
THEOREM CheckpointCoversHolds == Spec => []CheckpointCovers
<1>1. IInv => CheckpointCovers
  BY DEF IInv, Safe
<1> QED BY <1>1, Invariance, PTL

\* No step runs before every gate in front of it was resumed.
THEOREM GateHeldHolds == Spec => []GateHeld
<1>1. IInv => GateHeld
  BY DEF IInv, Safe
<1> QED BY <1>1, Invariance, PTL

\* While requests do not overlap no step is done twice, whatever crashes.
THEOREM StepOnceHolds == Spec => []StepOnce
<1>1. IInv => StepOnce
  BY DEF IInv
<1> QED BY <1>1, Invariance, PTL

\* A run that is marked completed has an entry in its checkpoint and a closed row for
\* every step but the gates, through every pause, resume, failed step and crash between,
\* unless two requests executed it at once.
THEOREM CompletedIsWholeHolds == Spec => []CompletedIsWhole
<1>1. IInv /\ Whole /\ [Next]_vars => Whole'
  BY WholeStep DEF IInv
<1>2. Whole => CompletedIsWhole
  BY DEF Whole, Closed, IsClosed, CompletedIsWhole
<1> QED BY <1>1, <1>2, WholeInit, Invariance, PTL DEF Spec
=============================================================================
