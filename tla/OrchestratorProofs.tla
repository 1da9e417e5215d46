------------------------- MODULE OrchestratorProofs -------------------------
(***************************************************************************)
(* The safety of the plan runner: for any number of agents, requests and   *)
(* delegations.                                                            *)
(***************************************************************************)
EXTENDS Orchestrator, FiniteSetTheorems, SequenceTheorems, TLAPS

-----------------------------------------------------------------------------
\* One plan at a time; the event belongs to the plan that runs.
LockOK ==
  /\ \A r \in Run : pc[r] \in Holding => lock = r
  /\ lock # NoRun => pc[lock] \in Holding
  /\ \A r \in Run : pc[r] \in Holding \ {"creating"} => running = r
  /\ event => running \in stopped

\* Who waits for the lock is in its queue.
QueueOK == \A r \in Run : pc[r] = "queued" => r \in Items(waiters)

\* How far the row of a run is.
RowOK(r) ==
  /\ pc[r] \in {"unborn", "delegated", "dropped", "starting", "checking", "queued", "creating"}
       => row[r] = "none"
  /\ pc[r] \in {"capped", "preflight", "turn", "acting"} => row[r] = "running"
  /\ pc[r] = "failing" => row[r] = "completed"
  /\ pc[r] = "closing" => row[r] \in Terminal
  /\ row[r] = "cancelled" => r \in stopped
  /\ row[r] = "running" => \/ pc[r] \in {"capped", "preflight", "turn", "acting"}
                            \/ cut[r] # "no"
  /\ cut[r] # "no" => pc[r] \in {"leaving", "gone"}

RowsOK == \A r \in Run : RowOK(r)

\* A run that was handed a delegation is awaited by the run that popped it, and that
\* one awaits nobody else.
HostOK ==
  /\ \A r \in Run : pc[r] \in Live /\ job[r].host # NoRun => pc[job[r].host] = "handing"
  /\ \A r, q \in Run : pc[r] \in Live /\ pc[q] \in Live /\ job[r].host = job[q].host
                         /\ job[r].host # NoRun => r = q
  /\ \A r \in Run : pc[r] \in {"delegated", "unborn"} => job[r].host = NoRun

Distinct(s) == \A i, j \in 1 .. Len(s) : s[i] = s[j] => i = j

Frames == 1 .. Len(stack)

\* The delegations that wait are those in the frames, each in one place.
HeldOK ==
  /\ \A i \in Frames : Distinct(stack[i])
  /\ \A i, k \in Frames : i # k => Items(stack[i]) \cap Items(stack[k]) = {}
  /\ \A r \in Run : Distinct(frame[r])
  /\ \A r, q \in Run : r # q => Items(frame[r]) \cap Items(frame[q]) = {}
  /\ \A r \in Run, i \in Frames : Items(frame[r]) \cap Items(stack[i]) = {}
  /\ \A c \in Run : pc[c] = "delegated" <=> \/ \E r \in Run : c \in Items(frame[r])
                                            \/ \E i \in Frames : c \in Items(stack[i])
  /\ \A r \in Run : frame[r] # <<>> => pc[r] \in {"draining", "handing"}
  /\ \A r \in Run : pc[r] = "draining" => frame[r] # <<>>

\* A frame for each run between its push and its pop, or cut off there.
Framed == {r \in Run : pc[r] \in Holding \cup {"queued"} \/ cut[r] = "framed"}

FramesOK == Len(stack) = Cardinality(Framed)

\* What is known of a run's job: an agent's run has an agent to leave.
BornOK ==
  \A r \in Run :
    /\ pc[r] = "delegated" => r \in Delegated
    /\ pc[r] \in {"starting", "leaving"} => job[r].agent # NoAgent
    /\ r \in Delegated /\ pc[r] # "unborn" => job[r].agent # NoAgent
    /\ r \in Top => job[r] = TopJob(r)

IInv ==
  /\ TypeOK
  /\ LockOK /\ QueueOK /\ RowsOK /\ HostOK /\ HeldOK /\ FramesOK /\ BornOK

-----------------------------------------------------------------------------
LEMMA StageNames ==
  /\ Holding \subseteq Live /\ "queued" \in Live /\ "queued" \notin Holding
  /\ {"draining", "handing", "leaving", "starting", "checking", "capped"} \subseteq Live
  /\ {"draining", "handing", "leaving", "starting", "checking", "capped"} \cap Holding = {}
  /\ {"unborn", "delegated", "dropped", "gone"} \cap Live = {}
BY DEF Live, Before, Holding, After

LEMMA FrontNames ==
  Live \ {"starting", "handing", "leaving"} =
    {"checking", "capped", "queued", "draining"} \cup Holding
BY DEF Live, Before, Holding, After

LEMMA InvInit == Init => IInv
<1> SUFFICES ASSUME Init PROVE IInv
  OBVIOUS
<1> USE DEF Init
<1>1. TypeOK
  <2>1. job \in [Run -> JobRecord]
    <3>1. ASSUME NEW r \in Run PROVE (IF r \in Top THEN TopJob(r) ELSE NoJob) \in JobRecord
      BY OrchestratorAssumptions DEF Run, TopJob, NoJob, JobRecord
    <3> QED
      BY <3>1
  <2>2. stack \in Seq(Seq(Delegated)) /\ waiters \in Seq(Run)
    OBVIOUS
  <2>3. frame \in [Run -> Seq(Delegated)]
    OBVIOUS
  <2>4. turn \in [Run -> 0 .. MaxTurns] /\ prior \in [Run -> Nat] /\ depth \in Nat
    BY OrchestratorAssumptions
  <2>5. event \in BOOLEAN
    OBVIOUS
  <2>6. /\ pc \in [Run -> {"unborn", "delegated", "dropped", "gone"} \cup Live]
        /\ outcome \in [Run -> {"none", "ok", "busy", "failed", "timed"}]
        /\ row \in [Run -> {"none", "running"} \cup Terminal]
        /\ agentRow \in [Agent -> {"ready", "running"}]
        /\ cut \in [Run -> {"no", "bare", "framed"}] /\ crowded \subseteq Run
        /\ lock \in Run \cup {NoRun} /\ running \in Run \cup {NoRun} /\ stopped \subseteq Run
    OBVIOUS
  <2> HIDE DEF Init
  <2> QED
    BY <2>1, <2>2, <2>3, <2>4, <2>5, <2>6 DEF TypeOK
<1>2. LockOK /\ QueueOK
  BY StageNames DEF LockOK, QueueOK
<1>3. RowsOK
  BY DEF RowsOK, RowOK
<1>4. HostOK
  BY StageNames, OrchestratorAssumptions DEF HostOK, TopJob, NoJob, Run
<1>5. HeldOK
  <2>1. Len(stack) = 0 /\ Frames = {}
    BY DEF Frames
  <2>2. \A r \in Run : Items(frame[r]) = {} /\ Distinct(frame[r])
    BY DEF Items, Distinct
  <2> QED
    BY <2>1, <2>2 DEF HeldOK
<1>6. FramesOK
  <2>1. Framed = {}
    BY StageNames DEF Framed
  <2>2. Len(stack) = 0
    OBVIOUS
  <2> QED
    BY <2>1, <2>2, FS_EmptySet DEF FramesOK
<1>7. BornOK
  BY DEF BornOK
<1> QED
  BY <1>1, <1>2, <1>3, <1>4, <1>5, <1>6, <1>7 DEF IInv

-----------------------------------------------------------------------------
(***************************************************************************)
(* Steps of one run that touch nobody else's.                              *)
(***************************************************************************)
Awaits == {"draining", "handing"}

Solo(r) ==
  /\ UNCHANGED <<job, frame, cut>>
  /\ \A q \in Run \ {r} : pc'[q] = pc[q] /\ row'[q] = row[q]
  /\ pc[r] \in {"unborn"} \cup (Live \ Awaits)
  /\ pc'[r] \in {"gone"} \cup (Live \ Awaits)
  /\ pc[r] = "unborn" => r \in Top
  /\ pc'[r] \in {"starting", "leaving"} => job[r].agent # NoAgent
  /\ stopped \subseteq stopped'
  /\ RowOK(r)'

LEMMA SoloKeeps ==
  ASSUME IInv, NEW r \in Run, Solo(r)
  PROVE  RowsOK' /\ HostOK' /\ BornOK' /\ (stack' = stack => HeldOK')
<1>1. /\ "handing" \in Awaits /\ "draining" \in Awaits
      /\ {"unborn", "delegated", "gone"} \cap Live = {} /\ Awaits \cap {"unborn", "delegated", "gone"} = {}
  BY StageNames DEF Awaits
<1>2. RowsOK'
  <2>1. ASSUME NEW q \in Run \ {r} PROVE RowOK(q)'
    BY <2>1 DEF Solo, IInv, RowsOK, RowOK
  <2> QED
    BY <2>1 DEF Solo, RowsOK
<1>3. HostOK'
  <2>1. \A q \in Run : pc'[q] \in Live => pc[q] \in Live \/ job[q].host = NoRun
    BY <1>1 DEF Solo, IInv, HostOK
  <2>2. \A q \in Run : pc[q] = "handing" => pc'[q] = "handing"
    BY <1>1 DEF Solo
  <2>3. \A q \in Run : job[q].host \in Run \cup {NoRun}
    BY DEF IInv, TypeOK, JobRecord
  <2>4. \A q \in Run : pc'[q] \in {"delegated", "unborn"} => pc[q] \in {"delegated", "unborn"}
    BY <1>1 DEF Solo
  <2> QED
    BY <2>1, <2>2, <2>3, <2>4 DEF Solo, IInv, HostOK
<1>4. BornOK'
  <2>1. r \in Delegated => pc[r] # "unborn"
    BY OrchestratorAssumptions DEF Solo
  <2>2. pc'[r] # "delegated"
    BY <1>1 DEF Solo
  <2> QED
    BY <2>1, <2>2 DEF Solo, IInv, BornOK
<1>5. ASSUME stack' = stack PROVE HeldOK'
  <2>1. \A q \in Run : (pc'[q] = "delegated" <=> pc[q] = "delegated")
                       /\ (pc'[q] \in Awaits <=> pc[q] \in Awaits)
                       /\ (pc[q] \in Awaits => pc'[q] = pc[q])
    BY <1>1 DEF Solo
  <2>2. Frames' = Frames
    BY <1>5 DEF Frames
  <2>3. \A q \in Run : frame[q] # <<>> => pc'[q] \in {"draining", "handing"}
    BY <2>1 DEF IInv, HeldOK, Awaits
  <2>4. \A q \in Run : pc'[q] = "draining" => frame[q] # <<>>
    BY <2>1 DEF IInv, HeldOK, Awaits
  <2> QED
    BY ZenonT(30), <1>5, <2>1, <2>2, <2>3, <2>4 DEF Solo, IInv, HeldOK
<1> QED
  BY <1>2, <1>3, <1>4, <1>5

\* Such a step outside the lock.
LEMMA OutsideKeeps ==
  ASSUME IInv, NEW r \in Run, Solo(r), UNCHANGED <<lock, waiters, running, event, stack, stopped>>,
         pc[r] \notin Holding \cup {"queued"}, pc'[r] \notin Holding \cup {"queued"}
  PROVE  LockOK' /\ QueueOK' /\ FramesOK'
<1>1. LockOK'
  <2>1. lock \in Run \cup {NoRun}
    BY DEF IInv, TypeOK
  <2>2. \A q \in Run : (pc'[q] \in Holding <=> pc[q] \in Holding)
                       /\ (pc[q] \in Holding => pc'[q] = pc[q])
    BY DEF Solo
  <2> QED
    BY <2>1, <2>2 DEF IInv, LockOK
<1>2. QueueOK'
  BY DEF Solo, IInv, QueueOK, Items
<1>3. Framed' = Framed
  BY DEF Solo, Framed
<1>4. FramesOK'
  BY <1>3 DEF IInv, FramesOK
<1> QED
  BY <1>1, <1>2, <1>4

\* And one of the plan that holds it.
LEMMA PlanKeeps ==
  ASSUME IInv, NEW r \in Run, Solo(r), UNCHANGED <<lock, waiters, running, event, stack>>,
         pc[r] \in Holding \ {"creating"}, pc'[r] \in Holding \ {"creating"}
  PROVE  LockOK' /\ QueueOK' /\ FramesOK'
<1>1. LockOK'
  BY DEF Solo, IInv, LockOK
<1>2. QueueOK'
  BY StageNames DEF Solo, IInv, QueueOK, Items
<1>3. Framed' = Framed
  BY DEF Solo, Framed
<1>4. FramesOK'
  BY <1>3 DEF IInv, FramesOK
<1> QED
  BY <1>1, <1>2, <1>4

-----------------------------------------------------------------------------
(***************************************************************************)
(* The way to the lock, and the plan.                                      *)
(***************************************************************************)
LEMMA EndedType ==
  ASSUME NEW r \in Run
  PROVE  /\ Ended(r) \in {"gone", "leaving"}
         /\ Ended(r) = "leaving" => job[r].agent # NoAgent
BY DEF Ended

LEMMA EnterEffect ==
  ASSUME IInv, NEW r \in Run, EnterExecute(r)
  PROVE  /\ pc' = [pc EXCEPT ![r] = pc'[r]]
         /\ pc'[r] \in {"checking", "gone", "leaving"}
         /\ pc'[r] = "leaving" => job[r].agent # NoAgent
         /\ outcome' \in [Run -> {"none", "ok", "busy", "failed", "timed"}]
         /\ lock # NoRun => outcome'[r] = "busy"
         /\ \A q \in Run : q # r \/ lock = NoRun => outcome'[q] = outcome[q]
BY EndedType DEF EnterExecute, IInv, TypeOK

LEMMA PcType ==
  ASSUME IInv, NEW r \in Run, NEW x \in {"unborn", "delegated", "dropped", "gone"} \cup Live,
         pc' = [pc EXCEPT ![r] = x]
  PROVE  /\ pc' \in [Run -> {"unborn", "delegated", "dropped", "gone"} \cup Live]
         /\ pc'[r] = x /\ \A q \in Run \ {r} : pc'[q] = pc[q]
BY DEF IInv, TypeOK

LEMMA RequestKeeps ==
  ASSUME IInv, NEW r \in Run, Request(r)
  PROVE  IInv'
<1>1. /\ r \in Top /\ pc[r] = "unborn"
      /\ UNCHANGED <<job, frame, turn, stopped, row, agentRow, cut, crowded>>
      /\ UNCHANGED <<lock, waiters, running, event, stack, depth, prior>>
  BY DEF Request, lockVars, stackVars, history
<1>2. /\ pc' = [pc EXCEPT ![r] = pc'[r]]
      /\ pc'[r] \in {"starting", "checking", "gone", "leaving"}
      /\ pc'[r] \in {"starting", "leaving"} => job[r].agent # NoAgent
      /\ outcome' \in [Run -> {"none", "ok", "busy", "failed", "timed"}]
  <2>1. CASE job[r].agent = NoAgent
    BY <2>1, EnterEffect DEF Request
  <2>2. CASE job[r].agent # NoAgent
    BY <2>2 DEF Request, IInv, TypeOK
  <2> QED
    BY <2>1, <2>2
<1>3. /\ pc' \in [Run -> {"unborn", "delegated", "dropped", "gone"} \cup Live]
      /\ \A q \in Run \ {r} : pc'[q] = pc[q]
  BY <1>2, PcType, StageNames
<1>4. TypeOK'
  BY <1>1, <1>2, <1>3 DEF IInv, TypeOK
<1>5. Solo(r)
  <2>1. row[r] = "none" /\ row'[r] = "none"
    BY <1>1 DEF IInv, RowsOK, RowOK
  <2>2. RowOK(r)'
    BY <1>1, <1>2, <2>1 DEF IInv, RowsOK, RowOK, Terminal
  <2> QED
    BY <1>1, <1>2, <1>3, <2>2, StageNames DEF Solo, Awaits
<1>6. {"unborn", "starting", "checking", "gone", "leaving"} \cap (Holding \cup {"queued"}) = {}
  BY StageNames
<1> QED
  BY <1>1, <1>2, <1>4, <1>5, <1>6, SoloKeeps, OutsideKeeps DEF IInv

LEMMA MeetType ==
  ASSUME IInv, NEW r \in Run, Meet(r)
  PROVE  crowded' \subseteq Run
BY DEF Meet, Others, IInv, TypeOK

LEMMA MarkRunningKeeps ==
  ASSUME IInv, NEW r \in Run, MarkRunning(r)
  PROVE  IInv'
<1>1. /\ pc[r] = "starting"
      /\ agentRow' = [agentRow EXCEPT ![job[r].agent] = "running"]
      /\ UNCHANGED <<job, frame, turn, stopped, row, cut>> /\ Meet(r)
      /\ UNCHANGED <<lock, waiters, running, event, stack, depth, prior>>
  BY DEF MarkRunning, Mark, lockVars, stackVars, history
<1>2. /\ pc' = [pc EXCEPT ![r] = pc'[r]]
      /\ pc'[r] \in {"checking", "gone", "leaving"}
      /\ pc'[r] = "leaving" => job[r].agent # NoAgent
      /\ outcome' \in [Run -> {"none", "ok", "busy", "failed", "timed"}]
  BY EnterEffect DEF MarkRunning, Mark
<1>3. /\ pc' \in [Run -> {"unborn", "delegated", "dropped", "gone"} \cup Live]
      /\ \A q \in Run \ {r} : pc'[q] = pc[q]
  BY <1>2, PcType, StageNames
<1>4. TypeOK'
  <2>1. agentRow' \in [Agent -> {"ready", "running"}]
    BY <1>1 DEF IInv, TypeOK
  <2>2. crowded' \subseteq Run
    BY <1>1, MeetType
  <2> QED
    BY <1>1, <1>2, <1>3, <2>1, <2>2 DEF IInv, TypeOK
<1>5. Solo(r)
  <2>1. row[r] = "none" /\ row'[r] = "none"
    BY <1>1 DEF IInv, RowsOK, RowOK
  <2>2. RowOK(r)'
    BY <1>1, <1>2, <2>1 DEF IInv, RowsOK, RowOK, Terminal
  <2> QED
    BY <1>1, <1>2, <1>3, <2>2, StageNames DEF Solo, Awaits
<1>6. {"starting", "checking", "gone", "leaving"} \cap (Holding \cup {"queued"}) = {}
  BY StageNames
<1> QED
  BY <1>1, <1>2, <1>4, <1>5, <1>6, SoloKeeps, OutsideKeeps DEF IInv

LEMMA CapReachedKeeps ==
  ASSUME IInv, NEW r \in Run, CapReached(r)
  PROVE  IInv'
<1>1. /\ pc[r] = "checking" /\ pc' = [pc EXCEPT ![r] = "capped"]
      /\ row' = [row EXCEPT ![r] = "running"]
      /\ UNCHANGED <<job, outcome, frame, turn, stopped, agentRow, cut, crowded>>
      /\ UNCHANGED <<lock, waiters, running, event, stack, depth, prior>>
  BY DEF CapReached, lockVars, stackVars, history
<1>2. /\ pc' \in [Run -> {"unborn", "delegated", "dropped", "gone"} \cup Live]
      /\ pc'[r] = "capped" /\ \A q \in Run \ {r} : pc'[q] = pc[q]
  BY <1>1, PcType, StageNames
<1>3. TypeOK' /\ row'[r] = "running" /\ \A q \in Run \ {r} : row'[q] = row[q]
  BY <1>1, <1>2 DEF IInv, TypeOK
<1>4. Solo(r)
  <2>1. RowOK(r)'
    BY <1>1, <1>2, <1>3 DEF IInv, RowsOK, RowOK, Terminal
  <2> QED
    BY <1>1, <1>2, <1>3, <2>1, StageNames DEF Solo, Awaits
<1>5. {"checking", "capped"} \cap (Holding \cup {"queued"}) = {}
  BY StageNames
<1> QED
  BY <1>1, <1>2, <1>3, <1>4, <1>5, SoloKeeps, OutsideKeeps DEF IInv

LEMMA FailCappedKeeps ==
  ASSUME IInv, NEW r \in Run, FailCapped(r)
  PROVE  IInv'
<1>1. /\ pc[r] = "capped" /\ pc' = [pc EXCEPT ![r] = Ended(r)]
      /\ outcome' = [outcome EXCEPT ![r] = "ok"] /\ row' = [row EXCEPT ![r] = "failed"]
      /\ UNCHANGED <<job, frame, turn, stopped, agentRow, cut, crowded>>
      /\ UNCHANGED <<lock, waiters, running, event, stack, depth, prior>>
  BY DEF FailCapped, lockVars, stackVars, history
<1>2. /\ pc' \in [Run -> {"unborn", "delegated", "dropped", "gone"} \cup Live]
      /\ pc'[r] \in {"gone", "leaving"} /\ \A q \in Run \ {r} : pc'[q] = pc[q]
      /\ pc'[r] = "leaving" => job[r].agent # NoAgent
  BY <1>1, PcType, EndedType, StageNames
<1>3. TypeOK' /\ row'[r] = "failed" /\ \A q \in Run \ {r} : row'[q] = row[q]
  BY <1>1, <1>2 DEF IInv, TypeOK, Terminal
<1>4. Solo(r)
  <2>1. RowOK(r)'
    BY <1>1, <1>2, <1>3 DEF IInv, RowsOK, RowOK, Terminal
  <2> QED
    BY <1>1, <1>2, <1>3, <2>1, StageNames DEF Solo, Awaits
<1>5. {"gone", "leaving", "capped"} \cap (Holding \cup {"queued"}) = {}
  BY StageNames
<1> QED
  BY <1>1, <1>2, <1>3, <1>4, <1>5, SoloKeeps, OutsideKeeps DEF IInv

LEMMA SeqItems ==
  ASSUME NEW S, NEW s \in Seq(S)
  PROVE  /\ Items(s) = {s[i] : i \in 1 .. Len(s)} /\ Items(s) \subseteq S
         /\ s # <<>> => /\ Head(s) \in Items(s) /\ Head(s) \in S /\ Tail(s) \in Seq(S)
                        /\ Items(s) = Items(Tail(s)) \cup {Head(s)}
         /\ s # <<>> /\ Distinct(s) => Distinct(Tail(s)) /\ Head(s) \notin Items(Tail(s))
<1>1. Items(s) = {s[i] : i \in 1 .. Len(s)} /\ Items(s) \subseteq S
  BY DEF Items
<1>2. ASSUME s # <<>>
      PROVE  /\ Head(s) \in Items(s) /\ Head(s) \in S /\ Tail(s) \in Seq(S)
             /\ Items(s) = Items(Tail(s)) \cup {Head(s)}
             /\ Distinct(s) => Distinct(Tail(s)) /\ Head(s) \notin Items(Tail(s))
  <2> DEFINE r == Tail(s)
  <2>1. /\ r \in Seq(S) /\ Len(s) = Len(r) + 1 /\ Head(s) = s[1] /\ Len(r) \in Nat
        /\ \A i \in 1 .. Len(r) : r[i] = s[i + 1]
    BY <1>2
  <2> HIDE DEF r
  <2>2. Items(r) = {r[i] : i \in 1 .. Len(r)}
    BY <2>1 DEF Items
  <2>3. \A i \in 1 .. Len(s) : i = 1 \/ (i - 1 \in 1 .. Len(r) /\ s[i] = r[i - 1])
    BY <2>1
  <2>4. 1 \in 1 .. Len(s) /\ \A i \in 1 .. Len(r) : i + 1 \in 1 .. Len(s) /\ i + 1 # 1
    BY <2>1
  <2>5. Items(s) = Items(r) \cup {Head(s)}
    <3>1. ASSUME NEW x \in Items(s) PROVE x \in Items(r) \cup {Head(s)}
      <4>1. PICK i \in 1 .. Len(s) : x = s[i]
        BY <1>1, <3>1
      <4>2. CASE i = 1
        BY <2>1, <4>1, <4>2
      <4>3. CASE i # 1
        BY <2>2, <2>3, <4>1, <4>3
      <4> QED
        BY <4>2, <4>3
    <3>2. ASSUME NEW x \in Items(r) PROVE x \in Items(s)
      <4>1. PICK i \in 1 .. Len(r) : x = r[i]
        BY <2>2, <3>2
      <4> QED
        BY <1>1, <2>1, <2>4, <4>1
    <3>3. Head(s) \in Items(s)
      BY <1>1, <2>1, <2>4
    <3> QED
      BY <3>1, <3>2, <3>3
  <2>6. ASSUME Distinct(s) PROVE Distinct(r) /\ Head(s) \notin Items(r)
    <3>1. \A i, j \in 1 .. Len(r) : i + 1 = j + 1 => i = j
      BY <2>1
    <3>2. Distinct(r)
      BY <2>1, <2>4, <2>6, <3>1 DEF Distinct
    <3>3. Head(s) \notin Items(r)
      BY <2>1, <2>2, <2>4, <2>6 DEF Distinct
    <3> QED
      BY <3>2, <3>3
  <2>7. Head(s) \in S
    BY <1>2
  <2> QED
    BY <2>1, <2>5, <2>6, <2>7 DEF r
<1> QED
  BY <1>1, <1>2

LEMMA AppendItems ==
  ASSUME NEW S, NEW s \in Seq(S), NEW x \in S
  PROVE  /\ Append(s, x) \in Seq(S)
         /\ Items(Append(s, x)) = Items(s) \cup {x}
         /\ Distinct(s) /\ x \notin Items(s) => Distinct(Append(s, x))
<1> DEFINE r == Append(s, x)
<1>1. /\ r \in Seq(S) /\ Len(r) = Len(s) + 1 /\ r[Len(s) + 1] = x
      /\ \A i \in 1 .. Len(s) : r[i] = s[i]
      /\ Len(s) \in Nat
  OBVIOUS
<1> HIDE DEF r
<1>2. Items(s) = {s[i] : i \in 1 .. Len(s)} /\ Items(r) = {r[i] : i \in 1 .. Len(r)}
  BY <1>1, SeqItems
<1>3. \A i \in 1 .. Len(r) : i \in 1 .. Len(s) \/ i = Len(s) + 1
  BY <1>1
<1>4. 1 .. Len(s) \subseteq 1 .. Len(r) /\ Len(s) + 1 \in 1 .. Len(r)
  BY <1>1
<1>5. Items(r) = Items(s) \cup {x}
  BY <1>1, <1>2, <1>3, <1>4
<1>6. ASSUME Distinct(s), x \notin Items(s) PROVE Distinct(r)
  BY <1>1, <1>2, <1>3, <1>6 DEF Distinct
<1> QED
  BY <1>1, <1>5, <1>6 DEF r

LEMMA FramedFinite == IsFiniteSet(Framed) /\ Cardinality(Framed) \in Nat
BY OrchestratorAssumptions, FS_Subset, FS_CardinalityType DEF Framed

\* An empty frame on top holds nobody.
LEMMA PushKeepsHeld ==
  ASSUME IInv, NEW r \in Run, Solo(r), stack' = Append(stack, <<>>)
  PROVE  HeldOK' /\ stack' \in Seq(Seq(Delegated)) /\ Len(stack') = Len(stack) + 1
<1>1. /\ stack' \in Seq(Seq(Delegated)) /\ Len(stack') = Len(stack) + 1 /\ Len(stack) \in Nat
      /\ stack'[Len(stack) + 1] = <<>> /\ \A i \in Frames : stack'[i] = stack[i]
      /\ Frames' = Frames \cup {Len(stack) + 1}
  <2>1. stack \in Seq(Seq(Delegated)) /\ <<>> \in Seq(Delegated)
    BY DEF IInv, TypeOK
  <2>2. /\ stack' \in Seq(Seq(Delegated)) /\ Len(stack') = Len(stack) + 1 /\ Len(stack) \in Nat
        /\ stack'[Len(stack) + 1] = <<>> /\ \A i \in 1 .. Len(stack) : stack'[i] = stack[i]
    BY <2>1
  <2>3. 1 .. Len(stack') = 1 .. Len(stack) \cup {Len(stack) + 1}
    BY <2>2
  <2> QED
    BY <2>2, <2>3 DEF Frames
<1>2. \A i \in Frames' : (i \in Frames /\ stack'[i] = stack[i]) \/ stack'[i] = <<>>
  BY <1>1
<1>3. Items(<<>>) = {} /\ Distinct(<<>>)
  BY DEF Items, Distinct
<1>4. \A q \in Run : (pc'[q] = "delegated" <=> pc[q] = "delegated")
                     /\ (pc'[q] \in Awaits <=> pc[q] \in Awaits)
                     /\ (pc[q] \in Awaits => pc'[q] = pc[q])
  BY StageNames DEF Solo, Awaits
<1>5. \A i \in Frames' : Distinct(stack'[i])
  BY <1>2, <1>3 DEF IInv, HeldOK
<1>6. \A i, k \in Frames' : i # k => Items(stack'[i]) \cap Items(stack'[k]) = {}
  BY <1>2, <1>3 DEF IInv, HeldOK
<1>7. \A q \in Run, i \in Frames' : Items(frame'[q]) \cap Items(stack'[i]) = {}
  BY <1>2, <1>3 DEF Solo, IInv, HeldOK
<1>8. \A c \in Run : (\E i \in Frames' : c \in Items(stack'[i])) <=> (\E i \in Frames : c \in Items(stack[i]))
  BY <1>1, <1>2, <1>3
<1>9. /\ \A q \in Run : frame[q] # <<>> => pc'[q] \in {"draining", "handing"}
      /\ \A q \in Run : pc'[q] = "draining" => frame[q] # <<>>
  BY <1>4 DEF IInv, HeldOK, Awaits
<1>10. HeldOK'
  BY ZenonT(30), <1>4, <1>5, <1>6, <1>7, <1>8, <1>9 DEF Solo, IInv, HeldOK
<1> QED
  BY <1>1, <1>10

LEMMA PushFrameKeeps ==
  ASSUME IInv, NEW r \in Run, PushFrame(r)
  PROVE  IInv'
<1>1. /\ pc[r] = "checking" /\ stack' = Append(stack, <<>>)
      /\ prior' = [prior EXCEPT ![r] = depth] /\ depth' = job[r].depth
      /\ UNCHANGED <<job, outcome, frame, turn, running, event, stopped, row, agentRow, cut, crowded>>
      /\ \/ /\ lock = NoRun /\ lock' = r /\ waiters' = waiters
            /\ pc' = [pc EXCEPT ![r] = "creating"]
         \/ /\ lock' = lock /\ waiters' = Append(waiters, r)
            /\ pc' = [pc EXCEPT ![r] = "queued"]
  BY DEF PushFrame, history
<1>2. /\ pc' \in [Run -> {"unborn", "delegated", "dropped", "gone"} \cup Live]
      /\ pc'[r] \in {"creating", "queued"} /\ \A q \in Run \ {r} : pc'[q] = pc[q]
  <2>1. {"creating", "queued"} \subseteq Live
    BY DEF Live, Before, Holding
  <2> QED
    BY <1>1, <2>1, PcType
<1>3. Solo(r)
  <2>1. row[r] = "none" /\ row'[r] = "none"
    BY <1>1 DEF IInv, RowsOK, RowOK
  <2>2. RowOK(r)'
    BY <1>1, <1>2, <2>1 DEF IInv, RowsOK, RowOK, Terminal
  <2>3. {"checking", "creating", "queued"} \subseteq Live \ Awaits
    BY DEF Live, Before, Holding, Awaits
  <2> QED
    BY <1>1, <1>2, <2>2, <2>3 DEF Solo
<1>4. HeldOK' /\ stack' \in Seq(Seq(Delegated)) /\ Len(stack') = Len(stack) + 1
  BY <1>1, <1>3, PushKeepsHeld
<1>5. waiters' \in Seq(Run) /\ Items(waiters) \subseteq Items(waiters')
      /\ (pc'[r] = "queued" => r \in Items(waiters'))
  <2>1. waiters \in Seq(Run)
    BY DEF IInv, TypeOK
  <2>2. pc'[r] = "queued" => waiters' = Append(waiters, r)
    BY <1>1 DEF IInv, TypeOK
  <2>3. Append(waiters, r) \in Seq(Run) /\ Items(Append(waiters, r)) = Items(waiters) \cup {r}
    BY <2>1, AppendItems
  <2> QED
    BY <1>1, <2>1, <2>2, <2>3
<1>6. TypeOK'
  <2>1. job[r].depth \in Nat /\ depth \in Nat
    BY DEF IInv, TypeOK, JobRecord
  <2>2. prior' \in [Run -> Nat] /\ depth' \in Nat
    BY <1>1, <2>1 DEF IInv, TypeOK
  <2>3. lock' \in Run \cup {NoRun}
    BY <1>1 DEF IInv, TypeOK
  <2> QED
    BY <1>1, <1>2, <1>4, <1>5, <2>2, <2>3 DEF IInv, TypeOK
<1>7. LockOK'
  <2>1. pc[r] \notin Holding /\ "creating" \in Holding /\ "queued" \notin Holding
    BY <1>1 DEF Holding
  <2>2. CASE /\ lock = NoRun /\ lock' = r /\ pc' = [pc EXCEPT ![r] = "creating"]
    <3>1. \A q \in Run : pc[q] \notin Holding
      BY <2>2, OrchestratorAssumptions DEF IInv, LockOK
    <3>2. pc'[r] = "creating"
      BY <2>2 DEF IInv, TypeOK
    <3> QED
      BY <1>1, <1>2, <2>1, <2>2, <3>1, <3>2 DEF IInv, LockOK
  <2>3. CASE lock' = lock /\ pc' = [pc EXCEPT ![r] = "queued"]
    <3>1. \A q \in Run : (pc'[q] \in Holding <=> pc[q] \in Holding)
                         /\ (pc[q] \in Holding => pc'[q] = pc[q])
      BY <2>1, <2>3 DEF IInv, TypeOK
    <3>2. lock \in Run \cup {NoRun}
      BY DEF IInv, TypeOK
    <3> QED
      BY <1>1, <2>3, <3>1, <3>2 DEF IInv, LockOK
  <2> QED
    BY <1>1, <2>2, <2>3
<1>8. QueueOK'
  BY <1>2, <1>5 DEF IInv, QueueOK
<1>9. FramesOK'
  <2>1. Framed' = Framed \cup {r} /\ r \notin Framed
    <3>1. {"creating", "queued"} \subseteq Holding \cup {"queued"} /\ "checking" \notin Holding \cup {"queued"}
      BY DEF Holding
    <3>2. cut' = cut /\ cut[r] = "no"
      BY <1>1 DEF IInv, RowsOK, RowOK
    <3> QED
      BY <1>1, <1>2, <3>1, <3>2 DEF Framed
  <2>2. Cardinality(Framed') = Cardinality(Framed) + 1
    BY <2>1, FramedFinite, FS_AddElement
  <2>3. Len(stack) \in Nat /\ Cardinality(Framed) \in Nat
    BY FramedFinite DEF IInv, TypeOK
  <2> QED
    BY <1>4, <2>2, <2>3 DEF IInv, FramesOK
<1> QED
  BY <1>3, <1>4, <1>6, <1>7, <1>8, <1>9, SoloKeeps DEF IInv

LEMMA AcquireKeeps ==
  ASSUME IInv, NEW r \in Run, Acquire(r)
  PROVE  IInv'
<1>1. /\ pc[r] = "queued" /\ lock = NoRun /\ Head(waiters) = r /\ lock' = r
      /\ waiters' = Tail(waiters) /\ pc' = [pc EXCEPT ![r] = "creating"]
      /\ UNCHANGED <<job, outcome, frame, turn, running, event, stopped, row, agentRow, cut, crowded>>
      /\ UNCHANGED <<stack, depth, prior>>
  BY DEF Acquire, stackVars, history
<1>2. {"queued", "creating"} \subseteq Live \ Awaits /\ "queued" \notin Holding /\ "creating" \in Holding
  BY DEF Live, Before, Holding, Awaits
<1>3. /\ pc' \in [Run -> {"unborn", "delegated", "dropped", "gone"} \cup Live]
      /\ pc'[r] = "creating" /\ \A q \in Run \ {r} : pc'[q] = pc[q]
  BY <1>1, <1>2, PcType
<1>4. /\ waiters' \in Seq(Run) /\ Items(waiters) = Items(waiters') \cup {r}
  <2>1. waiters \in Seq(Run) /\ r \in Items(waiters)
    BY <1>1 DEF IInv, TypeOK, QueueOK
  <2>2. waiters # <<>>
    BY <2>1 DEF Items
  <2> QED
    BY <1>1, <2>1, <2>2, SeqItems
<1>5. TypeOK'
  BY <1>1, <1>3, <1>4 DEF IInv, TypeOK
<1>6. Solo(r)
  <2>1. row[r] = "none" /\ row'[r] = "none"
    BY <1>1 DEF IInv, RowsOK, RowOK
  <2>2. RowOK(r)'
    BY <1>1, <1>3, <2>1 DEF IInv, RowsOK, RowOK, Terminal
  <2> QED
    BY <1>1, <1>2, <1>3, <2>2 DEF Solo
<1>7. LockOK'
  <2>1. \A q \in Run : pc[q] \notin Holding
    BY <1>1, OrchestratorAssumptions DEF IInv, LockOK
  <2> QED
    BY <1>1, <1>2, <1>3, <2>1 DEF IInv, LockOK
<1>8. QueueOK'
  BY <1>3, <1>4 DEF IInv, QueueOK
<1>9. FramesOK'
  <2>1. Framed' = Framed
    BY <1>1, <1>2, <1>3 DEF Framed
  <2> QED
    BY <1>1, <2>1 DEF IInv, FramesOK
<1> QED
  BY <1>1, <1>5, <1>6, <1>7, <1>8, <1>9, SoloKeeps DEF IInv

-----------------------------------------------------------------------------
(***************************************************************************)
(* The plan that holds the lock.                                           *)
(***************************************************************************)
LEMMA CreatePlanKeeps ==
  ASSUME IInv, NEW r \in Run, CreatePlan(r)
  PROVE  IInv'
<1>1. /\ pc[r] = "creating" /\ pc' = [pc EXCEPT ![r] = "preflight"]
      /\ row' = [row EXCEPT ![r] = "running"] /\ running' = r /\ event' = FALSE
      /\ UNCHANGED <<job, outcome, frame, turn, lock, waiters, stopped, agentRow, cut, crowded>>
      /\ UNCHANGED <<stack, depth, prior>>
  BY DEF CreatePlan, stackVars, history
<1>2. {"creating", "preflight"} \subseteq Live \ Awaits /\ {"creating", "preflight"} \subseteq Holding
      /\ "queued" \notin Holding
  BY DEF Live, Before, Holding, Awaits
<1>3. /\ pc' \in [Run -> {"unborn", "delegated", "dropped", "gone"} \cup Live]
      /\ pc'[r] = "preflight" /\ \A q \in Run \ {r} : pc'[q] = pc[q]
  BY <1>1, <1>2, PcType
<1>4. row' \in [Run -> {"none", "running"} \cup Terminal] /\ row'[r] = "running"
      /\ \A q \in Run \ {r} : row'[q] = row[q]
  BY <1>1 DEF IInv, TypeOK
<1>5. TypeOK'
  <2>1. event' \in BOOLEAN
    BY <1>1
  <2> QED
    BY <1>1, <1>3, <1>4, <2>1 DEF IInv, TypeOK
<1>6. Solo(r)
  <2>1. RowOK(r)'
    BY <1>1, <1>3, <1>4 DEF IInv, RowsOK, RowOK, Terminal
  <2> QED
    BY <1>1, <1>2, <1>3, <1>4, <2>1 DEF Solo
<1>7. LockOK'
  <2>1. lock = r /\ \A q \in Run \ {r} : pc[q] \notin Holding
    BY <1>1, <1>2 DEF IInv, LockOK
  <2> QED
    BY <1>1, <1>2, <1>3, <2>1 DEF LockOK
<1>8. QueueOK'
  BY <1>1, <1>3 DEF IInv, QueueOK, Items
<1>9. FramesOK'
  <2>1. Framed' = Framed
    BY <1>1, <1>2, <1>3 DEF Framed
  <2> QED
    BY <1>1, <2>1 DEF IInv, FramesOK
<1> QED
  BY <1>1, <1>5, <1>6, <1>7, <1>8, <1>9, SoloKeeps DEF IInv

\* A step of the plan: it moves on, or it has ended in one of the three ways.
LEMMA DrivenKeeps ==
  ASSUME IInv, NEW r \in Run, NEW x \in {"turn", "acting", "closing"},
         \/ pc[r] \in {"preflight", "turn", "acting"}
         \/ pc[r] = "failing" /\ x = "closing",
         pc' = [pc EXCEPT ![r] = x],
         turn' \in [Run -> 0 .. MaxTurns],
         \/ x # "closing" /\ UNCHANGED <<row, stopped>>
         \/ /\ x = "closing" /\ stopped \subseteq stopped' /\ stopped' \subseteq Run
            /\ \E status \in Terminal :
                 row' = [row EXCEPT ![r] = status] /\ (status = "cancelled" => r \in stopped'),
         UNCHANGED <<job, outcome, frame, lock, waiters, running, event, stack, depth, prior, agentRow, cut, crowded>>
  PROVE  IInv'
<1>1. /\ {"preflight", "turn", "acting", "failing", "closing"} \subseteq Live \ Awaits
      /\ {"preflight", "turn", "acting", "failing", "closing"} \subseteq Holding \ {"creating"}
  BY DEF Live, Before, Holding, Awaits
<1>2. /\ pc' \in [Run -> {"unborn", "delegated", "dropped", "gone"} \cup Live]
      /\ pc'[r] = x /\ \A q \in Run \ {r} : pc'[q] = pc[q]
  BY <1>1, PcType
<1>3. pc[r] \in Holding \ {"creating"} /\ pc'[r] \in Holding \ {"creating"}
  BY <1>1, <1>2
<1>4. /\ row' \in [Run -> {"none", "running"} \cup Terminal]
      /\ \A q \in Run \ {r} : row'[q] = row[q]
      /\ stopped \subseteq stopped' /\ stopped' \subseteq Run
  BY DEF IInv, TypeOK
<1>5. RowOK(r)'
  <2>1. cut'[r] = "no"
    BY DEF IInv, RowsOK, RowOK
  <2>2. CASE x # "closing"
    <3>1. row[r] = "running" /\ row' = row
      BY <2>2 DEF IInv, RowsOK, RowOK
    <3> QED
      BY <1>2, <2>1, <2>2, <3>1 DEF RowOK, Terminal
  <2>3. CASE x = "closing"
    <3>1. row'[r] \in Terminal /\ (row'[r] = "cancelled" => r \in stopped')
      BY <2>3 DEF IInv, TypeOK
    <3> QED
      BY <1>2, <2>1, <2>3, <3>1 DEF RowOK, Terminal
  <2> QED
    BY <2>2, <2>3
<1>6. Solo(r)
  BY <1>1, <1>2, <1>4, <1>5 DEF Solo
<1>7. TypeOK'
  BY <1>2, <1>4 DEF IInv, TypeOK
<1> QED
  BY <1>3, <1>6, <1>7, SoloKeeps, PlanKeeps DEF IInv

LEMMA TurnType == IInv => \A r \in Run : turn[r] \in 0 .. MaxTurns /\ turn[r] \in Nat
BY OrchestratorAssumptions DEF IInv, TypeOK

LEMMA EndKeeps ==
  ASSUME IInv, NEW r \in Run, NEW status \in Terminal,
         pc[r] \in {"preflight", "turn", "acting", "failing"}, End(r, status),
         stopped \subseteq stopped', stopped' \subseteq Run, status = "cancelled" => r \in stopped'
  PROVE  IInv'
<1>1. /\ pc' = [pc EXCEPT ![r] = "closing"] /\ row' = [row EXCEPT ![r] = status]
      /\ turn' = [turn EXCEPT ![r] = 0]
      /\ UNCHANGED <<job, outcome, frame, lock, waiters, running, event, stack, depth, prior, agentRow, cut, crowded>>
  BY DEF End, lockVars, stackVars, history
<1>2. turn' \in [Run -> 0 .. MaxTurns]
  BY <1>1, OrchestratorAssumptions DEF IInv, TypeOK
<1> QED
  BY <1>1, <1>2, DrivenKeeps

LEMMA PlanStepKeeps ==
  ASSUME IInv, NEW r \in Run,
         \/ PassPreflight(r) \/ DeclinePreflight(r) \/ BeginTurn(r) \/ StopAtCheck(r)
         \/ NextTurn(r) \/ Complete(r) \/ FailPlan(r) \/ RereadRaises(r)
  PROVE  IInv'
<1>1. CASE PassPreflight(r)
  BY <1>1, DrivenKeeps DEF PassPreflight, lockVars, stackVars, history, IInv, TypeOK
<1>2. CASE DeclinePreflight(r)
  <2>1. /\ pc[r] = "preflight" /\ stopped' = stopped \cup {r} /\ End(r, "cancelled")
        /\ "cancelled" \in Terminal
    BY <1>2 DEF DeclinePreflight, Terminal
  <2>2. stopped' \subseteq Run
    BY <2>1 DEF IInv, TypeOK
  <2> QED
    BY <2>1, <2>2, EndKeeps
<1>3. CASE BeginTurn(r)
  <2>1. /\ pc[r] = "turn" /\ turn[r] < MaxTurns /\ turn' = [turn EXCEPT ![r] = turn[r] + 1]
        /\ pc' = [pc EXCEPT ![r] = "acting"]
        /\ UNCHANGED <<job, outcome, frame, lock, waiters, running, event, stopped, stack, depth, prior, row, agentRow, cut, crowded>>
    BY <1>3 DEF BeginTurn, lockVars, stackVars, history
  <2>2. turn[r] + 1 \in 0 .. MaxTurns
    BY <2>1, TurnType, OrchestratorAssumptions
  <2>3. turn' \in [Run -> 0 .. MaxTurns]
    BY <2>1, <2>2 DEF IInv, TypeOK
  <2> QED
    BY <2>1, <2>3, DrivenKeeps
<1>4. CASE StopAtCheck(r)
  <2>1. /\ pc[r] \in {"turn", "acting"} /\ event /\ End(r, "cancelled") /\ stopped' = stopped
        /\ "cancelled" \in Terminal
    BY <1>4 DEF StopAtCheck, Terminal
  <2>2. running = r /\ r \in stopped
    BY <2>1 DEF IInv, LockOK, Holding
  <2>3. stopped' \subseteq Run
    BY <2>1 DEF IInv, TypeOK
  <2> QED
    BY <2>1, <2>2, <2>3, EndKeeps
<1>5. CASE NextTurn(r)
  BY <1>5, DrivenKeeps DEF NextTurn, lockVars, stackVars, history, IInv, TypeOK
<1>6. CASE Complete(r)
  <2>1. /\ pc[r] \in {"turn", "acting"} /\ End(r, "completed") /\ stopped' = stopped
        /\ "completed" \in Terminal
    BY <1>6 DEF Complete, Terminal
  <2>2. stopped' \subseteq Run
    BY <2>1 DEF IInv, TypeOK
  <2> QED
    BY <2>1, <2>2, EndKeeps
<1>7. CASE FailPlan(r)
  <2>1. /\ pc[r] \in {"preflight", "acting", "failing"} /\ End(r, "failed") /\ stopped' = stopped
        /\ "failed" \in Terminal
    BY <1>7 DEF FailPlan, Terminal
  <2>2. stopped' \subseteq Run
    BY <2>1 DEF IInv, TypeOK
  <2> QED
    BY <2>1, <2>2, EndKeeps
<1>8. CASE RereadRaises(r)
  <2>1. /\ pc[r] = "closing" /\ row[r] = "completed" /\ pc' = [pc EXCEPT ![r] = "failing"]
        /\ UNCHANGED <<job, outcome, frame, turn, lock, waiters, running, event, stopped, stack, depth, prior, row, agentRow, cut, crowded>>
    BY <1>8 DEF RereadRaises, lockVars, stackVars, history
  <2>2. {"closing", "failing"} \subseteq Live \ Awaits /\ {"closing", "failing"} \subseteq Holding \ {"creating"}
    BY DEF Live, Before, Holding, Awaits
  <2>3. /\ pc' \in [Run -> {"unborn", "delegated", "dropped", "gone"} \cup Live]
        /\ pc'[r] = "failing" /\ \A q \in Run \ {r} : pc'[q] = pc[q]
    BY <2>1, <2>2, PcType
  <2>4. RowOK(r)'
    BY <2>1, <2>3 DEF IInv, RowsOK, RowOK, Terminal
  <2>5. Solo(r)
    BY <2>1, <2>2, <2>3, <2>4 DEF Solo
  <2>6. TypeOK'
    BY <2>1, <2>3 DEF IInv, TypeOK
  <2> QED
    BY <2>1, <2>2, <2>3, <2>5, <2>6, SoloKeeps, PlanKeeps DEF IInv
<1> QED
  BY <1>1, <1>2, <1>3, <1>4, <1>5, <1>6, <1>7, <1>8

\* A queued delegation is in the top frame, and was in no other.
LEMMA DelegateKeeps ==
  ASSUME IInv, NEW r \in Run, NEW c \in Delegated, NEW a \in Agent, Delegate(r, c, a)
  PROVE  IInv'
<1>1. /\ pc[r] = "acting" /\ pc[c] = "unborn" /\ c \in Run /\ r # c /\ stack # <<>>
      /\ pc' = [pc EXCEPT ![c] = "delegated"]
      /\ job' = [job EXCEPT ![c] = [NoJob EXCEPT !.agent = a, !.depth = depth + 1, !.by = r]]
      /\ stack' = [stack EXCEPT ![Len(stack)] = Append(stack[Len(stack)], c)]
      /\ UNCHANGED <<outcome, frame, turn, lock, waiters, running, event, stopped, depth, prior, row, agentRow, cut, crowded>>
  BY DEF Delegate, Queue, lockVars, Run, history
<1>2. /\ pc' \in [Run -> {"unborn", "delegated", "dropped", "gone"} \cup Live]
      /\ pc'[c] = "delegated" /\ \A q \in Run \ {c} : pc'[q] = pc[q]
  BY <1>1, PcType
<1>3. PICK n : n = Len(stack)
  OBVIOUS
<1>4. /\ n \in Frames /\ n \in Nat /\ Frames' = Frames /\ Len(stack') = n
      /\ stack[n] \in Seq(Delegated) /\ stack' \in Seq(Seq(Delegated))
      /\ stack'[n] = Append(stack[n], c) /\ \A i \in Frames \ {n} : stack'[i] = stack[i]
  <2>1. stack \in Seq(Seq(Delegated))
    BY DEF IInv, TypeOK
  <2>2. n \in 1 .. Len(stack) /\ n \in Nat /\ stack[n] \in Seq(Delegated)
    BY <1>1, <1>3, <2>1
  <2>3. Append(stack[n], c) \in Seq(Delegated)
    BY <2>2
  <2>4. /\ stack' \in Seq(Seq(Delegated)) /\ Len(stack') = n
        /\ stack'[n] = Append(stack[n], c) /\ \A i \in (1 .. Len(stack)) \ {n} : stack'[i] = stack[i]
    BY <1>1, <1>3, <2>1, <2>2, <2>3
  <2> QED
    BY <1>3, <2>2, <2>4 DEF Frames
<1>5. /\ job' \in [Run -> JobRecord] /\ \A q \in Run \ {c} : job'[q] = job[q]
      /\ job'[c].host = NoRun /\ job'[c].agent # NoAgent
  <2>1. depth + 1 \in Nat
    BY DEF IInv, TypeOK
  <2>2. NoJob \in JobRecord /\ NoJob.host = NoRun
    BY DEF NoJob, JobRecord
  <2>3. PICK x : x = [NoJob EXCEPT !.agent = a, !.depth = depth + 1, !.by = r]
    OBVIOUS
  <2>4. x \in JobRecord /\ x.host = NoRun /\ x.agent = a
    BY <2>1, <2>2, <2>3 DEF JobRecord
  <2>5. job' = [job EXCEPT ![c] = x]
    BY <1>1, <2>3
  <2>6. job'[c] = x
    BY <1>1, <2>5 DEF IInv, TypeOK
  <2> QED
    BY ZenonT(30), <1>1, <2>4, <2>5, <2>6, OrchestratorAssumptions DEF IInv, TypeOK
<1>6. TypeOK'
  BY <1>1, <1>2, <1>4, <1>5 DEF IInv, TypeOK
<1>7. \A q \in Run : (pc'[q] \in Live <=> pc[q] \in Live) /\ (pc[q] \in Live => q # c)
                     /\ (pc[q] = "handing" => pc'[q] = "handing")
  BY <1>1, <1>2, StageNames
<1>8. LockOK' /\ QueueOK' /\ Framed' = Framed
  <2>1. \A q \in Run : (pc'[q] \in Holding <=> pc[q] \in Holding)
                       /\ (pc[q] \in Holding \cup {"queued"} => pc'[q] = pc[q])
                       /\ (pc'[q] = "queued" <=> pc[q] = "queued")
    BY <1>1, <1>2, StageNames
  <2>2. lock \in Run \cup {NoRun}
    BY DEF IInv, TypeOK
  <2>3. LockOK'
    BY <1>1, <2>1, <2>2 DEF IInv, LockOK
  <2>4. QueueOK'
    BY <1>1, <2>1 DEF IInv, QueueOK, Items
  <2> QED
    BY <1>1, <2>1, <2>3, <2>4 DEF Framed
<1>9. RowsOK'
  <2>1. RowOK(c)'
    BY <1>1, <1>2 DEF IInv, RowsOK, RowOK, Terminal
  <2>2. ASSUME NEW q \in Run \ {c} PROVE RowOK(q)'
    BY <1>1, <1>2, <2>2 DEF IInv, RowsOK, RowOK
  <2> QED
    BY <2>1, <2>2 DEF RowsOK
<1>10. HostOK'
  <2>1. \A q \in Run : job[q].host \in Run \cup {NoRun}
    BY DEF IInv, TypeOK, JobRecord
  <2>2. \A q \in Run : pc'[q] \in {"delegated", "unborn"} => q = c \/ pc[q] \in {"delegated", "unborn"}
    BY <1>2
  <2> QED
    BY <1>5, <1>7, <2>1, <2>2 DEF IInv, HostOK
<1>11. HeldOK'
  <2>1. /\ \A q \in Run : c \notin Items(frame[q])
        /\ \A i \in Frames : c \notin Items(stack[i])
    BY <1>1 DEF IInv, HeldOK
  <2>2. /\ Items(stack'[n]) = Items(stack[n]) \cup {c}
        /\ Distinct(stack'[n])
    BY <1>4, <2>1, AppendItems DEF IInv, HeldOK
  <2>3. \A i \in Frames : Items(stack[i]) \subseteq Items(stack'[i])
                          /\ Items(stack'[i]) \subseteq Items(stack[i]) \cup {c}
                          /\ (i # n => stack'[i] = stack[i])
    BY <1>4, <2>2
  <2>4. \A i \in Frames : Distinct(stack'[i])
    BY <1>4, <2>2 DEF IInv, HeldOK
  <2>5. \A i, k \in Frames : i # k => Items(stack'[i]) \cap Items(stack'[k]) = {}
    <3>1. ASSUME NEW i \in Frames, NEW k \in Frames, i # k
          PROVE Items(stack'[i]) \cap Items(stack'[k]) = {}
      <4>1. Items(stack[i]) \cap Items(stack[k]) = {} /\ c \notin Items(stack[i]) /\ c \notin Items(stack[k])
        BY <2>1, <3>1 DEF IInv, HeldOK
      <4>2. i # n \/ k # n
        BY <3>1
      <4> QED
        BY <2>3, <4>1, <4>2
    <3> QED
      BY <3>1
  <2>6. \A q \in Run, i \in Frames : Items(frame[q]) \cap Items(stack'[i]) = {}
    BY <2>1, <2>3 DEF IInv, HeldOK
  <2>7. \A q \in Run : pc'[q] = "delegated" <=> \/ \E p \in Run : q \in Items(frame[p])
                                                \/ \E i \in Frames : q \in Items(stack'[i])
    <3>1. c \in Items(stack'[n]) /\ n \in Frames
      BY <1>4, <2>2
    <3>2. ASSUME NEW q \in Run \ {c}
          PROVE (\E i \in Frames : q \in Items(stack'[i])) <=> (\E i \in Frames : q \in Items(stack[i]))
      BY <2>3, <3>2
    <3>3. \A q \in Run \ {c} : pc'[q] = "delegated" <=> pc[q] = "delegated"
      BY <1>2
    <3> QED
      BY <1>2, <3>1, <3>2, <3>3 DEF IInv, HeldOK
  <2>8. \A q \in Run : /\ frame[q] # <<>> => pc'[q] \in {"draining", "handing"}
                       /\ pc'[q] = "draining" => frame[q] # <<>>
    BY <1>1, <1>2 DEF IInv, HeldOK
  <2>9. \A q \in Run : Distinct(frame[q])
    BY DEF IInv, HeldOK
  <2>10. \A p, q \in Run : p # q => Items(frame[p]) \cap Items(frame[q]) = {}
    BY DEF IInv, HeldOK
  <2> QED
    BY ZenonT(30), <1>1, <1>4, <2>4, <2>5, <2>6, <2>7, <2>8, <2>9, <2>10 DEF HeldOK
<1>12. FramesOK'
  BY <1>3, <1>4, <1>8 DEF IInv, FramesOK
<1>13. BornOK'
  <2>1. c \notin Top
    BY OrchestratorAssumptions
  <2> QED
    BY ZenonT(30), <1>2, <1>5, <2>1 DEF IInv, BornOK, TopJob
<1> QED
  BY <1>6, <1>8, <1>9, <1>10, <1>11, <1>12, <1>13 DEF IInv

\* The plan is over, and its frame is the run's.
LEMMA CloseKeeps ==
  ASSUME IInv, NEW r \in Run, Close(r)
  PROVE  IInv'
<1>1. PICK mine : mine = stack[Len(stack)]
  OBVIOUS
<1>2. PICK x : x = IF mine = <<>> THEN Ended(r) ELSE "draining"
  OBVIOUS
<1>3. /\ pc[r] = "closing" /\ running' = NoRun /\ event' = FALSE /\ lock' = NoRun
      /\ stack' = SubSeq(stack, 1, Len(stack) - 1)
      /\ frame' = [frame EXCEPT ![r] = mine]
      /\ depth' = prior[r] /\ prior' = [prior EXCEPT ![r] = 0]
      /\ pc' = [pc EXCEPT ![r] = x]
      /\ outcome' = [outcome EXCEPT ![r] = "ok"]
      /\ UNCHANGED <<job, turn, waiters, stopped, row, agentRow, cut, crowded>>
  BY <1>1, <1>2 DEF Close, Finish, TopFrame, Below, history
<1>4. /\ x \in {"gone", "leaving", "draining"} /\ (x = "draining" <=> mine # <<>>)
      /\ (x = "leaving" => job[r].agent # NoAgent)
  BY <1>2, EndedType
<1>5. "closing" \in Holding /\ "closing" \in Live /\ "closing" # "queued"
      /\ {"leaving", "draining"} \subseteq Live
      /\ {"gone", "leaving", "draining"} \cap (Holding \cup {"queued"}) = {}
  BY StageNames DEF Live, Holding
<1>6. /\ pc' \in [Run -> {"unborn", "delegated", "dropped", "gone"} \cup Live]
      /\ pc'[r] = x /\ \A q \in Run \ {r} : pc'[q] = pc[q]
  BY <1>3, <1>4, <1>5, PcType
<1>7. Framed' = Framed \ {r} /\ r \in Framed
  <2>1. cut' = cut /\ cut[r] = "no"
    BY <1>3 DEF IInv, RowsOK, RowOK
  <2> QED
    BY <1>3, <1>4, <1>5, <1>6, <2>1 DEF Framed
<1>8. Cardinality(Framed') = Cardinality(Framed) - 1 /\ Cardinality(Framed) >= 1
  <2>1. Cardinality(Framed') = Cardinality(Framed) - 1 /\ Cardinality(Framed') \in Nat
    <3>1. IsFiniteSet(Framed \ {r}) /\ Cardinality(Framed \ {r}) = Cardinality(Framed) - 1
      BY <1>7, FramedFinite, FS_RemoveElement
    <3> QED
      BY <1>7, <3>1, FS_CardinalityType
  <2> QED
    BY <2>1, FramedFinite
<1>9. PICK n : n = Len(stack)
  OBVIOUS
<1>10. /\ n \in Nat /\ n >= 1 /\ mine = stack[n] /\ mine \in Seq(Delegated)
       /\ stack' \in Seq(Seq(Delegated)) /\ Len(stack') = n - 1
       /\ Frames' = Frames \ {n} /\ n \in Frames /\ \A i \in Frames' : stack'[i] = stack[i]
  <2>1. stack \in Seq(Seq(Delegated)) /\ n \in Nat /\ n >= 1
    BY <1>8, <1>9, FramedFinite DEF IInv, TypeOK, FramesOK
  <2>2. /\ stack' \in Seq(Seq(Delegated)) /\ Len(stack') = n - 1
        /\ \A i \in 1 .. n - 1 : stack'[i] = stack[i]
    BY <1>3, <1>9, <2>1
  <2>3. 1 .. n - 1 = (1 .. n) \ {n} /\ n \in 1 .. n
    BY <2>1
  <2>4. stack[n] \in Seq(Delegated)
    BY <1>9, <2>1
  <2> QED
    BY <1>1, <1>9, <2>1, <2>2, <2>3, <2>4 DEF Frames
<1>11. TypeOK'
  <2>1. frame' \in [Run -> Seq(Delegated)]
    BY <1>3, <1>10 DEF IInv, TypeOK
  <2>2. prior' \in [Run -> Nat] /\ depth' \in Nat
    BY <1>3 DEF IInv, TypeOK
  <2>3. outcome' \in [Run -> {"none", "ok", "busy", "failed", "timed"}]
    BY <1>3 DEF IInv, TypeOK
  <2>4. event' \in BOOLEAN
    BY <1>3
  <2> QED
    BY <1>3, <1>6, <1>10, <2>1, <2>2, <2>3, <2>4 DEF IInv, TypeOK
<1>12. LockOK' /\ QueueOK'
  <2>1. \A q \in Run : pc'[q] \notin Holding
    BY <1>3, <1>4, <1>5, <1>6 DEF IInv, LockOK
  <2>2. LockOK'
    BY <1>3, <2>1 DEF LockOK
  <2>3. QueueOK'
    BY <1>3, <1>4, <1>5, <1>6 DEF IInv, QueueOK, Items
  <2> QED
    BY <2>2, <2>3
<1>13. RowsOK'
  <2>1. RowOK(r)'
    BY <1>3, <1>4, <1>6 DEF IInv, RowsOK, RowOK, Terminal
  <2>2. ASSUME NEW q \in Run \ {r} PROVE RowOK(q)'
    BY <1>3, <1>6, <2>2 DEF IInv, RowsOK, RowOK
  <2> QED
    BY <2>1, <2>2 DEF RowsOK
<1>14. HostOK'
  <2>1. \A q \in Run : (pc'[q] \in Live => pc[q] \in Live)
                       /\ (pc[q] = "handing" => pc'[q] = "handing")
                       /\ (pc'[q] \in {"delegated", "unborn"} => pc[q] \in {"delegated", "unborn"})
    BY <1>3, <1>4, <1>5, <1>6
  <2>2. \A q \in Run : job[q].host \in Run \cup {NoRun}
    BY DEF IInv, TypeOK, JobRecord
  <2> QED
    BY <1>3, <2>1, <2>2 DEF IInv, HostOK
<1>15. HeldOK'
  <2>1. /\ frame[r] = <<>> /\ frame'[r] = mine /\ \A q \in Run \ {r} : frame'[q] = frame[q]
    <3>1. frame \in [Run -> Seq(Delegated)] /\ frame' = [frame EXCEPT ![r] = mine]
      BY <1>3 DEF IInv, TypeOK
    <3>2. pc[r] = "closing"
      BY <1>3
    <3>3. frame[r] = <<>>
      BY <3>2 DEF IInv, HeldOK
    <3> QED
      BY <3>1, <3>3
  <2>2. \A i \in Frames' : i \in Frames /\ i # n /\ stack'[i] = stack[i]
    BY <1>10
  <2>3. \A i \in Frames' : Distinct(stack'[i])
    BY <2>2 DEF IInv, HeldOK
  <2>4. \A i, k \in Frames' : i # k => Items(stack'[i]) \cap Items(stack'[k]) = {}
    BY <2>2 DEF IInv, HeldOK
  <2>5. \A q \in Run : Distinct(frame'[q])
    BY <1>10, <2>1 DEF IInv, HeldOK
  <2>6. \A p, q \in Run : p # q => Items(frame'[p]) \cap Items(frame'[q]) = {}
    <3>1. \A q \in Run : Items(frame[q]) \cap Items(mine) = {}
      BY <1>10 DEF IInv, HeldOK
    <3>2. \A p, q \in Run : p # q => Items(frame[p]) \cap Items(frame[q]) = {}
      BY DEF IInv, HeldOK
    <3> QED
      BY <2>1, <3>1, <3>2
  <2>7. \A q \in Run, i \in Frames' : Items(frame'[q]) \cap Items(stack'[i]) = {}
    <3>1. \A i \in Frames' : Items(mine) \cap Items(stack'[i]) = {}
      BY <1>10, <2>2 DEF IInv, HeldOK
    <3>2. \A q \in Run, i \in Frames' : Items(frame[q]) \cap Items(stack'[i]) = {}
      BY <2>2 DEF IInv, HeldOK
    <3> QED
      BY <2>1, <3>1, <3>2
  <2>8. \A c \in Run : pc'[c] = "delegated" <=> \/ \E q \in Run : c \in Items(frame'[q])
                                                \/ \E i \in Frames' : c \in Items(stack'[i])
    <3> TAKE c \in Run
    <3>1. Items(<<>>) = {}
      BY DEF Items
    <3>2. pc'[c] = "delegated" <=> pc[c] = "delegated"
      BY <1>3, <1>4, <1>6
    <3>3. (\E q \in Run : c \in Items(frame'[q])) <=> (c \in Items(mine) \/ \E q \in Run : c \in Items(frame[q]))
      BY <2>1, <3>1
    <3>4. (\E i \in Frames : c \in Items(stack[i])) <=> (c \in Items(mine) \/ \E i \in Frames' : c \in Items(stack'[i]))
      BY <1>10
    <3> QED
      BY <3>2, <3>3, <3>4 DEF IInv, HeldOK
  <2>9. \A q \in Run : /\ frame'[q] # <<>> => pc'[q] \in {"draining", "handing"}
                       /\ pc'[q] = "draining" => frame'[q] # <<>>
    BY <1>4, <1>6, <2>1 DEF IInv, HeldOK
  <2> QED
    BY <2>3, <2>4, <2>5, <2>6, <2>7, <2>8, <2>9 DEF HeldOK
<1>16. FramesOK'
  BY <1>8, <1>9, <1>10, FramedFinite DEF IInv, FramesOK
<1>17. BornOK'
  BY <1>3, <1>4, <1>6 DEF IInv, BornOK
<1> QED
  BY <1>11, <1>12, <1>13, <1>14, <1>15, <1>16, <1>17 DEF IInv

-----------------------------------------------------------------------------
(***************************************************************************)
(* Hand-offs, returns and what comes from outside.                         *)
(***************************************************************************)
\* Where the delegations of a frame are.
LEMMA InFrame ==
  ASSUME IInv, NEW r \in Run
  PROVE  /\ frame[r] \in Seq(Delegated) /\ Items(frame[r]) \subseteq Run
         /\ \A c \in Items(frame[r]) : pc[c] = "delegated"
         /\ frame[r] # <<>> => pc[r] \in {"draining", "handing"}
<1>1. frame[r] \in Seq(Delegated)
  BY DEF IInv, TypeOK
<1>2. Items(frame[r]) \subseteq Delegated
  BY <1>1, SeqItems
<1> QED
  BY <1>1, <1>2 DEF IInv, HeldOK, Run

LEMMA HandOffKeeps ==
  ASSUME IInv, NEW r \in Run, HandOff(r)
  PROVE  IInv'
<1>1. PICK c : c = Head(frame[r])
  OBVIOUS
<1>2. /\ pc[r] = "draining"
      /\ frame' = [frame EXCEPT ![r] = Tail(frame[r])]
      /\ job' = [job EXCEPT ![c] = [job[c] EXCEPT !.host = r, !.root = job[r].root]]
      /\ pc' = [pc EXCEPT ![r] = "handing", ![c] = "starting"]
      /\ UNCHANGED <<outcome, turn, lock, waiters, running, event, stopped, stack, depth, prior, row, agentRow, cut, crowded>>
  BY <1>1 DEF HandOff, lockVars, stackVars, history
<1>3. /\ c \in Run /\ c \in Delegated /\ pc[c] = "delegated" /\ c # r
      /\ frame[r] \in Seq(Delegated) /\ Tail(frame[r]) \in Seq(Delegated)
      /\ Items(frame[r]) = Items(Tail(frame[r])) \cup {c}
      /\ Distinct(Tail(frame[r])) /\ c \notin Items(Tail(frame[r]))
  <2>1. frame[r] # <<>> /\ Distinct(frame[r])
    BY <1>2 DEF IInv, HeldOK
  <2>2. frame[r] \in Seq(Delegated)
    BY InFrame
  <2>3. /\ c \in Items(frame[r]) /\ c \in Delegated /\ Tail(frame[r]) \in Seq(Delegated)
        /\ Items(frame[r]) = Items(Tail(frame[r])) \cup {c}
        /\ Distinct(Tail(frame[r])) /\ c \notin Items(Tail(frame[r]))
    BY <1>1, <2>1, <2>2, SeqItems
  <2>4. pc[c] = "delegated"
    BY <2>3, InFrame
  <2> QED
    BY <1>2, <2>2, <2>3, <2>4 DEF Run
<1>4. {"handing", "starting", "draining"} \subseteq Live
      /\ {"handing", "starting", "draining", "delegated"} \cap (Holding \cup {"queued"}) = {}
  BY StageNames
<1>5. /\ pc' \in [Run -> {"unborn", "delegated", "dropped", "gone"} \cup Live]
      /\ pc'[r] = "handing" /\ pc'[c] = "starting" /\ \A q \in Run \ {r, c} : pc'[q] = pc[q]
  BY <1>2, <1>3, <1>4 DEF IInv, TypeOK
<1>6. /\ job' \in [Run -> JobRecord] /\ \A q \in Run \ {c} : job'[q] = job[q]
      /\ job'[c].host = r /\ job'[c].agent = job[c].agent
  <2>1. job[c] \in JobRecord /\ job[r].root \in Run \cup {NoRun}
    BY <1>3 DEF IInv, TypeOK, JobRecord
  <2>2. PICK x : x = [job[c] EXCEPT !.host = r, !.root = job[r].root]
    OBVIOUS
  <2>3. x \in JobRecord /\ x.host = r /\ x.agent = job[c].agent
    BY <2>1, <2>2 DEF JobRecord
  <2>4. job' = [job EXCEPT ![c] = x]
    BY <1>2, <2>2
  <2>5. job'[c] = x
    BY <1>3, <2>4 DEF IInv, TypeOK
  <2> QED
    BY <1>3, <2>3, <2>4, <2>5 DEF IInv, TypeOK
<1>7. /\ frame' \in [Run -> Seq(Delegated)] /\ frame'[r] = Tail(frame[r])
      /\ \A q \in Run \ {r} : frame'[q] = frame[q]
  BY <1>2, <1>3 DEF IInv, TypeOK
<1>8. TypeOK'
  BY <1>2, <1>5, <1>6, <1>7 DEF IInv, TypeOK
<1>9. LockOK' /\ QueueOK' /\ Framed' = Framed
  <2>1. \A q \in Run : (pc'[q] \in Holding \cup {"queued"} <=> pc[q] \in Holding \cup {"queued"})
                       /\ (pc[q] \in Holding \cup {"queued"} => pc'[q] = pc[q])
    BY <1>2, <1>3, <1>4, <1>5
  <2>2. lock \in Run \cup {NoRun} /\ "queued" \notin Holding
    BY StageNames DEF IInv, TypeOK
  <2>3. LockOK'
    BY <1>2, <2>1, <2>2 DEF IInv, LockOK
  <2>4. QueueOK'
    BY <1>2, <2>1 DEF IInv, QueueOK, Items
  <2> QED
    BY <1>2, <2>1, <2>3, <2>4 DEF Framed
<1>10. RowsOK'
  <2>1. RowOK(c)' /\ RowOK(r)'
    BY <1>2, <1>3, <1>5 DEF IInv, RowsOK, RowOK, Terminal
  <2>2. ASSUME NEW q \in Run \ {r, c} PROVE RowOK(q)'
    BY <1>2, <1>5, <2>2 DEF IInv, RowsOK, RowOK
  <2> QED
    BY <2>1, <2>2 DEF RowsOK
<1>11. HostOK'
  <2>1. \A q \in Run : job[q].host \in Run \cup {NoRun}
    BY DEF IInv, TypeOK, JobRecord
  <2>2. \A q \in Run \ {c} : pc'[q] \in Live => pc[q] \in Live
    BY <1>2, <1>4, <1>5
  <2>3. \A q \in Run : pc[q] = "handing" => pc'[q] = "handing"
    BY <1>2, <1>3, <1>5
  <2>4. \A q \in Run : pc[q] \in Live => job[q].host # r
    BY <1>2, OrchestratorAssumptions DEF IInv, HostOK
  <2>5. \A q \in Run : pc'[q] \in {"delegated", "unborn"} => q # c /\ pc[q] \in {"delegated", "unborn"}
    BY <1>5
  <2>6. \A q \in Run : pc'[q] \in Live /\ job'[q].host # NoRun => pc'[job'[q].host] = "handing"
    BY <1>5, <1>6, <2>1, <2>2, <2>3 DEF IInv, HostOK
  <2>7. \A p, q \in Run : pc'[p] \in Live /\ pc'[q] \in Live /\ job'[p].host = job'[q].host
                            /\ job'[p].host # NoRun => p = q
    BY <1>6, <2>2, <2>4 DEF IInv, HostOK
  <2>8. \A q \in Run : pc'[q] \in {"delegated", "unborn"} => job'[q].host = NoRun
    BY <1>6, <2>5 DEF IInv, HostOK
  <2> QED
    BY <2>6, <2>7, <2>8 DEF HostOK
<1>12. HeldOK'
  <2>1. \A q \in Run : Items(frame'[q]) \subseteq Items(frame[q])
    BY <1>3, <1>7
  <2>2. \A q \in Run : Distinct(frame'[q])
    BY <1>3, <1>7 DEF IInv, HeldOK
  <2>3. \A p, q \in Run : p # q => Items(frame'[p]) \cap Items(frame'[q]) = {}
    BY <2>1 DEF IInv, HeldOK
  <2>4. \A q \in Run, i \in Frames : Items(frame'[q]) \cap Items(stack[i]) = {}
    BY <2>1 DEF IInv, HeldOK
  <2>5. \A q \in Run : pc'[q] = "delegated" <=> \/ \E p \in Run : q \in Items(frame'[p])
                                                \/ \E i \in Frames : q \in Items(stack[i])
    <3>1. c \in Items(frame[r])
      BY <1>3
    <3>2. /\ \A p \in Run : c \notin Items(frame'[p])
          /\ \A i \in Frames : c \notin Items(stack[i])
      <4>1. \A p \in Run \ {r} : c \notin Items(frame[p])
        BY <3>1 DEF IInv, HeldOK
      <4>2. \A i \in Frames : c \notin Items(stack[i])
        BY <3>1 DEF IInv, HeldOK
      <4> QED
        BY <1>3, <1>7, <4>1, <4>2
    <3>3. \A q \in Run \ {c}, p \in Run : q \in Items(frame'[p]) <=> q \in Items(frame[p])
      BY <1>3, <1>7
    <3>4. \A q \in Run \ {c} : pc'[q] = "delegated" <=> pc[q] = "delegated"
      BY <1>2, <1>5
    <3>5. \A q \in Run \ {c} : pc'[q] = "delegated" <=> \/ \E p \in Run : q \in Items(frame'[p])
                                                        \/ \E i \in Frames : q \in Items(stack[i])
      BY <3>3, <3>4 DEF IInv, HeldOK
    <3> QED
      BY <1>5, <3>2, <3>5
  <2>6. \A q \in Run : /\ frame'[q] # <<>> => pc'[q] \in {"draining", "handing"}
                       /\ pc'[q] = "draining" => frame'[q] # <<>>
    <3>1. frame[c] = <<>>
      BY <1>3, InFrame
    <3> QED
      BY <1>3, <1>5, <1>7, <3>1 DEF IInv, HeldOK
  <2>7. Frames' = Frames /\ stack' = stack
    BY <1>2 DEF Frames
  <2>8. /\ \A i \in Frames : Distinct(stack[i])
        /\ \A i, k \in Frames : i # k => Items(stack[i]) \cap Items(stack[k]) = {}
    BY DEF IInv, HeldOK
  <2> QED
    BY <2>2, <2>3, <2>4, <2>5, <2>6, <2>7, <2>8 DEF HeldOK
<1>13. FramesOK'
  BY <1>2, <1>9 DEF IInv, FramesOK
<1>14. BornOK'
  <2>1. c \notin Top
    BY <1>3, OrchestratorAssumptions
  <2> QED
    BY <1>2, <1>3, <1>5, <1>6, <2>1 DEF IInv, BornOK, TopJob
<1> QED
  BY <1>8, <1>9, <1>10, <1>11, <1>12, <1>13, <1>14 DEF IInv

\* r returns: the run that awaits it goes on, or drops what it still holds.
LEMMA ReturnKeeps ==
  ASSUME IInv, NEW r \in Run, NEW out \in {"none", "ok", "busy", "failed", "timed"},
         pc[r] \in {"starting", "leaving"}, Return(r, out),
         UNCHANGED <<job, turn, lock, waiters, running, event, stopped, stack, depth, prior, row>>,
         UNCHANGED <<cut, crowded>>, agentRow' \in [Agent -> {"ready", "running"}]
  PROVE  IInv'
<1>1. PICK h : h = job[r].host
  OBVIOUS
<1>2. PICK rest : rest = IF h = NoRun \/ out = "ok" THEN {} ELSE Items(frame[h])
  OBVIOUS
<1>3. PICK next : next = IF out = "ok" /\ frame[h] # <<>> THEN "draining" ELSE Ended(h)
  OBVIOUS
<1>4. PICK kept : kept = IF out = "timed" THEN "timed" ELSE "ok"
  OBVIOUS
<1>5. /\ pc' = [q \in Run |-> CASE q = r -> "gone" [] q = h -> next
                                [] q \in rest -> "dropped" [] OTHER -> pc[q]]
      /\ outcome' = [q \in Run |-> CASE q = r -> out [] q = h -> kept [] OTHER -> outcome[q]]
      /\ frame' = [q \in Run |-> IF q = h /\ out # "ok" THEN <<>> ELSE frame[q]]
  BY <1>1, <1>2, <1>3, <1>4 DEF Return
<1>6. h \in Run \cup {NoRun} /\ (h # NoRun => h \in Run /\ pc[h] = "handing" /\ h # r)
  <2>1. h \in Run \cup {NoRun}
    BY <1>1 DEF IInv, TypeOK, JobRecord
  <2>2. pc[r] \in Live
    BY StageNames
  <2> QED
    BY <1>1, <2>1, <2>2 DEF IInv, HostOK
<1>7. /\ rest \subseteq Run /\ \A q \in rest : pc[q] = "delegated"
      /\ r \notin rest /\ h \notin rest
  <2>1. rest \subseteq Run /\ \A q \in rest : pc[q] = "delegated"
    BY <1>2, <1>6, InFrame
  <2> QED
    BY <1>6, <2>1, OrchestratorAssumptions
<1>8. h # NoRun => /\ next \in {"draining", "gone", "leaving"}
                   /\ next = "leaving" => job[h].agent # NoAgent
                   /\ next = "draining" <=> (out = "ok" /\ frame[h] # <<>>)
  BY <1>3, <1>6, EndedType
<1>9. {"starting", "leaving", "draining", "handing"} \subseteq Live
      /\ {"starting", "leaving", "draining", "handing", "gone", "dropped", "delegated"} \cap (Holding \cup {"queued"}) = {}
      /\ {"gone", "dropped", "delegated", "unborn"} \cap Live = {}
  BY StageNames
<1>10. /\ pc'[r] = "gone" /\ (h # NoRun => pc'[h] = next)
       /\ \A q \in rest : pc'[q] = "dropped"
       /\ \A q \in Run : q # r /\ q # h /\ q \notin rest => pc'[q] = pc[q]
  <2>1. pc'[r] = "gone" /\ (h # NoRun => pc'[h] = next)
    <3>1. pc'[r] = "gone"
      <4>1. r # h /\ r \notin rest
        BY <1>6, <1>7, OrchestratorAssumptions
      <4> QED
        BY <1>5, <4>1
    <3>2. ASSUME h # NoRun PROVE pc'[h] = next
      <4>1. h \in Run /\ h # r /\ h \notin rest
        BY <1>6, <1>7, <3>2
      <4> QED
        BY <1>5, <4>1
    <3> QED
      BY <3>1, <3>2
  <2>2. \A q \in Run : q # r /\ q # h /\ q \notin rest => pc'[q] = pc[q]
    BY <1>5
  <2>3. \A q \in Run : q # r /\ q # h /\ q \in rest => pc'[q] = "dropped"
    BY <1>5
  <2> QED
    BY <1>7, <2>1, <2>2, <2>3
<1>11. pc' \in [Run -> {"unborn", "delegated", "dropped", "gone"} \cup Live]
  <2>1. ASSUME NEW q \in Run PROVE pc'[q] \in {"unborn", "delegated", "dropped", "gone"} \cup Live
    <3>1. CASE q = r
      BY <1>10, <3>1
    <3>2. CASE q = h
      BY <1>6, <1>8, <1>9, <1>10, <3>2, OrchestratorAssumptions
    <3>3. CASE q \in rest
      BY <1>10, <3>3
    <3>4. CASE q # r /\ q # h /\ q \notin rest
      BY <1>10, <3>4 DEF IInv, TypeOK
    <3> QED
      BY <3>1, <3>2, <3>3, <3>4
  <2>2. pc' = [q \in Run |-> pc'[q]]
    BY <1>5
  <2> QED
    BY <2>1, <2>2
<1>12. TypeOK'
  <2>1. outcome' \in [Run -> {"none", "ok", "busy", "failed", "timed"}]
    <3>1. kept \in {"ok", "timed"}
      BY <1>4
    <3>2. \A q \in Run : outcome[q] \in {"none", "ok", "busy", "failed", "timed"}
      BY DEF IInv, TypeOK
    <3> QED
      BY <1>5, <3>1, <3>2
  <2>2. frame' \in [Run -> Seq(Delegated)]
    <3>1. <<>> \in Seq(Delegated)
      OBVIOUS
    <3> QED
      BY <1>5, <3>1 DEF IInv, TypeOK
  <2> QED
    BY <1>11, <2>1, <2>2 DEF IInv, TypeOK
<1>13. LockOK' /\ QueueOK' /\ Framed' = Framed
  <2>1. \A q \in Run : (pc'[q] \in Holding \cup {"queued"} <=> pc[q] \in Holding \cup {"queued"})
                       /\ (pc[q] \in Holding \cup {"queued"} => pc'[q] = pc[q])
    <3> TAKE q \in Run
    <3>1. CASE q = r
      BY <1>9, <1>10, <3>1
    <3>2. CASE q = h
      BY <1>6, <1>8, <1>9, <1>10, <3>2, OrchestratorAssumptions
    <3>3. CASE q \in rest
      BY <1>7, <1>9, <1>10, <3>3
    <3>4. CASE q # r /\ q # h /\ q \notin rest
      BY <1>10, <3>4
    <3> QED
      BY <3>1, <3>2, <3>3, <3>4
  <2>2. lock \in Run \cup {NoRun} /\ "queued" \notin Holding
    BY StageNames DEF IInv, TypeOK
  <2>3. LockOK'
    BY <2>1, <2>2 DEF IInv, LockOK
  <2>4. QueueOK'
    BY <2>1 DEF IInv, QueueOK, Items
  <2> QED
    BY <2>1, <2>3, <2>4 DEF Framed
<1>14. RowsOK'
  <2>1. ASSUME NEW q \in Run PROVE RowOK(q)'
    <3>1. CASE q = r
      BY <1>10, <3>1 DEF IInv, RowsOK, RowOK, Terminal
    <3>2. CASE q = h
      <4>1. pc[q] = "handing" /\ pc'[q] \in {"draining", "gone", "leaving"}
        BY <1>6, <1>8, <1>10, <3>2, OrchestratorAssumptions
      <4> QED
        BY <4>1 DEF IInv, RowsOK, RowOK, Terminal
    <3>3. CASE q \in rest
      BY <1>7, <1>10, <3>3 DEF IInv, RowsOK, RowOK, Terminal
    <3>4. CASE q # r /\ q # h /\ q \notin rest
      BY <1>10, <3>4 DEF IInv, RowsOK, RowOK
    <3> QED
      BY <3>1, <3>2, <3>3, <3>4
  <2> QED
    BY <2>1 DEF RowsOK
<1>15. HostOK'
  <2>1. \A q \in Run : job[q].host \in Run \cup {NoRun}
    BY DEF IInv, TypeOK, JobRecord
  <2>2. \A q \in Run : pc'[q] \in Live => q # r /\ pc[q] \in Live
    BY <1>6, <1>7, <1>9, <1>10, OrchestratorAssumptions
  <2>3. \A q \in Run : pc[q] = "handing" /\ q # h => pc'[q] = "handing"
    BY <1>7, <1>10
  <2>4. \A q \in Run : pc[q] \in Live /\ job[q].host = h /\ h # NoRun => q = r
    BY <1>1, <1>9 DEF IInv, HostOK
  <2>5. \A q \in Run : pc'[q] \in {"delegated", "unborn"} => pc[q] \in {"delegated", "unborn"}
    BY <1>6, <1>7, <1>8, <1>10, OrchestratorAssumptions
  <2>6. \A q \in Run : pc'[q] \in Live /\ job[q].host # NoRun => pc'[job[q].host] = "handing"
    BY <2>1, <2>2, <2>3, <2>4 DEF IInv, HostOK
  <2> QED
    BY <2>2, <2>5, <2>6 DEF IInv, HostOK
<1>16. HeldOK'
  <2>1. frame[r] = <<>>
    BY InFrame
  <2>2. Items(<<>>) = {} /\ Distinct(<<>>)
    BY DEF Items, Distinct
  <2>3. \A q \in Run : (frame'[q] = frame[q] /\ (q # h \/ out = "ok"))
                       \/ (q = h /\ out # "ok" /\ frame'[q] = <<>> /\ rest = Items(frame[q]))
    BY <1>2, <1>5, OrchestratorAssumptions
  <2>4. \A q \in Run : Distinct(frame'[q]) /\ Items(frame'[q]) \subseteq Items(frame[q])
    BY <2>2, <2>3 DEF IInv, HeldOK
  <2>5. \A p, q \in Run : p # q => Items(frame'[p]) \cap Items(frame'[q]) = {}
    BY <2>4 DEF IInv, HeldOK
  <2>6. \A q \in Run, i \in Frames : Items(frame'[q]) \cap Items(stack[i]) = {}
    BY <2>4 DEF IInv, HeldOK
  <2>7. \A c \in Run : pc'[c] = "delegated" <=> pc[c] = "delegated" /\ c \notin rest
    BY <1>6, <1>7, <1>8, <1>10, OrchestratorAssumptions
  <2>8. /\ \A c \in rest, q \in Run : c \notin Items(frame'[q])
        /\ \A c \in rest, i \in Frames : c \notin Items(stack[i])
    <3>1. rest = {} \/ (h \in Run /\ out # "ok" /\ rest = Items(frame[h]))
      BY <1>2, <1>6
    <3>2. CASE h \in Run /\ out # "ok" /\ rest = Items(frame[h])
      <4>1. frame'[h] = <<>> /\ \A q \in Run \ {h} : frame'[q] = frame[q]
        BY <1>5, <3>2
      <4>2. /\ \A q \in Run \ {h} : Items(frame[q]) \cap rest = {}
            /\ \A i \in Frames : rest \cap Items(stack[i]) = {}
        BY <3>2 DEF IInv, HeldOK
      <4> QED
        BY <2>2, <4>1, <4>2
    <3> QED
      BY <3>1, <3>2
  <2>9. \A c \in Run, q \in Run : c \notin rest => (c \in Items(frame'[q]) <=> c \in Items(frame[q]))
    BY <2>3, <2>4
  <2>10. \A c \in Run : pc'[c] = "delegated" <=> \/ \E q \in Run : c \in Items(frame'[q])
                                                 \/ \E i \in Frames : c \in Items(stack[i])
    <3> TAKE c \in Run
    <3>1. CASE c \in rest
      BY <2>7, <2>8, <3>1
    <3>2. CASE c \notin rest
      BY <2>7, <2>9, <3>2 DEF IInv, HeldOK
    <3> QED
      BY <3>1, <3>2
  <2>11. ASSUME NEW q \in Run
         PROVE /\ frame'[q] # <<>> => pc'[q] \in {"draining", "handing"}
               /\ pc'[q] = "draining" => frame'[q] # <<>>
    <3>1. CASE q = r
      BY <1>6, <1>10, <2>1, <2>3, <3>1
    <3>2. CASE q = h
      <4>1. h # NoRun /\ pc'[q] = next
        BY <1>10, <3>2, OrchestratorAssumptions
      <4> QED
        BY <1>8, <2>3, <3>2, <4>1
    <3>3. CASE q # r /\ q # h
      <4>1. frame'[q] = frame[q]
        BY <2>3, <3>3
      <4>2. q \in rest => frame[q] = <<>>
        BY <1>7, InFrame
      <4> QED
        BY <1>10, <3>3, <4>1, <4>2 DEF IInv, HeldOK
    <3> QED
      BY <3>1, <3>2, <3>3
  <2>12. /\ \A i \in Frames : Distinct(stack[i])
         /\ \A i, k \in Frames : i # k => Items(stack[i]) \cap Items(stack[k]) = {}
         /\ Frames' = Frames
    BY DEF IInv, HeldOK, Frames
  <2> QED
    BY <2>4, <2>5, <2>6, <2>10, <2>11, <2>12 DEF HeldOK
<1>17. FramesOK'
  BY <1>13 DEF IInv, FramesOK
<1>18. BornOK'
  <2>1. \A q \in Run : /\ pc'[q] = "delegated" => pc[q] = "delegated"
                       /\ pc'[q] # "unborn" => pc[q] # "unborn"
                       /\ pc'[q] = "starting" => pc[q] = "starting"
                       /\ pc'[q] = "leaving" => pc[q] = "leaving" \/ (q = h /\ next = "leaving")
    BY <1>6, <1>7, <1>8, <1>10, OrchestratorAssumptions
  <2>2. \A q \in Run : pc'[q] = "leaving" => job[q].agent # NoAgent
    BY <1>8, <2>1, OrchestratorAssumptions DEF IInv, BornOK
  <2> QED
    BY <2>1, <2>2 DEF IInv, BornOK
<1> QED
  BY <1>12, <1>13, <1>14, <1>15, <1>16, <1>17, <1>18 DEF IInv

LEMMA ReturnStepKeeps ==
  ASSUME IInv, NEW r \in Run,
         SandboxFails(r) \/ MarkReady(r) \/ ExpireEarly(r) \/ MarkReadyCut(r)
  PROVE  IInv'
<1>1. outcome[r] \in {"none", "ok", "busy", "failed", "timed"}
      /\ agentRow \in [Agent -> {"ready", "running"}]
  BY DEF IInv, TypeOK
<1>2. CASE SandboxFails(r)
  BY <1>1, <1>2, ReturnKeeps DEF SandboxFails, lockVars, stackVars, history
<1>3. CASE MarkReady(r)
  <2>1. agentRow' \in [Agent -> {"ready", "running"}]
    BY <1>1, <1>3 DEF MarkReady
  <2> QED
    BY <1>1, <1>3, <2>1, ReturnKeeps DEF MarkReady, lockVars, stackVars, history
<1>4. CASE ExpireEarly(r)
  BY <1>1, <1>4, ReturnKeeps DEF ExpireEarly, lockVars, stackVars, history
<1>5. CASE MarkReadyCut(r)
  <2>1. agentRow' \in [Agent -> {"ready", "running"}]
    BY <1>1, <1>5 DEF MarkReadyCut
  <2>2. PICK out \in {"timed", "failed"} : Return(r, out)
    BY <1>5 DEF MarkReadyCut
  <2> QED
    BY <1>5, <2>1, <2>2, ReturnKeeps DEF MarkReadyCut, lockVars, stackVars, history
<1> QED
  BY <1>2, <1>3, <1>4, <1>5

LEMMA CancelKeeps ==
  ASSUME IInv, NEW r \in Run, Cancel(r)
  PROVE  IInv'
<1>1. /\ running = r /\ event' = TRUE /\ stopped' = stopped \cup {r}
      /\ UNCHANGED <<pc, job, outcome, frame, turn, lock, waiters, running, row, agentRow>>
      /\ UNCHANGED <<stack, depth, prior, cut, crowded>>
  BY DEF Cancel, Arm, stackVars, history
<1>2. TypeOK'
  <2>1. event' \in BOOLEAN
    BY <1>1
  <2>2. stopped' \subseteq Run
    BY <1>1 DEF IInv, TypeOK
  <2> QED
    BY <1>1, <2>1, <2>2 DEF IInv, TypeOK
<1>3. LockOK' /\ QueueOK'
  BY <1>1 DEF IInv, LockOK, QueueOK, Items
<1>4. RowsOK'
  BY <1>1 DEF IInv, RowsOK, RowOK
<1>5. HostOK' /\ BornOK'
  BY <1>1 DEF IInv, HostOK, BornOK, TopJob
<1>6. HeldOK'
  <2>1. Frames' = Frames
    BY <1>1 DEF Frames
  <2> QED
    BY <1>1, <2>1 DEF IInv, HeldOK
<1>7. FramesOK'
  <2>1. Framed' = Framed
    BY <1>1 DEF Framed
  <2> QED
    BY <1>1, <2>1 DEF IInv, FramesOK
<1> QED
  BY <1>2, <1>3, <1>4, <1>5, <1>6, <1>7 DEF IInv

\* What RemoveAt leaves.
LEMMA RemoveAtItems ==
  ASSUME NEW S, NEW s \in Seq(S), NEW i \in DOMAIN s
  PROVE  /\ RemoveAt(s, i) \in Seq(S)
         /\ Items(s) \subseteq Items(RemoveAt(s, i)) \cup {s[i]}
<1> DEFINE f == SubSeq(s, 1, i - 1)
           b == SubSeq(s, i + 1, Len(s))
<1>1. Len(s) \in Nat /\ DOMAIN s = 1 .. Len(s) /\ i \in 1 .. Len(s)
  OBVIOUS
<1>2. /\ f \in Seq(S) /\ Len(f) = i - 1 /\ \A k \in 1 .. i - 1 : f[k] = s[k]
  BY <1>1
<1>3. /\ b \in Seq(S) /\ Len(b) = Len(s) - i
      /\ \A k \in 1 .. Len(s) - i : b[k] = s[k + i]
  BY <1>1
<1>4. RemoveAt(s, i) = f \o b
  BY DEF RemoveAt
<1> HIDE DEF f, b
<1>5. PICK t : t = f \o b
  OBVIOUS
<1>6. /\ t \in Seq(S) /\ Len(t) = Len(s) - 1
      /\ \A k \in 1 .. Len(f) : t[k] = f[k]
      /\ \A k \in 1 .. Len(b) : t[k + Len(f)] = b[k]
  <2>1. t \in Seq(S) /\ Len(t) = Len(f) + Len(b)
        /\ \A k \in 1 .. Len(f) + Len(b) : t[k] = IF k <= Len(f) THEN f[k] ELSE b[k - Len(f)]
    BY <1>2, <1>3, <1>5, ConcatProperties
  <2>2. Len(f) \in Nat /\ Len(b) \in Nat
    BY <1>2, <1>3
  <2>3. \A k \in 1 .. Len(f) : k \in 1 .. Len(f) + Len(b) /\ k <= Len(f)
    BY <2>2
  <2>4. \A k \in 1 .. Len(b) : /\ k + Len(f) \in 1 .. Len(f) + Len(b)
                               /\ ~(k + Len(f) <= Len(f)) /\ (k + Len(f)) - Len(f) = k
    BY <2>2
  <2>5. \A k \in 1 .. Len(f) : t[k] = f[k]
    BY <2>1, <2>3
  <2>6. \A k \in 1 .. Len(b) : t[k + Len(f)] = b[k]
    BY <2>1, <2>4
  <2>7. Len(t) = Len(s) - 1
    <3>1. Len(f) = i - 1 /\ Len(b) = Len(s) - i /\ i \in Nat /\ Len(s) \in Nat
      BY <1>1, <1>2, <1>3
    <3>2. Len(t) = Len(f) + Len(b)
      BY <2>1
    <3> QED
      BY <3>1, <3>2
  <2> QED
    BY <2>1, <2>5, <2>6, <2>7
<1>7. ASSUME NEW k \in 1 .. Len(s), k # i PROVE \E m \in 1 .. Len(t) : t[m] = s[k]
  <2>1. CASE k < i
    <3>1. k \in 1 .. i - 1 /\ k \in 1 .. Len(t)
      BY <1>1, <1>6, <2>1
    <3> QED
      BY <1>2, <1>6, <3>1
  <2>2. CASE k > i
    <3>1. k - i \in 1 .. Len(s) - i /\ (k - i) + i = k /\ (k - i) + (i - 1) = k - 1
          /\ k - 1 \in 1 .. Len(t)
      BY <1>1, <1>6, <2>2
    <3>2. b[k - i] = s[k] /\ t[(k - i) + Len(f)] = b[k - i]
      BY <1>3, <1>6, <3>1
    <3> QED
      BY <1>2, <3>1, <3>2
  <2> QED
    BY <1>1, <1>7, <2>1, <2>2
<1>8. Items(s) = {s[k] : k \in 1 .. Len(s)} /\ Items(t) = {t[k] : k \in 1 .. Len(t)}
  BY <1>6, SeqItems
<1>9. Items(s) \subseteq Items(t) \cup {s[i]}
  BY <1>7, <1>8
<1> QED
  BY <1>4, <1>5, <1>6, <1>9

\* A run that is cut off frees the lock and what it holds; its frame stays.
LEMMA UnwindKeeps ==
  ASSUME IInv, NEW r \in Run, NEW out \in {"timed", "failed"}, Unwind(r, out),
         pc[r] \in Live \ {"starting", "handing", "leaving"}
  PROVE  IInv'
<1>1. PICK x : x = Ended(r)
  OBVIOUS
<1>2. PICK rest : rest = Items(frame[r])
  OBVIOUS
<1>3. /\ row' \in {row} \cup (CASE pc[r] \in {"checking", "creating"} ->
                                       {[row EXCEPT ![r] = "running"]}
                                  [] pc[r] = "capped" -> {[row EXCEPT ![r] = "failed"]}
                                  [] OTHER -> {})
      /\ lock' = IF pc[r] \in Holding THEN NoRun ELSE lock
      /\ \/ running' = NoRun /\ event' = FALSE /\ pc[r] \in Holding
         \/ UNCHANGED <<running, event>>
      /\ \/ pc[r] # "queued" /\ UNCHANGED waiters
         \/ \E i \in DOMAIN waiters : waiters[i] = r /\ waiters' = RemoveAt(waiters, i)
      /\ frame' = [frame EXCEPT ![r] = <<>>]
      /\ outcome' = [outcome EXCEPT ![r] = out]
      /\ pc' = [q \in Run |-> CASE q = r -> x [] q \in rest -> "dropped" [] OTHER -> pc[q]]
      /\ turn' = [turn EXCEPT ![r] = 0] /\ prior' = [prior EXCEPT ![r] = 0]
      /\ cut' = [cut EXCEPT ![r] = IF pc[r] \in Holding \cup {"queued"} THEN "framed" ELSE "bare"]
      /\ UNCHANGED <<job, stopped, stack, depth, agentRow, crowded>>
  BY <1>1, <1>2 DEF Unwind
<1>4. x \in {"gone", "leaving"} /\ (x = "leaving" => job[r].agent # NoAgent)
  BY <1>1, EndedType
<1>5. /\ rest \subseteq Run /\ r \notin rest /\ \A q \in rest : pc[q] = "delegated"
  <2>1. rest \subseteq Run /\ \A q \in rest : pc[q] = "delegated"
    BY <1>2, InFrame
  <2>2. pc[r] # "delegated"
    BY <1>3, StageNames
  <2> QED
    BY <2>1, <2>2
<1>6. /\ pc'[r] = x /\ \A q \in rest : pc'[q] = "dropped"
      /\ \A q \in Run : q # r /\ q \notin rest => pc'[q] = pc[q]
  <2>1. pc'[r] = x
    BY <1>3, <1>5
  <2>2. \A q \in Run : q # r /\ q \in rest => pc'[q] = "dropped"
    BY <1>3
  <2>3. \A q \in Run : q # r /\ q \notin rest => pc'[q] = pc[q]
    BY <1>3
  <2> QED
    BY <1>5, <2>1, <2>2, <2>3
<1>7. {"gone", "dropped", "unborn", "delegated"} \cap Live = {} /\ "leaving" \in Live /\ Holding \subseteq Live
      /\ {"gone", "leaving", "dropped", "delegated", "handing"} \cap (Holding \cup {"queued"}) = {}
      /\ "queued" \notin Holding
  BY StageNames
<1>8. /\ pc' \in [Run -> {"unborn", "delegated", "dropped", "gone"} \cup Live]
  <2>1. \A q \in Run : pc'[q] \in {"unborn", "delegated", "dropped", "gone"} \cup Live
    BY <1>4, <1>6, <1>7 DEF IInv, TypeOK
  <2>2. pc' = [q \in Run |-> pc'[q]]
    BY <1>3
  <2> QED
    BY <2>1, <2>2
<1>9. /\ row' \in [Run -> {"none", "running"} \cup Terminal] /\ \A q \in Run \ {r} : row'[q] = row[q]
      /\ row'[r] = row[r] \/ row'[r] \in {"running", "failed"}
      /\ cut' \in [Run -> {"no", "bare", "framed"}] /\ cut'[r] # "no"
      /\ \A q \in Run \ {r} : cut'[q] = cut[q]
  <2>1. CASE row' = row
    BY <1>3, <2>1 DEF IInv, TypeOK
  <2>2. CASE row' \in {[row EXCEPT ![r] = "running"], [row EXCEPT ![r] = "failed"]}
    BY ZenonT(30), <1>3, <2>2 DEF IInv, TypeOK, Terminal
  <2>3. \/ row' = row \/ row' \in {[row EXCEPT ![r] = "running"], [row EXCEPT ![r] = "failed"]}
    BY <1>3
  <2> QED
    BY <2>1, <2>2, <2>3
<1>10. waiters' \in Seq(Run) /\ Items(waiters) \subseteq Items(waiters') \cup {r}
  <2>1. waiters \in Seq(Run)
    BY DEF IInv, TypeOK
  <2>2. CASE waiters' = waiters
    BY <2>1, <2>2
  <2>3. ASSUME NEW i \in DOMAIN waiters, waiters[i] = r, waiters' = RemoveAt(waiters, i)
        PROVE waiters' \in Seq(Run) /\ Items(waiters) \subseteq Items(waiters') \cup {r}
    BY <2>1, <2>3, RemoveAtItems
  <2> QED
    BY <1>3, <2>2, <2>3
<1>11. TypeOK'
  <2>1. /\ outcome' \in [Run -> {"none", "ok", "busy", "failed", "timed"}]
        /\ prior' \in [Run -> Nat]
    BY <1>3 DEF IInv, TypeOK
  <2>2. frame' \in [Run -> Seq(Delegated)]
    <3>1. <<>> \in Seq(Delegated)
      OBVIOUS
    <3> QED
      BY <1>3, <3>1 DEF IInv, TypeOK
  <2>3. turn' \in [Run -> 0 .. MaxTurns]
    BY <1>3, OrchestratorAssumptions DEF IInv, TypeOK
  <2>4. lock' \in Run \cup {NoRun} /\ running' \in Run \cup {NoRun}
    BY <1>3 DEF IInv, TypeOK
  <2>5. event' \in BOOLEAN
    BY <1>3 DEF IInv, TypeOK
  <2> QED
    BY <1>3, <1>8, <1>9, <1>10, <2>1, <2>2, <2>3, <2>4, <2>5 DEF IInv, TypeOK
<1>12. \A q \in Run : pc'[q] \in Holding \cup {"queued"} =>
                        q # r /\ pc[q] \in Holding \cup {"queued"} /\ pc'[q] = pc[q]
  BY <1>4, <1>6, <1>7
<1>13. LockOK'
  <2>1. CASE pc[r] \in Holding
    <3>1. \A q \in Run : pc'[q] \notin Holding
      BY <1>12, <2>1 DEF IInv, LockOK
    <3>2. event' => running' \in stopped'
      BY <1>3 DEF IInv, LockOK
    <3>3. lock' = NoRun
      BY <1>3, <2>1
    <3> QED
      BY <3>1, <3>2, <3>3 DEF LockOK
  <2>2. CASE pc[r] \notin Holding
    <3>1. UNCHANGED <<lock, running, event, stopped>>
      BY <1>3, <2>2
    <3>2. \A q \in Run : pc[q] \in Holding => pc'[q] = pc[q]
      BY <1>5, <1>6, <1>7, <2>2
    <3>3. lock \in Run \cup {NoRun}
      BY DEF IInv, TypeOK
    <3> QED
      BY <1>12, <3>1, <3>2, <3>3 DEF IInv, LockOK
  <2> QED
    BY <2>1, <2>2
<1>14. QueueOK'
  BY <1>10, <1>12 DEF IInv, QueueOK
<1>15. RowsOK'
  <2>2. RowOK(r)'
    <3>1. pc'[r] \in {"gone", "leaving"}
      BY <1>4, <1>6
    <3>2. row'[r] = "cancelled" => r \in stopped'
      BY <1>3, <1>9 DEF IInv, RowsOK, RowOK
    <3> QED
      BY <1>7, <1>9, <3>1, <3>2 DEF RowOK
  <2>3. ASSUME NEW q \in rest PROVE RowOK(q)'
    BY <1>3, <1>5, <1>6, <1>9, <2>3 DEF IInv, RowsOK, RowOK
  <2>4. ASSUME NEW q \in Run, q # r, q \notin rest PROVE RowOK(q)'
    BY <1>3, <1>6, <1>9, <2>4 DEF IInv, RowsOK, RowOK
  <2> QED
    BY <2>2, <2>3, <2>4 DEF RowsOK
<1>16. HostOK'
  <2>1. \A q \in Run : job[q].host \in Run \cup {NoRun}
    BY DEF IInv, TypeOK, JobRecord
  <2>2. \A q \in Run : (pc'[q] \in Live => pc[q] \in Live)
                       /\ (pc[q] = "handing" => pc'[q] = "handing")
                       /\ (pc'[q] \in {"delegated", "unborn"} => pc[q] \in {"delegated", "unborn"})
    BY <1>3, <1>4, <1>5, <1>6, <1>7
  <2> QED
    BY <1>3, <2>1, <2>2 DEF IInv, HostOK
<1>17. HeldOK'
  <2>1. frame'[r] = <<>> /\ \A q \in Run \ {r} : frame'[q] = frame[q]
    BY <1>3 DEF IInv, TypeOK
  <2>2. Items(<<>>) = {} /\ Distinct(<<>>)
    BY DEF Items, Distinct
  <2>3. \A q \in Run : Distinct(frame'[q]) /\ Items(frame'[q]) \subseteq Items(frame[q])
    BY <2>1, <2>2 DEF IInv, HeldOK
  <2>4. \A p, q \in Run : p # q => Items(frame'[p]) \cap Items(frame'[q]) = {}
    BY <2>3 DEF IInv, HeldOK
  <2>5. \A q \in Run, i \in Frames : Items(frame'[q]) \cap Items(stack[i]) = {}
    BY <2>3 DEF IInv, HeldOK
  <2>6. \A c \in Run : pc'[c] = "delegated" <=> pc[c] = "delegated" /\ c \notin rest
    BY <1>3, <1>4, <1>6, <1>7
  <2>7. /\ \A q \in Run \ {r} : Items(frame[q]) \cap rest = {}
        /\ \A i \in Frames : rest \cap Items(stack[i]) = {}
    BY <1>2 DEF IInv, HeldOK
  <2>8. \A c \in Run : pc'[c] = "delegated" <=> \/ \E q \in Run : c \in Items(frame'[q])
                                                \/ \E i \in Frames : c \in Items(stack[i])
    <3> TAKE c \in Run
    <3>1. CASE c \in rest
      BY <2>1, <2>2, <2>6, <2>7, <3>1
    <3>2. CASE c \notin rest
      <4>1. \A q \in Run : c \in Items(frame'[q]) <=> c \in Items(frame[q])
        BY <1>2, <2>1, <2>2, <3>2
      <4> QED
        BY <2>6, <3>2, <4>1 DEF IInv, HeldOK
    <3> QED
      BY <3>1, <3>2
  <2>9. \A q \in Run : /\ frame'[q] # <<>> => pc'[q] \in {"draining", "handing"}
                       /\ pc'[q] = "draining" => frame'[q] # <<>>
    <3>1. \A q \in rest : frame[q] = <<>>
      BY <1>5, InFrame
    <3> QED
      BY <1>4, <1>5, <1>6, <2>1, <3>1 DEF IInv, HeldOK
  <2>10. /\ \A i \in Frames : Distinct(stack[i])
         /\ \A i, k \in Frames : i # k => Items(stack[i]) \cap Items(stack[k]) = {}
         /\ Frames' = Frames /\ stack' = stack
    BY <1>3 DEF IInv, HeldOK, Frames
  <2> QED
    BY <2>3, <2>4, <2>5, <2>8, <2>9, <2>10 DEF HeldOK
<1>18. FramesOK'
  <2>1. \A q \in rest : q \notin Framed /\ q \notin Framed'
    <3>1. \A q \in rest : cut[q] = "no" /\ cut'[q] = "no"
      BY <1>5, <1>9 DEF IInv, RowsOK, RowOK
    <3> QED
      BY <1>5, <1>6, <1>7, <3>1 DEF Framed
  <2>2. r \in Framed' <=> r \in Framed
    <3>1. cut[r] = "no"
      BY <1>7, FrontNames DEF IInv, RowsOK, RowOK
    <3>2. cut'[r] = IF pc[r] \in Holding \cup {"queued"} THEN "framed" ELSE "bare"
      BY <1>3 DEF IInv, TypeOK
    <3> QED
      BY <1>4, <1>6, <1>7, <3>1, <3>2 DEF Framed
  <2>3. \A q \in Run : q # r /\ q \notin rest => (q \in Framed' <=> q \in Framed)
    BY <1>6, <1>9 DEF Framed
  <2>4. Framed' = Framed
    BY <2>1, <2>2, <2>3 DEF Framed
  <2> QED
    BY <1>3, <2>4 DEF IInv, FramesOK
<1>19. BornOK'
  <2>1. \A q \in Run : /\ pc'[q] = "delegated" => pc[q] = "delegated"
                       /\ pc'[q] # "unborn" => pc[q] # "unborn"
                       /\ pc'[q] = "starting" => pc[q] = "starting"
                       /\ pc'[q] = "leaving" => pc[q] = "leaving" \/ (q = r /\ x = "leaving")
    BY <1>3, <1>4, <1>5, <1>6, <1>7
  <2> QED
    BY <1>3, <1>4, <2>1 DEF IInv, BornOK, TopJob
<1> QED
  BY <1>11, <1>13, <1>14, <1>15, <1>16, <1>17, <1>18, <1>19 DEF IInv

LEMMA CutKeeps ==
  ASSUME IInv, NEW r \in Run, Expire(r) \/ StatementRaises(r)
  PROVE  IInv'
<1>1. CASE Expire(r)
  BY <1>1, UnwindKeeps DEF Expire
<1>2. CASE StatementRaises(r)
  <2>1. pc[r] \in Live \ {"starting", "handing", "leaving"}
    BY <1>2 DEF StatementRaises, Live, Before, Holding
  <2> QED
    BY <1>2, <2>1, UnwindKeeps DEF StatementRaises
<1> QED
  BY <1>1, <1>2

\* mark_state was cut off: the agent's run leaves without a plan.
LEMMA MarkRunningCutKeeps ==
  ASSUME IInv, NEW r \in Run, MarkRunningCut(r)
  PROVE  IInv'
<1>1. /\ pc[r] = "starting" /\ pc' = [pc EXCEPT ![r] = "leaving"] /\ Meet(r)
      /\ UNCHANGED <<job, frame, turn, stopped, row, cut>>
      /\ UNCHANGED <<lock, waiters, running, event, stack, depth, prior>>
  BY DEF MarkRunningCut, lockVars, stackVars
<1>2. /\ pc' \in [Run -> {"unborn", "delegated", "dropped", "gone"} \cup Live]
      /\ pc'[r] = "leaving" /\ \A q \in Run \ {r} : pc'[q] = pc[q]
  BY <1>1, PcType, StageNames
<1>3. TypeOK'
  <2>1. agentRow' \in [Agent -> {"ready", "running"}]
    BY DEF MarkRunningCut, IInv, TypeOK
  <2>2. outcome' \in [Run -> {"none", "ok", "busy", "failed", "timed"}]
    BY DEF MarkRunningCut, IInv, TypeOK
  <2>3. crowded' \subseteq Run
    BY <1>1, MeetType
  <2> QED
    BY <1>1, <1>2, <2>1, <2>2, <2>3 DEF IInv, TypeOK
<1>4. Solo(r)
  <2>1. RowOK(r)'
    BY <1>1, <1>2 DEF IInv, RowsOK, RowOK, Terminal
  <2>2. job[r].agent # NoAgent
    BY <1>1 DEF IInv, BornOK
  <2> QED
    BY <1>1, <1>2, <2>1, <2>2, StageNames DEF Solo, Awaits
<1>5. {"starting", "leaving"} \cap (Holding \cup {"queued"}) = {}
  BY StageNames
<1> QED
  BY <1>1, <1>2, <1>3, <1>4, <1>5, SoloKeeps, OutsideKeeps DEF IInv

\* After a restart nothing is under way, and no row says otherwise.
LEMMA RestartKeeps == IInv /\ Restart => IInv'
<1> SUFFICES ASSUME IInv, Restart PROVE IInv'
  OBVIOUS
<1>1. /\ pc' = [r \in Run |-> CASE pc[r] \in Live -> "gone" [] pc[r] = "delegated" -> "dropped"
                                [] OTHER -> pc[r]]
      /\ frame' = [r \in Run |-> <<>>]
      /\ lock' = NoRun /\ waiters' = <<>> /\ running' = NoRun /\ event' = FALSE
      /\ stack' = <<>> /\ depth' = 0
      /\ turn' = [r \in Run |-> 0] /\ prior' = [r \in Run |-> 0]
      /\ row' = [r \in Run |-> IF row[r] = "running" THEN "failed" ELSE row[r]]
      /\ cut' = [r \in Run |-> "no"] /\ crowded' = {}
      /\ UNCHANGED <<job, outcome, stopped, agentRow>>
  BY DEF Restart, Forget
<1>2. \A r \in Run : \/ pc[r] \in Live /\ pc'[r] = "gone"
                     \/ pc[r] = "delegated" /\ pc'[r] = "dropped"
                     \/ pc[r] \in {"unborn", "dropped", "gone"} /\ pc'[r] = pc[r]
  <2>1. \A r \in Run : pc[r] \in {"unborn", "delegated", "dropped", "gone"} \cup Live
    BY DEF IInv, TypeOK
  <2>2. \A r \in Run : pc[r] \in Live => pc'[r] = "gone"
    BY <1>1, StageNames
  <2>3. \A r \in Run : pc[r] = "delegated" => pc'[r] = "dropped"
    BY <1>1, StageNames
  <2>4. \A r \in Run : pc[r] \in {"unborn", "dropped", "gone"} => pc'[r] = pc[r]
    BY <1>1, StageNames
  <2> QED
    BY <2>1, <2>2, <2>3, <2>4
<1>3. \A r \in Run : pc'[r] \in {"unborn", "dropped", "gone"} /\ pc'[r] \notin Live
  BY <1>2, StageNames
<1>4. \A r \in Run : row'[r] \in {"none"} \cup Terminal /\ row'[r] # "running"
                     /\ (row[r] # "running" => row'[r] = row[r]) /\ (row'[r] = "cancelled" => row[r] = "cancelled")
  BY <1>1 DEF IInv, TypeOK, Terminal
<1>5. TypeOK'
  <2>1. /\ pc' \in [Run -> {"unborn", "delegated", "dropped", "gone"} \cup Live]
    BY <1>1, <1>3
  <2>2. frame' \in [Run -> Seq(Delegated)] /\ stack' \in Seq(Seq(Delegated)) /\ waiters' \in Seq(Run)
    <3>1. <<>> \in Seq(Delegated) /\ <<>> \in Seq(Seq(Delegated)) /\ <<>> \in Seq(Run)
      OBVIOUS
    <3> QED
      BY <1>1, <3>1
  <2>3. turn' \in [Run -> 0 .. MaxTurns] /\ prior' \in [Run -> Nat] /\ depth' \in Nat
    BY <1>1, OrchestratorAssumptions
  <2>4. row' \in [Run -> {"none", "running"} \cup Terminal]
    BY <1>1, <1>4
  <2>5. event' \in BOOLEAN
    BY <1>1
  <2> QED
    BY <1>1, <2>1, <2>2, <2>3, <2>4, <2>5 DEF IInv, TypeOK
<1>6. LockOK' /\ QueueOK'
  BY <1>1, <1>3, StageNames DEF LockOK, QueueOK
<1>7. RowsOK'
  <2>1. \A r \in Run : pc'[r] \in {"unborn", "dropped"} => pc[r] \in {"unborn", "delegated", "dropped"}
    BY <1>2
  <2>2. ASSUME NEW r \in Run PROVE RowOK(r)'
    BY <1>1, <1>3, <1>4, <2>1 DEF IInv, RowsOK, RowOK
  <2> QED
    BY <2>2 DEF RowsOK
<1>8. HostOK'
  BY <1>1, <1>2, <1>3 DEF IInv, HostOK
<1>9. HeldOK'
  <2>1. Len(stack') = 0 /\ Frames' = {}
    BY <1>1 DEF Frames
  <2>2. \A r \in Run : frame'[r] = <<>> /\ Items(frame'[r]) = {} /\ Distinct(frame'[r])
    BY <1>1 DEF Items, Distinct
  <2> QED
    BY <1>3, <2>1, <2>2 DEF HeldOK
<1>10. FramesOK'
  <2>1. Framed' = {}
    BY <1>1, <1>3, StageNames DEF Framed
  <2>2. Len(stack') = 0
    BY <1>1
  <2> QED
    BY <2>1, <2>2, FS_EmptySet DEF FramesOK
<1>11. BornOK'
  <2>1. \A r \in Run : /\ pc'[r] \notin {"delegated", "starting", "leaving"}
                       /\ pc'[r] # "unborn" => pc[r] # "unborn"
    BY <1>2, <1>3, StageNames
  <2> QED
    BY <1>1, <2>1 DEF IInv, BornOK, TopJob
<1> QED
  BY <1>5, <1>6, <1>7, <1>8, <1>9, <1>10, <1>11 DEF IInv

-----------------------------------------------------------------------------
LEMMA InvNext == IInv /\ [Next]_vars => IInv'
<1> SUFFICES ASSUME IInv, [Next]_vars PROVE IInv'
  OBVIOUS
<1>1. ASSUME NEW r \in Run, Request(r) PROVE IInv'
  BY <1>1, RequestKeeps
<1>2. ASSUME NEW r \in Run, Entering(r) PROVE IInv'
  BY <1>2, MarkRunningKeeps, ReturnStepKeeps, CapReachedKeeps, FailCappedKeeps, PushFrameKeeps, AcquireKeeps
     DEF Entering
<1>3. ASSUME NEW r \in Run, Driving(r) PROVE IInv'
  BY <1>3, CreatePlanKeeps, PlanStepKeeps, CloseKeeps DEF Driving
<1>4. ASSUME NEW r \in Run, Leaving(r) PROVE IInv'
  BY <1>4, HandOffKeeps, ReturnStepKeeps DEF Leaving
<1>5. ASSUME NEW r \in Run,
             \/ Cancel(r) \/ Expire(r) \/ ExpireEarly(r)
             \/ StatementRaises(r) \/ MarkRunningCut(r) \/ MarkReadyCut(r)
      PROVE IInv'
  BY <1>5, CancelKeeps, CutKeeps, MarkRunningCutKeeps, ReturnStepKeeps
<1>6. ASSUME NEW r \in Run, NEW c \in Delegated, NEW a \in Agent, Delegate(r, c, a) PROVE IInv'
  BY <1>6, DelegateKeeps
<1>7. CASE Restart
  BY <1>7, RestartKeeps
<1>8. CASE UNCHANGED vars
  <2>1. /\ UNCHANGED <<pc, job, outcome, frame, turn, lock, waiters, running, event, stopped>>
        /\ UNCHANGED <<stack, depth, prior, row, agentRow, cut, crowded>>
    BY <1>8 DEF vars
  <2>2. TypeOK'
    BY <2>1 DEF IInv, TypeOK
  <2>3. LockOK' /\ QueueOK'
    BY <2>1 DEF IInv, LockOK, QueueOK, Items
  <2>4. RowsOK'
    BY <2>1 DEF IInv, RowsOK, RowOK
  <2>5. HostOK' /\ BornOK'
    BY <2>1 DEF IInv, HostOK, BornOK, TopJob
  <2>6. Frames' = Frames /\ Framed' = Framed
    BY <2>1 DEF Frames, Framed
  <2>7. HeldOK'
    BY <2>1, <2>6 DEF IInv, HeldOK
  <2>8. FramesOK'
    BY <2>1, <2>6 DEF IInv, FramesOK
  <2> QED
    BY <2>2, <2>3, <2>4, <2>5, <2>7, <2>8 DEF IInv
<1> QED
  BY <1>1, <1>2, <1>3, <1>4, <1>5, <1>6, <1>7, <1>8 DEF Next

\* However requests, hand-offs, cancels, timeouts and restarts overlap.
THEOREM Invariance == Spec => []IInv
<1>1. Init => IInv
  BY InvInit
<1>2. IInv /\ [Next]_vars => IInv'
  BY InvNext
<1> QED
  BY <1>1, <1>2, PTL DEF Spec

\* Every variable of the plan runner keeps its type.
THEOREM TypeCorrect == Spec => []TypeOK
<1>1. IInv => TypeOK
  BY DEF IInv
<1> QED
  BY <1>1, Invariance, PTL

\* A plan ends cancelled only when somebody asked for that plan to stop.
THEOREM CancelHitsItsPlanHolds == Spec => []CancelHitsItsPlan
<1>1. IInv => CancelHitsItsPlan
  BY DEF IInv, RowsOK, RowOK, CancelHitsItsPlan
<1> QED
  BY <1>1, Invariance, PTL

\* A row that says running has its coroutine, or one that was cut off since the boot.
THEOREM PhantomFreeHolds == Spec => []PhantomFree
<1>1. IInv => PhantomFree
  BY DEF IInv, RowsOK, RowOK, PhantomFree, Live, Before, Holding
<1> QED
  BY <1>1, Invariance, PTL

\* The stack has one frame for each run between its push and its pop, and one for each
\* run that was cut off there.
THEOREM FramesBalancedHolds == Spec => []FramesBalanced
<1>1. IInv => FramesBalanced
  BY DEF IInv, FramesOK, Framed, FramesBalanced
<1> QED
  BY <1>1, Invariance, PTL

\* A finished plan's row is rewritten by nobody but its own coroutine, after a completed
\* row that could not be read again.
THEOREM RowFinalHolds == Spec => RowFinal
<1> DEFINE Kept(q) == row[q] \in Terminal /\ row'[q] # row[q] =>
                        row[q] = "completed" /\ row'[q] = "failed" /\ pc[q] = "failing"
<1>1. ASSUME IInv, [Next]_vars PROVE \A q \in Run : Kept(q)
  <2> SUFFICES ASSUME NEW q \in Run, row[q] \in Terminal PROVE Kept(q)
    OBVIOUS
  <2> DEFINE Open(r) == pc[r] \in {"checking", "capped", "creating", "preflight", "turn", "acting"}
  <2>1. ~Open(q) /\ (pc[q] = "failing" => row[q] = "completed")
    BY <1>1 DEF IInv, RowsOK, RowOK, Terminal
  <2>2. row \in [Run -> {"none", "running"} \cup Terminal]
    BY <1>1 DEF IInv, TypeOK
  <2>3. ASSUME NEW r \in Run, Open(r),
               row' = row \/ \E s \in {"running"} \cup Terminal : row' = [row EXCEPT ![r] = s]
        PROVE Kept(q)
    BY <2>1, <2>2, <2>3
  <2>4. ASSUME NEW r \in Run, Entering(r) PROVE Kept(q)
    <3>1. CASE CapReached(r) \/ FailCapped(r)
      BY <2>3, <2>4, <3>1 DEF CapReached, FailCapped, Terminal
    <3>2. CASE MarkRunning(r) \/ SandboxFails(r) \/ PushFrame(r) \/ Acquire(r)
      BY <3>2 DEF MarkRunning, Mark, SandboxFails, PushFrame, Acquire
    <3> QED
      BY <2>4, <3>1, <3>2 DEF Entering
  <2>5. ASSUME NEW r \in Run, Driving(r) PROVE Kept(q)
    <3>1. CASE CreatePlan(r)
      BY <2>3, <3>1 DEF CreatePlan
    <3>2. CASE PassPreflight(r) \/ BeginTurn(r) \/ NextTurn(r) \/ RereadRaises(r) \/ Close(r)
      BY <3>2 DEF PassPreflight, BeginTurn, NextTurn, RereadRaises, Close, Finish
    <3>3. CASE pc[r] # "failing"
               /\ (DeclinePreflight(r) \/ StopAtCheck(r) \/ Complete(r) \/ FailPlan(r))
      <4>1. Open(r) /\ \E s \in Terminal : row' = [row EXCEPT ![r] = s]
        BY <3>3 DEF DeclinePreflight, StopAtCheck, Complete, FailPlan, End, Terminal
      <4> QED
        BY <2>3, <4>1
    <3>4. CASE FailPlan(r) /\ pc[r] = "failing"
      <4>1. row' = [row EXCEPT ![r] = "failed"]
        BY <3>4 DEF FailPlan, End
      <4> QED
        BY <2>1, <2>2, <3>4, <4>1
    <3> QED
      BY <2>5, <3>1, <3>2, <3>3, <3>4 DEF Driving, DeclinePreflight, StopAtCheck, Complete
  <2>6. ASSUME NEW r \in Run,
               \/ Request(r) \/ Leaving(r) \/ Cancel(r) \/ ExpireEarly(r)
               \/ MarkRunningCut(r) \/ MarkReadyCut(r)
        PROVE Kept(q)
    BY <2>6 DEF Request, Leaving, HandOff, MarkReady, Cancel, Arm, ExpireEarly, MarkRunningCut,
                MarkReadyCut
  <2>7. ASSUME NEW r \in Run, Expire(r) \/ StatementRaises(r) PROVE Kept(q)
    <3>1. row' \in {row} \cup (CASE pc[r] \in {"checking", "creating"} ->
                                    {[row EXCEPT ![r] = "running"]}
                               [] pc[r] = "capped" -> {[row EXCEPT ![r] = "failed"]}
                               [] OTHER -> {})
      BY <2>7 DEF Expire, StatementRaises, Unwind
    <3>2. \/ row' = row
          \/ Open(r) /\ \E s \in {"running"} \cup Terminal : row' = [row EXCEPT ![r] = s]
      BY <3>1 DEF Terminal
    <3> QED
      BY <2>3, <3>2
  <2>8. ASSUME NEW r \in Run, NEW c \in Delegated, NEW a \in Agent, Delegate(r, c, a) PROVE Kept(q)
    BY <2>8 DEF Delegate, Queue
  <2>9. CASE Restart
    BY <2>9 DEF Restart, Terminal
  <2>10. CASE UNCHANGED vars
    BY <2>10 DEF vars
  <2> QED
    BY <1>1, <2>4, <2>5, <2>6, <2>7, <2>8, <2>9, <2>10 DEF Next
<1>2. IInv /\ [Next]_vars =>
        [\A r \in Run : row[r] \in Terminal /\ row'[r] # row[r] =>
           row[r] = "completed" /\ row'[r] = "failed" /\ pc[r] = "failing"]_vars
  BY <1>1
<1> HIDE DEF Kept
<1> QED
  BY <1>2, Invariance, PTL DEF Spec, RowFinal

-----------------------------------------------------------------------------
(***************************************************************************)
(* Delegations: how many places each one has.                              *)
(***************************************************************************)
LEMMA DistinctLength ==
  ASSUME NEW s \in Seq(Delegated), Distinct(s)
  PROVE  Len(s) <= Cardinality(Delegated)
<1>1. IsFiniteSet(Delegated) /\ Cardinality(Delegated) \in Nat
  <2>1. Delegated \in SUBSET Run /\ IsFiniteSet(Run)
    BY OrchestratorAssumptions DEF Run
  <2> QED
    BY <2>1, FS_Subset, FS_CardinalityType
<1>2. PICK n \in Nat : n = Len(s)
  OBVIOUS
<1>3. IsFiniteSet(1 .. n) /\ Cardinality(1 .. n) = n
  <2>1. Cardinality(1 .. n) = IF 1 > n THEN 0 ELSE n - 1 + 1
    BY FS_Interval
  <2> QED
    BY <2>1, FS_Interval
<1>4. s \in [1 .. n -> Delegated]
  BY <1>2
<1>5. ASSUME Cardinality(Delegated) < n PROVE FALSE
  <2>1. \E i, j \in 1 .. n : i # j /\ s[i] = s[j]
    BY <1>1, <1>3, <1>4, <1>5, FS_PigeonHole
  <2> QED
    BY <1>2, <2>1 DEF Distinct
<1> QED
  BY <1>1, <1>2, <1>5

\* Where c is in the sequences of f.
Spots(f, X, c) ==
  {p \in X \X (1 .. Cardinality(Delegated)) : p[2] \in DOMAIN f[p[1]] /\ f[p[1]][p[2]] = c}

LEMMA Places ==
  ASSUME NEW X, NEW f, NEW c,
         \A x \in X : f[x] \in Seq(Delegated) /\ Distinct(f[x]),
         \A x, y \in X : x # y => Items(f[x]) \cap Items(f[y]) = {}
  PROVE  Cardinality(Spots(f, X, c)) = IF \E x \in X : c \in Items(f[x]) THEN 1 ELSE 0
<1> DEFINE P == Spots(f, X, c)
<1> USE DEF Spots
<1>1. CASE ~ \E x \in X : c \in Items(f[x])
  <2>1. P = {}
    BY <1>1 DEF Items
  <2> QED
    BY <1>1, <2>1, FS_EmptySet
<1>2. CASE \E x \in X : c \in Items(f[x])
  <2>1. PICK x \in X : c \in Items(f[x])
    BY <1>2
  <2>2. DOMAIN f[x] = 1 .. Len(f[x])
    OBVIOUS
  <2>3. PICK i \in 1 .. Len(f[x]) : f[x][i] = c
    BY <2>1, <2>2 DEF Items
  <2>4. i \in 1 .. Cardinality(Delegated)
    <3>1. Len(f[x]) <= Cardinality(Delegated) /\ Len(f[x]) \in Nat
      BY DistinctLength
    <3>2. Cardinality(Delegated) \in Nat
      <4>1. Delegated \in SUBSET Run /\ IsFiniteSet(Run)
        BY OrchestratorAssumptions DEF Run
      <4> QED
        BY <4>1, FS_Subset, FS_CardinalityType
    <3> QED
      BY <3>1, <3>2
  <2>5. <<x, i>> \in P
    BY <2>2, <2>3, <2>4
  <2>6. ASSUME NEW p \in P PROVE p = <<x, i>>
    <3>1. PICK y \in X, j \in 1 .. Cardinality(Delegated) : p = <<y, j>>
      OBVIOUS
    <3>2. j \in DOMAIN f[y] /\ f[y][j] = c
      BY <3>1
    <3>3. c \in Items(f[y])
      BY <3>2 DEF Items
    <3>4. y = x
      BY <2>1, <3>3
    <3>5. j = i
      BY <2>2, <2>3, <3>2, <3>4 DEF Distinct
    <3> QED
      BY <3>1, <3>4, <3>5
  <2>7. P = {<<x, i>>}
    BY <2>5, <2>6
  <2> QED
    BY <1>2, <2>7, FS_Singleton
<1> QED
  BY <1>1, <1>2

\* A delegation the tool accepted is in one place until it runs or is dropped.
THEOREM HeldOnceHolds == Spec => []HeldOnce
<1>1. ASSUME IInv PROVE HeldOnce
  <2> SUFFICES ASSUME NEW c \in Delegated
               PROVE Cardinality(Spots(stack, 1 .. Len(stack), c)) + Cardinality(Spots(frame, Run, c))
                       = IF pc[c] = "delegated" THEN 1 ELSE 0
    BY DEF HeldOnce, Spots
  <2>1. /\ \A i \in Frames : stack[i] \in Seq(Delegated) /\ Distinct(stack[i])
        /\ \A i, k \in Frames : i # k => Items(stack[i]) \cap Items(stack[k]) = {}
    <3>1. \A i \in Frames : stack[i] \in Seq(Delegated)
      BY <1>1 DEF IInv, TypeOK, Frames
    <3> QED
      BY <1>1, <3>1 DEF IInv, HeldOK
  <2>2. /\ \A r \in Run : frame[r] \in Seq(Delegated) /\ Distinct(frame[r])
        /\ \A r, q \in Run : r # q => Items(frame[r]) \cap Items(frame[q]) = {}
    BY <1>1 DEF IInv, TypeOK, HeldOK
  <2>3. Cardinality(Spots(stack, Frames, c)) = IF \E i \in Frames : c \in Items(stack[i]) THEN 1 ELSE 0
    BY <2>1, Places
  <2>4. Cardinality(Spots(frame, Run, c)) = IF \E r \in Run : c \in Items(frame[r]) THEN 1 ELSE 0
    BY <2>2, Places
  <2>5. c \in Run /\ (pc[c] = "delegated" <=> \/ \E r \in Run : c \in Items(frame[r])
                                              \/ \E i \in Frames : c \in Items(stack[i]))
    BY <1>1 DEF IInv, HeldOK, Run
  <2>6. ~ ((\E r \in Run : c \in Items(frame[r])) /\ (\E i \in Frames : c \in Items(stack[i])))
    BY <1>1 DEF IInv, HeldOK
  <2> QED
    BY <2>3, <2>4, <2>5, <2>6 DEF Frames
<1> QED
  BY <1>1, Invariance, PTL

-----------------------------------------------------------------------------
(***************************************************************************)
(* The agents table, for any number of requests: of the runs that work for *)
(* one request only one is active, so a mark is taken away under a run by  *)
(* a run of another request only.                                          *)
(***************************************************************************)
Active == Live \ {"handing"}
Pushed == Holding \cup {"queued"}

\* From the first mark of an agent's run to its return, and to the end of its plan.
Marked == Live \ {"starting"}
Told == Pushed \cup {"checking", "capped"}

OneEach ==
  \A r, q \in Run : pc[r] \in Active /\ pc[q] \in Active /\ job[r].root = job[q].root => r = q

RootsBorn ==
  \A r \in Run : pc[r] \in Live =>
    /\ job[r].root \in Run /\ pc[job[r].root] # "unborn"
    /\ job[r].host # NoRun => job[job[r].host].root = job[r].root

CrowdOK ==
  \A r, q \in Run : /\ pc[r] \in Marked /\ pc[q] \in Marked /\ job[r].root # job[q].root
                    /\ job[r].agent = job[q].agent /\ job[r].agent # NoAgent
                    => r \in crowded

RowsTold ==
  \A r \in Run : pc[r] \in Told /\ job[r].agent # NoAgent /\ r \notin crowded =>
    agentRow[job[r].agent] = "running"

TableOK == OneEach /\ RootsBorn /\ CrowdOK /\ RowsTold

LEMMA ActiveNames ==
  /\ Active \subseteq Live /\ Pushed \subseteq Told /\ Told \subseteq Active /\ Holding \subseteq Pushed
  /\ {"starting", "leaving", "draining"} \subseteq Active /\ {"queued"} \subseteq Pushed
  /\ {"starting", "leaving", "draining", "handing", "gone", "dropped", "delegated", "unborn"} \cap Told = {}
  /\ {"gone", "dropped", "delegated", "unborn"} \cap Live = {}
  /\ "handing" \in Live /\ "handing" \notin Active /\ {"checking", "capped"} \cap Pushed = {}
BY DEF Active, Pushed, Told, Live, Before, Holding, After

LEMMA TopHost == IInv => \A r \in Top : job[r].host = NoRun /\ job[r].root = r
<1> SUFFICES ASSUME IInv, NEW r \in Top PROVE job[r].host = NoRun /\ job[r].root = r
  OBVIOUS
<1>1. job[r] = TopJob(r)
  BY DEF IInv, BornOK, Run
<1>2. TopJob(r).host = NoRun /\ TopJob(r).root = r
  BY DEF TopJob
<1> QED
  BY <1>1, <1>2

LEMMA MarkedNames ==
  /\ Told \subseteq Marked /\ Marked \subseteq Live /\ "starting" \notin Marked
  /\ {"leaving", "handing", "checking"} \subseteq Marked
BY DEF Marked, Told, Pushed, Live, Before, Holding, After

LEMMA TableInit == Init => TableOK
<1> SUFFICES ASSUME Init PROVE TableOK
  OBVIOUS
<1>1. \A r \in Run : pc[r] \notin Live
  BY ActiveNames DEF Init
<1> QED
  BY <1>1, ActiveNames, MarkedNames DEF TableOK, OneEach, RootsBorn, CrowdOK, RowsTold

\* A step of an active run after its mark, which keeps the table.
Steps(r) ==
  /\ UNCHANGED <<job, agentRow, crowded>>
  /\ \A q \in Run \ {r} : pc'[q] = pc[q] \/ (pc[q] = "delegated" /\ pc'[q] = "dropped")
  /\ pc[r] \in Active \ {"starting"}
  /\ pc'[r] \in (Active \ {"starting"}) \cup {"gone"}
  /\ pc'[r] \in Told => pc[r] \in Told

LEMMA StepsKeep ==
  ASSUME TableOK, NEW r \in Run, Steps(r)
  PROVE  TableOK'
<1>1. ASSUME NEW q \in Run
      PROVE /\ pc'[q] \in Live => pc[q] \in Live
            /\ pc'[q] \in Active => pc[q] \in Active
            /\ pc'[q] \in Marked => pc[q] \in Marked
            /\ pc'[q] \in Told => pc[q] \in Told
            /\ pc'[q] = "unborn" => pc[q] = "unborn"
  <2>1. CASE q = r
    BY <2>1, ActiveNames, MarkedNames DEF Steps, Active, Marked
  <2>2. CASE q # r
    BY <2>2, ActiveNames, MarkedNames DEF Steps
  <2> QED
    BY <2>1, <2>2
<1>2. OneEach'
  BY <1>1 DEF Steps, TableOK, OneEach
<1>3. RootsBorn'
  BY <1>1 DEF Steps, TableOK, RootsBorn
<1>4. CrowdOK'
  BY <1>1 DEF Steps, TableOK, CrowdOK
<1>5. RowsTold'
  BY <1>1 DEF Steps, TableOK, RowsTold
<1> QED
  BY <1>2, <1>3, <1>4, <1>5 DEF TableOK

LEMMA PlanSteps ==
  ASSUME IInv, NEW r \in Run,
         \/ CapReached(r) \/ FailCapped(r) \/ PushFrame(r) \/ Acquire(r) \/ Driving(r)
  PROVE  Steps(r)
<1>1. PICK x \in {"capped", "queued", "draining"} \cup Holding \cup {Ended(r)} :
        /\ pc' = [pc EXCEPT ![r] = x]
        /\ pc[r] \in {"checking", "capped", "queued"} \cup Holding
  <2>1. ASSUME CapReached(r) \/ FailCapped(r) \/ PushFrame(r) \/ Acquire(r)
        PROVE \E x \in {"capped", "queued", "draining"} \cup Holding \cup {Ended(r)} :
                pc' = [pc EXCEPT ![r] = x] /\ pc[r] \in {"checking", "capped", "queued"} \cup Holding
    BY <2>1 DEF CapReached, FailCapped, PushFrame, Acquire, Holding
  <2>2. ASSUME Close(r)
        PROVE \E x \in {"capped", "queued", "draining"} \cup Holding \cup {Ended(r)} :
                pc' = [pc EXCEPT ![r] = x] /\ pc[r] \in {"checking", "capped", "queued"} \cup Holding
    BY <2>2 DEF Close, Finish, Holding
  <2>3. ASSUME \/ CreatePlan(r) \/ PassPreflight(r) \/ DeclinePreflight(r) \/ BeginTurn(r)
               \/ StopAtCheck(r) \/ NextTurn(r) \/ Complete(r) \/ FailPlan(r) \/ RereadRaises(r)
        PROVE \E x \in {"capped", "queued", "draining"} \cup Holding \cup {Ended(r)} :
                pc' = [pc EXCEPT ![r] = x] /\ pc[r] \in {"checking", "capped", "queued"} \cup Holding
    BY <2>3 DEF CreatePlan, PassPreflight, DeclinePreflight, BeginTurn, StopAtCheck, NextTurn,
                Complete, FailPlan, RereadRaises, End, Holding
  <2> QED
    BY <2>1, <2>2, <2>3 DEF Driving
<1>2. UNCHANGED <<job, agentRow, crowded>>
  <2>1. CASE CapReached(r) \/ FailCapped(r) \/ PushFrame(r) \/ Acquire(r)
    BY <2>1 DEF CapReached, FailCapped, PushFrame, Acquire, history
  <2>2. CASE Driving(r)
    BY <2>2 DEF Driving, Close, Finish, CreatePlan, PassPreflight, DeclinePreflight, BeginTurn,
                StopAtCheck, NextTurn, Complete, FailPlan, RereadRaises, End, history
  <2> QED
    BY <2>1, <2>2
<1>3. pc'[r] = x /\ \A q \in Run \ {r} : pc'[q] = pc[q]
  BY <1>1 DEF IInv, TypeOK
<1>4. Ended(r) \in {"gone", "leaving"}
  BY DEF Ended
<1>5. {"checking", "capped", "queued"} \cup Holding = Told
  BY DEF Told, Pushed
<1>6. "starting" \notin Told
  BY ActiveNames
<1>7. pc'[r] \in (Active \ {"starting"}) \cup {"gone"}
  BY <1>1, <1>3, <1>4, <1>5, <1>6, ActiveNames
<1>8. pc[r] \in Told /\ pc[r] \in Active \ {"starting"}
  BY <1>1, <1>5, <1>6, ActiveNames
<1> QED
  BY <1>2, <1>3, <1>7, <1>8 DEF Steps

LEMMA Unwinds ==
  ASSUME NEW r \in Run, Expire(r) \/ StatementRaises(r)
  PROVE  /\ pc[r] \in Live \ {"starting", "handing", "leaving"}
         /\ \E out \in {"timed", "failed"} : Unwind(r, out)
<1>1. CASE Expire(r)
  BY <1>1 DEF Expire
<1>2. CASE StatementRaises(r)
  <2>1. pc[r] \in Live \ {"starting", "handing", "leaving"}
    BY <1>2 DEF StatementRaises, Live, Before, Holding
  <2> QED
    BY <1>2, <2>1 DEF StatementRaises
<1> QED
  BY <1>1, <1>2

LEMMA UnwindSteps ==
  ASSUME IInv, NEW r \in Run, Expire(r) \/ StatementRaises(r)
  PROVE  Steps(r)
<1>1. PICK rest : rest = Items(frame[r])
  OBVIOUS
<1>2. /\ pc[r] \in Live \ {"starting", "handing", "leaving"}
      /\ pc' = [q \in Run |-> CASE q = r -> Ended(r) [] q \in rest -> "dropped" [] OTHER -> pc[q]]
      /\ UNCHANGED <<job, agentRow, crowded>>
  <2>1. PICK out \in {"timed", "failed"} : Unwind(r, out)
    BY Unwinds
  <2>2. pc' = [q \in Run |-> CASE q = r -> Ended(r) [] q \in rest -> "dropped" [] OTHER -> pc[q]]
    BY <1>1, <2>1 DEF Unwind
  <2>3. UNCHANGED <<job, agentRow, crowded>>
    BY <2>1 DEF Unwind
  <2> QED
    BY <2>2, <2>3, Unwinds
<1>3. rest \subseteq Run /\ r \notin rest /\ \A q \in rest : pc[q] = "delegated"
  <2>1. rest \subseteq Run /\ \A q \in rest : pc[q] = "delegated"
    BY <1>1, InFrame
  <2> QED
    BY <1>2, <2>1, ActiveNames
<1>4. /\ pc'[r] = Ended(r) /\ \A q \in Run \ {r} : pc'[q] = pc[q] \/ (pc[q] = "delegated" /\ pc'[q] = "dropped")
  <2>1. pc'[r] = Ended(r)
    BY <1>2, <1>3
  <2>2. \A q \in Run \ {r} : q \in rest => pc[q] = "delegated" /\ pc'[q] = "dropped"
    BY <1>2, <1>3
  <2>3. \A q \in Run \ {r} : q \notin rest => pc'[q] = pc[q]
    BY <1>2
  <2> QED
    BY <2>1, <2>2, <2>3
<1>5. Ended(r) \in {"leaving", "gone"}
  BY DEF Ended
<1> QED
  BY <1>2, <1>4, <1>5, ActiveNames DEF Steps, Active

\* Nobody works for a request that is not born.
LEMMA TableRequest ==
  ASSUME IInv, TableOK, NEW r \in Run, Request(r)
  PROVE  TableOK'
<1>1. /\ r \in Top /\ pc[r] = "unborn" /\ UNCHANGED <<job, agentRow, crowded>>
  BY DEF Request, history
<1>2. /\ pc'[r] \in {"starting", "checking", "gone", "leaving"} /\ \A q \in Run \ {r} : pc'[q] = pc[q]
      /\ pc'[r] # "starting" => job[r].agent = NoAgent
  <2>1. CASE job[r].agent = NoAgent
    BY <2>1, EnterEffect, PcType, StageNames DEF Request
  <2>2. CASE job[r].agent # NoAgent
    BY <2>2, StageNames, PcType DEF Request
  <2> QED
    BY <2>1, <2>2
<1>3. job[r].root = r /\ job[r].host = NoRun
  BY <1>1, TopHost
<1>4. \A q \in Run \ {r} : pc[q] \in Live => job[q].root # r
  BY <1>1 DEF TableOK, RootsBorn
<1>5. OneEach'
  BY <1>1, <1>2, <1>3, <1>4, ActiveNames DEF TableOK, OneEach
<1>6. RootsBorn'
  BY <1>1, <1>2, <1>3 DEF TableOK, RootsBorn
<1>7. CrowdOK' /\ RowsTold'
  BY <1>1, <1>2, ActiveNames, MarkedNames DEF TableOK, CrowdOK, RowsTold
<1> QED
  BY <1>5, <1>6, <1>7 DEF TableOK

\* Runs of one agent that work for two requests are both noted.
LEMMA TableMark ==
  ASSUME IInv, TableOK, NEW r \in Run, MarkRunning(r) \/ MarkRunningCut(r)
  PROVE  TableOK'
<1>1. /\ pc[r] = "starting" /\ Meet(r) /\ job' = job
      /\ \/ agentRow' = agentRow
         \/ agentRow' = [agentRow EXCEPT ![job[r].agent] = "running"]
  BY DEF MarkRunning, Mark, MarkRunningCut
<1>2. pc'[r] \in {"checking", "gone", "leaving"} /\ \A q \in Run \ {r} : pc'[q] = pc[q]
  <2>1. CASE MarkRunning(r)
    BY <2>1, EnterEffect, PcType, StageNames DEF MarkRunning, Mark
  <2>2. CASE MarkRunningCut(r)
    BY <2>2, PcType, StageNames DEF MarkRunningCut
  <2> QED
    BY <2>1, <2>2
<1>3. pc'[r] = "checking" => agentRow' = [agentRow EXCEPT ![job[r].agent] = "running"]
  <2>1. CASE MarkRunning(r)
    BY <2>1 DEF MarkRunning, Mark
  <2>2. CASE MarkRunningCut(r)
    BY <2>2, PcType, StageNames DEF MarkRunningCut
  <2> QED
    BY <2>1, <2>2
<1>4. crowded \subseteq crowded' /\ (\A q \in Others(r) : q \in crowded' /\ r \in crowded')
  BY <1>1 DEF Meet
<1>5. /\ pc[r] \in Active /\ pc[r] \in Live
      /\ \A q \in Run \ {r} : pc[q] \in Marked /\ job[q].agent = job[r].agent
                              /\ job[q].root # job[r].root => q \in Others(r)
  BY <1>1, ActiveNames DEF Others, Marked
<1>6. OneEach' /\ RootsBorn'
  BY <1>1, <1>2, <1>5, ActiveNames DEF TableOK, OneEach, RootsBorn
<1>7. CrowdOK'
  BY <1>1, <1>2, <1>4, <1>5 DEF TableOK, CrowdOK
<1>8. RowsTold'
  <2>1. job[r].agent # NoAgent => job[r].agent \in Agent
    BY DEF IInv, TypeOK, JobRecord
  <2>2. \A a \in Agent : agentRow[a] = "running" => agentRow'[a] = "running"
    BY <1>1 DEF IInv, TypeOK
  <2>3. \A q \in Run : job[q].agent \in Agent \cup {NoAgent}
    BY DEF IInv, TypeOK, JobRecord
  <2>4. pc'[r] \in Told /\ job[r].agent # NoAgent => agentRow'[job[r].agent] = "running"
    BY <1>2, <1>3, <2>1, ActiveNames DEF IInv, TypeOK
  <2> QED
    BY <1>1, <1>2, <1>4, <2>2, <2>3, <2>4 DEF TableOK, RowsTold
<1> QED
  BY <1>6, <1>7, <1>8 DEF TableOK

LEMMA TableDelegate ==
  ASSUME IInv, TableOK, NEW r \in Run, NEW c \in Delegated, NEW a \in Agent, Delegate(r, c, a)
  PROVE  TableOK'
<1>1. /\ pc[c] = "unborn" /\ c \in Run /\ pc' = [pc EXCEPT ![c] = "delegated"]
      /\ UNCHANGED <<agentRow, crowded>>
      /\ \A q \in Run \ {c} : job'[q] = job[q]
  BY DEF Delegate, Queue, Run, history, IInv, TypeOK
<1>2. pc'[c] = "delegated" /\ \A q \in Run \ {c} : pc'[q] = pc[q]
  BY <1>1 DEF IInv, TypeOK
<1>3. \A q \in Run : (pc'[q] \in Live => pc[q] \in Live /\ q # c)
                     /\ (pc'[q] \in Active => pc[q] \in Active /\ q # c)
                     /\ (pc'[q] \in Marked => pc[q] \in Marked /\ q # c)
                     /\ (pc'[q] \in Told => pc[q] \in Told /\ q # c)
  BY <1>1, <1>2, ActiveNames, MarkedNames
<1>4. \A q \in Run : pc[q] \in Live => job[q].host \in Run \cup {NoRun} /\ job[q].host # c
  <2>1. \A q \in Run : job[q].host \in Run \cup {NoRun}
    BY DEF IInv, TypeOK, JobRecord
  <2>2. c # NoRun
    BY <1>1, OrchestratorAssumptions
  <2> QED
    BY <1>1, <2>1, <2>2 DEF IInv, HostOK
<1>5. RootsBorn'
  <2>1. ASSUME NEW q \in Run, pc'[q] \in Live
        PROVE /\ job'[q].root \in Run /\ pc'[job'[q].root] # "unborn"
              /\ job'[q].host # NoRun => job'[job'[q].host].root = job'[q].root
    <3>1. q # c /\ pc[q] \in Live /\ job'[q] = job[q]
      BY <1>1, <1>3, <2>1
    <3>2. job[q].root \in Run /\ pc[job[q].root] # "unborn"
      BY <3>1 DEF TableOK, RootsBorn
    <3>3. job[q].host # NoRun => job'[job[q].host] = job[job[q].host]
      BY <1>1, <1>4, <3>1
    <3> QED
      BY <1>2, <3>1, <3>2, <3>3 DEF TableOK, RootsBorn
  <2> QED
    BY <2>1 DEF RootsBorn
<1>6. OneEach' /\ CrowdOK' /\ RowsTold'
  BY <1>1, <1>3 DEF TableOK, OneEach, CrowdOK, RowsTold
<1> QED
  BY <1>5, <1>6 DEF TableOK

LEMMA TableHandOff ==
  ASSUME IInv, TableOK, NEW r \in Run, HandOff(r)
  PROVE  TableOK'
<1>1. PICK c : c = Head(frame[r])
  OBVIOUS
<1>2. /\ pc[r] = "draining"
      /\ job' = [job EXCEPT ![c] = [job[c] EXCEPT !.host = r, !.root = job[r].root]]
      /\ pc' = [pc EXCEPT ![r] = "handing", ![c] = "starting"]
      /\ UNCHANGED <<agentRow, crowded>>
  BY <1>1 DEF HandOff, history
<1>3. /\ c \in Run /\ pc[c] = "delegated" /\ c # r
  <2>1. frame[r] # <<>> /\ frame[r] \in Seq(Delegated)
    BY <1>2, InFrame DEF IInv, HeldOK
  <2>2. c \in Items(frame[r])
    BY <1>1, <2>1, SeqItems
  <2> QED
    BY <1>2, <2>2, InFrame
<1>4. /\ pc'[r] = "handing" /\ pc'[c] = "starting" /\ \A q \in Run \ {r, c} : pc'[q] = pc[q]
  BY <1>2, <1>3 DEF IInv, TypeOK
<1>5. /\ \A q \in Run \ {c} : job'[q] = job[q]
      /\ job'[c].host = r /\ job'[c].root = job[r].root
  <2>1. PICK x : x = [job[c] EXCEPT !.host = r, !.root = job[r].root]
    OBVIOUS
  <2>2. job[c] \in JobRecord
    BY <1>3 DEF IInv, TypeOK
  <2>3. x.host = r /\ x.root = job[r].root
    BY <2>1, <2>2 DEF JobRecord
  <2>4. job' = [job EXCEPT ![c] = x]
    BY <1>2, <2>1
  <2> QED
    BY <1>3, <2>3, <2>4 DEF IInv, TypeOK
<1>6. /\ pc[r] \in Active /\ pc[r] \in Live /\ pc[r] \in Marked
      /\ \A q \in Run : /\ pc'[q] \in Active => q = c \/ (q # r /\ pc[q] \in Active)
                        /\ pc'[q] \in Live => q = c \/ pc[q] \in Live
                        /\ pc'[q] \in Marked => q # c /\ pc[q] \in Marked
                        /\ pc'[q] \in Told => q # c /\ pc[q] \in Told
                        /\ pc'[q] = "unborn" => pc[q] = "unborn"
  BY <1>2, <1>3, <1>4, ActiveNames, MarkedNames DEF Marked
<1>7. OneEach'
  <2>1. ASSUME NEW p \in Run, NEW q \in Run, pc'[p] \in Active, pc'[q] \in Active,
               job'[p].root = job'[q].root, p # c
        PROVE p = q
    <3>1. p # r /\ pc[p] \in Active /\ job'[p] = job[p]
      BY <1>5, <1>6, <2>1
    <3>2. CASE q = c
      BY <1>5, <1>6, <2>1, <3>1, <3>2 DEF TableOK, OneEach
    <3>3. CASE q # c
      BY <1>5, <1>6, <2>1, <3>1, <3>3 DEF TableOK, OneEach
    <3> QED
      BY <3>2, <3>3
  <2> QED
    BY <2>1 DEF OneEach
<1>8. RootsBorn'
  <2>1. ASSUME NEW q \in Run, pc'[q] \in Live
        PROVE /\ job'[q].root \in Run /\ pc'[job'[q].root] # "unborn"
              /\ job'[q].host # NoRun => job'[job'[q].host].root = job'[q].root
    <3>1. CASE q = c
      BY <1>3, <1>5, <1>6, <3>1 DEF TableOK, RootsBorn
    <3>2. CASE q # c
      <4>1. pc[q] \in Live /\ job'[q] = job[q]
        BY <1>5, <1>6, <2>1, <3>2
      <4>2. job[q].host # NoRun => job[q].host \in Run /\ job[q].host # c
        <5>1. job[q].host \in Run \cup {NoRun}
          BY DEF IInv, TypeOK, JobRecord
        <5>2. job[q].host # NoRun => pc[job[q].host] = "handing"
          BY <4>1 DEF IInv, HostOK
        <5> QED
          BY <1>3, <5>1, <5>2
      <4> QED
        BY <1>5, <1>6, <4>1, <4>2 DEF TableOK, RootsBorn
    <3> QED
      BY <3>1, <3>2
  <2> QED
    BY <2>1 DEF RootsBorn
<1>9. CrowdOK' /\ RowsTold'
  <2>1. \A q \in Run : pc'[q] \in Marked => pc[q] \in Marked /\ job'[q] = job[q]
    BY <1>5, <1>6
  <2>2. \A q \in Run : pc'[q] \in Told => pc[q] \in Told /\ job'[q] = job[q]
    BY <1>5, <1>6
  <2>3. CrowdOK'
    BY <1>2, <2>1 DEF TableOK, CrowdOK
  <2>4. RowsTold'
    BY <1>2, <2>2 DEF TableOK, RowsTold
  <2> QED
    BY <2>3, <2>4
<1> QED
  BY <1>7, <1>8, <1>9 DEF TableOK

\* Only a run that leaves takes its agent's mark away; who still needs it is crowded.
LEMMA TableReturn ==
  ASSUME IInv, TableOK, NEW r \in Run, NEW out, pc[r] \in {"starting", "leaving"}, Return(r, out),
         UNCHANGED <<job, crowded>>,
         \A a \in Agent : agentRow'[a] # agentRow[a] => pc[r] = "leaving" /\ a = job[r].agent
  PROVE  TableOK'
<1>1. PICK h : h = job[r].host
  OBVIOUS
<1>2. PICK rest : rest = IF h = NoRun \/ out = "ok" THEN {} ELSE Items(frame[h])
  OBVIOUS
<1>3. PICK next : next = IF out = "ok" /\ frame[h] # <<>> THEN "draining" ELSE Ended(h)
  OBVIOUS
<1>4. pc' = [q \in Run |-> CASE q = r -> "gone" [] q = h -> next
                                [] q \in rest -> "dropped" [] OTHER -> pc[q]]
  BY <1>1, <1>2, <1>3 DEF Return
<1>5. pc[r] \in Active /\ pc[r] \in Live
  BY ActiveNames
<1>6. h \in Run \cup {NoRun} /\ (h # NoRun => h \in Run /\ pc[h] = "handing") /\ h # r
  <2>1. h \in Run \cup {NoRun}
    BY <1>1 DEF IInv, TypeOK, JobRecord
  <2>2. h # NoRun => pc[h] = "handing"
    BY <1>1, <1>5 DEF IInv, HostOK
  <2> QED
    BY <2>1, <2>2, OrchestratorAssumptions
<1>7. rest \subseteq Run /\ (\A q \in rest : pc[q] = "delegated") /\ r \notin rest /\ h \notin rest
  <2>1. rest \subseteq Run /\ \A q \in rest : pc[q] = "delegated"
    BY <1>2, <1>6, InFrame
  <2> QED
    BY <1>5, <1>6, <2>1, ActiveNames, OrchestratorAssumptions
<1>8. pc'[r] = "gone"
  BY <1>4, <1>6, <1>7
<1>9. \A q \in Run : q # r /\ q # h => pc'[q] = pc[q] \/ (pc[q] = "delegated" /\ pc'[q] = "dropped")
  <2>1. \A q \in Run : q # r /\ q # h /\ q \in rest => pc[q] = "delegated" /\ pc'[q] = "dropped"
    BY <1>4, <1>7
  <2>2. \A q \in Run : q # r /\ q # h /\ q \notin rest => pc'[q] = pc[q]
    BY <1>4
  <2> QED
    BY <2>1, <2>2
<1>10. h # NoRun => pc'[h] = next /\ next \in {"draining", "leaving", "gone"}
  <2>1. ASSUME h # NoRun PROVE pc'[h] = next
    <3>1. h \in Run /\ h # r /\ h \notin rest
      BY <1>6, <1>7, <2>1
    <3> QED
      BY <1>4, <3>1
  <2>2. next \in {"draining", "leaving", "gone"}
    BY <1>3 DEF Ended
  <2> QED
    BY <2>1, <2>2
<1>11. ASSUME NEW q \in Run
       PROVE /\ pc'[q] \in Live => q # r /\ pc[q] \in Live
             /\ pc'[q] \in Active => q # r /\ (q = h \/ pc[q] \in Active)
             /\ pc'[q] \in Marked => q # r /\ pc[q] \in Marked
             /\ pc'[q] \in Told => q # r /\ q # h /\ pc[q] \in Told
             /\ pc'[q] = "unborn" => pc[q] = "unborn"
  <2>1. CASE q = r
    BY <1>8, <2>1, ActiveNames, MarkedNames
  <2>2. CASE q = h
    <3>1. pc[q] = "handing" /\ pc'[q] \in {"draining", "leaving", "gone"}
      BY <1>6, <1>10, <2>2, OrchestratorAssumptions
    <3> QED
      BY <1>6, <2>2, <3>1, ActiveNames, MarkedNames DEF Marked
  <2>3. CASE q # r /\ q # h
    BY <1>9, <2>3, ActiveNames, MarkedNames
  <2> QED
    BY <2>1, <2>2, <2>3
<1>12. h # NoRun => job[h].root = job[r].root
  BY <1>1, <1>5 DEF TableOK, RootsBorn
<1>13. \A q \in Run : q # r /\ pc[q] \in Active => job[q].root # job[r].root
  BY <1>5 DEF TableOK, OneEach
<1>14. OneEach'
  <2>1. ASSUME NEW p \in Run, NEW q \in Run, pc'[p] \in Active, pc'[q] \in Active,
               job[p].root = job[q].root, p # h
        PROVE p = q
    <3>1. p # r /\ pc[p] \in Active
      BY <1>11, <2>1, ActiveNames
    <3>2. q # h
      BY <1>6, <1>12, <1>13, <2>1, <3>1, OrchestratorAssumptions
    <3>3. pc[q] \in Active
      BY <1>11, <2>1, <3>2
    <3> QED
      BY <2>1, <3>1, <3>3 DEF TableOK, OneEach
  <2> QED
    BY <2>1 DEF OneEach
<1>15. RootsBorn' /\ CrowdOK'
  <2>1. RootsBorn'
    BY <1>11 DEF TableOK, RootsBorn
  <2>2. CrowdOK'
    BY <1>11 DEF TableOK, CrowdOK
  <2> QED
    BY <2>1, <2>2
<1>16. RowsTold'
  <2>1. ASSUME NEW q \in Run, pc'[q] \in Told, job[q].agent # NoAgent, q \notin crowded
        PROVE agentRow'[job[q].agent] = "running"
    <3>1. q # r /\ pc[q] \in Told /\ pc[q] \in Active /\ pc[q] \in Marked
      BY <1>11, <2>1, ActiveNames, MarkedNames
    <3>2. agentRow[job[q].agent] = "running"
      BY <2>1, <3>1 DEF TableOK, RowsTold
    <3>3. job[q].agent \in Agent
      BY <2>1 DEF IInv, TypeOK, JobRecord
    <3>4. ASSUME job[q].agent = job[r].agent, pc[r] = "leaving" PROVE FALSE
      <4>1. job[q].root # job[r].root /\ pc[r] \in Marked
        BY <1>13, <3>1, <3>4, MarkedNames
      <4> QED
        BY <2>1, <3>1, <3>4, <4>1 DEF TableOK, CrowdOK
    <3> QED
      BY <3>2, <3>3, <3>4
  <2> QED
    BY <2>1 DEF RowsTold
<1> QED
  BY <1>14, <1>15, <1>16 DEF TableOK

LEMMA TableReturnStep ==
  ASSUME IInv, TableOK, NEW r \in Run,
         SandboxFails(r) \/ MarkReady(r) \/ ExpireEarly(r) \/ MarkReadyCut(r)
  PROVE  TableOK'
<1>1. CASE SandboxFails(r)
  BY <1>1, TableReturn DEF SandboxFails, history
<1>2. CASE MarkReady(r)
  <2>1. \A a \in Agent : agentRow'[a] # agentRow[a] => a = job[r].agent
    BY <1>2 DEF MarkReady, IInv, TypeOK
  <2> QED
    BY <1>2, <2>1, TableReturn DEF MarkReady, history
<1>3. CASE ExpireEarly(r)
  BY <1>3, TableReturn DEF ExpireEarly, history
<1>4. CASE MarkReadyCut(r)
  <2>1. \A a \in Agent : agentRow'[a] # agentRow[a] => a = job[r].agent
    BY <1>4 DEF MarkReadyCut, IInv, TypeOK
  <2>2. PICK out \in {"timed", "failed"} : Return(r, out)
    BY <1>4 DEF MarkReadyCut
  <2> QED
    BY <1>4, <2>1, <2>2, TableReturn DEF MarkReadyCut, history
<1> QED
  BY <1>1, <1>2, <1>3, <1>4

LEMMA NobodyLive ==
  ASSUME IInv, Restart
  PROVE  \A r \in Run : pc'[r] \notin Live
<1>1. pc' = [r \in Run |-> CASE pc[r] \in Live -> "gone" [] pc[r] = "delegated" -> "dropped"
                                [] OTHER -> pc[r]]
  BY DEF Restart, Forget
<1> SUFFICES ASSUME NEW r \in Run PROVE pc'[r] \notin Live
  OBVIOUS
<1>2. pc[r] \in {"unborn", "delegated", "dropped", "gone"} \cup Live
  BY DEF IInv, TypeOK
<1>3. pc[r] \in Live => pc'[r] = "gone"
  BY <1>1, ActiveNames
<1>4. pc[r] = "delegated" => pc'[r] = "dropped"
  BY <1>1, ActiveNames
<1>5. pc[r] \in {"unborn", "dropped", "gone"} => pc'[r] = pc[r]
  BY <1>1, ActiveNames
<1> QED
  BY <1>2, <1>3, <1>4, <1>5, ActiveNames

LEMMA TableStill ==
  ASSUME TableOK, UNCHANGED <<pc, job, agentRow, crowded>>
  PROVE  TableOK'
BY DEF TableOK, OneEach, RootsBorn, CrowdOK, RowsTold

LEMMA TableNext == IInv /\ TableOK /\ [Next]_vars => TableOK'
<1> SUFFICES ASSUME IInv, TableOK, [Next]_vars PROVE TableOK'
  OBVIOUS
<1>1. ASSUME NEW r \in Run, Request(r) PROVE TableOK'
  BY <1>1, TableRequest
<1>2. ASSUME NEW r \in Run, Entering(r) PROVE TableOK'
  BY <1>2, TableMark, TableReturnStep, PlanSteps, StepsKeep DEF Entering
<1>3. ASSUME NEW r \in Run, Driving(r) PROVE TableOK'
  BY <1>3, PlanSteps, StepsKeep
<1>4. ASSUME NEW r \in Run, Leaving(r) PROVE TableOK'
  BY <1>4, TableHandOff, TableReturnStep DEF Leaving
<1>5. ASSUME NEW r \in Run, Cancel(r) PROVE TableOK'
  BY <1>5, TableStill DEF Cancel, Arm, history
<1>6. ASSUME NEW r \in Run, \/ Expire(r) \/ StatementRaises(r) \/ ExpireEarly(r)
                            \/ MarkRunningCut(r) \/ MarkReadyCut(r)
      PROVE TableOK'
  BY <1>6, UnwindSteps, StepsKeep, TableReturnStep, TableMark
<1>7. ASSUME NEW r \in Run, NEW c \in Delegated, NEW a \in Agent, Delegate(r, c, a) PROVE TableOK'
  BY <1>7, TableDelegate
<1>8. CASE Restart
  BY <1>8, NobodyLive, ActiveNames, MarkedNames DEF TableOK, OneEach, RootsBorn, CrowdOK, RowsTold
<1>9. CASE UNCHANGED vars
  BY <1>9, TableStill DEF vars
<1> QED
  BY <1>1, <1>2, <1>3, <1>4, <1>5, <1>6, <1>7, <1>8, <1>9 DEF Next

\* The agents table says "running" of every agent whose plan holds the lock, but of those
\* that two requests had under way together.
THEOREM AgentRowHonestHolds == Spec => []AgentRowHonest
<1>1. Init => TableOK
  BY TableInit
<1>2. IInv /\ TableOK /\ [Next]_vars => TableOK'
  BY TableNext
<1>3. TableOK => AgentRowHonest
  BY ActiveNames DEF TableOK, RowsTold, AgentRowHonest
<1> QED
  BY <1>1, <1>2, <1>3, Invariance, PTL DEF Spec

-----------------------------------------------------------------------------
(***************************************************************************)
(* Requests one at a time (MaxTop = 1): the live runs are a request and a  *)
(* line of delegations, each awaited by the one before it.  Only the last  *)
(* of them does anything.                                                  *)
(***************************************************************************)
OneActive == \A r, q \in Run : pc[r] \in Active /\ pc[q] \in Active => r = q

\* Everybody works for the request that is under way.
RootsLive == \A r \in Run : pc[r] \in Live => job[r].root \in Top /\ pc[job[r].root] \in Live

\* c is a delegation of r, one deeper.
Below1(c, r) == job[c].depth = job[r].depth + 1 /\ job[c].depth <= MaxDelegationDepth

\* Who hands off awaits somebody: with the bound on depths, there is an end of the line.
Awaited ==
  \A q \in Run : pc[q] = "handing" =>
    \E c \in Run : pc[c] \in Live /\ job[c].host = q /\ Below1(c, q)

OwnFrames == \A r \in Run : \A c \in Items(frame[r]) : job[c].by = r /\ Below1(c, r)

\* The frame and the depth that a plan sees are its own.
OwnStack ==
  \A r \in Run : pc[r] \in Pushed =>
    /\ depth = job[r].depth
    /\ \A c \in Items(stack[Len(stack)]) : job[c].by = r /\ Below1(c, r)

Alone ==
  /\ OneActive /\ RootsLive /\ Awaited /\ OwnFrames /\ OwnStack
  /\ Scoped /\ TakesOver

\* The line ends with the run that is active: a set that is closed under being
\* awaited and holds that run holds all.
LEMMA Line ==
  ASSUME IInv, Alone, NEW r \in Run, pc[r] \in Active,
         NEW X \in SUBSET Run, r \in X, \A x \in X : job[x].host \in X \cup {NoRun}
  PROVE  \A q \in Run : pc[q] \in Live => q \in X
<1>1. ASSUME NEW q \in Run \ X, pc[q] \in Live
      PROVE \E c \in Run \ X : pc[c] \in Live /\ Below1(c, q)
  <2>1. pc[q] = "handing"
    BY <1>1 DEF Alone, OneActive, Active
  <2>2. PICK c \in Run : pc[c] \in Live /\ job[c].host = q /\ Below1(c, q)
    BY <1>1, <2>1 DEF Alone, Awaited
  <2>3. q # NoRun
    BY <1>1, OrchestratorAssumptions
  <2>4. c \notin X
    BY <1>1, <2>2, <2>3
  <2> QED
    BY <2>2, <2>4
<1>2. \A q \in Run : job[q].depth \in Nat
  BY DEF IInv, TypeOK, JobRecord
<1> SUFFICES ASSUME NEW q \in Run \ X, pc[q] \in Live PROVE FALSE
  OBVIOUS
<1>3. PICK c \in Run \ X : pc[c] \in Live /\ Below1(c, q)
  BY <1>1
<1>4. PICK d \in Run \ X : pc[d] \in Live /\ Below1(d, c)
  BY <1>1, <1>3
<1>5. PICK e \in Run \ X : pc[e] \in Live /\ Below1(e, d)
  BY <1>1, <1>4
<1>6. job[e].depth = job[q].depth + 3 /\ job[e].depth <= 2
  BY <1>2, <1>3, <1>4, <1>5 DEF Below1, MaxDelegationDepth
<1>7. job[q].depth \in Nat
  BY <1>2
<1> QED
  BY <1>6, <1>7

\* A step of the active run that hands nothing over and takes nothing back.
Moves(r) ==
  /\ job' = job
  /\ \A q \in Run \ {r} : pc'[q] = pc[q] \/ (pc[q] = "delegated" /\ pc'[q] = "dropped")
  /\ pc[r] \in Active
  /\ pc'[r] \in Active \/ (pc'[r] = "gone" /\ job[r].agent = NoAgent)

LEMMA MovesKeep ==
  ASSUME IInv, Alone, NEW r \in Run, Moves(r)
  PROVE  /\ OneActive' /\ RootsLive' /\ Awaited' /\ Scoped'
         /\ \A q \in Run : q # r => pc'[q] \notin Told
<1>1. \A q \in Run \ {r} : pc[q] \notin Active /\ pc'[q] \notin Active
                           /\ (pc'[q] \in Live <=> pc[q] \in Live)
                           /\ (pc'[q] = "handing" <=> pc[q] = "handing")
  BY ActiveNames DEF Moves, Alone, OneActive
<1>2. pc[r] # "handing" /\ pc'[r] # "handing" /\ pc[r] \in Live
  BY ActiveNames DEF Moves
<1>3. OneActive'
  BY <1>1 DEF OneActive, Active
<1>4. RootsLive' /\ Awaited'
  <2>1. CASE pc'[r] \in Active
    <3>1. pc'[r] \in Live
      BY <2>1, ActiveNames
    <3>2. RootsLive'
      <4>1. ASSUME NEW q \in Run, pc'[q] \in Live PROVE job[q].root \in Top /\ pc'[job[q].root] \in Live
        <5>1. pc[q] \in Live
          BY <1>1, <1>2, <4>1
        <5>2. job[q].root \in Run /\ job[q].root \in Top /\ pc[job[q].root] \in Live
          BY <5>1 DEF Alone, RootsLive, Run
        <5> QED
          BY <1>1, <3>1, <5>2
      <4> QED
        BY <4>1 DEF RootsLive, Moves
    <3>3. Awaited'
      BY <1>1, <1>2, <3>1 DEF Awaited, Alone, Below1, Moves
    <3> QED
      BY <3>2, <3>3
  <2>2. CASE pc'[r] = "gone" /\ job[r].agent = NoAgent
    <3>1. r \in Top /\ job[r].host = NoRun
      <4>1. pc[r] # "unborn"
        BY <1>2, ActiveNames
      <4>2. r \notin Delegated
        BY <2>2, <4>1 DEF IInv, BornOK
      <4> QED
        BY <4>2, TopHost DEF Run
    <3>2. \A q \in Run : pc[q] \in Live => q \in {r}
      <4>1. {r} \in SUBSET Run /\ \A x \in {r} : job[x].host \in {r} \cup {NoRun}
        BY <3>1
      <4> QED
        BY <4>1, Line DEF Moves
    <3>3. \A q \in Run : pc'[q] \notin Live
      BY <1>1, <2>2, <3>2, ActiveNames
    <3> QED
      BY <3>3, ActiveNames DEF RootsLive, Awaited
  <2> QED
    BY <2>1, <2>2 DEF Moves
<1>5. Scoped'
  BY DEF Moves, Alone, Scoped
<1>6. \A q \in Run : q # r => pc'[q] \notin Told
  BY <1>1, ActiveNames
<1> QED
  BY <1>3, <1>4, <1>5, <1>6

\* Such a step that leaves frames alone.
LEMMA PlainKeeps ==
  ASSUME IInv, Alone, NEW r \in Run, Moves(r), UNCHANGED <<frame, stack, depth>>,
         pc'[r] \in Pushed => pc[r] \in Pushed,
         \A q \in Run : outcome'[q] \in {outcome[q], "ok"}
  PROVE  Alone'
<1>1. OwnFrames'
  BY DEF Moves, Alone, OwnFrames, Below1, Items
<1>2. OwnStack'
  <2>1. \A q \in Run : pc'[q] \in Pushed => pc[q] \in Pushed
    BY MovesKeep, ActiveNames
  <2> QED
    BY <2>1 DEF Moves, Alone, OwnStack, Below1, Items
<1>3. TakesOver'
  BY DEF Alone, TakesOver, Run
<1> QED
  BY <1>1, <1>2, <1>3, MovesKeep DEF Alone

LEMMA AloneInit == Init => Alone
<1> SUFFICES ASSUME Init PROVE Alone
  OBVIOUS
<1>1. \A r \in Run : pc[r] = "unborn" /\ frame[r] = <<>> /\ outcome[r] = "none" /\ job[r].host = NoRun
  BY DEF Init, TopJob, NoJob
<1>2. \A r \in Run : Items(frame[r]) = {}
  BY <1>1 DEF Items
<1>3. /\ OneActive /\ RootsLive /\ Awaited /\ OwnFrames /\ OwnStack
  BY <1>1, <1>2, ActiveNames DEF OneActive, RootsLive, Awaited, OwnFrames, OwnStack
<1>4. Scoped /\ TakesOver
  BY <1>1 DEF Scoped, TakesOver, Run
<1> QED
  BY <1>3, <1>4 DEF Alone

\* While nobody is live.
LEMMA NobodyKeeps ==
  ASSUME IInv, Alone, NEW r \in Run, r \in Top,
         \A q \in Run : pc[q] \notin Live,
         \A q \in Run \ {r} : pc'[q] = pc[q],
         pc'[r] \in {"starting", "checking", "gone", "leaving"},
         \A q \in Run \ {r} : outcome'[q] = outcome[q],
         UNCHANGED <<job, frame, stack, depth>>
  PROVE  Alone'
<1>1. r \notin Delegated /\ job[r].root = r
  BY TopHost, OrchestratorAssumptions
<1>2. \A q \in Run \ {r} : pc'[q] \notin Live /\ pc'[q] \notin Told
  BY ActiveNames
<1>3. pc'[r] \in Live \/ pc'[r] = "gone"
  BY StageNames
<1>4. OneActive' /\ RootsLive' /\ Awaited'
  BY <1>1, <1>2, <1>3, ActiveNames DEF OneActive, RootsLive, Awaited, Active
<1>5. OwnFrames' /\ Scoped' /\ TakesOver'
  BY <1>1 DEF Alone, OwnFrames, Scoped, TakesOver, Below1, Items, Run
<1>6. OwnStack'
  BY <1>2, ActiveNames DEF OwnStack, Told, Pushed
<1> QED
  BY <1>4, <1>5, <1>6 DEF Alone

LEMMA AloneRequest ==
  ASSUME IInv, Alone, MaxTop = 1, NEW r \in Run, Request(r)
  PROVE  Alone'
<1>1. \A q \in Run : pc[q] \notin Live
  <2> DEFINE L == {t \in Top : pc[t] \in Live}
  <2>1. Cardinality(L) < 1 /\ IsFiniteSet(L)
    <3>1. L \in SUBSET Run /\ IsFiniteSet(Run)
      BY OrchestratorAssumptions DEF Run
    <3> QED
      BY <3>1, FS_Subset DEF Request
  <2>2. Cardinality(L) = 0
    BY <2>1, FS_CardinalityType
  <2>3. L = {}
    BY <2>1, <2>2, FS_EmptySet
  <2> QED
    BY <2>3 DEF Alone, RootsLive
<1>2. /\ r \in Top /\ UNCHANGED <<job, frame, stack, depth>>
  BY DEF Request, stackVars
<1>3. CASE job[r].agent = NoAgent
  BY <1>1, <1>2, <1>3, EnterEffect, PcType, StageNames, NobodyKeeps DEF Request
<1>4. CASE job[r].agent # NoAgent
  <2>1. pc' = [pc EXCEPT ![r] = "starting"] /\ outcome' = outcome
    BY <1>4 DEF Request
  <2>2. pc'[r] = "starting" /\ \A q \in Run \ {r} : pc'[q] = pc[q]
    BY <2>1 DEF IInv, TypeOK
  <2> QED
    BY <1>1, <1>2, <2>1, <2>2, NobodyKeeps
<1> QED
  BY <1>3, <1>4

LEMMA AloneMark ==
  ASSUME IInv, Alone, NEW r \in Run, MarkRunning(r)
  PROVE  Alone'
<1>1. /\ pc[r] = "starting"
      /\ UNCHANGED <<job, frame, stack, depth>>
  BY DEF MarkRunning, Mark, stackVars
<1>2. lock = NoRun
  <2>1. ASSUME lock # NoRun PROVE FALSE
    <3>1. lock \in Run /\ pc[lock] \in Holding
      BY <2>1 DEF IInv, TypeOK, LockOK
    <3>2. pc[lock] \in Active /\ pc[r] \in Active
      BY <1>1, <3>1, ActiveNames
    <3>3. lock = r
      BY <3>1, <3>2 DEF Alone, OneActive
    <3> QED
      BY <1>1, <3>1, <3>3, ActiveNames
  <2> QED
    BY <2>1
<1>3. pc' = [pc EXCEPT ![r] = "checking"] /\ outcome' = outcome
  BY <1>2 DEF MarkRunning, Mark, EnterExecute
<1>4. /\ pc'[r] = "checking" /\ \A q \in Run \ {r} : pc'[q] = pc[q]
  BY <1>3 DEF IInv, TypeOK
<1>5. Moves(r)
  <2>1. "checking" \in Active /\ "starting" \in Active
    BY ActiveNames DEF Told
  <2> QED
    BY <1>1, <1>4, <2>1 DEF Moves
<1>6. OwnFrames' /\ TakesOver'
  BY <1>1, <1>3 DEF Alone, OwnFrames, TakesOver, Below1, Items
<1>7. OwnStack'
  BY <1>4, <1>5, MovesKeep, ActiveNames DEF OwnStack
<1> QED
  BY <1>5, <1>6, <1>7, MovesKeep DEF Alone

LEMMA AloneMarkCut ==
  ASSUME IInv, Alone, NEW r \in Run, MarkRunningCut(r)
  PROVE  Alone'
<1>1. /\ pc[r] = "starting" /\ pc' = [pc EXCEPT ![r] = "leaving"]
      /\ \E out \in {"timed", "failed"} : outcome' = [outcome EXCEPT ![r] = out]
      /\ UNCHANGED <<job, frame, stack, depth>>
  BY DEF MarkRunningCut, stackVars
<1>2. /\ pc'[r] = "leaving" /\ \A q \in Run \ {r} : pc'[q] = pc[q]
  BY <1>1 DEF IInv, TypeOK
<1>3. Moves(r)
  BY <1>1, <1>2, ActiveNames DEF Moves
<1>4. OwnFrames' /\ TakesOver'
  <2>1. OwnFrames'
    BY <1>1 DEF Alone, OwnFrames, Below1, Items
  <2>2. \A q \in Run : outcome'[q] \in {outcome[q], "timed", "failed"}
    BY <1>1 DEF IInv, TypeOK
  <2> QED
    BY <2>1, <2>2 DEF Alone, TakesOver, Run
<1>5. OwnStack'
  BY <1>2, <1>3, MovesKeep, ActiveNames DEF OwnStack
<1> QED
  BY <1>3, <1>4, <1>5, MovesKeep DEF Alone

LEMMA AlonePlain ==
  ASSUME IInv, Alone, NEW r \in Run,
         \/ CapReached(r) \/ FailCapped(r) \/ Acquire(r) \/ CreatePlan(r)
         \/ PassPreflight(r) \/ DeclinePreflight(r) \/ BeginTurn(r) \/ StopAtCheck(r)
         \/ NextTurn(r) \/ Complete(r) \/ FailPlan(r) \/ RereadRaises(r)
  PROVE  Alone'
<1>1. PICK x \in {"capped", "creating", "preflight", "turn", "acting", "failing", "closing"} \cup {Ended(r)} :
        /\ pc' = [pc EXCEPT ![r] = x]
        /\ \/ pc[r] = "checking" /\ x = "capped"
           \/ pc[r] = "capped" /\ x = Ended(r)
           \/ /\ pc[r] \in {"queued", "creating", "preflight", "turn", "acting", "failing", "closing"}
              /\ x \in {"creating", "preflight", "turn", "acting", "failing", "closing"}
  BY DEF CapReached, FailCapped, Acquire, CreatePlan, PassPreflight, DeclinePreflight, BeginTurn,
         StopAtCheck, NextTurn, Complete, FailPlan, RereadRaises, End
<1>2. /\ UNCHANGED <<job, frame, stack, depth>>
      /\ outcome' = outcome \/ outcome' = [outcome EXCEPT ![r] = "ok"]
  BY DEF CapReached, FailCapped, Acquire, CreatePlan, PassPreflight, DeclinePreflight, BeginTurn,
         StopAtCheck, NextTurn, Complete, FailPlan, RereadRaises, End, stackVars
<1>3. \A q \in Run : outcome'[q] \in {outcome[q], "ok"}
  BY <1>2 DEF IInv, TypeOK
<1>4. pc'[r] = x /\ \A q \in Run \ {r} : pc'[q] = pc[q]
  BY <1>1 DEF IInv, TypeOK
<1>5. /\ {"creating", "preflight", "turn", "acting", "failing", "closing", "queued"} \subseteq Pushed
      /\ {"checking", "capped"} \subseteq Told /\ Pushed \subseteq Told /\ Told \subseteq Active
      /\ {"capped", "gone", "leaving"} \cap Pushed = {} /\ {"gone", "leaving"} \cap Told = {}
      /\ "leaving" \in Active
  BY ActiveNames DEF Told, Pushed, Holding
<1>6. (Ended(r) = "gone" /\ job[r].agent = NoAgent) \/ Ended(r) = "leaving"
  BY DEF Ended
<1>7. Moves(r)
  BY <1>1, <1>2, <1>4, <1>5, <1>6 DEF Moves
<1>8. pc'[r] \in Pushed => pc[r] \in Pushed
  BY <1>1, <1>4, <1>5, <1>6
<1> QED
  BY <1>2, <1>3, <1>7, <1>8, PlainKeeps

\* An empty frame holds nobody else's delegations.
LEMMA AlonePush ==
  ASSUME IInv, Alone, NEW r \in Run, PushFrame(r)
  PROVE  Alone'
<1>1. /\ pc[r] = "checking" /\ stack' = Append(stack, <<>>) /\ depth' = job[r].depth
      /\ UNCHANGED <<job, outcome, frame>>
      /\ \E x \in {"creating", "queued"} : pc' = [pc EXCEPT ![r] = x]
  BY DEF PushFrame
<1>2. pc'[r] \in {"creating", "queued"} /\ \A q \in Run \ {r} : pc'[q] = pc[q]
  BY <1>1 DEF IInv, TypeOK
<1>3. Moves(r)
  <2>1. {"checking", "creating", "queued"} \subseteq Active
    BY ActiveNames DEF Told, Pushed, Holding
  <2> QED
    BY <1>1, <1>2, <2>1 DEF Moves
<1>4. OwnFrames' /\ TakesOver'
  BY <1>1 DEF Alone, OwnFrames, TakesOver, Below1, Items
<1>5. OwnStack'
  <2>1. stack'[Len(stack')] = <<>>
    <3>1. stack \in Seq(Seq(Delegated)) /\ <<>> \in Seq(Delegated)
      BY DEF IInv, TypeOK
    <3> QED
      BY <1>1, <3>1
  <2>2. Items(stack'[Len(stack')]) = {}
    BY <2>1 DEF Items
  <2>3. \A q \in Run : pc'[q] \in Pushed => q = r
    BY <1>3, MovesKeep, ActiveNames
  <2> QED
    BY <1>1, <2>2, <2>3 DEF OwnStack
<1> QED
  BY <1>3, <1>4, <1>5, MovesKeep DEF Alone

LEMMA AloneDelegate ==
  ASSUME IInv, Alone, NEW r \in Run, NEW c \in Delegated, NEW a \in Agent, Delegate(r, c, a)
  PROVE  Alone'
<1>1. /\ pc[r] = "acting" /\ pc[c] = "unborn" /\ c \in Run /\ r # c /\ stack # <<>>
      /\ depth + 1 <= MaxDelegationDepth
      /\ pc' = [pc EXCEPT ![c] = "delegated"]
      /\ job' = [job EXCEPT ![c] = [NoJob EXCEPT !.agent = a, !.depth = depth + 1, !.by = r]]
      /\ stack' = [stack EXCEPT ![Len(stack)] = Append(stack[Len(stack)], c)]
      /\ UNCHANGED <<outcome, frame, depth>>
  BY DEF Delegate, Queue, Run
<1>2. pc'[c] = "delegated" /\ \A q \in Run \ {c} : pc'[q] = pc[q]
  BY <1>1 DEF IInv, TypeOK
<1>3. /\ \A q \in Run \ {c} : job'[q] = job[q]
      /\ job'[c].host = NoRun /\ job'[c].by = r /\ job'[c].depth = depth + 1
  <2>1. PICK x : x = [NoJob EXCEPT !.agent = a, !.depth = depth + 1, !.by = r]
    OBVIOUS
  <2>2. x.host = NoRun /\ x.by = r /\ x.depth = depth + 1
    BY <2>1 DEF NoJob
  <2>3. job' = [job EXCEPT ![c] = x]
    BY <1>1, <2>1
  <2> QED
    BY <1>1, <2>2, <2>3 DEF IInv, TypeOK
<1>4. "acting" \in Pushed /\ "acting" \in Active
  BY ActiveNames DEF Pushed, Holding
<1>5. depth = job[r].depth /\ \A d \in Items(stack[Len(stack)]) : job[d].by = r /\ Below1(d, r)
  BY <1>1, <1>4 DEF Alone, OwnStack
<1>6. Below1(c, r)'
  BY <1>1, <1>3, <1>5 DEF Below1
<1>7. \A q \in Run : (pc'[q] \in Live <=> pc[q] \in Live /\ q # c)
                     /\ (pc'[q] \in Active => pc[q] \in Active /\ q # c)
                     /\ (pc'[q] \in Pushed => pc[q] \in Pushed /\ q # c)
                     /\ (pc'[q] = "handing" <=> pc[q] = "handing" /\ q # c)
  BY <1>1, <1>2, ActiveNames
<1>8. pc[c] \notin Live
  BY <1>1, ActiveNames
<1>9. OneActive'
  BY <1>7 DEF Alone, OneActive, Active
<1>10. RootsLive'
  <2>1. ASSUME NEW q \in Run, pc'[q] \in Live PROVE job'[q].root \in Top /\ pc'[job'[q].root] \in Live
    <3>1. q # c /\ pc[q] \in Live /\ job'[q] = job[q]
      BY <1>3, <1>7, <2>1
    <3>2. job[q].root \in Run /\ job[q].root \in Top /\ pc[job[q].root] \in Live
      BY <3>1 DEF Alone, RootsLive, Run
    <3> QED
      BY <1>7, <1>8, <3>1, <3>2
  <2> QED
    BY <2>1 DEF RootsLive
<1>11. Awaited'
  <2>1. ASSUME NEW q \in Run, pc'[q] = "handing"
        PROVE \E d \in Run : pc'[d] \in Live /\ job'[d].host = q /\ Below1(d, q)'
    <3>1. q # c /\ pc[q] = "handing" /\ job'[q] = job[q]
      BY <1>3, <1>7, <2>1
    <3>2. PICK d \in Run : pc[d] \in Live /\ job[d].host = q /\ Below1(d, q)
      BY <3>1 DEF Alone, Awaited
    <3>3. d # c /\ job'[d] = job[d]
      BY <1>3, <1>8, <3>2
    <3> QED
      BY <1>7, <3>1, <3>2, <3>3 DEF Below1
  <2> QED
    BY <2>1 DEF Awaited, Below1
<1>12. OwnFrames'
  <2>1. ASSUME NEW q \in Run, NEW d \in Items(frame[q]) PROVE job'[d].by = q /\ Below1(d, q)'
    <3>1. pc[d] = "delegated" /\ d \in Run /\ frame[q] # <<>> /\ pc[q] \in {"draining", "handing"}
      BY InFrame DEF Items
    <3>2. d # c /\ q # c
      BY <1>1, <3>1
    <3>3. job'[d] = job[d] /\ job'[q] = job[q]
      BY <1>3, <3>1, <3>2
    <3> QED
      BY <3>3 DEF Alone, OwnFrames, Below1
  <2> QED
    BY <1>1, <2>1 DEF OwnFrames, Below1
<1>13. OwnStack'
  <2>1. ASSUME NEW q \in Run, pc'[q] \in Pushed
        PROVE depth' = job'[q].depth /\ \A d \in Items(stack'[Len(stack')]) : job'[d].by = q /\ Below1(d, q)'
    <3>1. q = r
      BY <1>1, <1>4, <1>7, <2>1, ActiveNames DEF Alone, OneActive
    <3>2. job'[r] = job[r]
      BY <1>1, <1>3
    <3>3. PICK n : n = Len(stack)
      OBVIOUS
    <3>4. /\ n \in Frames /\ stack[n] \in Seq(Delegated) /\ Len(stack') = n
          /\ stack'[n] = Append(stack[n], c)
      <4>1. stack \in Seq(Seq(Delegated))
        BY DEF IInv, TypeOK
      <4>2. n \in 1 .. Len(stack) /\ stack[n] \in Seq(Delegated) /\ Append(stack[n], c) \in Seq(Delegated)
        BY <1>1, <3>3, <4>1
      <4> QED
        BY <1>1, <3>3, <4>1, <4>2 DEF Frames
    <3>5. Items(stack'[n]) = Items(stack[n]) \cup {c} /\ Items(stack[n]) \subseteq Delegated
      BY <3>4, AppendItems, SeqItems
    <3>6. c \notin Items(stack[n])
      BY <1>1, <3>4 DEF IInv, HeldOK
    <3>7. \A d \in Items(stack[n]) : job'[d] = job[d]
      BY <1>3, <3>5, <3>6 DEF Run
    <3>8. \A d \in Items(stack[n]) : job'[d].by = r /\ Below1(d, r)'
      BY <1>5, <3>2, <3>3, <3>7 DEF Below1
    <3> QED
      BY <1>1, <1>3, <1>5, <1>6, <3>1, <3>2, <3>4, <3>5, <3>8
  <2> QED
    BY <2>1 DEF OwnStack, Below1
<1>14. Scoped' /\ TakesOver'
  BY <1>1, <1>3 DEF Alone, Scoped, TakesOver, Run
<1> QED
  BY <1>9, <1>10, <1>11, <1>12, <1>13, <1>14 DEF Alone

\* What was in the plan's frame is its own.
LEMMA AloneClose ==
  ASSUME IInv, Alone, NEW r \in Run, Close(r)
  PROVE  Alone'
<1>1. PICK mine : mine = stack[Len(stack)]
  OBVIOUS
<1>2. PICK x : x = IF mine = <<>> THEN Ended(r) ELSE "draining"
  OBVIOUS
<1>3. /\ pc[r] = "closing" /\ frame' = [frame EXCEPT ![r] = mine] /\ pc' = [pc EXCEPT ![r] = x]
      /\ outcome' = [outcome EXCEPT ![r] = "ok"]
      /\ UNCHANGED job
  BY <1>1, <1>2 DEF Close, Finish, TopFrame
<1>4. x \in {"leaving", "draining"} \/ (x = "gone" /\ job[r].agent = NoAgent)
  BY <1>2 DEF Ended
<1>5. /\ pc'[r] = x /\ (\A q \in Run \ {r} : pc'[q] = pc[q])
      /\ frame'[r] = mine /\ (\A q \in Run \ {r} : frame'[q] = frame[q])
      /\ \A q \in Run : outcome'[q] \in {outcome[q], "ok"}
  BY <1>3 DEF IInv, TypeOK
<1>6. "closing" \in Pushed /\ "closing" \in Active
  BY ActiveNames DEF Pushed, Holding
<1>7. Moves(r)
  BY <1>3, <1>4, <1>5, <1>6, ActiveNames DEF Moves
<1>8. \A q \in Run : pc'[q] \notin Told
  BY <1>4, <1>5, <1>7, MovesKeep, ActiveNames
<1>9. OwnStack'
  BY <1>8, ActiveNames DEF OwnStack
<1>10. OwnFrames'
  <2>1. \A c \in Items(mine) : job[c].by = r /\ Below1(c, r)
    BY <1>1, <1>3, <1>6 DEF Alone, OwnStack
  <2> QED
    BY <1>3, <1>5, <2>1 DEF Alone, OwnFrames, Below1
<1>11. TakesOver'
  BY <1>5 DEF Alone, TakesOver, Run
<1> QED
  BY <1>7, <1>9, <1>10, <1>11, MovesKeep DEF Alone

LEMMA AloneUnwind ==
  ASSUME IInv, Alone, NEW r \in Run, Expire(r) \/ StatementRaises(r)
  PROVE  Alone'
<1>1. PICK rest : rest = Items(frame[r])
  OBVIOUS
<1>2. /\ pc[r] \in Live \ {"starting", "handing", "leaving"}
      /\ frame' = [frame EXCEPT ![r] = <<>>]
      /\ \E out \in {"timed", "failed"} : outcome' = [outcome EXCEPT ![r] = out]
      /\ pc' = [q \in Run |-> CASE q = r -> Ended(r) [] q \in rest -> "dropped" [] OTHER -> pc[q]]
      /\ UNCHANGED <<job, stack, depth>>
  <2>1. PICK out \in {"timed", "failed"} : Unwind(r, out)
    BY Unwinds
  <2>2. pc' = [q \in Run |-> CASE q = r -> Ended(r) [] q \in rest -> "dropped" [] OTHER -> pc[q]]
    BY <1>1, <2>1 DEF Unwind
  <2>3. /\ frame' = [frame EXCEPT ![r] = <<>>] /\ outcome' = [outcome EXCEPT ![r] = out]
        /\ UNCHANGED <<job, stack, depth>>
    BY <2>1 DEF Unwind
  <2> QED
    BY <2>2, <2>3, Unwinds
<1>3. rest \subseteq Run /\ r \notin rest /\ \A q \in rest : pc[q] = "delegated"
  <2>1. rest \subseteq Run /\ \A q \in rest : pc[q] = "delegated"
    BY <1>1, InFrame
  <2> QED
    BY <1>2, <2>1, ActiveNames
<1>4. /\ pc'[r] = Ended(r) /\ \A q \in Run \ {r} : pc'[q] = pc[q] \/ (pc[q] = "delegated" /\ pc'[q] = "dropped")
  <2>1. pc'[r] = Ended(r)
    BY <1>2, <1>3
  <2>2. \A q \in Run \ {r} : q \in rest => pc[q] = "delegated" /\ pc'[q] = "dropped"
    BY <1>2, <1>3
  <2>3. \A q \in Run \ {r} : q \notin rest => pc'[q] = pc[q]
    BY <1>2
  <2> QED
    BY <2>1, <2>2, <2>3
<1>5. Ended(r) = "leaving" \/ (Ended(r) = "gone" /\ job[r].agent = NoAgent)
  BY DEF Ended
<1>6. Moves(r)
  BY <1>2, <1>4, <1>5, ActiveNames DEF Moves, Active
<1>7. \A q \in Run : pc'[q] \notin Told
  BY <1>4, <1>5, <1>6, MovesKeep, ActiveNames
<1>8. OwnStack'
  BY <1>7, ActiveNames DEF OwnStack
<1>9. OwnFrames'
  <2>1. \A q \in Run : Items(frame'[q]) \subseteq Items(frame[q])
    <3>1. Items(<<>>) = {}
      BY DEF Items
    <3> QED
      BY <1>2, <3>1 DEF IInv, TypeOK
  <2> QED
    BY <1>2, <2>1 DEF Alone, OwnFrames, Below1
<1>10. TakesOver'
  <2>1. \A q \in Run : outcome'[q] \in {outcome[q], "timed", "failed"}
    BY <1>2 DEF IInv, TypeOK
  <2> QED
    BY <2>1 DEF Alone, TakesOver, Run
<1> QED
  BY <1>6, <1>8, <1>9, <1>10, MovesKeep DEF Alone

\* The run that pops hands over, and awaits.
LEMMA AloneHandOff ==
  ASSUME IInv, Alone, NEW r \in Run, HandOff(r)
  PROVE  Alone'
<1>1. PICK c : c = Head(frame[r])
  OBVIOUS
<1>2. /\ pc[r] = "draining"
      /\ frame' = [frame EXCEPT ![r] = Tail(frame[r])]
      /\ job' = [job EXCEPT ![c] = [job[c] EXCEPT !.host = r, !.root = job[r].root]]
      /\ pc' = [pc EXCEPT ![r] = "handing", ![c] = "starting"]
      /\ UNCHANGED <<outcome, stack, depth>>
  BY <1>1 DEF HandOff, stackVars
<1>3. /\ c \in Items(frame[r]) /\ c \in Run /\ c \in Delegated /\ pc[c] = "delegated" /\ c # r
      /\ Items(Tail(frame[r])) \subseteq Items(frame[r])
  <2>1. frame[r] # <<>> /\ frame[r] \in Seq(Delegated)
    BY <1>2, InFrame DEF IInv, HeldOK
  <2>2. c \in Items(frame[r]) /\ c \in Delegated /\ Items(Tail(frame[r])) \subseteq Items(frame[r])
    BY <1>1, <2>1, SeqItems
  <2> QED
    BY <1>2, <2>2, InFrame DEF Run
<1>4. /\ pc'[r] = "handing" /\ pc'[c] = "starting" /\ \A q \in Run \ {r, c} : pc'[q] = pc[q]
  BY <1>2, <1>3 DEF IInv, TypeOK
<1>5. /\ \A q \in Run \ {c} : job'[q] = job[q]
      /\ job'[c].host = r /\ job'[c].root = job[r].root
      /\ job'[c].by = job[c].by /\ job'[c].depth = job[c].depth
  <2>1. PICK x : x = [job[c] EXCEPT !.host = r, !.root = job[r].root]
    OBVIOUS
  <2>2. job[c] \in JobRecord
    BY <1>3 DEF IInv, TypeOK
  <2>3. x.host = r /\ x.root = job[r].root /\ x.by = job[c].by /\ x.depth = job[c].depth
    BY <2>1, <2>2 DEF JobRecord
  <2>4. job' = [job EXCEPT ![c] = x]
    BY <1>2, <2>1
  <2> QED
    BY <1>3, <2>3, <2>4 DEF IInv, TypeOK
<1>6. \A q \in Run : (pc'[q] \in Live <=> pc[q] \in Live \/ q = c)
                     /\ (pc'[q] = "handing" <=> pc[q] = "handing" \/ q = r)
                     /\ (pc'[q] \in Active => q = c \/ (q # r /\ pc[q] \in Active))
  BY <1>2, <1>3, <1>4, ActiveNames
<1>7. pc[r] \in Active /\ pc[r] \in Live /\ \A q \in Run \ {r} : pc[q] \notin Active
  BY <1>2, ActiveNames DEF Alone, OneActive
<1>8. OneActive'
  BY <1>6, <1>7 DEF OneActive, Active
<1>9. RootsLive'
  <2>1. ASSUME NEW q \in Run, pc'[q] \in Live PROVE job'[q].root \in Top /\ pc'[job'[q].root] \in Live
    <3>1. PICK p \in Run : pc[p] \in Live /\ job'[q].root = job[p].root
      BY <1>5, <1>6, <1>7, <2>1
    <3>2. job[p].root \in Run /\ job[p].root \in Top /\ pc[job[p].root] \in Live
      BY <3>1 DEF Alone, RootsLive, Run
    <3> QED
      BY <1>6, <3>1, <3>2
  <2> QED
    BY <2>1 DEF RootsLive
<1>10. \A d \in Run : job'[d].by = job[d].by /\ job'[d].depth = job[d].depth
  BY <1>5
<1>11. Awaited'
  <2>1. ASSUME NEW q \in Run, pc'[q] = "handing"
        PROVE \E d \in Run : pc'[d] \in Live /\ job'[d].host = q /\ Below1(d, q)'
    <3>1. CASE q = r
      <4>1. Below1(c, r)
        BY <1>3 DEF Alone, OwnFrames
      <4>2. Below1(c, r)'
        BY <1>3, <1>10, <4>1 DEF Below1
      <4> QED
        BY <1>3, <1>5, <1>6, <3>1, <4>2
    <3>2. CASE q # r
      <4>1. PICK d \in Run : pc[d] \in Live /\ job[d].host = q /\ Below1(d, q)
        BY <1>6, <2>1, <3>2 DEF Alone, Awaited
      <4>2. d # c
        BY <1>3, <4>1, ActiveNames
      <4> QED
        BY <1>5, <1>6, <1>10, <4>1, <4>2 DEF Below1
    <3> QED
      BY <3>1, <3>2
  <2> QED
    BY <2>1 DEF Awaited, Below1
<1>12. OwnFrames'
  <2>1. \A q \in Run : Items(frame'[q]) \subseteq Items(frame[q]) /\ Items(frame[q]) \subseteq Run
    <3>1. Items(frame'[r]) \subseteq Items(frame[r])
      BY <1>2, <1>3 DEF IInv, TypeOK
    <3>2. \A q \in Run \ {r} : frame'[q] = frame[q]
      BY <1>2 DEF IInv, TypeOK
    <3>3. \A q \in Run : Items(frame[q]) \subseteq Run
      BY InFrame
    <3> QED
      BY <3>1, <3>2, <3>3
  <2> QED
    BY <1>10, <2>1 DEF Alone, OwnFrames, Below1
<1>13. OwnStack'
  <2>1. \A q \in Run : pc'[q] \notin Told
    BY <1>4, <1>7, ActiveNames
  <2> QED
    BY <2>1, ActiveNames DEF OwnStack
<1>14. Scoped' /\ TakesOver'
  <2>1. job[c].by = r
    BY <1>3 DEF Alone, OwnFrames
  <2>2. Scoped'
    BY <1>3, <1>5, <2>1 DEF Alone, Scoped, Run
  <2>3. TakesOver'
    BY <1>2 DEF Alone, TakesOver
  <2> QED
    BY <2>2, <2>3
<1> QED
  BY <1>8, <1>9, <1>11, <1>12, <1>13, <1>14 DEF Alone

\* The end of the line returns to the run before it, or was the last that was live.
LEMMA AloneReturn ==
  ASSUME IInv, Alone, NEW r \in Run, NEW out, r \in Delegated => out # "busy",
         pc[r] \in {"starting", "leaving"}, Return(r, out),
         UNCHANGED <<job, stack, depth>>
  PROVE  Alone'
<1>1. PICK h : h = job[r].host
  OBVIOUS
<1>2. PICK rest : rest = IF h = NoRun \/ out = "ok" THEN {} ELSE Items(frame[h])
  OBVIOUS
<1>3. PICK next : next = IF out = "ok" /\ frame[h] # <<>> THEN "draining" ELSE Ended(h)
  OBVIOUS
<1>4. PICK kept : kept = IF out = "timed" THEN "timed" ELSE "ok"
  OBVIOUS
<1>5. /\ pc' = [q \in Run |-> CASE q = r -> "gone" [] q = h -> next
                                [] q \in rest -> "dropped" [] OTHER -> pc[q]]
      /\ outcome' = [q \in Run |-> CASE q = r -> out [] q = h -> kept [] OTHER -> outcome[q]]
      /\ frame' = [q \in Run |-> IF q = h /\ out # "ok" THEN <<>> ELSE frame[q]]
  BY <1>1, <1>2, <1>3, <1>4 DEF Return
<1>6. pc[r] \in Active /\ pc[r] \in Live
  BY ActiveNames
<1>7. h \in Run \cup {NoRun} /\ (h # NoRun => h \in Run /\ pc[h] = "handing") /\ h # r
  <2>1. h \in Run \cup {NoRun}
    BY <1>1 DEF IInv, TypeOK, JobRecord
  <2>2. h # NoRun => pc[h] = "handing"
    BY <1>1, <1>6 DEF IInv, HostOK
  <2> QED
    BY <2>1, <2>2, OrchestratorAssumptions
<1>8. rest \subseteq Run /\ (\A q \in rest : pc[q] = "delegated") /\ r \notin rest /\ h \notin rest
  <2>1. rest \subseteq Run /\ \A q \in rest : pc[q] = "delegated"
    BY <1>2, <1>7, InFrame
  <2> QED
    BY <1>6, <1>7, <2>1, ActiveNames, OrchestratorAssumptions
<1>9. pc'[r] = "gone"
  BY <1>5, <1>7, <1>8
<1>10. ASSUME NEW q \in Run, q # r, q # h
       PROVE pc'[q] = pc[q] \/ (pc[q] = "delegated" /\ pc'[q] = "dropped")
  <2>1. CASE q \in rest
    BY <1>5, <1>8, <1>10, <2>1
  <2>2. CASE q \notin rest
    BY <1>5, <1>10, <2>2
  <2> QED
    BY <2>1, <2>2
<1>11. h # NoRun => pc'[h] = next /\ (next \in {"draining", "leaving"} \/ (next = "gone" /\ job[h].agent = NoAgent))
  <2>1. ASSUME h # NoRun PROVE pc'[h] = next
    <3>1. h \in Run /\ h # r /\ h \notin rest
      BY <1>7, <1>8, <2>1
    <3> QED
      BY <1>5, <3>1
  <2>2. next \in {"draining", "leaving"} \/ (next = "gone" /\ job[h].agent = NoAgent)
    BY <1>3 DEF Ended
  <2> QED
    BY <2>1, <2>2
<1>12. \A q \in Run : q # r /\ q # h =>
         pc'[q] \notin Active /\ (pc'[q] \in Live <=> pc[q] \in Live) /\ (pc'[q] = "handing" <=> pc[q] = "handing")
  <2>1. \A q \in Run : q # r => pc[q] \notin Active
    BY <1>6 DEF Alone, OneActive
  <2> QED
    BY <1>10, <2>1, ActiveNames
<1>13. OneActive'
  <2>1. \A q \in Run : pc'[q] \in Active => q = h
    BY <1>9, <1>12, ActiveNames
  <2> QED
    BY <2>1 DEF OneActive, Active
<1>14. RootsLive' /\ Awaited'
  \* Somebody is left: the run that awaited r.
  <2>1. CASE h # NoRun /\ next # "gone"
    <3>1. h \in Run /\ pc[h] \in Live /\ pc'[h] \in Live /\ pc'[h] # "handing"
      BY <1>7, <1>11, <2>1, ActiveNames
    <3>2. \A q \in Run : pc'[q] \in Live => pc[q] \in Live /\ q # r
      BY <1>9, <1>12, <3>1, ActiveNames
    <3>3. r \notin Top
      BY <1>1, <2>1, TopHost
    <3>4. RootsLive'
      <4>1. ASSUME NEW q \in Run, pc'[q] \in Live PROVE job[q].root \in Top /\ pc'[job[q].root] \in Live
        <5>1. job[q].root \in Run /\ job[q].root \in Top /\ pc[job[q].root] \in Live
          BY <3>2, <4>1 DEF Alone, RootsLive, Run
        <5>2. job[q].root # r
          BY <3>3, <5>1
        <5> QED
          BY <1>12, <3>1, <5>1, <5>2
      <4> QED
        BY <4>1 DEF RootsLive
    <3>5. Awaited'
      <4>1. ASSUME NEW q \in Run, pc'[q] = "handing"
            PROVE \E d \in Run : pc'[d] \in Live /\ job[d].host = q /\ Below1(d, q)
        <5>1. pc[q] = "handing" /\ q # h
          BY <1>9, <1>12, <3>1, <4>1
        <5>2. PICK d \in Run : pc[d] \in Live /\ job[d].host = q /\ Below1(d, q)
          BY <5>1 DEF Alone, Awaited
        <5>3. d # r
          BY <1>1, <5>1, <5>2
        <5> QED
          BY <1>12, <3>1, <5>2, <5>3
      <4> QED
        BY <4>1 DEF Awaited, Below1
    <3> QED
      BY <3>4, <3>5
  \* Or nobody is: r was the request itself, or all that a chat had handed over.
  <2>2. CASE h = NoRun \/ next = "gone"
    <3>1. \A q \in Run : pc[q] \in Live => q \in {r, h}
      <4>1. CASE h = NoRun
        <5>1. {r} \in SUBSET Run /\ \A x \in {r} : job[x].host \in {r} \cup {NoRun}
          BY <1>1, <4>1
        <5> QED
          BY <1>6, <5>1, Line
      <4>2. CASE h # NoRun /\ next = "gone"
        <5>1. h \in Run /\ h \notin Delegated /\ h \in Top
          <6>1. h \in Run /\ pc[h] # "unborn" /\ job[h].agent = NoAgent
            BY <1>7, <1>11, <4>2
          <6> QED
            BY <6>1 DEF IInv, BornOK, Run
        <5>2. job[h].host = NoRun
          BY <5>1, TopHost
        <5>3. {r, h} \in SUBSET Run /\ \A x \in {r, h} : job[x].host \in {r, h} \cup {NoRun}
          BY <1>1, <5>1, <5>2
        <5> QED
          BY <1>6, <5>3, Line
      <4> QED
        BY <2>2, <4>1, <4>2
    <3>2. ASSUME NEW q \in Run PROVE pc'[q] \notin Live
      <4>1. CASE q = r
        BY <1>9, <4>1, ActiveNames
      <4>2. CASE q = h
        <5>1. h # NoRun
          BY <4>2, OrchestratorAssumptions
        <5>2. pc'[q] = "gone"
          BY <1>11, <2>2, <4>2, <5>1
        <5> QED
          BY <5>2, ActiveNames
      <4>3. CASE q # r /\ q # h
        BY <1>12, <3>1, <4>3
      <4> QED
        BY <4>1, <4>2, <4>3
    <3> QED
      BY <3>2, ActiveNames DEF RootsLive, Awaited
  <2> QED
    BY <2>1, <2>2
<1>15. OwnStack'
  <2>1. ASSUME NEW q \in Run PROVE pc'[q] \notin Told
    <3>1. CASE q = r
      BY <1>9, <3>1, ActiveNames
    <3>2. CASE q = h
      <4>1. h # NoRun
        BY <3>2, OrchestratorAssumptions
      <4> QED
        BY <1>11, <3>2, <4>1, ActiveNames
    <3>3. CASE q # r /\ q # h
      BY <1>12, <3>3, ActiveNames
    <3> QED
      BY <3>1, <3>2, <3>3
  <2> QED
    BY <2>1, ActiveNames DEF OwnStack
<1>16. OwnFrames'
  <2>1. \A q \in Run : Items(frame'[q]) \subseteq Items(frame[q])
    <3>1. Items(<<>>) = {}
      BY DEF Items
    <3> QED
      BY <1>5, <3>1
  <2> QED
    BY <2>1 DEF Alone, OwnFrames, Below1
<1>17. Scoped'
  BY DEF Alone, Scoped
<1>18. TakesOver'
  <2>1. ASSUME NEW c \in Delegated PROVE outcome'[c] # "busy"
    <3>1. c \in Run
      BY DEF Run
    <3>2. CASE c = r
      BY <1>5, <1>7, <2>1, <3>2
    <3>3. CASE c = h
      BY <1>4, <1>5, <1>7, <3>1, <3>3
    <3>4. CASE c # r /\ c # h
      BY <1>5, <3>1, <3>4 DEF Alone, TakesOver
    <3> QED
      BY <3>2, <3>3, <3>4
  <2> QED
    BY <2>1 DEF TakesOver
<1> QED
  BY <1>13, <1>14, <1>15, <1>16, <1>17, <1>18 DEF Alone

LEMMA AloneReturnStep ==
  ASSUME IInv, Alone, NEW r \in Run, SandboxFails(r) \/ MarkReady(r) \/ ExpireEarly(r) \/ MarkReadyCut(r)
  PROVE  Alone'
<1>1. r \in Delegated => outcome[r] # "busy"
  BY DEF Alone, TakesOver
<1>2. CASE SandboxFails(r)
  BY <1>2, AloneReturn DEF SandboxFails, stackVars
<1>3. CASE MarkReady(r)
  BY <1>1, <1>3, AloneReturn DEF MarkReady, stackVars
<1>4. CASE ExpireEarly(r)
  BY <1>4, AloneReturn DEF ExpireEarly, stackVars
<1>5. CASE MarkReadyCut(r)
  <2>1. PICK out \in {"timed", "failed"} : Return(r, out)
    BY <1>5 DEF MarkReadyCut
  <2> QED
    BY <1>5, <2>1, AloneReturn DEF MarkReadyCut, stackVars
<1> QED
  BY <1>2, <1>3, <1>4, <1>5

LEMMA AloneRestart == IInv /\ Alone /\ Restart => Alone'
<1> SUFFICES ASSUME IInv, Alone, Restart PROVE Alone'
  OBVIOUS
<1>1. frame' = [r \in Run |-> <<>>] /\ UNCHANGED <<job, outcome>>
  BY DEF Restart, Forget
<1>2. \A r \in Run : pc'[r] \notin Live
  BY NobodyLive
<1>3. OneActive' /\ RootsLive' /\ Awaited' /\ OwnStack'
  BY <1>2, ActiveNames DEF OneActive, Active, RootsLive, Awaited, OwnStack
<1>4. OwnFrames'
  <2>1. \A r \in Run : Items(frame'[r]) = {}
    BY <1>1 DEF Items
  <2> QED
    BY <2>1 DEF OwnFrames
<1>5. Scoped' /\ TakesOver'
  BY <1>1 DEF Alone, Scoped, TakesOver
<1> QED
  BY <1>3, <1>4, <1>5 DEF Alone

\* A step that moves no run.
LEMMA AloneStill ==
  ASSUME Alone, UNCHANGED <<pc, job, outcome, frame, stack, depth>>
  PROVE  Alone'
<1>1. OneActive' /\ RootsLive' /\ Awaited'
  BY DEF Alone, OneActive, Active, RootsLive, Awaited, Below1
<1>2. OwnFrames' /\ OwnStack'
  BY DEF Alone, OwnFrames, OwnStack, Below1, Items
<1>3. Scoped' /\ TakesOver'
  BY DEF Alone, Scoped, TakesOver
<1> QED
  BY <1>1, <1>2, <1>3 DEF Alone

LEMMA AloneNext == MaxTop = 1 /\ IInv /\ Alone /\ [Next]_vars => Alone'
<1> SUFFICES ASSUME MaxTop = 1, IInv, Alone, [Next]_vars PROVE Alone'
  OBVIOUS
<1>1. ASSUME NEW r \in Run, Request(r) PROVE Alone'
  BY <1>1, AloneRequest
<1>2. ASSUME NEW r \in Run, Entering(r) PROVE Alone'
  BY <1>2, AloneMark, AloneReturnStep, AlonePlain, AlonePush DEF Entering
<1>3. ASSUME NEW r \in Run, Driving(r) PROVE Alone'
  BY <1>3, AlonePlain, AloneClose DEF Driving
<1>4. ASSUME NEW r \in Run, Leaving(r) PROVE Alone'
  BY <1>4, AloneHandOff, AloneReturnStep DEF Leaving
<1>5. ASSUME NEW r \in Run, Cancel(r) PROVE Alone'
  BY <1>5, AloneStill DEF Cancel, Arm, stackVars
<1>6. ASSUME NEW r \in Run, \/ Expire(r) \/ StatementRaises(r) \/ ExpireEarly(r)
                            \/ MarkRunningCut(r) \/ MarkReadyCut(r)
      PROVE Alone'
  BY <1>6, AloneUnwind, AloneReturnStep, AloneMarkCut
<1>7. ASSUME NEW r \in Run, NEW c \in Delegated, NEW a \in Agent, Delegate(r, c, a) PROVE Alone'
  BY <1>7, AloneDelegate
<1>8. CASE Restart
  BY <1>8, AloneRestart
<1>9. CASE UNCHANGED vars
  BY <1>9, AloneStill DEF vars
<1> QED
  BY <1>1, <1>2, <1>3, <1>4, <1>5, <1>6, <1>7, <1>8, <1>9 DEF Next

\* Requests one at a time, under timeouts, cancels and restarts.
THEOREM AloneInvariance == MaxTop = 1 => (Spec => []Alone)
<1> SUFFICES ASSUME MaxTop = 1 PROVE Spec => []Alone
  OBVIOUS
<1>1. Init => Alone
  BY AloneInit
<1>2. IInv /\ Alone /\ [Next]_vars => Alone'
  BY AloneNext
<1> QED
  BY <1>1, <1>2, Invariance, PTL DEF Spec

\* A delegation is run by the run whose plan made it.
THEOREM ScopedHolds == MaxTop = 1 => (Spec => []Scoped)
<1> SUFFICES ASSUME MaxTop = 1 PROVE Spec => []Scoped
  OBVIOUS
<1>1. Alone => Scoped
  BY DEF Alone
<1> QED
  BY <1>1, AloneInvariance, PTL

\* No delegation is refused because another plan holds the lock.
THEOREM TakesOverHolds == MaxTop = 1 => (Spec => []TakesOver)
<1> SUFFICES ASSUME MaxTop = 1 PROVE Spec => []TakesOver
  OBVIOUS
<1>1. Alone => TakesOver
  BY DEF Alone
<1> QED
  BY <1>1, AloneInvariance, PTL
=============================================================================
