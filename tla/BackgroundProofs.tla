-------------------------- MODULE BackgroundProofs --------------------------
(***************************************************************************)
(* The safety of the timers and the triggers, side by side: for any number *)
(* of timers, triggers, minutes, events, requests and faults.              *)
(***************************************************************************)
EXTENDS Background, FiniteSetTheorems, TLAPS

\* A claimed timer's row says so, and it has not been delivered.
ClaimOK ==
  daemon = "claimed" => row[Head(batch)] = "fired" /\ delivered[Head(batch)] = 0

TimersInv == TimersTypeOK /\ IsFiniteSet(due) /\ ClaimOK /\ CancelKept /\ ClaimDelivered

\* Only tasks wait to begin, and those a run's own events made do not begin before
\* that run is over.
EchoHeld ==
  \A j \in Job : /\ job[j].at = "made" => j \in Task /\ job[j].of \in Trigger
                 /\ job[j].echo => plan \in Job

\* Until the daemon is restarted, no trigger was fired for a later minute than that of
\* the last tick, and what the tick has yet to fire was not fired for its minute.
StampOK ==
  booted \/ \A t \in Trigger : /\ stamp[t] <= lastTick
                               /\ t \in todo => stamp[t] < lastTick

TriggersInv == TriggersTypeOK /\ OneFire /\ EchoHeld /\ StampOK /\ OncePerMinute

IInv == FaultsTypeOK /\ TimersInv /\ TriggersInv

-----------------------------------------------------------------------------
(***************************************************************************)
(* Timers.                                                                 *)
(***************************************************************************)
LEMMA FaultType == ASSUME FaultsTypeOK, Fault \/ UNCHANGED faults PROVE FaultsTypeOK'
BY FaultAssumptions DEF FaultsTypeOK, Fault

LEMMA TimersStart == TimersInit => TimersInv
BY FS_EmptySet DEF TimersInit, TimersInv, TimersTypeOK, ClaimOK, CancelKept, ClaimDelivered

LEMMA BatchHead ==
  ASSUME TimersTypeOK, batch # <<>>
  PROVE  Head(batch) \in Timer /\ Tail(batch) \in Seq(Timer)
BY DEF TimersTypeOK

\* The end of the batch is the end of the tick.
LEMMA OnwardType ==
  ASSUME TimersTypeOK, batch # <<>>, Onward
  PROVE  /\ batch' \in Seq(Timer) /\ daemon' \in {"asleep", "claiming"}
         /\ (batch' = <<>>) <=> (daemon' \in {"asleep", "dead"})
<1>1. /\ batch' = Tail(batch) /\ batch \in Seq(Timer)
      /\ daemon' = IF Len(batch) = 1 THEN "asleep" ELSE "claiming"
  BY DEF TimersTypeOK, Onward
<1>2. Tail(batch) \in Seq(Timer) /\ Len(Tail(batch)) = Len(batch) - 1
  BY <1>1
<1>3. Tail(batch) = <<>> <=> Len(batch) = 1
  BY <1>1, <1>2
<1> QED
  BY <1>1, <1>2, <1>3

LEMMA RequestsKeep ==
  ASSUME TimersInv, NEW t \in Timer, Requests(t)
  PROVE  TimersInv'
<1>1. CASE SetTimer(t)
  BY <1>1, BatchHead DEF SetTimer, TimersInv, TimersTypeOK, ClaimOK, CancelKept, ClaimDelivered
<1>2. CASE CancelTimer(t)
  BY <1>2, BatchHead DEF CancelTimer, TimersInv, TimersTypeOK, ClaimOK, CancelKept,
                         ClaimDelivered
<1>3. CASE TimePasses(t)
  <2>1. IsFiniteSet(due')
    BY <1>3, FS_AddElement DEF TimePasses, TimersInv
  <2> QED
    BY <1>3, <2>1 DEF TimePasses, TimersInv, TimersTypeOK, ClaimOK, CancelKept, ClaimDelivered
<1> QED
  BY <1>1, <1>2, <1>3 DEF Requests

LEMMA ReadDueKeeps ==
  ASSUME TimersInv, ReadDue
  PROVE  TimersInv'
<1>1. Cardinality(Due) \in Nat /\ Cardinality(Due) # 0
  <2>1. IsFiniteSet(Due)
    BY FS_Subset DEF Due, TimersInv
  <2> QED
    BY <2>1, FS_CardinalityType, FS_EmptySet DEF ReadDue
<1>2. Due \subseteq Timer
  BY DEF Due, TimersInv, TimersTypeOK
<1>3. batch' \in Seq(Timer) /\ batch' # <<>>
  <2>1. batch' \in [1 .. Cardinality(Due) -> Due]
    BY DEF ReadDue
  <2>2. batch' \in Seq(Due) /\ Len(batch') = Cardinality(Due)
    BY <2>1, <1>1
  <2> QED
    BY <2>2, <1>1, <1>2
<1> QED
  BY <1>3 DEF ReadDue, TimersInv, TimersTypeOK, ClaimOK, CancelKept, ClaimDelivered

LEMMA MarkFiredKeeps ==
  ASSUME TimersInv, MarkFired
  PROVE  TimersInv'
<1>1. batch # <<>> /\ daemon = "claiming"
  BY DEF MarkFired, TimersInv, TimersTypeOK
<1>2. Head(batch) \in Timer
  BY <1>1, BatchHead DEF TimersInv
<1>3. CASE row[Head(batch)] = "active"
  BY <1>1, <1>2, <1>3 DEF MarkFired, TimersInv, TimersTypeOK, ClaimOK, CancelKept,
                          ClaimDelivered
<1>4. CASE row[Head(batch)] # "active"
  <2>1. Onward /\ UNCHANGED row
    BY <1>4 DEF MarkFired
  <2>2. /\ batch' \in Seq(Timer) /\ daemon' \in {"asleep", "claiming"}
        /\ (batch' = <<>>) <=> (daemon' \in {"asleep", "dead"})
    BY <1>1, <2>1, OnwardType DEF TimersInv
  <2> QED
    BY <1>1, <2>1, <2>2 DEF MarkFired, TimersInv, TimersTypeOK, ClaimOK, CancelKept,
                            ClaimDelivered
<1> QED
  BY <1>3, <1>4

LEMMA BroadcastKeeps ==
  ASSUME TimersInv, Broadcast
  PROVE  TimersInv'
<1>1. batch # <<>> /\ Head(batch) \in Timer
  BY BatchHead DEF Broadcast, TimersInv, TimersTypeOK
<1> QED
  BY <1>1 DEF Broadcast, TimersInv, TimersTypeOK, ClaimOK, CancelKept, ClaimDelivered

LEMMA PushedKeeps ==
  ASSUME TimersInv, Pushed
  PROVE  TimersInv'
<1>1. batch # <<>>
  BY DEF Pushed, TimersInv, TimersTypeOK
<1>2. /\ batch' \in Seq(Timer) /\ daemon' \in {"asleep", "claiming"}
      /\ (batch' = <<>>) <=> (daemon' \in {"asleep", "dead"})
  BY <1>1, OnwardType DEF Pushed, TimersInv
<1> QED
  BY <1>2 DEF Pushed, TimersInv, TimersTypeOK, ClaimOK, CancelKept, ClaimDelivered

\* What a dying daemon had claimed is what it drops.
LEMMA DeathKeeps ==
  ASSUME TimersInv, ClaimRaises \/ TimersRestart
  PROVE  TimersInv'
<1>1. daemon = "claimed" => Head(batch) \in Timer
  BY BatchHead DEF TimersInv, TimersTypeOK
<1>2. /\ batch' = <<>> /\ daemon' \in {"dead", "asleep"}
      /\ dropped' = IF daemon = "claimed" THEN dropped \cup {Head(batch)} ELSE dropped
      /\ UNCHANGED <<row, due, delivered, calledOff>>
  BY DEF ClaimRaises, TimersRestart
<1>3. TimersTypeOK'
  BY <1>1, <1>2 DEF TimersInv, TimersTypeOK
<1> QED
  BY <1>1, <1>2, <1>3 DEF TimersInv, ClaimOK, CancelKept, ClaimDelivered

-----------------------------------------------------------------------------
(***************************************************************************)
(* Triggers.                                                               *)
(***************************************************************************)
Jobs == [at: {"none", "made"} \cup Locked, of: Trigger \cup {None}, echo: BOOLEAN]

LEMMA TriggersStart == TriggersInit => TriggersInv
<1> SUFFICES ASSUME TriggersInit PROVE TriggersInv
  OBVIOUS
<1>1. Idle \in Jobs
  BY DEF Idle, Jobs
<1>2. enabled \in [Trigger -> BOOLEAN] /\ table \in [Trigger -> BOOLEAN]
  BY DEF TriggersInit
<1>3. TriggersTypeOK
  <2>1. job \in [Job -> Jobs]
    BY <1>1 DEF TriggersInit
  <2>2. stamp \in [Trigger -> 0 .. Len(Clock)]
    BY TriggerAssumptions DEF TriggersInit
  <2>3. minute \in 1 .. Len(Clock) /\ lastTick \in 0 .. minute /\ events \in 0 .. MaxEvents
    BY TriggerAssumptions DEF TriggersInit
  <2> QED
    BY <1>2, <2>1, <2>2, <2>3 DEF TriggersInit, TriggersTypeOK, Jobs
<1>4. OneFire /\ EchoHeld
  BY TriggerAssumptions DEF TriggersInit, OneFire, EchoHeld, Idle, Locked
<1>5. StampOK /\ OncePerMinute
  BY DEF TriggersInit, StampOK, OncePerMinute
<1> QED
  BY <1>3, <1>4, <1>5 DEF TriggersInv

\* Whoever fires was not in the guarded part; he is now if he found the lock free, and
\* then no run of a trigger's is under way whose own event this could be.
LEMMA FireKeeps ==
  ASSUME TriggersTypeOK, OneFire, EchoHeld, UNCHANGED plan,
         NEW j \in Job, NEW t \in Trigger, NEW echo \in BOOLEAN, NEW ready \in BOOLEAN,
         job[j].at \notin Locked, echo => plan \in Job,
         Fire(j, t, echo, ready)
  PROVE  /\ job' \in [Job -> Jobs] /\ lock' \in Job \cup {"nobody"}
         /\ OneFire' /\ EchoHeld'
<1>1. /\ job \in [Job -> Jobs] /\ lock \in Job \cup {"nobody"}
      /\ "nobody" \notin Job
  BY TriggerAssumptions DEF TriggersTypeOK, Jobs
<1>2. Idle \in Jobs /\ [at |-> "marking", of |-> t, echo |-> echo] \in Jobs
  BY DEF Idle, Jobs, Locked
<1>3. CASE lock = "nobody" /\ (ready \/ j \in Click)
  <2>1. /\ job' = [job EXCEPT ![j] = [at |-> "marking", of |-> t, echo |-> echo]]
        /\ lock' = j
    BY <1>3 DEF Fire
  <2>2. plan \notin Job
    BY <1>1, <1>3 DEF OneFire, Locked
  <2>3. ~echo /\ \A i \in Job : ~job[i].echo
    BY <2>2 DEF EchoHeld
  <2> QED
    BY <1>1, <1>2, <1>3, <2>1, <2>2, <2>3 DEF OneFire, EchoHeld, Locked, Jobs
<1>4. CASE ~(lock = "nobody" /\ (ready \/ j \in Click))
  <2>1. job' = [job EXCEPT ![j] = Idle] /\ lock' = lock
    BY <1>4 DEF Fire
  <2> QED
    BY <1>1, <1>2, <2>1 DEF OneFire, EchoHeld, Locked, Jobs, Idle
<1> QED
  BY <1>3, <1>4

LEMMA MarkRaisesKeeps ==
  ASSUME TriggersInv, NEW j \in Job, MarkRaises(j)
  PROVE  TriggersInv'
<1>1. job \in [Job -> Jobs] /\ "nobody" \notin Job /\ Idle \in Jobs
  BY TriggerAssumptions DEF TriggersInv, TriggersTypeOK, Jobs, Idle
<1>2. /\ job' = [job EXCEPT ![j] = Idle] /\ lock' = "nobody"
      /\ lock = j /\ plan # j /\ plan' = plan
      /\ sched' \in {sched, "dead"} /\ todo' \in {todo, {}}
  BY <1>1 DEF MarkRaises, TriggersInv, OneFire, Locked
<1>3. OneFire' /\ EchoHeld'
  BY <1>1, <1>2 DEF TriggersInv, OneFire, EchoHeld, Idle, Locked
<1>4. TriggersTypeOK'
  BY <1>1, <1>2 DEF MarkRaises, TriggersInv, TriggersTypeOK, Jobs, toggleVars, noteVars
<1>5. StampOK' /\ OncePerMinute'
  BY <1>2 DEF MarkRaises, TriggersInv, StampOK, OncePerMinute, noteVars
<1> QED
  BY <1>3, <1>4, <1>5 DEF TriggersInv

LEMMA MarkedKeeps ==
  ASSUME TriggersInv, NEW j \in Job, Marked(j)
  PROVE  TriggersInv'
<1>1. job \in [Job -> Jobs] /\ "nobody" \notin Job /\ "foreign" \notin Job
  BY TriggerAssumptions DEF TriggersInv, TriggersTypeOK, Jobs
<1>2. UNCHANGED <<timeVars, toggleVars, lock, noteVars, faults>> /\ job[j].at = "marking"
  BY DEF Marked
<1>3. \/ /\ job' = [job EXCEPT ![j].at = "running"] /\ plan = "nobody" /\ plan' = j
      \/ /\ job' = [job EXCEPT ![j].at = "busy"] /\ plan' = plan
  BY DEF Marked
<1>4. OneFire' /\ EchoHeld'
  BY <1>1, <1>2, <1>3 DEF TriggersInv, OneFire, EchoHeld, Locked, Jobs
<1>5. job' \in [Job -> Jobs] /\ plan' \in Job \cup {"nobody", "foreign"}
  <2>1. \A as \in Locked : [job EXCEPT ![j].at = as] \in [Job -> Jobs]
    BY <1>1 DEF Jobs
  <2> QED
    BY <1>3, <2>1 DEF Locked, TriggersInv, TriggersTypeOK
<1>7. TriggersTypeOK'
  BY <1>2, <1>5 DEF TriggersInv, TriggersTypeOK, Jobs, toggleVars, noteVars, timeVars
<1>6. StampOK' /\ OncePerMinute'
  BY <1>2 DEF TriggersInv, StampOK, OncePerMinute, noteVars, timeVars
<1> QED
  BY <1>4, <1>6, <1>7 DEF TriggersInv

\* When a run ends, the events it broadcast have no fire left.
LEMMA RunEndsKeeps ==
  ASSUME TriggersInv, NEW j \in Job, RunEnds(j)
  PROVE  TriggersInv'
<1>1. job \in [Job -> Jobs] /\ "nobody" \notin Job /\ Idle \in Jobs
  BY TriggerAssumptions DEF TriggersInv, TriggersTypeOK, Jobs, Idle
<1>2. /\ UNCHANGED <<timeVars, toggleVars, noteVars, faults>> /\ lock = j
      /\ job' = [job EXCEPT ![j] = Idle] /\ lock' = "nobody"
      /\ plan' = IF plan = j THEN "nobody" ELSE plan
  BY DEF RunEnds, TriggersInv, OneFire, Locked
<1>3. \A i \in Job : ~job[i].echo
  <2>1. \A i \in Job : job[i].at # "made"
    BY DEF RunEnds, TriggersInv, EchoHeld
  <2> QED
    BY <2>1 DEF TriggersInv, OneFire
<1>4. OneFire' /\ EchoHeld'
  BY <1>1, <1>2, <1>3 DEF TriggersInv, OneFire, EchoHeld, Idle, Locked
<1>5. TriggersTypeOK'
  BY <1>1, <1>2 DEF TriggersInv, TriggersTypeOK, Jobs, toggleVars, noteVars, timeVars
<1>6. StampOK' /\ OncePerMinute'
  BY <1>2 DEF TriggersInv, StampOK, OncePerMinute, noteVars, timeVars
<1> QED
  BY <1>4, <1>5, <1>6 DEF TriggersInv

\* A tick is for a minute that no earlier one was for.
LEMMA TickKeeps ==
  ASSUME TriggersInv, Tick \/ TickOver \/ MinutePasses
  PROVE  TriggersInv'
<1>1. /\ UNCHANGED <<toggleVars, job, lock, plan, noteVars>>
      /\ todo' \subseteq Trigger /\ sched' \in {"asleep", "ticking", "dead"}
      /\ \/ lastTick # minute /\ lastTick' = minute /\ minute' = minute
         \/ /\ lastTick' = lastTick /\ todo' = todo
            /\ minute' = minute \/ (minute < Len(Clock) /\ minute' = minute + 1)
  BY DEF Tick, TickOver, MinutePasses, TriggersInv, TriggersTypeOK
<1>2. TriggersTypeOK'
  BY <1>1, TriggerAssumptions DEF TriggersInv, TriggersTypeOK, toggleVars, noteVars
<1>3. OneFire' /\ EchoHeld' /\ OncePerMinute'
  BY <1>1 DEF TriggersInv, OneFire, EchoHeld, OncePerMinute, noteVars
<1>4. StampOK'
  BY <1>1, TriggerAssumptions DEF TriggersInv, TriggersTypeOK, StampOK, noteVars
<1> QED
  BY <1>2, <1>3, <1>4 DEF TriggersInv

LEMMA TickFiresKeeps ==
  ASSUME TriggersInv, NEW ready \in BOOLEAN, TickFires(ready)
  PROVE  TriggersInv'
<1>1. PICK t \in todo :
        /\ Fire("tick", t, FALSE, ready)
        /\ stamp' = [stamp EXCEPT ![t] = lastTick]
        /\ again' = IF stamp[t] = lastTick THEN again \cup {t} ELSE again
        /\ todo' = todo \ {t}
  BY DEF TickFires
<1>2. /\ job["tick"].at \notin Locked
      /\ UNCHANGED <<minute, lastTick, sched, toggleVars, plan, events, booted, faults>>
  BY DEF TickFires, Idle, Locked
<1>3. t \in Trigger /\ "tick" \in Job
  BY DEF TriggersInv, TriggersTypeOK, Job
<1>4. job' \in [Job -> Jobs] /\ lock' \in Job \cup {"nobody"} /\ OneFire' /\ EchoHeld'
  BY <1>1, <1>2, <1>3, FireKeeps DEF TriggersInv
<1>5. TriggersTypeOK'
  BY SMTT(20), <1>1, <1>2, <1>3, <1>4, TriggerAssumptions
  DEF TriggersInv, TriggersTypeOK, Jobs, toggleVars
<1>6. StampOK' /\ OncePerMinute'
  BY <1>1, <1>2, <1>3, TriggerAssumptions
  DEF TriggersInv, TriggersTypeOK, StampOK, OncePerMinute
<1> QED
  BY <1>4, <1>5, <1>6 DEF TriggersInv

LEMMA FiresKeep ==
  ASSUME TriggersInv, NEW j \in Job, NEW t \in Trigger, NEW ready \in BOOLEAN,
         TaskBegins(j, ready) \/ FireNow(j, t)
  PROVE  TriggersInv'
<1>1. UNCHANGED <<timeVars, toggleVars, plan, noteVars, faults>>
  BY DEF TaskBegins, FireNow
<1>2. job' \in [Job -> Jobs] /\ lock' \in Job \cup {"nobody"} /\ OneFire' /\ EchoHeld'
  <2>1. CASE TaskBegins(j, ready)
    <3>1. /\ job[j].at = "made" /\ Fire(j, job[j].of, job[j].echo, ready)
          /\ job[j] \in Jobs /\ (job[j].echo => plan \in Job)
      BY <2>1 DEF TaskBegins, TriggersInv, TriggersTypeOK, Jobs, EchoHeld
    <3>2. job[j].of \in Trigger /\ job[j].echo \in BOOLEAN /\ job[j].at \notin Locked
      BY <3>1 DEF Jobs, Locked, TriggersInv, EchoHeld
    <3> QED
      BY <1>1, <3>1, <3>2, FireKeeps DEF TriggersInv
  <2>2. CASE FireNow(j, t)
    <3>1. Fire(j, t, FALSE, TRUE) /\ job[j] = Idle
      BY <2>2 DEF FireNow
    <3>2. job[j].at \notin Locked
      BY <3>1 DEF Idle, Locked
    <3> QED
      BY <1>1, <3>1, <3>2, FireKeeps DEF TriggersInv
  <2> QED
    BY <2>1, <2>2
<1>3. TriggersTypeOK'
  BY <1>1, <1>2 DEF TriggersInv, TriggersTypeOK, Jobs, toggleVars, timeVars, noteVars
<1>4. StampOK' /\ OncePerMinute'
  BY <1>1 DEF TriggersInv, StampOK, OncePerMinute, timeVars, noteVars
<1> QED
  BY <1>2, <1>3, <1>4 DEF TriggersInv

\* An event makes tasks of jobs that were idle; the events of a trigger's run carry the
\* echo, and that run holds the orchestrator.
LEMMA EventKeeps ==
  ASSUME TriggersTypeOK, OneFire, EchoHeld, UNCHANGED <<lock, plan>>,
         NEW e, NEW echo \in BOOLEAN, echo => plan \in Job, OnEvent(e, echo)
  PROVE  job' \in [Job -> Jobs] /\ OneFire' /\ EchoHeld'
<1> DEFINE hits == {t \in DOMAIN EventOf : enabled[t] /\ EventOf[t] = e}
           free == {j \in Task : job[j] = Idle}
<1>1. PICK f \in [hits -> free] :
        job' = [j \in Job |->
                  IF \E t \in hits : f[t] = j
                    THEN [at |-> "made", of |-> CHOOSE t \in hits : f[t] = j, echo |-> echo]
                    ELSE job[j]]
  BY DEF OnEvent
<1>2. \A j \in Job :
        \/ job'[j] = job[j]
        \/ /\ j \in Task /\ job[j].at = "none" /\ job'[j] \in Jobs
           /\ job'[j].at = "made" /\ job'[j].of \in Trigger /\ job'[j].echo = echo
  <2> SUFFICES ASSUME NEW j \in Job
               PROVE  \/ job'[j] = job[j]
                      \/ /\ j \in Task /\ job[j].at = "none" /\ job'[j] \in Jobs
                         /\ job'[j].at = "made" /\ job'[j].of \in Trigger
                         /\ job'[j].echo = echo
    OBVIOUS
  <2>1. CASE \E t \in hits : f[t] = j
    <3> DEFINE t == CHOOSE t \in hits : f[t] = j
    <3>1. t \in hits /\ f[t] = j
      BY <2>1
    <3>2. j \in free /\ t \in Trigger
      BY <3>1 DEF Trigger
    <3>3. job'[j] = [at |-> "made", of |-> t, echo |-> echo]
      BY <1>1, <2>1
    <3> HIDE DEF t
    <3> QED
      BY <3>2, <3>3 DEF Idle, Jobs
  <2>2. CASE ~\E t \in hits : f[t] = j
    BY <1>1, <2>2
  <2> QED
    BY <2>1, <2>2
<1> HIDE DEF hits, free
<1>3. job \in [Job -> Jobs] /\ job' = [j \in Job |-> job'[j]]
  BY <1>1 DEF TriggersTypeOK, Jobs
<1>4. job' \in [Job -> Jobs]
  BY <1>2, <1>3
<1>5. OneFire'
  BY <1>2 DEF OneFire, Locked
<1>6. EchoHeld'
  BY <1>2 DEF EchoHeld
<1> QED
  BY <1>4, <1>5, <1>6

LEMMA PlanBroadcastsKeeps ==
  ASSUME TriggersInv, NEW e, PlanBroadcasts(e)
  PROVE  TriggersInv'
<1>1. /\ plan # "nobody" /\ events < MaxEvents /\ events' = events + 1
      /\ OnEvent(e, plan # "foreign")
      /\ UNCHANGED <<timeVars, toggleVars, lock, plan, stamp, again, booted>>
  BY DEF PlanBroadcasts
<1>2. plan # "foreign" => plan \in Job
  BY <1>1 DEF TriggersInv, TriggersTypeOK
<1>3. job' \in [Job -> Jobs] /\ OneFire' /\ EchoHeld'
  BY <1>1, <1>2, EventKeeps DEF TriggersInv
<1>4. TriggersTypeOK'
  BY SMTT(20), <1>1, <1>3, TriggerAssumptions
  DEF TriggersInv, TriggersTypeOK, Jobs, timeVars, toggleVars
<1>5. StampOK' /\ OncePerMinute'
  BY <1>1 DEF TriggersInv, StampOK, OncePerMinute, timeVars
<1> QED
  BY <1>3, <1>4, <1>5 DEF TriggersInv

LEMMA DeliverKeeps ==
  ASSUME TriggersInv, Deliver
  PROVE  TriggersInv'
<1>1. OnEvent("timer.fired", FALSE) /\ UNCHANGED <<timeVars, toggleVars, lock, plan, noteVars>>
  BY DEF Deliver
<1>2. job' \in [Job -> Jobs] /\ OneFire' /\ EchoHeld'
  BY <1>1, EventKeeps DEF TriggersInv
<1>3. TriggersTypeOK'
  BY <1>1, <1>2 DEF TriggersInv, TriggersTypeOK, Jobs, timeVars, toggleVars, noteVars
<1>4. StampOK' /\ OncePerMinute'
  BY <1>1 DEF TriggersInv, StampOK, OncePerMinute, timeVars, noteVars
<1> QED
  BY <1>2, <1>3, <1>4 DEF TriggersInv

LEMMA ForeignPlanKeeps ==
  ASSUME TriggersInv, ForeignPlan
  PROVE  TriggersInv'
<1>1. /\ {plan, plan'} \subseteq {"nobody", "foreign"}
      /\ UNCHANGED <<timeVars, toggleVars, job, lock, noteVars>>
  BY DEF ForeignPlan
<1>2. plan \notin Job /\ plan' \notin Job
  BY <1>1, TriggerAssumptions
<1>3. OneFire' /\ EchoHeld'
  BY <1>1, <1>2 DEF TriggersInv, OneFire, EchoHeld
<1>4. TriggersTypeOK'
  BY <1>1 DEF TriggersInv, TriggersTypeOK, timeVars, toggleVars, noteVars
<1>5. StampOK' /\ OncePerMinute'
  BY <1>1 DEF TriggersInv, StampOK, OncePerMinute, timeVars, noteVars
<1> QED
  BY <1>3, <1>4, <1>5 DEF TriggersInv

LEMMA ToggleKeeps ==
  ASSUME TriggersInv,
         \/ \E t \in Trigger : Toggle(t)
         \/ \E w \in toggling : Toggled(w) \/ ToggleRaises(w)
  PROVE  TriggersInv'
<1>1. UNCHANGED <<timeVars, job, lock, plan, noteVars>>
  BY DEF Toggle, Toggled, ToggleRaises
<1>2. /\ enabled' \in [Trigger -> BOOLEAN] /\ table' \in [Trigger -> BOOLEAN]
      /\ toggling' \subseteq [of : Trigger, to : BOOLEAN] /\ toggled' \subseteq Trigger
  <2>1. ASSUME NEW t \in Trigger, Toggle(t) PROVE <1>2
    <3>1. enabled[t] \in BOOLEAN /\ (~enabled[t]) \in BOOLEAN
      BY DEF TriggersInv, TriggersTypeOK
    <3>2. [of |-> t, to |-> ~enabled[t]] \in [of : Trigger, to : BOOLEAN]
      BY <3>1, Zenon
    <3>3. [enabled EXCEPT ![t] = ~enabled[t]] \in [Trigger -> BOOLEAN]
      BY <3>1 DEF TriggersInv, TriggersTypeOK
    <3> QED
      BY <2>1, <3>2, <3>3 DEF Toggle, TriggersInv, TriggersTypeOK
  <2>2. ASSUME NEW w \in toggling, Toggled(w) \/ ToggleRaises(w) PROVE <1>2
    <3>1. w.of \in Trigger /\ w.to \in BOOLEAN
      BY DEF TriggersInv, TriggersTypeOK
    <3>2. table' \in {table, [table EXCEPT ![w.of] = w.to]}
      BY <2>2 DEF Toggled, ToggleRaises
    <3>3. table' \in [Trigger -> BOOLEAN]
      BY <3>1, <3>2 DEF TriggersInv, TriggersTypeOK
    <3> QED
      BY <2>2, <3>3 DEF Toggled, ToggleRaises, TriggersInv, TriggersTypeOK
  <2> QED
    BY <2>1, <2>2
<1>3. TriggersTypeOK'
  BY <1>1, <1>2 DEF TriggersInv, TriggersTypeOK, timeVars, noteVars
<1>4. OneFire' /\ EchoHeld' /\ StampOK' /\ OncePerMinute'
  BY <1>1 DEF TriggersInv, OneFire, EchoHeld, StampOK, OncePerMinute, timeVars, noteVars
<1> QED
  BY <1>3, <1>4 DEF TriggersInv

LEMMA TriggersRestartKeeps ==
  ASSUME TriggersInv, TriggersRestart
  PROVE  TriggersInv'
<1>1. /\ job' = [j \in Job |-> Idle] /\ lock' = "nobody" /\ plan' = "nobody"
      /\ booted' = TRUE /\ lastTick' = 0 /\ sched' = "asleep" /\ todo' = {}
      /\ enabled' = table /\ toggling' = {}
      /\ UNCHANGED <<minute, table, toggled, events, stamp, again>>
  BY DEF TriggersRestart
<1>2. OneFire' /\ EchoHeld'
  BY <1>1, TriggerAssumptions DEF OneFire, EchoHeld, Idle, Locked
<1>3. job' \in [Job -> Jobs] /\ booted' \in BOOLEAN
  BY <1>1 DEF Idle, Jobs
<1>4. TriggersTypeOK'
  <2>1. lastTick' \in 0 .. minute' /\ minute' \in 1 .. Len(Clock)
    BY <1>1, TriggerAssumptions DEF TriggersInv, TriggersTypeOK
  <2> QED
    BY <1>1, <1>3, <2>1 DEF TriggersInv, TriggersTypeOK, Jobs
<1>5. StampOK' /\ OncePerMinute'
  BY <1>1 DEF StampOK, OncePerMinute
<1> QED
  BY <1>2, <1>4, <1>5 DEF TriggersInv

-----------------------------------------------------------------------------
(***************************************************************************)
(* Both together.                                                          *)
(***************************************************************************)
LEMMA UntouchedTimers == ASSUME TimersInv, UNCHANGED timerVars PROVE TimersInv'
BY DEF TimersInv, TimersTypeOK, ClaimOK, CancelKept, ClaimDelivered, timerVars

LEMMA UntouchedTriggers == ASSUME TriggersInv, UNCHANGED triggerVars PROVE TriggersInv'
BY DEF TriggersInv, TriggersTypeOK, OneFire, EchoHeld, StampOK, OncePerMinute, triggerVars

LEMMA InvInit == Init => IInv
BY TimersStart, TriggersStart, FaultAssumptions DEF Init, IInv, FaultsInit, FaultsTypeOK

LEMMA InvStep ==
  ASSUME IInv, [Next]_vars
  PROVE  IInv'
<1>1. CASE TimerDaemon
  <2>1. CASE Deliver
    BY <2>1, BroadcastKeeps, DeliverKeeps, FaultType DEF Deliver, Broadcast, IInv
  <2>2. CASE (Claiming \/ ClaimRaises) /\ UNCHANGED triggerVars
    <3>1. TimersInv'
      BY <2>2, ReadDueKeeps, MarkFiredKeeps, PushedKeeps, DeathKeeps DEF Claiming, IInv
    <3>2. Fault \/ UNCHANGED faults
      BY <2>2 DEF Claiming, ClaimRaises, ReadDue, MarkFired, Pushed
    <3> QED
      BY <2>2, <3>1, <3>2, FaultType, UntouchedTriggers DEF IInv
  <2> QED
    BY <1>1, <2>1, <2>2 DEF TimerDaemon
<1>2. CASE TimerRequests
  <2>1. PICK t \in Timer : Requests(t) /\ UNCHANGED triggerVars
    BY <1>2 DEF TimerRequests
  <2>2. UNCHANGED faults
    BY <2>1 DEF Requests, SetTimer, CancelTimer, TimePasses
  <2> QED
    BY <2>1, <2>2, RequestsKeep, UntouchedTriggers, FaultType DEF IInv
<1>3. CASE TriggerDaemon
  <2>1. TriggersInv' /\ (Fault \/ UNCHANGED faults)
    <3>1. CASE Scheduler
      BY <3>1, TickKeeps, TickFiresKeeps DEF Scheduler, Tick, TickOver, TickFires, IInv
    <3>2. ASSUME NEW j \in Job, Firing(j) PROVE <2>1
      <4>1. CASE Marked(j)
        BY <4>1, MarkedKeeps DEF Marked, IInv
      <4>2. CASE MarkRaises(j)
        BY <4>2, MarkRaisesKeeps DEF MarkRaises, IInv
      <4>3. CASE RunEnds(j)
        BY <4>3, RunEndsKeeps DEF RunEnds, IInv
      <4>4. ASSUME NEW ready \in BOOLEAN, TaskBegins(j, ready) PROVE <2>1
        <5>1. job[j].of \in Trigger
          BY <4>4 DEF TaskBegins, IInv, TriggersInv, EchoHeld
        <5> QED
          BY <4>4, <5>1, FiresKeep DEF TaskBegins, IInv
      <4> QED
        BY <3>2, <4>1, <4>2, <4>3, <4>4 DEF Firing
    <3> QED
      BY <1>3, <3>1, <3>2 DEF TriggerDaemon
  <2> QED
    BY <1>3, <2>1, UntouchedTimers, FaultType DEF TriggerDaemon, IInv
<1>4. CASE TriggerRequests
  <2>1. TriggersInv'
    <3>1. ASSUME NEW j \in Click, NEW t \in Trigger, FireNow(j, t) PROVE TriggersInv'
      <4>1. j \in Job /\ TRUE \in BOOLEAN
        BY DEF Job
      <4> QED
        BY <3>1, <4>1, FiresKeep DEF IInv
    <3> QED
      BY <1>4, <3>1, TickKeeps, ForeignPlanKeeps, PlanBroadcastsKeeps, ToggleKeeps
      DEF TriggerRequests, IInv
  <2>2. Fault \/ UNCHANGED faults
    BY <1>4 DEF TriggerRequests, MinutePasses, ForeignPlan, PlanBroadcasts, FireNow, Toggle,
                Toggled, ToggleRaises
  <2> QED
    BY <1>4, <2>1, <2>2, UntouchedTimers, FaultType DEF TriggerRequests, IInv
<1>5. CASE Restart
  BY <1>5, DeathKeeps, TriggersRestartKeeps, FaultType
  DEF Restart, TimersRestart, IInv
<1>6. CASE UNCHANGED vars
  BY <1>6, UntouchedTimers, UntouchedTriggers, FaultType DEF vars, IInv
<1> QED
  BY <1>1, <1>2, <1>3, <1>4, <1>5, <1>6 DEF Next

\* The strengthening that all of them follow from.
THEOREM Invariance == Spec => []IInv
<1>1. IInv /\ [Next]_vars => IInv'
  BY InvStep
<1> QED
  BY InvInit, <1>1, PTL DEF Spec

\* Every variable keeps its type (core/timers, core/triggers).
THEOREM TypeCorrect == Spec => []TypeOK
<1>1. IInv => TypeOK
  BY DEF IInv, TimersInv, TriggersInv, TypeOK
<1> QED
  BY Invariance, <1>1, PTL

\* A timer whose cancel succeeded is never delivered, and a claimed one always, unless
\* the daemon died in between (mark_fired's conditional UPDATE).
THEOREM TimersKeptHolds == Spec => []TimersKept
<1>1. IInv => TimersKept
  BY DEF IInv, TimersInv, TimersKept
<1> QED
  BY Invariance, <1>1, PTL

\* One fire at a time, and none from a run's own events (_fire_lock, _on_event).
THEOREM OneFireHolds == Spec => []OneFire
<1>1. IInv => OneFire
  BY DEF IInv, TriggersInv
<1> QED
  BY Invariance, <1>1, PTL

\* A cron trigger fires once a minute at most until the daemon restarts
\* (_last_tick_minute).
THEOREM OncePerMinuteHolds == Spec => []OncePerMinute
<1>1. IInv => OncePerMinute
  BY DEF IInv, TriggersInv
<1> QED
  BY Invariance, <1>1, PTL
=============================================================================
