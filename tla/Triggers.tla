------------------------------ MODULE Triggers ------------------------------
(***************************************************************************)
(* The proactive triggers of core/triggers: a scheduler that evaluates the *)
(* enabled cron triggers once a minute and fires them one after the other, *)
(* a hub listener that makes a task for every event trigger that matches,  *)
(* and the operator's "Run now" and toggles.  A fire runs an agent; all of *)
(* them share one lock, and the orchestrator with everyone else.           *)
(*                                                                         *)
(* The orchestrator (module Orchestrator) is the holder of its lock.  A    *)
(* plan broadcasts events while it runs.                                   *)
(***************************************************************************)
EXTENDS Cron, Faults, Sequences, FiniteSets

CONSTANTS
  Registry,         \* the installed triggers, in the registry's order
  CronOf,           \* the schedule of each cron trigger
  EventOf,          \* the event type (and filter) of each event trigger
  PlanEvent,        \* what plans broadcast
  Clock,            \* the minutes that pass: bound
  Task, Click,      \* bounds: fire tasks of events, and requests of fire_now, at once
  MaxEnabled,       \* bound: triggers that are enabled at first
  Handled,          \* bound: triggers the operator toggles and runs by hand
  MaxEvents         \* bound: events of plans

Trigger == DOMAIN CronOf \cup DOMAIN EventOf

\* Who runs _fire: the tick itself, a task of an event, a request.
Job == {"tick"} \cup Task \cup Click

ASSUME TriggerAssumptions ==
  /\ DOMAIN CronOf \cap DOMAIN EventOf = {}
  /\ Registry \in Seq(Trigger) /\ \A t \in Trigger : \E i \in DOMAIN Registry : Registry[i] = t
  /\ \A t \in DOMAIN CronOf : Valid(CronOf[t])
  /\ {"nobody", "foreign"} \cap Job = {} /\ "tick" \notin Task \cup Click
  /\ Task \cap Click = {} /\ Handled \subseteq Trigger /\ Len(Clock) \in Nat \ {0}
  /\ {MaxEvents, MaxEnabled} \subseteq Nat

VARIABLES
  minute,    \* the wall clock
  lastTick,  \* _last_tick_minute, 0 for None
  sched,     \* the scheduler's task
  todo,      \* triggers this tick has yet to fire
  enabled,   \* _state's enabled, in memory
  table,     \* the enabled column
  toggling,  \* toggles whose UPDATE is awaited
  job,       \* where every fire is
  lock,      \* the holder of _fire_lock
  plan,      \* the holder of the orchestrator
  events,    \* history: how many events plans broadcast
  stamp,     \* history: the minute a cron trigger was last fired for
  again,     \* history: cron triggers fired twice for one minute
  toggled,   \* history: triggers that were toggled, once each: bound
  booted     \* history: whether the daemon was restarted

triggerVars == <<minute, lastTick, sched, todo, enabled, table, toggling, job, lock, plan,
                 events, stamp, again, toggled, booted>>
timeVars == <<minute, lastTick, sched, todo>>
toggleVars == <<enabled, table, toggling, toggled>>
noteVars == <<events, stamp, again, booted>>

None == "none"
Idle == [at |-> "none", of |-> None, echo |-> FALSE]

\* Inside `async with self._fire_lock'.
Locked == {"marking", "running", "busy"}

TriggersTypeOK ==
  /\ minute \in 1 .. Len(Clock) /\ lastTick \in 0 .. minute
  /\ sched \in {"asleep", "ticking", "dead"} /\ todo \subseteq Trigger
  /\ enabled \in [Trigger -> BOOLEAN] /\ table \in [Trigger -> BOOLEAN]
  /\ toggling \subseteq [of: Trigger, to: BOOLEAN]
  /\ job \in [Job -> [at: {"none", "made"} \cup Locked,
                      of: Trigger \cup {None}, echo: BOOLEAN]]
  /\ lock \in Job \cup {"nobody"} /\ plan \in Job \cup {"nobody", "foreign"}
  /\ events \in 0 .. MaxEvents
  /\ stamp \in [Trigger -> 0 .. Len(Clock)] /\ booted \in BOOLEAN
  /\ again \subseteq Trigger /\ toggled \subseteq Trigger

TriggersInit ==
  /\ minute = 1 /\ lastTick = 0 /\ sched = "asleep" /\ todo = {}
  /\ \E on \in SUBSET Trigger :
      Cardinality(on) <= MaxEnabled /\ enabled = [t \in Trigger |-> t \in on]
  /\ table = enabled /\ toggling = {}
  /\ job = [j \in Job |-> Idle] /\ lock = "nobody" /\ plan = "nobody"
  /\ events = 0 /\ stamp = [t \in Trigger |-> 0] /\ again = {} /\ toggled = {}
  /\ booted = FALSE

-----------------------------------------------------------------------------
(***************************************************************************)
(* _fire.                                                                  *)
(***************************************************************************)
\* The check and the acquisition of the lock have no await between them.  A manual
\* fire does not ask whether the agent's integrations are configured.  The others are
\* skipped, and trigger.skipped is broadcast.
Fire(j, t, echo, ready) ==
  IF lock = "nobody" /\ (ready \/ j \in Click)
    THEN job' = [job EXCEPT ![j] = [at |-> "marking", of |-> t, echo |-> echo]] /\ lock' = j
    ELSE job' = [job EXCEPT ![j] = Idle] /\ UNCHANGED lock

\* Faulty variant: the lock stays taken.
MarkRaisesLocked(j) ==
  /\ job[j].at = "marking" /\ Fault
  /\ job' = [job EXCEPT ![j] = Idle]
  /\ UNCHANGED <<timeVars, toggleVars, lock, plan, noteVars>>

\* mark_fired's UPDATE raises: nobody handles it, and for a tick that is the end of the
\* scheduler.
MarkRaises(j) ==
  /\ job[j].at = "marking" /\ Fault
  /\ job' = [job EXCEPT ![j] = Idle] /\ lock' = "nobody"
  /\ IF j = "tick" THEN sched' = "dead" /\ todo' = {} ELSE UNCHANGED <<sched, todo>>
  /\ UNCHANGED <<minute, lastTick, toggleVars, plan, noteVars>>

\* It is marked, trigger.fired is broadcast, and agent_run is called: it raises when a
\* plan holds the orchestrator.
Marked(j) ==
  /\ job[j].at = "marking"
  /\ IF plan = "nobody"
       THEN job' = [job EXCEPT ![j].at = "running"] /\ plan' = j
       ELSE job' = [job EXCEPT ![j].at = "busy"] /\ UNCHANGED plan
  /\ UNCHANGED <<timeVars, toggleVars, lock, noteVars, faults>>

\* Faulty variant: the agent's state is not written before the lock is released.
RunEndsAtOnce(j) ==
  /\ job[j].at \in {"running", "busy"}
  /\ job' = [job EXCEPT ![j] = Idle] /\ lock' = "nobody"
  /\ plan' = IF plan = j THEN "nobody" ELSE plan
  /\ UNCHANGED <<timeVars, toggleVars, noteVars, faults>>

\* The run returns, raises or is broken off after an hour; a failure is broadcast.
\* agent_run ends with a write of the agent's state: the tasks its own events made have
\* begun by then.
RunEnds(j) ==
  /\ job[j].at \in {"running", "busy"}
  /\ \A i \in Task : job[i].at # "made"
  /\ job' = [job EXCEPT ![j] = Idle] /\ lock' = "nobody"
  /\ plan' = IF plan = j THEN "nobody" ELSE plan
  /\ UNCHANGED <<timeVars, toggleVars, noteVars, faults>>

-----------------------------------------------------------------------------
(***************************************************************************)
(* The tick.                                                               *)
(***************************************************************************)
MinutePasses ==
  /\ minute < Len(Clock) /\ minute' = minute + 1
  /\ UNCHANGED <<lastTick, sched, todo, toggleVars, job, lock, plan, noteVars,
                 faults>>

DueAt(m, t) == t \in DOMAIN CronOf /\ enabled[t] /\ CronMatches(CronOf[t], Clock[m])

\* Faulty variant: every tick evaluates the minute it is in.
TickEveryTime ==
  /\ sched = "asleep"
  /\ lastTick' = minute /\ sched' = "ticking"
  /\ todo' = {t \in Trigger : DueAt(minute, t)}
  /\ UNCHANGED <<minute, toggleVars, job, lock, plan, noteVars, faults>>

\* Once a minute: the enabled triggers and the time are read here.
Tick ==
  /\ sched = "asleep" /\ lastTick # minute
  /\ lastTick' = minute /\ sched' = "ticking"
  /\ todo' = {t \in Trigger : DueAt(minute, t)}
  /\ UNCHANGED <<minute, toggleVars, job, lock, plan, noteVars, faults>>

\* The first of them in the registry's order.
Leads(t) ==
  \E i \in DOMAIN Registry :
    Registry[i] = t /\ t \in todo /\ \A k \in 1 .. i - 1 : Registry[k] \notin todo

\* Each is awaited before the next.
TickFires(ready) ==
  /\ sched = "ticking" /\ job["tick"] = Idle
  /\ \E t \in todo :
      /\ Leads(t) /\ Fire("tick", t, FALSE, ready)
      /\ stamp' = [stamp EXCEPT ![t] = lastTick]
      /\ again' = IF stamp[t] = lastTick THEN again \cup {t} ELSE again
      /\ todo' = todo \ {t}
  /\ UNCHANGED <<minute, lastTick, sched, toggleVars, plan, events, booted, faults>>

TickOver ==
  /\ sched = "ticking" /\ todo = {} /\ job["tick"] = Idle
  /\ sched' = "asleep"
  /\ UNCHANGED <<minute, lastTick, todo, toggleVars, job, lock, plan, noteVars,
                 faults>>

-----------------------------------------------------------------------------
(***************************************************************************)
(* Events, requests and toggles.                                           *)
(***************************************************************************)
\* _on_event: a task for every enabled trigger of this event, while the bound allows.
OnEvent(e, echo) ==
  LET hits == {t \in DOMAIN EventOf : enabled[t] /\ EventOf[t] = e}
      free == {j \in Task : job[j] = Idle}
  IN  /\ Cardinality(hits) <= Cardinality(free)
      /\ \E f \in [hits -> free] :
          /\ \A s, t \in hits : f[s] = f[t] => s = t
          /\ job' = [j \in Job |->
                       IF \E t \in hits : f[t] = j
                         THEN [at |-> "made", of |-> CHOOSE t \in hits : f[t] = j,
                               echo |-> echo]
                         ELSE job[j]]

\* The task's first step.
TaskBegins(j, ready) ==
  /\ job[j].at = "made" /\ Fire(j, job[j].of, job[j].echo, ready)
  /\ UNCHANGED <<timeVars, toggleVars, plan, noteVars, faults>>

FireNow(j, t) ==
  /\ t \in Handled /\ job[j] = Idle /\ Fire(j, t, FALSE, TRUE)
  /\ UNCHANGED <<timeVars, toggleVars, plan, noteVars, faults>>

\* A plan broadcasts: a trigger's run, or one somebody else asked for.
PlanBroadcasts(e) ==
  /\ plan # "nobody" /\ events < MaxEvents
  /\ events' = events + 1
  /\ OnEvent(e, plan # "foreign")
  /\ UNCHANGED <<timeVars, toggleVars, lock, plan, stamp, again, booted, faults>>

ForeignPlan ==
  /\ \/ plan = "nobody" /\ plan' = "foreign"
     \/ plan = "foreign" /\ plan' = "nobody"
  /\ UNCHANGED <<timeVars, toggleVars, job, lock, noteVars, faults>>

\* set_enabled: memory at once, then the UPDATE.
Toggle(t) ==
  /\ t \in Handled \ toggled /\ toggled' = toggled \cup {t}
  /\ enabled' = [enabled EXCEPT ![t] = ~@]
  /\ toggling' = toggling \cup {[of |-> t, to |-> ~enabled[t]]}
  /\ UNCHANGED <<timeVars, table, job, lock, plan, noteVars, faults>>

Toggled(w) ==
  /\ w \in toggling /\ toggling' = toggling \ {w}
  /\ table' = [table EXCEPT ![w.of] = w.to]
  /\ UNCHANGED <<timeVars, enabled, toggled, job, lock, plan, noteVars, faults>>

ToggleRaises(w) ==
  /\ w \in toggling /\ toggling' = toggling \ {w} /\ Fault
  /\ UNCHANGED <<timeVars, enabled, table, toggled, job, lock, plan, noteVars>>

-----------------------------------------------------------------------------
\* discover_and_install: the table's enabled wins.
TriggersRestart ==
  /\ Fault /\ booted' = TRUE
  /\ lastTick' = 0 /\ sched' = "asleep" /\ todo' = {}
  /\ enabled' = table /\ toggling' = {}
  /\ job' = [j \in Job |-> Idle] /\ lock' = "nobody" /\ plan' = "nobody"
  /\ UNCHANGED <<minute, table, toggled, events, stamp, again>>

Firing(j) ==
  \/ Marked(j) \/ MarkRaises(j) \/ RunEnds(j)
  \/ \E ready \in BOOLEAN : TaskBegins(j, ready)

Scheduler == Tick \/ TickOver \/ \E ready \in BOOLEAN : TickFires(ready)

-----------------------------------------------------------------------------
(***************************************************************************)
(* Properties.                                                             *)
(***************************************************************************)
\* "One fire at a time": whoever is in the guarded part holds the lock, a plan of a
\* trigger's is the lock holder's, and a run's own events never fire a trigger,
\* neither while it runs nor when it is over.
OneFire ==
  \A j \in Job :
    /\ (job[j].at \in Locked) <=> (lock = j)
    /\ (plan = j) <=> (job[j].at = "running")
    /\ job[j].echo => job[j].at = "made"

\* "To avoid firing a trigger twice in the same wall-clock minute": however long a tick
\* takes; a restart forgets the minute.
OncePerMinute == booted \/ again = {}

\* Whatever becomes of a run, its fire ends, and the next one finds the lock free.
FiresEnd == (lock # "nobody") ~> (lock = "nobody")

\* "If the orchestrator is busy [...], we skip this tick and broadcast trigger.skipped".
BusySkips == \A j \in Job : job[j].at # "busy"
=============================================================================
