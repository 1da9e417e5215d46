----------------------------- MODULE Background -----------------------------
(***************************************************************************)
(* The daemon's clockwork: Timers and Triggers run side by side and meet   *)
(* on the hub (core/api/hub.py), which awaits its listeners in the         *)
(* coroutine that broadcasts.  A timer's delivery may so fire a trigger.   *)
(***************************************************************************)
EXTENDS Timers, Triggers

vars == <<timerVars, triggerVars, faults>>

TypeOK == FaultsTypeOK /\ TimersTypeOK /\ TriggersTypeOK

Init == FaultsInit /\ TimersInit /\ TriggersInit

Deliver ==
  /\ Broadcast
  /\ OnEvent("timer.fired", FALSE)
  /\ UNCHANGED <<timeVars, toggleVars, lock, plan, noteVars>>

TimerDaemon ==
  \/ Deliver
  \/ (Claiming \/ ClaimRaises) /\ UNCHANGED triggerVars

TimerRequests == \E t \in Timer : Requests(t) /\ UNCHANGED triggerVars

TriggerDaemon ==
  /\ Scheduler \/ \E j \in Job : Firing(j)
  /\ UNCHANGED timerVars

TriggerRequests ==
  /\ \/ MinutePasses \/ ForeignPlan
     \/ \E e \in PlanEvent : PlanBroadcasts(e)
     \/ \E j \in Click, t \in Trigger : FireNow(j, t)
     \/ \E t \in Trigger : Toggle(t)
     \/ \E w \in toggling : Toggled(w) \/ ToggleRaises(w)
  /\ UNCHANGED timerVars

Restart == TimersRestart /\ TriggersRestart

Next == TimerDaemon \/ TimerRequests \/ TriggerDaemon \/ TriggerRequests \/ Restart

Spec == Init /\ [][Next]_vars

\* The two daemons and every fire go on; nobody else has to.
Fairness ==
  /\ WF_vars(TimerDaemon)
  /\ WF_vars(Scheduler /\ UNCHANGED timerVars)
  /\ \A j \in Job : WF_vars(Firing(j) /\ UNCHANGED timerVars)

FairSpec == Spec /\ Fairness

-----------------------------------------------------------------------------
\* What each daemon promises goes on holding beside the other.
TimersKept == CancelKept /\ ClaimDelivered

BackgroundSettles == DueSettles /\ FiresEnd
=============================================================================
