SPECIFICATION FairSpec
CONSTANTS
  often = often  weekdays = weekdays  onTimer = onTimer  onPlan = onPlan
  Timer = {"t1"}
  MaxFaults = 1
  Registry <- MCRegistry
  CronOf <- MCCronOf
  EventOf <- MCEventOf
  PlanEvent = {"plan.completed"}
  Clock <- MCClock
  Task = {"task"}
  Click = {"click"}
  MaxEnabled = 1
  Handled = {often}
  MaxEvents = 1
INVARIANTS TimersKept OneFire OncePerMinute
PROPERTIES BackgroundSettles
CHECK_DEADLOCK FALSE
