---------------------------- MODULE MCBackground ----------------------------
(***************************************************************************)
(* Instances of Background: from Friday 8:59 on, a trigger of every minute *)
(* and one of every half hour on weekdays, and triggers on timers and on   *)
(* plans.                                                                  *)
(***************************************************************************)
EXTENDS Background

CONSTANTS often, weekdays, onTimer, onPlan

At9(m) == [minute |-> m, hour |-> IF m = 59 THEN 8 ELSE 9, day |-> 5, month |-> 6,
           weekday |-> 4]
MCClock == <<At9(59), At9(0)>>

AllStars == [f \in Field |-> {Star(f)}]
HalfHours == [AllStars EXCEPT !["minute"] = {Every("minute", 30)}, !["dow"] = {Piece(1, 5, 1)}]

MCCronOf == [t \in {often, weekdays} |-> IF t = often THEN AllStars ELSE HalfHours]
MCEventOf ==
  [t \in {onTimer, onPlan} |-> IF t = onTimer THEN "timer.fired" ELSE "plan.completed"]
MCRegistry == <<often, onPlan, onTimer, weekdays>>
=============================================================================
