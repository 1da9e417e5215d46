------------------------------- MODULE Timers -------------------------------
(***************************************************************************)
(* The timers of core/timers: one row each, set and cancelled over REST or *)
(* by the timer tool, and a daemon that polls for the due ones, claims each*)
(* with a conditional UPDATE and delivers it.  A tick, an UPDATE and a     *)
(* delivery are awaits, so requests run in between.                        *)
(***************************************************************************)
EXTENDS Faults, Sequences, FiniteSets

CONSTANT Timer

VARIABLES
  row,        \* the timers table
  due,        \* timers whose fires_at has passed
  batch,      \* what is left of what due_now returned, with the one worked on
  daemon,     \* what the daemon awaits
  delivered,  \* history: how often a timer was broadcast
  calledOff,  \* history: timers the operator was told are cancelled
  dropped     \* history: timers a restart or a failing re-read took

timerVars == <<row, due, batch, daemon, delivered, calledOff, dropped>>

TimersTypeOK ==
  /\ row \in [Timer -> {"none", "active", "fired", "cancelled"}]
  /\ due \subseteq Timer
  /\ batch \in Seq(Timer)
  /\ daemon \in {"asleep", "claiming", "claimed", "pushing", "dead"}
  /\ (batch = <<>>) <=> (daemon \in {"asleep", "dead"})
  /\ delivered \in [Timer -> 0 .. 1]
  /\ calledOff \subseteq Timer /\ dropped \subseteq Timer

TimersInit ==
  /\ row = [t \in Timer |-> "none"] /\ due = {}
  /\ batch = <<>> /\ daemon = "asleep" /\ delivered = [t \in Timer |-> 0]
  /\ calledOff = {} /\ dropped = {}

\* create: in the future when it is inserted.
SetTimer(t) ==
  /\ row[t] = "none"
  /\ row' = [row EXCEPT ![t] = "active"]
  /\ UNCHANGED <<due, batch, daemon, delivered, calledOff, dropped, faults>>

TimePasses(t) ==
  /\ row[t] = "active" /\ t \notin due
  /\ due' = due \cup {t}
  /\ UNCHANGED <<row, batch, daemon, delivered, calledOff, dropped, faults>>

\* cancel: one conditional UPDATE, whose row count is the answer.
CancelTimer(t) ==
  /\ row[t] = "active"
  /\ row' = [row EXCEPT ![t] = "cancelled"]
  /\ calledOff' = calledOff \cup {t}
  /\ UNCHANGED <<due, batch, daemon, delivered, dropped, faults>>

-----------------------------------------------------------------------------
(***************************************************************************)
(* The daemon.                                                             *)
(***************************************************************************)
Due == {t \in due : row[t] = "active"}

\* due_now, in some order of fires_at.  When nothing is due, or the query raises, the
\* daemon sleeps on.
ReadDue ==
  /\ daemon = "asleep" /\ Due # {}
  /\ daemon' = "claiming"
  /\ batch' \in {s \in [1 .. Cardinality(Due) -> Due] : {s[i] : i \in DOMAIN s} = Due}
  /\ UNCHANGED <<row, due, delivered, calledOff, dropped, faults>>

\* The next of the batch, or the end of the tick.
Onward ==
  /\ batch' = Tail(batch)
  /\ daemon' = IF Len(batch) = 1 THEN "asleep" ELSE "claiming"

\* Faulty variant: what the tick read is fired without another look.
MarkFiredAnyway ==
  /\ daemon = "claiming"
  /\ row' = [row EXCEPT ![Head(batch)] = "fired"]
  /\ daemon' = "claimed" /\ UNCHANGED batch
  /\ UNCHANGED <<due, delivered, calledOff, dropped, faults>>

\* mark_fired: the UPDATE takes only a row that is neither fired nor cancelled.
MarkFired ==
  /\ daemon = "claiming"
  /\ IF row[Head(batch)] = "active"
       THEN /\ row' = [row EXCEPT ![Head(batch)] = "fired"]
            /\ daemon' = "claimed" /\ UNCHANGED batch
       ELSE Onward /\ UNCHANGED row
  /\ UNCHANGED <<due, delivered, calledOff, dropped, faults>>

\* The UPDATE raises, or the SELECT that reads the claimed row again: no handler, and
\* the daemon's task is over.
ClaimRaises ==
  /\ daemon \in {"claiming", "claimed"} /\ Fault
  /\ daemon' = "dead" /\ batch' = <<>>
  /\ dropped' = IF daemon = "claimed" THEN dropped \cup {Head(batch)} ELSE dropped
  /\ UNCHANGED <<row, due, delivered, calledOff>>

\* _deliver: timer.fired to everyone on the hub.
Broadcast ==
  /\ daemon = "claimed" /\ daemon' = "pushing"
  /\ delivered' = [delivered EXCEPT ![Head(batch)] = @ + 1]
  /\ UNCHANGED <<row, due, batch, calledOff, dropped, faults>>

\* Then a Telegram message, best effort.
Pushed ==
  /\ daemon = "pushing" /\ Onward
  /\ UNCHANGED <<row, due, delivered, calledOff, dropped, faults>>

\* The table survives, and the new daemon looks at it at once.
TimersRestart ==
  /\ Fault
  /\ daemon' = "asleep" /\ batch' = <<>>
  /\ dropped' = IF daemon = "claimed" THEN dropped \cup {Head(batch)} ELSE dropped
  /\ UNCHANGED <<row, due, delivered, calledOff>>

Claiming == ReadDue \/ MarkFired \/ Pushed

Requests(t) == SetTimer(t) \/ CancelTimer(t) \/ TimePasses(t)

-----------------------------------------------------------------------------
(***************************************************************************)
(* Properties.                                                             *)
(***************************************************************************)
\* A timer whose cancel succeeded is never delivered, though the tick had read it.
CancelKept == \A t \in calledOff : row[t] = "cancelled" /\ delivered[t] = 0

\* A claim is a delivery: a fired timer was broadcast, or the daemon is about to, or a
\* restart or a failing re-read came between; and nothing is delivered twice.
ClaimDelivered ==
  \A t \in Timer :
    /\ row[t] = "fired" =>
         delivered[t] = 1 \/ t \in dropped \/ (daemon = "claimed" /\ t = Head(batch))
    /\ delivered[t] = 1 => row[t] = "fired"

\* A due timer is fired or cancelled in the end, unless the daemon died.
DueSettles ==
  \A t \in Timer :
    (t \in due /\ row[t] = "active") ~> (row[t] # "active" \/ daemon = "dead")

\* _tick: "SQLite blip shouldn't kill the daemon".
DaemonLives == daemon # "dead"
=============================================================================
