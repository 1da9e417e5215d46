------------------------------ MODULE Sentinel ------------------------------
(***************************************************************************)
(* The Sentinel of core/sentinel: rules find conditions, one incident is   *)
(* made for each condition and dedupe window, announced on the hub, and    *)
(* handed to the orchestrator when it is severe.  A scan runs every 30     *)
(* seconds and inside every broadcast on the hub, so inside its own        *)
(* announcements as well: the scans of one coroutine are a stack.          *)
(*                                                                         *)
(* The daemon gives the supervisor no model to triage with.  Its fallback  *)
(* has a confidence at which nothing is remediated, and a severity that    *)
(* depends on the rule alone.                                              *)
(***************************************************************************)
EXTENDS Faults, SequencesExt

CONSTANTS
  Key,      \* the dedupe keys of what the rules may find
  Intel,    \* those of the intelligence rule, which reads the database
  Severe,   \* those that are triaged HIGH
  Source    \* bound: coroutines that broadcast events, at once

Caller == {"periodic"} \cup Source
NoKey == "none"

ASSUME SentinelAssumptions ==
  /\ Intel \subseteq Key /\ Severe \subseteq Key /\ IsFiniteSet(Key)
  /\ "periodic" \notin Source /\ NoKey \notin Key

VARIABLES
  holds,      \* conditions the rules would find now
  window,     \* _dedupe, without the expired keys
  scans,      \* the scans of each coroutine, innermost last
  loop,       \* the scan task
  orch,       \* whether a plan runs in the orchestrator
  tasks,      \* escalations made a task that has not begun
  raised,     \* history: incidents of a key in its window
  announced,  \* history: those whose broadcast came back
  cut,        \* history: those a raising webhook or INSERT, or a cancellation, cut off
  skipped     \* history: keys with an incident that was not handed over

vars == <<holds, window, scans, loop, orch, tasks, raised, announced, cut, skipped, faults>>

At == {"rules", "handling", "notifying", "announcing", "escalating"}

Frame == [at: At, todo: SUBSET Key, of: Key \cup {NoKey}]

TypeOK ==
  /\ FaultsTypeOK
  /\ holds \subseteq Key /\ window \subseteq Key
  /\ scans \in [Caller -> Seq(Frame)]
  /\ loop \in {"alive", "dead"} /\ orch \in {"free", "busy"} /\ tasks \subseteq Key
  /\ raised \in [Key -> 0 .. 2]
  /\ announced \subseteq Key /\ cut \subseteq Key /\ skipped \subseteq Key

Init ==
  /\ FaultsInit
  /\ holds = {} /\ window = {} /\ scans = [c \in Caller |-> <<>>]
  /\ loop = "alive" /\ orch = "free" /\ tasks = {}
  /\ raised = [k \in Key |-> 0] /\ announced = {} /\ cut = {} /\ skipped = {}

-----------------------------------------------------------------------------
(***************************************************************************)
(* The world.                                                              *)
(***************************************************************************)
Appear(k) ==
  /\ k \notin holds /\ holds' = holds \cup {k}
  /\ UNCHANGED <<window, scans, loop, orch, tasks, raised, announced, cut, skipped, faults>>

Recover(k) ==
  /\ k \in holds /\ holds' = holds \ {k}
  /\ UNCHANGED <<window, scans, loop, orch, tasks, raised, announced, cut, skipped, faults>>

PlanBeginsOrEnds ==
  /\ orch' = IF orch = "free" THEN "busy" ELSE "free"
  /\ UNCHANGED <<holds, window, scans, loop, tasks, raised, announced, cut, skipped, faults>>

Scanning(k) == \E c \in Caller : \E i \in DOMAIN scans[c] : scans[c][i].of = k

\* Five minutes are over.  Bound: an incident is announced in less.
Expire(k) ==
  /\ k \in window /\ ~Scanning(k) /\ window' = window \ {k}
  /\ raised' = [raised EXCEPT ![k] = 0]
  /\ announced' = announced \ {k} /\ cut' = cut \ {k}
  /\ UNCHANGED <<holds, scans, loop, orch, tasks, skipped, faults>>

-----------------------------------------------------------------------------
(***************************************************************************)
(* A scan.                                                                 *)
(***************************************************************************)
Top(c) == Last(scans[c])
IsAt(c, at) == scans[c] # <<>> /\ Top(c).at = at

Put(c, frame) == scans' = [scans EXCEPT ![c] = Append(Front(@), frame)]
Pop(c) == scans' = [scans EXCEPT ![c] = Front(@)]

\* The builtin rules read memory and a table without an await.
NewScan == [at |-> "rules", todo |-> holds \ Intel, of |-> NoKey]

\* A broadcast reaches on_event, within the scan that broadcasts.
Broadcast(c, frame) ==
  scans' = [scans EXCEPT ![c] = Append(Append(Front(@), frame), NewScan)]

\* The scan task wakes up, or somebody broadcasts an event.
Begin(c) ==
  /\ scans[c] = <<>> /\ (c = "periodic" => loop = "alive")
  /\ scans' = [scans EXCEPT ![c] = <<NewScan>>]
  /\ UNCHANGED <<holds, window, loop, orch, tasks, raised, announced, cut, skipped, faults>>

\* The last rule's query.
RulesRead(c) ==
  /\ IsAt(c, "rules")
  /\ Put(c, [Top(c) EXCEPT !.at = "handling", !.todo = @ \cup (holds \cap Intel)])
  /\ UNCHANGED <<holds, window, loop, orch, tasks, raised, announced, cut, skipped, faults>>

\* It raises: run_rules and the rule itself go on without its findings.
RulesFail(c) ==
  /\ IsAt(c, "rules") /\ Fault /\ Put(c, [Top(c) EXCEPT !.at = "handling"])
  /\ UNCHANGED <<holds, window, loop, orch, tasks, raised, announced, cut, skipped>>

Finds(c, k) == IsAt(c, "handling") /\ k \in Top(c).todo

Duplicate(c, k) ==
  /\ Finds(c, k) /\ k \in window
  /\ Put(c, [Top(c) EXCEPT !.todo = @ \ {k}])
  /\ UNCHANGED <<holds, window, loop, orch, tasks, raised, announced, cut, skipped, faults>>

Raising(c, k) ==
  /\ Finds(c, k) /\ k \notin window
  /\ Put(c, [Top(c) EXCEPT !.at = "notifying", !.todo = @ \ {k}, !.of = k])
  /\ raised' = [raised EXCEPT ![k] = @ + 1]
  /\ skipped' = skipped \ {k}
  /\ UNCHANGED <<holds, loop, orch, tasks, announced, cut, faults>>

\* Faulty variant: the key is not recorded when the incident is severe.
RaiseMildly(c, k) ==
  Raising(c, k) /\ window' = IF k \in Severe THEN window ELSE window \cup {k}

\* The key is recorded and the incident is stored, without an await between.
Raise(c, k) == Raising(c, k) /\ window' = window \cup {k}

\* The INSERT raises when the key has been recorded.  The exception ends the scan, not
\* the broadcast it is in.
CreateRaises(c, k) ==
  /\ Finds(c, k) /\ k \notin window /\ Fault
  /\ window' = window \cup {k} /\ cut' = cut \cup {k}
  /\ Pop(c)
  /\ UNCHANGED <<holds, loop, orch, tasks, raised, announced, skipped>>

\* Faulty variant: _scan_forever without its try.
NotifyRaisesThrough(c) ==
  /\ IsAt(c, "notifying") /\ Fault
  /\ cut' = cut \cup {Top(c).of} /\ Pop(c)
  /\ loop' = IF c = "periodic" THEN "dead" ELSE loop
  /\ UNCHANGED <<holds, window, orch, tasks, raised, announced, skipped>>

\* notify handles URLError and TimeoutError; a connection that is closed before it
\* answers is neither.
NotifyRaises(c) ==
  /\ IsAt(c, "notifying") /\ Fault
  /\ cut' = cut \cup {Top(c).of} /\ Pop(c)
  /\ UNCHANGED <<holds, window, loop, orch, tasks, raised, announced, skipped>>

\* The webhook answered, or is not asked: sentinel.incident.
Announce(c) ==
  /\ IsAt(c, "notifying")
  /\ Broadcast(c, [Top(c) EXCEPT !.at = "announcing"])
  /\ UNCHANGED <<holds, window, loop, orch, tasks, raised, announced, cut, skipped, faults>>

\* The broadcast is over; sentinel.escalated follows for a severe incident.
Announced(c) ==
  /\ IsAt(c, "announcing")
  /\ announced' = announced \cup {Top(c).of}
  /\ IF Top(c).of \in Severe
       THEN Broadcast(c, [Top(c) EXCEPT !.at = "escalating"])
       ELSE Put(c, [Top(c) EXCEPT !.at = "handling", !.of = NoKey])
  /\ UNCHANGED <<holds, window, loop, orch, tasks, raised, cut, skipped, faults>>

\* The listener behind the Sentinel's: a busy orchestrator is not asked.
Escalated(c) ==
  /\ IsAt(c, "escalating")
  /\ Put(c, [Top(c) EXCEPT !.at = "handling", !.of = NoKey])
  /\ IF orch = "busy"
       THEN skipped' = skipped \cup {Top(c).of} /\ UNCHANGED tasks
       ELSE tasks' = tasks \cup {Top(c).of} /\ UNCHANGED skipped
  /\ UNCHANGED <<holds, window, loop, orch, raised, announced, cut, faults>>

\* Faulty variant: the end of a scan ends the coroutine's others too.
ScanOverAll(c) ==
  /\ IsAt(c, "handling") /\ Top(c).todo = {}
  /\ scans' = [scans EXCEPT ![c] = <<>>]
  /\ UNCHANGED <<holds, window, loop, orch, tasks, raised, announced, cut, skipped, faults>>

ScanOver(c) ==
  /\ IsAt(c, "handling") /\ Top(c).todo = {} /\ Pop(c)
  /\ UNCHANGED <<holds, window, loop, orch, tasks, raised, announced, cut, skipped, faults>>

\* Keys whose incident is stored and not yet announced, in a coroutine's scans.
Pending(c) ==
  {scans[c][i].of : i \in {j \in DOMAIN scans[c] : scans[c][j].at \in {"notifying", "announcing"}}}

\* wait_for gives up on the run or the dispatch that broadcasts: CancelledError at the
\* await it is in goes through all its scans, as the handlers catch Exception only.
Cancel(c) ==
  /\ scans[c] # <<>> /\ Top(c).at # "handling"
  /\ scans' = [scans EXCEPT ![c] = <<>>] /\ cut' = cut \cup Pending(c)
  /\ UNCHANGED <<holds, window, loop, orch, tasks, raised, announced, skipped, faults>>

\* The task begins: run raises when somebody was faster.
EscalationBegins(k) ==
  /\ k \in tasks /\ tasks' = tasks \ {k} /\ orch' = "busy"
  /\ skipped' = IF orch = "busy" THEN skipped \cup {k} ELSE skipped
  /\ UNCHANGED <<holds, window, scans, loop, raised, announced, cut, faults>>

\* Incidents are kept; the window is not.
Restart ==
  /\ Fault
  /\ window' = {} /\ scans' = [c \in Caller |-> <<>>] /\ loop' = "alive"
  /\ orch' = "free" /\ tasks' = {}
  /\ raised' = [k \in Key |-> 0] /\ announced' = {} /\ cut' = {} /\ skipped' = {}
  /\ UNCHANGED holds

-----------------------------------------------------------------------------
Scan(c) ==
  \/ RulesRead(c) \/ RulesFail(c) \/ NotifyRaises(c) \/ Announce(c)
  \/ Announced(c) \/ Escalated(c) \/ ScanOver(c)
  \/ \E k \in Key : Duplicate(c, k) \/ Raise(c, k) \/ CreateRaises(c, k)

Next ==
  \/ \E k \in Key : Appear(k) \/ Recover(k) \/ Expire(k) \/ EscalationBegins(k)
  \/ \E c \in Caller : Begin(c) \/ Scan(c)
  \/ \E c \in Source : Cancel(c)
  \/ PlanBeginsOrEnds \/ Restart

Spec == Init /\ [][Next]_vars

\* Scans go on, the scan task wakes up, and the minutes of a window pass.
Fairness ==
  /\ \A c \in Caller : WF_vars(Scan(c))
  /\ WF_vars(Begin("periodic"))
  /\ \A k \in Key : WF_vars(Expire(k))

FairSpec == Spec /\ Fairness

-----------------------------------------------------------------------------
(***************************************************************************)
(* Properties.                                                             *)
(***************************************************************************)
\* contracts.py: "equal dedupe_keys coalesce within the supervisor's dedupe window": one
\* incident for a key and window, though scans overlap and announcements scan again;
\* and the recursion of scans and announcements is as deep as there are keys.
OncePerWindow ==
  /\ \A k \in Key : raised[k] <= 1
  /\ \A c \in Caller : Len(scans[c]) <= Cardinality(Key) + 1

\* An incident that is stored is announced, or some coroutine is about to, however the
\* scans of other coroutines end; what is cut off is what a coroutine was about to
\* announce when it was cancelled or its webhook raised, nothing else.
IncidentAnnounced ==
  \A k \in Key : raised[k] > 0 => k \in announced \cup cut \/ Scanning(k)

\* A condition that stays has its incident in the end, whatever raised when it was
\* first found.
UnresolvedRaised == \A k \in Key : (k \in holds) ~> (k \notin holds \/ raised[k] > 0)

\* "If he's busy with a user plan we skip - the next Sentinel scan will re-raise if
\* still unresolved": no scan passes over a condition whose escalation was skipped.
NextScanReraises ==
  [][\A c \in Caller, k \in Key : Duplicate(c, k) /\ k \in holds => k \notin skipped]_vars
=============================================================================
