--------------------------- MODULE TelegramBridge ---------------------------
(***************************************************************************)
(* The chat bridge of core/io/telegram_bridge.py: a poller that reads      *)
(* updates from Telegram and hands button taps to TelegramCards, and one   *)
(* processor that merges texts, runs them as a plan and sends the reply.   *)
(* The two coroutines, the dispatch task and the orchestrator interleave   *)
(* at their awaits.                                                        *)
(*                                                                         *)
(* The orchestrator (module Orchestrator) is its lock and the chat.assistant*)
(* event every plan broadcasts: own plans, and those of the web chat, the  *)
(* triggers and the like, which are `foreign'.  A plan and the delegations *)
(* it hands off count as one.  Time is left out: a window closes, a budget *)
(* is used up and a plan ends at any moment.                               *)
(***************************************************************************)
EXTENDS TelegramCards, FiniteSetsExt

CONSTANTS
  Script, NoText, \* the messages of the operator, in the order they are written
  Media,          \* those that carry a file the poller must download first
  Tap, TapOn,     \* button taps, and what each one says about which request
  MaxFaults,      \* bound: crashes, and writes of the state file that fail
  MaxTraffic      \* bound: on the sum of what texts, faults, requests and taps weigh

Items(s) == {s[i] : i \in DOMAIN s}

Text == Items(Script)
Update == Text \cup Tap

ASSUME BridgeAssumptions ==
  /\ IsFiniteSet(Update) /\ Text \cap Tap = {} /\ NoText \notin Text
  /\ Media \subseteq Text
  /\ MaxTraffic \in Nat /\ MaxFaults \in Nat
  /\ TapOn \in [Tap -> [on: Approval, says: Verdict]]

VARIABLES
  inbox,      \* every update the operator caused, oldest first, at Telegram
  confirmed,  \* how many Telegram will not deliver again
  disk,       \* the state file: the offset and the rolling history
  damaged,    \* history: whether a write of it failed or was cut short
  offset,     \* _offset: how many updates were taken
  fetched,    \* how many the last answer of getUpdates reaches
  poll,       \* the poller
  queue,      \* _queue
  proc,       \* the processor
  parts,      \* the batch being dispatched
  extra,      \* what is to be merged into it
  peeked,     \* what the peek task took from the queue
  dispatch,   \* the dispatch task
  flag,       \* _current_dispatch_cancelled_for_follow_up
  captured,   \* whose chat.assistant text the dispatch's listener holds
  plan,       \* who holds the orchestrator
  remembered, \* _history: the exchanges the next prompt starts with
  taken,      \* history: how often an update was handled
  replies,    \* history: how many replies to a text were sent, or given up after an error
  told,       \* history: texts with such a reply or notice
  lost,       \* history: texts a crash took, or the silent refusal of a file
  faults      \* history: crashes and failed writes

pollVars == <<inbox, confirmed, offset, fetched, poll, taken>>
procVars == <<proc, parts, extra, peeked>>
dispatchVars == <<dispatch, flag, captured, plan>>
diskVars == <<disk, damaged, remembered, faults>>
outcomeVars == <<replies, told, lost>>
vars == <<cardVars, pollVars, queue, procVars, dispatchVars, diskVars, outcomeVars>>

Holder == {"nobody", "mine", "foreign"}

\* The dispatch awaits something, and so can be killed.
Awaiting == {"waiting", "running", "noting", "replying", "recording"}

TypeOK ==
  /\ CardsTypeOK
  /\ inbox \in Seq(Update) /\ queue \in Seq(Text)
  /\ parts \in Seq(Text) /\ extra \in Seq(Text) /\ peeked \in Text \cup {NoText}
  /\ disk \in [offset: 0 .. Len(inbox), history: SUBSET Text]
  /\ confirmed <= offset /\ offset <= fetched /\ fetched <= Len(inbox)
  /\ {confirmed, offset, fetched} \subseteq Nat
  /\ poll \in {"polling", "reading", "tapping"}
  /\ proc \in {"idle", "gathering", "watching", "merging", "stopping"}
  /\ dispatch \in {"none", "new", "done"} \cup Awaiting
  /\ {damaged, flag} \subseteq BOOLEAN
  /\ captured \in {"nothing", "mine", "foreign"} /\ plan \in Holder
  /\ taken \in [Update -> 0 .. 2] /\ replies \in [Text -> 0 .. 2]
  /\ faults \in 0 .. MaxFaults
  /\ remembered \subseteq Text /\ told \subseteq Text /\ lost \subseteq Text

Init ==
  /\ CardsInit
  /\ inbox = <<>> /\ confirmed = 0 /\ offset = 0 /\ fetched = 0 /\ poll = "polling"
  /\ disk = [offset |-> 0, history |-> {}] /\ damaged = FALSE
  /\ queue = <<>> /\ proc = "idle" /\ parts = <<>> /\ extra = <<>> /\ peeked = NoText
  /\ dispatch = "none" /\ flag = FALSE /\ captured = "nothing" /\ plan = "nobody"
  /\ remembered = {} /\ taken = [u \in Update |-> 0]
  /\ replies = [t \in Text |-> 0] /\ told = {} /\ lost = {} /\ faults = 0

Twice(n) == IF n < 2 THEN n + 1 ELSE 2

-----------------------------------------------------------------------------
(***************************************************************************)
(* The operator and the poller.                                            *)
(***************************************************************************)
Written == Len(SelectSeq(inbox, LAMBDA u : u \in Text))

\* The weights let a run see many texts, or faults, or cards, but not all at once.
Traffic ==
  6 * Written + 2 * (Len(inbox) - Written) + 3 * faults
  + 7 * Cardinality({a \in Approval : approval[a] # "none"})

\* A text, or a tap on a card that shows its buttons.
Send(u) ==
  /\ u \notin Items(inbox)
  /\ Traffic + (IF u \in Text THEN 6 ELSE 2) <= MaxTraffic
  /\ u \in Text => u = Script[Written + 1]
  /\ u \in Tap => chat[TapOn[u].on] = "buttons"
  /\ inbox' = Append(inbox, u)
  /\ UNCHANGED <<cardVars, confirmed, offset, fetched, poll, taken, queue, procVars,
                 dispatchVars, diskVars, outcomeVars>>

\* getUpdates: the offset confirms what is below it.
Poll ==
  /\ poll = "polling" /\ offset = fetched
  /\ confirmed < offset \/ fetched < Len(inbox)
  /\ confirmed' = offset
  /\ fetched' = Len(inbox)
  /\ UNCHANGED <<cardVars, inbox, offset, poll, taken, queue, procVars, dispatchVars,
                 diskVars, outcomeVars>>

Fault == faults < MaxFaults /\ Traffic + 3 <= MaxTraffic /\ faults' = faults + 1

\* The state file is written; a failure is logged and the bridge goes on.
Save(o, h) ==
  \/ disk' = [offset |-> o, history |-> h] /\ UNCHANGED <<damaged, faults>>
  \/ Fault /\ damaged' = TRUE /\ UNCHANGED disk

Current == inbox[offset]

Take(u) ==
  /\ poll = "polling" /\ offset < fetched
  /\ u = inbox[offset + 1]
  /\ offset' = offset + 1
  /\ taken' = [taken EXCEPT ![u] = Twice(@)]
  /\ UNCHANGED <<inbox, confirmed, fetched, remembered>>

\* Faulty variant: the offset is written by the next save only.
TakeTextUnsaved(t) ==
  /\ Take(t) /\ t \in Text \ Media
  /\ UNCHANGED <<disk, damaged, faults, poll>>
  /\ queue' = Append(queue, t)
  /\ UNCHANGED <<cardVars, procVars, dispatchVars, outcomeVars>>

\* The offset is written first, then the text is queued: no await between.
TakeText(t) ==
  /\ Take(t) /\ t \in Text \ Media
  /\ Save(offset', remembered) /\ UNCHANGED poll
  /\ queue' = Append(queue, t)
  /\ UNCHANGED <<cardVars, procVars, dispatchVars, outcomeVars>>

TakeMedia(t) ==
  /\ Take(t) /\ t \in Media
  /\ Save(offset', remembered) /\ poll' = "reading"
  /\ UNCHANGED <<cardVars, queue, procVars, dispatchVars, outcomeVars>>

MediaRead ==
  /\ poll = "reading" /\ poll' = "polling"
  /\ queue' = Append(queue, Current)
  /\ UNCHANGED <<cardVars, inbox, confirmed, offset, fetched, taken, procVars,
                 dispatchVars, diskVars, outcomeVars>>

\* The file is of no use, or cannot be had: the operator is told; but not when Telegram
\* has no path for it, or when nothing is heard in a voice note.
MediaRefused ==
  /\ poll = "reading" /\ poll' = "polling"
  /\ \/ told' = told \cup {Current} /\ UNCHANGED lost
     \/ lost' = lost \cup {Current} /\ UNCHANGED told
  /\ UNCHANGED <<cardVars, inbox, confirmed, offset, fetched, taken, queue, procVars,
                 dispatchVars, diskVars, replies>>

\* handle_callback is awaited by the poller, until the decision is announced.
TakeTap(u) ==
  /\ u \in Tap /\ Take(u)
  /\ Save(offset', remembered)
  /\ LET a == TapOn[u].on
     IN  IF approval[a] = "pending"
           THEN Decide(a, TapOn[u].says) /\ poll' = "tapping"
           ELSE UNCHANGED cardVars /\ UNCHANGED poll
  /\ UNCHANGED <<queue, procVars, dispatchVars, outcomeVars>>

TapDone ==
  /\ poll = "tapping" /\ poll' = "polling"
  /\ Handled(TapOn[Current].on)
  /\ UNCHANGED <<cardVars, inbox, confirmed, offset, fetched, taken, queue, procVars,
                 dispatchVars, diskVars, outcomeVars>>

-----------------------------------------------------------------------------
(***************************************************************************)
(* The processor: gather, dispatch, watch the queue, merge, dispatch again.*)
(***************************************************************************)
TakeFirst ==
  /\ proc = "idle" /\ queue # <<>>
  /\ proc' = "gathering"
  /\ parts' = <<Head(queue)>> /\ queue' = Tail(queue)
  /\ UNCHANGED <<cardVars, pollVars, extra, peeked, dispatchVars, diskVars, outcomeVars>>

Gather ==
  /\ proc = "gathering" /\ queue # <<>>
  /\ parts' = Append(parts, Head(queue)) /\ queue' = Tail(queue)
  /\ UNCHANGED <<cardVars, pollVars, proc, extra, peeked, dispatchVars, diskVars,
                 outcomeVars>>

\* A new dispatch of batch b, with a new listener and a new peek at the queue.
Dispatch(b) ==
  /\ proc' = "watching" /\ parts' = b /\ extra' = <<>>
  /\ dispatch' = "new" /\ flag' = FALSE /\ captured' = "nothing"
  /\ UNCHANGED <<cardVars, pollVars, queue, peeked, plan, diskVars, outcomeVars>>

WindowCloses == proc = "gathering" /\ Dispatch(parts)

Peek ==
  /\ proc = "watching" /\ peeked = NoText /\ queue # <<>>
  /\ peeked' = Head(queue) /\ queue' = Tail(queue)
  /\ UNCHANGED <<cardVars, pollVars, proc, parts, extra, dispatchVars, diskVars,
                 outcomeVars>>

Finish(left) ==
  /\ proc = "watching" /\ dispatch = "done"
  /\ proc' = "idle" /\ parts' = <<>> /\ peeked' = NoText
  /\ dispatch' = "none" /\ flag' = FALSE /\ captured' = "nothing"
  /\ queue' = left
  /\ UNCHANGED <<cardVars, pollVars, extra, plan, diskVars, outcomeVars>>

\* Faulty variant: the peek is cancelled and what it took is forgotten.
FinishForgets == Finish(queue)

\* The dispatch is over; what the peek took in that moment goes to the queue's end.
DispatchOver ==
  Finish(IF peeked = NoText THEN queue ELSE Append(queue, peeked))

FollowUp ==
  /\ proc = "watching" /\ peeked # NoText /\ dispatch # "done"
  /\ proc' = "merging"
  /\ extra' = <<peeked>> /\ peeked' = NoText
  /\ UNCHANGED <<cardVars, pollVars, queue, parts, dispatchVars, diskVars, outcomeVars>>

Merge ==
  /\ proc = "merging" /\ queue # <<>>
  /\ extra' = Append(extra, Head(queue)) /\ queue' = Tail(queue)
  /\ UNCHANGED <<cardVars, pollVars, proc, parts, peeked, dispatchVars, diskVars,
                 outcomeVars>>

\* The plan that runs now is cancelled, whoever runs it: it will end.
Interrupt ==
  /\ proc = "merging"
  /\ proc' = "stopping"
  /\ flag' = (flag \/ plan # "nobody")
  /\ UNCHANGED <<cardVars, pollVars, queue, parts, extra, peeked, dispatch, captured,
                 plan, diskVars, outcomeVars>>

Free == IF plan = "mine" THEN "nobody" ELSE plan

Answered == [t \in Text |-> IF t \in Items(parts) THEN Twice(replies[t]) ELSE replies[t]]

\* wait_for's 15 seconds are over: the task is cancelled at its await, and a message
\* that is on its way may have been sent.
Kill ==
  /\ proc = "stopping" /\ dispatch \in Awaiting
  /\ dispatch' = "done" /\ plan' = Free
  /\ \/ UNCHANGED outcomeVars
     \/ /\ dispatch \in {"replying", "noting"}
        /\ told' = told \cup Items(parts)
        /\ replies' = IF dispatch = "replying" THEN Answered ELSE replies
        /\ UNCHANGED lost
  /\ UNCHANGED <<cardVars, pollVars, queue, procVars, flag, captured, diskVars>>

Redispatch == proc = "stopping" /\ dispatch = "done" /\ Dispatch(parts \o extra)

-----------------------------------------------------------------------------
(***************************************************************************)
(* The dispatch task and the orchestrator.                                 *)
(***************************************************************************)
\* The state is saved, the listener subscribed and the orchestrator asked.
Begin ==
  /\ dispatch = "new"
  /\ Save(offset, remembered)
  /\ IF plan = "nobody"
       THEN dispatch' = "running" /\ plan' = "mine"
       ELSE dispatch' = "waiting" /\ UNCHANGED plan
  /\ UNCHANGED <<cardVars, pollVars, queue, procVars, flag, captured, remembered,
                 outcomeVars>>

Admitted ==
  /\ dispatch = "waiting" /\ plan = "nobody"
  /\ dispatch' = "running" /\ plan' = "mine"
  /\ UNCHANGED <<cardVars, pollVars, queue, procVars, flag, captured, diskVars,
                 outcomeVars>>

\* Faulty variant: the dispatch ends without a notice.
RunFailsSilently ==
  /\ \/ dispatch = "waiting" /\ plan # "nobody"
     \/ dispatch = "running"
  /\ dispatch' = "done" /\ plan' = Free
  /\ UNCHANGED <<cardVars, pollVars, queue, procVars, flag, captured, diskVars,
                 outcomeVars>>

\* Busy until the budget is used up, a timeout, or an exception of the run: the
\* operator will be told so, and the text is dropped.
RunFails ==
  /\ \/ dispatch = "waiting" /\ plan # "nobody"
     \/ dispatch = "running"
  /\ dispatch' = "noting" /\ plan' = Free
  /\ UNCHANGED <<cardVars, pollVars, queue, procVars, flag, captured, diskVars,
                 outcomeVars>>

Noted ==
  /\ dispatch = "noting"
  /\ dispatch' = "done"
  /\ told' = told \cup Items(parts)
  /\ UNCHANGED <<cardVars, pollVars, queue, procVars, flag, captured, plan, diskVars,
                 replies, lost>>

\* The plan's text is broadcast, then the lock is free, then run returns.
PlanEnds ==
  /\ plan = "mine"
  /\ plan' = "nobody"
  /\ captured' = IF captured = "nothing" THEN "mine" ELSE captured
  /\ UNCHANGED <<cardVars, pollVars, queue, procVars, dispatch, flag, diskVars,
                 outcomeVars>>

\* Interrupted for a follow-up: nothing is sent.
RunReturns ==
  /\ dispatch = "running" /\ plan # "mine"
  /\ dispatch' = IF flag THEN "done" ELSE "replying"
  /\ UNCHANGED <<cardVars, pollVars, queue, procVars, flag, captured, plan, diskVars,
                 outcomeVars>>

\* The reply is sent, or given up after an error that is logged, and remembered.
ReplySent ==
  /\ dispatch = "replying"
  /\ dispatch' = "recording"
  /\ told' = told \cup Items(parts)
  /\ replies' = Answered
  /\ remembered' = remembered \cup Items(parts)
  /\ UNCHANGED <<cardVars, pollVars, queue, procVars, flag, captured, plan, disk, damaged,
                 faults, lost>>

Recorded ==
  /\ dispatch = "recording"
  /\ dispatch' = "done"
  /\ Save(offset, remembered)
  /\ UNCHANGED <<cardVars, pollVars, queue, procVars, flag, captured, plan, remembered,
                 outcomeVars>>

ForeignStarts ==
  /\ plan = "nobody"
  /\ plan' = "foreign"
  /\ UNCHANGED <<cardVars, pollVars, queue, procVars, dispatch, flag, captured, diskVars,
                 outcomeVars>>

\* A listener that has no text yet takes that of any plan.
ForeignEnds ==
  /\ plan = "foreign"
  /\ plan' = "nobody"
  /\ captured' = IF captured = "nothing" /\ dispatch \in {"waiting", "running"}
                   THEN "foreign" ELSE captured
  /\ UNCHANGED <<cardVars, pollVars, queue, procVars, dispatch, flag, diskVars,
                 outcomeVars>>

-----------------------------------------------------------------------------
(***************************************************************************)
(* Crash and restart.                                                      *)
(***************************************************************************)
\* What a crash leaves on disk: the last write; the offset of an update that was
\* not handled yet (stop breaks off there as well); or, inside write_text, which
\* truncates first, an empty file.
Left ==
  {disk}
  \cup (IF poll = "polling" /\ offset < fetched
          THEN {[offset |-> offset + 1, history |-> remembered]} ELSE {})
  \cup {[offset |-> 0, history |-> {}]}

\* Memory is gone.  Without a stored offset Telegram delivers what it has.
Crash ==
  /\ Fault
  /\ \E d \in Left :
      /\ disk' = d
      /\ damaged' = (damaged \/ d.offset < disk.offset)
      /\ offset' = Max({d.offset, confirmed}) /\ fetched' = offset' /\ poll' = "polling"
      /\ remembered' = d.history
      /\ queue' = <<>> /\ proc' = "idle" /\ parts' = <<>> /\ extra' = <<>>
      /\ peeked' = NoText
      /\ dispatch' = "none" /\ flag' = FALSE /\ captured' = "nothing" /\ plan' = "nobody"
      /\ lost' = lost \cup ((Items(SubSeq(inbox, 1, Max({offset, offset'}))) \cap Text) \ told)
      /\ ForgetCards
      /\ UNCHANGED <<inbox, confirmed, taken, replies, told>>

-----------------------------------------------------------------------------
Poller ==
  \/ Poll
  \/ \E t \in Text : TakeText(t) \/ TakeMedia(t)
  \/ \E u \in Tap : TakeTap(u)
  \/ MediaRead \/ MediaRefused \/ TapDone

Processor ==
  \/ TakeFirst \/ Gather \/ WindowCloses \/ Peek \/ DispatchOver
  \/ FollowUp \/ Merge \/ Interrupt \/ Kill \/ Redispatch

Dispatching == Begin \/ Admitted \/ RunFails \/ Noted \/ RunReturns \/ ReplySent \/ Recorded

Cards(a) ==
  /\ CardStep(a) \/ Operator(a)
  /\ approval[a] = "none" => Traffic + 7 <= MaxTraffic
  /\ UNCHANGED <<pollVars, queue, procVars, dispatchVars, diskVars, outcomeVars>>

Next ==
  \/ \E u \in Update : Send(u)
  \/ Poller \/ Processor \/ Dispatching
  \/ PlanEnds \/ ForeignStarts \/ ForeignEnds
  \/ \E a \in Approval : Cards(a)
  \/ Crash

Spec == Init /\ [][Next]_vars

\* The coroutines go on, plans end (RunsSettle of Orchestrator), and so do the calls to
\* Telegram; nobody has to write, to tap or to start a plan.
Fairness ==
  /\ WF_vars(Poller) /\ WF_vars(Processor) /\ WF_vars(Dispatching)
  /\ WF_vars(PlanEnds) /\ WF_vars(ForeignEnds)
  /\ \A a \in Approval : WF_vars(CardStep(a) /\ Cards(a))

FairSpec == Spec /\ Fairness

-----------------------------------------------------------------------------
(***************************************************************************)
(* Properties.                                                             *)
(***************************************************************************)
\* How often a text is in the queue, with the peek, in the batch or in what is to
\* be merged into it.
Count(t, s) == Cardinality({i \in DOMAIN s : s[i] = t})
Places(t) ==
  Count(t, queue) + Count(t, parts) + Count(t, extra) + IF peeked = t THEN 1 ELSE 0

\* _process_queue: texts are merged "without races or dropped context".  A text that
\* was taken is on its way in one place, or its sender was told, or a crash took it (or,
\* with a file, the poller's silence).
NothingDropped ==
  \A t \in Text :
    /\ taken[t] > 0 => \/ Places(t) = 1
                       \/ t \in told \cup lost
                       \/ poll = "reading" /\ Current = t
    /\ taken[t] < 2 => Places(t) <= 1

\* The state file.  The offset is on disk before an update is handled, "so restarts
\* don't replay" it: unless a write failed or was cut short, nothing is handled twice.
\* And "only record the exchange once PILK actually replied": the history the next
\* prompt starts with, and the one a restart loads, hold nothing else.
StateFileHonest ==
  /\ ~damaged => \A u \in Update : taken[u] <= 1
  /\ \A t \in remembered \cup disk.history : replies[t] > 0

\* Whatever the sender does meanwhile, and whoever holds the orchestrator: a text that
\* was taken gets a reply or a notice, as far as Telegram takes it (_safe_send goes on
\* after an error), unless a crash or the poller's silence took it.
OutcomeArrives == \A t \in Text : (taken[t] > 0) ~> (t \in told \cup lost)

\* _dispatch: "the operator only ever sees the final merged reply".
OneReply == \A t \in Text : replies[t] <= 1

\* The header: "call orchestrator.run(text), and send the captured assistant text
\* back".
ReplyIsOwn == dispatch = "replying" => captured = "mine"
=============================================================================
