------------------------------- MODULE Voice --------------------------------
(***************************************************************************)
(* The voice pipeline: the indicator of core/voice/state.py, the pipeline  *)
(* of core/voice/pipeline.py and the endpoints of core/api/routes/voice.py. *)
(* An utterance holds the pipeline's lock while it is transcribed, run by  *)
(* the orchestrator and spoken.  To hear the answer the pipeline puts a    *)
(* tap of its own in the place of the orchestrator's broadcast.            *)
(***************************************************************************)
EXTENDS Sequences, Faults

CONSTANTS
  Utterance,   \* requests to POST /voice/utterance
  Hub,         \* the orchestrator's own broadcast
  Other,       \* plans of others: chats, agents, triggers
  Silence,     \* nothing heard
  Offline      \* a daemon without an API key has no orchestrator

ASSUME VoiceAssumptions ==
  /\ Hub \notin Utterance /\ Other \notin Utterance /\ Silence \notin Utterance \cup {Other}
  /\ Offline \notin Utterance \cup {Other, Silence}

VARIABLES
  state,    \* the indicator
  queue,    \* utterances at the lock; the first one holds it
  stage,    \* Utterance -> where it is
  tap,      \* who receives the orchestrator's events: Hub or an utterance
  heard,    \* Utterance -> whose answer its tap has collected last
  engine    \* who holds the orchestrator's lock: Silence (nobody), Other, an utterance;
            \* or there is none to hold

voiceVars == <<state, queue, stage, tap, heard, engine>>

State == {"idle", "listening", "transcribing", "speaking"}
Transition == [idle |-> {"listening"}, listening |-> {"transcribing", "idle"},
               transcribing |-> {"speaking", "idle"}, speaking |-> {"idle", "listening"}]

Tapped == {"admission", "waiting", "running", "settling"}
Stage == {"new", "waits", "starts", "stt", "empty", "costs", "speaks", "tts", "billed",
          "answered", "unheard", "refused", "lost", "failed"} \cup Tapped

VoiceTypeOK ==
  /\ state \in State /\ queue \in Seq(Utterance) /\ stage \in [Utterance -> Stage]
  /\ tap \in Utterance \cup {Hub} /\ engine \in Utterance \cup {Other, Silence, Offline}
  /\ heard \in [Utterance -> Utterance \cup {Other, Silence}]

VoiceInit ==
  /\ state = "idle" /\ queue = <<>> /\ stage = [u \in Utterance |-> "new"]
  /\ tap = Hub /\ heard = [u \in Utterance |-> Silence]
  /\ engine \in {Silence, Offline}

-----------------------------------------------------------------------------
\* VoiceStateMachine.transition: to the same state it does nothing.
Legal(to) == to = state \/ to \in Transition[state]

Listen ==
  /\ Legal("listening") /\ state' = "listening"
  /\ UNCHANGED <<queue, stage, tap, heard, engine>>

\* POST /voice/cancel and /voice/done reset the indicator from any state.
CancelOrDone ==
  /\ state' = "idle" /\ UNCHANGED <<queue, stage, tap, heard, engine>>

Moves(u, from, to) == stage[u] = from /\ stage' = [stage EXCEPT ![u] = to]

\* The utterance returns or raises; the lock goes to the next in line.
Returns(u, from, how) == Moves(u, from, how) /\ queue' = Tail(queue)

Utter(u) ==
  /\ Moves(u, "new", "waits") /\ queue' = Append(queue, u)
  /\ UNCHANGED <<state, tap, heard, engine>>

\* Faulty variant: the lock is not waited for.
HoldsAlways(u) == queue # <<>>

Holds(u) == queue # <<>> /\ Head(queue) = u

\* Unless the indicator listens it is reset, and the reset is broadcast.
Begin(u) ==
  /\ Holds(u)
  /\ \/ state = "listening" /\ Moves(u, "waits", "stt") /\ state' = "transcribing"
        /\ UNCHANGED queue
     \/ state = "idle" /\ Returns(u, "waits", "refused") /\ UNCHANGED state
     \/ state \in {"transcribing", "speaking"} /\ Moves(u, "waits", "starts")
        /\ state' = "idle" /\ UNCHANGED queue
  /\ UNCHANGED <<tap, heard, engine>>

\* After the broadcast of the reset.
Start(u) ==
  /\ \/ Legal("transcribing") /\ Moves(u, "starts", "stt") /\ state' = "transcribing"
        /\ UNCHANGED queue
     \/ ~Legal("transcribing") /\ Returns(u, "starts", "refused") /\ UNCHANGED state
  /\ UNCHANGED <<tap, heard, engine>>

Transcribe(u) ==
  /\ \E found \in {"costs", "empty"} : Moves(u, "stt", found)
  /\ UNCHANGED <<state, queue, tap, heard, engine>>

TranscribeFails(u) ==
  /\ Returns(u, "stt", "failed") /\ state' = "idle" /\ UNCHANGED <<tap, heard, engine>>

NothingSaid(u) ==
  /\ Returns(u, "empty", "unheard") /\ state' = "idle" /\ UNCHANGED <<tap, heard, engine>>

-----------------------------------------------------------------------------
\* Faulty variant: the broadcast is put back after a run that returned.
PutBackOnSuccess(raised) == tap' = IF raised THEN tap ELSE Hub

PutBack(raised) == tap' = Hub

\* The tap is in place when the orchestrator refuses: it comes out again.
Busy(u) ==
  /\ engine \notin {Silence, Offline} /\ Returns(u, "costs", "failed") /\ PutBack(TRUE)
  /\ UNCHANGED <<state, heard, engine>>

Route(u) ==
  /\ engine = Silence /\ Moves(u, "costs", "admission") /\ tap' = u
  /\ UNCHANGED <<state, queue, heard, engine>>

\* Without an orchestrator the words are echoed.
Echo(u) ==
  /\ engine = Offline /\ Moves(u, "costs", "speaks") /\ heard' = [heard EXCEPT ![u] = u]
  /\ UNCHANGED <<state, queue, tap, engine>>

\* The daily cap is reached: a failed plan, whose answer says so.
Capped(u) ==
  /\ Moves(u, "admission", "speaks") /\ PutBack(FALSE)
  /\ heard' = [heard EXCEPT ![u] = u]
  /\ UNCHANGED <<state, queue, engine>>

Admitted(u) ==
  /\ Moves(u, "admission", "waiting") /\ UNCHANGED <<state, queue, tap, heard, engine>>

TakesLock(u) ==
  /\ engine = Silence /\ Moves(u, "waiting", "running") /\ engine' = u
  /\ UNCHANGED <<state, queue, tap, heard>>

\* The plan ends, its delegations included, with an answer or without one; the
\* orchestrator is free, and the tap stays for up to half a second.
RunReturns(u) ==
  /\ Moves(u, "running", "settling") /\ engine' = Silence
  /\ heard' \in {heard, [heard EXCEPT ![u] = u]}
  /\ UNCHANGED <<state, queue, tap>>

Settled(u) ==
  /\ Moves(u, "settling", "speaks") /\ PutBack(FALSE) /\ UNCHANGED <<state, queue, heard, engine>>

RunRaises(u) ==
  /\ \E from \in {"admission", "running"} : Returns(u, from, "failed")
  /\ engine' = IF engine = u THEN Silence ELSE engine
  /\ PutBack(TRUE) /\ UNCHANGED <<state, heard>>

OtherStarts ==
  /\ engine = Silence /\ engine' = Other /\ UNCHANGED <<state, queue, stage, tap, heard>>

OtherEnds ==
  /\ engine = Other /\ engine' = Silence
  /\ heard' \in IF tap = Hub THEN {heard} ELSE {heard, [heard EXCEPT ![tap] = Other]}
  /\ UNCHANGED <<state, queue, stage, tap>>

-----------------------------------------------------------------------------
\* An indicator reset in the meantime makes the transition illegal.
Speak(u) ==
  /\ \/ Legal("speaking") /\ Moves(u, "speaks", "tts") /\ state' = "speaking"
        /\ UNCHANGED queue
     \/ ~Legal("speaking") /\ Returns(u, "speaks", "lost") /\ UNCHANGED state
  /\ UNCHANGED <<tap, heard, engine>>

Synthesize(u) ==
  /\ Moves(u, "tts", "billed") /\ UNCHANGED <<state, queue, tap, heard, engine>>

SynthesizeFails(u) ==
  /\ Returns(u, "tts", "failed") /\ state' = "idle" /\ UNCHANGED <<tap, heard, engine>>

\* The indicator stays at speaking until the client says it is done.
Answer(u) ==
  /\ Returns(u, "billed", "answered") /\ UNCHANGED <<state, tap, heard, engine>>

\* Booking what the drivers cost is guarded by nothing.
CostRaises(u) ==
  /\ Fault /\ \E from \in {"empty", "costs", "billed"} : Returns(u, from, "failed")
  /\ UNCHANGED <<state, tap, heard, engine>>

VoiceRestart ==
  /\ Fault /\ state' = "idle" /\ queue' = <<>> /\ tap' = Hub
  /\ engine' \in {Silence, Offline}
  /\ stage' = [u \in Utterance |-> IF stage[u] = "new" THEN "new" ELSE "failed"]
  /\ UNCHANGED heard

Utters(u) ==
  \/ Begin(u) \/ Start(u) \/ Transcribe(u) \/ TranscribeFails(u) \/ NothingSaid(u)
  \/ Busy(u) \/ Route(u) \/ Echo(u) \/ Capped(u) \/ Admitted(u) \/ TakesLock(u)
  \/ RunReturns(u) \/ Settled(u) \/ RunRaises(u)
  \/ Speak(u) \/ Synthesize(u) \/ SynthesizeFails(u) \/ Answer(u)

VoiceNext ==
  \/ (Listen \/ CancelOrDone \/ OtherStarts \/ OtherEnds) /\ UNCHANGED faults
  \/ \E u \in Utterance : \/ (Utter(u) \/ Utters(u)) /\ UNCHANGED faults
                          \/ CostRaises(u)
  \/ VoiceRestart

-----------------------------------------------------------------------------
(* The orchestrator's broadcast is tapped by the one utterance it runs or  *)
(* is about to run, and is its own again however that run ends.            *)
TapPutBack == tap # Hub => Holds(tap) /\ stage[tap] \in Tapped

(* While an utterance is transcribed or run, the indicator never says that *)
(* PILK speaks, whatever the operator pressed and whoever is in line.      *)
SpeaksInTurn ==
  state = "speaking" =>
    \A u \in Utterance : stage[u] \notin Tapped \cup {"starts", "stt", "costs", "empty"}

(* "Accept audio even if we missed the LISTENING event"                    *)
(* (core/voice/pipeline.py:87).                                            *)
AudioAccepted == \A u \in Utterance : stage[u] # "refused"

(* The answer to an utterance is its own.                                  *)
AnswersOwn == \A u \in Utterance : stage[u] = "answered" => heard[u] # Other

(* An indicator at transcribing means that somebody transcribes.           *)
Transcribes ==
  state = "transcribing" => \E u \in Utterance : Holds(u) /\ stage[u] # "waits"
=============================================================================
