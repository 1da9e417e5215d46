--------------------------- MODULE TelegramCards ---------------------------
(***************************************************************************)
(* The approval cards of core/io/telegram_approvals.py: one Telegram       *)
(* message with two buttons for each request, stripped of its buttons when *)
(* the request is resolved.                                                *)
(*                                                                         *)
(* TelegramApprovals listens to the hub.  The approval manager awaits the  *)
(* broadcast, so `created' and `resolved' are handled by the coroutine     *)
(* that asks or decides, and the two may overlap.  The manager itself is   *)
(* ApprovalQueue; here it is a request that the first decision pops.       *)
(***************************************************************************)
EXTENDS Naturals, Sequences

CONSTANTS
  Approval, Verdict,
  NetMayFail   \* bound: whether calls to Telegram fail

VARIABLES
  approval,   \* where the request is in the manager
  verdict,    \* what was decided
  announced,  \* requests whose card was sent or tried
  sending,    \* cards _send_card awaits
  cards,      \* _cards: the cards whose message id is known
  editing,    \* cards _mark_resolved awaits
  chat        \* what the operator's phone shows for a request

cardVars == <<approval, verdict, announced, sending, cards, editing, chat>>

ASSUME CardAssumptions ==
  {"none", "buttons"} \cap Verdict = {} /\ NetMayFail \in BOOLEAN

CardsTypeOK ==
  /\ approval \in [Approval -> {"none", "pending", "deciding", "resolved", "gone"}]
  /\ verdict \in [Approval -> {"none"} \cup Verdict]
  /\ announced \subseteq Approval /\ sending \subseteq announced
  /\ cards \subseteq announced /\ editing \subseteq announced
  /\ chat \in [Approval -> {"none", "buttons"} \cup Verdict]

CardsInit ==
  /\ approval = [a \in Approval |-> "none"]
  /\ verdict = [a \in Approval |-> "none"]
  /\ announced = {} /\ sending = {} /\ cards = {} /\ editing = {}
  /\ chat = [a \in Approval |-> "none"]

\* ApprovalManager.request: it can be decided at once, and is announced later.
Ask(a) ==
  /\ approval[a] = "none"
  /\ approval' = [approval EXCEPT ![a] = "pending"]
  /\ UNCHANGED <<verdict, announced, sending, cards, editing, chat>>

\* approval.created: whatever became of the request meanwhile.
SendCard(a) ==
  /\ approval[a] \in {"pending", "deciding", "resolved"}
  /\ a \notin announced
  /\ announced' = announced \cup {a}
  /\ sending' = sending \cup {a}
  /\ UNCHANGED <<approval, verdict, cards, editing, chat>>

\* The phone shows the card, before send_message returns.
CardShown(a) ==
  /\ a \in sending /\ chat[a] = "none"
  /\ chat' = [chat EXCEPT ![a] = "buttons"]
  /\ UNCHANGED <<approval, verdict, announced, sending, cards, editing>>

CardSent(a) ==
  /\ a \in sending /\ chat[a] = "buttons"
  /\ sending' = sending \ {a}
  /\ cards' = cards \cup {a}
  /\ UNCHANGED <<approval, verdict, announced, editing, chat>>

\* Refused, or the answer never came: the card is not remembered.
SendFails(a) ==
  /\ NetMayFail
  /\ a \in sending
  /\ sending' = sending \ {a}
  /\ UNCHANGED <<approval, verdict, announced, cards, editing, chat>>

\* Faulty variant: a second decision is taken like the first.
DecideAgain(a, v) ==
  /\ approval[a] \in {"pending", "resolved"}
  /\ approval' = [approval EXCEPT ![a] = "deciding"]
  /\ verdict' = [verdict EXCEPT ![a] = v]
  /\ UNCHANGED <<announced, sending, cards, editing, chat>>

\* approve or reject, by a button, the dashboard or a cancelled plan.
Decide(a, v) ==
  /\ approval[a] = "pending"
  /\ approval' = [approval EXCEPT ![a] = "deciding"]
  /\ verdict' = [verdict EXCEPT ![a] = v]
  /\ UNCHANGED <<announced, sending, cards, editing, chat>>

\* A statement of the decision raises: nobody is told.
DecisionFails(a) ==
  /\ approval[a] = "deciding"
  /\ approval' = [approval EXCEPT ![a] = "gone"]
  /\ UNCHANGED <<verdict, announced, sending, cards, editing, chat>>

\* approval.resolved: the card is rewritten if its message id is known by now.
Resolved(a) ==
  /\ approval[a] = "deciding"
  /\ approval' = [approval EXCEPT ![a] = "resolved"]
  /\ cards' = cards \ {a}
  /\ editing' = IF a \in cards THEN editing \cup {a} ELSE editing
  /\ UNCHANGED <<verdict, announced, sending, chat>>

CardClosed(a) ==
  /\ a \in editing
  /\ editing' = editing \ {a}
  /\ chat' = [chat EXCEPT ![a] = verdict[a]]
  /\ UNCHANGED <<approval, verdict, announced, sending, cards>>

EditFails(a) ==
  /\ NetMayFail
  /\ a \in editing
  /\ editing' = editing \ {a}
  /\ UNCHANGED <<approval, verdict, announced, sending, cards, chat>>

\* The daemon restarts: requests and card ids were in memory.
ForgetCards ==
  /\ approval' = [a \in Approval |->
                    IF approval[a] \in {"pending", "deciding"} THEN "gone" ELSE approval[a]]
  /\ sending' = {} /\ cards' = {} /\ editing' = {}
  /\ UNCHANGED <<verdict, announced, chat>>

CardStep(a) ==
  \/ SendCard(a) \/ CardShown(a) \/ CardSent(a) \/ SendFails(a)
  \/ DecisionFails(a) \/ Resolved(a) \/ CardClosed(a) \/ EditFails(a)

Operator(a) == Ask(a) \/ \E v \in Verdict : Decide(a, v)

\* The coroutine that decided a, a button tap for one, is done with it.
Handled(a) == approval[a] \notin {"pending", "deciding"} /\ a \notin editing

-----------------------------------------------------------------------------
\* Two taps, the dashboard and a cancel may race for one request: a card whose
\* buttons are gone shows the decision that was taken, and it was taken.
CardTellsVerdict ==
  \A a \in Approval : chat[a] \in Verdict =>
    chat[a] = verdict[a] /\ approval[a] = "resolved"

\* telegram_approvals.py: "the card is rewritten in place to show the outcome, so
\* the operator's chat history is a faithful log of what's still pending".
ChatFaithful ==
  \A a \in Approval :
    approval[a] = "resolved" /\ chat[a] = "buttons" => a \in sending \cup editing
=============================================================================
