-------------------------- MODULE MCApprovalQueue --------------------------
(***************************************************************************)
(* Instances of ApprovalQueue.  One agent with two plans and the top-level *)
(* chat; an ordinary outbound mail, one as the user, and                   *)
(* the orchestrator's own preflight request.                               *)
(***************************************************************************)
EXTENDS ApprovalRefinement, TLC

CONSTANTS a1, p1, p2, c1, c2, c3, h1, h2, to, body

MCRegistered == {"gmail_send_as_pilk", "gmail_send_as_me", "computer_shell",
                 "agent_email_deliver"}

Ask(p, a, tool, risk, args) ==
  [plan |-> p, agent |-> a, tool |-> tool, risk |-> risk, args |-> args,
   trading |-> FALSE, direct |-> FALSE]

Mail(p, args) == Ask(p, a1, "gmail_send_as_pilk", "COMMS", args)
MailAsMe(p) == Ask(p, a1, "gmail_send_as_me", "COMMS", {to})
Deliver(p) == Ask(p, NoAgent, "agent_email_deliver", "NET_WRITE", {to})
Preflight(p) == [Ask(p, NoAgent, "__cost_preflight", "READ", {body})
                   EXCEPT !.direct = TRUE]

\* agent_email_deliver to allowlisted recipients, whoever asks.
MCSeeded == {[from |-> Boot, agent |-> NoAgent, tool |-> "agent_email_deliver",
              matcher |-> {}, accepts |-> {{to}, {to, body}}]}

\* Two plans' mails, which one bulk approval covers.
TwoMails == c1 :> Mail(p1, {to}) @@ c2 :> Mail(p2, {to, body})

\* What rules and profiles decide in one plan: the seeded delivery and a mail as
\* the user, beside the plan's preflight, which never meets the gate.
Policy == c1 :> Deliver(p1) @@ c2 :> MailAsMe(p1) @@ c3 :> Preflight(p1)

MCSymmetry == Permutations(Handler)
=============================================================================
