------------------------- MODULE MCTelegramBridge -------------------------
(***************************************************************************)
(* Instances of TelegramBridge: an instruction and two follow-ups, one of  *)
(* them with a file, and one approval whose two buttons are both tapped.   *)
(***************************************************************************)
EXTENDS TelegramBridge

CONSTANTS m1, m2, m3, yes, no, ap

MCScript == <<m1, m2, m3>>
MCTapOn == [u \in {yes, no} |->
              [on |-> ap, says |-> IF u = yes THEN "approved" ELSE "rejected"]]
=============================================================================
