------------------------------ MODULE MCIntake ------------------------------
(***************************************************************************)
(* Instances of Intake.  Two uploads of one report, for two names whose    *)
(* numbered files meet, the one so large that reading it leaves the event  *)
(* loop; a file the operator drops, which may be a photo nobody can read;  *)
(* and a scan.  Two utterances.                                            *)
(***************************************************************************)
EXTENDS Intake, TLC

CONSTANTS u1, u2, report, photo

MCNameOf == u1 :> "a" @@ u2 :> "a-1"
MCDocumentOf == u1 :> report @@ u2 :> report

\* Two contents under one name.
MCSameName == u1 :> "a" @@ u2 :> "a"
MCTwoContents == u1 :> report @@ u2 :> photo

MCTried == "a" :> <<"a", "a-1", "a-2">> @@ "a-1" :> <<"a-1", "a-1-1">>
=============================================================================
