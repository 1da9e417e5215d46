------------------------------- MODULE Intake -------------------------------
(***************************************************************************)
(* What comes into PILK besides chats: files (Ingest) and speech (Voice).  *)
(* The two share the daemon, whose restarts stop both, but no state; a     *)
(* behaviour therefore moves one of them, and the other one stands still.  *)
(***************************************************************************)
EXTENDS Ingest, Voice

VARIABLE part   \* the one that moves

vars == <<part, faults, ingestVars, voiceVars>>

TypeOK ==
  /\ part \in {"files", "speech"} /\ FaultsTypeOK
  /\ IngestTypeOK /\ VoiceTypeOK

Init == part \in {"files", "speech"} /\ FaultsInit /\ IngestInit /\ VoiceInit

Next ==
  /\ UNCHANGED part
  /\ \/ part = "files" /\ IngestNext /\ UNCHANGED voiceVars
     \/ part = "speech" /\ VoiceNext /\ UNCHANGED ingestVars

Spec == Init /\ [][Next]_vars
=============================================================================
