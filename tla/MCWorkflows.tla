----------------------------- MODULE MCWorkflows -----------------------------
(***************************************************************************)
(* Instances of Workflows: a manifest with two gates, and one with a step  *)
(* before a note.                                                          *)
(***************************************************************************)
EXTENDS Workflows, TLC

CONSTANTS r1, r2, r3, r4

\* tool, approval, note, approval, agent
TwoGates == [i \in 0 .. 4 |->
               CASE i = 0 -> "tool" [] i = 2 -> "note" [] i = 4 -> "agent"
                 [] OTHER -> "approval"]

TwoNotes == [i \in 0 .. 1 |-> "note"]

MCSymmetry == Permutations(Request)
=============================================================================
