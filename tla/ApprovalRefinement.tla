------------------------- MODULE ApprovalRefinement -------------------------
(***************************************************************************)
(* The approval queue implements ToolCallContract.  A call has its licence *)
(* from the step that settles its future, not from the pop: until then the *)
(* waiter may still go away.                                               *)
(***************************************************************************)
EXTENDS ApprovalQueue

StageOf(c) ==
  CASE pc[c] = "idle"    -> "new"
    [] pc[c] = "invoked" -> "ran"
    [] pc[c] = "refused" -> "refused"
    [] pc[c] \in {"raised", "abandoned", "lost"} -> "gone"
    [] pc[c] \in InFlightPc /\ future[c] = "approved" -> "granted"
    [] pc[c] \in InFlightPc /\ future[c] \in {"rejected", "cancelled"} -> "denied"
    [] OTHER -> "asked"

LicenceOf(c) ==
  CASE pc[c] = "invoked" /\ future[c] = "open" -> "standing"
    [] pc[c] \in InFlightPc \cup {"invoked"} /\ future[c] = "approved" -> resolvedBy[c]
    [] OTHER -> "none"

Contract == INSTANCE ToolCallContract WITH
              Strict  <- {c \in Call : BypassTrust(CallOf[c])},
              stage   <- [c \in Call |-> StageOf(c)],
              licence <- [c \in Call |-> LicenceOf(c)]

\* Every behaviour of the queue, with its races, crashes and failing statements,
\* is one the contract allows.
ImplementsContract == Contract!ContractSpec
=============================================================================
