--------------------------- MODULE MCIntelligence ---------------------------
(***************************************************************************)
(* Two sources that carry the same article, and one request: a refresh, a  *)
(* dry run or the submission of that article.                              *)
(***************************************************************************)
EXTENDS Intelligence

CONSTANTS blog, wire, story, ask

BothCarry == [s \in Source |-> Article]
=============================================================================
