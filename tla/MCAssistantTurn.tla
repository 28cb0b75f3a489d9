--------------------------- MODULE MCAssistantTurn ---------------------------
(* Instances of AssistantTurn for TLC.                                     *)
EXTENDS AssistantTurn

CONSTANTS p1, p2, p3

\* A manual and a supporting document with the same file name, section and page.
Labels == [p \in Passages |-> IF p = p3 THEN 2 ELSE 1]
=============================================================================
