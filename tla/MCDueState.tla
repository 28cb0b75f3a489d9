----------------------------- MODULE MCDueState -----------------------------
(* Instances of DueState and Recommendations for TLC.                      *)
EXTENDS Recommendations
=============================================================================
