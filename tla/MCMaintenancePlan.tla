------------------------ MODULE MCMaintenancePlan ------------------------
(* Instances of MaintenancePlan and RulePassages for TLC: the plan, of      *)
(* which texts are no part, or the pages of a manual beside an empty plan.  *)
EXTENDS RulePassages, TLC

Symmetric == Permutations(Slots) \union Permutations(Keys) \union Permutations(Docs)

PlanStep == book = <<>> /\ PlanNext /\ UNCHANGED book
BookStep == book # <<>> /\ BookNext /\ UNCHANGED planVars

PlanOrBookSpec == ManualInit /\ [][PlanStep \/ BookStep]_<<planVars, book>>
=============================================================================
