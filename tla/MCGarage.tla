----------------------------- MODULE MCGarage -----------------------------
(* Instances of Garage for TLC: bikes are ordered by "garage", not by their *)
(* identities, and slots are alike.  The age gate shares nothing with the   *)
(* bikes but the owner: its days pass while the owner has no bike and no    *)
(* request runs.                                                            *)
EXTENDS Garage, AgeGate, TLC

Symmetric == Permutations(Bikes) \union Permutations(Slots)

Fresh == born = NoDate /\ consents = <<>> /\ date = [year |-> FirstYear, month |-> 2, day |-> 28]

\* Bound: requests overlap on one bike, or on several that have no reading: they meet in
\* the meter of one bike, or in the choice among several, which looks at no meter.
Overlaps ==
  (Cardinality(Owned) > 1 /\ \A s \in Slots : request[s] # Idle) =>
    \A b \in Owned : bikes[b].hours = Missing /\ bikes[b].estimated

GarageStep == Fresh /\ Next /\ Overlaps' /\ UNCHANGED ageVars

AgeStep ==
  /\ Owned = {} /\ \A s \in Slots : request[s] = Idle
  /\ AgeNext
  /\ UNCHANGED vars

OwnerInit == Init /\ AgeInit

OwnerSpec == OwnerInit /\ [][GarageStep \/ AgeStep]_<<vars, ageVars>>
=============================================================================
