----------------------------- MODULE FencedJob -----------------------------
(***************************************************************************)
(* What every durable background job of Vroometr promises, whatever it     *)
(* does: each subject has a sequence of numbered attempts, of which only   *)
(* the newest can be claimed, is claimed at most once, and is settled at   *)
(* most once, by itself.  Attachment checks, document extraction and       *)
(* document indexing are shown to implement it.                            *)
(*                                                                         *)
(* attempt[s]  the number of attempts issued so far (0: none)              *)
(* phase[s]    the life cycle of the newest attempt                        *)
(* author[s]   the attempt that wrote the current outcome (0: no outcome)  *)
(***************************************************************************)
EXTENDS Naturals

CONSTANT Subjects

VARIABLES attempt, phase, author

jobVars == <<attempt, phase, author>>

Outcomes == {"completed", "partial", "awaiting_configuration", "failed"}

JobInit ==
  /\ attempt = [s \in Subjects |-> 0]
  /\ phase = [s \in Subjects |-> "none"]
  /\ author = [s \in Subjects |-> 0]

\* A new attempt supersedes the one before it, whatever that one is doing.
Issue(s) ==
  /\ phase[s] # "gone"
  /\ attempt' = [attempt EXCEPT ![s] = @ + 1]
  /\ phase' = [phase EXCEPT ![s] = "queued"]
  /\ author' = [author EXCEPT ![s] = 0]

\* The newest attempt is claimed, once.
Start(s) ==
  /\ phase[s] = "queued"
  /\ phase' = [phase EXCEPT ![s] = "running"]
  /\ UNCHANGED <<attempt, author>>

\* An outcome is written, by the newest attempt itself.  An attempt that was
\* never claimed may only fail (its message could not be published).
Settle(s) ==
  /\ \E outcome \in Outcomes :
       /\ phase[s] = "running" \/ (phase[s] = "queued" /\ outcome = "failed")
       /\ phase' = [phase EXCEPT ![s] = outcome]
  /\ author' = [author EXCEPT ![s] = attempt[s]]
  /\ UNCHANGED attempt

\* The subject of the job is deleted, and the job with it.
Discard(s) ==
  /\ phase[s] # "gone"
  /\ phase' = [phase EXCEPT ![s] = "gone"]
  /\ author' = [author EXCEPT ![s] = 0]
  /\ UNCHANGED attempt

JobNext == \E s \in Subjects : Issue(s) \/ Start(s) \/ Settle(s) \/ Discard(s)

JobSpec == JobInit /\ [][JobNext]_jobVars
=============================================================================
