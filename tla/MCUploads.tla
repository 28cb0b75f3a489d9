----------------------------- MODULE MCUploads -----------------------------
(* Instances of Uploads for TLC.                                           *)
EXTENDS Uploads, TLC

\* Requests are interchangeable; the run without liveness uses this.
RequestSymmetry == Permutations(Requests)
=============================================================================
