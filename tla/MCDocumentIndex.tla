-------------------------- MODULE MCDocumentIndex ---------------------------
\* Instance of DocumentIndex for TLC.  Liveness is part of the run, so there is no symmetry.
EXTENDS DocumentIndex
=============================================================================
