------------------------ MODULE MCDocumentIngestion -------------------------
\* Instance of DocumentIngestion for TLC.  Liveness is part of the run, so there is no symmetry.
EXTENDS DocumentIngestion
=============================================================================
