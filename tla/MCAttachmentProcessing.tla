----------------------- MODULE MCAttachmentProcessing -----------------------
\* Instance of AttachmentProcessing for TLC.  Liveness is part of the run, so there is no symmetry.
EXTENDS AttachmentProcessing
=============================================================================
