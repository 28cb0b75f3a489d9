-------------------------- MODULE MCConversations ---------------------------
\* Instance of Conversations for TLC.  Liveness is part of the run, so there is no symmetry.
EXTENDS Conversations
=============================================================================
