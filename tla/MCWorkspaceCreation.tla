------------------------ MODULE MCWorkspaceCreation ------------------------
(* Three creations, of which the third may meet a full registry, and any   *)
(* but the first the stopped runtime of one before it.                     *)
EXTENDS WorkspaceCreation
=============================================================================
