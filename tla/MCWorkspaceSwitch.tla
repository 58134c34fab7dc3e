------------------------- MODULE MCWorkspaceSwitch -------------------------
(* Three workspaces, the least with which a second switch can leave both.  *)
EXTENDS WorkspaceSwitch
=============================================================================
