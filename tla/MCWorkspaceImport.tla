------------------------- MODULE MCWorkspaceImport -------------------------
(* Two imports, of any two profiles, into a registry with room for one.    *)
EXTENDS WorkspaceImport
=============================================================================
