-------------------------- MODULE MCProfileRestore --------------------------
(* Small instances of ProfileRestore.                                      *)
EXTENDS ProfileRestore

\* a profile with documents, and one that never stored any
MCOriginals == {{"db"}, {"db", "docs"}}
=============================================================================
