-------------------------- MODULE MCUpdateLifecycle --------------------------
(* Three builds: the second update meets the cache the first one left.      *)
EXTENDS UpdateLifecycle
=============================================================================
