---------------------------- MODULE MCLifecycle ----------------------------
(* Lifecycle for TLC; the constants are given in the configurations.       *)
EXTENDS Lifecycle
=============================================================================
