------------------------------ MODULE MCEngine ------------------------------
(***************************************************************************)
(* Instances of Engine for TLC: two sources, the watcher and one other.    *)
(***************************************************************************)
EXTENDS Engine

CONSTANTS watcher, poller

TwoSources == {watcher, poller}
=============================================================================
