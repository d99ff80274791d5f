------------------------------ MODULE MCWatcher ------------------------------
(***************************************************************************)
(* Values for Watcher: every kind over two targets.                        *)
(***************************************************************************)
EXTENDS Watcher
=============================================================================
