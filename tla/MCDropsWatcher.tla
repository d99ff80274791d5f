--------------------------- MODULE MCDropsWatcher ---------------------------
(***************************************************************************)
(* DropsWatcher as TLC checks it; its constants are numbers, in the cfg.   *)
(***************************************************************************)
EXTENDS DropsWatcher
=============================================================================
