------------------------------ MODULE MCSession ------------------------------
(***************************************************************************)
(* Two invocations, whose lives may overlap.  There is one set of flags    *)
(* for each way doRun and plan can go.                                     *)
(***************************************************************************)
EXTENDS Session

Flag(command, cluster, scenario, yolo, listen) ==
  [command |-> command, cluster |-> cluster, scenario |-> scenario,
   yolo |-> yolo, listen |-> listen]

MCFlags ==
  { Flag("run", "test", "good", FALSE, FALSE),
    Flag("run", "production", "good", TRUE, TRUE),
    Flag("run", "production", "good", FALSE, FALSE),
    Flag("run", "unreadable", "good", FALSE, FALSE),
    Flag("run", "test", "unchecked", FALSE, TRUE),
    Flag("run", "test", "unbuildable", FALSE, TRUE),
    Flag("plan", "none", "unchecked", FALSE, FALSE),
    Flag("plan", "production", "unreadable", FALSE, FALSE) }
=============================================================================
