------------------------ MODULE MCScheduledInjectors ------------------------
(***************************************************************************)
(* Values for ScheduledInjectors: two injectors over schedules that cover  *)
(* an immediate and a later start, a window that ends before and after the *)
(* deadline, a permanent fault, blocks their kind refuses, and the         *)
(* recover_at <= at_offset of a mistaken scenario.                         *)
(***************************************************************************)
EXTENDS ScheduledInjectors

CONSTANTS i1, i2

MCInjectors == {i1, i2}

Block(at, recover, has, kind, az, param) ==
  [atOffset |-> at, recoverAt |-> recover, hasRecover |-> has,
   kind |-> kind, az |-> az, param |-> param]

MCSchedules == {Block(0, 1, TRUE, "host_cordon", TRUE, ""),
                Block(1, 3, TRUE, "network_partition", TRUE, "known"),
                Block(0, 2, TRUE, "network_partition", TRUE, "unknown"),
                Block(1, 2, TRUE, "process_kill", TRUE, ""),
                Block(1, 0, FALSE, "host_cordon", TRUE, ""),
                Block(1, 0, FALSE, "process_kill", FALSE, "known")}

\* recover_at equal to and before at_offset.
MCInvertedSchedules == {Block(1, 1, TRUE, "host_cordon", TRUE, ""),
                        Block(2, 1, TRUE, "network_partition", TRUE, ""),
                        Block(0, 1, TRUE, "host_cordon", TRUE, "")}
=============================================================================
