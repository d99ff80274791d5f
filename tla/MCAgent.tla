------------------------------- MODULE MCAgent -------------------------------
(***************************************************************************)
(* Values for Agent: workloads with and without a burst, with one, two and *)
(* three resources, one of them unsupported, with none, with a client that *)
(* has no portal, and with rates whose interval is zero.                   *)
(***************************************************************************)
EXTENDS Agent

Block(resources, steady, burst, every, for, portal) ==
  [resources |-> resources, steadyRPS |-> steady, burstRPS |-> burst,
   burstEvery |-> every, burstFor |-> for, portal |-> portal]

MCWorkloads == {
  Block(<<"microvm">>, 1, 2, 3, 2, TRUE),
  Block(<<"microvm", "volume">>, 2, 2, 2, 1, TRUE),
  Block(<<"microvm", "microvms", "volume">>, 2, 0, 0, 0, TRUE),
  Block(<<"volume", "microvm">>, 2, 1, 3, 0, FALSE),
  Block(<<"microvm">>, 3, 4, 2, 1, TRUE),
  Block(<<>>, 0, 2, 3, 3, TRUE)}

MCSupported == {"microvm", "volume"}

\* The example of scenario.go's header in small: every call is answered.
MCOneKind == {Block(<<"microvm">>, 2, 0, 0, 0, TRUE)}
=============================================================================
