---------------------------- MODULE MCOrchestrate ----------------------------
(***************************************************************************)
(* Values for Orchestrate: one agent, one injector with a window that the  *)
(* deadline may cut or a permanent fault, and watchers that record, one    *)
(* that rejects its params, or two that share a label.                     *)
(***************************************************************************)
EXTENDS Orchestrate, TLC

CONSTANTS a1, i1, w1, w2, w3, leak, health, typo

Block(at, recover, has) ==
  [atOffset |-> at, recoverAt |-> recover, hasRecover |-> has,
   kind |-> "host_cordon", az |-> TRUE, param |-> ""]

MCAgents == {a1}
MCInjectors == {i1}
MCSchedules == {Block(0, 1, TRUE), Block(1, 0, FALSE)}

\* Two working watchers and one whose params its Run rejects.
MCWatchers == {w1, w2, w3}
MCNames == {leak, health, typo}
MCNameOf == (w1 :> leak @@ w2 :> health @@ w3 :> typo)
MCKinds == {"zombies_zero", "healthy_endpoint"}
MCKindOf == (w1 :> "zombies_zero" @@ w2 :> "healthy_endpoint" @@ w3 :> "zombies_zero")
MCBadParams == {w3}

\* Two blocks with one label.
MCTwoWatchers == {w1, w2}
MCSharedLabel == (w1 :> leak @@ w2 :> leak)
MCTwoKinds == (w1 :> "zombies_zero" @@ w2 :> "healthy_endpoint")
MCNoneBad == {}
=============================================================================
