-------------------------- MODULE MCCommandsCycle --------------------------
(***************************************************************************)
(* CommandsCycle for TLC: a neutral, a manual and a stabilizing command of *)
(* two fields, a limit of three cycles (400 in the code) and a counter     *)
(* that wraps shortly after it.                                            *)
(***************************************************************************)
EXTENDS CommandsCycle

CONSTANTS Still, Manual, Held

MCCommands == {Still, Manual, Held}
MCStabilized == {Held}
MCFields == {"Move", "Stabilization"}
=============================================================================
