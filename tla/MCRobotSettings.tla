-------------------------- MODULE MCRobotSettings --------------------------
(***************************************************************************)
(* RobotSettings for TLC: two good messages that differ in both fields,    *)
(* one at the limit of twelve motors, one that is over it, one without     *)
(* regulators, and two that a torn file may hold.                          *)
(***************************************************************************)
EXTENDS RobotSettings

MCGains == {"soft", "hard"}

Message(thrusters, hand, pids, gains, enabled) ==
  [thrusters |-> thrusters, hand |-> hand, tooLarge |-> FALSE,
   pids |-> pids, gains |-> gains, enabled |-> enabled]

MCMessages == {
  Message(48, 1, 4, "soft", TRUE), Message(48, 4, 4, "hard", TRUE),
  Message(54, 4, 4, "soft", TRUE), Message(36, 2, 0, "soft", TRUE),
  Message(29, 0, 0, "soft", FALSE), Message(48, 1, 2, "soft", FALSE),
  [Message(36, 1, 4, "hard", TRUE) EXCEPT !.tooLarge = TRUE] }
=============================================================================
