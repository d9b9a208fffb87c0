-------------------------- MODULE DurableRegister --------------------------
(***************************************************************************)
(* What RobotSettings promises.  One value is in force; a write puts the   *)
(* value it was asked for in its place, in one step, and the reader takes  *)
(* it in one.  Then the client is told of it, however far it has come:     *)
(*   - a value in memory only is gone when the process ends, and the       *)
(*     client has been told of it all the same;                            *)
(*   - one that reached the file is not, but may be when the power fails;  *)
(*   - one that reached the storage outlives both.                         *)
(* Apart from that nothing but a write changes the value in force.         *)
(***************************************************************************)
CONSTANTS
  Values,    \* what may be in force
  Default,   \* what is when nothing was ever written
  None       \* nothing taken

VARIABLES
  value,     \* the value in force
  asked,     \* the one the client's write is to put in force: none or one
  taken,     \* the one the reader works with, None between two of them
  told,      \* the one the client was told of since it last asked: none or one
  reach      \* how far the value in force has come

vars == <<value, asked, taken, told, reach>>

Init ==
  /\ value = Default
  /\ asked = {}
  /\ taken = None
  /\ told = {}
  /\ reach = "storage"

(* A write begins, and what is recorded of the value in force is gone. *)
Ask(v) ==
  /\ asked' = {v}
  /\ told' = {}
  /\ reach' = "memory"
  /\ UNCHANGED <<value, taken>>

(* The value asked for is in force; whether it was recorded is not said. *)
Change ==
  /\ told = {}
  /\ value' \in asked
  /\ asked' = {}
  /\ reach' \in {"memory", "file", "storage"}
  /\ UNCHANGED <<taken, told>>

Tell ==
  /\ asked = {}
  /\ told' = {value}
  /\ UNCHANGED <<value, asked, taken, reach>>

Take ==
  /\ taken = None
  /\ taken' = value
  /\ UNCHANGED <<value, asked, told, reach>>

Release ==
  /\ taken' = None
  /\ UNCHANGED <<value, asked, told, reach>>

Keep ==
  /\ reach = "file"
  /\ reach' = "storage"
  /\ UNCHANGED <<value, asked, taken, told>>

Restart ==
  /\ value' \in Values
  /\ reach # "memory" => UNCHANGED <<value, reach>>
  /\ reach' \in {"file", "storage"}
  /\ asked' = {}
  /\ taken' = None
  /\ UNCHANGED told

PowerLoss ==
  /\ value' \in Values
  /\ reach = "storage" => UNCHANGED value
  /\ reach' = "storage"
  /\ asked' = {}
  /\ taken' = None
  /\ UNCHANGED told

Next ==
  \/ (\E v \in Values : Ask(v)) \/ Change \/ Tell
  \/ Take \/ Release
  \/ Keep \/ Restart \/ PowerLoss

Spec == Init /\ [][Next]_vars
=============================================================================
