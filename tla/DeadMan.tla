------------------------------ MODULE DeadMan ------------------------------
(***************************************************************************)
(* What the command loop promises the pilot.  Each motor message carries   *)
(* the latest command received when its cycle began; a command drives the  *)
(* motors in at most MAX_COUNT - 1 cycles, after which every cycle sends   *)
(* the neutral command until a new one is received; and at most one        *)
(* message of a cycle that began earlier follows the reception of a new    *)
(* command.                                                                *)
(***************************************************************************)
EXTENDS Naturals

CONSTANTS
  Commands,   \* the commands a client can send
  Neutral,    \* the command that moves nothing
  MAX_COUNT,  \* the cycle at which a command that was not renewed expires
  None        \* no command

VARIABLES
  latest,     \* the last command received
  age,        \* cycles begun since then, counted up to MAX_COUNT
  pending,    \* the command of the cycle in progress, None between cycles
  motors      \* the command of the last message sent to the motors

vars == <<latest, age, pending, motors>>

Init ==
  /\ latest = Neutral
  /\ age = 0
  /\ pending = None
  /\ motors = None

Receive(c) ==
  /\ latest' = c
  /\ age' = 0
  /\ UNCHANGED <<pending, motors>>

Older == IF age < MAX_COUNT THEN age + 1 ELSE MAX_COUNT

Begin ==
  /\ pending = None
  /\ age' = Older
  /\ pending' = IF age' = MAX_COUNT THEN Neutral ELSE latest
  /\ UNCHANGED <<latest, motors>>

Drive ==
  /\ pending # None
  /\ motors' = pending
  /\ pending' = None
  /\ UNCHANGED <<latest, age>>

Next == (\E c \in Commands : Receive(c)) \/ Begin \/ Drive

Spec == Init /\ [][Next]_vars
=============================================================================
