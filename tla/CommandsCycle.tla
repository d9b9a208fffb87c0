--------------------------- MODULE CommandsCycle ---------------------------
(***************************************************************************)
(* CommandsService and its CommandsCycle: the main thread, which serves    *)
(* the TCP connection, stores the pilot's commands in the CommandsQueue;   *)
(* the thread of CommandsCycle takes one copy a cycle, adds the            *)
(* stabilization correction and sends the result to the motors; the        *)
(* destructor, run by the main thread, stops that thread and joins it.     *)
(*                                                                         *)
(* A CommandsStruct is a function from the fields two threads could copy   *)
(* apart to the command each field came from, so a torn copy is a function *)
(* that is not constant.  requestsCount_ is a size_t and wraps at WRAP.    *)
(***************************************************************************)
EXTENDS Naturals, PID

CONSTANTS
  Commands,     \* the commands the client sends, Neutral included
  Neutral,      \* CommandsStruct(): nothing moves, no stabilization
  Stabilized,   \* those whose field Stabilization is true
  Fields,       \* the parts of a CommandsStruct that a copy moves one by one
  MAX_COUNT,    \* CommandsQueue::MAX_COUNT
  WRAP,         \* 2^w for the w bits of a size_t
  None          \* no command, no thread

ASSUME CommandsAssumption ==
  /\ Neutral \in Commands
  /\ Stabilized \subseteq Commands \ {Neutral}
  /\ "Stabilization" \in Fields
  /\ None \notin {"main", "loop"}
  /\ None \notin [Fields -> Commands]
  /\ None \notin [command : [Fields -> Commands], correction : SUBSET Origins]
ASSUME CountAssumption ==
  /\ MAX_COUNT \in Nat \ {0}
  /\ WRAP \in Nat
  /\ MAX_COUNT < WRAP

VARIABLES
  commandsMutex_,  \* the thread that holds it, or None
  commands_,       \* CommandsQueue::commands_
  requestsCount_,  \* CommandsQueue::requestsCount_
  isNotDone_,      \* cleared by the destructor
  mainPc,          \* where the main thread is
  received,        \* the argument of AddCommands
  loopPc,          \* where the thread of CommandsCycle is
  commands,        \* its local copy of the commands
  toCopy,          \* the fields the thread that holds the mutex has to copy
  pids_,           \* the memory of the regulator
  motors,          \* the last message given to the motors
  added,           \* history: the last command stored
  uses             \* history: cycles that asked for it, counted up to MAX_COUNT

queueVars == <<commandsMutex_, commands_, requestsCount_, toCopy>>
mainVars == <<mainPc, received>>
loopVars == <<loopPc, commands>>
historyVars == <<added, uses>>
vars == <<queueVars, isNotDone_, mainVars, loopVars, pids_, motors, historyVars>>

Structs == [Fields -> Commands]
Whole(c) == [f \in Fields |-> c]

MainPcs == {"serving", "add.lock", "add.reset", "add.copy", "join", "gone"}
LoopPcs == {"test", "get.lock", "get.count", "get.expire", "get.copy",
            "stabilize", "send", "sleep", "done"}

(* A message to the motors: the pilot's command, and where the correction  *)
(* the regulator added to it comes from ({} when stabilization is off).    *)
Messages == [command : Structs, correction : SUBSET Origins]

TypeOK ==
  /\ commandsMutex_ \in {"main", "loop", None}
  /\ commands_ \in Structs
  /\ requestsCount_ \in 0 .. WRAP - 1
  /\ isNotDone_ \in BOOLEAN
  /\ mainPc \in MainPcs
  /\ received \in Commands
  /\ loopPc \in LoopPcs
  /\ commands \in Structs
  /\ toCopy \in SUBSET Fields
  /\ pids_ \in Memories
  /\ motors \in Messages \cup {None}
  /\ added \in Commands
  /\ uses \in 0 .. MAX_COUNT

Init ==
  /\ commandsMutex_ = None
  /\ commands_ = Whole(Neutral)
  /\ requestsCount_ = 0
  /\ isNotDone_ = TRUE
  /\ mainPc = "serving"
  /\ received = Neutral
  /\ loopPc = "test"
  /\ commands = Whole(Neutral)
  /\ toCopy = {}
  /\ pids_ = InitialMemory
  /\ motors = None
  /\ added = Neutral
  /\ uses = 0

----------------------------------------------------------------------------
(* The main thread: CommandsService::Write -> AddCommands, and the         *)
(* destructor of CommandsCycle.                                            *)

(* Data of another size than a CommandsStruct is refused before anything   *)
(* is touched: Refuse of TcpSession.                                       *)
Write(c) ==
  /\ mainPc = "serving"
  /\ mainPc' = "add.lock"
  /\ received' = c
  /\ UNCHANGED <<queueVars, isNotDone_, loopVars, pids_, motors, historyVars>>

(* A lock_guard waits for the mutex. *)
NoMutex == TRUE
MutexFree == commandsMutex_ = None

AddLock ==
  /\ mainPc = "add.lock"
  /\ MutexFree
  /\ commandsMutex_' = "main"
  /\ mainPc' = "add.reset"
  /\ toCopy' = Fields
  /\ UNCHANGED <<commands_, requestsCount_, received, isNotDone_, loopVars, pids_,
                 motors, historyVars>>

CountKept == requestsCount_
CountReset == 0

AddReset ==
  /\ mainPc = "add.reset"
  /\ requestsCount_' = CountReset
  /\ mainPc' = "add.copy"
  /\ UNCHANGED <<commandsMutex_, commands_, toCopy, received, isNotDone_, loopVars,
                 pids_, motors, historyVars>>

AddCopy(f) ==
  /\ mainPc = "add.copy"
  /\ f \in toCopy
  /\ commands_' = [commands_ EXCEPT ![f] = received]
  /\ toCopy' = toCopy \ {f}
  /\ UNCHANGED <<commandsMutex_, requestsCount_, mainVars, isNotDone_, loopVars,
                 pids_, motors, historyVars>>

(* ~lock_guard, and AddCommands returns. *)
AddUnlock ==
  /\ mainPc = "add.copy"
  /\ toCopy = {}
  /\ commandsMutex_' = None
  /\ mainPc' = "serving"
  /\ added' = received
  /\ uses' = 0
  /\ UNCHANGED <<commands_, requestsCount_, toCopy, received, isNotDone_, loopVars,
                 pids_, motors>>

StoppedNever == isNotDone_
Stopped == FALSE

(* ~CommandsCycle: isNotDone_.store(false), then thread_.join(). *)
Stop ==
  /\ mainPc = "serving"
  /\ isNotDone_' = Stopped
  /\ mainPc' = "join"
  /\ UNCHANGED <<queueVars, received, loopVars, pids_, motors, historyVars>>

Detached == TRUE
Joinable == loopPc = "done"

Join ==
  /\ mainPc = "join"
  /\ Joinable
  /\ mainPc' = "gone"
  /\ UNCHANGED <<queueVars, received, isNotDone_, loopVars, pids_, motors, historyVars>>

MainReturns == AddLock \/ AddReset \/ (\E f \in Fields : AddCopy(f)) \/ AddUnlock \/ Join
Main == (\E c \in Commands : Write(c)) \/ Stop \/ MainReturns

----------------------------------------------------------------------------
(* The thread of CommandsCycle: one iteration of StartCommands.            *)

LoopTest ==
  /\ loopPc = "test"
  /\ loopPc' = IF isNotDone_ THEN "get.lock" ELSE "done"
  /\ UNCHANGED <<queueVars, isNotDone_, mainVars, commands, pids_, motors, historyVars>>

GetLock ==
  /\ loopPc = "get.lock"
  /\ MutexFree
  /\ commandsMutex_' = "loop"
  /\ loopPc' = "get.count"
  /\ UNCHANGED <<commands_, requestsCount_, toCopy, isNotDone_, mainVars, commands,
                 pids_, motors, historyVars>>

(* ++requestsCount_, of a size_t *)
CountUnbounded == requestsCount_ + 1
Count == IF requestsCount_ + 1 = WRAP THEN 0 ELSE requestsCount_ + 1

GetCount ==
  /\ loopPc = "get.count"
  /\ requestsCount_' = Count
  /\ loopPc' = "get.expire"
  /\ UNCHANGED <<commandsMutex_, commands_, toCopy, isNotDone_, mainVars, commands,
                 pids_, motors, historyVars>>

ExpiredNever == FALSE
ExpiredLate == requestsCount_ = MAX_COUNT + 1
Expired == requestsCount_ = MAX_COUNT

GetExpire ==
  /\ loopPc = "get.expire"
  /\ commands_' = IF Expired THEN Whole(Neutral) ELSE commands_
  /\ toCopy' = Fields
  /\ loopPc' = "get.copy"
  /\ UNCHANGED <<commandsMutex_, requestsCount_, isNotDone_, mainVars, commands,
                 pids_, motors, historyVars>>

GetCopy(f) ==
  /\ loopPc = "get.copy"
  /\ f \in toCopy
  /\ commands' = [commands EXCEPT ![f] = commands_[f]]
  /\ toCopy' = toCopy \ {f}
  /\ UNCHANGED <<commandsMutex_, commands_, requestsCount_, isNotDone_, mainVars,
                 loopPc, pids_, motors, historyVars>>

(* ~lock_guard, and GetCommands returns; the copies of the settings and of *)
(* the sensors' data that follow change nothing the properties tell apart. *)
GetUnlock ==
  /\ loopPc = "get.copy"
  /\ toCopy = {}
  /\ commandsMutex_' = None
  /\ uses' = IF uses < MAX_COUNT THEN uses + 1 ELSE MAX_COUNT
  /\ loopPc' = "stabilize"
  /\ UNCHANGED <<commands_, requestsCount_, toCopy, isNotDone_, mainVars, commands,
                 pids_, motors, added>>

Stabilization == commands["Stabilization"] \in Stabilized

(* Set[PID]Coefficients and Calculate.  The addresses the former store are *)
(* read through by the latter only, in the cycle whose settings they are.  *)
Regulate(recompute) ==
  /\ loopPc = "stabilize"
  /\ Stabilization
  /\ pids_' = Calculate(pids_, recompute)
  /\ loopPc' = "send"
  /\ UNCHANGED <<queueVars, isNotDone_, mainVars, commands, motors, historyVars>>

DoNotRegulate ==
  /\ loopPc = "stabilize"
  /\ ~Stabilization
  /\ pids_' = Reset(pids_)
  /\ loopPc' = "send"
  /\ UNCHANGED <<queueVars, isNotDone_, mainVars, commands, motors, historyVars>>

SendMotorsStruct ==
  /\ loopPc = "send"
  /\ motors' = [command |-> commands,
                correction |-> IF Stabilization THEN Correction(pids_) ELSE {}]
  /\ loopPc' = "sleep"
  /\ UNCHANGED <<queueVars, isNotDone_, mainVars, commands, pids_, historyVars>>

(* usleep(PERIOD_US), and the end of the iteration's scope. *)
Sleep ==
  /\ loopPc = "sleep"
  /\ loopPc' = "test"
  /\ UNCHANGED <<queueVars, isNotDone_, mainVars, commands, pids_, motors, historyVars>>

Loop ==
  \/ LoopTest \/ GetLock \/ GetCount \/ GetExpire \/ (\E f \in Fields : GetCopy(f))
  \/ GetUnlock \/ (\E recompute \in BOOLEAN : Regulate(recompute)) \/ DoNotRegulate
  \/ SendMotorsStruct \/ Sleep

(* Both threads have ended. *)
Terminated == mainPc = "gone" /\ UNCHANGED vars

Next == Main \/ Loop \/ Terminated

(* The scheduler runs both threads; a call of the main thread that has     *)
(* begun goes on, and nothing makes the client or the destructor call.     *)
Fairness == WF_vars(Loop) /\ WF_vars(MainReturns)

Spec == Init /\ [][Next]_vars /\ Fairness
----------------------------------------------------------------------------
(* Properties.                                                             *)

Taken == loopPc \in {"stabilize", "send"}

(* A command is copied whole: neither the copy a cycle works on nor the    *)
(* queue, when no thread is inside it, mixes the fields of two commands    *)
(* (GetCommands and AddCommands copy under commandsMutex_).                *)
NeverTorn ==
  /\ Taken => \E c \in Commands : commands = Whole(c)
  /\ commandsMutex_ = None => \E c \in Commands : commands_ = Whole(c)

(* The queue holds the last command stored while fewer than MAX_COUNT      *)
(* cycles have asked for it, and the neutral command from then on, however *)
(* often the counter of GetCommands wraps: the MAX_COUNT-th of them gets   *)
(* the neutral one already, so MAX_COUNT - 1 work with the pilot's.        *)
StoredCommandExpires ==
  commandsMutex_ = None =>
    IF uses < MAX_COUNT
    THEN commands_ = Whole(added) /\ requestsCount_ = uses
    ELSE commands_ = Whole(Neutral)

(* The integral and the difference the regulator works with never reach    *)
(* back beyond the last cycle without stabilization.                       *)
RegulatorForgets == OfThisSession(pids_)

(* What the comment of StartCommands says of the cycle without             *)
(* stabilization, that it resets the parameters of the stabilization: no   *)
(* later correction depends on a sample from before it.                    *)
CorrectionForgets == motors # None => "earlier" \notin motors.correction

(* Nothing is sent to the motors once the destructor has returned.         *)
QuietOnceJoined == [][mainPc = "gone" => motors' = motors]_vars

(* The destructor returns: the thread sees isNotDone_ and is joined.       *)
DestructorReturns == mainPc = "join" ~> mainPc = "gone"

(* If the client stops sending commands, the motors are told to stop, and  *)
(* stay told.                                                              *)
FailSafe ==
  <>[](mainPc = "serving") =>
    <>[](motors # None /\ motors = [command |-> Whole(Neutral), correction |-> {}])

(* The command loop implements the dead man's switch.                      *)
DM == INSTANCE DeadMan WITH
  Commands <- {Whole(c) : c \in Commands},
  Neutral <- Whole(Neutral),
  latest <- Whole(added),
  age <- uses,
  pending <- IF Taken THEN commands ELSE None,
  motors <- IF motors = None THEN None ELSE motors.command

ImplementsDeadMan == DM!Spec
=============================================================================
