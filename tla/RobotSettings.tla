--------------------------- MODULE RobotSettings ---------------------------
(***************************************************************************)
(* RobotSettings: the settings of the motors and of the regulators, kept   *)
(* in a file and in memory.  The main thread validates what the client     *)
(* writes, truncates the file, writes it, parses what it wrote and copies  *)
(* it to settings_, where the thread of CommandsCycle reads it.  Between   *)
(* any two of these steps the process may end, or the power may.           *)
(*                                                                         *)
(* A RobotSettingsMessage is what its parser makes of the bytes: how many  *)
(* coefficients and regulators they hold, whether a coefficient is beyond  *)
(* the limit, whether pid_enabled is there, and which gains.               *)
(***************************************************************************)
EXTENDS Integers

CONSTANTS
  Messages,   \* the messages a client writes or that are found in the file
  Gains,      \* the values four regulators may be given
  Empty,      \* a file without bytes, or no file at all
  None        \* no message, no thread

MessageType == [thrusters : Nat, hand : Nat, tooLarge : BOOLEAN,
                pids : Nat, gains : Gains, enabled : BOOLEAN]

ASSUME SettingsAssumption ==
  /\ Messages \subseteq MessageType
  /\ Empty \notin Messages
  /\ None \notin Messages
  /\ None \notin {"main", "loop"}

VARIABLES
  pc,              \* where the main thread is
  data,            \* the argument of WriteValidate and Write
  file,            \* what the process finds in the file
  storage,         \* what has reached the storage
  settingsMutex_,  \* the thread that holds it, or None
  settings_,       \* RobotSettings::settings_
  toCopy,          \* the fields the thread that holds the mutex has to copy
  loopPc,          \* where the thread of CommandsCycle is
  settings,        \* its local copy
  reply,           \* what the last Read replied
  unsaved,         \* history: the last write did not reach the file
  acknowledged,    \* history: the last write, once it was answered with success
  lost             \* history: since then the process or the power ended, and
                   \* the write had not got as far as would have been needed

memoryVars == <<settingsMutex_, settings_, toCopy>>
fileVars == <<file, storage>>
loopVars == <<loopPc, settings>>
historyVars == <<unsaved, acknowledged, lost>>
vars == <<pc, data, fileVars, memoryVars, loopVars, reply, historyVars>>

----------------------------------------------------------------------------
(* RobotSettingsStruct, in the two parts the properties tell apart.        *)
Fields == {"motors", "regulators"}

Default ==
  [motors |-> [ThrustersNumber |-> 0, HandFreedom |-> 0, tooLarge |-> FALSE],
   regulators |-> "zero"]

ParseLastIndex(m) ==
  [motors |-> [ThrustersNumber |-> m.thrusters \div 6, HandFreedom |-> m.hand - 1,
               tooLarge |-> m.tooLarge],
   regulators |-> IF m.pids >= 4 THEN m.gains ELSE "undefined"]

(* ParseSettings: it reads four regulators, and what it reads beyond those *)
(* in the message is undefined.                                            *)
ParseSettings(m) ==
  [motors |-> [ThrustersNumber |-> m.thrusters \div 6, HandFreedom |-> m.hand,
               tooLarge |-> m.tooLarge],
   regulators |-> IF m.pids >= 4 THEN m.gains ELSE "undefined"]

GetSettingsFromDisk == IF file = Empty THEN Default ELSE ParseSettings(file)

AllSettings == {Default} \cup {ParseSettings(m) : m \in Messages}
Structs ==
  [motors : [ThrustersNumber : Nat, HandFreedom : Nat, tooLarge : BOOLEAN],
   regulators : Gains \cup {"zero", "undefined"}]

(* WriteValidate.  That the parser may have failed is not looked at; and   *)
(* tooLarge is the comparison with 100, which a NaN passes.                *)
AcceptedWithoutTotal(m) ==
  m.hand <= 4 /\ m.thrusters % 6 = 0 /\ ~m.tooLarge
Accepted(m) ==
  /\ m.hand <= 4
  /\ m.thrusters % 6 = 0
  /\ m.hand + m.thrusters \div 6 <= 12
  /\ ~m.tooLarge

(* The message Read makes up when there is nothing in the file. *)
DefaultMessage ==
  [thrusters |-> 48, hand |-> 1, tooLarge |-> FALSE, pids |-> 0, enabled |-> FALSE]

(* The bytes of t are the first of those of m: fields are written in the   *)
(* order of their numbers, pid_enabled last.                               *)
Prefix(t, m) ==
  /\ ~t.enabled
  /\ t.tooLarge => m.tooLarge
  /\ \/ t.thrusters < m.thrusters /\ t.hand = 0 /\ t.pids = 0
     \/ t.thrusters = m.thrusters /\ t.hand < m.hand /\ t.pids = 0
     \/ t.thrusters = m.thrusters /\ t.hand = m.hand /\ t.pids <= m.pids

TypeOK ==
  /\ pc \in {"start", "serving", "validate", "truncate", "write", "parse", "set", "return"}
  /\ data \in Messages \cup {None}
  /\ file \in Messages \cup {Empty}
  /\ storage \in Messages \cup {Empty}
  /\ settingsMutex_ \in {"main", "loop", None}
  /\ settings_ \in Structs
  /\ toCopy \subseteq Fields
  /\ loopPc \in {"lock", "copy", "use"}
  /\ settings \in Structs
  /\ reply \in Messages \cup {None, DefaultMessage}
  /\ unsaved \in BOOLEAN
  /\ acknowledged \in Messages \cup {None}
  /\ lost \in BOOLEAN

(* The robot is started for the first time. *)
Init ==
  /\ pc = "start"
  /\ data = None
  /\ file = Empty
  /\ storage = Empty
  /\ settingsMutex_ = None
  /\ settings_ = Default
  /\ toCopy = {}
  /\ loopPc = "lock"
  /\ settings = Default
  /\ reply = None
  /\ unsaved = FALSE
  /\ acknowledged = None
  /\ lost = FALSE

----------------------------------------------------------------------------
(* The main thread.                                                        *)

(* The constructor; nothing is validated. *)
Start ==
  /\ pc = "start"
  /\ settings_' = GetSettingsFromDisk
  /\ pc' = "serving"
  /\ UNCHANGED <<data, fileVars, settingsMutex_, toCopy, loopVars, reply, historyVars>>

Request(m) ==
  /\ pc = "serving"
  /\ data' = m
  /\ pc' = "validate"
  /\ UNCHANGED <<fileVars, memoryVars, loopVars, reply, historyVars>>

WriteValidate ==
  /\ pc = "validate"
  /\ pc' = IF Accepted(data) THEN "truncate" ELSE "serving"
  /\ UNCHANGED <<data, fileVars, memoryVars, loopVars, reply, historyVars>>

(* Nothing is in the file yet, and nobody was told of anything. *)
BeginUnsaved ==
  /\ unsaved' = TRUE
  /\ acknowledged' = None
  /\ lost' = FALSE

(* The file is opened, and what was in it is gone. *)
Truncate ==
  /\ pc = "truncate"
  /\ file' = Empty
  /\ BeginUnsaved
  /\ pc' = "write"
  /\ UNCHANGED <<data, storage, memoryVars, loopVars, reply>>

(* It cannot be opened, which goes unnoticed. *)
TruncateFails ==
  /\ pc = "truncate"
  /\ BeginUnsaved
  /\ pc' = "parse"
  /\ UNCHANGED <<data, fileVars, memoryVars, loopVars, reply>>

WrittenNothing == Empty
Written == data

(* ~fstream writes what file.write put in its buffer. *)
WriteFile ==
  /\ pc = "write"
  /\ file' = Written
  /\ unsaved' = FALSE
  /\ pc' = "parse"
  /\ UNCHANGED <<data, storage, memoryVars, loopVars, reply, acknowledged, lost>>

(* It cannot, or not all of it, the storage being full, which goes         *)
(* unnoticed.                                                              *)
WriteFileFails ==
  /\ pc = "write"
  /\ file' \in {Empty} \cup {t \in Messages : Prefix(t, data)}
  /\ pc' = "parse"
  /\ UNCHANGED <<data, storage, memoryVars, loopVars, reply, historyVars>>

NoMutex == TRUE
MutexFree == settingsMutex_ = None

(* ParseSettings of the data; SetSettings takes the mutex. *)
SetLock ==
  /\ pc = "parse"
  /\ MutexFree
  /\ settingsMutex_' = "main"
  /\ toCopy' = Fields
  /\ pc' = "set"
  /\ UNCHANGED <<data, fileVars, settings_, loopVars, reply, historyVars>>

CopiedMotorsOnly(f) == IF f = "motors" THEN ParseSettings(data)[f] ELSE settings_[f]
Copied(f) == ParseSettings(data)[f]

SetCopy(f) ==
  /\ pc = "set"
  /\ f \in toCopy
  /\ settings_' = [settings_ EXCEPT ![f] = Copied(f)]
  /\ toCopy' = toCopy \ {f}
  /\ UNCHANGED <<pc, data, fileVars, settingsMutex_, loopVars, reply, historyVars>>

SetUnlock ==
  /\ pc = "set"
  /\ toCopy = {}
  /\ settingsMutex_' = None
  /\ pc' = "return"
  /\ UNCHANGED <<data, fileVars, settings_, toCopy, loopVars, reply, historyVars>>

(* Write returns and WriteData answers NoContent, which is success, also   *)
(* when nothing or only a part of the data is in the file.                 *)
Return ==
  /\ pc = "return"
  /\ acknowledged' = data
  /\ pc' = "serving"
  /\ UNCHANGED <<data, fileVars, memoryVars, loopVars, reply, unsaved, lost>>

Read ==
  /\ pc = "serving"
  /\ reply' = IF file = Empty THEN DefaultMessage ELSE file
  /\ UNCHANGED <<pc, data, fileVars, memoryVars, loopVars, historyVars>>

Main ==
  \/ Start \/ (\E m \in Messages : Request(m)) \/ WriteValidate
  \/ Truncate \/ TruncateFails \/ WriteFile \/ WriteFileFails
  \/ SetLock \/ (\E f \in Fields : SetCopy(f)) \/ SetUnlock \/ Return \/ Read

----------------------------------------------------------------------------
(* GetSettings, in the thread of CommandsCycle, which the last service's   *)
(* constructor starts.                                                     *)

GetLock ==
  /\ pc # "start"
  /\ loopPc \in {"lock", "use"}
  /\ MutexFree
  /\ settingsMutex_' = "loop"
  /\ toCopy' = Fields
  /\ loopPc' = "copy"
  /\ UNCHANGED <<pc, data, fileVars, settings_, settings, reply, historyVars>>

GetCopy(f) ==
  /\ loopPc = "copy"
  /\ f \in toCopy
  /\ settings' = [settings EXCEPT ![f] = settings_[f]]
  /\ toCopy' = toCopy \ {f}
  /\ UNCHANGED <<pc, data, fileVars, settingsMutex_, settings_, loopPc, reply, historyVars>>

GetUnlock ==
  /\ loopPc = "copy"
  /\ toCopy = {}
  /\ settingsMutex_' = None
  /\ loopPc' = "use"
  /\ UNCHANGED <<pc, data, fileVars, settings_, toCopy, settings, reply, historyVars>>

Loop == GetLock \/ (\E f \in Fields : GetCopy(f)) \/ GetUnlock

----------------------------------------------------------------------------
(* The process ends, of whatever, and is started again: of its memory      *)
(* nothing is left.                                                        *)
MemoryLost ==
  /\ pc' = "start"
  /\ data' = None
  /\ settingsMutex_' = None
  /\ settings_' = Default
  /\ toCopy' = {}
  /\ loopPc' = "lock"
  /\ settings' = Default
  /\ reply' = None

Crash ==
  /\ pc # "start"
  /\ MemoryLost
  /\ lost' = (lost \/ unsaved)
  /\ unsaved' = FALSE
  /\ UNCHANGED <<fileVars, acknowledged>>

(* The kernel writes the file back. *)
Sync ==
  /\ storage # file
  /\ storage' = file
  /\ UNCHANGED <<pc, data, file, memoryVars, loopVars, reply, historyVars>>

(* What was not written back is lost, in whole or in part. *)
PowerLoss ==
  /\ MemoryLost
  /\ file' \in {file, storage}
       \cup (IF file = storage THEN {}
             ELSE {Empty} \cup {t \in Messages : file # Empty /\ Prefix(t, file)})
  /\ storage' = file'
  /\ lost' = (lost \/ unsaved \/ file # storage)
  /\ unsaved' = FALSE
  /\ UNCHANGED acknowledged

Next == Main \/ Loop \/ Crash \/ Sync \/ PowerLoss

Spec == Init /\ [][Next]_vars
----------------------------------------------------------------------------
(* Properties.                                                             *)

(* The motors there are channels for, as WriteValidate means to have it. *)
Fits(s) == s.ThrustersNumber + s.HandFreedom <= 12 /\ s.HandFreedom <= 4 /\ ~s.tooLarge

(* Settings in use never have more motors than MotorsStruct has channels,  *)
(* so that the hand's, which fill it from its end, leave the thrusters'    *)
(* alone; nor more hand coefficients than the client may set, nor one that *)
(* is too large: also for settings found in a file that was torn, which    *)
(* are not validated again.                                                *)
SettingsFit == Fits(settings_.motors) /\ Fits(settings.motors)

(* Between two requests the file and the memory hold the same settings,    *)
(* unless the write to the file failed.                                    *)
FileAgrees == pc = "serving" /\ ~unsaved => settings_ = GetSettingsFromDisk

(* The settings of a write that was answered with success are in use until *)
(* the next write begins: also when the file did not take them, as long as *)
(* the process lives; after its end if the whole of them had reached the   *)
(* file; and after a loss of power if they had been written back.          *)
AcknowledgedSurvives ==
  pc = "serving" /\ acknowledged # None /\ ~lost => settings_ = ParseSettings(acknowledged)

(* The settings the next reader will find, which are those of the file     *)
(* until the constructor has run and those of the message while it is      *)
(* copied.                                                                 *)
InForce ==
  CASE pc = "start" -> GetSettingsFromDisk
    [] pc = "set" -> ParseSettings(data)
    [] OTHER -> settings_

Asked == IF pc \in {"write", "parse"} THEN {ParseSettings(data)} ELSE {}
Taken == IF loopPc = "use" THEN settings ELSE None
Told == IF acknowledged = None THEN {} ELSE {ParseSettings(acknowledged)}

(* How far those in force have come: what a restart would find is not them *)
(* while they are only in memory.                                          *)
Reach ==
  IF unsaved \/ pc \in {"write", "parse"} THEN "memory"
  ELSE IF file = storage THEN "storage" ELSE "file"

DR == INSTANCE DurableRegister WITH
  Values <- {s \in AllSettings : Fits(s.motors)},
  value <- InForce,
  asked <- Asked,
  taken <- Taken,
  told <- Told,
  reach <- Reach

(* To its clients and to the command loop, a file, two copies and a mutex  *)
(* are one register: the settings of an accepted write replace the others, *)
(* and are taken, in one step, never half of one message and half of       *)
(* another; success is answered of what is in force; only the client's     *)
(* next write changes it, unless the process ends before it reached the    *)
(* file or the power before it reached the storage, and whatever one of    *)
(* these leaves fits the motors.  Success is answered as well of what      *)
(* never reached the file.                                                 *)
ImplementsDurableRegister == DR!Spec

(* What RobotSettingsMessage.proto requires of every message: pid_enabled. *)
RepliesAreComplete == reply # None => reply.enabled
=============================================================================
