------------------------ MODULE RobotSettings_proofs ------------------------
(***************************************************************************)
(* Theorems about RobotSettings, for every set of messages.                *)
(***************************************************************************)
EXTENDS RobotSettings, TLAPS

(* What is being written is a message, and from WriteValidate on it has    *)
(* been accepted.                                                          *)
DataInv ==
  /\ pc \notin {"start", "serving"} => data \in Messages
  /\ pc \in {"truncate", "write", "parse", "set", "return"} => Accepted(data)

(* Who is copying settings_. *)
LockInv ==
  /\ settingsMutex_ = "main" <=> pc = "set"
  /\ settingsMutex_ = "loop" <=> loopPc = "copy"
  /\ pc = "start" => loopPc = "lock"

(* The settings and the local copy of the loop, field by field. *)
CopyInv ==
  /\ pc # "set" => settings_ \in AllSettings
  /\ pc = "set" => \A f \in Fields \ toCopy : settings_[f] = ParseSettings(data)[f]
  /\ pc = "return" => settings_ = ParseSettings(data)
  /\ loopPc = "copy" => \A f \in Fields \ toCopy : settings[f] = settings_[f]
  /\ loopPc = "use" => settings \in AllSettings

(* The file is what memory holds, or what it is about to hold, unless the  *)
(* last write to it failed.                                                *)
FileInv ==
  /\ pc \in {"serving", "validate", "truncate"} /\ ~unsaved => settings_ = GetSettingsFromDisk
  /\ pc = "write" => unsaved
  /\ pc \in {"parse", "set", "return"} /\ ~unsaved => file = data

(* What a message and the motors it becomes have in common with their      *)
(* torn remains.                                                           *)
Small(m) == m.hand <= 4 /\ m.hand + m.thrusters \div 6 <= 12 /\ ~m.tooLarge

FitInv ==
  /\ file # Empty => Small(file)
  /\ storage # Empty => Small(storage)
  /\ Fits(settings_.motors)
  /\ Fits(settings.motors)

Inv == TypeOK /\ DataInv /\ LockInv /\ CopyInv /\ FileInv /\ FitInv

(* What ParseSettings makes of a message is a RobotSettingsStruct. *)
LEMMA ParsedType == \A m \in Messages : ParseSettings(m) \in Structs
BY SettingsAssumption DEF ParseSettings, Structs, MessageType

(* A struct is known by its two fields. *)
LEMMA CopiedWhole ==
  ASSUME NEW s \in Structs, NEW r \in Structs, \A f \in Fields : s[f] = r[f]
  PROVE  s = r
BY DEF Structs, Fields

(* What is accepted fits the arrays it is parsed into. *)
LEMMA AcceptedFits ==
  ASSUME NEW m \in Messages, Accepted(m)
  PROVE  Small(m) /\ Fits(ParseSettings(m).motors)
BY SettingsAssumption DEF Accepted, Small, Fits, ParseSettings, MessageType

(* A torn file holds no more of anything than the file that was written.   *)
LEMMA TornIsSmall ==
  ASSUME NEW m \in Messages, NEW t \in Messages, Small(m), Prefix(t, m)
  PROVE  Small(t)
<1>1. /\ m.thrusters \in Nat /\ t.thrusters \in Nat
      /\ m.hand \in Nat /\ t.hand \in Nat
      /\ m.tooLarge \in BOOLEAN /\ t.tooLarge \in BOOLEAN
  BY SettingsAssumption DEF MessageType
<1>2. t.thrusters <= m.thrusters /\ t.hand <= m.hand
  BY <1>1 DEF Prefix
<1>3. t.thrusters \div 6 <= m.thrusters \div 6
  BY <1>1, <1>2
<1>4. ~t.tooLarge
  BY DEF Prefix, Small
<1> QED
  BY <1>1, <1>2, <1>3, <1>4 DEF Small

(* The settings used when no file can be read fit. *)
LEMMA DefaultType == Default \in Structs \cap AllSettings /\ Fits(Default.motors)
BY DEF Default, Structs, AllSettings, Fits

(* Settings parsed from a small file fit the arrays. *)
LEMMA FoundFits ==
  ASSUME NEW m \in Messages, Small(m)
  PROVE  ParseSettings(m) \in Structs \cap AllSettings /\ Fits(ParseSettings(m).motors)
<1>1. ParseSettings(m) \in Structs \cap AllSettings
  BY ParsedType DEF AllSettings
<1>2. Fits(ParseSettings(m).motors)
  BY SettingsAssumption DEF Small, Fits, ParseSettings, MessageType
<1> QED
  BY <1>1, <1>2

(* Those of the file do, also of the file that a loss leaves. *)
LEMMA LoadedFits ==
  /\ TypeOK /\ FitInv => /\ GetSettingsFromDisk \in Structs \cap AllSettings
                        /\ Fits(GetSettingsFromDisk.motors)
  /\ (TypeOK /\ FitInv)' => /\ GetSettingsFromDisk' \in AllSettings
                           /\ Fits(GetSettingsFromDisk'.motors)
BY FoundFits, DefaultType DEF GetSettingsFromDisk, TypeOK, FitInv

(* The service starts with the mutex free and nothing copied. *)
LEMMA InitInv == Init => Inv
BY DefaultType, SettingsAssumption
DEF Init, Inv, TypeOK, DataInv, LockInv, CopyInv, FileInv, FitInv, GetSettingsFromDisk

(* The end of the process, whatever becomes of the file. *)
LEMMA LossInv ==
  ASSUME Inv, MemoryLost, unsaved' = FALSE, file' \in Messages \cup {Empty},
         storage' \in Messages \cup {Empty},
         file' # Empty => Small(file'), storage' # Empty => Small(storage'),
         acknowledged' = acknowledged, lost' \in BOOLEAN
  PROVE  Inv'
<1> USE DefaultType, SettingsAssumption DEF MemoryLost
<1>1. TypeOK'
  BY DEF Inv, TypeOK
<1>2. DataInv' /\ LockInv' /\ CopyInv'
  BY DEF DataInv, LockInv, CopyInv
<1>3. FileInv'
  BY DEF FileInv
<1>4. FitInv'
  BY DEF FitInv
<1> QED
  BY <1>1, <1>2, <1>3, <1>4 DEF Inv

(* No step of either thread, of the kernel or of the power breaks it. *)
LEMMA NextInv == Inv /\ [Next]_vars => Inv'
<1> SUFFICES ASSUME Inv, [Next]_vars PROVE Inv'
  OBVIOUS
<1> USE SettingsAssumption DEF vars, fileVars, memoryVars, loopVars, historyVars
<1>1. CASE Start
  <2> USE <1>1, LoadedFits DEF Start
  <2>1. TypeOK' /\ FitInv'
    BY DEF Inv, TypeOK, FitInv
  <2>2. DataInv' /\ LockInv' /\ CopyInv'
    BY DEF Inv, DataInv, LockInv, CopyInv
  <2>3. FileInv'
    BY DEF Inv, FileInv, GetSettingsFromDisk
  <2> QED
    BY <2>1, <2>2, <2>3 DEF Inv
<1>2. CASE \E m \in Messages : Request(m)
  BY <1>2 DEF Request, Inv, TypeOK, DataInv, LockInv, CopyInv, FileInv, FitInv,
              GetSettingsFromDisk
<1>3. CASE WriteValidate
  BY <1>3 DEF WriteValidate, Inv, TypeOK, DataInv, LockInv, CopyInv, FileInv, FitInv,
              GetSettingsFromDisk
<1>4. CASE Truncate
  BY <1>4 DEF Truncate, BeginUnsaved, Inv, TypeOK, DataInv, LockInv, CopyInv, FileInv, FitInv
<1>5. CASE TruncateFails
  BY <1>5 DEF TruncateFails, BeginUnsaved, Inv, TypeOK, DataInv, LockInv, CopyInv, FileInv, FitInv
<1>6. CASE WriteFile
  <2>1. data \in Messages /\ Small(data)
    BY <1>6, AcceptedFits DEF WriteFile, Inv, DataInv
  <2> QED
    BY <1>6, <2>1 DEF WriteFile, Written, Inv, TypeOK, DataInv, LockInv, CopyInv, FileInv,
                      FitInv
<1>7. CASE WriteFileFails
  <2>1. data \in Messages /\ Small(data)
    BY <1>7, AcceptedFits DEF WriteFileFails, Inv, DataInv
  <2>2. file' \in Messages \cup {Empty} /\ (file' # Empty => Small(file'))
    BY <1>7, <2>1, TornIsSmall DEF WriteFileFails
  <2> QED
    BY <1>7, <2>2 DEF WriteFileFails, Inv, TypeOK, DataInv, LockInv, CopyInv, FileInv, FitInv
<1>8. CASE SetLock
  BY <1>8 DEF SetLock, MutexFree, Inv, TypeOK, DataInv, LockInv, CopyInv, FileInv, FitInv
<1>9. CASE \E f \in Fields : SetCopy(f)
  <2>1. PICK f \in Fields : SetCopy(f)
    BY <1>9
  <2>2. /\ data \in Messages
        /\ ParseSettings(data) \in Structs
        /\ Fits(ParseSettings(data).motors)
    BY <2>1, ParsedType, AcceptedFits DEF SetCopy, Inv, DataInv
  <2>3. /\ settings_' \in Structs
        /\ settings_'[f] = ParseSettings(data)[f]
        /\ \A g \in Fields \ {f} : settings_'[g] = settings_[g]
    <3>1. settings_' = [settings_ EXCEPT ![f] = ParseSettings(data)[f]]
      BY <2>1 DEF SetCopy, Copied
    <3>2. settings_ \in Structs
      BY DEF Inv, TypeOK
    <3>3. CASE f = "motors"
      BY <2>2, <3>1, <3>2, <3>3 DEF Structs, Fields
    <3>4. CASE f = "regulators"
      BY <2>2, <3>1, <3>2, <3>4 DEF Structs, Fields
    <3> QED
      BY <2>1, <3>3, <3>4 DEF Fields
  <2>4. TypeOK' /\ DataInv' /\ LockInv' /\ FileInv'
    BY <2>1, <2>3 DEF SetCopy, Inv, TypeOK, DataInv, LockInv, FileInv
  <2>5. CopyInv'
    BY <2>1, <2>3 DEF SetCopy, Inv, LockInv, CopyInv
  <2>6. FitInv'
    <3>1. Fits(settings_.motors) /\ Fits(settings_'.motors)
      BY <2>2, <2>3 DEF Inv, FitInv, Fields
    <3> QED
      BY <2>1, <3>1 DEF SetCopy, Inv, FitInv
  <2> QED
    BY <2>4, <2>5, <2>6 DEF Inv
<1>10. CASE SetUnlock
  <2>1. data \in Messages /\ ParseSettings(data) \in Structs
    BY <1>10, ParsedType DEF SetUnlock, Inv, DataInv
  <2>2. settings_ = ParseSettings(data)
    BY <1>10, <2>1, CopiedWhole DEF SetUnlock, Inv, TypeOK, CopyInv
  <2>3. settings_ \in AllSettings
    BY <2>1, <2>2 DEF AllSettings
  <2> QED
    BY <1>10, <2>2, <2>3
    DEF SetUnlock, Inv, TypeOK, DataInv, LockInv, CopyInv, FileInv, FitInv
<1>11. CASE Return
  <2>1. data \in Messages /\ data # Empty /\ data # None
    BY <1>11 DEF Return, Inv, DataInv
  <2> QED
    BY <1>11, <2>1 DEF Return, Inv, TypeOK, DataInv, LockInv, CopyInv, FileInv, FitInv,
                       GetSettingsFromDisk
<1>12. CASE Read
  BY <1>12 DEF Read, Inv, TypeOK, DataInv, LockInv, CopyInv, FileInv, FitInv,
               GetSettingsFromDisk
<1>13. CASE GetLock
  BY <1>13 DEF GetLock, MutexFree, Inv, TypeOK, DataInv, LockInv, CopyInv, FileInv, FitInv,
               GetSettingsFromDisk
<1>14. CASE \E f \in Fields : GetCopy(f)
  <2>1. PICK f \in Fields : GetCopy(f)
    BY <1>14
  <2>2. /\ settings' \in Structs
        /\ settings'[f] = settings_[f]
        /\ \A g \in Fields \ {f} : settings'[g] = settings[g]
    <3>1. settings' = [settings EXCEPT ![f] = settings_[f]]
      BY <2>1 DEF GetCopy
    <3>2. settings \in Structs /\ settings_ \in Structs
      BY DEF Inv, TypeOK
    <3>3. CASE f = "motors"
      BY <3>1, <3>2, <3>3 DEF Structs, Fields
    <3>4. CASE f = "regulators"
      BY <3>1, <3>2, <3>4 DEF Structs, Fields
    <3> QED
      BY <2>1, <3>3, <3>4 DEF Fields
  <2>3. TypeOK' /\ DataInv' /\ LockInv' /\ FileInv'
    BY <2>1, <2>2 DEF GetCopy, Inv, TypeOK, DataInv, LockInv, FileInv, GetSettingsFromDisk
  <2>4. CopyInv'
    BY <2>1, <2>2 DEF GetCopy, Inv, LockInv, CopyInv
  <2>5. FitInv'
    <3>1. Fits(settings.motors) /\ Fits(settings'.motors)
      BY <2>2 DEF Inv, FitInv, Fields
    <3> QED
      BY <2>1, <3>1 DEF GetCopy, Inv, FitInv
  <2> QED
    BY <2>3, <2>4, <2>5 DEF Inv
<1>15. CASE GetUnlock
  <2>1. settings = settings_
    BY <1>15, CopiedWhole DEF GetUnlock, Inv, TypeOK, CopyInv
  <2>2. settings_ \in AllSettings
    BY <1>15 DEF GetUnlock, Inv, LockInv, CopyInv
  <2> QED
    BY <1>15, <2>1, <2>2 DEF GetUnlock, Inv, TypeOK, DataInv, LockInv, CopyInv, FileInv,
                             FitInv, GetSettingsFromDisk
<1>16. CASE Crash
  BY <1>16, LossInv DEF Crash, Inv, TypeOK, FitInv
<1>17. CASE Sync
  BY <1>17 DEF Sync, Inv, TypeOK, DataInv, LockInv, CopyInv, FileInv, FitInv,
               GetSettingsFromDisk
<1>18. CASE PowerLoss
  <2>1. file' \in Messages \cup {Empty} /\ (file' # Empty => Small(file'))
    <3>1. CASE file' \in {file, storage, Empty}
      BY <3>1 DEF Inv, TypeOK, FitInv
    <3>2. CASE file # Empty /\ \E t \in Messages : Prefix(t, file) /\ file' = t
      BY <3>2, TornIsSmall DEF Inv, TypeOK, FitInv
    <3> QED
      BY <1>18, <3>1, <3>2 DEF PowerLoss
  <2> QED
    BY <1>18, <2>1, LossInv DEF PowerLoss, Inv, TypeOK
<1>19. CASE UNCHANGED vars
  BY <1>19 DEF Inv, TypeOK, DataInv, LockInv, CopyInv, FileInv, FitInv, GetSettingsFromDisk
<1> QED
  BY <1>1, <1>2, <1>3, <1>4, <1>5, <1>6, <1>7, <1>8, <1>9, <1>10, <1>11, <1>12, <1>13,
     <1>14, <1>15, <1>16, <1>17, <1>18, <1>19 DEF Next, Main, Loop

(* The invariant holds of every state. *)
LEMMA InvHolds == Spec => []Inv
BY InitInv, NextInv, PTL DEF Spec

(* What was answered with success is what the next reader will find, in    *)
(* memory or in the file: until another write begins, or until the process *)
(* or the power ends before it had come far enough.                        *)
ToldInv ==
  /\ acknowledged # None => pc \in {"start", "serving", "validate", "truncate"}
  /\ acknowledged # None /\ ~lost => InForce = ParseSettings(acknowledged)

(* At the start nothing was. *)
LEMMA InitTold == Init => ToldInv
BY DEF Init, ToldInv

(* No step takes it away. *)
LEMMA NextTold == Inv /\ ToldInv /\ [Next]_vars => ToldInv'
<1> SUFFICES ASSUME Inv, ToldInv, [Next]_vars PROVE ToldInv'
  OBVIOUS
<1> USE DEF fileVars, memoryVars, loopVars, historyVars
<1>1. CASE Start \/ (\E m \in Messages : Request(m)) \/ WriteValidate \/ Read
  <2>1. InForce' = InForce /\ UNCHANGED <<acknowledged, lost>>
    BY <1>1 DEF Start, Request, WriteValidate, Read, InForce
  <2>2. acknowledged # None => pc' \in {"start", "serving", "validate", "truncate"}
    BY <1>1 DEF Start, Request, WriteValidate, Read, ToldInv
  <2> QED
    BY <2>1, <2>2 DEF ToldInv
<1>2. CASE Truncate \/ TruncateFails
  BY <1>2 DEF Truncate, TruncateFails, BeginUnsaved, ToldInv
<1>3. CASE WriteFile \/ WriteFileFails \/ SetLock \/ (\E f \in Fields : SetCopy(f)) \/ SetUnlock
  <2>1. acknowledged = None /\ acknowledged' = None
    BY <1>3 DEF WriteFile, WriteFileFails, SetLock, SetCopy, SetUnlock, ToldInv
  <2> QED
    BY <2>1 DEF ToldInv
<1>4. CASE Return
  BY <1>4 DEF Return, Inv, CopyInv, InForce, ToldInv
<1>5. CASE Loop
  <2>1. UNCHANGED <<pc, acknowledged, lost>>
    BY <1>5 DEF Loop, GetLock, GetCopy, GetUnlock
  <2>2. InForce' = InForce
    BY <1>5 DEF Loop, GetLock, GetCopy, GetUnlock, InForce, GetSettingsFromDisk
  <2> QED
    BY <2>1, <2>2 DEF ToldInv
<1>6. CASE Crash \/ PowerLoss
  <2>1. acknowledged' = acknowledged /\ pc' = "start"
    BY <1>6 DEF Crash, PowerLoss, MemoryLost
  <2>2. ~lost' => ~lost /\ ~unsaved /\ file' = file
    BY <1>6 DEF Crash, PowerLoss
  <2>3. acknowledged # None /\ ~unsaved => InForce = GetSettingsFromDisk
    BY DEF Inv, FileInv, ToldInv, InForce
  <2>4. file' = file => InForce' = GetSettingsFromDisk
    BY <2>1 DEF InForce, GetSettingsFromDisk
  <2>5. acknowledged' # None /\ ~lost' => InForce' = ParseSettings(acknowledged')
    BY <2>1, <2>2, <2>3, <2>4 DEF ToldInv
  <2> QED
    BY <2>1, <2>5 DEF ToldInv
<1>7. CASE Sync
  <2>1. UNCHANGED <<pc, acknowledged, lost>> /\ InForce' = InForce
    BY <1>7 DEF Sync, InForce, GetSettingsFromDisk
  <2> QED
    BY <2>1 DEF ToldInv
<1>8. CASE UNCHANGED vars
  BY <1>8 DEF vars, ToldInv, InForce, GetSettingsFromDisk
<1> QED
  BY <1>1, <1>2, <1>3, <1>4, <1>5, <1>6, <1>7, <1>8 DEF Next, Main

(* It holds of every state. *)
LEMMA ToldHolds == Spec => []ToldInv
BY InitTold, InvHolds, NextTold, PTL DEF Spec

(* Every variable keeps its type. *)
THEOREM TypeCorrect == Spec => []TypeOK
<1>1. Inv => TypeOK
  BY DEF Inv
<1> QED
  BY <1>1, InvHolds, PTL

(* Settings in use fit the twelve channels and the arrays, also when they  *)
(* come from a file that a loss of power tore: WriteValidate bounds what   *)
(* is written, and what is torn is bounded by what was written.            *)
THEOREM SettingsAlwaysFit == Spec => []SettingsFit
<1>1. Inv => SettingsFit
  BY DEF Inv, FitInv, Fits, SettingsFit
<1> QED
  BY <1>1, InvHolds, PTL

(* Memory and file agree between requests unless a write to it failed.     *)
THEOREM FileAndMemoryAgree == Spec => []FileAgrees
<1>1. Inv => FileAgrees
  BY DEF Inv, FileInv, FileAgrees
<1> QED
  BY <1>1, InvHolds, PTL

(* What was answered with success is in use until the next write, except   *)
(* after the end of a process whose file did not take it, and after a loss *)
(* of power before it had been written back.                               *)
THEOREM AcknowledgedIsDurable == Spec => []AcknowledgedSurvives
<1>1. ToldInv => AcknowledgedSurvives
  BY DEF ToldInv, InForce, AcknowledgedSurvives
<1> QED
  BY <1>1, ToldHolds, PTL

(* Every step of the two threads, of the kernel and of the power is a step *)
(* of the register or leaves it alone.                                     *)
THEOREM RefinesDurableRegister == Spec => ImplementsDurableRegister
<1> USE SettingsAssumption DEF fileVars, memoryVars, loopVars, historyVars
<1>1. Init => DR!Init
  BY DEF Init, DR!Init, InForce, Asked, Taken, Told, Reach, GetSettingsFromDisk
<1>2. Inv /\ Inv' /\ ToldInv /\ [Next]_vars => [DR!Next]_DR!vars
  <2> SUFFICES ASSUME Inv, Inv', ToldInv, [Next]_vars PROVE DR!Next \/ UNCHANGED DR!vars
    OBVIOUS
  <2> USE DEF DR!vars
  <2>1. CASE Start
    BY <2>1 DEF Start, InForce, Asked, Taken, Told, Reach, Inv, LockInv
  <2>2. CASE (\E m \in Messages : Request(m)) \/ WriteValidate \/ Read
    BY <2>2 DEF Request, WriteValidate, Read, InForce, Asked, Taken, Told, Reach
  <2>3. CASE Truncate \/ TruncateFails
    <3>1. data \in Messages /\ Accepted(data)
      BY <2>3 DEF Truncate, TruncateFails, Inv, DataInv
    <3>2. ParseSettings(data) \in AllSettings /\ Fits(ParseSettings(data).motors)
      BY <3>1, AcceptedFits DEF AllSettings
    <3>3. InForce' = InForce /\ Taken' = Taken
      BY <2>3 DEF Truncate, TruncateFails, InForce, Taken
    <3>4. pc' \in {"write", "parse"} /\ data' = data /\ acknowledged' = None
      BY <2>3 DEF Truncate, TruncateFails, BeginUnsaved
    <3>5. DR!Ask(ParseSettings(data))
      BY <3>3, <3>4 DEF DR!Ask, Asked, Told, Reach
    <3> QED
      BY <3>2, <3>5 DEF DR!Next
  <2>4. CASE WriteFile \/ WriteFileFails
    <3>1. InForce' = InForce /\ Asked' = Asked /\ Taken' = Taken /\ Told' = Told
      BY <2>4 DEF WriteFile, WriteFileFails, InForce, Asked, Taken, Told
    <3>2. Reach = "memory" /\ Reach' = "memory"
      BY <2>4 DEF WriteFile, WriteFileFails, Reach
    <3> QED
      BY <3>1, <3>2
  <2>5. CASE SetLock
    <3>1. Told = {}
      BY <2>5 DEF SetLock, ToldInv, Told
    <3>2. Reach' \in {"memory", "file", "storage"}
      BY DEF Reach
    <3>3. DR!Change
      BY <2>5, <3>1, <3>2 DEF SetLock, DR!Change, InForce, Asked, Taken, Told
    <3> QED
      BY <3>3 DEF DR!Next
  <2>6. CASE \E f \in Fields : SetCopy(f)
    BY <2>6 DEF SetCopy, InForce, Asked, Taken, Told, Reach
  <2>7. CASE SetUnlock
    <3>1. settings_' = ParseSettings(data)
      BY <2>7 DEF SetUnlock, Inv, CopyInv
    <3> QED
      BY <2>7, <3>1 DEF SetUnlock, InForce, Asked, Taken, Told, Reach
  <2>8. CASE Return
    <3>1. data # None /\ settings_ = ParseSettings(data)
      BY <2>8 DEF Return, Inv, DataInv, CopyInv
    <3>2. Told' = {InForce}
      BY <2>8, <3>1 DEF Return, Told, InForce
    <3>3. DR!Tell
      BY <2>8, <3>2 DEF Return, DR!Tell, InForce, Asked, Taken, Reach
    <3> QED
      BY <3>3 DEF DR!Next
  <2>9. CASE GetLock
    <3>1. DR!Release
      BY <2>9 DEF GetLock, DR!Release, InForce, Asked, Taken, Told, Reach
    <3> QED
      BY <3>1 DEF DR!Next
  <2>10. CASE \E f \in Fields : GetCopy(f)
    BY <2>10 DEF GetCopy, InForce, Asked, Taken, Told, Reach, GetSettingsFromDisk
  <2>11. CASE GetUnlock
    <3>1. settings = settings_
      BY <2>11, CopiedWhole DEF GetUnlock, Inv, TypeOK, CopyInv
    <3>2. InForce = settings_
      BY <2>11 DEF GetUnlock, InForce, Inv, LockInv
    <3>3. DR!Take
      BY <2>11, <3>1, <3>2
      DEF GetUnlock, DR!Take, InForce, Asked, Taken, Told, Reach, GetSettingsFromDisk
    <3> QED
      BY <3>3 DEF DR!Next
  <2>12. CASE Sync
    <3>1. UNCHANGED <<InForce, Asked, Taken, Told>>
      BY <2>12 DEF Sync, InForce, Asked, Taken, Told, GetSettingsFromDisk
    <3>2. CASE unsaved \/ pc \in {"write", "parse"}
      <4>1. Reach = "memory" /\ Reach' = "memory"
        BY <2>12, <3>2 DEF Sync, Reach
      <4> QED
        BY <3>1, <4>1
    <3>3. CASE ~(unsaved \/ pc \in {"write", "parse"})
      <4>1. Reach = "file" /\ Reach' = "storage"
        BY <2>12, <3>3 DEF Sync, Reach
      <4>2. DR!Keep
        BY <3>1, <4>1 DEF DR!Keep
      <4> QED
        BY <4>2 DEF DR!Next
    <3> QED
      BY <3>2, <3>3
  <2>13. CASE Crash \/ PowerLoss
    <3>1. InForce' = GetSettingsFromDisk' /\ Asked' = {} /\ Taken' = None /\ Told' = Told
      BY <2>13 DEF Crash, PowerLoss, MemoryLost, InForce, Asked, Taken, Told
    <3>2. InForce' \in AllSettings /\ Fits(InForce'.motors)
      BY <3>1, LoadedFits DEF Inv
    <3>3. Reach # "memory" => InForce = GetSettingsFromDisk
      <4> SUFFICES ASSUME ~unsaved, pc \notin {"write", "parse"}
                   PROVE  InForce = GetSettingsFromDisk
        BY DEF Reach
      <4>1. CASE pc \in {"set", "return"}
        <5>1. file = data /\ data # Empty
          BY <4>1 DEF Inv, DataInv, FileInv
        <5>2. InForce = ParseSettings(data)
          BY <4>1 DEF Inv, CopyInv, InForce
        <5> QED
          BY <5>1, <5>2 DEF GetSettingsFromDisk
      <4>2. CASE pc \in {"start", "serving", "validate", "truncate"}
        BY <4>2 DEF Inv, FileInv, InForce
      <4> QED
        BY <4>1, <4>2 DEF Inv, TypeOK
    <3>4. file' = file => GetSettingsFromDisk' = GetSettingsFromDisk
      BY DEF GetSettingsFromDisk
    <3>5. CASE Crash
      <4>1. /\ Reach' \in {"file", "storage"}
            /\ Reach # "memory" => Reach' = Reach
        BY <3>5 DEF Crash, MemoryLost, Reach
      <4>2. DR!Restart
        BY <3>1, <3>2, <3>3, <3>4, <3>5, <4>1 DEF Crash, DR!Restart
      <4> QED
        BY <4>2 DEF DR!Next
    <3>6. CASE PowerLoss
      <4>1. Reach = "storage" => file' = file
        BY <3>6 DEF PowerLoss, Reach
      <4>2. Reach' = "storage"
        BY <3>6 DEF PowerLoss, MemoryLost, Reach
      <4>3. DR!PowerLoss
        BY <3>1, <3>2, <3>3, <3>4, <4>1, <4>2 DEF DR!PowerLoss
      <4> QED
        BY <4>3 DEF DR!Next
    <3> QED
      BY <2>13, <3>5, <3>6
  <2>14. CASE UNCHANGED vars
    BY <2>14 DEF vars, InForce, Asked, Taken, Told, Reach, GetSettingsFromDisk
  <2> QED
    BY <2>1, <2>2, <2>3, <2>4, <2>5, <2>6, <2>7, <2>8, <2>9, <2>10, <2>11, <2>12, <2>13,
       <2>14 DEF Next, Main, Loop
<1> QED
  BY <1>1, <1>2, InvHolds, ToldHolds, PTL DEF Spec, ImplementsDurableRegister, DR!Spec
=============================================================================
