----------------------- MODULE CommandsCycle_proofs -----------------------
(***************************************************************************)
(* Theorems about CommandsCycle, for every set of commands and fields,     *)
(* every limit and every counter width.                                    *)
(***************************************************************************)
EXTENDS CommandsCycle, TLAPS

(* Who is inside the queue, from where each thread is. *)
LockInv ==
  /\ commandsMutex_ = "main" <=> mainPc \in {"add.reset", "add.copy"}
  /\ commandsMutex_ = "loop" <=> loopPc \in {"get.count", "get.expire", "get.copy"}

(* The queue as it is between two calls: u cycles have taken the command.  *)
Stored(u) ==
  IF u < MAX_COUNT
  THEN commands_ = Whole(added) /\ requestsCount_ = u
  ELSE commands_ = Whole(Neutral)

NextUse == IF uses < MAX_COUNT THEN uses + 1 ELSE MAX_COUNT

(* The queue and the local copy at each point a thread can be inside it.   *)
QueueInv ==
  /\ commandsMutex_ = None => Stored(uses)
  /\ mainPc = "add.reset" => Stored(uses) /\ toCopy = Fields
  /\ mainPc = "add.copy" =>
       /\ requestsCount_ = 0
       /\ \A f \in Fields \ toCopy : commands_[f] = received
  /\ loopPc = "get.count" => Stored(uses)
  /\ loopPc = "get.expire" =>
       IF uses < MAX_COUNT
       THEN commands_ = Whole(added) /\ requestsCount_ = uses + 1
       ELSE commands_ = Whole(Neutral)
  /\ loopPc = "get.copy" =>
       /\ Stored(NextUse)
       /\ \A f \in Fields \ toCopy : commands[f] = commands_[f]

TakenInv == Taken => \E c \in Commands : commands = Whole(c)

Inv == TypeOK /\ LockInv /\ QueueInv /\ TakenInv

(* A struct all of whose fields have been copied from c is the whole of c. *)
LEMMA CopiedWhole ==
  ASSUME NEW s \in Structs, NEW c, \A f \in Fields : s[f] = c
  PROVE  s = Whole(c)
BY DEF Structs, Whole

(* Every value Whole builds from a command is a struct. *)
LEMMA WholeStruct == \A c \in Commands : Whole(c) \in Structs
BY DEF Whole, Structs

(* Where the terms of the regulator's output come from. *)
LEMMA CorrectionType == TypeOK => Correction(pids_) \in SUBSET Origins
BY DEF TypeOK, Correction, Memories

(* The state of every thread and of the queue keeps its type: the counter  *)
(* stays within a size_t and a message is a command and a correction.      *)
THEOREM TypeCorrect == Spec => []TypeOK
<1>1. Init => TypeOK
  BY WholeStruct, CommandsAssumption, CountAssumption
  DEF Init, TypeOK, MainPcs, LoopPcs, Memories, InitialMemory, Origins
<1>2. ASSUME TypeOK, [Next]_vars PROVE TypeOK'
  <2> USE <1>2 DEF TypeOK, MainPcs, LoopPcs, queueVars, mainVars, loopVars, historyVars
  <2>1. CASE \E c \in Commands : Write(c)
    BY <2>1 DEF Write
  <2>2. CASE Stop
    BY <2>2 DEF Stop, Stopped
  <2>3. CASE AddLock
    BY <2>3 DEF AddLock, MutexFree
  <2>4. CASE AddReset
    BY <2>4, CountAssumption DEF AddReset, CountReset, CountReset
  <2>5. CASE \E f \in Fields : AddCopy(f)
    BY <2>5 DEF AddCopy, Structs
  <2>6. CASE AddUnlock
    BY <2>6, CountAssumption DEF AddUnlock
  <2>7. CASE Join
    BY <2>7 DEF Join
  <2>8. CASE LoopTest
    BY <2>8 DEF LoopTest
  <2>9. CASE GetLock
    BY <2>9 DEF GetLock, MutexFree
  <2>10. CASE GetCount
    BY <2>10, CountAssumption DEF GetCount, Count
  <2>11. CASE GetExpire
    BY <2>11, WholeStruct, CommandsAssumption DEF GetExpire, Expired
  <2>12. CASE \E f \in Fields : GetCopy(f)
    BY <2>12 DEF GetCopy, Structs
  <2>13. CASE GetUnlock
    BY <2>13, CountAssumption DEF GetUnlock
  <2>14. CASE \E recompute \in BOOLEAN : Regulate(recompute)
    BY <2>14 DEF Regulate, Calculate, Memories, Origins, WithSample
  <2>15. CASE DoNotRegulate
    BY <2>15 DEF DoNotRegulate, Reset, Outlived, Memories, Origins
  <2>16. CASE SendMotorsStruct
    <3>1. Correction(pids_) \in SUBSET Origins
      BY CorrectionType
    <3>2. motors' \in Messages
      BY <2>16, <3>1 DEF SendMotorsStruct, Messages
    <3> QED
      BY <2>16, <3>2 DEF SendMotorsStruct
  <2>17. CASE Sleep
    BY <2>17 DEF Sleep
  <2>18. CASE UNCHANGED vars
    BY <2>18 DEF vars
  <2> QED
    BY <2>1, <2>2, <2>3, <2>4, <2>5, <2>6, <2>7, <2>8, <2>9, <2>10, <2>11, <2>12,
       <2>13, <2>14, <2>15, <2>16, <2>17, <2>18
    DEF Next, Main, MainReturns, Loop, Terminated
<1> QED
  BY <1>1, <1>2, PTL DEF Spec

(* The loop starts with every mutex free and nothing copied. *)
LEMMA InitInv == Init => Inv
<1> SUFFICES ASSUME Init PROVE Inv
  OBVIOUS
<1>1. TypeOK
  BY WholeStruct, CommandsAssumption, CountAssumption
  DEF Init, TypeOK, MainPcs, LoopPcs, Memories, InitialMemory, Origins
<1>2. LockInv /\ QueueInv /\ TakenInv
  BY CountAssumption, CommandsAssumption
  DEF Init, LockInv, QueueInv, TakenInv, Taken, Stored
<1> QED
  BY <1>1, <1>2 DEF Inv

(* No step of either thread breaks the invariant of the queue.             *)
LEMMA NextInv == Inv /\ TypeOK' /\ [Next]_vars => Inv'
<1> SUFFICES ASSUME Inv, TypeOK', [Next]_vars PROVE LockInv' /\ QueueInv' /\ TakenInv'
  BY DEF Inv
<1> USE CommandsAssumption, CountAssumption
    DEF Inv, LockInv, QueueInv, TakenInv, Taken, Stored, NextUse, queueVars, mainVars,
        loopVars, historyVars
<1>1. CASE \E c \in Commands : Write(c)
  BY <1>1 DEF Write
<1>2. CASE Stop
  BY <1>2 DEF Stop, Stopped
<1>3. CASE AddLock
  BY <1>3 DEF AddLock, MutexFree
<1>4. CASE AddReset
  BY <1>4 DEF AddReset, CountReset, TypeOK
<1>5. CASE \E f \in Fields : AddCopy(f)
  <2>1. PICK f \in Fields : AddCopy(f)
    BY <1>5
  <2> QED
    BY <2>1 DEF AddCopy, TypeOK, Structs
<1>6. CASE AddUnlock
  <2>1. commands_ = Whole(received)
    BY <1>6, CopiedWhole DEF AddUnlock, TypeOK
  <2> QED
    BY <1>6, <2>1 DEF AddUnlock
<1>7. CASE Join
  BY <1>7 DEF Join
<1>8. CASE LoopTest
  BY <1>8 DEF LoopTest
<1>9. CASE GetLock
  BY <1>9 DEF GetLock, MutexFree
<1>10. CASE GetCount
  BY <1>10 DEF GetCount, Count, TypeOK
<1>11. CASE GetExpire
  BY <1>11 DEF GetExpire, Expired, TypeOK
<1>12. CASE \E f \in Fields : GetCopy(f)
  <2>1. PICK f \in Fields : GetCopy(f)
    BY <1>12
  <2> QED
    BY <2>1 DEF GetCopy, TypeOK, Structs
<1>13. CASE GetUnlock
  <2>1. \A f \in Fields : commands[f] = commands_[f]
    BY <1>13 DEF GetUnlock
  <2>2. commands = commands_
    BY <2>1 DEF TypeOK, Structs
  <2>3. uses' = NextUse /\ Stored(NextUse)
    BY <1>13 DEF GetUnlock
  <2>4. \E c \in Commands : commands = Whole(c)
    BY <2>2, <2>3 DEF TypeOK
  <2> QED
    BY <1>13, <2>3, <2>4 DEF GetUnlock
<1>14. CASE \E recompute \in BOOLEAN : Regulate(recompute)
  BY <1>14 DEF Regulate
<1>15. CASE DoNotRegulate
  BY <1>15 DEF DoNotRegulate
<1>16. CASE SendMotorsStruct
  BY <1>16 DEF SendMotorsStruct
<1>17. CASE Sleep
  BY <1>17 DEF Sleep
<1>18. CASE UNCHANGED vars
  BY <1>18 DEF vars
<1> QED
  BY <1>1, <1>2, <1>3, <1>4, <1>5, <1>6, <1>7, <1>8, <1>9, <1>10, <1>11, <1>12,
     <1>13, <1>14, <1>15, <1>16, <1>17, <1>18
  DEF Next, Main, MainReturns, Loop, Terminated

(* The invariant holds of every state. *)
LEMMA InvHolds == Spec => []Inv
<1>1. Inv /\ TypeOK' /\ [Next]_vars => Inv'
  BY NextInv
<1> QED
  BY InitInv, <1>1, TypeCorrect, PTL DEF Spec

(* Commands are copied whole, whatever the interleaving of the pilot's     *)
(* writes with the cycles that read them.                                  *)
THEOREM CopiesAreWhole == Spec => []NeverTorn
<1>1. Inv => NeverTorn
  BY CommandsAssumption DEF Inv, QueueInv, TakenInv, Stored, NeverTorn, TypeOK
<1> QED
  BY <1>1, InvHolds, PTL

(* The watchdog: the stored command is the pilot's last one until the      *)
(* MAX_COUNT-th cycle asks for it, then the neutral one, past any wrap of  *)
(* the counter.                                                            *)
THEOREM CommandsExpire == Spec => []StoredCommandExpires
<1>1. Inv => StoredCommandExpires
  BY DEF Inv, QueueInv, Stored, StoredCommandExpires
<1> QED
  BY <1>1, InvHolds, PTL

(* Every step of the two threads is a step of the dead man's switch or     *)
(* leaves it alone.                                                        *)
THEOREM RefinesDeadMan == Spec => ImplementsDeadMan
<1>1. Init => DM!Init
  BY DEF Init, DM!Init, Taken
<1>2. Inv /\ Inv' /\ [Next]_vars => [DM!Next]_DM!vars
  <2> SUFFICES ASSUME Inv, Inv', [Next]_vars PROVE DM!Next \/ UNCHANGED DM!vars
    OBVIOUS
  <2> USE DEF Inv, DM!vars, Taken, queueVars, mainVars, loopVars, historyVars
  <2>1. CASE Main
    <3>1. CASE AddUnlock
      <4>1. DM!Receive(Whole(received))
        BY <3>1 DEF AddUnlock, DM!Receive
      <4> QED
        BY <4>1 DEF DM!Next, TypeOK
    <3>2. CASE ~AddUnlock
      BY <2>1, <3>2 DEF Main, MainReturns, Write, Stop, AddLock, AddReset, AddCopy, Join
    <3> QED
      BY <3>1, <3>2
  <2>2. CASE GetUnlock
    <3>1. uses' = NextUse /\ Stored(NextUse)
      BY <2>2 DEF GetUnlock, QueueInv, NextUse
    <3>2. commands = commands_
      BY <2>2 DEF GetUnlock, QueueInv, TypeOK, Structs
    <3>3. commands' = IF uses' = MAX_COUNT THEN Whole(Neutral) ELSE Whole(added)
      BY <2>2, <3>1, <3>2, CountAssumption DEF GetUnlock, Stored, NextUse, TypeOK
    <3>4. DM!Begin
      BY <2>2, <3>1, <3>3 DEF GetUnlock, DM!Begin, DM!Older, NextUse
    <3> QED
      BY <3>4 DEF DM!Next
  <2>3. CASE SendMotorsStruct
    <3>1. commands # None
      BY CommandsAssumption DEF TypeOK, Structs
    <3>2. motors' # None /\ motors'.command = commands
      <4>1. motors' \in Messages
        BY <2>3, CorrectionType DEF SendMotorsStruct, TypeOK, Messages
      <4>2. motors' # None
        BY <4>1, CommandsAssumption DEF Messages, Structs
      <4> QED
        BY <2>3, <4>2 DEF SendMotorsStruct
    <3>3. DM!Drive
      BY <2>3, <3>1, <3>2 DEF SendMotorsStruct, DM!Drive
    <3> QED
      BY <3>3 DEF DM!Next
  <2>4. CASE Loop /\ ~GetUnlock /\ ~SendMotorsStruct
    BY <2>4 DEF Loop, LoopTest, GetLock, GetCount, GetExpire, GetCopy, Regulate,
                DoNotRegulate, Sleep
  <2>5. CASE UNCHANGED vars
    BY <2>5 DEF vars
  <2> QED
    BY <2>1, <2>2, <2>3, <2>4, <2>5 DEF Next, Terminated
<1> QED
  BY <1>1, <1>2, InvHolds, PTL DEF Spec, ImplementsDeadMan, DM!Spec

(* Neither the integral nor the difference remembers an earlier session.   *)
THEOREM SessionsAreApart == Spec => []RegulatorForgets
<1>1. Init => RegulatorForgets
  BY DEF Init, RegulatorForgets, OfThisSession, InitialMemory
<1>2. RegulatorForgets /\ [Next]_vars => RegulatorForgets'
  <2> SUFFICES ASSUME RegulatorForgets, [Next]_vars PROVE RegulatorForgets'
    OBVIOUS
  <2> USE DEF RegulatorForgets, OfThisSession, queueVars, mainVars, loopVars,
              historyVars
  <2>1. CASE \E recompute \in BOOLEAN : Regulate(recompute)
    BY <2>1 DEF Regulate, Calculate, WithSample
  <2>2. CASE DoNotRegulate
    BY <2>2 DEF DoNotRegulate, Reset
  <2>3. CASE Main
    BY <2>3 DEF Main, MainReturns, Write, Stop, AddLock, AddReset, AddCopy, AddUnlock, Join
  <2>4. CASE LoopTest \/ GetLock \/ GetCount \/ GetExpire \/ (\E f \in Fields : GetCopy(f))
             \/ GetUnlock \/ SendMotorsStruct \/ Sleep
    BY <2>4 DEF LoopTest, GetLock, GetCount, GetExpire, GetCopy, GetUnlock,
                SendMotorsStruct, Sleep
  <2>5. CASE UNCHANGED vars
    BY <2>5 DEF vars
  <2> QED
    BY <2>1, <2>2, <2>3, <2>4, <2>5 DEF Next, Loop, Terminated
<1> QED
  BY <1>1, <1>2, PTL DEF Spec

JoinInv == mainPc = "gone" => loopPc = "done"

(* After the destructor the motors hear nothing from the loop.             *)
THEOREM QuietAfterJoin == Spec => QuietOnceJoined
<1>1. Init => JoinInv
  BY DEF Init, JoinInv
<1>2. JoinInv /\ [Next]_vars => JoinInv' /\ (mainPc = "gone" => motors' = motors)
  BY DEF JoinInv, Next, Main, MainReturns, Loop, Terminated, vars, Write, Stop, AddLock,
         AddReset, AddCopy, AddUnlock, Join, Joinable, LoopTest, GetLock, GetCount, GetExpire,
         GetCopy, GetUnlock, Regulate, DoNotRegulate, SendMotorsStruct, Sleep, queueVars,
         mainVars, loopVars, historyVars
<1>3. JoinInv /\ [Next]_vars => [mainPc = "gone" => motors' = motors]_vars
  BY <1>2
<1> QED
  BY <1>1, <1>2, <1>3, PTL DEF Spec, QuietOnceJoined
=============================================================================
