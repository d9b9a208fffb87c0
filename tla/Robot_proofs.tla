--------------------------- MODULE Robot_proofs ---------------------------
(***************************************************************************)
(* Theorems about Robot: no thread uses what was destroyed, in any order   *)
(* of the steps of main, of the two threads and of the clients.            *)
(***************************************************************************)
EXTENDS Robot, TLAPS

(***************************************************************************)
(* The invariant.                                                          *)
(***************************************************************************)

(* The loop has its shares until its thread has ended. *)
LoopInv ==
  loopPc \in {"test", "read", "send"} =>
    "CommandsCycle" \in owners["RobotSettings"] /\ "CommandsCycle" \in owners["Sensors"]

(* The sensors live until their thread has ended, or are being destroyed.  *)
SensorInv ==
  sensorPc \in {"test", "handle"} => owners["Sensors"] # {} \/ mainPc = "joinSensors"

(* The sender is deleted once, on the way out. *)
SenderInv == motorsSender_ = "deleted" => mainPc \in {"release", "joinLoop", "joinSensors"}

(* What was made is network_'s until network_ is destroyed. *)
NetworkInv ==
  mainPc \notin {"release", "joinLoop", "joinSensors"} =>
    \A s \in Services : owners[s] # {} => "network_" \in owners[s]

(* Clients are served by all the services. *)
ServedInv == mainPc \in {"listen", "read", "reply", "refuse"} => \A s \in Services : owners[s] # {}

RobotInv == TypeOK /\ LoopInv /\ SensorInv /\ SenderInv /\ NetworkInv /\ ServedInv

(* Before Robot is constructed nothing is made. *)
LEMMA InitInv == Init => RobotInv
<1> SUFFICES ASSUME Init PROVE RobotInv
  OBVIOUS
<1>1. owners \in [Services -> SUBSET Owners] /\ NoImage \in Images
  BY DEF Init, NoImage, Images
<1>2. TypeOK
  BY <1>1, UnreadAssumption DEF Init, TypeOK
<1>3. LoopInv /\ SensorInv /\ SenderInv /\ ServedInv
  BY DEF Init, LoopInv, SensorInv, SenderInv, ServedInv
<1>4. NetworkInv
  BY DEF Init, NetworkInv
<1> QED
  BY <1>2, <1>3, <1>4 DEF RobotInv

(* The steps of main that make and destroy nothing. *)
Quiet ==
  /\ UNCHANGED <<json, owners, motorsSender_, loopPc, isNotDone_, sensorPc, notDone_, process>>
  /\ socket' \in {"none", "open", "lost"} /\ unread' \in 0 .. MaxUnread
  /\ group' \in {"NULL", "PLAYING"} /\ src' \in Images /\ requested' \in Images

(* They keep the invariant, as long as main stays where it is served or    *)
(* leaves it.                                                              *)
LEMMA QuietKeepsInv ==
  ASSUME RobotInv, Quiet,
         \/ mainPc' = mainPc
         \/ /\ mainPc \in {"listen", "read", "reply", "refuse"}
            /\ mainPc' \in {"listen", "read", "reply", "refuse", "clear"}
  PROVE  RobotInv'
<1>1. TypeOK'
  BY DEF RobotInv, TypeOK, Quiet
<1> QED
  BY <1>1 DEF RobotInv, Quiet, LoopInv, SensorInv, SenderInv, NetworkInv, ServedInv

(* What the video is set to is of the fields of an image. *)
LEMMA ImageTyped ==
  ASSUME RobotInv, ConnectionLost \/ GstreamerStart \/ GstreamerStop \/ UNCHANGED videoVars
  PROVE  group' \in {"NULL", "PLAYING"} /\ src' \in Images /\ requested' \in Images
<1>1. group \in {"NULL", "PLAYING"} /\ src \in Images /\ requested \in Images
  BY DEF RobotInv, TypeOK
<1>2. CASE GstreamerStart
  <2>1. src' \in Images
    BY <1>1, <1>2 DEF GstreamerStart, ImageSet, Images, ImageFields
  <2>2. requested' \in Images
    BY <1>2 DEF GstreamerStart, Images
  <2> QED
    BY <1>1, <1>2, <2>1, <2>2 DEF GstreamerStart
<1>3. CASE ConnectionLost \/ GstreamerStop
  BY <1>1, <1>3 DEF ConnectionLost, GstreamerStop, Stopped
<1>4. CASE UNCHANGED videoVars
  BY <1>1, <1>4 DEF videoVars
<1> QED
  BY <1>2, <1>3, <1>4

(* A request, its answer, and a client that comes or goes. *)
LEMMA ClientsKeepInv ==
  ASSUME RobotInv, Accept \/ ListenFails \/ ClientLeaves \/ Requests \/ Answers \/ RefusalSent
  PROVE  RobotInv'
<1>1. socket \in {"none", "open", "lost"} /\ unread \in 0 .. MaxUnread /\ 0 \in 0 .. MaxUnread
  BY UnreadAssumption DEF RobotInv, TypeOK
<1>2. CASE Accept \/ ListenFails \/ ClientLeaves
  <2>1. UNCHANGED videoVars
    BY <1>2 DEF Accept, ListenFails, ClientLeaves
  <2>2. Quiet
    BY <1>1, <1>2, <2>1, ImageTyped
       DEF Quiet, Accept, ListenFails, ClientLeaves, Main, threadVars, clientVars, setUpVars
  <2>3. \/ mainPc' = mainPc
        \/ /\ mainPc \in {"listen", "read", "reply", "refuse"}
           /\ mainPc' \in {"listen", "read", "reply", "refuse", "clear"}
    BY <1>2 DEF Accept, ListenFails, ClientLeaves, Main
  <2> QED
    BY <2>2, <2>3, QuietKeepsInv
<1>3. CASE Requests
  <2>1. ConnectionLost \/ GstreamerStart \/ GstreamerStop \/ UNCHANGED videoVars
    BY <1>3 DEF Requests, VideoStart, VideoStop, Refused, OtherRequest, RequestFails, ConnectionEnds
  <2>2. unread' \in {0, unread - 1} /\ unread' \in Nat
    BY <1>1, <1>3
       DEF Requests, VideoStart, VideoStop, Refused, OtherRequest, RequestFails, ConnectionEnds, Take
  <2>3. unread' \in 0 .. MaxUnread
    BY <1>1, <2>2, UnreadAssumption
  <2>4. Quiet
    BY <1>1, <1>3, <2>1, <2>3, ImageTyped
       DEF Quiet, Requests, VideoStart, VideoStop, Refused, OtherRequest, RequestFails,
           ConnectionEnds, Take, Main, threadVars
  <2>5. /\ mainPc \in {"listen", "read", "reply", "refuse"}
        /\ mainPc' \in {"listen", "read", "reply", "refuse", "clear"}
    BY <1>3 DEF Requests, VideoStart, VideoStop, Refused, OtherRequest, RequestFails,
                ConnectionEnds, Take, Main
  <2> QED
    BY <2>4, <2>5, QuietKeepsInv
<1>4. CASE Answers \/ RefusalSent
  <2>1. ConnectionLost \/ UNCHANGED videoVars
    BY <1>4 DEF Answers, RefusalSent, Reply, ReadFails, ReplyFails, RefusalFails, ConnectionEnds
  <2>2. Quiet
    BY <1>1, <1>4, <2>1, ImageTyped
       DEF Quiet, Answers, RefusalSent, Reply, ReadFails, ReplyFails, RefusalFails,
           ConnectionEnds, Main, threadVars, clientVars
  <2>3. /\ mainPc \in {"listen", "read", "reply", "refuse"}
        /\ mainPc' \in {"listen", "read", "reply", "refuse", "clear"}
    BY <1>4 DEF Answers, RefusalSent, Reply, ReadFails, ReplyFails, RefusalFails,
                ConnectionEnds, Main
  <2> QED
    BY <2>2, <2>3, QuietKeepsInv
<1> QED
  BY <1>2, <1>3, <1>4

(* Constructing: the services are made one after the other, by their       *)
(* identifiers, and the last gives its loop shares of two that are there.  *)
LEMMA StartUpKeepsInv ==
  ASSUME RobotInv, StartUp
  PROVE  RobotInv'
<1>1. TypeOK
  BY DEF RobotInv
<1>2. CASE StartSettings
  <2>1. /\ UNCHANGED <<json, process, owners, threadVars, clientVars, videoVars>>
        /\ mainPc = "construct" /\ mainPc' \in {"setUp", "release"}
        /\ motorsSender_' \in {"null", "open", "leaked"}
    BY <1>2, Zenon DEF StartSettings, Main
  <2>2. TypeOK'
    BY <1>1, <2>1 DEF TypeOK, threadVars, clientVars, videoVars
  <2> QED
    BY <2>1, <2>2 DEF RobotInv, LoopInv, SensorInv, SenderInv, NetworkInv, ServedInv, threadVars
<1>3. CASE SetUp
  <2>1. /\ UNCHANGED <<json, process, motorsSender_, owners, threadVars, clientVars, videoVars>>
        /\ mainPc = "setUp" /\ mainPc' \in {"make", "clear"}
    BY <1>3, Zenon DEF SetUp, Main
  <2>2. TypeOK'
    BY <1>1, <2>1 DEF TypeOK, threadVars, clientVars, videoVars
  <2> QED
    BY <2>1, <2>2 DEF RobotInv, LoopInv, SensorInv, SenderInv, NetworkInv, ServedInv, threadVars
<1>4. ASSUME NEW s \in Services, CreateService(s)
      PROVE  RobotInv'
  <2>1. /\ UNCHANGED <<json, process, motorsSender_, isNotDone_, notDone_, clientVars, videoVars>>
        /\ mainPc = "make"
        /\ mainPc' = IF s = "CommandsService" THEN "listen" ELSE "make"
        /\ owners' = WithService(s) /\ owners[s] = {}
        /\ \A t \in Services : serviceId_[t] < serviceId_[s] => owners[t] # {}
        /\ sensorPc' = IF s = "Sensors" THEN "test" ELSE sensorPc
        /\ loopPc' = IF s = "CommandsService" THEN "test" ELSE loopPc
    BY <1>4 DEF CreateService, NextToMake, Main, Created
  <2>2. \A t \in Services : owners[t] \subseteq Owners
    BY <1>1 DEF TypeOK
  <2>3. \A t \in Services :
          /\ owners'[t] \subseteq Owners
          /\ owners[t] \subseteq owners'[t]
          /\ owners[t] # {} \/ t = s => "network_" \in owners'[t]
    <3>1. \A t \in Services : owners[t] # {} => "network_" \in owners[t]
      BY <2>1 DEF RobotInv, NetworkInv
    <3> QED
      BY <2>1, <2>2, <3>1 DEF WithService, Owners
  <2>4. owners' \in [Services -> SUBSET Owners]
    BY <2>1, <2>3 DEF WithService
  <2>5. TypeOK'
    BY <1>1, <2>1, <2>4 DEF TypeOK, clientVars, videoVars
  <2>6. LoopInv'
    <3>1. CASE s = "CommandsService"
      <4>1. "CommandsCycle" \in owners'["RobotSettings"] /\ "CommandsCycle" \in owners'["Sensors"]
        BY <2>1, <3>1 DEF WithService, Services
      <4> QED
        BY <4>1 DEF LoopInv
    <3>2. CASE s # "CommandsService"
      <4>1. loopPc' = loopPc
        BY <2>1, <3>2
      <4>2. owners["RobotSettings"] \subseteq owners'["RobotSettings"] /\ owners["Sensors"] \subseteq owners'["Sensors"]
        BY <2>3 DEF Services
      <4> QED
        BY <4>1, <4>2 DEF RobotInv, LoopInv
    <3> QED
      BY <3>1, <3>2
  <2>7. SensorInv'
    <3>1. owners'["Sensors"] # {} \/ (sensorPc' = sensorPc /\ s # "Sensors")
      BY <2>1, <2>3 DEF Services
    <3>2. sensorPc \in {"test", "handle"} => owners["Sensors"] # {}
      BY <2>1 DEF RobotInv, SensorInv
    <3>3. owners["Sensors"] # {} => owners'["Sensors"] # {}
      BY <2>3 DEF Services
    <3> QED
      BY <3>1, <3>2, <3>3 DEF SensorInv
  <2>8. SenderInv'
    BY <2>1 DEF RobotInv, SenderInv
  <2>9. NetworkInv'
    <3>1. \A t \in Services : owners'[t] # {} => owners[t] # {} \/ t = s
      <4>1. s = "CommandsService" => owners["RobotSettings"] # {} /\ owners["Sensors"] # {}
        BY <2>1 DEF Services, serviceId_
      <4>2. ASSUME NEW t \in Services, t # s
            PROVE  \/ owners'[t] = owners[t]
                   \/ s = "CommandsService" /\ t \in {"RobotSettings", "Sensors"}
        BY <2>1, <4>2 DEF WithService
      <4> QED
        BY <4>1, <4>2
    <3> QED
      BY <2>3, <3>1 DEF NetworkInv
  <2>10. ServedInv'
    <3>1. CASE s = "CommandsService"
      <4>1. \A t \in Services : t = s \/ serviceId_[t] < serviceId_[s]
        BY <3>1 DEF Services, serviceId_
      <4>2. \A t \in Services : owners'[t] # {}
        BY <2>1, <2>3, <4>1
      <4> QED
        BY <4>2 DEF ServedInv
    <3>2. CASE s # "CommandsService"
      BY <2>1, <3>2 DEF ServedInv
    <3> QED
      BY <3>1, <3>2
  <2> QED
    BY <2>5, <2>6, <2>7, <2>8, <2>9, <2>10 DEF RobotInv
<1>5. ASSUME NEW s \in Services, CreateFails(s)
      PROVE  RobotInv'
  <2>1. /\ UNCHANGED <<setUpVars, threadVars, clientVars, videoVars>>
        /\ mainPc' \in {mainPc, "clear"} /\ mainPc = "make"
        /\ process' \in {"running", "crashed"}
    BY <1>5 DEF CreateFails
  <2>2. TypeOK'
    BY <1>1, <2>1 DEF TypeOK, setUpVars, threadVars, clientVars, videoVars
  <2> QED
    BY <2>1, <2>2
       DEF RobotInv, LoopInv, SensorInv, SenderInv, NetworkInv, ServedInv, setUpVars, threadVars
<1> QED
  BY <1>2, <1>3, <1>4, <1>5 DEF StartUp

(* Destroying: no share of the loop's goes before its thread has ended,    *)
(* and the last share of the sensors' goes where their thread is waited    *)
(* for.                                                                    *)
LEMMA DestructionKeepsInv ==
  ASSUME RobotInv, Destruction
  PROVE  RobotInv'
<1>1. TypeOK /\ \A s \in Services : owners[s] \subseteq Owners
  BY DEF RobotInv, TypeOK
<1>2. CASE ClearServices
  <2>1. /\ UNCHANGED <<json, process, motorsSender_, threadVars, clientVars, videoVars>>
        /\ mainPc = "clear" /\ mainPc' = "delete"
        /\ owners' = [s \in Services |-> owners[s] \ {"services_"}]
    BY <1>2 DEF ClearServices, Main, Release
  <2>2. TypeOK'
    BY <1>1, <2>1 DEF TypeOK, threadVars, clientVars, videoVars
  <2>3. \A s \in Services : owners[s] # {} => "network_" \in owners[s]
    BY <2>1 DEF RobotInv, NetworkInv
  <2>4. \A s \in Services : owners'[s] # {} => "network_" \in owners'[s]
    BY <2>1, <2>3
  <2>5. LoopInv'
    BY <2>1 DEF RobotInv, LoopInv, Services, threadVars
  <2>6. SensorInv'
    <3>1. sensorPc' = sensorPc /\ mainPc # "joinSensors" /\ "Sensors" \in Services
      BY <2>1 DEF threadVars, Services
    <3>2. "network_" \in owners["Sensors"] => owners'["Sensors"] # {}
      BY <2>1 DEF Services
    <3> QED
      BY <2>3, <3>1, <3>2 DEF RobotInv, SensorInv
  <2>7. SenderInv' /\ NetworkInv' /\ ServedInv'
    BY <2>1, <2>4 DEF RobotInv, SenderInv, NetworkInv, ServedInv
  <2> QED
    BY <2>2, <2>5, <2>6, <2>7 DEF RobotInv
<1>3. CASE DeleteSender
  <2>1. /\ UNCHANGED <<json, process, owners, threadVars, clientVars, videoVars>>
        /\ mainPc = "delete" /\ mainPc' = "release"
        /\ motorsSender_' \in {motorsSender_, "deleted"}
    BY <1>3 DEF DeleteSender, Main
  <2>2. TypeOK'
    BY <1>1, <2>1 DEF TypeOK, threadVars, clientVars, videoVars
  <2> QED
    BY <2>1, <2>2 DEF RobotInv, LoopInv, SensorInv, SenderInv, NetworkInv, ServedInv, threadVars
<1>4. ASSUME NEW s \in Services, ReleaseService(s)
      PROVE  RobotInv'
  <2>1. /\ mainPc = "release" /\ mainPc' \in {"release", "joinLoop", "joinSensors"}
        /\ s = "Sensors" /\ owners'[s] = {} => mainPc' = "joinSensors"
        /\ owners' = [owners EXCEPT ![s] = @ \ {"network_"}]
        /\ UNCHANGED <<json, process, motorsSender_, loopPc, sensorPc, clientVars>>
    BY <1>4 DEF ReleaseService, Main
  <2>2. ConnectionLost \/ GstreamerStop \/ UNCHANGED videoVars
    BY <1>4 DEF ReleaseService
  <2>3. isNotDone_' \in BOOLEAN /\ notDone_' \in BOOLEAN
    BY <1>1, <1>4 DEF TypeOK, ReleaseService, FlagCleared
  <2>4. owners' \in [Services -> SUBSET Owners]
    BY <1>1, <2>1 DEF TypeOK
  <2>5. TypeOK'
    BY <1>1, <2>1, <2>2, <2>3, <2>4, ImageTyped DEF TypeOK, clientVars
  <2>6. LoopInv'
    BY <1>1, <2>1 DEF RobotInv, LoopInv, TypeOK
  <2>7. SensorInv'
    <3>1. CASE s = "Sensors"
      BY <2>1, <3>1 DEF SensorInv
    <3>2. CASE s # "Sensors"
      <4>1. owners'["Sensors"] = owners["Sensors"]
        BY <1>1, <2>1, <3>2 DEF TypeOK, Services
      <4> QED
        BY <2>1, <4>1 DEF RobotInv, SensorInv
    <3> QED
      BY <3>1, <3>2
  <2>8. SenderInv' /\ NetworkInv' /\ ServedInv'
    BY <2>1 DEF RobotInv, SenderInv, NetworkInv, ServedInv
  <2> QED
    BY <2>5, <2>6, <2>7, <2>8 DEF RobotInv
<1>5. CASE JoinLoop
  <2>1. /\ UNCHANGED <<json, process, motorsSender_, loopPc, isNotDone_, sensorPc, clientVars, videoVars>>
        /\ mainPc = "joinLoop" /\ mainPc' \in {"release", "joinSensors"} /\ loopPc = "done"
        /\ owners' = [t \in Services |-> owners[t] \ {"CommandsCycle"}]
        /\ owners'["Sensors"] = {} => mainPc' = "joinSensors"
        /\ notDone_' \in BOOLEAN
    BY <1>1, <1>5 DEF JoinLoop, Main, Release, TypeOK
  <2>2. TypeOK'
    BY <1>1, <2>1 DEF TypeOK, clientVars, videoVars
  <2> QED
    BY <2>1, <2>2 DEF RobotInv, LoopInv, SensorInv, SenderInv, NetworkInv, ServedInv
<1>6. CASE JoinSensors
  <2>1. /\ UNCHANGED <<json, process, motorsSender_, owners, threadVars, clientVars, videoVars>>
        /\ mainPc = "joinSensors" /\ mainPc' = "release" /\ sensorPc = "done"
    BY <1>6 DEF JoinSensors, Main
  <2>2. TypeOK'
    BY <1>1, <2>1 DEF TypeOK, threadVars, clientVars, videoVars
  <2> QED
    BY <2>1, <2>2 DEF RobotInv, LoopInv, SensorInv, SenderInv, NetworkInv, ServedInv, threadVars
<1>7. CASE Return
  <2>1. UNCHANGED <<setUpVars, mainPc, threadVars, clientVars, videoVars>> /\ process' = "returned"
    BY <1>7 DEF Return
  <2>2. TypeOK'
    BY <1>1, <2>1 DEF TypeOK, setUpVars, threadVars, clientVars, videoVars
  <2> QED
    BY <2>1, <2>2
       DEF RobotInv, LoopInv, SensorInv, SenderInv, NetworkInv, ServedInv, setUpVars, threadVars
<1> QED
  BY <1>2, <1>3, <1>4, <1>5, <1>6, <1>7 DEF Destruction

(* The threads move among their own points only. *)
LEMMA ThreadsKeepInv ==
  ASSUME RobotInv, Loop \/ SensorThread
  PROVE  RobotInv'
<1>1. TypeOK
  BY DEF RobotInv
<1>2. CASE Loop
  <2>1. /\ UNCHANGED <<setUpVars, mainPc, isNotDone_, sensorPc, notDone_, clientVars, videoVars>>
        /\ loopPc \in {"test", "read", "send"} /\ loopPc' \in {"test", "read", "send", "done"}
    BY <1>2 DEF Loop, LoopTest, LoopRead, SendMotorsStruct, LoopStep
  <2>2. process' \in {"running", "crashed"}
    <3>1. process = "running"
      BY <1>2 DEF Loop, LoopTest, LoopRead, SendMotorsStruct, LoopStep
    <3>2. CASE LoopTest \/ LoopRead
      BY <3>1, <3>2 DEF LoopTest, LoopRead
    <3>3. CASE SendMotorsStruct
      <4>1. process' \in CASE motorsSender_ = "null" -> {"crashed"}
                           [] motorsSender_ = "deleted" -> {"running", "crashed"}
                           [] OTHER -> {"running"}
        BY <3>3 DEF SendMotorsStruct
      <4> QED
        BY <4>1
    <3> QED
      BY <1>2, <3>2, <3>3 DEF Loop
  <2>3. TypeOK'
    BY <1>1, <2>1, <2>2 DEF TypeOK, setUpVars, clientVars, videoVars
  <2> QED
    BY <2>1, <2>3
       DEF RobotInv, LoopInv, SensorInv, SenderInv, NetworkInv, ServedInv, setUpVars
<1>3. CASE SensorThread
  <2>1. /\ UNCHANGED <<setUpVars, mainPc, process, loopPc, isNotDone_, notDone_, clientVars, videoVars>>
        /\ sensorPc \in {"test", "handle"} /\ sensorPc' \in {"test", "handle", "done"}
    BY <1>3 DEF SensorThread, SensorTest, SensorHandle, SensorStep
  <2>2. TypeOK'
    BY <1>1, <2>1 DEF TypeOK, setUpVars, clientVars, videoVars
  <2> QED
    BY <2>1, <2>2
       DEF RobotInv, LoopInv, SensorInv, SenderInv, NetworkInv, ServedInv, setUpVars
<1> QED
  BY <1>2, <1>3

(* Every action keeps the invariant. *)
LEMMA NextInv == RobotInv /\ [Next]_vars => RobotInv'
<1> SUFFICES ASSUME RobotInv, [Next]_vars PROVE RobotInv'
  OBVIOUS
<1>1. CASE StartUp
  BY <1>1, StartUpKeepsInv
<1>2. CASE Accept \/ ListenFails \/ ClientLeaves \/ Requests \/ Answers \/ RefusalSent
  BY <1>2, ClientsKeepInv
<1>3. CASE Destruction
  BY <1>3, DestructionKeepsInv
<1>4. CASE Loop \/ SensorThread
  BY <1>4, ThreadsKeepInv
<1>5. CASE UNCHANGED vars
  BY <1>5 DEF vars, setUpVars, threadVars, clientVars, videoVars, RobotInv, TypeOK,
              LoopInv, SensorInv, SenderInv, NetworkInv, ServedInv
<1> QED
  BY <1>1, <1>2, <1>3, <1>4, <1>5 DEF Next, Ended

(* So it holds always. *)
LEMMA Invariance == Spec => []RobotInv
BY InitInv, NextInv, PTL DEF Spec

(* Robot::TypeOK: the process, its threads and its services are where the  *)
(* code can be, the owners of a service among the three there are.         *)
THEOREM TypeCorrect == Spec => []TypeOK
<1>1. RobotInv => TypeOK
  BY DEF RobotInv
<1> QED
  BY <1>1, Invariance, PTL

(* Robot::UsesOnlyWhatLives: whatever is destroyed, in whatever order the  *)
(* steps of main and of the threads come, no thread finds a service gone,  *)
(* and the motors sender is gone under the loop only while main unwinds.   *)
THEOREM NothingIsUsedAfterItsEnd == Spec => []UsesOnlyWhatLives
<1>1. RobotInv => UsesOnlyWhatLives
  <2> SUFFICES ASSUME RobotInv PROVE UsesOnlyWhatLives
    OBVIOUS
  <2>1. loopPc \in {"read", "send"} => owners["RobotSettings"] # {} /\ owners["Sensors"] # {}
    BY DEF RobotInv, LoopInv
  <2>2. motorsSender_ = "deleted" => Unwinding
    BY DEF RobotInv, SenderInv, Unwinding
  <2>3. mainPc \in {"listen", "read", "reply", "refuse"} => Created = Services
    BY DEF RobotInv, ServedInv, Created
  <2>4. owners["Sensors"] = {} /\ sensorPc = "handle" => mainPc = "joinSensors"
    BY DEF RobotInv, SensorInv
  <2> QED
    BY <2>1, <2>2, <2>3, <2>4 DEF UsesOnlyWhatLives
<1> QED
  BY <1>1, Invariance, PTL
=============================================================================
