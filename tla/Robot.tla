------------------------------- MODULE Robot -------------------------------
(***************************************************************************)
(* The life of the process: Settings.json, the services one after the      *)
(* other with the threads two of them start, the clients that are served   *)
(* one at a time, and, when an exception leaves Start, the destruction of  *)
(* everything in the order C++ gives it.                                   *)
(*                                                                         *)
(* The services are shared: network_ and services_ of Robot own all four,  *)
(* the command loop two of them.  What the loop sends to the motors with   *)
(* is not: it belongs to startSettings_, and the loop has a reference.     *)
(*                                                                         *)
(* Requests and the loops are told apart only by what they touch: the      *)
(* modules TcpSession, CommandsCycle and SensorHandler have their inside.  *)
(***************************************************************************)
EXTENDS Naturals

CONSTANT
  MaxUnread   \* bound: requests a client leaves behind

ASSUME UnreadAssumption == MaxUnread \in Nat

VARIABLES
  json,           \* what Settings.json holds
  mainPc,         \* where the main thread is
  process,        \* "running", "returned" or "crashed"
  motorsSender_,  \* "null", "open", "deleted" or "leaked"
  owners,         \* who holds a shared pointer to each service
  loopPc,         \* the thread of CommandsCycle
  isNotDone_,     \* cleared by ~CommandsCycle
  sensorPc,       \* the thread of SensorHandler
  notDone_,       \* cleared by ~SensorHandler
  socket,         \* the client: "none", "open" or "lost"
  unread,         \* requests it had sent before it left that were not read
  group,          \* the state of the video pipeline
  src,            \* the fields of the request its camera was given
  requested       \* those the last START asked for

threadVars == <<loopPc, isNotDone_, sensorPc, notDone_>>
clientVars == <<socket, unread>>
videoVars == <<group, src, requested>>
setUpVars == <<json, motorsSender_, owners>>
vars == <<setUpVars, mainPc, process, threadVars, clientVars, videoVars>>

Services == {"RobotSettings", "Sensors", "Video", "CommandsService"}
serviceId_ == [RobotSettings |-> 0, Sensors |-> 1, Video |-> 2, CommandsService |-> 3]
Owners == {"network_", "services_", "CommandsCycle"}

(* sender is the "mode" of motorSender; "badFreq" is SPI with a frequency  *)
(* that ends in neither a digit, K nor M.                                  *)
Jsons == [opens : BOOLEAN, mode : {"ROV", "AUV", "unknown"},
          sender : {"SPI", "badFreq", "other"}, sensors : BOOLEAN]

ImageFields == {"brightness", "contrast", "hue", "saturation"}
NoImage == [f \in ImageFields |-> "default"]
Images == [ImageFields -> ImageFields \cup {"default"}]

TypeOK ==
  /\ json \in Jsons
  /\ mainPc \in {"construct", "setUp", "make", "listen", "read", "reply", "refuse",
                 "clear", "delete", "release", "joinLoop", "joinSensors"}
  /\ process \in {"running", "returned", "crashed"}
  /\ motorsSender_ \in {"null", "open", "deleted", "leaked"}
  /\ owners \in [Services -> SUBSET Owners]
  /\ loopPc \in {"none", "test", "read", "send", "done"}
  /\ sensorPc \in {"none", "test", "handle", "done"}
  /\ isNotDone_ \in BOOLEAN
  /\ notDone_ \in BOOLEAN
  /\ socket \in {"none", "open", "lost"}
  /\ unread \in 0 .. MaxUnread
  /\ group \in {"NULL", "PLAYING"}
  /\ src \in Images
  /\ requested \in Images

Init ==
  /\ json \in Jsons
  /\ mainPc = "construct"
  /\ process = "running"
  /\ motorsSender_ = "null"
  /\ owners = [s \in Services |-> {}]
  /\ loopPc = "none" /\ isNotDone_ = TRUE
  /\ sensorPc = "none" /\ notDone_ = TRUE
  /\ socket = "none" /\ unread = 0
  /\ group = "NULL"
  /\ src = NoImage /\ requested = NoImage

(* A step of the main thread from one point to another. *)
Main(from, to) ==
  /\ process = "running"
  /\ mainPc = from
  /\ mainPc' = to
  /\ UNCHANGED <<json, process>>

----------------------------------------------------------------------------
(* From the constructor of Robot to the listening socket.                  *)

(* What is thrown in the constructor of StartSettings leaves its destructor *)
(* uncalled: a sender made before sensors.path is missed is never deleted.  *)
StartSettings ==
  LET parsed == json.opens /\ json.mode # "unknown" /\ json.sender # "badFreq"
      complete == parsed /\ json.sensors
  IN  /\ Main("construct", IF complete THEN "setUp" ELSE "release")
      /\ motorsSender_' = IF ~parsed \/ json.sender # "SPI" THEN "null"
                          ELSE IF complete THEN "open" ELSE "leaked"
      /\ UNCHANGED <<owners, threadVars, clientVars, videoVars>>

SetUp ==
  /\ Main("setUp", IF json.mode = "ROV" THEN "make" ELSE "clear")
  /\ UNCHANGED <<motorsSender_, owners, threadVars, clientVars, videoVars>>

Created == {s \in Services : owners[s] # {}}

WithServiceUnshared(s) ==
  [t \in Services |-> IF t = s THEN {"network_", "services_"} ELSE owners[t]]

(* Who owns what once service s has been made: CommandsService gives its   *)
(* loop shares of two others.                                              *)
WithService(s) ==
  [t \in Services |->
     CASE t = s -> {"network_", "services_"}
       [] s = "CommandsService" /\ t \in {"RobotSettings", "Sensors"} ->
            owners[t] \cup {"CommandsCycle"}
       [] OTHER -> owners[t]]

(* MakeROV, in the order of the identifiers. *)
NextToMake(s) ==
  /\ s \notin Created
  /\ \A t \in Services : serviceId_[t] < serviceId_[s] => t \in Created

(* The threads start here, well before Start. *)
CreateService(s) ==
  /\ Main("make", IF s = "CommandsService" THEN "listen" ELSE "make")
  /\ NextToMake(s)
  /\ owners' = WithService(s)
  /\ sensorPc' = IF s = "Sensors" THEN "test" ELSE sensorPc
  /\ loopPc' = IF s = "CommandsService" THEN "test" ELSE loopPc
  /\ UNCHANGED <<motorsSender_, isNotDone_, notDone_, clientVars, videoVars>>

(* Its constructor throws, the system having no memory or no thread left;  *)
(* when that befalls the sensors' after their handler was made, the        *)
(* handler's destructor joins a thread that was not started, which ends    *)
(* the process.                                                            *)
CreateFails(s) ==
  /\ process = "running"
  /\ mainPc = "make"
  /\ NextToMake(s)
  /\ \/ mainPc' = "clear" /\ UNCHANGED process
     \/ s = "Sensors" /\ process' = "crashed" /\ UNCHANGED mainPc
  /\ UNCHANGED <<setUpVars, threadVars, clientVars, videoVars>>

----------------------------------------------------------------------------
(* Clients, one at a time.                                                 *)

Accept ==
  /\ Main("listen", "read")
  /\ socket' = "open"
  /\ unread' = 0
  /\ UNCHANGED <<motorsSender_, owners, threadVars, videoVars>>

(* The port is taken or no descriptor is left: outside any try of Start. *)
ListenFails ==
  /\ Main("listen", "clear")
  /\ UNCHANGED <<motorsSender_, owners, threadVars, clientVars, videoVars>>

(* What it sent before is still there to be read, unless the connection is *)
(* reset.                                                                  *)
ClientLeaves ==
  /\ process = "running"
  /\ socket = "open"
  /\ socket' = "lost"
  /\ unread' \in 0 .. MaxUnread
  /\ UNCHANGED <<setUpVars, mainPc, process, threadVars, videoVars>>

(* Gstreamer::Start names the property "contrast" three times, and nobody  *)
(* looks at whether the camera could be started.                           *)
ImageSet(s) ==
  [s EXCEPT !["brightness"] = "brightness", !["contrast"] = "saturation"]
GstreamerStart ==
  /\ src' = ImageSet(src)
  /\ requested' = [f \in ImageFields |-> f]
  /\ group' \in {group, "PLAYING"}

StoppedPaused == "PAUSED"
Stopped == "NULL"
GstreamerStop == group' = Stopped /\ UNCHANGED <<src, requested>>

(* ReadData gets a request, of the client or of one that has left. *)
HasRequest == socket = "open" \/ unread > 0
Take(to) ==
  /\ Main("read", to)
  /\ HasRequest
  /\ unread' = IF unread > 0 THEN unread - 1 ELSE 0
  /\ UNCHANGED <<motorsSender_, owners, threadVars, socket>>

VideoStart == Take("reply") /\ GstreamerStart
VideoStop == Take("reply") /\ GstreamerStop

(* START without settings, an unknown service or method, data that does    *)
(* not fit: an exception, whose message is sent from the catch clause.     *)
Refused == Take("refuse") /\ UNCHANGED videoVars

OtherRequest == Take("reply") /\ UNCHANGED videoVars

(* SendResponse; what is written to a client that is gone may still be     *)
(* taken by the kernel.                                                    *)
Reply ==
  /\ Main("reply", "read")
  /\ UNCHANGED <<motorsSender_, owners, threadVars, clientVars, videoVars>>

RefusalSent ==
  /\ Main("refuse", "read")
  /\ UNCHANGED <<motorsSender_, owners, threadVars, clientVars, videoVars>>

(* ConnectionLost of every service, of which only Video has one. *)
ConnectionLostIgnored == UNCHANGED videoVars
ConnectionLost == GstreamerStop

(* An exception inside the try: the socket is closed. *)
ConnectionEnds(from) ==
  /\ Main(from, "listen")
  /\ socket' = "none"
  /\ unread' = 0
  /\ ConnectionLost
  /\ UNCHANGED <<motorsSender_, owners, threadVars>>

ReadFails == socket = "lost" /\ ConnectionEnds("read")
ReplyFails == socket = "lost" /\ ConnectionEnds("reply")
RequestFails == HasRequest /\ ConnectionEnds("read")

(* An exception inside the catch clause leaves Start, and no service hears *)
(* of it.                                                                  *)
RefusalFails ==
  /\ Main("refuse", "clear")
  /\ socket = "lost"
  /\ socket' = "none"
  /\ unread' = 0
  /\ UNCHANGED <<motorsSender_, owners, threadVars, videoVars>>

----------------------------------------------------------------------------
(* ~Robot: the members in the reverse of their order, services_, then      *)
(* startSettings_, then network_ with the services by their identifiers.   *)

Release(o, held) == [s \in Services |-> held[s] \ {o}]

ClearServices ==
  /\ Main("clear", "delete")
  /\ owners' = Release("services_", owners)
  /\ UNCHANGED <<motorsSender_, threadVars, clientVars, videoVars>>

DeleteSender ==
  /\ Main("delete", "release")
  /\ motorsSender_' = IF motorsSender_ = "open" THEN "deleted" ELSE motorsSender_
  /\ UNCHANGED <<owners, threadVars, clientVars, videoVars>>

(* A destructor runs when the last owner lets go.  ~CommandsCycle and      *)
(* ~SensorHandler stop their thread and wait for it.                       *)
FlagForgotten == UNCHANGED isNotDone_
FlagCleared == isNotDone_' = FALSE

ReleaseService(s) ==
  /\ "network_" \in owners[s]
  /\ \A t \in Services : serviceId_[t] < serviceId_[s] => "network_" \notin owners[t]
  /\ owners' = [owners EXCEPT ![s] = @ \ {"network_"}]
  /\ LET dies == owners'[s] = {}
     IN /\ Main("release", IF dies /\ s = "CommandsService" THEN "joinLoop"
                           ELSE IF dies /\ s = "Sensors" THEN "joinSensors"
                           ELSE "release")
        /\ IF dies /\ s = "Video" THEN GstreamerStop ELSE UNCHANGED videoVars
        /\ IF dies /\ s = "CommandsService" THEN FlagCleared ELSE UNCHANGED isNotDone_
        /\ notDone_' = (notDone_ /\ ~(dies /\ s = "Sensors"))
  /\ UNCHANGED <<motorsSender_, loopPc, sensorPc, clientVars>>

(* thread_.join(), then the members of CommandsCycle let go of theirs. *)
JoinLoop ==
  /\ loopPc = "done"
  /\ owners' = Release("CommandsCycle", owners)
  /\ LET dies == owners'["Sensors"] = {}
     IN /\ Main("joinLoop", IF dies THEN "joinSensors" ELSE "release")
        /\ notDone_' = (notDone_ /\ ~dies)
  /\ UNCHANGED <<motorsSender_, loopPc, isNotDone_, sensorPc, clientVars, videoVars>>

JoinSensors ==
  /\ sensorPc = "done"
  /\ Main("joinSensors", "release")
  /\ UNCHANGED <<motorsSender_, owners, threadVars, clientVars, videoVars>>

(* main prints the exception and returns 0. *)
Return ==
  /\ process = "running"
  /\ mainPc = "release"
  /\ \A s \in Services : "network_" \notin owners[s]
  /\ process' = "returned"
  /\ UNCHANGED <<setUpVars, mainPc, threadVars, clientVars, videoVars>>

----------------------------------------------------------------------------
(* The threads.                                                            *)

LoopStep(from, to) ==
  /\ process = "running"
  /\ loopPc = from
  /\ loopPc' = to
  /\ UNCHANGED <<setUpVars, mainPc, isNotDone_, sensorPc, notDone_, clientVars, videoVars>>

LoopTest ==
  /\ LoopStep("test", IF isNotDone_ THEN "read" ELSE "done")
  /\ UNCHANGED process

(* GetSettings of RobotSettings and GetSensorsStruct of Sensors. *)
LoopRead ==
  /\ LoopStep("read", "send")
  /\ UNCHANGED process

(* A call through a null reference ends the process; one through an object *)
(* that was deleted may, or it may go unnoticed.                           *)
SendMotorsStruct ==
  /\ LoopStep("send", "test")
  /\ process' \in CASE motorsSender_ = "null" -> {"crashed"}
                   [] motorsSender_ = "deleted" -> {"running", "crashed"}
                   [] OTHER -> {"running"}

SensorStep(from, to) ==
  /\ process = "running"
  /\ sensorPc = from
  /\ sensorPc' = to
  /\ UNCHANGED <<setUpVars, mainPc, process, loopPc, isNotDone_, notDone_, clientVars, videoVars>>

SensorTest == SensorStep("test", IF notDone_ THEN "handle" ELSE "done")
SensorHandle == SensorStep("handle", "test")

----------------------------------------------------------------------------
StartUp == StartSettings \/ SetUp \/ \E s \in Services : CreateService(s) \/ CreateFails(s)

Requests == VideoStart \/ VideoStop \/ Refused \/ OtherRequest \/ RequestFails

Answers == Reply \/ ReadFails \/ ReplyFails \/ RefusalFails

Destruction ==
  \/ ClearServices \/ DeleteSender
  \/ \E s \in Services : ReleaseService(s)
  \/ JoinLoop \/ JoinSensors \/ Return

Loop == LoopTest \/ LoopRead \/ SendMotorsStruct
SensorThread == SensorTest \/ SensorHandle

Ended == process # "running" /\ UNCHANGED vars

Next ==
  \/ StartUp
  \/ Accept \/ ListenFails \/ ClientLeaves
  \/ Requests \/ Answers \/ RefusalSent
  \/ Destruction
  \/ Loop \/ SensorThread
  \/ Ended

(* The three threads run at the same priority, SCHED_RR 99, and take turns. *)
(* Nothing makes a client connect, ask or leave.                            *)
Fairness ==
  /\ WF_vars(StartUp)
  /\ WF_vars(Answers)
  /\ WF_vars(RefusalSent)
  /\ WF_vars(Destruction)
  /\ WF_vars(Loop)
  /\ WF_vars(SensorThread)

Spec == Init /\ [][Next]_vars /\ Fairness
----------------------------------------------------------------------------
(* Properties.                                                             *)

Unwinding == mainPc \in {"clear", "delete", "release", "joinLoop", "joinSensors"}

(* No thread uses what is gone: the loop finds the settings and the        *)
(* sensors, a request its service, and the sensors outlive their thread,   *)
(* whatever was destroyed before; the motors sender alone is safe only     *)
(* until an exception unwinds main.                                        *)
UsesOnlyWhatLives ==
  process # "crashed" =>
    /\ loopPc \in {"read", "send"} => owners["RobotSettings"] # {} /\ owners["Sensors"] # {}
    /\ loopPc = "send" /\ motorsSender_ = "deleted" => Unwinding
    /\ mainPc \in {"listen", "read", "reply", "refuse"} => Created = Services
    /\ owners["Sensors"] = {} /\ sensorPc = "handle" => mainPc = "joinSensors"

(* The video does not outlive its client, whether the session notices that *)
(* it is gone or an exception takes the session away, and whatever the     *)
(* client had still asked for when it left.                                *)
VideoEnds == socket = "lost" ~> group = "NULL" \/ process = "crashed"

(* An exception that reaches main ends the process: no destructor waits    *)
(* for a thread that waits for it, and none is skipped.                    *)
Exits ==
  Unwinding ~>
    \/ process = "crashed"
    \/ /\ process = "returned"
       /\ Created = {}
       /\ loopPc \in {"none", "done"} /\ sensorPc \in {"none", "done"}
       /\ group = "NULL"

(* The picture is what VideoMessage.proto lets the client choose: its      *)
(* brightness, contrast, hue and saturation.                               *)
CameraAsRequested == group = "PLAYING" => src = requested
=============================================================================
