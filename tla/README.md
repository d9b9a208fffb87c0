# A TLA+ model of the PolarUV robot

PolarUV-robot is the program of an underwater vehicle: it serves one pilot over
TCP, turns the pilot's commands into motor messages 400 times a second, reads
two I2C sensors, keeps its settings in a file and streams video. This directory
holds TLA+ modules that model its concurrent and stateful parts, TLC
configurations that check them on small instances, and proofs that TLAPS checks
for every value of the constants. All source paths below are relative to `src/src/`.

## 1. The system

| component | state it keeps | operations | talks to |
|---|---|---|---|
| `Startup.cpp`, `Robot/Robot.*`, `StartSettings` | the members of `Robot`, the motors sender | construct, `SetUp`, `Start`, destroy in reverse | everything |
| TCP session (`Lib/TcpSession`) | the listening and the client socket, one buffer, the map of services | accept, read, decompress, find, act, compress, reply; `ConnectionLost` | the client; the services, by calls on the main thread |
| Command service and loop (`Robot/Features/Commands`) | `CommandsQueue` (mutex, command, counter), the loop's thread, the regulators | `Write` (main thread); one cycle in 2.5 ms (own thread); destructor | sensors, settings, motors sender |
| Stabilization and PID | `is_`, `prevErrors_`, `values_`, pointers to coefficients | `Set*Coefficients`, `Calculate`, `Reset` | only the loop |
| Robot settings (`Robot/Features/RobotSettings`) | the file, `settings_` under a mutex | construct from file, `WriteValidate`, `Write`, `Read`, `GetSettings` | client (main thread), loop (other thread), file system |
| Sensor handler (`Lib/Peripheral/SensorHandler.cpp`, `Coruitine.hpp`, `Schedular/Event.hpp`) | one context a sensor: state, two coroutines, a timer; its thread | register, epoll loop, destructor | the coroutines of the drivers |
| Drivers (`BNO055_I2C`, `MS5837_I2C`) | position of each coroutine, calibration, filters, last sample under a mutex | `Init`, `ReadData`, `GetData` | the I2C bus |
| Sensors service | handler and sensors | `Read`, `GetSensorsStruct` | client and loop |
| Video, GStreamer | a pipeline | `Write` START and STOP, `Read`, `ConnectionLost` | client, GStreamer |
| Motors sender, SPI | a descriptor | `SendMotorsStruct` | loop |
| Vectors, matrices, filters, CRC, PWM | none, or a window of samples | pure functions | loop, drivers |

Three threads run: the main thread (TCP session and all the services' handlers),
the command loop and the sensor thread. They share `CommandsQueue` under
`commandsMutex_`, `settings_` under `settingsMutex_`, each sensor's `data_` under
its `dataMutex_`, and two atomic flags that the destructors clear.

What is hard: the interleaving of copies under the mutexes; a watchdog that is a
counter compared for equality; coroutines suspended across failures of a sensor;
exceptions that leave a handler; what a truncated or torn file leaves behind;
what must happen eventually (motors stop, sensors come back, destructors return).
`PROJECT.json` lists every hazard at its line, with the property that would catch
it or the reason why none does.

## 2. The modules

| module | models | proofs in |
|---|---|---|
| `PID` | what `PIDArray` remembers, as the origin of each value | `CommandsCycle_proofs` |
| `DeadMan` | abstract: a command drives the motors a bounded number of times, then the neutral one does | |
| `CommandsCycle` | `CommandsService`, `CommandsCycle`, `CommandsQueue` | `CommandsCycle_proofs` |
| `DurableRegister` | abstract: settings change and are taken in one step; the client is told of them, and how long they stay depends on how far they had come | |
| `RobotSettings` | `RobotSettings` and its file | `RobotSettings_proofs` |
| `Actuation` | the arithmetic of one cycle, from a command to the PWM | `Actuation_proofs` |
| `Exchange` | abstract: one client at a time, each request acted upon at most once and answered once | |
| `TcpSession` | `TcpSession::Start` and the dispatch to services | `TcpSession_proofs` |
| `Drivers` | the coroutines of the two sensors, one resumption at a time | |
| `SensorHandler` | the event loop, timers, task handshake, sensors and bus | `SensorHandler_proofs` |
| `Filters` | `MovingAverage` and `CircleMovingAverage` | `Sensors_proofs` |
| `MS5837` | the PROM of the depth sensor and its checksum | `Sensors_proofs` |
| `Sensors` | from calibration and filters to the snapshots of the two sensors | `Sensors_proofs` |
| `Robot` | the life of the process, its threads, owners and video | `Robot_proofs` |
| `Induction` | nothing of the code: induction over the natural numbers, stated for sets | itself |
| `MC*` | constants for TLC, and in `MCSensorHandler` one sensor at a time | |

`Robot` composes the whole by what the parts share: who owns whom, who waits for
whom, and what a client leaves behind. The inside of its requests, of the loop and
of the sensor thread is in the other modules. `Sensors` stands between the two
modules before and after it: what `SensorHandler` calls the publication of a
sample passes a filter and `SetData` there, and what `CommandsCycle` and `Actuation`
call the rotation is a snapshot.

### CommandsCycle

The main thread takes one step for the lock, one for the reset of the counter,
one for each field copied and one for the unlock; the loop does the same in
`GetCommands` and then stabilizes or resets, sends and sleeps. A `CommandsStruct`
is a function from its fields to the command each came from, so that a torn copy
is a function that is not constant. `requestsCount_` wraps at `WRAP`, as a
`size_t` does. `added` and `uses` are history variables that no guard reads. The
addresses of the coefficients, which the regulators keep from one cycle to the next, are
not modelled: they are read by `Calculate` alone, in the cycle that has just set them.

Several definitions come in pairs (`CountKept`, `CountReset`): the second of each
is what the code does, the other is the mutant that must break a property.

* `NeverTorn`: commands are used and stored whole.
* `StoredCommandExpires`: the queue holds the last command until the `MAX_COUNT`-th
  cycle asks for it, which gets the neutral one like every cycle after it, also when the
  counter wraps: a command drives `MAX_COUNT` - 1 cycles.
* `RegulatorForgets`: a regulator's integral and difference are of one session.
* `QuietOnceJoined`, `DestructorReturns`: the end of the thread.
* `FailSafe`: if the client stops sending, the motors end up and stay neutral.
* `ImplementsDeadMan`: every behaviour is one of `DeadMan`; the refinement mapping is
  above it in the module.
* `CorrectionForgets` is violated (see section 5).

### RobotSettings

A message is the numbers the code looks at: how many coefficients, how many
regulators, whether one is too large, whether `pid_enabled` is there. `file` is
what the process would read, `storage` what a loss of power leaves. Opening and
writing may fail unnoticed, the process may end between any two steps and the
power may be lost; the file is then the old one, empty or a prefix. The client is
answered with success also when the file took nothing or a part: `Return` says so
(`acknowledged`), whatever `unsaved` is.

* `SettingsFit`: settings in use never exceed the twelve channels, the hand's four
  coefficients or the limit of 100, also when they come from a torn file that is
  not validated again.
* `FileAgrees`: memory and file hold the same, unless the file failed.
* `AcknowledgedSurvives`: what the client was told of is in force until the next write,
  unless it was `lost`, which the end of the process does to it when the file had not
  taken all of it, and a loss of power when the storage had not. A client that was told
  of success cannot know which of these is the case: the code does not look.
* `ImplementsDurableRegister`: every behaviour is one of `DurableRegister`. The settings
  in force (`InForce`) are those of the file until the constructor has run, those of the
  message while `SetSettings` copies it, and `settings_` otherwise: the write takes
  effect when it takes the mutex, and the loop takes the settings when it gives the
  mutex back. Half a message never reaches the loop, and nothing but a write, a restart
  or a loss of power changes what is in force. What the client was told of (`Told`) is the
  message of the write that was answered, and how far it has come (`Reach`) is what a
  restart would find of it: `"memory"` while the file has not taken it, or will never,
  `"file"`, or `"storage"`. The register gives a restart and a loss of power the freedom
  that each of the three leaves, and no more.
* `RepliesAreComplete` is violated (see section 5).

### Actuation

One cycle as a computation: `Gather` takes any of the given commands, settings and
samples, `Manual` or `Stabilized` computes the message, `Sleep` ends the cycle. A
vector of floats is a record of integers over one denominator, so that
`Normalize`, the shift to [0; 2000] and the rounding up of `FormMotorsStruct` are
exact; floating point, which may move a channel by one, is not modelled. What the
regulators and the sines make of the errors is any vector of `Forces`, normalized.

* `PWMInRange`: every channel is within [0; 2000], provided that the hand's command
  is within the stick's range, which the code assumes and does not check.
* `DirectionKept`, `DemandMet`: limiting neither turns the thrust nor wastes it, nor
  amplifies a small one, and the hand leaves the thrusters' channels alone.
* `ErrorIsDistance`: the regulators get the distance on the circle. It says nothing
  of the sign: beyond 180 degrees the code gives the distance with the sign
  opposite to the shortest way (`Stabilization.hpp:105`), and no text of the
  repository says which is meant.

### TcpSession

The bytes under way are a sequence of units, one for a header and one for a
body. Each way a request can end is an action: too large, not decodable, no such
service, no such action, refused, performed, failed; each way a reply can fail is
another. A request that is too large leaves its body unread; from then on what
the server reads is arbitrary (`inStep`) and the properties about replies claim
nothing more.

* `RepliesInOrder`, `RepliesTellTheTruth`: one reply each, in order, that says what
  happened.
* `ImplementsExchange`: every behaviour is one of `Exchange`, where a request is asked,
  acted upon at most once, and answered, and a client is accepted when all services
  know that the last has gone. Reading, decoding, finding, compressing and every error
  before the reply are steps that leave the exchange alone; `Perform` acts, `SendResponse`
  and `Report` answer, and the body that is left unread leads astray.
* `ListensOnlyWhenNotified`: every service knows of the loss of a client before
  the next is accepted.
* `ClosedIsNoticed`, `Answered`: liveness. A link that breaks without a word to the
  server is never noticed by the code, which has no timeout, and neither in the model;
  `ClosedIsNoticed` is about a client whose end reaches the server.
* `RepliesNameTheirEndpoint` is violated (see section 5).

### Drivers and SensorHandler

A coroutine is at a point, the `co_await` it is suspended at. One resumption
performs some transfers, of which the first k are answered. The handler has an
epoll batch, a timer a sensor, and the `isActive` flag that a call of a
`SensorTask` returns and replaces. Sensors lose power and restart, the bus fails
and recovers, the chip's own reset makes it silent until it restarts.

* `ReadsOnlyWhenSetUp`: although contexts start `Online`, nothing is measured before
  `Init` succeeded.
* `SamplesOfOneSession`: a published sample was measured as a whole by a sensor
  that was set up.
* `PowerLossNoticed`, `Recovers`, `DestructorReturns`. `Recovers` is about registered
  sensors: one that epoll does not take has no context, and nobody is told.

### Filters, MS5837 and Sensors

What the sensors will measure is chosen at the start, and a sample is then known
by its number, so that filters and snapshots can be compared with it. A word of
the PROM is the set of its one bits, with which CRC4 is shifts and symmetric
differences. An average is kept as its sum. Angles are multiples of 60 degrees,
whose cosine and sine are exact up to a common factor, but for 180, whose sine is
not zero in floating point and has its own value.

* `CalibrationIsTheSensors`: words with an error are never used as calibration, and
  words without one always are, for the errors the bus makes: bursts of up to four
  bits anywhere, across words too, and a word read as zero. (Longer ones pass the
  four bits of the checksum one time in sixteen.)
* `SnapshotIsCurrent`: each half of a snapshot is one whole sample, no older than
  what was published when it was asked for. That the halves are of one time does not
  hold, and nothing needs it.
* `FiltersSettle`: after as many equal samples as a filter is long it returns them,
  whatever came before, including the zeros of the start and angles across 0/360.

### Robot

The main thread goes through the constructor of `Robot`, `SetUp`, the services one
after the other, and the session; `json` is any `Settings.json` that makes a
difference. `owners` has for each service who holds a shared pointer to it:
`network_`, `services_` and, for two of them, the command loop. An exception that
leaves `Start` destroys the members in the reverse of their order, step by step,
while both threads go on until their destructor joins them. Of the video there is
the state of the pipeline and, for each property of the picture, the field of the
request that the camera was given. A service may fail to be made (`CreateFails`), which
unwinds `main` with those made so far, or ends the process when the handler of the sensors
is destroyed before its thread was started. A client may leave requests behind (`unread`):
they are still read and performed before its loss is noticed, unless the connection was
reset.

* `UsesOnlyWhatLives`: no thread uses what is gone, the motors sender excepted, which
  the loop may send through after its deletion, but only while main unwinds.
* `VideoEnds`: the video stops when its client is lost, however that is found out and
  whatever it had still asked for, a START among it; after an error reply that fails it is only `~Video` that stops it.
* `Exits`: an exception that reaches main ends the process with every service
  destroyed and both threads joined; the destructors' waits cannot block each other.
* `CameraAsRequested` is violated (see section 5).

## 3. The runs

| run | what it shows | bounds |
|---|---|---|
| `CommandsCycle` | all of the above about the loop | 3 commands (neutral, manual, stabilized), 2 fields, `MAX_COUNT` 3, `WRAP` 5 |
| `CommandsCycleReset` | violation of `CorrectionForgets` | the same |
| `RobotSettings` | all of the above about the settings | 7 messages: good, at the limit, over it, too large, without regulators, torn |
| `RobotSettingsReply` | violation of `RepliesAreComplete` | the same |
| `Actuation` | the arithmetic of a cycle, over vectors and angles on both sides of every case | 5 channels, half and whole sticks, rows that exceed, meet and miss the range |
| `TcpSession` | all of the above about the session | 2 services, 8 headers that between them fail in every way, 2 requests a connection, 2 connections |
| `TcpSessionEndpoint` | violation of `RepliesNameTheirEndpoint` | the same |
| `SensorHandler` | safety with both sensors | 1 sensor of each kind, 1 retry |
| `SensorHandlerAlone` | liveness | at most one sensor registered, of either kind, 2 retries |
| `Sensors` | calibration, filters and snapshots | filters of 2 samples, 4 samples a sensor, 2 readers; 540 errors of the PROM |
| `Robot` | all of the above about the process | a client leaves at most 2 requests behind (`MaxUnread`); every setting, every order |
| `RobotCamera` | violation of `CameraAsRequested` | the same |

The bounds are enough because: two fields are the fewest that can be torn; a
counter that wraps at 5 with a limit of 3 passes its limit twice; the second
connection is the first that can see what the first left behind; two requests let
each way a request can be answered come before each way the next can end; the sensors share nothing but the
batch, so that liveness is checked of one at a time and interference of both
together. Filters of 2 have, after 4 samples, filled and wrapped twice; the code's
hold 2, 10 and 20, by the same template. The PROM is read before the first sample
and the first snapshot: when `Init` runs again is the subject of `SensorHandler`.
The commands and targets of `Actuation` are in the ranges a stick and a compass
have, its rotations in [0; 360), as `CircleMovingAverage` leaves them. Two requests left
behind let a START that was not read follow a STOP or an error that ends the session.

Deadlock is checked in every run. `TcpSession` and `CommandsCycle` have an explicit
step for where the program rests (`Idle`, `Terminated`), and so have `SensorHandler`
(`Gone`) and `Robot` (`Ended`).

## 4. Fairness

* The operating system runs every thread that can run: `WF` of the loop, of the
  server and of the sensor thread, and of a call the main thread has begun.
* Timers expire (`WF` of `TimerExpires`), a sensor whose power is back restarts.
* Nothing makes a client connect, send or close, a destructor be called, a bus
  recover or power return: `FailSafe`, `Answered` and `Recovers` say what they
  need of these as a premise.
* In `Robot` the three threads have the same priority of `SCHED_RR` (`Lib.cpp:17`,
  inherited by threads), so each runs; a call that has begun goes on, and a write to
  a client that is gone either succeeds or fails. Being accepted is not assumed, nor
  is a request, an exception or a lost client.
* Weak fairness is enough: no two threads compete for ever for a mutex, since the
  loop sleeps and the client's calls are not assumed to go on.

## 5. What disagrees

* `CorrectionForgets`: `DArray::Reset` leaves `values_` (`PID.hpp:237`), while the loop
  says that the cycle without stabilization resets its parameters
  (`CommandsCycle.cpp:78`). The derivative of an earlier session reaches the motors.
* `RepliesNameTheirEndpoint`: `TcpSession.cpp:117` gives the length of the data
  where `Packet.hpp:99` declares `endpointId`.
* `RepliesAreComplete`: the message `Read` makes up lacks `pid_enabled`, which
  `RobotSettingsMessage.proto:34` requires.
* `CameraAsRequested`: `Gstreamer.cpp:29` to `:31` set the property `contrast` three
  times, to contrast, hue and saturation; `VideoMessage.proto:13` requires a client to
  send all of them.

## 6. What is proved

TLAPS checks the proofs for every value of the constants that satisfies the named
assumptions; TLC checks the same properties on the instances above.

`CommandsCycle_proofs` (assumptions `CommandsAssumption`: the neutral command is one
of the commands and does not stabilize, and `None` is none of the values it stands
beside; `CountAssumption`: `MAX_COUNT` is positive and below `WRAP`):

| theorem | property |
|---|---|
| `TypeCorrect` | `TypeOK` |
| `CopiesAreWhole` | `NeverTorn` |
| `CommandsExpire` | `StoredCommandExpires` |
| `RefinesDeadMan` | `ImplementsDeadMan` |
| `SessionsAreApart` | `RegulatorForgets` |
| `QuietAfterJoin` | `QuietOnceJoined` |

None of these is inductive by itself: `NeverTorn` is about copies that are
complete, and is kept only because whoever is in the middle of a copy holds the
mutex. The inductive invariant adds who holds it, what a copy that is not complete
consists of, and how the history relates to the counter between two of its steps.

`RobotSettings_proofs` (assumption `SettingsAssumption`: the messages are messages
and differ from the names of the threads and from `Empty` and `None`):

| theorem | property |
|---|---|
| `TypeCorrect` | `TypeOK` |
| `SettingsAlwaysFit` | `SettingsFit` |
| `FileAndMemoryAgree` | `FileAgrees` |
| `AcknowledgedIsDurable` | `AcknowledgedSurvives` |
| `RefinesDurableRegister` | `ImplementsDurableRegister` |

The inductive invariant has five parts beside the type: what is being written has
been accepted (`DataInv`), the mutex is held exactly while copying (`LockInv`), the
fields that have been copied are those of the source (`CopyInv`), the file is what
memory holds or is about to hold, unless a write failed (`FileInv`), and what is in
the file, on the storage, in memory and in the loop's copy fits (`FitInv`).
`SettingsFit` needs the last one for the file although nothing validates a file:
`TornIsSmall` proves that a prefix of what was accepted holds no more than it.
It is small without `thrusters` being a multiple of six, which a torn file need
not be; that is why `Small` and `Accepted` differ.

The refinement follows from the same invariant, action by action. Its two steps that
take more than their definitions are the unlockings: when the main thread gives the
mutex back `settings_` is the message as a whole, and when the loop does its copy is
`settings_`, both by `CopyInv` and because a struct is known by its fields
(`CopiedWhole`). After `Crash` and `PowerLoss` what is in force is what the file has;
`FitInv` makes it one of the register's values, and `FileInv` the value that was in force
before, if that had reached the file. The register keeps its value over a loss of power
only once it was on the storage: the code never synchronizes the file, and the kernel
decides when that is. That the client is told of the value in force and of no other is
`ToldInv`, proved by a second induction on top of the first: the write that was answered
is the one in memory, or has been lost. Since `WriteData` answers success whatever became
of the file, none of this promises the client that its settings outlive the process; the
two statements say on what that depends.

`SensorHandler_proofs` (assumption `DriversAssumption`: a sensor has one driver, and
`MAX_TRIES` is a natural number):

| theorem | property |
|---|---|
| `TypeCorrect` | `TypeOK` |
| `ReadsFollowInit` | `ReadsOnlyWhenSetUp` |
| `SamplesAreWhole` | `SamplesOfOneSession` |

Two lemmas, `ReadStep` and `InitStep`, say what one call of a coroutine does at every
point of either driver; what the handler does with it needs nothing else of `Drivers`.
The inductive invariant has three parts a sensor. `TaskInv` is why the handshake
works at all: `Init` is never active, so that only its `co_yield true` makes a
sensor Online, and `ReadData` is inactive exactly before its first call, which is what
sends a new sensor to `Init`. `SetupInv` ties the point `Init` has reached to what
the sensor has been told, up to a loss of power that no transfer has met yet.
`SampleInv` says that a sample past its first part is of a sensor that was set up.

`Sensors_proofs` (assumptions `FiltersAssumption`, a filter has a size;
`SensorsAssumption`, the readers differ from the thread and from the names of the
sensors and the samples are degrees and natural numbers; `PromAssumption`, about the
PROM and the bus, see below):

| theorem | property |
|---|---|
| `TypeCorrect` | `TypeOK` |
| `SnapshotsAreCurrent` | `SnapshotIsCurrent` |
| `FiltersForget` | `FiltersSettle` |
| `CalibrationIsVerified` | `CalibrationIsTheSensors` |

`TypeOK` includes that the index of a filter stays within its ring. The invariant of the
snapshots adds which halves of the stored data are of which sample while `SetData` is
between them (`PublishedInv`), that a thread holds a mutex exactly between the two
halves of its copy (`HolderInv`), and that half a copy is what is stored (`CopyInv`).

For the filters `RingInv` says where in the ring each of the last samples is, counting
back from the index, which wraps before a sample is stored: the last `Size` samples
fill the ring, so that equal ones make its sum `Size` times theirs (`TotalOfSame`). The
theorem holds for rings of every size, the code's 2, 10 and 20 among them.

For the checksum the proof follows the reason why a CRC works. Each step of the division
is linear over the bitwise sum (`DivideLinear`, `DivideByteLinear`), and so are the bytes
(`BytesLinear`) and the whole (`ChecksumIsLinear`). An error therefore changes the
checksum of any PROM as it changes that of a blank one (`ErrorsOnBlank`).
`PromAssumption` asks of the sensor that its words are not zero and carry their
checksum, and of each error that it empties a word or would show on a blank PROM; TLC
evaluates it for every error of the run. What the theorem adds is every PROM a maker
may have programmed, of which the run has one.

`TcpSession_proofs` (assumption `SessionAssumption`: services are numbers with sets of
request types, and the bounds are natural numbers):

| theorem | property |
|---|---|
| `TypeCorrect` | `TypeOK` |
| `RepliesAreInOrder` | `RepliesInOrder` |
| `RepliesAreTrue` | `RepliesTellTheTruth` |
| `RefinesExchange` | `ImplementsExchange` |
| `PerformedInOrder` | services perform the requests in the order they were sent (`PerformedOnce`, in the module of the proofs) |
| `ListensLast` | `ListensOnlyWhenNotified` |

The properties are about what has been sent and performed, and hold because of what is
still in the stream. The inductive invariant says that the stream goes on exactly
where the server is, headers and bodies in turn, up to the last request sent
(`StreamInv`); that the request in hand is the first without a reply (`NumberInv`); that
whatever has been performed has its reply or is in hand, and that an error is reported
of what was not performed, or did not fit the buffer (`ReplyInv`); and that the socket
is open exactly while a client is served (`ConnInv`). All but the last hold only while
the client and the server are in step.

The refinement needs one thing more, that nothing is read or handled that was not sent
(`SentInv`), in step or not: it is what `Exchange` means by answering after asking. A
request is not performed before `Perform` (`HandledIsNotDone`), because `ReplyInv` has
every earlier one among those with a reply.

`Actuation_proofs` (assumptions `ActuationAssumption`, about the shapes of the inputs and
what `RobotSettings` guarantees of the settings, and `AngleAssumption`, see section 7):

| theorem | property |
|---|---|
| `TypeCorrect` | `TypeOK` |
| `ErrorsAreDistances` | `ErrorIsDistance` |
| `PWMIsInRange` | `PWMInRange` |
| `DirectionIsKept` | `DirectionKept` |
| `DemandIsMet` | `DemandMet` |

The invariant (`InputsInv`, `SentInv`) ties the message to the inputs it was computed
from; the rest is arithmetic. `LargestIs` proves, by induction over the channels, that
what `Normalize` compares with is the largest absolute value of the vector, and
`CeilBounds` and `CeilUnique` are all that is needed of rounding. `RatioKept` is where the
rounding of two thrusters meets: each adds less than one, which the other's demand
multiplies. `ProductIsThrusts` gives the channels above `ThrustersNumber` no thrust, as the
settings have no coefficients there; that is why the hand can be written into them.

`Robot_proofs` (assumption `UnreadAssumption`: `MaxUnread` is a natural number):

| theorem | property |
|---|---|
| `TypeCorrect` | `TypeOK` |
| `NothingIsUsedAfterItsEnd` | `UsesOnlyWhatLives` |

The invariant is who keeps whom: the loop holds its shares until its thread has ended
(`LoopInv`); the sensors exist until theirs has, or are being destroyed (`SensorInv`);
`network_` holds every service that was made until it is itself destroyed
(`NetworkInv`), and only a complete set of services is served (`ServedInv`); the motors
sender is deleted on the way out and nowhere else (`SenderInv`).

Induction over data needs a word. The induction theorems of the library take a
predicate as a parameter, which the provers here cannot instantiate. `Induction`
derives from `WFMin`, which takes a set, that a set with zero and with the successor of
each of its numbers has all of them (`NaturalsFrom`); the induction hypothesis is then
membership in a set that the proof defines. With it the recursive functions of
`Filters`, `MS5837` and `Actuation` are proved for every size, which is why they are
functions and not recursive operators.

Each of these invariants was also checked by TLC on the instance of its module's run.

Only model-checked: liveness (`FailSafe`, `DestructorReturns`, `Answered`,
`ClosedIsNoticed`, `PowerLossNoticed`, `Recovers`, `VideoEnds`, `Exits`), which is beyond
the prover. Every other property of the passing runs is a theorem. The abstract
specifications `DeadMan`, `DurableRegister` and `Exchange` state no fairness, so that the
three refinements are proved as a whole.

## 7. What is assumed and what is left out

* A sensor that lost its power leaves at least one transfer unanswered before it
  answers again: an outage between two polls, with nothing sent meanwhile, cannot be
  seen by the driver, and `SamplesOfOneSession` would not hold.
* A BNO055 that is reset answers within the polls `Init` grants it.
* In `SensorHandler` a checksum passes or fails; `Sensors` has what it is computed
  from. The conversion of the registers, a factor and a sign each, and the
  compensation of the pressure (`MS5837_I2C::Calculate`), whose products of 64 bits
  are beyond TLC's integers, are not modelled.
* In `Actuation` the samples are whole degrees in [0; 360), the pitch within the quarters
  [270; 90] that a comment of `Calculate` names (`Stabilization.hpp:97`), and the
  targets within half a turn of zero, or in [0; 360] for the heading
  (`AngleAssumption`). `Calculate` brings an error to the circle once, which is enough
  for these and not for any two angles.
* In `Sensors` an error of the bus empties a word or is one that the checksum notices
  (`PromAssumption`). Any code of four bits misses one error in sixteen; the run has the
  bursts of up to four bits, none of which it misses.
* A call through the null or the deleted motors sender is undefined behaviour: the
  first ends the process, the second may.
* A message with fewer than four regulators is parsed with undefined behaviour: its
  gains are the value `"undefined"`, and `Crash` may follow. A coefficient that is not a
  number passes the comparison with 100 (`RobotSettings.cpp:68` to `:93`); `tooLarge` is the
  outcome of the comparison, and what such a coefficient does is not modelled.
* `TcpSession` takes compression as an outcome: it fits or it does not. Its clients send
  frames that decompress: the error code of `ZSTD_decompress`, which `BufferType.hpp:58`
  takes for a size, is left out. A body whose size is not that of a command is refused by
  `Write` of the commands; that is one of `TcpSession`'s refusals (`Refuse`) and nothing
  in `CommandsCycle`. The
  timeouts `TcpSession.hpp` declares are used nowhere.
* Signals, `ioctl` and `epoll` failures, wiring and the motor controller are outside.
* What GStreamer does with the pipeline, and `ScanCameras`, which asks it for the
  cameras, are external; whether the pipeline could be started is not looked at by
  the code, and is either in the model.
* The logger, the exception classes, `Nothing`, the dynamic `Vector.hpp` and
  `Matrix.hpp`, `Singleton`, and the transports and sensors the robot never
  constructs (`Socket`, `UART`, ADS1115, BMP280) have no behaviour of the robot.

## 8. The plan

1. Done: `CommandsCycle` with `DeadMan`, `RobotSettings` with `DurableRegister`, `Drivers`
   with `SensorHandler`, `Sensors` with `Filters` and `MS5837`, `TcpSession` with `Exchange`,
   `Actuation`, and `Robot` with the video, all with proofs: each safety and action
   property of a passing run, and each of the three refinements, is a theorem.
2. Worth stating next: that the video of `Robot` and the session of `TcpSession` agree on
   when a client is gone, as a refinement; and what the drivers promise their handler,
   as an abstract sensor that `Drivers` implements. The invariants of both sides say
   as much already, one module at a time.
3. Left as they are: the sizes of `Transfer`'s buffer, an outcome in `TcpSession`;
   `Calculate` of the depth sensor.
