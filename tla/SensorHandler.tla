--------------------------- MODULE SensorHandler ---------------------------
(***************************************************************************)
(* The thread of SensorHandler: an epoll loop over one timer a sensor,     *)
(* whose expiry resumes the coroutine the sensor's State selects, ReadData *)
(* when Online and Init when Offline.  Around it, the sensors and the bus, *)
(* which fail and come back, and the destructor.                           *)
(*                                                                         *)
(* Every context starts Online, and nothing tells the handler to run Init  *)
(* first: what does is isActive, which a call of a SensorTask returns and  *)
(* replaces by its argument.                                               *)
(***************************************************************************)
EXTENDS Drivers

VARIABLES
  sensors_,    \* the sensors that could be registered: the others have no context
  pc,          \* where the thread is
  batch,       \* the sensors whose events Listen returned and are to be handled
  notDone_,    \* cleared by the destructor
  mainPc,      \* "running", "join" or "gone"
  timer,       \* each sensor's timer: "armed", "expired" or "disarmed"
  State,       \* each context's State
  Init,        \* each context's Init: [at, isActive]
  ReadData,    \* each context's ReadData
  sample,      \* where the parts of the sample being read come from
  data_,       \* where the parts of the sample last given to SetData come from
  powered,     \* the sensor answers
  setup,       \* how far it is set up, see Drivers
  lost,        \* it lost its power, and no transfer has failed since
  busFails     \* the bus or the wiring to the sensor is failing

taskVars == <<State, Init, ReadData>>
loopVars == <<pc, batch>>
sampleVars == <<sample, data_>>
deviceVars == <<powered, setup, lost>>
vars == <<sensors_, loopVars, notDone_, mainPc, timer, taskVars, sampleVars, deviceVars, busFails>>

(* A part of a sample was measured by a sensor that was set up or not, or  *)
(* belongs to a sample that was begun before the sensor was last Offline.  *)
Parts == {"ready", "unready", "old"}

TypeOK ==
  /\ sensors_ \subseteq Sensors
  /\ pc \in {"test", "listen", "handle", "done"}
  /\ batch \subseteq Sensors
  /\ notDone_ \in BOOLEAN
  /\ mainPc \in {"running", "join", "gone"}
  /\ timer \in [Sensors -> {"armed", "expired", "disarmed"}]
  /\ State \in [Sensors -> {"Online", "Offline"}]
  /\ Init \in [Sensors -> [at : [point : InitPoints, tries : 0 .. MAX_TRIES],
                           isActive : BOOLEAN]]
  /\ ReadData \in [Sensors -> [at : [point : ReadPoints, tries : {0}], isActive : BOOLEAN]]
  /\ sample \in [Sensors -> SUBSET Parts]
  /\ data_ \in [Sensors -> SUBSET Parts]
  /\ powered \in [Sensors -> BOOLEAN]
  /\ setup \in [Sensors -> Setups]
  /\ lost \in [Sensors -> BOOLEAN]
  /\ busFails \in [Sensors -> BOOLEAN]

NewTaskActive == [at |-> At("start"), isActive |-> TRUE]
NewTask == [at |-> At("start"), isActive |-> FALSE]

(* What CreateSensor leaves of the sensors asked for: one whose timer epoll *)
(* does not take is dropped again, and nobody is told.                      *)
RegisterSensor == sensors_ \in SUBSET Sensors

(* After CreateSensor of each sensor and StartAsync. *)
HandlerInit ==
  /\ RegisterSensor
  /\ pc = "test"
  /\ batch = {}
  /\ notDone_ = TRUE
  /\ mainPc = "running"
  /\ timer = [s \in Sensors |-> "armed"]
  /\ State = [s \in Sensors |-> "Online"]
  /\ Init = [s \in Sensors |-> NewTask]
  /\ ReadData = [s \in Sensors |-> NewTask]
  /\ sample = [s \in Sensors |-> {}]
  /\ data_ = [s \in Sensors |-> {}]
  /\ powered \in [Sensors -> BOOLEAN]
  /\ setup = [s \in Sensors |-> "none"]
  /\ lost = [s \in Sensors |-> FALSE]
  /\ busFails = [s \in Sensors |-> FALSE]

----------------------------------------------------------------------------
(* The sensors, the bus and the clock.                                     *)

TimerExpires(s) ==
  /\ s \in sensors_
  /\ timer[s] = "armed"
  /\ timer' = [timer EXCEPT ![s] = "expired"]
  /\ UNCHANGED <<sensors_, loopVars, notDone_, mainPc, taskVars, sampleVars, deviceVars, busFails>>

(* A BNO055 forgets its configuration; the calibration of an MS5837 is in  *)
(* the memory of its driver.                                               *)
PowerLoss(s) ==
  /\ powered[s]
  /\ powered' = [powered EXCEPT ![s] = FALSE]
  /\ lost' = [lost EXCEPT ![s] = TRUE]
  /\ setup' = IF s \in Bno THEN [setup EXCEPT ![s] = "none"] ELSE setup
  /\ UNCHANGED <<sensors_, loopVars, notDone_, mainPc, timer, taskVars, sampleVars, busFails>>

(* A sensor that lost its power takes longer to restart than the pause     *)
(* between two transfers, so that at least one of them fails.              *)
Restart(s) ==
  /\ ~powered[s]
  /\ ~lost[s]
  /\ powered' = [powered EXCEPT ![s] = TRUE]
  /\ UNCHANGED <<sensors_, loopVars, notDone_, mainPc, timer, taskVars, sampleVars, setup, lost,
                 busFails>>

BusChanges(s) ==
  /\ busFails' = [busFails EXCEPT ![s] = ~@]
  /\ UNCHANGED <<sensors_, loopVars, notDone_, mainPc, timer, taskVars, sampleVars, deviceVars>>

(* How many of n transfers are answered before the first that is not. *)
Answered(s, n) ==
  IF ~powered[s] THEN {0} ELSE IF busFails[s] THEN 0 .. n ELSE {n}

(* A transfer that is not answered reveals the loss of power. *)
Noticed(s, k, n) == IF k < n THEN [lost EXCEPT ![s] = FALSE] ELSE lost

----------------------------------------------------------------------------
(* The thread.                                                             *)

LoopTestForever ==
  /\ pc = "test"
  /\ pc' = "listen"
  /\ UNCHANGED <<sensors_, batch, notDone_, mainPc, timer, taskVars, sampleVars, deviceVars, busFails>>

LoopTest ==
  /\ pc = "test"
  /\ pc' = IF notDone_ THEN "listen" ELSE "done"
  /\ UNCHANGED <<sensors_, batch, notDone_, mainPc, timer, taskVars, sampleVars, deviceVars, busFails>>

(* epoll_wait returns the timers that expired, or none after 500 ms. *)
Listen ==
  /\ pc = "listen"
  /\ batch' = {s \in Sensors : timer[s] = "expired"}
  /\ pc' = IF batch' = {} THEN "test" ELSE "handle"
  /\ UNCHANGED <<sensors_, notDone_, mainPc, timer, taskVars, sampleVars, deviceVars, busFails>>

HandledAll ==
  /\ pc = "handle"
  /\ batch = {}
  /\ pc' = "test"
  /\ UNCHANGED <<sensors_, batch, notDone_, mainPc, timer, taskVars, sampleVars, deviceVars, busFails>>

(* What a call of a SensorTask returns: isActive, as co_yield left it.     *)
Returned(task, r) == IF r.yields = "nothing" THEN task.isActive ELSE r.yields = "true"

(* The task after the call: suspended further on, isActive replaced.       *)
Called(task, r, flag) == [at |-> r.at, isActive |-> flag]

(* SetTimer with the time of the co_await the coroutine stopped at. *)
RearmedNever(s) == [timer EXCEPT ![s] = "disarmed"]
Rearmed(s) == [timer EXCEPT ![s] = "armed"]

(* The sample in hand when ReadData stops: its parts belong to the past    *)
(* once the sensor is Offline.                                             *)
SampleAfter(s, r, isOnline) ==
  LET part == IF setup[s] = "complete" THEN "ready" ELSE "unready"
      parts == IF r.begins THEN {part}
               ELSE IF r.measures THEN sample[s] \cup {part} ELSE sample[s]
  IN  IF isOnline \/ parts = {} THEN parts ELSE {"old"}

HandleOnline(s) ==
  /\ pc = "handle"
  /\ s \in batch
  /\ State[s] = "Online"
  /\ batch' = batch \ {s}
  /\ LET n == ReadTransactions(s, ReadData[s].at)
     IN \E k \in Answered(s, n) :
          LET r == ReadResume(s, ReadData[s].at, k)
              isOnline == Returned(ReadData[s], r)
              parts == SampleAfter(s, r, isOnline)
          IN /\ ReadData' = [ReadData EXCEPT ![s] = Called(ReadData[s], r, TRUE)]
             /\ State' = IF isOnline THEN State ELSE [State EXCEPT ![s] = "Offline"]
             /\ sample' = [sample EXCEPT ![s] = parts]
             /\ data_' = IF r.publishes THEN [data_ EXCEPT ![s] = parts] ELSE data_
             /\ lost' = Noticed(s, k, n)
  /\ timer' = Rearmed(s)
  /\ UNCHANGED <<sensors_, pc, notDone_, mainPc, Init, powered, setup, busFails>>

(* A chip that was reset answers again within MAX_TRIES polls, unless it   *)
(* lost its power or the bus fails meanwhile.                              *)
RestartsInTime(s) ==
  Init[s].at.point = "poll" /\ Init[s].at.tries = MAX_TRIES => powered[s] \/ lost[s]

HandleOffline(s) ==
  /\ pc = "handle"
  /\ s \in batch
  /\ State[s] = "Offline"
  /\ RestartsInTime(s)
  /\ batch' = batch \ {s}
  /\ LET n == InitTransactions(s, Init[s].at)
     IN \E k \in Answered(s, n), crcMatches \in BOOLEAN :
          LET r == InitResume(s, Init[s].at, k, crcMatches, setup[s])
              isOnline == Returned(Init[s], r)
          IN /\ crcMatches \/ busFails[s]
             /\ Init' = [Init EXCEPT ![s] = Called(Init[s], r, FALSE)]
             /\ State' = IF isOnline THEN [State EXCEPT ![s] = "Online"] ELSE State
             /\ setup' = [setup EXCEPT ![s] = r.setup]
             /\ powered' = IF r.resets THEN [powered EXCEPT ![s] = FALSE] ELSE powered
             /\ lost' = Noticed(s, k, n)
  /\ timer' = Rearmed(s)
  /\ UNCHANGED <<sensors_, pc, notDone_, mainPc, ReadData, sampleVars, busFails>>

----------------------------------------------------------------------------
(* ~SensorHandler: notDone_.exchange(false), then thread_.join(). *)
Stop ==
  /\ mainPc = "running"
  /\ notDone_' = FALSE
  /\ mainPc' = "join"
  /\ UNCHANGED <<sensors_, loopVars, timer, taskVars, sampleVars, deviceVars, busFails>>

Join ==
  /\ mainPc = "join"
  /\ pc = "done"
  /\ mainPc' = "gone"
  /\ UNCHANGED <<sensors_, loopVars, notDone_, timer, taskVars, sampleVars, deviceVars, busFails>>

Thread ==
  \/ LoopTest \/ Listen \/ HandledAll
  \/ \E s \in sensors_ : HandleOnline(s) \/ HandleOffline(s)

World == \E s \in sensors_ : TimerExpires(s) \/ PowerLoss(s) \/ Restart(s) \/ BusChanges(s)

(* Without a registered sensor nothing happens once the handler is gone. *)
Gone == mainPc = "gone" /\ UNCHANGED vars

Next == Thread \/ Stop \/ Join \/ World \/ Gone

(* The thread runs, timers expire, a sensor whose power returns restarts.  *)
Fairness ==
  /\ WF_vars(Thread)
  /\ WF_vars(Join)
  /\ \A s \in Sensors : WF_vars(TimerExpires(s)) /\ WF_vars(Restart(s))

Spec == HandlerInit /\ [][Next]_vars /\ Fairness
----------------------------------------------------------------------------
(* Properties.                                                             *)

(* ReadData is resumed past its first co_await only for a sensor that Init *)
(* has set up since it last failed, or that lost its power and has not     *)
(* been asked for anything since.                                          *)
ReadsOnlyWhenSetUp ==
  \A s \in Sensors :
    State[s] = "Online" /\ ReadData[s].at.point # "start" => setup[s] = "complete" \/ lost[s]

(* A sample that SetData published was measured as a whole by a sensor     *)
(* that was set up: no part was measured before Init or before an outage.  *)
SamplesOfOneSession == \A s \in Sensors : data_[s] \subseteq {"ready"}

(* A sensor that loses its power does not stay Online.                     *)
PowerLossNoticed ==
  \A s \in Sensors : lost[s] ~> State[s] = "Offline" \/ pc = "done"

(* A registered sensor whose power and bus stay good comes Online and stays *)
(* so: neither its timer nor its coroutine gets stuck.                      *)
Recovers ==
  \A s \in Sensors :
    <>[](s \in sensors_ /\ ~busFails[s] /\ ~lost[s] /\ mainPc = "running")
      => <>[](State[s] = "Online")

(* The destructor returns, whatever the sensors and the bus do.            *)
DestructorReturns == mainPc = "join" ~> mainPc = "gone"
=============================================================================
