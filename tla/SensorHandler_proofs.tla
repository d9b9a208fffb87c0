------------------------ MODULE SensorHandler_proofs ------------------------
(***************************************************************************)
(* Theorems about SensorHandler, for any number of sensors of either kind  *)
(* and any number of retries.                                              *)
(***************************************************************************)
EXTENDS SensorHandler, TLAPS

(* The points of the coroutines of each driver. *)
BnoInitPoints == {"start", "test", "poll", "power", "page", "mode", "settle"}
MsInitPoints == {"start", "reset", "prom"}
InitAts(s) ==
  [point : IF s \in Bno THEN BnoInitPoints ELSE MsInitPoints, tries : 0 .. MAX_TRIES]

BnoReadPoints == {"start", "calibration", "acceleration", "euler", "temperature"}
MsReadPoints == {"start", "convert", "pressure", "finish"}
ReadAts(s) == [point : IF s \in Bno THEN BnoReadPoints ELSE MsReadPoints, tries : {0}]

(* Where a sample has not been begun. *)
Fresh == {"start", "calibration", "convert", "pressure"}

(* The fields of a call of ReadData of a BNO055, which reads a register.   *)
LEMMA BnoReadFields ==
  ASSUME NEW s \in Sensors, NEW at \in ReadAts(s), NEW k \in Nat, s \in Bno
  PROVE  /\ ReadResume(s, at, k).at =
              IF k = BnoReadTransactions[at.point] THEN At(BnoReadNext[at.point]) ELSE At("calibration")
         /\ ReadResume(s, at, k).yields =
              IF k = BnoReadTransactions[at.point] THEN "nothing" ELSE "false"
         /\ ReadResume(s, at, k).begins <=>
              k = BnoReadTransactions[at.point] /\ at.point = "calibration"
         /\ ReadResume(s, at, k).measures <=>
              k = BnoReadTransactions[at.point] /\ at.point # "start"
         /\ ReadResume(s, at, k).publishes <=>
              k = BnoReadTransactions[at.point] /\ at.point = "temperature"
BY DEF ReadResume, BnoRead, Restarted, Outage

(* The fields of a call of ReadData of an MS5837, which converts.          *)
LEMMA MsReadFields ==
  ASSUME NEW s \in Sensors, NEW at \in ReadAts(s), NEW k \in Nat, s \notin Bno
  PROVE  /\ ReadResume(s, at, k).at =
              IF k = MsReadTransactions[at.point] THEN At(MsReadNext[at.point]) ELSE At("convert")
         /\ ReadResume(s, at, k).yields =
              IF k = MsReadTransactions[at.point] THEN "nothing" ELSE "false"
         /\ ReadResume(s, at, k).begins <=>
              k = MsReadTransactions[at.point] /\ at.point = "pressure"
         /\ ReadResume(s, at, k).measures <=>
              k = MsReadTransactions[at.point] /\ at.point \in {"pressure", "finish"}
         /\ ReadResume(s, at, k).publishes <=>
              k = MsReadTransactions[at.point] /\ at.point = "finish"
BY DEF ReadResume, MsRead, Restarted, Outage

(* What the invariant needs of a call of ReadData that has k transfers     *)
(* answered: it fails exactly when one is not, and what it publishes was   *)
(* begun by an earlier call.                                               *)
ReadFacts(s, at, k) ==
  LET r == ReadResume(s, at, k)
      n == ReadTransactions(s, at)
  IN /\ r.at \in ReadAts(s) /\ r.at.point # "start"
     /\ r.yields = IF k = n THEN "nothing" ELSE "false"
     /\ r.measures => k = n /\ at.point # "start"
     /\ r.begins => r.measures
     /\ r.publishes => r.measures /\ ~r.begins /\ at.point \notin Fresh
     /\ r.at.point \notin Fresh => r.begins \/ (r.measures /\ at.point \notin Fresh)
     /\ n \in Nat /\ (at.point # "start" => n >= 1) /\ (at.point = "start" => n = 0)

(* Every call of ReadData, at any point of either driver, does so.         *)
LEMMA ReadStep ==
  ASSUME NEW s \in Sensors, NEW at \in ReadAts(s), NEW k \in Nat
  PROVE  ReadFacts(s, at, k)
<1> DEFINE r == ReadResume(s, at, k)
           n == ReadTransactions(s, at)
<1>1. CASE s \in Bno
  <2>1. n = BnoReadTransactions[at.point] /\ at.point \in BnoReadPoints
    BY <1>1 DEF ReadAts, ReadTransactions
  <2>2. /\ r.at = IF k = n THEN At(BnoReadNext[at.point]) ELSE At("calibration")
        /\ r.yields = IF k = n THEN "nothing" ELSE "false"
        /\ r.begins <=> (k = n /\ at.point = "calibration")
        /\ r.measures <=> (k = n /\ at.point # "start")
        /\ r.publishes <=> (k = n /\ at.point = "temperature")
    BY <1>1, <2>1, BnoReadFields
  <2> HIDE DEF r
  <2>3. /\ r.measures => k = n /\ at.point # "start"
        /\ r.begins => r.measures
        /\ r.publishes => r.measures /\ ~r.begins /\ at.point \notin Fresh
    BY <2>2 DEF Fresh
  <2>4. n \in Nat /\ (at.point # "start" => n >= 1) /\ (at.point = "start" => n = 0)
    BY <2>1 DEF BnoReadPoints, BnoReadTransactions
  <2>5. /\ At(BnoReadNext[at.point]) \in ReadAts(s)
        /\ BnoReadNext[at.point] # "start"
        /\ At("calibration") \in ReadAts(s)
    BY <1>1, <2>1 DEF BnoReadPoints, BnoReadNext, At, ReadAts
  <2>6. r.at \in ReadAts(s) /\ r.at.point # "start"
    BY <2>2, <2>5 DEF At
  <2>7. r.at.point \notin Fresh => r.begins \/ (r.measures /\ at.point \notin Fresh)
    BY <2>1, <2>2 DEF At, Fresh, BnoReadPoints, BnoReadNext
  <2> QED
    BY <2>2, <2>3, <2>4, <2>6, <2>7 DEF ReadFacts, r
<1>2. CASE s \notin Bno
  <2>1. n = MsReadTransactions[at.point] /\ at.point \in MsReadPoints
    BY <1>2 DEF ReadAts, ReadTransactions
  <2>2. /\ r.at = IF k = n THEN At(MsReadNext[at.point]) ELSE At("convert")
        /\ r.yields = IF k = n THEN "nothing" ELSE "false"
        /\ r.begins <=> (k = n /\ at.point = "pressure")
        /\ r.measures <=> (k = n /\ at.point \in {"pressure", "finish"})
        /\ r.publishes <=> (k = n /\ at.point = "finish")
    BY <1>2, <2>1, MsReadFields
  <2> HIDE DEF r
  <2>3. /\ r.measures => k = n /\ at.point # "start"
        /\ r.begins => r.measures
        /\ r.publishes => r.measures /\ ~r.begins /\ at.point \notin Fresh
    BY <2>2 DEF Fresh
  <2>4. n \in Nat /\ (at.point # "start" => n >= 1) /\ (at.point = "start" => n = 0)
    BY <2>1 DEF MsReadPoints, MsReadTransactions
  <2>5. /\ At(MsReadNext[at.point]) \in ReadAts(s)
        /\ MsReadNext[at.point] # "start"
        /\ At("convert") \in ReadAts(s)
    BY <1>2, <2>1 DEF MsReadPoints, MsReadNext, At, ReadAts
  <2>6. r.at \in ReadAts(s) /\ r.at.point # "start"
    BY <2>2, <2>5 DEF At
  <2>7. r.at.point \notin Fresh => r.begins \/ (r.measures /\ at.point \notin Fresh)
    BY <2>1, <2>2 DEF At, Fresh, MsReadPoints, MsReadNext
  <2> QED
    BY <2>2, <2>3, <2>4, <2>6, <2>7 DEF ReadFacts, r
<1> QED
  BY <1>1, <1>2

(* The points of Init of a BNO055 from which the chip is in use.  *)
Powered == {"page", "mode"}

(* What the invariant needs of a call of Init: it goes on only when every  *)
(* transfer was answered, and it yields true only when it is complete.     *)
InitFacts(s, at, k, crcMatches, before) ==
  LET r == InitResume(s, at, k, crcMatches, before)
      n == InitTransactions(s, at)
  IN /\ r.at \in InitAts(s)
     /\ r.setup \in Setups
     /\ r.resets \in BOOLEAN
     /\ r.yields \in {"nothing", "true"}
     /\ n \in Nat
     /\ r.yields = "true" =>
          /\ r.at.point \notin Powered \cup {"settle"}
          /\ k = n
          /\ r.setup = "complete" \/ (at.point = "settle" /\ r.setup = before)
     /\ r.at.point \in Powered =>
          /\ k = n
          /\ r.setup = "partial" \/ (at.point \in Powered /\ r.setup = before)
     /\ r.at.point = "settle" =>
          /\ k = n
          /\ at.point = "mode"
          /\ r.setup = IF before = "partial" THEN "complete" ELSE before

(* Every call of Init, at any point of either driver, does so.             *)
LEMMA InitStep ==
  ASSUME NEW s \in Sensors, NEW at \in InitAts(s), NEW crcMatches \in BOOLEAN,
         NEW before \in Setups, NEW k \in 0 .. InitTransactions(s, at)
  PROVE  InitFacts(s, at, k, crcMatches, before)
<1>1. CASE s \in Bno
  BY <1>1, DriversAssumption
  DEF InitFacts, InitAts, InitResume, InitTransactions, BnoInit, BnoInitTransactions,
      BnoInitNext, BnoInitPoints, BnoRetry, BnoReady, At, Powered, Setups
<1>2. CASE s \notin Bno
  BY <1>2, DriversAssumption
  DEF InitFacts, InitAts, InitResume, InitTransactions, MsInit, MsInitTransactions,
      MsInitNext, MsInitPoints, MsReady, At, Powered, Setups
<1> QED
  BY <1>1, <1>2

----------------------------------------------------------------------------
(* The tasks: where the coroutines of a sensor may be, and what isActive   *)
(* tells of them.  Only the first call of ReadData returns false without a *)
(* failure, and a call of Init returns true only when it yields it.        *)
TaskInv(s) ==
  /\ Init[s].at \in InitAts(s)
  /\ Init[s].isActive = FALSE
  /\ ReadData[s].at \in ReadAts(s)
  /\ ReadData[s].isActive <=> ReadData[s].at.point # "start"

(* The progress of Init agrees with the sensor's, unless the sensor lost   *)
(* its power since and no transfer has failed yet.                         *)
SetupInv(s) ==
  /\ lost[s] => ~powered[s]
  /\ State[s] = "Online" => Init[s].at.point \notin Powered \cup {"settle"}
  /\ State[s] = "Online" /\ ReadData[s].at.point # "start" => setup[s] = "complete" \/ lost[s]
  /\ Init[s].at.point \in Powered => setup[s] = "partial" \/ lost[s]
  /\ Init[s].at.point = "settle" => setup[s] = "complete" \/ lost[s]

(* A sample that was begun has no part from before Init or an outage. *)
SampleInv(s) ==
  /\ ReadData[s].at.point \notin Fresh => sample[s] \subseteq {"ready"}
  /\ data_[s] \subseteq {"ready"}

SensorInv(s) == TaskInv(s) /\ SetupInv(s) /\ SampleInv(s)
HandlerInv == TypeOK /\ \A s \in Sensors : SensorInv(s)

(* The tasks begin suspended before anything was sent. *)
LEMMA InvInit == HandlerInit => HandlerInv
<1> SUFFICES ASSUME HandlerInit PROVE HandlerInv
  OBVIOUS
<1>1. At("start") = [point |-> "start", tries |-> 0]
  BY DEF At
<1>2. TypeOK
  BY <1>1, DriversAssumption
  DEF HandlerInit, RegisterSensor, NewTask, TypeOK, InitPoints, ReadPoints, Parts, Setups
<1>3. ASSUME NEW s \in Sensors PROVE SensorInv(s)
  <2>1. /\ Init[s] = [at |-> At("start"), isActive |-> FALSE]
        /\ ReadData[s] = [at |-> At("start"), isActive |-> FALSE]
        /\ ~lost[s] /\ sample[s] = {} /\ data_[s] = {}
    BY DEF HandlerInit, NewTask
  <2>2. At("start") \in InitAts(s) /\ At("start") \in ReadAts(s)
    BY <1>1, DriversAssumption
    DEF InitAts, ReadAts, BnoInitPoints, MsInitPoints, BnoReadPoints, MsReadPoints
  <2>3. TaskInv(s)
    BY <1>1, <2>1, <2>2 DEF TaskInv
  <2>4. SetupInv(s)
    BY <1>1, <2>1 DEF SetupInv, Powered
  <2>5. SampleInv(s)
    BY <2>1 DEF SampleInv
  <2> QED
    BY <2>3, <2>4, <2>5 DEF SensorInv
<1> QED
  BY <1>2, <1>3 DEF HandlerInv

(* A call of ReadData keeps the invariant of its sensor. *)
LEMMA OnlineKept ==
  ASSUME HandlerInv, NEW s \in sensors_, HandleOnline(s)
  PROVE  HandlerInv'
<1> DEFINE n == ReadTransactions(s, ReadData[s].at)
<1>1. s \in Sensors /\ SensorInv(s)
  BY DEF HandlerInv, TypeOK
<1>2. PICK k \in Answered(s, n) :
        LET r == ReadResume(s, ReadData[s].at, k)
            isOnline == Returned(ReadData[s], r)
            parts == SampleAfter(s, r, isOnline)
        IN /\ ReadData' = [ReadData EXCEPT ![s] = Called(ReadData[s], r, TRUE)]
           /\ State' = IF isOnline THEN State ELSE [State EXCEPT ![s] = "Offline"]
           /\ sample' = [sample EXCEPT ![s] = parts]
           /\ data_' = IF r.publishes THEN [data_ EXCEPT ![s] = parts] ELSE data_
           /\ lost' = Noticed(s, k, n)
  BY DEF HandleOnline
<1> DEFINE at == ReadData[s].at
           r == ReadResume(s, at, k)
           isOnline == Returned(ReadData[s], r)
           parts == SampleAfter(s, r, isOnline)
<1>3. at \in ReadAts(s)
  BY <1>1 DEF SensorInv, TaskInv
<1>4. n \in Nat
  BY <1>3, <1>1, DriversAssumption
  DEF ReadTransactions, ReadAts, BnoReadPoints, MsReadPoints, BnoReadTransactions,
      MsReadTransactions
<1>5. k \in 0 .. n /\ (k = n /\ at.point # "start" => powered[s])
  <2>1. k \in 0 .. n /\ (~powered[s] => k = 0)
    BY <1>4, <1>2 DEF Answered
  <2> QED
    BY <2>1, <1>1, <1>3, <1>4, ReadStep DEF ReadFacts
<1>6. ReadFacts(s, at, k)
  BY <1>1, <1>3, <1>5, ReadStep
<1>7. /\ r.at \in ReadAts(s) /\ r.at.point # "start"
      /\ r.yields = IF k = n THEN "nothing" ELSE "false"
      /\ r.measures => k = n /\ at.point # "start"
      /\ r.begins => r.measures
      /\ r.publishes => r.measures /\ ~r.begins /\ at.point \notin Fresh
      /\ r.at.point \notin Fresh => r.begins \/ (r.measures /\ at.point \notin Fresh)
  BY <1>6 DEF ReadFacts
<1>8. isOnline <=> k = n /\ at.point # "start"
  BY <1>1, <1>7 DEF Returned, SensorInv, TaskInv
<1>9. State[s] = "Online"
  BY DEF HandleOnline
<1>10. r.measures => isOnline /\ setup[s] = "complete"
  BY <1>1, <1>5, <1>7, <1>8, <1>9 DEF SensorInv, SetupInv
<1> HIDE DEF r, isOnline
<1>11. parts \subseteq Parts
  <2>1. sample[s] \subseteq Parts
    BY <1>1 DEF HandlerInv, TypeOK
  <2> QED
    BY <2>1 DEF SampleAfter, Parts
<1>12. r.at.point \notin Fresh \/ r.publishes => parts \subseteq {"ready"}
  <2>1. at.point \notin Fresh => sample[s] \subseteq {"ready"}
    BY <1>1 DEF SensorInv, SampleInv
  <2> QED
    BY <2>1, <1>7, <1>10 DEF SampleAfter
<1> HIDE DEF parts
<1>13. TypeOK'
  <2>1. ReadAts(s) \subseteq [point : ReadPoints, tries : {0}]
    BY DEF ReadAts, BnoReadPoints, MsReadPoints, ReadPoints
  <2>2. ReadData' \in [Sensors -> [at : [point : ReadPoints, tries : {0}], isActive : BOOLEAN]]
    BY <1>1, <1>2, <1>7, <2>1 DEF r, Called, HandlerInv, TypeOK
  <2>3. /\ State' \in [Sensors -> {"Online", "Offline"}]
        /\ sample' \in [Sensors -> SUBSET Parts]
        /\ data_' \in [Sensors -> SUBSET Parts]
    BY <1>1, <1>2, <1>11 DEF r, isOnline, parts, HandlerInv, TypeOK
  <2>4. lost' \in [Sensors -> BOOLEAN]
    BY <1>2 DEF Noticed, HandlerInv, TypeOK
  <2>5. timer' \in [Sensors -> {"armed", "expired", "disarmed"}] /\ batch' \subseteq Sensors
    BY DEF HandleOnline, Rearmed, HandlerInv, TypeOK
  <2> QED
    BY <2>2, <2>3, <2>4, <2>5 DEF HandlerInv, TypeOK, HandleOnline
<1>14. SensorInv(s)'
  <2>1. ReadData'[s] = [at |-> r.at, isActive |-> TRUE]
    BY <1>1, <1>2 DEF r, Called, HandlerInv, TypeOK
  <2>2. State'[s] = IF isOnline THEN "Online" ELSE "Offline"
    BY <1>1, <1>2, <1>9 DEF r, isOnline, HandlerInv, TypeOK
  <2>3. lost'[s] = IF k < n THEN FALSE ELSE lost[s]
    BY <1>1, <1>2 DEF Noticed, HandlerInv, TypeOK
  <2>4. sample'[s] = parts /\ data_'[s] = IF r.publishes THEN parts ELSE data_[s]
    BY <1>1, <1>2 DEF r, isOnline, parts, HandlerInv, TypeOK
  <2>5. Init' = Init /\ setup' = setup /\ powered' = powered
    BY DEF HandleOnline
  <2>6. TaskInv(s)'
    BY <1>1, <1>7, <2>1, <2>5 DEF SensorInv, TaskInv, InitAts, ReadAts
  <2>7. SetupInv(s)'
    BY <1>1, <1>4, <1>5, <1>8, <1>9, <2>1, <2>2, <2>3, <2>5 DEF SensorInv, SetupInv
  <2>8. SampleInv(s)'
    BY <1>1, <1>12, <2>1, <2>4 DEF SensorInv, SampleInv
  <2> QED
    BY <2>6, <2>7, <2>8 DEF SensorInv
<1>15. ASSUME NEW t \in Sensors, t # s PROVE SensorInv(t)'
  <2>1. /\ ReadData'[t] = ReadData[t] /\ State'[t] = State[t] /\ sample'[t] = sample[t]
        /\ data_'[t] = data_[t] /\ lost'[t] = lost[t]
    BY <1>1, <1>2, <1>15 DEF Noticed, HandlerInv, TypeOK
  <2> QED
    BY <2>1 DEF HandleOnline, HandlerInv, SensorInv, TaskInv, SetupInv, SampleInv, InitAts, ReadAts
<1> QED
  BY <1>13, <1>14, <1>15 DEF HandlerInv

(* A call of Init keeps the invariant of its sensor. *)
LEMMA OfflineKept ==
  ASSUME HandlerInv, NEW s \in sensors_, HandleOffline(s)
  PROVE  HandlerInv'
<1> DEFINE at == Init[s].at
           n == InitTransactions(s, at)
<1>1. s \in Sensors /\ SensorInv(s) /\ setup[s] \in Setups
  BY DEF HandlerInv, TypeOK
<1>2. PICK k \in Answered(s, n), crcMatches \in BOOLEAN :
        LET r == InitResume(s, at, k, crcMatches, setup[s])
            isOnline == Returned(Init[s], r)
        IN /\ Init' = [Init EXCEPT ![s] = Called(Init[s], r, FALSE)]
           /\ State' = IF isOnline THEN [State EXCEPT ![s] = "Online"] ELSE State
           /\ setup' = [setup EXCEPT ![s] = r.setup]
           /\ powered' = IF r.resets THEN [powered EXCEPT ![s] = FALSE] ELSE powered
           /\ lost' = Noticed(s, k, n)
  BY DEF HandleOffline
<1> DEFINE r == InitResume(s, at, k, crcMatches, setup[s])
           isOnline == Returned(Init[s], r)
<1>3. at \in InitAts(s)
  BY <1>1 DEF SensorInv, TaskInv
<1>4. n \in Nat
  BY <1>3, <1>1, DriversAssumption
  DEF InitTransactions, InitAts, BnoInitPoints, MsInitPoints, BnoInitTransactions,
      MsInitTransactions
<1>5. k \in 0 .. n
  BY <1>4, <1>2 DEF Answered
<1>6. InitFacts(s, at, k, crcMatches, setup[s])
  BY <1>1, <1>3, <1>5, InitStep
<1>7. /\ r.at \in InitAts(s)
      /\ r.setup \in Setups
      /\ r.yields \in {"nothing", "true"}
      /\ r.yields = "true" =>
           /\ r.at.point \notin Powered \cup {"settle"}
           /\ k = n
           /\ r.setup = "complete" \/ (at.point = "settle" /\ r.setup = setup[s])
      /\ r.at.point \in Powered =>
           /\ k = n
           /\ r.setup = "partial" \/ (at.point \in Powered /\ r.setup = setup[s])
      /\ r.at.point = "settle" =>
           /\ k = n
           /\ at.point = "mode"
           /\ r.setup = IF setup[s] = "partial" THEN "complete" ELSE setup[s]
  BY <1>6 DEF InitFacts
<1>8. isOnline <=> r.yields = "true"
  BY <1>1, <1>7 DEF Returned, SensorInv, TaskInv
<1>9. State[s] = "Offline"
  BY DEF HandleOffline
<1> HIDE DEF r, isOnline
<1>10. TypeOK'
  <2>1. InitAts(s) \subseteq [point : InitPoints, tries : 0 .. MAX_TRIES]
    BY DEF InitAts, BnoInitPoints, MsInitPoints, InitPoints
  <2>2. Init' \in [Sensors -> [at : [point : InitPoints, tries : 0 .. MAX_TRIES],
                              isActive : BOOLEAN]]
    BY <1>1, <1>2, <1>7, <2>1 DEF r, Called, HandlerInv, TypeOK
  <2>3. /\ State' \in [Sensors -> {"Online", "Offline"}]
        /\ setup' \in [Sensors -> Setups]
        /\ powered' \in [Sensors -> BOOLEAN]
    BY <1>1, <1>2, <1>7 DEF r, isOnline, HandlerInv, TypeOK
  <2>4. lost' \in [Sensors -> BOOLEAN]
    BY <1>2 DEF Noticed, HandlerInv, TypeOK
  <2>5. timer' \in [Sensors -> {"armed", "expired", "disarmed"}] /\ batch' \subseteq Sensors
    BY DEF HandleOffline, Rearmed, HandlerInv, TypeOK
  <2> QED
    BY <2>2, <2>3, <2>4, <2>5 DEF HandlerInv, TypeOK, HandleOffline, sampleVars
<1>11. SensorInv(s)'
  <2>1. Init'[s] = [at |-> r.at, isActive |-> FALSE]
    BY <1>1, <1>2 DEF r, Called, HandlerInv, TypeOK
  <2>2. State'[s] = IF isOnline THEN "Online" ELSE "Offline"
    BY <1>1, <1>2, <1>9 DEF r, isOnline, HandlerInv, TypeOK
  <2>3. lost'[s] = IF k < n THEN FALSE ELSE lost[s]
    BY <1>1, <1>2 DEF Noticed, HandlerInv, TypeOK
  <2>4. setup'[s] = r.setup /\ (powered'[s] = powered[s] \/ powered'[s] = FALSE)
    BY <1>1, <1>2 DEF r, HandlerInv, TypeOK
  <2>5. ReadData' = ReadData /\ sample' = sample /\ data_' = data_
    BY DEF HandleOffline, sampleVars
  <2>6. TaskInv(s)'
    BY <1>1, <1>7, <2>1, <2>5 DEF SensorInv, TaskInv, InitAts, ReadAts
  <2>7. SetupInv(s)'
    BY <1>1, <1>4, <1>5, <1>7, <1>8, <1>9, <2>1, <2>2, <2>3, <2>4, <2>5
    DEF SensorInv, SetupInv, Powered
  <2>8. SampleInv(s)'
    BY <1>1, <2>5 DEF SensorInv, SampleInv
  <2> QED
    BY <2>6, <2>7, <2>8 DEF SensorInv
<1>12. ASSUME NEW t \in Sensors, t # s PROVE SensorInv(t)'
  <2>1. /\ Init'[t] = Init[t] /\ State'[t] = State[t] /\ setup'[t] = setup[t]
        /\ powered'[t] = powered[t] /\ lost'[t] = lost[t]
    BY <1>1, <1>2, <1>12 DEF Noticed, HandlerInv, TypeOK
  <2> QED
    BY <2>1 DEF HandleOffline, sampleVars, HandlerInv, SensorInv, TaskInv, SetupInv, SampleInv,
                InitAts, ReadAts
<1> QED
  BY <1>10, <1>11, <1>12 DEF HandlerInv

(* Every step of the thread, the sensors and the destructor keeps it. *)
LEMMA InvKept == HandlerInv /\ [Next]_vars => HandlerInv'
<1> SUFFICES ASSUME HandlerInv, [Next]_vars PROVE HandlerInv'
  OBVIOUS
<1> USE DEF HandlerInv, SensorInv, TaskInv, SetupInv, SampleInv, InitAts, ReadAts
<1>1. CASE LoopTest \/ Listen \/ HandledAll
  <2>1. UNCHANGED <<sensors_, notDone_, mainPc, timer, taskVars, sampleVars, deviceVars, busFails>>
    BY <1>1 DEF LoopTest, Listen, HandledAll
  <2>2. pc' \in {"test", "listen", "handle", "done"} /\ batch' \subseteq Sensors
    BY <1>1 DEF LoopTest, Listen, HandledAll, TypeOK
  <2> QED
    BY <2>1, <2>2 DEF TypeOK, taskVars, sampleVars, deviceVars
<1>2. ASSUME NEW s \in sensors_, HandleOnline(s) PROVE HandlerInv'
  BY <1>2, OnlineKept
<1>3. ASSUME NEW s \in sensors_, HandleOffline(s) PROVE HandlerInv'
  BY <1>3, OfflineKept
<1>4. CASE Stop \/ Join
  <2>1. /\ notDone_' \in BOOLEAN /\ mainPc' \in {"running", "join", "gone"}
        /\ UNCHANGED <<sensors_, loopVars, timer, taskVars, sampleVars, deviceVars, busFails>>
    BY <1>4 DEF Stop, Join, TypeOK
  <2> QED
    BY <2>1 DEF TypeOK, loopVars, taskVars, sampleVars, deviceVars
<1>5. ASSUME NEW s \in sensors_, TimerExpires(s) PROVE HandlerInv'
  BY <1>5 DEF TimerExpires, TypeOK, loopVars, taskVars, sampleVars, deviceVars
<1>6. ASSUME NEW s \in sensors_, PowerLoss(s) PROVE HandlerInv'
  <2>1. /\ powered' = [powered EXCEPT ![s] = FALSE]
        /\ lost' = [lost EXCEPT ![s] = TRUE]
        /\ setup' = IF s \in Bno THEN [setup EXCEPT ![s] = "none"] ELSE setup
        /\ UNCHANGED <<sensors_, loopVars, notDone_, mainPc, timer, taskVars, sampleVars, busFails>>
    BY <1>6 DEF PowerLoss
  <2>2. TypeOK'
    BY <2>1 DEF TypeOK, Setups, loopVars, taskVars, sampleVars
  <2>3. ASSUME NEW t \in Sensors PROVE SensorInv(t)'
    BY <2>1 DEF TypeOK, taskVars, sampleVars
  <2> QED
    BY <2>2, <2>3
<1>7. ASSUME NEW s \in sensors_, Restart(s) PROVE HandlerInv'
  BY <1>7 DEF Restart, TypeOK, loopVars, taskVars, sampleVars
<1>8. ASSUME NEW s \in sensors_, BusChanges(s) PROVE HandlerInv'
  BY <1>8 DEF BusChanges, TypeOK, loopVars, taskVars, sampleVars, deviceVars
<1>9. CASE UNCHANGED vars
  BY <1>9 DEF TypeOK, vars, loopVars, taskVars, sampleVars, deviceVars
<1> QED
  BY <1>1, <1>2, <1>3, <1>4, <1>5, <1>6, <1>7, <1>8, <1>9 DEF Next, Thread, World, Gone

(* The invariant holds of every state. *)
LEMMA HandlerInvariant == Spec => []HandlerInv
<1> QED
  BY InvInit, InvKept, PTL DEF Spec

(* The handler, its tasks and the sensors keep to their values: Init never *)
(* polls more than MAX_TRIES times, however often it starts over.          *)
THEOREM TypeCorrect == Spec => []TypeOK
<1>1. HandlerInv => TypeOK
  BY DEF HandlerInv
<1> QED
  BY <1>1, HandlerInvariant, PTL

(* Whenever a sensor that is Online is read, Init has set it up since it   *)
(* last failed, or it has lost its power unnoticed.                        *)
THEOREM ReadsFollowInit == Spec => []ReadsOnlyWhenSetUp
<1>1. HandlerInv => ReadsOnlyWhenSetUp
  BY DEF HandlerInv, SensorInv, SetupInv, ReadsOnlyWhenSetUp
<1> QED
  BY <1>1, HandlerInvariant, PTL

(* No sample given to SetData mixes what was measured before an outage, or *)
(* before Init, with what was measured after it.                           *)
THEOREM SamplesAreWhole == Spec => []SamplesOfOneSession
<1>1. HandlerInv => SamplesOfOneSession
  BY DEF HandlerInv, SensorInv, SampleInv, SamplesOfOneSession
<1> QED
  BY <1>1, HandlerInvariant, PTL
=============================================================================
