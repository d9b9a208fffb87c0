------------------------------ MODULE Drivers ------------------------------
(***************************************************************************)
(* The coroutines of the two sensors, BNO055_I2C and MS5837_I2C: what one  *)
(* resumption does, from one co_await to the next.                         *)
(*                                                                         *)
(* A coroutine is at a point, the co_await it is suspended at, named for   *)
(* the work that follows it.  A resumption performs up to Transactions     *)
(* transfers on the I2C bus, of which the first k are answered: it stops   *)
(* at the first that is not.  setup is how far the sensor has been made    *)
(* ready: "none", "partial" or "complete".  For the BNO055 it is a state   *)
(* of the chip (configuration mode, power mode, operation mode); for the   *)
(* MS5837 it is the state of sensorCalibration_ (never read, read in part  *)
(* or unverified, verified by its checksum).                               *)
(***************************************************************************)
EXTENDS Naturals

CONSTANTS
  Bno,         \* the sensors driven by BNO055_I2C
  Ms,          \* those driven by MS5837_I2C
  MAX_TRIES    \* polls of a chip that restarts: the limit of i in Init

ASSUME DriversAssumption ==
  /\ Bno \cap Ms = {}
  /\ MAX_TRIES \in Nat

Sensors == Bno \cup Ms
Setups == {"none", "partial", "complete"}

InitPoints == {"start", "test", "poll", "power", "page", "mode", "settle", "reset", "prom"}
ReadPoints == {"start", "calibration", "acceleration", "euler", "temperature",
               "convert", "pressure", "finish"}

At(p) == [point |-> p, tries |-> 0]

(* ReadData of either sensor leaves the inner loop at the first transfer   *)
(* that is not answered, says so (co_yield false) and begins a new sample. *)
OutageIgnored(all) == "nothing"
Outage(all) == IF all THEN "nothing" ELSE "false"

RestartedInPlace(at, first) == at
Restarted(at, first) == At(first)

----------------------------------------------------------------------------
(* BNO055_I2C::Init.                                                       *)

BnoInitTransactions ==
  [start |-> 0, test |-> 3, poll |-> 1, power |-> 1, page |-> 2, mode |-> 1, settle |-> 0]
BnoInitNext ==
  [start |-> "test", test |-> "poll", poll |-> "power", power |-> "page",
   page |-> "mode", mode |-> "settle", settle |-> "test"]

(* Where Init goes on when a transfer is not answered: it starts over, but *)
(* for a poll that has tries left.                                         *)
BnoRetryForever(at) ==
  IF at.point = "poll" THEN [at EXCEPT !.tries = @ + 1] ELSE At("test")
BnoRetry(at) ==
  IF at.point = "poll" /\ at.tries < MAX_TRIES THEN [at EXCEPT !.tries = @ + 1] ELSE At("test")

(* co_yield true, after the last wait. *)
BnoReadyNever(at) == "nothing"
BnoReady(at) == IF at.point = "settle" THEN "true" ELSE "nothing"

(* "test" identifies the chip, switches it to configuration mode and resets *)
(* it; "poll" waits for it to identify itself again.                        *)
BnoInit(at, k, setup) ==
  LET all == k = BnoInitTransactions[at.point]
  IN [at |-> IF all THEN At(BnoInitNext[at.point]) ELSE BnoRetry(at),
      yields |-> BnoReady(at),
      resets |-> at.point = "test" /\ all,
      setup |-> IF at.point = "test" /\ k >= 2 THEN "none"
                ELSE IF at.point = "power" /\ all THEN "partial"
                ELSE IF at.point = "mode" /\ all /\ setup = "partial" THEN "complete"
                ELSE setup]

(* BNO055_I2C::ReadData: one register after the other, then SetData. *)
BnoReadNext ==
  [start |-> "calibration", calibration |-> "acceleration", acceleration |-> "euler",
   euler |-> "temperature", temperature |-> "calibration"]
BnoReadTransactions ==
  [start |-> 0, calibration |-> 1, acceleration |-> 1, euler |-> 1, temperature |-> 1]

BnoRead(at, k) ==
  LET all == k = BnoReadTransactions[at.point]
  IN [at |-> IF all THEN At(BnoReadNext[at.point]) ELSE Restarted(at, "calibration"),
      yields |-> Outage(all),
      begins |-> all /\ at.point = "calibration",
      measures |-> all /\ at.point # "start",
      publishes |-> all /\ at.point = "temperature"]

----------------------------------------------------------------------------
(* MS5837_I2C::Init: reset, then the seven words of the PROM and their CRC. *)

MsInitTransactions == [start |-> 0, reset |-> 1, prom |-> 7]
MsInitNext == [start |-> "reset", reset |-> "prom", prom |-> "reset"]

MsReadyNever(verified) == "nothing"
MsReady(verified) == IF verified THEN "true" ELSE "nothing"

MsInit(at, k, crcMatches, setup) ==
  LET all == k = MsInitTransactions[at.point]
      verified == at.point = "prom" /\ all /\ crcMatches
  IN [at |-> At(IF all THEN MsInitNext[at.point] ELSE "reset"),
      yields |-> MsReady(verified),
      resets |-> FALSE,
      setup |-> IF verified THEN "complete"
                ELSE IF at.point = "prom" /\ k > 0 THEN "partial"
                ELSE setup]

(* MS5837_I2C::ReadData: start the first conversion; fetch it and start    *)
(* the second; fetch it, Calculate with sensorCalibration_, and SetData.   *)
MsReadTransactions == [start |-> 0, convert |-> 1, pressure |-> 3, finish |-> 2]
MsReadNext ==
  [start |-> "convert", convert |-> "pressure", pressure |-> "finish", finish |-> "convert"]

MsRead(at, k) ==
  LET all == k = MsReadTransactions[at.point]
  IN [at |-> IF all THEN At(MsReadNext[at.point]) ELSE Restarted(at, "convert"),
      yields |-> Outage(all),
      begins |-> all /\ at.point = "pressure",
      measures |-> all /\ at.point \in {"pressure", "finish"},
      publishes |-> all /\ at.point = "finish"]

----------------------------------------------------------------------------
InitTransactions(s, at) ==
  IF s \in Bno THEN BnoInitTransactions[at.point] ELSE MsInitTransactions[at.point]
ReadTransactions(s, at) ==
  IF s \in Bno THEN BnoReadTransactions[at.point] ELSE MsReadTransactions[at.point]

InitResume(s, at, k, crcMatches, setup) ==
  IF s \in Bno THEN BnoInit(at, k, setup) ELSE MsInit(at, k, crcMatches, setup)
ReadResume(s, at, k) == IF s \in Bno THEN BnoRead(at, k) ELSE MsRead(at, k)
=============================================================================
