------------------------------- MODULE MS5837 -------------------------------
(***************************************************************************)
(* The calibration of the depth sensor: seven words of its PROM, the first *)
(* of which has in its upper four bits a checksum of the rest.             *)
(*                                                                         *)
(* A word is the set of the positions of its ones, 0 to 15, so that an     *)
(* exclusive or is a symmetric difference and a shift moves the positions. *)
(***************************************************************************)
EXTENDS Naturals

Bits == 0 .. 15
Xor(a, b) == (a \ b) \cup (b \ a)
ShiftLeft(w, n) == {b + n : b \in {c \in w : c + n \in Bits}}
ShiftRight(w, n) == {b - n : b \in {c \in w : c >= n}}

(* sensorCalibration_[0] loses the checksum, [7] is not read. *)
Masked(prom) == [prom EXCEPT ![0] = @ \ {12, 13, 14, 15}, ![7] = {}]

(* Byte i, the upper half of a word first. *)
Byte(prom, i) ==
  IF i % 2 = 1 THEN {b \in prom[i \div 2] : b < 8} ELSE ShiftRight(prom[i \div 2], 8)

Divide(rem) == IF 15 \in rem THEN Xor(ShiftLeft(rem, 1), {12, 13}) ELSE ShiftLeft(rem, 1)
DivideTwice(rem) == Divide(Divide(rem))
DivideByte[rem \in SUBSET Bits] == DivideTwice(DivideTwice(DivideTwice(DivideTwice(rem))))

CRC4(prom) ==
  LET n_prom == Masked(prom)
      n_rem[i \in 0 .. 16] ==
        IF i = 0 THEN {} ELSE DivideByte[Xor(n_rem[i - 1], Byte(n_prom, i - 1))]
  IN  ShiftRight(n_rem[16], 12)

VerifiedTooLate(prom) ==
  /\ \A i \in 0 .. 6 : prom[i] # {}
  /\ CRC4(prom) = ShiftRight(Masked(prom)[0], 12)

(* The part of MS5837_I2C::Init after the reset: a word of zero is taken   *)
(* for one that was not read.                                              *)
Verified(prom) ==
  /\ \A i \in 0 .. 6 : prom[i] # {}
  /\ CRC4(prom) = ShiftRight(prom[0], 12)

(* The words of a sensor with the errors of the bus. *)
WithErrors(prom, errors) ==
  [i \in 0 .. 7 |-> Xor(prom[i], {e[2] : e \in {f \in errors : f[1] = i}})]
=============================================================================
