------------------------------ MODULE MCSensors ------------------------------
(***************************************************************************)
(* Sensors that turn, dive and come to rest, after too few samples to fill *)
(* a filter and after enough to wrap it; a PROM with every kind of word;   *)
(* and the errors its checksum is there for.                               *)
(***************************************************************************)
EXTENDS Sensors

MCMeasures ==
  {[bno055_ |-> <<a, 180, b, b>>, ms5837_ |-> <<1, 7, 2, 2>>] :
     a \in {-60, 120}, b \in {-120, 0, 60, 180}}

(* The bits of a word in the order they are sent. *)
Position(k) == <<k \div 16, 15 - (k % 16)>>

Blank == [i \in 0 .. 7 |-> {b \in Bits : i < 7 /\ (7 * b + 5 * i) % 3 = 0}]
MCFactory == [Blank EXCEPT ![0] = (@ \ {12, 13, 14, 15}) \cup {b + 12 : b \in CRC4(Blank)}]

Burst(k, pattern) == {Position(k + j) : j \in pattern}
MCErrors ==
  {{}}
  \cup {Burst(k, pattern) : k \in 0 .. 108, pattern \in SUBSET (0 .. 3)}
  \cup {{<<i, b>> : b \in MCFactory[i]} : i \in 0 .. 6}
=============================================================================
