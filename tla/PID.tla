-------------------------------- MODULE PID --------------------------------
(***************************************************************************)
(* The memory of the four-channel regulator (PIDArray in PID.hpp), which   *)
(* the command loop keeps from one cycle to the next.  The arithmetic is   *)
(* abstracted away: each remembered value is described by the samples it   *)
(* was computed from.                                                      *)
(*                                                                         *)
(*   "zero"     the initial, all-zero value                                *)
(*   "session"  samples of the current stabilization session only, that is *)
(*              samples taken since the last Reset                         *)
(*   "earlier"  some sample taken before the last Reset                    *)
(***************************************************************************)

Origins == {"zero", "session", "earlier"}

(* is_ of IArray, prevErrors_ and values_ of DArray. *)
Memories == [is_ : Origins, prevErrors_ : Origins, values_ : Origins]

InitialMemory == [is_ |-> "zero", prevErrors_ |-> "zero", values_ |-> "zero"]

(* The origin of a value computed from x and from a sample taken now. *)
WithSample(x) == IF x = "earlier" THEN "earlier" ELSE "session"

(* What a value that survives a Reset has become: it belongs to the past. *)
Outlived(x) == IF x = "zero" THEN "zero" ELSE "earlier"

(***************************************************************************)
(* PIDArray::Calculate.  P has no memory; I accumulates into is_; D        *)
(* recomputes values_ from prevErrors_ only when the third error did not   *)
(* shrink (recompute, a matter of data), and otherwise adds the values_ of *)
(* an earlier call to the output; prevErrors_ is always replaced.          *)
(***************************************************************************)
Calculate(m, recompute) ==
  [is_         |-> WithSample(m.is_),
   prevErrors_ |-> "session",
   values_     |-> IF recompute THEN WithSample(m.prevErrors_) ELSE m.values_]

ResetDifferenceOnly(m) ==
  [is_ |-> Outlived(m.is_), prevErrors_ |-> "zero", values_ |-> Outlived(m.values_)]

(***************************************************************************)
(* PIDArray::Reset: IArray::Reset clears is_, DArray::Reset clears         *)
(* prevErrors_ and leaves values_ as it is.                                *)
(***************************************************************************)
Reset(m) ==
  [is_ |-> "zero", prevErrors_ |-> "zero", values_ |-> Outlived(m.values_)]

(* A memory from which no trace of an earlier session reaches the I term or *)
(* the next difference of the D term.                                       *)
OfThisSession(m) == m.is_ # "earlier" /\ m.prevErrors_ # "earlier"

(* What a cycle adds to the pilot's move: the terms its output is made of. *)
Correction(m) == {m.is_, m.values_}
=============================================================================
