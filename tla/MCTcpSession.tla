---------------------------- MODULE MCTcpSession ----------------------------
(***************************************************************************)
(* TcpSession for TLC: the service that is read, the one that is written   *)
(* and an id nobody has; each way a request can fail at least once.        *)
(***************************************************************************)
EXTENDS TcpSession

MCServices == {1, 3}
MCSupports == [s \in MCServices |-> IF s = 1 THEN {"R"} ELSE {"W"}]

Header(type, endpoint, length) == [type |-> type, endpoint |-> endpoint, length |-> length]
MCHeaders == {
  Header("R", 1, "none"), Header("R", 1, "unsized"), Header("W", 3, "sized"),
  Header("W", 3, "none"), Header("W", 3, "over"), Header("R", 7, "none"),
  Header("WR", 3, "sized"), Header("other", 1, "none") }
=============================================================================
