-------------------------- MODULE MCSensorHandler --------------------------
(***************************************************************************)
(* What must eventually happen, checked with one sensor registered at a    *)
(* time, of either kind: two of them share the thread and nothing else.    *)
(***************************************************************************)
EXTENDS SensorHandler, FiniteSets

MCInit == HandlerInit /\ Cardinality(sensors_) <= 1

MCSpec == MCInit /\ [][Next]_vars /\ Fairness
=============================================================================
