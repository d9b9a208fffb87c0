\* Calibration, filters and snapshots of the sensors.
CONSTANTS
  Size = 2
  Readers = {loop, session}
  Measures <- MCMeasures
  Factory <- MCFactory
  Errors <- MCErrors
  None = None
SPECIFICATION Spec
INVARIANTS
  TypeOK
  CalibrationIsTheSensors
  SnapshotIsCurrent
  FiltersSettle
