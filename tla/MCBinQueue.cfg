SPECIFICATION Spec
CONSTANTS
  endtime = 9
  TrainingLengths = {0, 3}
  TrainingWindow = 1
  Window = 2
  MaxBins = 3
  MaxEvents = 3
  MaxTime = 8
INVARIANTS
  TypeOK
  RetrievedInTime
  Calendar
  NoAbort
