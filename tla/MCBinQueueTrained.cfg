SPECIFICATION Spec
CONSTANTS
  endtime = 11
  TrainingLengths = {3}
  TrainingWindow = 1
  Window = 2
  MaxBins = 3
  MaxEvents = 3
  MaxTime = 10
INVARIANT
  RetrievedInTime
