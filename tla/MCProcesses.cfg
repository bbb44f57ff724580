CONSTANTS
  Process = {1, 2, 3}
  None = None
  inChannel = {"x", "y"}
  Semaphore = {"sem"}
  Timer = {9}
  WithFunction = {}
  InitProcesses <- MCInitProcesses
  InitCount <- MCInitCount
  Arrivals <- MCArrivals
  Delays = {0, 1}
  MaxCalls = 5
SPECIFICATION Spec
CHECK_DEADLOCK FALSE
INVARIANTS
  TypeOK
  EventForEach
  FirstComeFirstServed
PROPERTIES
  WokenAsAsked
