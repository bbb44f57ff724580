CONSTANTS
  Procs <- MCProcs
  g_time_end = 4
  MINDELAY = 2
  LOCAL_MINDELAY = 1
  TimeMax = 9
  InitEvents <- MCInitEvents
  InitMessages <- MCInitMessages
  Delays = {0, 3}
  MaxSend <- MCMaxSend
SPECIFICATION FairSpec
CHECK_DEADLOCK FALSE
INVARIANTS
  TypeOK
  LateOnlyIfStraggled
  NothingLeft
PROPERTIES
  WindowsAdvance
  Termination
