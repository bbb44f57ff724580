CONSTANTS
  pa = pa
  pb = pb
  pe = pe
  pd = pd
  None = None
  Process <- MCProcess
  OSProcess <- MCOSProcess
  Cores <- MCCores
  req_res <- MCreq_res
  Durations = {1, 2}
  MaxCalls = 4
  MaxLives <- MCMaxLives
  Careful = TRUE
SPECIFICATION FairSpec
CHECK_DEADLOCK FALSE
INVARIANTS
  TypeOK
  OnePlace
  NoIdleCore
  OneMessage
  NoFailure
PROPERTIES
  AllEnd
