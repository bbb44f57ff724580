CONSTANTS
  pa = pa
  pb = pb
  pe = pe
  pd = pd
  None = None
  Process <- MCProcess
  OSProcess <- MCOSProcess
  Cores <- MCCores
  req_res <- MCreq_res
  Durations = {1, 2}
  MaxCalls = 2
  MaxLives <- MCMaxLives
  Careful = FALSE
SPECIFICATION Spec
CHECK_DEADLOCK FALSE
INVARIANTS
  AlwaysFound
