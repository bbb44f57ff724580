SPECIFICATION Spec
CONSTANTS
  Machines = {"m1", "m2"}
  Universes = {"u1", "u2", "u3"}
  Timelines = {1, 2, 3}
  Stargates = {1, 2, 3}
  machine <- MC_machine
  proc0 <- MC_proc0
  universe <- MC_universe
  source <- MC_source
  target <- MC_target
  min_delay <- MC_min_delay
  endtime = 5
  time_slice = 99
  Infinity = 99
  local_thresh = 1
  global_thresh = 2
  local_thresholds <- MC_no_thresholds
  global_thresholds <- MC_global_thresholds
  local_round <- MC_none
  local_length = 0
  global_round = 1
  global_length = 2
  InitEvents <- MC_InitEvents
  InitWrites = {}
  MaxSend = 1
  MaxWriteDelay = 0
INVARIANTS
  LbtsSafe
  ChannelTimeSafe
  DeliveredAtEdge
  SameWindow
  AllProcessed
PROPERTIES
  Termination
  ImplementsCausalTime
