SPECIFICATION Spec
CONSTANTS
  Machines = {"m1"}
  Universes = {"u1", "u2"}
  Timelines = {1, 2}
  Stargates = {1, 2, 3}
  machine <- MC_machine
  proc0 <- MC_proc0
  universe <- MC_universe
  source <- MC_source
  target <- MC_target
  min_delay <- MC_min_delay
  endtime = 6
  time_slice = 1
  Infinity = 99
  local_thresh = 2
  global_thresh = 2
  local_thresholds <- MC_local_thresholds
  global_thresholds <- MC_empty
  local_round <- MC_local_round
  local_length = 4
  global_round = 0
  global_length = 0
  InitEvents <- MC_InitEvents
  InitWrites = {}
  MaxSend = 1
  MaxWriteDelay = 0
INVARIANTS
  LbtsSafe
  AllProcessed
PROPERTIES
  ChannelTimeMonotone
  ImplementsCausalTime
