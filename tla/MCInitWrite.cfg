SPECIFICATION Spec
CONSTANTS
  Machines = {"m1"}
  Universes = {"u1", "u2"}
  Timelines = {1, 2}
  Stargates = {1, 2}
  machine <- MC_machine
  proc0 <- MC_proc0
  universe <- MC_universe
  source <- MC_source
  target <- MC_target
  min_delay <- MC_min_delay
  endtime = 3
  time_slice = 99
  Infinity = 99
  local_thresh = 2
  global_thresh = 2
  local_thresholds <- MC_no_thresholds
  global_thresholds <- MC_empty
  local_round <- MC_none
  local_length = 0
  global_round = 0
  global_length = 0
  InitEvents <- MC_InitEvents
  InitWrites <- MC_InitWrites
  MaxSend = 1
  MaxWriteDelay = 0
INVARIANT
  ArrivesOnTime
