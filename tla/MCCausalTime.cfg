SPECIFICATION FairSpec
CONSTANTS
  Timelines = {1, 2}
  Stargates = {1, 2}
  source <- MC_source
  target <- MC_target
  min_delay <- MC_min_delay
  endtime = 3
  Event <- MC_Event
INVARIANTS
  TypeOK
  NoStraggler
  WithinLookahead
PROPERTIES
  Progress
