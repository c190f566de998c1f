SPECIFICATION PartsSpec
CONSTANTS
  Parts = {"clocks", "arrival", "input", "frames", "schema"}
  Skew = 1
  Second = 5
  Hz = 2
  SampleWindow = 2
  MaxRoundTrip = 3
  OffsetJump = 1
  Suspension = 2
  Slew = 1
  Whole = 2
  Margin = 1
  MaxLead = 2
  MaxAhead = 3
  ProbeEvery = 1
  MaxPause = 3
  MaxLocal = 4
  MaxProbes = 2
  FrameBytes = 1100
  OwnerBytes = 65536
  Septet = 4
  VarintBytes = 5
  Members = 4
  MinMembers = 3
  PayloadBytes = 49152
  Controls <- MCControls
  Pending <- MCPending
  States <- MCStates
  MaxEpochs = 2
  MaxAir = 2
INVARIANTS ClocksSound  
PROPERTY EstimateForward
CHECK_DEADLOCK FALSE
