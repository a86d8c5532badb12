SPECIFICATION FairSpec
CONSTANTS
  m1 = m1
  m2 = m2
  Machines = {m1, m2}
  Channels <- MCChannels
  delay_frames <- MCDelays
  Configurations <- MCValidConfigurations
  MaxConsoles = 1
  MaxAttempts <- MCAttempts
PROPERTIES WaitsOnlyForRequest
CHECK_DEADLOCK FALSE
