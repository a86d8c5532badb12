SPECIFICATION Spec
CONSTANTS
  m1 = m1
  m2 = m2
  Machines = {m1, m2}
  Channels <- MCChannels
  delay_frames <- MCDelays
  Configurations <- MCConfigurations
  MaxConsoles = 1
  MaxAttempts <- MCOneAttempt
INVARIANTS NullOnFailure
CHECK_DEADLOCK FALSE
