SPECIFICATION Spec
CONSTANTS
  m1 = m1
  m2 = m2
  Machines = {m1, m2}
  Channels <- MCChannels
  delay_frames <- MCDelays
  Configurations <- MCConfigurations
  MaxConsoles = 2
  MaxAttempts <- MCAttempts
INVARIANTS TypeOK ControllersMatchConsole OneOwnerPerPort PlaysTogether PluggedNeverAborts
CHECK_DEADLOCK FALSE
