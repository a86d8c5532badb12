SPECIFICATION FairSpec
CONSTANTS
  c1 = c1
  c2 = c2
  port1 = port1
  port2 = port2
  port3 = port3
  Clients = {c1, c2}
  Ports = {port1, port2, port3}
  owner <- MCOwner
  delay <- MCDelay
  Buttons = {none}
  Default = none
  MaxFrame = 1
PROPERTIES EveryGameAdvances
CHECK_DEADLOCK FALSE
