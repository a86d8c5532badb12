SPECIFICATION HandlersSpec
CONSTANTS
  c1 = c1
  c2 = c2
  port1 = port1
  port2 = port2
  Clients = {c1, c2}
  Ports = {port1, port2}
  owner <- MCOwner
  delay <- MCDelay
  Buttons = {none, pressed}
  Default = none
  MaxFrame = 2
  PORT_ANY = any
  Garbage = garbled
INVARIANTS TypeOK Agreement StopsOnlyWhenBroken SkewBound QueueBound KeysDelivered SomebodyGoesOn
PROPERTIES SharedTapes ClientsAreHandlers
CHECK_DEADLOCK FALSE
