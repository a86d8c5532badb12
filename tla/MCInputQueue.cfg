SPECIFICATION FairSpec
CONSTANTS
  Producers = {p1, p2}
  Consumers = {c1, c2}
  Buttons = {none, pressed}
  Default = none
  Delays <- MCDelays
  MaxFrame = 2
INVARIANTS TypeOK NoLostWakeup DeliveredInOrder NothingLost
PROPERTIES OneFrameAtATime ImplementsTape BufferedFrameReturned TimedCallReturns
