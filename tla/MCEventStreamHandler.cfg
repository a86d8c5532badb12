SPECIFICATION Spec
CONSTANTS
  any = any
  local = local
  remote = remote
  unused = unused
  none = none
  a = a
  b = b
  garbled = garbled
  Ports <- MCPorts
  PORT_ANY = any
  local_ports <- MCLocalPorts
  Frames <- MCFrames
  Buttons <- MCButtons
  Default = none
  Encodable <- MCEncodable
  Garbage = garbled
  Batches <- MCBatches
  Events <- MCEvents
INVARIANTS
  TypeOK GotButtonsMeansReady SentIsPlayed UnsentOnlyAfterFailure
  ReceivedIsPlayed PlayedInOrder ReadsOnlyWhatIsMissing QueuesMatchStart
