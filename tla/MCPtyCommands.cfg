CONSTANTS
  High = 3
  Low = 2
  AckSize = 2
  ReadSize = 2
  MaxReplays = 1
  DeviceSize = 2
  Output = 8
  InputSize = 3
  MaxInputs = 1
SPECIFICATION CommandsFairSpec
INVARIANTS
  CommandsTypeOK
  QueueMemoryBounded
  QueueStrandedOnlyByFullAck
PROPERTIES
  ImplementsFlow
  QueueReaderReleased
  QueueDelivers
CHECK_DEADLOCK FALSE
