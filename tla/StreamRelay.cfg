SPECIFICATION ReadingSpec
CONSTANTS
  TargetCount = 2
  TextItems = {t1}
  ToolItems = {f1}
  NoItem = NoItem
  ChannelCap = 2
  MaxFrames = 3
INVARIANTS
  OneAnswer
  StreamWellFormed
  StreamTerminated
  RecordMatchesStream
PROPERTIES
  CommitBindsTarget
  ImplementsContract
  RequestAnswered
  WorkerEnds
CHECK_DEADLOCK FALSE
