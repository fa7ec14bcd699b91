SPECIFICATION ReadingSpec
CONSTANTS
  TargetCount = 2
  TextItems = {t1}
  ToolItems = {f1}
  NoItem = NoItem
  ChannelCap = 1
  MaxFrames = 2
PROPERTY
  EndIsTold
CHECK_DEADLOCK FALSE
