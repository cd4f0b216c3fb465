SPECIFICATION FairSpec
CONSTANTS
  Slots = 4
  Capacity = 3
  Shapes <- MCShapes
  ReleaseBatch = 2
  IngestLimit = 3
  MaxCaptures = 3
INVARIANTS NoOverwrite BorrowInOrder ByteBudget QuietAfterStop
PROPERTIES QueueSpec CaptureEnds StopEnds AllTaken
