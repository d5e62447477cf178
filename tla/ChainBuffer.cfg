CONSTANTS
  InitCapacity = 1
  HintLimit = 2
  AllocSize = 2
  SmallSlice = 1
  MaxBytes = 3
SPECIFICATION Spec
INVARIANTS
  TypeOK
  InOrder
  WithinSize
  AdvanceComplete
  SyncSeesAppended
  NoRaceOnNext
  NoUseAfterFree
  NoLeak
PROPERTIES
  ImplementsByteStream
  EverythingRead
