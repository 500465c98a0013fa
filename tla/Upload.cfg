\* A buffer of 2 bytes; files of up to 2 buffers and a byte; everything may go
\* wrong.
CONSTANTS
  REQUEST = 2
  HEADER = 3
  BUFFER_SIZE = 2
  Sizes = {0, 1, 2, 3, 4, 5}
  Troubles = {"cut", "sum", "open", "full", "leave"}
  None = None
SPECIFICATION FairSpec
CHECK_DEADLOCK FALSE
INVARIANTS
  TypeOK
  ConfirmedIsStored
  NoStrays
  StrandedOnlyByLoss
PROPERTIES
  UploadReturns
  UploadIsAtomic
