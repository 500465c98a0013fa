\* A buffer of 3 bytes; files of up to 3 buffers, empty ones and whole buffers included.
CONSTANTS
  BUFFER_SIZE = 3
  Sizes = {0, 1, 2, 3, 4, 6, 7, 8, 9}
  FileChange = {}
SPECIFICATION FairSpec
CHECK_DEADLOCK FALSE
INVARIANTS
  TypeOK
  Conservation
  CleanBetweenTransfers
  ExactDelivery
PROPERTY TransferEnds
