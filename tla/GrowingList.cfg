\* The files list grows while it is being sent.
CONSTANTS
  BUFFER_SIZE = 3
  Sizes = {4, 5, 7}
  FileChange = {"append"}
SPECIFICATION Spec
CHECK_DEADLOCK FALSE
INVARIANT BreaksWhenFileSent
