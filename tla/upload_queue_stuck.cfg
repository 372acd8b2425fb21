CONSTANTS
  Posts <- RetriedPosts
  SeqOf <- SeqOfRetried
  MaxBuffered = 3
SPECIFICATION Spec
INVARIANTS NextIsNotBuffered
CHECK_DEADLOCK FALSE
