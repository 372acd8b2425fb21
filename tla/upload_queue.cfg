CONSTANTS
  Posts <- RetriedPosts
  SeqOf <- SeqOfRetried
  MaxBuffered = 3
SPECIFICATION FairSpec
INVARIANTS TypeOK InOrderOnce NothingForgotten OnlyRepeatsStrand
PROPERTIES StreamSpec DeliveredIsProcessed
CHECK_DEADLOCK FALSE
