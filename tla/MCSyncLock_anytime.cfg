SPECIFICATION FairSpec
CONSTANTS
  r1 = r1
  r2 = r2
  r3 = r3
  Runs <- Two
  Nobody = Nobody
  StaleSeconds = 1
  MaxTime = 4
  MaxWrites = 1
PROPERTY RowChangesHands
PROPERTY LostForGood
PROPERTY AbandonedRowReclaimed
CHECK_DEADLOCK FALSE
