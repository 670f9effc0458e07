SPECIFICATION FairSpec
CONSTANTS
  MaxTasks = 6
  MaxMessages = 2
  NoTask = NoTask
  Cap = 2
  Batch = 1
  MaxOps = 2
  MaxFaults = 2
INVARIANTS
  TypeOK
  FollowUpsMatch
  AnsweredOnce
PROPERTIES
  FollowUpMade
  InboxDrains
CHECK_DEADLOCK FALSE
