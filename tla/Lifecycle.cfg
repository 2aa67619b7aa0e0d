SPECIFICATION FairSpec
CHECK_DEADLOCK FALSE
INVARIANTS
  TypeOK
  TasksKeepWhatTheyNeed
  DeliveriesEndFirst
  EndsHonestly
PROPERTIES
  GoesDown
