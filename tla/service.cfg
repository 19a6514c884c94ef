\* One delivery and its retries over both stores, with a crash, a shutdown and
\* callers that do not wait.
SPECIFICATION FairSpec
CONSTANTS
  d1 = d1
  Delivery = {d1}
  Evaluation <- Requests
  Dispatches <- SomeDispatches
  MaxTries = 2  MaxCrashes = 1
  Stores = {"memory", "postgres"}
INVARIANTS TypeOK NothingLeftBehind StopWaits AcceptedMeansNotified CleanShutdown
PROPERTIES NothingBeginsAfterAbort EveryRequestAnswered ShutdownEnds
