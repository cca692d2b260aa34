SPECIFICATION FairSpec
CONSTANTS
  Thread = {t1, t2}
  Serving = {"ProcessDelayQueue", "CleanupExpired", "Publish", "Ack"}
PROPERTIES BackgroundTasksEnd
CHECK_DEADLOCK FALSE
