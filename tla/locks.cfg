SPECIFICATION FairSpec
CONSTANTS
  Thread = {t1, t2}
  Serving = {"CreateTopic", "Publish", "PublishDelayed", "Consume", "Ack", "Nack", "Heartbeat", "Replay", "SaveConsumerGroup", "GetConsumerGroups", "GetDLQ", "ResendDLQMessage", "GetTopic", "GetMetrics", "Dashboard", "TopicDetail", "RefreshMetrics", "ProcessDeadInstances", "CheckVisibilityTimeouts", "ProcessDelayQueue", "CleanupExpired"}
INVARIANTS GuardedTablesSafe NoDeadlock
PROPERTIES OperationsEnd
CHECK_DEADLOCK FALSE
