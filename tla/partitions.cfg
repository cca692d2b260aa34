SPECIFICATION Spec
CONSTANTS
  m1 = m1  m2 = m2  g1 = g1   i1 = i1  i2 = i2  c1 = c1  c2 = c2
  Msg = {m1}
  Group = {g1}
  Instance = {i1}
  Client = {c1}
  GroupOf <- OneGroup
  InstanceOf <- OneInstance
  Obj = {o1, o2, o3}
  NoGroup = NoGroup  NoInstance = NoInstance  NoObj = NoObj
  NoMessage = NoMessage  NoSuchGroup = NoSuchGroup  Unregistered = Unregistered
  Nobody = Nobody
  Replayable = {g1}  ReplayOffsets <- AnyOffsets  Cleaning = FALSE
  Delays = {0, 1}
  Partitions = 2
  MaxRetries = 2
  VisibilityTimeout = 1
  HeartbeatTimeout = 5
  MaxNow = 1
  MaxLog = 2
  MaxRestarts = 0
SYMMETRY Addresses
INVARIANTS TypeInv DeliveredWhenDue
PROPERTIES OnlyReplayPassesLog
CHECK_DEADLOCK FALSE
