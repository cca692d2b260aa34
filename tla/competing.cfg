SPECIFICATION Spec
CONSTANTS
  m1 = m1  m2 = m2  g1 = g1   i1 = i1  i2 = i2  c1 = c1  c2 = c2
  Msg = {m1}
  Group = {g1}
  Instance = {i1, i2}
  Client = {c1, c2}
  GroupOf <- OneGroup
  InstanceOf <- TwoInstances
  Obj = {o1, o2, o3}
  NoGroup = NoGroup  NoInstance = NoInstance  NoObj = NoObj
  NoMessage = NoMessage  NoSuchGroup = NoSuchGroup  Unregistered = Unregistered
  Nobody = Nobody
  Replayable = {}  ReplayOffsets = {}  Cleaning = FALSE
  Delays = {0}
  Partitions = 1
  MaxRetries = 3
  VisibilityTimeout = 1
  HeartbeatTimeout = 0
  MaxNow = 1
  MaxLog = 2
  MaxRestarts = 0
SYMMETRY PeerInstances
PROPERTIES LeaseSpec
CHECK_DEADLOCK FALSE
