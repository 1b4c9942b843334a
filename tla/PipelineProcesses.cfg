SPECIFICATION Spec
CONSTANTS
  Notifications = {n1}
  NoNotification = NoNotification
  Messages = {1}
  NoBody = NoBody
  NoMessage = NoMessage
  Requests = {r1}
  w1 = w1
  w2 = w2
  i1 = i1
  i2 = i2
  Instances = {i1, i2}
  Workers = {w1, w2}
  InstanceOf <- TwoProcesses
  MaxRetries = 2
  BatchSize = 1
  Faults = {"link", "limiter", "reply", "lost", "db", "broker", "crash", "stop"}
  MaxDisruptions = 1
CHECK_DEADLOCK FALSE
SYMMETRY ProcessSymmetry
INVARIANTS
  HeldByOne ReceiptsBounded
PROPERTIES
  ImplementsPromise
