SPECIFICATION Spec
CONSTANTS
  Notifications = {n1, n2}
  NoNotification = NoNotification
  Messages = {1, 2, 3}
  NoBody = NoBody
  NoMessage = NoMessage
  Requests = {r1}
  w1 = w1
  w2 = w2
  i1 = i1
  i2 = i2
  Instances = {i1}
  Workers = {w1}
  InstanceOf <- OneProcess
  MaxRetries = 1
  BatchSize = 2
  Faults = {}
  MaxDisruptions = 0
CHECK_DEADLOCK FALSE
SYMMETRY NotificationSymmetry
INVARIANTS
  SendingMeansWorking DuplicationBounded
