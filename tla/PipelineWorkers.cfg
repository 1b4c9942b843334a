SPECIFICATION Spec
CONSTANTS
  Notifications = {n1}
  NoNotification = NoNotification
  Messages = {1, 2}
  NoBody = NoBody
  NoMessage = NoMessage
  Requests = {r1}
  w1 = w1
  w2 = w2
  i1 = i1
  i2 = i2
  Instances = {i1}
  Workers = {w1, w2}
  InstanceOf <- OneProcess
  MaxRetries = 2
  BatchSize = 1
  Faults = {"reply", "db", "api-channel", "worker-channel", "broker", "link", "crash", "stop"}
  MaxDisruptions = 1
CHECK_DEADLOCK FALSE
SYMMETRY WorkerSymmetry
INVARIANTS
  TypeOK NothingLost AckedWasReceived StatusTruthful NotBeforeDue
  RetryCountTruthful DeadLetterJustified
PROPERTIES
  CancelBeforePickupIsFinal
