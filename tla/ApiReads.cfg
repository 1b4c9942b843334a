SPECIFICATION ApiReadsSpec
CONSTANTS
  Ids = {1, 2, 3}
  ChannelOf <- TwoChannels
  Stamps = {1, 2}
  StatusSeen = {"pending", "sent", "queued"}
  Tables <- SomeTables
  MaxWrites = 2
  Any = Any
  Requests <- ThreeFilters
  DefaultSize = 1
  MaxSize = 2
  Probers = {c1, c2}
  NoProber = NoProber
  Faults = {"db", "outage"}
  MaxDisruptions = 1
INVARIANTS
  ApiReadsTypeOK WalkSeesAll PagesPromisedExist SentHasLatency NoFalseAlarm OneConnection
PROPERTIES
  ReadsEnd
