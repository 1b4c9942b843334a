SPECIFICATION IntakeFairSpec
CONSTANTS
  MaxRequests = 3
  Keys = {k1, k2}
  k1 = k1
  k2 = k2
  NoKey = NoKey
  NoCall = NoCall
  Calls <- MixedCalls
  Char = {"{", "}", "a", "b", "x"}
  Open = "{"
  Close = "}"
  Definition <- TwoTemplates
  Seeded = {"otp"}
  NoTemplate = NoTemplate
  MaxLength <- Lengths
  Faults = {"db", "commit", "crash"}
  MaxDisruptions = 1
CHECK_DEADLOCK FALSE
INVARIANTS
  IntakeTypeOK AnswersAgree BatchAtomic RefusedLeavesNothing ContentAsAsked UnfitOnlyByTemplate
PROPERTIES
  EveryCallEnds
