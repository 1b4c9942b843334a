SPECIFICATION IntakeSpec
CONSTANTS
  MaxRequests = 1
  Keys = {k1, k2}
  k1 = k1
  k2 = k2
  NoKey = NoKey
  NoCall = NoCall
  Calls <- TemplatedBatch
  Char = {"{", "}", "a", "b", "x"}
  Open = "{"
  Close = "}"
  Definition <- TwoTemplates
  Seeded = {"otp"}
  NoTemplate = NoTemplate
  MaxLength <- Lengths
  Faults = {}
  MaxDisruptions = 0
CHECK_DEADLOCK FALSE
INVARIANTS
  TemplateIsRendered
