\* One judge round with two judges, at a step cap that the retries can hit.
SPECIFICATION FairSpec
CONSTANTS
  MaxModelCalls = 3
  Judges = 2
  Unit = 10
  Sums = {23955, 23976, 23985, 24015, 24020, 30000}
  MaxCriteria = 2
  Reports <- AllReports
INVARIANTS PassEarned FailEarned RedIsTheReason VerdictIffSuccess
PROPERTIES RoundEnds
