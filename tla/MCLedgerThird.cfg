\* A guarantee the code does not keep: a third round of one task is judged.
SPECIFICATION Spec
CONSTANTS
  Agents = {a1}
  Tasks = 2
  Stages = {"judge", "review"}
  Polite = TRUE
  MaxRounds = 3
  MaxPlans = 0
  MaxFaults = 0
INVARIANTS ThirdRoundRefused
