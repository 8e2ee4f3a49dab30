\* Two plans of one slug, with two tasks and a panel of two, and one fault.
SPECIFICATION FairSpec
CONSTANTS
  MaxModelCalls = 9
  MaxTasks = 2
  Panel = 2
  MaxPlans = 2
  MaxFaults = 1
INVARIANTS ListedIsPlanned KillIsCoherent DefaultCapSuffices
PROPERTIES NoForceNoLoss PlanEnds
