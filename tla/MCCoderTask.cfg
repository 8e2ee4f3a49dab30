\* One coding job at a step cap that its retries can hit.
SPECIFICATION Spec
CONSTANTS
    MaxModelCalls = 5
    Roles = {"A", "B", "evaluator", "lead"}
INVARIANTS ProposesLadder OneLossIsSurvived MisconfiguredCostsFour DefaultCapSuffices SpendWithinCap
