\* Two agents judge and code one task, without waiting for one another, while it
\* is planned, with one crash of the server.
SPECIFICATION Spec
CONSTANTS
    Agents = {a1, a2}
    Tasks = 1
    Stages = {"judge", "coder", "plan"}
    Polite = FALSE
    MaxRounds = 5
    MaxPlans = 1
    MaxFaults = 2
SYMMETRY AgentSymmetry
INVARIANTS NeverOvercounts LedgerExact RoundLimit BriefIsListed
