SPECIFICATION FairExchangeSpec
CONSTANTS
    c1 = c1
    c2 = c2
    c3 = c3
    Unsent = Unsent
    Connections = {c1, c2, c3}
    Sendable <- MCSendable
INVARIANTS
    PassIsEarned
PROPERTY VerdictComes
CHECK_DEADLOCK FALSE
