SPECIFICATION FairSpec
CONSTANTS
    None = None
    Cases <- MCCases
    Lines <- MCLines
    Markers <- MCMarkers
    Payload <- MCPayload
    MaxOutput = 1
    MaxLogs = 1
INVARIANTS
    PassIsReal
    PassIsOfThePayload
    FailureIsJustified
PROPERTY RunEnds
CHECK_DEADLOCK FALSE
