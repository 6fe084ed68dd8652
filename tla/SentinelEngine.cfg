CONSTANTS
    Zero = "zero"
    Safe = "safe"
    Deployments <- MCDeployments
    MaxBatchDepth = 2
    MaxU256 = 7
    Blocklist = {"scammer"}
    Requests <- MCRequests
    Display <- MCDisplay
    ProviderChain = 1
    Heads = {4, 5}
    MaxU64 = 5
    Lookback = 3
    MaxRange = 1
    OtherOrder <- MCOtherOrder
    Latest = Latest
    NoVerdict = NoVerdict
    NoScan = NoScan
SPECIFICATION FairSpec
INVARIANT SecureIsHarmless
INVARIANT SecureGrantsBacked
INVARIANT FailuresOnlyAbstain
PROPERTY VerdictReached
CHECK_DEADLOCK FALSE
