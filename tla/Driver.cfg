CONSTANTS
    NoBlock = NoBlock
    MaxReorgDepth = 2
    Settings <- MCSettings
    PageSize = 2
    InitialHeight = 3
    MaxMined = 4
    MaxCrashes = 1
    MaxResumes = 1
SPECIFICATION FairSpec
INVARIANT SurvivesReorgs
INVARIANT AnchorCanonical
INVARIANT LiveFollowsTracked
INVARIANT LinkedState
PROPERTY EventuallyInSync
CHECK_DEADLOCK FALSE
