CONSTANTS
    g1 = g1
    g2 = g2
    c1 = c1
    c2 = c2
    x1 = x1
    x2 = x2
    x3 = x3
    Groups <- MCGroups
    SignatureIds <- MCSignatureIds
    Samples <- MCSamples
    Blocks = {1, 2, 3}
    Null = Null
    Used = Used
SYMMETRY MCSymmetry
SPECIFICATION StoreSpec
INVARIANT StoreTypeOK
INVARIANT NonceTakenAtMostOnce
INVARIANT TakenPairWasPublished
INVARIANT ScheduledSinceAbsent
PROPERTY DeadlineNeverMoved
CHECK_DEADLOCK FALSE
