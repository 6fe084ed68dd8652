CONSTANTS
    me = me
    peer = peer
    m1 = m1
    m2 = m2
    x1 = x1
    x2 = x2
    Messages <- MCMessages
    Transactions <- MCMessages
    SignatureIds = {1}
    CeremonyIds = {1}
    Threshold = 1
    SigningTimeout = 2
    OracleTimeout = 2
    NoMessage = NoMessage
    NoId = NoId
    NoOne = NoOne
    Groups = {"group"}
    Group = "group"
    Samples <- MCSamples
    Blocks = {0, 1, 2, 3}
    Null = Null
    Used = Used
    Participants = {me, peer}
    Me = me
    ReorgDepth = 2
    MaxBlock = 3
    MaxEvents = 2
    MaxPending = 1
    MaxTroubles = 3
SPECIFICATION Spec
SYMMETRY MCSymmetry
INVARIANT NoncePairSignsOnce
INVARIANT SharedOnlyApproved
INVARIANT OneSharePerRow
CHECK_DEADLOCK FALSE
