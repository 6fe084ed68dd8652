CONSTANTS
    me = me
    s1 = s1
    s2 = s2
    Me = me
    Sentinels = {me, s1}
    Rules = {"R4_1"}
    VotingWindow = 1
    Untracked = Untracked
    NoRequest = NoRequest
    NoVerdict = NoVerdict
    Fee = 8
    BondMultiplier = 2
    SlashingMultiplier = 1
    DaoFeeShare = 1
    FeeShareDenominator = 8
    CommitWindow = 1
    RevealWindow = 2
    ArbitrationTimeout = 0
    ReorgDepth = 1
    InclusionDelay = 1
    MaxBlock = 3
    LastProposal = 2
    MaxReorgs = 1
SPECIFICATION Spec
INVARIANT RevealMatchesCommitment
CHECK_DEADLOCK FALSE
