CONSTANTS
    me = me
    s1 = s1
    s2 = s2
    Me = me
    Sentinels = {me, s1, s2}
    Rules = {"R4_1"}
    VotingWindow = 1
    Untracked = Untracked
    NoRequest = NoRequest
    NoVerdict = NoVerdict
    Fee = 8
    BondMultiplier = 2
    SlashingMultiplier = 1
    DaoFeeShare = 1
    FeeShareDenominator = 8
    CommitWindow = 1
    RevealWindow = 2
    ArbitrationTimeout = 0
    ReorgDepth = 2
    InclusionDelay = 1
    MaxBlock = 7
    LastProposal = 1
    MaxReorgs = 1
SPECIFICATION FairSpec
INVARIANT RevealMatchesCommitment
INVARIANT BelievesTheChain
PROPERTY EscrowImplemented
PROPERTY BondReturned
CHECK_DEADLOCK FALSE
