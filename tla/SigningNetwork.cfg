CONSTANTS
    a = a
    b = b
    c = c
    tx = tx
    epoch = epoch
    Participants = {a, b, c}
    Honest = {a, b}
    Messages = {tx}
    Transactions = {tx}
    CeremonyIds = {1, 2, 3}
    Threshold = 2
    SigningTimeout = 1
    OracleTimeout = 1
    Group = "group"
    NoMessage = NoMessage
    NoId = NoId
    NoOne = NoOne
    Prompt = TRUE
    RolloverBlock = 6
    MaxBlock = 6
    LastProposal = 0
    MaxOutside = 2
SPECIFICATION FairSpec
INVARIANT IndexExactEverywhere
INVARIANT AttestedOnlyApproved
PROPERTY ApprovedIsAttested
CHECK_DEADLOCK FALSE
