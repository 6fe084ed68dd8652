CONSTANTS
    a = a
    b = b
    c = c
    tx = tx
    epoch = epoch
    Participants = {a, b, c}
    Honest = {a, b}
    Messages = {epoch}
    Transactions = {}
    CeremonyIds = {1, 2}
    Threshold = 2
    SigningTimeout = 1
    OracleTimeout = 1
    Group = "group"
    NoMessage = NoMessage
    NoId = NoId
    NoOne = NoOne
    Prompt = FALSE
    RolloverBlock = 4
    MaxBlock = 7
    LastProposal = 1
    MaxOutside = 2
SPECIFICATION BlocksSpec
INVARIANT SameSelection
PROPERTY RestartsShrink
PROPERTY CeremoniesEnd
CHECK_DEADLOCK FALSE
