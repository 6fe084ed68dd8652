SPECIFICATION Spec
CONSTANTS
    h1 = h1
    h2 = h2
    h3 = h3
    f = f
    NoGroup = NoGroup
    Participants <- MCParticipants
    Honest <- MCHonest
    Joiners = {h3}
    Configured <- MCConfigured
    KeyGenTimeout = 1
    BlocksPerEpoch = 5
    MaxBlock = 5
    MaxGenesis = 1
    MaxTroubles = 2
SYMMETRY Symmetric
CHECK_DEADLOCK FALSE
INVARIANT HonestAgree
INVARIANT StagedKeyHeld
INVARIANT ActiveEpochAgrees
INVARIANT CompromisedAbandoned
INVARIANT HonestKept
INVARIANT KeyGenInTime
