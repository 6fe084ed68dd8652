CONSTANTS
    Q = 7
    WordBits = 3
    Participants = {1, 2, 3}
    Identifier <- MCIdentifier
    Threshold = 2
    Honest = {1, 3}
    Secrets <- MCSecrets
    Nonces <- MCNonces
    BindingFactors <- MCBindingFactors
    Challenges = {1, 4}

SPECIFICATION Spec

INVARIANT HonestNeverBlamed
INVARIANT KeyedTogether
INVARIANT SelectionSigns

\* The ceremony ends.
CHECK_DEADLOCK FALSE
