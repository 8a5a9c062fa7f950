SPECIFICATION FairSpec
CONSTANTS
    NUM_PHYS = 4
    TempPhys <- TempPair
    MaxChanges = 3
INVARIANTS TypeOK AnswerIsMine MDIOExclusive LogKeepsUp
PROPERTIES NeverInterrupted TableAndLedSettle CommandServed
