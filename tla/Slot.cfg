CONSTANTS
    n1 = n1
    n2 = n2
    Node = {n1, n2}
    Value = {1, 2, 3, 4}
    QSet <- MCQSet
    Validation <- MCAllValid
    NodeOrder <- MCNodeOrder
    Proposals <- MCProposals
    Extracted <- MCExtracted
    Combined <- MCCombined
    HashNode <- MCHashNode
    HashValue <- MCHashValue
    UINT64_MAX = 4
    MaxRounds = 2
    Values1 = {1, 3}
    Values2 = {2, 4}
    Composites <- MCComposites
    Supersedes <- MCSupersedes
    Reordering = FALSE
    MaxTimeouts = 4
    MaxEarlyTimeouts = 1
    MaxRestarts = 1
    UINT32_MAX = 5
    MAX_ADVANCE_SLOT_RECURSION = 50
SPECIFICATION SpecSlot
INVARIANTS
    NoBadNomination
    BallotsAreNominated
PROPERTY SlotExternalizes
VIEW View
CHECK_DEADLOCK FALSE
