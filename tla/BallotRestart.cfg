CONSTANTS
    n1 = n1
    n2 = n2
    n3 = n3
    Node = {n1, n2, n3}
    Value = {1, 2}
    QSet <- MCQSet
    Validation <- MCAllValid
    Composites <- MCComposites
    Composite1 = {1, 2}
    Composite2 = {1}
    Composite3 = {}
    Supersedes <- MCSupersedes
    Reordering = FALSE
    MaxTimeouts = 0
    MaxRestarts = 1
    UINT32_MAX = 2
    MAX_ADVANCE_SLOT_RECURSION = 50

SPECIFICATION SpecVotes
INVARIANTS
    TypeOK
    SentIsSane
    NeverStuck
PROPERTIES
    FollowsFederatedVoting
    SentIsNewer
VIEW View
CHECK_DEADLOCK FALSE
