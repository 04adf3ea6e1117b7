CONSTANTS
    n1 = n1
    n2 = n2
    n3 = n3
    Node = {n1, n2, n3}
    Value = {1, 2}
    QSet <- MCQSet
    Validation <- MCAllValid
    Composites <- MCComposites
    Composite1 = {2}
    Composite2 = {2}
    Composite3 = {1}
    Supersedes <- MCSupersedes
    Reordering = FALSE
    MaxTimeouts = 1
    MaxRestarts = 1
    UINT32_MAX = 3
    MAX_ADVANCE_SLOT_RECURSION = 50

SPECIFICATION Spec
PROPERTY TimeoutKeepsCommitValue
CHECK_DEADLOCK FALSE
