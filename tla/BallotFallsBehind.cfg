CONSTANTS
    n1 = n1
    n2 = n2
    n3 = n3
    Node = {n1, n2, n3}
    Value = {1, 2}
    QSet <- MCQSet
    Validation <- MCAllValid
    Composites <- MCComposites
    Composite1 = {1, 2}
    Composite2 = {1, 2}
    Composite3 = {1}
    Supersedes <- MCSupersedes
    Reordering = TRUE
    MaxTimeouts = 4
    MaxRestarts = 0
    UINT32_MAX = 4
    MAX_ADVANCE_SLOT_RECURSION = 50

SPECIFICATION Spec
INVARIANT NoFailure
CONSTRAINT FallsBehind
CHECK_DEADLOCK FALSE
