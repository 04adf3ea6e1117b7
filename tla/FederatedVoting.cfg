CONSTANTS
    Node = {n1, n2, n3}
    Value <- MCValue
    Quorum <- MCQuorum
    UINT32_MAX = 1
SPECIFICATION MCSpec
INVARIANTS
    IInv
    CommitAgreement
    QuorumsAndBlockingSetsAgree
    NormalFormKeepsSlices
SYMMETRY Alike
CHECK_DEADLOCK FALSE
