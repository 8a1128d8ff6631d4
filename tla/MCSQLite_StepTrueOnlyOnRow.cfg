CONSTANTS
    s1 = s1
    s2 = s2
    Stmts <- MCStmts
    NRows = 2

SYMMETRY MCSymmetry
SPECIFICATION Spec

INVARIANT StepTrueOnlyOnRow
