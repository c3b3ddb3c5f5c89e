SPECIFICATION Spec
CONSTANTS
    Proc = {p1, p2}
    QuerySet = {q1, q2}
    Compiler = {c1, c2}
    Tx = {t1, t2}
    Row = {r1}
    None = None
    MaxDepth = 1
    MaxChain = 2
    Nested = FALSE
    Rebound = FALSE
    Cloned = TRUE
    Shared = TRUE
SYMMETRY Symmetry
INVARIANTS RunIsAtomic
CHECK_DEADLOCK FALSE
