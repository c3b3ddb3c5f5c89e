SPECIFICATION Spec
CONSTANTS
    Proc = {p1}
    QuerySet = {q1, q2}
    Compiler = {c1, c2, c3}
    Tx = {t1, t2, t3}
    Row = {r1}
    None = None
    MaxDepth = 2
    MaxChain = 3
    Nested = FALSE
    Rebound = TRUE
    Cloned = FALSE
    Shared = FALSE
SYMMETRY Symmetry
INVARIANTS TypeOK AllOrNothing HonestUnlessCancelled NoLeak
CHECK_DEADLOCK FALSE
