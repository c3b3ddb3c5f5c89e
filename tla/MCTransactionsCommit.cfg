SPECIFICATION Spec
CONSTANTS
    Proc = {p1}
    QuerySet = {q1}
    Compiler = {c1, c2}
    Tx = {t1, t2}
    Row = {r1}
    None = None
    MaxDepth = 2
    MaxChain = 2
    Nested = FALSE
    Rebound = FALSE
    Cloned = FALSE
    Shared = FALSE
INVARIANTS HonestCommit
CHECK_DEADLOCK FALSE
