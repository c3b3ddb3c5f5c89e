SPECIFICATION FairSpec
CONSTANTS
    Proc = {p1}
    QuerySet = {q1}
    Compiler = {c1, c2}
    Tx = {t1, t2}
    Row = {r1}
    None = None
    MaxDepth = 2
    MaxChain = 2
    Nested = TRUE
    Rebound = FALSE
    Cloned = FALSE
    Shared = FALSE
PROPERTIES CallsEndTransactions
CHECK_DEADLOCK FALSE
