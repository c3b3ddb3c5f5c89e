SPECIFICATION Spec
CONSTANTS
    Author = Author
    Book = Book
    name = name
    book = book
    author = author
    Model = {Author, Book}
    Field = {name, book, author}
    Type = {1, 2}
    Target <- MCTarget
    Tables <- MCTables
    Proc = {p1, p2}
    None = None
    NoTable = NoTable
    MaxOrder = 2
    Prompt = TRUE
    Cycles = FALSE
    LookupFails = FALSE
SYMMETRY Symmetry
INVARIANTS TypeOK SchemaIsRecorded DependenciesFirst DependenciesWritten AcyclicFiles
CHECK_DEADLOCK FALSE
