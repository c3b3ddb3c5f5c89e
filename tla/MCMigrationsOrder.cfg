SPECIFICATION Spec
CONSTANTS
    Author = Author
    Book = Book
    name = name
    book = book
    author = author
    Model = {Author, Book}
    Field = {name, book, author}
    Type = {1, 2, 3}
    Target <- MCTarget
    Tables <- OrderTables
    Proc = {p1}
    None = None
    NoTable = NoTable
    MaxOrder = 3
    Prompt = FALSE
    Cycles = FALSE
    LookupFails = FALSE
INVARIANTS InOrder
CHECK_DEADLOCK FALSE
