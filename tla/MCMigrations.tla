---------------------------- MODULE MCMigrations ----------------------------
(* Small instances of Migrations for TLC: authors and books, where a book    *)
(* may relate to its author or, in another design, an author to a book.      *)
EXTENDS Migrations

CONSTANTS Author, Book, name, book, author

MCTarget == (name :> None) @@ (book :> Book) @@ (author :> Author)

Plain == [fields |-> (name :> 1), indexes |-> {}]
Linked(f) == [fields |-> (name :> 1) @@ (f :> 1), indexes |-> {}]
Indexed(type) == [fields |-> (name :> type), indexes |-> {name}]

MCTables ==
    (Author :> {Plain, Linked(book)})
    @@ (Book :> {Plain, Indexed(1), Indexed(2), Linked(author)})

(* A column that may be given three definitions, and no index. *)
Typed(type) == [fields |-> (name :> type), indexes |-> {}]
OrderTables == (Author :> {Plain}) @@ (Book :> {Typed(t) : t \in Type})

Symmetry == Permutations(Proc)
=============================================================================
