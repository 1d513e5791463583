------------------------- MODULE MCBookReplacement -------------------------
(* BookReplacement with three books that replace each other.  No definition *)
(* tells one book from another, so they are interchangeable.               *)
EXTENDS BookReplacement, TLC

BooksSymmetry == Permutations(Books)
=============================================================================
