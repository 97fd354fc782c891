--------------------------- MODULE MCProjectTree ---------------------------
(* ProjectTree with two names, which stand for each other.                 *)
EXTENDS ProjectTree, TLC

NamesAreAlike == Permutations(Dirs)
=============================================================================
