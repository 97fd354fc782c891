---------------------------- MODULE MCDocuments ----------------------------
(* Model values for Documents: one name is as good as another.             *)
EXTENDS Documents, TLC

PathsAreAlike == Permutations(Paths)

=============================================================================
