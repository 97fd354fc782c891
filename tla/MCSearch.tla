------------------------------ MODULE MCSearch ------------------------------
(* Search where grep finds two lines of one file and one of another.       *)
EXTENDS Search

CONSTANTS f, g

MCOutput == <<f, f, g>>
=============================================================================
