----------------------------- MODULE MCProjects -----------------------------
(* Projects with two folders side by side and one inside the first, and a  *)
(* file of the first.                                                      *)
EXTENDS Projects

CONSTANTS a, inner, b, x

MCInside == {<<inner, a>>}
MCRenames == {<<a, b>>}
MCFilesOf == [f \in Folders |-> IF f = a THEN Files ELSE {}]
=============================================================================
