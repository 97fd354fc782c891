---------------------------- MODULE MCPatchApply ----------------------------
(* PatchApply with four diffs: one changes a file by two hunks and then    *)
(* runs into a symbolic link, one creates a file and changes another, one  *)
(* has two entries for one file, and one has a path that is refused.       *)
EXTENDS PatchApply

CONSTANTS a, b, c, d, h1, h2, h3, h4, h5

MCPaths == {a, b, c, d}
MCDiffs == {
    <<[path |-> a, new |-> FALSE, hunks |-> <<h1, h2>>],
      [path |-> c, new |-> FALSE, hunks |-> <<h3>>]>>,
    <<[path |-> b, new |-> TRUE, hunks |-> <<h3>>],
      [path |-> a, new |-> FALSE, hunks |-> <<h4>>]>>,
    <<[path |-> a, new |-> FALSE, hunks |-> <<h4>>],
      [path |-> a, new |-> FALSE, hunks |-> <<h5>>]>>,
    <<[path |-> a, new |-> FALSE, hunks |-> <<h5>>],
      [path |-> d, new |-> FALSE, hunks |-> <<h3>>]>> }
=============================================================================
