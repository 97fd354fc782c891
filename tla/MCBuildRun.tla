----------------------------- MODULE MCBuildRun -----------------------------
(* BuildRun on two projects, which no action tells apart by name.          *)
EXTENDS BuildRun, TLC

ProjectsAreAlike == Permutations(Projects)
=============================================================================
