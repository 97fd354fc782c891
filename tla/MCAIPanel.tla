----------------------------- MODULE MCAIPanel -----------------------------
(* AIPanel on one project that can be open or closed, diffs of two hunks,  *)
(* and enough request ids to stop a request and start another one.         *)
EXTENDS AIPanel
=============================================================================
