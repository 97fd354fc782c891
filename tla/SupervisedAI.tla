---------------------------- MODULE SupervisedAI ----------------------------
(***************************************************************************)
(* What the AI panel promises its user, without queue, threads or buttons: *)
(* one request at a time; a request that was stopped proposes nothing; and *)
(* what is written into a project is the proposal that is pending then.    *)
(***************************************************************************)
EXTENDS Integers

VARIABLES
    issued,     \* the largest request number used so far
    live,       \* the request being worked on, 0 if there is none
    stopped,    \* the requests the user stopped
    proposal,   \* the request whose diff awaits a decision, 0 if none does
    written     \* the requests whose diff was written, in part or in full

vars == <<issued, live, stopped, proposal, written>>

Init ==
    /\ issued = 0
    /\ live = 0
    /\ stopped = {}
    /\ proposal = 0
    /\ written = {}

(* A new request; a prompt that is not a review drops the proposal.        *)
Start ==
    /\ live = 0
    /\ live' > issued
    /\ issued' = live'
    /\ proposal' \in {proposal, 0}
    /\ UNCHANGED <<stopped, written>>

Answer ==
    /\ live # 0
    /\ live' = 0
    /\ proposal' \in {proposal, live}
    /\ UNCHANGED <<issued, stopped, written>>

Stop ==
    /\ live # 0
    /\ live' = 0
    /\ issued' > issued
    /\ stopped' = stopped \cup {live}
    /\ UNCHANGED <<proposal, written>>

Write ==
    /\ proposal # 0
    /\ written' = written \cup {proposal}
    /\ proposal' \in {proposal, 0}
    /\ UNCHANGED <<issued, live, stopped>>

Discard ==
    /\ proposal' = 0
    /\ UNCHANGED <<issued, live, stopped, written>>

Next == Start \/ Answer \/ Stop \/ Write \/ Discard

SafeSpec == Init /\ [][Next]_vars
=============================================================================
