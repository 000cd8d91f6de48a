----------------------------- MODULE GuardedCall -----------------------------
(***************************************************************************)
(* What executing a compiled variant promises to the worker, whatever goes *)
(* wrong inside: before the commit the call may be refused, and then       *)
(* nothing of the user's function has run; after the commit the compiled   *)
(* region runs once, at most one suffix is claimed, and the call ends with *)
(* a value or an exception, never with a refusal.                          *)
(***************************************************************************)
CONSTANT Threads

VARIABLE phase   \* thread -> how far its call has come, "out" outside of one

GuardedCallInit == phase = [t \in Threads |-> "out"]

Moves(t, from, to) == phase[t] \in from /\ phase' = [phase EXCEPT ![t] = to]

Enter(t) == Moves(t, {"out"}, "pre_commit")
Refuse(t) == Moves(t, {"pre_commit"}, "refused")
Commit(t) == Moves(t, {"pre_commit"}, "committed")
ClaimSuffix(t) == Moves(t, {"committed"}, "suffix_claimed")
Return(t) == Moves(t, {"committed", "suffix_claimed"}, "returned")
Raise(t) == Moves(t, {"committed", "suffix_claimed"}, "raised")
Leave(t) == Moves(t, {"refused", "returned", "raised"}, "out")

GuardedCallNext ==
    \E t \in Threads :
        \/ Enter(t) \/ Refuse(t) \/ Commit(t) \/ ClaimSuffix(t)
        \/ Return(t) \/ Raise(t) \/ Leave(t)

(* A call that was entered comes to an end. *)
GuardedCallSpec ==
    /\ GuardedCallInit
    /\ [][GuardedCallNext]_phase
    /\ \A t \in Threads :
        WF_phase(Refuse(t) \/ Commit(t) \/ ClaimSuffix(t) \/ Return(t) \/ Raise(t))
=============================================================================
