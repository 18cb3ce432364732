------------------------------- MODULE Mutex -------------------------------
(* What a transfer lock promises its users: whatever happens to the lock    *)
(* file, at most one handler at a time is inside the guarded section of one *)
(* partial upload. Entering and leaving (also by dying) are the only steps. *)
CONSTANT Proc

VARIABLE inside     \* the handlers between "yield True" and the end of the section

Init == inside = {}

Enter(p) == inside = {} /\ inside' = {p}

Leave(p) == p \in inside /\ inside' = inside \ {p}

Next == \E p \in Proc : Enter(p) \/ Leave(p)

Spec == Init /\ [][Next]_inside
=============================================================================
