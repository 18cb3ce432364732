----------------------------- MODULE PinnedStore -----------------------------
(* What a replica promises its readers and its sender: readers pin what is  *)
(* current, whatever is pinned or current stays whole, the current epoch    *)
(* never goes back, and a confirmed epoch survives an outage.               *)
EXTENDS Naturals

CONSTANTS Snapshot, Epoch, Reader, None

VARIABLES whole, current, pins, confirmed

vars == <<whole, current, pins, confirmed>>

Init ==
    /\ whole = {} /\ current = None /\ confirmed = 0
    /\ pins = [r \in Reader |-> None]

Add(s) ==
    /\ whole' = whole \cup {s}
    /\ UNCHANGED <<current, pins, confirmed>>

Publish(s) ==
    /\ s \in whole
    /\ current # None => Epoch[current] <= Epoch[s]
    /\ current' = s
    /\ UNCHANGED <<whole, pins, confirmed>>

Confirm(s) ==
    /\ current # None /\ Epoch[s] <= Epoch[current] /\ confirmed < Epoch[s]
    /\ confirmed' = Epoch[s]
    /\ UNCHANGED <<whole, current, pins>>

Pin(r) ==
    /\ pins[r] = None /\ current # None
    /\ pins' = [pins EXCEPT ![r] = current]
    /\ UNCHANGED <<whole, current, confirmed>>

Unpin(r) ==
    /\ pins' = [pins EXCEPT ![r] = None]
    /\ UNCHANGED <<whole, current, confirmed>>

Remove(s) ==
    /\ s # current /\ \A r \in Reader : pins[r] # s
    /\ whole' = whole \ {s}
    /\ UNCHANGED <<current, pins, confirmed>>

(* Power is lost: no reader is left, and the replica may fall back, but to  *)
(* a whole generation that is not older than what was confirmed.            *)
Outage ==
    /\ pins' = [r \in Reader |-> None]
    /\ whole' \in SUBSET Snapshot
    /\ current' \in whole' \cup {None}
    /\ confirmed > 0 => current' # None /\ confirmed <= Epoch[current']
    /\ UNCHANGED confirmed

Next ==
    \/ \E s \in Snapshot : Add(s) \/ Publish(s) \/ Confirm(s) \/ Remove(s)
    \/ \E r \in Reader : Pin(r) \/ Unpin(r)
    \/ Outage

Spec == Init /\ [][Next]_vars
=============================================================================
