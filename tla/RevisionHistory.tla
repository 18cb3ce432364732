-------------------------- MODULE RevisionHistory --------------------------
(* What the primary and its upload queues promise about session revisions:  *)
(* the store only grows, a head only ever moves to a revision that was not  *)
(* stored before (it never rewinds), and a client considers acknowledged    *)
(* only what is stored.                                                     *)
EXTENDS Naturals

CONSTANTS Producer, Session, Revision, None

VARIABLES
    revs,     \* [Session -> the stored revisions]
    head,     \* [Session -> its current revision]
    acked     \* [Producer -> [Session -> the revision its queue holds acknowledged]]

hvars == <<revs, head, acked>>

Init ==
    /\ revs = [s \in Session |-> {}]
    /\ head = [s \in Session |-> None]
    /\ acked = [c \in Producer |-> [s \in Session |-> None]]

Commit(s, r) ==
    /\ r \notin revs[s]
    /\ revs' = [revs EXCEPT ![s] = @ \cup {r}]
    /\ head' = [head EXCEPT ![s] = r]
    /\ UNCHANGED acked

Acknowledge(c, s, r) ==
    /\ r \in revs[s]
    /\ acked' = [acked EXCEPT ![c][s] = r]
    /\ UNCHANGED <<revs, head>>

Next ==
    \E s \in Session, r \in Revision :
       Commit(s, r) \/ \E c \in Producer : Acknowledge(c, s, r)

Spec == Init /\ [][Next]_hvars
=============================================================================
