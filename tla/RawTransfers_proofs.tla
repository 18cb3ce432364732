------------------------- MODULE RawTransfers_proofs -------------------------
(* What RawTransfers promises, for any producers, threads, sizes and budget,*)
(* and what the lock on a transfer's files below it promises for any        *)
(* processes and faults. The inductive invariant of the transfers says what *)
(* each handler knows at the point it is at: whose section it is in, what   *)
(* it may append there, and which files of the object must be durable by    *)
(* then; that of the lock, who owns the file that the path names.           *)
EXTENDS RawTransfers, TransferLock, SequenceTheorems, FiniteSetTheorems, TLAPS

Beginning(pr, k) == SubSeq(Copy(pr), 1, k)
Partials == [Producer -> Seq(0..Total)]
FileStates == {"absent", "linked", "durable"}
Requests == [pc : HandlerPCs, pr : Producer \cup {None}, off : 0..Total, n : 0..MaxChunk, at : 0..Files]
ClientPCs == {"idle", "wait", "ready", "done", "rejected"}
Attempts == [pc : ClientPCs, off : 0..Total, n : 0..MaxChunk, t : Thread \cup {None}]

TypeFile == file \in [1..Files -> FileStates]
TypeLock == lock \in [Producer -> Thread \cup {None}]
TypeThreads == th \in [Thread -> Requests] /\ \A t \in Thread : th[t].off + th[t].n <= Total
TypeClients == cl \in [Producer -> Attempts] /\ \A pr \in Producer : cl[pr].off + cl[pr].n <= Total
TypeTold == told \in [Producer -> 0..Total]

(* Each partial, cached and durable, is a beginning of the object.          *)
Begun(w) ==
    /\ w \in Partials
    /\ \A pr \in Producer : Len(w[pr]) \in 0..Total /\ w[pr] = Beginning(pr, Len(w[pr]))

(* Whoever is busy is so for a producer. *)
Busy == \A t \in Thread : th[t].pc # "idle" => th[t].pr \in Producer

Types == Busy /\ TypeFile /\ TypeLock /\ TypeThreads /\ TypeClients /\ TypeTold /\ Begun(part) /\ Begun(disk)

(* A handler that is in a section is in that of its own request.            *)
Sections ==
    /\ \A t \in Thread : th[t].pc \in LockedPCs => lock[th[t].pr] = t
    /\ \A pr \in Producer : lock[pr] # None => th[lock[pr]].pc \in LockedPCs /\ th[lock[pr]].pr = pr

(* A client waits for a handler of its own request, and only an intact      *)
(* copy's client is never rejected.                                         *)
Answers ==
    /\ \A pr \in Producer : cl[pr].pc = "wait" =>
          cl[pr].t \in Thread /\ th[cl[pr].t].pc # "idle" /\ th[cl[pr].t].pr = pr
    /\ \A t \in Thread : th[t].pc = "reject" => th[t].pr \in Rotten
    /\ NeverRejected

(* What a handler has compared stays so while it is in the section.         *)
Compared ==
    \A t \in Thread :
       /\ th[t].pc = "admitted" => AtEnd(t)
       /\ th[t].pc \in {"publish", "sync"} => part[th[t].pr] = Source

(* The files of the object become durable one after the other, and what     *)
(* relies on the whole object comes after the last of them.                 *)
AllDurable == \A i \in 1..Files : file[i] = "durable"
Relies(q) ==
    /\ q.pc = "found" => Completed
    /\ q.pc \in {"publish", "sync"} => q.at \in 1..Files /\ \A i \in 1..q.at - 1 : file[i] = "durable"
    /\ q.pc = "sync" => file[q.at] # "absent"
    /\ q.pc \in {"drop", "dropped", "complete"} => AllDurable
Durable == RecipeComesLast /\ (\A t \in Thread : Relies(th[t])) /\ CompleteIsDurable

(* A durable partial is forgotten only with the object durable; so an offset*)
(* that was promised is durable, in the partial or in the object.           *)
Promised ==
    \A pr \in Producer :
       /\ Len(disk[pr]) <= Len(part[pr]) \/ AllDurable
       /\ told[pr] <= Len(disk[pr]) \/ AllDurable

(* The staging budget holds for what is cached and what is durable together *)
(* (a power loss may bring a partial back), and for what the one append that*)
(* was admitted is about to add.                                            *)
Units(w) == {u \in Producer \X (1..Total) : u[2] <= Len(w[u[1]])}
Footprint == Units(part) \cup Units(disk)
Metered ==
    Budget # None =>
       /\ \A s, t \in Thread : Scanning(s) /\ Scanning(t) => s = t
       /\ Cardinality(Footprint) <= Budget
       /\ \A t \in Thread : th[t].pc = "admitted" /\ th[t].n # 0 => Cardinality(Footprint) + th[t].n <= Budget

(* Crashes, power losses and expiries are counted. *)
Counted == faults \in Nat

IInv == Types /\ Counted /\ Sections /\ Answers /\ Compared /\ Durable /\ Promised /\ Metered

-----------------------------------------------------------------------------
(* Beginnings of the object. *)
LEMMA SourceFacts ==
    ASSUME NEW pr \in Producer
    PROVE  /\ Source \in Seq(0..Total) /\ Len(Source) = Total
           /\ Copy(pr) \in Seq(0..Total) /\ Len(Copy(pr)) = Total
           /\ Copy(pr) = Source <=> pr \notin Rotten
<1>1. Source \in [1..Total -> 0..Total]
  BY SizeAssumption DEF Source
<1>2. Copy(pr) \in [1..Total -> 0..Total]
  BY <1>1, SizeAssumption DEF Copy
<1>3. pr \in Rotten => Copy(pr)[Total] = 0 /\ Source[Total] = Total /\ Total # 0
  BY <1>1, SizeAssumption DEF Copy, Source
<1>4. ASSUME NEW s \in [1..Total -> 0..Total] PROVE s \in Seq(0..Total) /\ Len(s) = Total
  BY <1>4, SizeAssumption
<1>5. Copy(pr) = Source <=> pr \notin Rotten
  BY <1>3 DEF Copy
<1>6. QED
  BY <1>1, <1>2, <1>4, <1>5

LEMMA BeginningFacts ==
    ASSUME NEW pr \in Producer, NEW k \in 0..Total
    PROVE  /\ Beginning(pr, k) \in Seq(0..Total) /\ Len(Beginning(pr, k)) = k
           /\ \A i \in 1..k : Beginning(pr, k)[i] = Copy(pr)[i]
<1>1. Copy(pr) \in Seq(0..Total) /\ Len(Copy(pr)) = Total
  BY SourceFacts
<1>2. \A i \in 1..k : Copy(pr)[i] \in 0..Total
  BY <1>1, ElementOfSeq, SizeAssumption
<1>3. /\ SubSeq(Copy(pr), 1, k) \in Seq(0..Total)
      /\ Len(SubSeq(Copy(pr), 1, k)) = IF 1 <= k THEN k - 1 + 1 ELSE 0
      /\ \A i \in 1..k - 1 + 1 : SubSeq(Copy(pr), 1, k)[i] = Copy(pr)[1 + i - 1]
  <2> DEFINE S == 0..Total
  <2> HIDE DEF S
  <2>1. \A i \in 1..k : Copy(pr)[i] \in S
    BY <1>2 DEF S
  <2>2. 1 \in Int /\ k \in Int
    BY SizeAssumption
  <2>3. /\ SubSeq(Copy(pr), 1, k) \in Seq(S)
        /\ Len(SubSeq(Copy(pr), 1, k)) = IF 1 <= k THEN k - 1 + 1 ELSE 0
        /\ \A i \in 1..k - 1 + 1 : SubSeq(Copy(pr), 1, k)[i] = Copy(pr)[1 + i - 1]
    BY <2>1, <2>2, SubSeqProperties
  <2>4. QED
    BY <2>3 DEF S
<1>4. k - 1 + 1 = k /\ \A i \in 1..k : 1 + i - 1 = i
  BY SizeAssumption
<1>5. QED
  BY <1>3, <1>4 DEF Beginning

LEMMA BeginningEnds ==
    ASSUME NEW pr \in Producer
    PROVE  Beginning(pr, 0) = <<>> /\ Beginning(pr, Total) = Copy(pr)
<1>1. Copy(pr) \in Seq(0..Total) /\ Len(Copy(pr)) = Total
  BY SourceFacts
<1>2. SubSeq(Copy(pr), 1, Len(Copy(pr))) = Copy(pr)
  BY <1>1, SubSeqFull
<1>3. QED
  BY <1>1, <1>2, SubSeqEmpty DEF Beginning

LEMMA BeginningGrows ==
    ASSUME NEW pr \in Producer, NEW j \in 0..Total, NEW n \in Nat, j + n <= Total
    PROVE  Beginning(pr, j) \o SubSeq(Copy(pr), j + 1, j + n) = Beginning(pr, j + n)
<1>1. Copy(pr) \in Seq(0..Total) /\ Len(Copy(pr)) = Total
  BY SourceFacts
<1>2. 1 \in 1..Len(Copy(pr)) + 1 /\ j \in 1 - 1..Len(Copy(pr)) /\ j + n \in j..Len(Copy(pr))
  BY <1>1, SizeAssumption
<1>3. QED
  BY <1>1, <1>2, ConcatAdjacentSubSeq DEF Beginning

LEMMA TornPiece ==
    ASSUME NEW pr \in Producer, NEW j \in 0..Total, NEW n \in Nat, j + n <= Total, NEW k \in 0..n
    PROVE  SubSeq(SubSeq(Copy(pr), j + 1, j + n), 1, k) = SubSeq(Copy(pr), j + 1, j + k)
<1>1. Copy(pr) \in Seq(0..Total) /\ Len(Copy(pr)) = Total
  BY SourceFacts
<1>2. CASE k = 0
  BY <1>2, SubSeqEmpty
<1>3. CASE k # 0
  <2>1. /\ j + 1 \in 1..Len(Copy(pr)) /\ j + n \in 1..Len(Copy(pr))
        /\ 1 \in 1..(j + n) - (j + 1) + 1 /\ k \in 1..(j + n) - (j + 1) + 1
        /\ (j + 1) + 1 - 1 = j + 1 /\ (j + 1) + k - 1 = j + k
    BY <1>1, <1>3, SizeAssumption
  <2>2. SubSeq(SubSeq(Copy(pr), j + 1, j + n), 1, k) = SubSeq(Copy(pr), (j + 1) + 1 - 1, (j + 1) + k - 1)
    BY <1>1, <2>1, SubSeqOfSubSeq
  <2>3. QED
    BY <2>1, <2>2
<1>4. QED
  BY <1>2, <1>3

LEMMA BeginningOfBeginning ==
    ASSUME NEW pr \in Producer, NEW k \in 0..Total, NEW j \in 0..k
    PROVE  SubSeq(Beginning(pr, k), 1, j) = Beginning(pr, j)
<1>1. 0 + k <= Total /\ 0 \in 0..Total /\ k \in Nat /\ 0 + 1 = 1 /\ 0 + k = k /\ 0 + j = j
  BY SizeAssumption
<1>2. SubSeq(SubSeq(Copy(pr), 0 + 1, 0 + k), 1, j) = SubSeq(Copy(pr), 0 + 1, 0 + j)
  BY <1>1, TornPiece
<1>3. QED
  BY <1>1, <1>2 DEF Beginning

LEMMA BeginningPrefix ==
    ASSUME NEW pr \in Producer, NEW j \in 0..Total, NEW k \in 0..Total
    PROVE  /\ IsPrefix(Beginning(pr, j), Beginning(pr, k)) <=> j <= k
           /\ IsPrefix(Beginning(pr, j), Copy(pr))
<1>1. Len(Beginning(pr, j)) = j /\ Len(Beginning(pr, k)) = k /\ Len(Copy(pr)) = Total
  BY BeginningFacts, SourceFacts
<1>2. SubSeq(Beginning(pr, j), 1, j) = Beginning(pr, j)
  BY BeginningOfBeginning
<1>3. j <= k => SubSeq(Beginning(pr, k), 1, j) = Beginning(pr, j)
  BY BeginningOfBeginning
<1>4. QED
  BY <1>1, <1>2, <1>3 DEF IsPrefix, Beginning

LEMMA BeginningIsWhole ==
    ASSUME NEW pr \in Producer, NEW k \in 0..Total
    PROVE  Beginning(pr, k) = Source <=> k = Total /\ pr \notin Rotten
BY BeginningFacts, BeginningEnds, SourceFacts

(* What writing one partial does. *)
LEMMA BegunExcept ==
    ASSUME NEW w, Begun(w), NEW pr \in Producer, NEW k \in 0..Total
    PROVE  /\ Begun([w EXCEPT ![pr] = Beginning(pr, k)])
           /\ Len([w EXCEPT ![pr] = Beginning(pr, k)][pr]) = k
<1>1. Beginning(pr, k) \in Seq(0..Total) /\ Len(Beginning(pr, k)) = k
  BY BeginningFacts
<1>2. QED
  BY <1>1 DEF Begun, Partials

LEMMA EmptyIffZero ==
    ASSUME NEW w, Begun(w), NEW pr \in Producer
    PROVE  w[pr] = <<>> <=> Len(w[pr]) = 0
BY BeginningEnds, EmptySeq DEF Begun, Partials

-----------------------------------------------------------------------------
(* The staging directory. *)
LEMMA AppendedUnits ==
    ASSUME NEW S, IsFiniteSet(S), NEW x, NEW a \in Nat, NEW n \in Nat
    PROVE  /\ IsFiniteSet(S \cup ({x} \X (a + 1..a + n)))
           /\ Cardinality(S \cup ({x} \X (a + 1..a + n))) <= Cardinality(S) + n
<1> DEFINE I == a + 1..a + n
           T == {x} \X I
           f == [i \in I |-> <<x, i>>]
<1>1. IsFiniteSet(I) /\ Cardinality(I) = n
  BY FS_Interval
<1> HIDE DEF I
<1>2. f \in Surjection(I, T)
  <2>1. f \in [I -> T]
    OBVIOUS
  <2>2. ASSUME NEW u \in T PROVE \E i \in I : f[i] = u
    <3>1. u = <<x, u[2]>> /\ u[2] \in I
      OBVIOUS
    <3>2. f[u[2]] = u
      BY <3>1
    <3>3. QED
      BY <3>1, <3>2
  <2>3. QED
    BY <2>1, <2>2 DEF Surjection
<1> HIDE DEF f, T
<1>3. IsFiniteSet(T) /\ Cardinality(T) <= n
  BY <1>1, <1>2, FS_Surjection
<1>4. IsFiniteSet(S \cup T) /\ Cardinality(S \cup T) = Cardinality(S) + Cardinality(T) - Cardinality(S \cap T)
  BY <1>3, FS_Union
<1>5. Cardinality(S) \in Nat /\ Cardinality(T) \in Nat
  BY <1>3, FS_CardinalityType
<1>6. Cardinality(S \cap T) \in Nat
  BY <1>3, FS_Subset, FS_CardinalityType
<1>7. IsFiniteSet(S \cup T) /\ Cardinality(S \cup T) <= Cardinality(S) + n
  BY <1>3, <1>4, <1>5, <1>6
<1>8. QED
  BY <1>7 DEF T, I

LEMMA FiniteFootprint ==
    ASSUME NEW w
    PROVE  IsFiniteSet(Units(w)) /\ Cardinality(Units(w)) \in Nat
<1>1. IsFiniteSet(1..Total)
  BY FS_Interval, SizeAssumption
<1>2. IsFiniteSet(Producer \X (1..Total))
  BY <1>1, FS_Product, DeviceAssumption
<1>3. Units(w) \in SUBSET (Producer \X (1..Total))
  BY DEF Units
<1>4. QED
  BY <1>2, <1>3, FS_Subset, FS_CardinalityType

-----------------------------------------------------------------------------
(* A handler's step writes its own thread only, and the locks as it enters  *)
(* or leaves a section.                                                     *)
HandlerStep(t) ==
    \/ StatusLook(t) \/ StatusPending(t) \/ StatusComplete(t)
    \/ AppendLock(t) \/ AppendCompleted(t) \/ AppendConflict(t) \/ AppendAdmit(t)
    \/ AppendWrite(t) \/ AppendTorn(t) \/ AppendSync(t) \/ PublishLink(t) \/ PublishSync(t)
    \/ DropPartial(t) \/ DropSync(t)

Sets(t, q) ==
    /\ th' = [th EXCEPT ![t] = q]
    /\ q \in Requests /\ q.off + q.n <= Total /\ q.pr = th[t].pr /\ q.pc # "idle"

Stays(t, q) == Sets(t, q) /\ lock' = lock /\ (q.pc \in LockedPCs <=> th[t].pc \in LockedPCs)
Enters(t, q) ==
    /\ Sets(t, q) /\ q.pc \in LockedPCs /\ th[t].pc \notin LockedPCs
    /\ lock[th[t].pr] = None /\ lock' = [lock EXCEPT ![th[t].pr] = t]
Leaves(t, q) == Sets(t, q) /\ Leave(t) /\ q.pc \in ReplyPCs /\ th[t].pc \in LockedPCs

Moves(t) ==
    /\ th[t].pc \in HandlerPCs \ ({"idle"} \cup ReplyPCs)
    /\ \E q \in Requests : Stays(t, q) \/ Enters(t, q) \/ Leaves(t, q)

LEMMA RequestsClosed ==
    /\ IdleThread \in Requests
    /\ \A q \in Requests : \A label \in HandlerPCs : [q EXCEPT !.pc = label] \in Requests
    /\ \A q \in Requests : \A kind \in ReplyPCs : \A off \in 0..Total :
          [IdleThread EXCEPT !.pc = kind, !.pr = q.pr, !.off = off] \in Requests
    /\ \A call \in {"status", "append"} : \A pr \in Producer : \A off \in 0..Total : \A n \in 0..MaxChunk :
          [IdleThread EXCEPT !.pc = call, !.pr = pr, !.off = off, !.n = n] \in Requests
    /\ \A q \in Requests : \A at \in 0..Files : [q EXCEPT !.pc = "publish", !.at = at] \in Requests
<1>1. 0 \in 0..Total /\ 0 \in 0..MaxChunk /\ 0 \in 0..Files
  BY SizeAssumption
<1>2. {"idle", "status", "append", "publish"} \cup ReplyPCs \subseteq HandlerPCs
  BY DEF HandlerPCs, LockedPCs, ReplyPCs
<1>3. IdleThread \in Requests
  BY <1>1, <1>2 DEF IdleThread, Requests
<1>4. \A q \in Requests : \A label \in HandlerPCs : [q EXCEPT !.pc = label] \in Requests
  BY DEF Requests
<1>5. \A q \in Requests : \A kind \in ReplyPCs : \A off \in 0..Total :
         [IdleThread EXCEPT !.pc = kind, !.pr = q.pr, !.off = off] \in Requests
  BY <1>2, <1>3 DEF Requests
<1>6. \A call \in {"status", "append"} : \A pr \in Producer : \A off \in 0..Total : \A n \in 0..MaxChunk :
         [IdleThread EXCEPT !.pc = call, !.pr = pr, !.off = off, !.n = n] \in Requests
  BY <1>2, <1>3 DEF Requests
<1>7. \A q \in Requests : \A at \in 0..Files : [q EXCEPT !.pc = "publish", !.at = at] \in Requests
  BY <1>2 DEF Requests
<1>8. QED
  BY <1>3, <1>4, <1>5, <1>6, <1>7

LEMMA GotoSets ==
    ASSUME TypeThreads, NEW t \in Thread, NEW label \in HandlerPCs \ {"idle"}, Goto(t, label)
    PROVE  \E q \in Requests : Sets(t, q) /\ q.pc = label
<1> DEFINE q == [th[t] EXCEPT !.pc = label]
<1>1. th[t] \in Requests /\ th[t].off + th[t].n <= Total
  BY DEF TypeThreads
<1>2. q \in Requests
  BY <1>1, RequestsClosed
<1>3. q.pc = label /\ q.pr = th[t].pr /\ q.off + q.n <= Total
  BY <1>1 DEF Requests
<1>4. th' = [th EXCEPT ![t] = q]
  BY DEF Goto
<1> HIDE DEF q
<1>5. QED
  BY <1>2, <1>3, <1>4 DEF Sets

LEMMA ReplySets ==
    ASSUME TypeThreads, NEW t \in Thread, NEW kind \in ReplyPCs, NEW off \in 0..Total, Reply(t, kind, off)
    PROVE  \E q \in Requests : Sets(t, q) /\ q.pc = kind /\ q.off = off
<1> DEFINE q == [IdleThread EXCEPT !.pc = kind, !.pr = th[t].pr, !.off = off]
<1>1. th[t] \in Requests
  BY DEF TypeThreads
<1>2. q \in Requests
  BY <1>1, RequestsClosed
<1>3. q.pc = kind /\ q.pr = th[t].pr /\ q.off = off /\ q.n = 0
  BY DEF IdleThread
<1>4. th' = [th EXCEPT ![t] = q]
  BY DEF Reply
<1>5. q.off + q.n <= Total /\ q.pc # "idle"
  BY <1>3, SizeAssumption DEF ReplyPCs
<1> HIDE DEF q
<1>6. QED
  BY <1>2, <1>3, <1>4, <1>5 DEF Sets

LEMMA PCFacts ==
    /\ LockedPCs \subseteq HandlerPCs \ {"idle"} /\ ReplyPCs \subseteq HandlerPCs \ {"idle"}
    /\ LockedPCs \cap ReplyPCs = {}
    /\ {"append", "status", "look", "found"} \subseteq HandlerPCs \ ({"idle"} \cup LockedPCs \cup ReplyPCs)
BY DEF HandlerPCs, LockedPCs, ReplyPCs

LEMMA HandlerMoves == ASSUME Types, NEW t \in Thread, HandlerStep(t) PROVE Moves(t)
<1> USE DEF Types
<1>0. 0 \in 0..Total /\ Total \in 0..Total
  BY SizeAssumption
<1>1. CASE StatusLook(t)
  BY <1>0, <1>1, GotoSets, ReplySets, PCFacts DEF StatusLook, Moves, Stays, LockedPCs,
     ReplyPCs, HandlerPCs
<1>2. CASE StatusPending(t)
  <2>1. th[t].pc = "look" /\ lock[th[t].pr] = None /\ lock' = lock /\ Reply(t, "pending", Len(part[th[t].pr]))
    BY <1>2 DEF StatusPending
  <2>2. Len(part[th[t].pr]) \in 0..Total
    BY <2>1 DEF Begun, Busy
  <2>3. QED
    BY <2>1, <2>2, ReplySets, PCFacts DEF Moves, Stays, LockedPCs, ReplyPCs, HandlerPCs
<1>3. CASE StatusComplete(t)
  BY <1>0, <1>3, GotoSets, ReplySets, PCFacts
     DEF StatusComplete, Moves, Stays, Enters, LockedPCs, ReplyPCs, HandlerPCs
<1>4. CASE AppendLock(t)
  BY <1>4, GotoSets, PCFacts DEF AppendLock, Moves, Enters, LockedPCs, ReplyPCs, HandlerPCs
<1>5. CASE AppendCompleted(t)
  BY <1>0, <1>5, GotoSets, ReplySets, PCFacts
     DEF AppendCompleted, Moves, Stays, Leaves, LockedPCs, ReplyPCs, HandlerPCs
<1>6. CASE AppendConflict(t)
  BY <1>0, <1>6, ReplySets, PCFacts DEF AppendConflict, Moves, Leaves, LockedPCs, ReplyPCs,
     HandlerPCs
<1>7. CASE AppendAdmit(t)
  BY <1>0, <1>7, GotoSets, ReplySets, PCFacts
     DEF AppendAdmit, Moves, Stays, Leaves, LockedPCs, ReplyPCs, HandlerPCs
<1>8. CASE AppendWrite(t)
  BY <1>8, GotoSets, PCFacts DEF AppendWrite, Moves, Stays, LockedPCs, ReplyPCs, HandlerPCs
<1>9. CASE AppendTorn(t)
  BY <1>0, <1>9, ReplySets, PCFacts DEF AppendTorn, Moves, Leaves, LockedPCs, ReplyPCs,
     HandlerPCs
<1>10. CASE AppendSync(t)
  <2>0. th[t].pc = "written"
    BY <1>10 DEF AppendSync
  <2>1. CASE Leave(t) /\ \E kind \in ReplyPCs, off \in 0..Total : Reply(t, kind, off)
    BY <2>0, <2>1, ReplySets, PCFacts DEF Moves, Leaves, LockedPCs, ReplyPCs, HandlerPCs
  <2>2. CASE lock' = lock /\ th' = [th EXCEPT ![t].pc = "publish", ![t].at = 1]
    <3> DEFINE q == [th[t] EXCEPT !.pc = "publish", !.at = 1]
    <3>1. th[t] \in Requests /\ th[t].off + th[t].n <= Total /\ 1 \in 0..Files
      BY SizeAssumption DEF TypeThreads
    <3>2. q \in Requests
      BY <3>1, RequestsClosed
    <3>3. q.pc = "publish" /\ q.pr = th[t].pr /\ q.off + q.n <= Total
      BY <3>1 DEF Requests
    <3>4. th' = [th EXCEPT ![t] = q]
      BY <2>2
    <3> HIDE DEF q
    <3>5. Stays(t, q)
      BY <2>0, <2>2, <3>2, <3>3, <3>4 DEF Stays, Sets, LockedPCs
    <3>6. QED
      BY <2>0, <3>2, <3>5 DEF Moves, HandlerPCs, LockedPCs, ReplyPCs
  <2>3. th[t].pr \in Producer
    BY <2>0 DEF Busy
  <2>4. Len(part[th[t].pr]) \in 0..Total
    BY <2>3 DEF Begun
  <2>5. QED
    BY <1>0, <1>10, <2>1, <2>2, <2>4 DEF AppendSync, ReplyPCs
<1>11. CASE PublishLink(t)
  BY <1>11, GotoSets, PCFacts DEF PublishLink, Moves, Stays, LockedPCs, ReplyPCs, HandlerPCs
<1>12. CASE PublishSync(t)
  <2>0. th[t].pc = "sync" /\ lock' = lock
    BY <1>12 DEF PublishSync
  <2>1. CASE th[t].at = Files
    BY <1>12, <2>0, <2>1, GotoSets, PCFacts DEF PublishSync, Moves, Stays, LockedPCs,
       ReplyPCs, HandlerPCs
  <2>2. CASE th[t].at # Files
    <3> DEFINE q == [th[t] EXCEPT !.pc = "publish", !.at = th[t].at + 1]
    <3>1. th[t] \in Requests /\ th[t].off + th[t].n <= Total
      BY DEF TypeThreads
    <3>2. th[t].at + 1 \in 0..Files
      <4>1. th[t].at \in 0..Files
        BY <3>1 DEF Requests
      <4>2. QED
        BY <2>2, <4>1, SizeAssumption
    <3>3. q \in Requests
      BY <3>1, <3>2, RequestsClosed
    <3>4. q.pc = "publish" /\ q.pr = th[t].pr /\ q.off + q.n <= Total
      BY <3>1 DEF Requests
    <3>5. th' = [th EXCEPT ![t] = q]
      BY <1>12, <2>2 DEF PublishSync
    <3> HIDE DEF q
    <3>6. Stays(t, q)
      BY <2>0, <3>3, <3>4, <3>5 DEF Stays, Sets, LockedPCs
    <3>7. QED
      BY <2>0, <3>3, <3>6 DEF Moves, HandlerPCs, LockedPCs, ReplyPCs
  <2>3. QED
    BY <2>1, <2>2
<1>13. CASE DropPartial(t)
  BY <1>13, GotoSets, PCFacts DEF DropPartial, Moves, Stays, LockedPCs, ReplyPCs, HandlerPCs
<1>14. CASE DropSync(t)
  BY <1>0, <1>14, ReplySets, PCFacts DEF DropSync, Moves, Leaves, LockedPCs, ReplyPCs,
     HandlerPCs
<1>15. QED
  BY <1>1, <1>2, <1>3, <1>4, <1>5, <1>6, <1>7, <1>8, <1>9, <1>10, <1>11, <1>12, <1>13,
     <1>14 DEF HandlerStep

-----------------------------------------------------------------------------
(* The client's requests, and what becomes of its attempt. *)
LEMMA RequestFacts ==
    ASSUME TypeClients, NEW pr \in Producer, AskStatus(pr) \/ SendChunk(pr)
    PROVE  \E call \in {"status", "append"}, off \in 0..Total, n \in 0..MaxChunk :
              off + n <= Total /\ Request(pr, call, off, n)
<1>1. CASE AskStatus(pr)
  BY <1>1, SizeAssumption DEF AskStatus
<1>2. CASE SendChunk(pr)
  <2>1. cl[pr].off \in 0..Total
    BY DEF TypeClients, Attempts
  <2> DEFINE left == Total - cl[pr].off
  <2>2. PICK n \in IF left = 0 THEN {0} ELSE 1..Min({MaxChunk, left}) : Request(pr, "append", cl[pr].off, n)
    BY <1>2 DEF SendChunk
  <2>3. left \in 0..Total /\ MaxChunk \in 1..Total
    BY <2>1, SizeAssumption
  <2>4. ASSUME NEW a \in Nat, NEW b \in Nat PROVE Min({a, b}) \in Nat /\ Min({a, b}) <= a /\ Min({a, b}) <= b
    <3>1. \E x \in {a, b} : \A y \in {a, b} : x =< y
      BY SMT
    <3>2. Min({a, b}) \in {a, b} /\ \A y \in {a, b} : Min({a, b}) =< y
      BY <3>1 DEF Min
    <3>3. QED
      BY <3>2
  <2>5. n \in 0..MaxChunk /\ n <= left
    <3>1. left \in Nat /\ MaxChunk \in Nat
      BY <2>3, SizeAssumption
    <3> HIDE DEF left
    <3>2. Min({MaxChunk, left}) \in Nat /\ Min({MaxChunk, left}) <= MaxChunk /\ Min({MaxChunk, left}) <= left
      BY <3>1, <2>4
    <3>3. QED
      BY <2>2, <3>1, <3>2
  <2>6. cl[pr].off + n <= Total
    BY <2>1, <2>5, SizeAssumption
  <2>7. QED
    BY <2>1, <2>2, <2>5, <2>6
<1>3. QED
  BY <1>1, <1>2

LEMMA ClientIdle == IdleClient \in Attempts /\ IdleClient.off + IdleClient.n <= Total /\ IdleClient.pc = "idle"
BY SizeAssumption DEF IdleClient, Attempts, ClientPCs

LEMMA ReceiveFacts ==
    ASSUME Types, Answers, NEW pr \in Producer, Receive(pr)
    PROVE  /\ cl[pr].t \in Thread /\ th[cl[pr].t].pc \in ReplyPCs /\ th[cl[pr].t].pr = pr
           /\ th' = [th EXCEPT ![cl[pr].t] = IdleThread]
           /\ \E a \in Attempts :
                 /\ cl' = [cl EXCEPT ![pr] = a] /\ a.off + a.n <= Total /\ a.pc # "wait"
                 /\ a.pc = "done" => th[cl[pr].t].pc = "complete"
                 /\ a.pc = "rejected" => th[cl[pr].t].pc = "reject"
<1> DEFINE t == cl[pr].t
           ready == [IdleClient EXCEPT !.pc = "ready", !.off = th[t].off]
<1>1. cl[pr].pc = "wait" /\ th[t].pc \in ReplyPCs /\ th' = [th EXCEPT ![t] = IdleThread]
  BY DEF Receive
<1>2. t \in Thread /\ th[t].pr = pr
  BY <1>1 DEF Answers
<1>3. th[t].off \in 0..Total
  BY <1>2 DEF Types, TypeThreads, Requests
<1>4. /\ [IdleClient EXCEPT !.pc = "rejected"] \in Attempts /\ [IdleClient EXCEPT !.pc = "done"] \in Attempts
      /\ ready \in Attempts
  BY <1>3, ClientIdle DEF Attempts, ClientPCs
<1>5. /\ [IdleClient EXCEPT !.pc = "rejected"].pc = "rejected" /\ [IdleClient EXCEPT !.pc = "done"].pc = "done"
      /\ ready.pc = "ready" /\ ready.off = th[t].off /\ ready.n = 0
      /\ [IdleClient EXCEPT !.pc = "rejected"].off = 0 /\ [IdleClient EXCEPT !.pc = "done"].off = 0
      /\ [IdleClient EXCEPT !.pc = "rejected"].n = 0 /\ [IdleClient EXCEPT !.pc = "done"].n = 0
  BY DEF IdleClient
<1>6. th[t].off + 0 <= Total /\ 0 + 0 <= Total
  BY <1>3, SizeAssumption
<1>7. \/ cl' = [cl EXCEPT ![pr] = [IdleClient EXCEPT !.pc = "rejected"]] /\ th[t].pc = "reject"
      \/ cl' = [cl EXCEPT ![pr] = [IdleClient EXCEPT !.pc = "done"]] /\ th[t].pc = "complete"
      \/ cl' = [cl EXCEPT ![pr] = ready]
      \/ cl' = [cl EXCEPT ![pr] = IdleClient]
  BY DEF Receive
<1> HIDE DEF ready
<1>8. QED
  BY <1>1, <1>2, <1>4, <1>5, <1>6, <1>7, ClientIdle

-----------------------------------------------------------------------------
(* Types. *)
LEMMA ThreadsStep == Types /\ Answers /\ [Next]_vars => TypeThreads' /\ Busy'
<1> SUFFICES ASSUME Types, Answers, [Next]_vars PROVE TypeThreads' /\ Busy'
  OBVIOUS
<1> USE DEF Types
<1>0. IdleThread \in Requests /\ IdleThread.off + IdleThread.n <= Total /\ IdleThread.pc = "idle"
  <2>1. IdleThread \in Requests
    BY RequestsClosed
  <2>2. IdleThread.off = 0 /\ IdleThread.n = 0 /\ IdleThread.pc = "idle" /\ 0 + 0 <= Total
    BY SizeAssumption DEF IdleThread
  <2>3. QED
    BY <2>1, <2>2
<1>1. ASSUME NEW t \in Thread, NEW q \in Requests, th' = [th EXCEPT ![t] = q], q.off + q.n <= Total,
             q.pc # "idle" => q.pr \in Producer
      PROVE  TypeThreads' /\ Busy'
  BY <1>1 DEF TypeThreads, Busy
<1>2. ASSUME NEW t \in Thread, HandlerStep(t) PROVE TypeThreads' /\ Busy'
  <2>1. Moves(t)
    BY <1>2, HandlerMoves
  <2>2. PICK q \in Requests : Sets(t, q) /\ th[t].pc # "idle"
    BY <2>1 DEF Moves, Stays, Enters, Leaves
  <2>3. QED
    BY <1>1, <2>2 DEF Sets, Busy
<1>3. ASSUME NEW pr \in Producer, AskStatus(pr) \/ SendChunk(pr) PROVE TypeThreads' /\ Busy'
  <2>1. PICK call \in {"status", "append"}, off \in 0..Total, n \in 0..MaxChunk :
              off + n <= Total /\ Request(pr, call, off, n)
    BY <1>3, RequestFacts
  <2> DEFINE q == [IdleThread EXCEPT !.pc = call, !.pr = pr, !.off = off, !.n = n]
  <2>2. PICK t \in Thread : th' = [th EXCEPT ![t] = q]
    BY <2>1 DEF Request
  <2>3. q \in Requests
    BY <2>1, RequestsClosed
  <2>4. q.off = off /\ q.n = n /\ q.pr = pr
    BY DEF IdleThread
  <2> HIDE DEF q
  <2>5. QED
    BY <1>1, <2>1, <2>2, <2>3, <2>4
<1>4. ASSUME NEW pr \in Producer, Receive(pr) PROVE TypeThreads' /\ Busy'
  BY <1>0, <1>1, <1>4, ReceiveFacts
<1>5. ASSUME NEW t \in Thread, Discard(t) PROVE TypeThreads' /\ Busy'
  BY <1>0, <1>1, <1>5 DEF Discard
<1>6. CASE StopServer
  BY <1>0, <1>6 DEF StopServer, TypeThreads, Busy
<1>7. CASE th' = th
  BY <1>7 DEF TypeThreads, Busy
<1>8. QED
  BY <1>2, <1>3, <1>4, <1>5, <1>6, <1>7
     DEF Next, Handle, HandlerStep, vars, Lose, Expire, Crash, PowerLoss

LEMMA LockStep == Types /\ [Next]_vars => TypeLock'
<1> SUFFICES ASSUME Types, [Next]_vars PROVE TypeLock'
  OBVIOUS
<1> USE DEF Types, TypeLock
<1>1. ASSUME NEW t \in Thread, HandlerStep(t) PROVE TypeLock'
  <2>1. Moves(t)
    BY <1>1, HandlerMoves
  <2>2. QED
    BY <2>1 DEF Moves, Stays, Enters, Leaves, Leave
<1>2. CASE StopServer
  BY <1>2 DEF StopServer
<1>3. CASE lock' = lock
  BY <1>3
<1>4. QED
  BY <1>1, <1>2, <1>3
     DEF Next, Handle, HandlerStep, vars, AskStatus, SendChunk, Request, Receive, Lose, Discard, Expire, Crash,
         PowerLoss

LEMMA ClientsStep == Types /\ Answers /\ [Next]_vars => TypeClients'
<1> SUFFICES ASSUME Types, Answers, [Next]_vars PROVE TypeClients'
  OBVIOUS
<1> USE DEF Types
<1>1. ASSUME NEW pr \in Producer, NEW a \in Attempts, cl' = [cl EXCEPT ![pr] = a], a.off + a.n <= Total
      PROVE  TypeClients'
  BY <1>1 DEF TypeClients
<1>2. ASSUME NEW pr \in Producer, AskStatus(pr) \/ SendChunk(pr) PROVE TypeClients'
  <2>1. PICK call \in {"status", "append"}, off \in 0..Total, n \in 0..MaxChunk :
              off + n <= Total /\ Request(pr, call, off, n)
    BY <1>2, RequestFacts
  <2>2. PICK t \in Thread : cl' = [cl EXCEPT ![pr] = [pc |-> "wait", off |-> off, n |-> n, t |-> t]]
    BY <2>1 DEF Request
  <2>3. [pc |-> "wait", off |-> off, n |-> n, t |-> t] \in Attempts
    BY DEF Attempts, ClientPCs
  <2>4. QED
    BY <1>1, <2>1, <2>2, <2>3
<1>3. ASSUME NEW pr \in Producer, Receive(pr) PROVE TypeClients'
  BY <1>1, <1>3, ReceiveFacts
<1>4. ASSUME NEW pr \in Producer, Lose(pr) PROVE TypeClients'
  BY <1>1, <1>4, ClientIdle DEF Lose
<1>5. CASE StopServer
  BY <1>5, ClientIdle DEF StopServer, TypeClients
<1>6. CASE cl' = cl
  BY <1>6 DEF TypeClients
<1>7. QED
  BY <1>2, <1>3, <1>4, <1>5, <1>6
     DEF Next, Handle, vars, Discard, StatusLook, StatusPending, StatusComplete,
     AppendLock, AppendCompleted, AppendConflict, AppendAdmit, AppendWrite, AppendTorn,
     AppendSync, PublishLink, PublishSync, DropPartial, DropSync, Expire, Crash, PowerLoss

LEMMA FileStep == Types /\ [Next]_vars => TypeFile'
<1> SUFFICES ASSUME Types, [Next]_vars PROVE TypeFile'
  OBVIOUS
<1> USE DEF Types, TypeFile, FileStates
<1>1. ASSUME NEW i, SyncFile(i) PROVE TypeFile'
  BY <1>1 DEF SyncFile
<1>2. ASSUME NEW t \in Thread, PublishLink(t) PROVE TypeFile'
  <2>1. file' = [file EXCEPT ![th[t].at] = IF file[th[t].at] = "absent" THEN "linked" ELSE file[th[t].at]]
    BY <1>2 DEF PublishLink
  <2>2. QED
    BY <2>1
<1>3. CASE PowerLoss
  BY <1>3 DEF PowerLoss
<1>4. CASE file' = file
  BY <1>4
<1>5. QED
  BY <1>1, <1>2, <1>3, <1>4
     DEF Next, Handle, vars, AskStatus, SendChunk, Request, Receive, Lose, Discard,
     StatusLook, StatusPending, StatusComplete, AppendLock, AppendCompleted,
     AppendConflict, AppendAdmit, AppendWrite, AppendTorn, AppendSync, PublishSync,
     DropPartial, DropSync, Expire, Crash

LEMMA ToldStep == Types /\ [Next]_vars => TypeTold'
<1> SUFFICES ASSUME Types, [Next]_vars PROVE TypeTold'
  OBVIOUS
<1> USE DEF Types, TypeTold
<1>1. ASSUME NEW t \in Thread, AppendSync(t) PROVE TypeTold'
  <2>1. th[t].pr \in Producer
    BY <1>1 DEF AppendSync, Busy
  <2>2. Len(part[th[t].pr]) \in 0..Total
    BY <2>1 DEF Begun
  <2>3. QED
    BY <1>1, <2>2 DEF AppendSync
<1>2. ASSUME NEW pr \in Producer, Expire(pr) PROVE TypeTold'
  BY <1>2, SizeAssumption DEF Expire
<1>3. CASE told' = told
  BY <1>3
<1>4. QED
  BY <1>1, <1>2, <1>3
     DEF Next, Handle, vars, AskStatus, SendChunk, Request, Receive, Lose, Discard,
     StatusLook, StatusPending, StatusComplete, AppendLock, AppendCompleted,
     AppendConflict, AppendAdmit, AppendWrite, AppendTorn, PublishLink, PublishSync,
     DropPartial, DropSync, StopServer, Crash, PowerLoss

-----------------------------------------------------------------------------
(* What the writers leave in a partial. *)
LEMMA WriteFacts ==
    ASSUME Types, Compared, NEW t \in Thread, AppendWrite(t) \/ AppendTorn(t)
    PROVE  LET pr == th[t].pr IN
           /\ th[t].pc = "admitted" /\ pr \in Producer /\ disk' = disk
           /\ \E k \in 0..th[t].n :
                 /\ Len(part[pr]) + k \in 0..Total
                 /\ part' = [part EXCEPT ![pr] = Beginning(pr, Len(part[pr]) + k)]
<1> DEFINE pr == th[t].pr
           off == th[t].off
           n == th[t].n
<1>1. th[t].pc = "admitted" /\ pr \in Producer /\ disk' = disk
  BY DEF AppendWrite, AppendTorn, Types, Busy
<1>2. off \in 0..Total /\ n \in Nat /\ off + n <= Total
  BY SizeAssumption DEF Types, TypeThreads, Requests
<1>3. Len(part[pr]) = off /\ part[pr] = Beginning(pr, off)
  BY <1>1 DEF Compared, AtEnd, Types, Begun
<1>4. ASSUME NEW k \in 0..n PROVE part[pr] \o SubSeq(Copy(pr), off + 1, off + k) = Beginning(pr, off + k)
  <2>1. k \in Nat /\ off + k <= Total
    BY <1>2, SizeAssumption
  <2>2. QED
    BY <1>1, <1>2, <1>3, <2>1, BeginningGrows
<1>5. CASE AppendWrite(t)
  <2>1. part' = [part EXCEPT ![pr] = part[pr] \o SubSeq(Copy(pr), off + 1, off + n)]
    BY <1>5 DEF AppendWrite, Chunk
  <2>2. n \in 0..n /\ off + n \in 0..Total
    BY <1>2
  <2>3. QED
    BY <1>1, <1>3, <1>4, <2>1, <2>2
<1>6. CASE AppendTorn(t)
  <2>1. PICK k \in 0..n - 1 : part' = [part EXCEPT ![pr] = part[pr] \o SubSeq(Chunk(t), 1, k)]
    BY <1>6 DEF AppendTorn
  <2>2. k \in 0..n /\ off + k \in 0..Total
    BY <1>2, SizeAssumption
  <2>3. SubSeq(Chunk(t), 1, k) = SubSeq(Copy(pr), off + 1, off + k)
    BY <1>1, <1>2, <2>2, TornPiece DEF Chunk
  <2>4. QED
    BY <1>1, <1>3, <1>4, <2>1, <2>2, <2>3
<1>7. QED
  BY <1>5, <1>6

(* What a power loss leaves. *)
LEMMA SurvivorFacts ==
    ASSUME Types, PowerLoss, NEW pr \in Producer
    PROVE  \E k \in 0..Total :
              /\ part'[pr] = Beginning(pr, k) /\ disk'[pr] = Beginning(pr, k) /\ Len(part'[pr]) = k
              /\ Len(disk[pr]) <= Len(part[pr]) => Len(disk[pr]) <= k /\ k <= Len(part[pr])
              /\ k <= Len(disk[pr]) \/ k <= Len(part[pr])
<1> DEFINE p == Len(part[pr])
           d == Len(disk[pr])
<1>1. p \in 0..Total /\ d \in 0..Total /\ part[pr] = Beginning(pr, p) /\ disk[pr] = Beginning(pr, d)
  BY DEF Types, Begun
<1>2. IsPrefix(disk[pr], part[pr]) <=> d <= p
  BY <1>1, BeginningPrefix
<1>3. part'[pr] \in Survivors(pr) /\ disk' = part'
  BY DEF PowerLoss
<1>4. CASE d <= p
  <2>1. PICK k \in d..p : part'[pr] = SubSeq(part[pr], 1, k)
    BY <1>2, <1>3, <1>4 DEF Survivors
  <2>2. k \in 0..p /\ k \in 0..Total /\ d <= k /\ k <= p
    BY <1>1, SizeAssumption
  <2>3. part'[pr] = Beginning(pr, k)
    BY <1>1, <2>1, <2>2, BeginningOfBeginning
  <2>4. Len(part'[pr]) = k
    BY <2>2, <2>3, BeginningFacts
  <2>5. QED
    BY <1>3, <2>2, <2>3, <2>4
<1>5. CASE ~(d <= p)
  <2>1. \E k \in {p, d} : part'[pr] = Beginning(pr, k)
    BY <1>1, <1>2, <1>3, <1>5 DEF Survivors
  <2>2. PICK k \in {p, d} : part'[pr] = Beginning(pr, k)
    BY <2>1
  <2>3. Len(part'[pr]) = k /\ k \in 0..Total
    BY <1>1, <2>2, BeginningFacts
  <2>4. k <= d \/ k <= p
    BY <1>1, SizeAssumption
  <2>5. QED
    BY <1>3, <1>5, <2>2, <2>3, <2>4
<1>6. QED
  BY <1>4, <1>5

LEMMA BegunStep == Types /\ Compared /\ [Next]_vars => Begun(part)' /\ Begun(disk)'
<1> SUFFICES ASSUME Types, Compared, [Next]_vars PROVE Begun(part') /\ Begun(disk')
  BY DEF Begun, Beginning, Copy, Source, Partials
<1>1. Begun(part) /\ Begun(disk)
  BY DEF Types
<1>2. ASSUME NEW w, Begun(w), NEW pr \in Producer PROVE Begun([w EXCEPT ![pr] = <<>>])
  <2>1. 0 \in 0..Total /\ Beginning(pr, 0) = <<>>
    BY BeginningEnds, SizeAssumption
  <2>2. QED
    BY <1>2, <2>1, BegunExcept
<1>3. ASSUME NEW t \in Thread, AppendWrite(t) \/ AppendTorn(t) PROVE Begun(part') /\ Begun(disk')
  BY <1>1, <1>3, WriteFacts, BegunExcept
<1>4. ASSUME NEW t \in Thread, DropPartial(t) PROVE Begun(part') /\ Begun(disk')
  <2>1. th[t].pr \in Producer
    BY <1>4 DEF DropPartial, Types, Busy
  <2>2. QED
    BY <1>1, <1>2, <1>4, <2>1 DEF DropPartial
<1>5. ASSUME NEW pr \in Producer, Expire(pr) PROVE Begun(part') /\ Begun(disk')
  BY <1>1, <1>2, <1>5 DEF Expire
<1>6. ASSUME NEW t \in Thread, AppendSync(t) \/ DropSync(t) PROVE Begun(part') /\ Begun(disk')
  <2>1. th[t].pr \in Producer /\ part' = part /\ disk' = [disk EXCEPT ![th[t].pr] = part[th[t].pr]]
    BY <1>6 DEF AppendSync, DropSync, SyncPartial, Types, Busy
  <2>2. Len(part[th[t].pr]) \in 0..Total /\ part[th[t].pr] = Beginning(th[t].pr, Len(part[th[t].pr]))
    BY <1>1, <2>1 DEF Begun
  <2>3. QED
    BY <1>1, <2>1, <2>2, BegunExcept
<1>7. CASE PowerLoss
  <2>1. \A pr \in Producer : \E k \in 0..Total : part'[pr] = Beginning(pr, k) /\ Len(part'[pr]) = k
    BY <1>7, SurvivorFacts
  <2>2. \A pr \in Producer : part'[pr] \in Seq(0..Total)
    BY <2>1, BeginningFacts
  <2>3. part' \in Partials
    BY <1>7, <2>2 DEF PowerLoss, Partials
  <2>4. disk' = part'
    BY <1>7 DEF PowerLoss
  <2>5. QED
    BY <2>1, <2>3, <2>4 DEF Begun
<1>8. CASE UNCHANGED <<part, disk>>
  BY <1>1, <1>8
<1>9. QED
  BY <1>3, <1>4, <1>5, <1>6, <1>7, <1>8
     DEF Next, Handle, vars, AskStatus, SendChunk, Request, Receive, Lose, Discard,
     StatusLook, StatusPending, StatusComplete, AppendLock, AppendCompleted,
     AppendConflict, AppendAdmit, PublishLink, PublishSync, Crash

-----------------------------------------------------------------------------
(* Sections exclude each other, for each producer. *)
LEMMA SectionIsAlone ==
    ASSUME Sections, NEW s \in Thread, NEW t \in Thread, th[s].pc \in LockedPCs, th[t].pc \in LockedPCs,
           th[s].pr = th[t].pr
    PROVE  s = t
BY DEF Sections

LEMMA SectionsStep == Types /\ Answers /\ Sections /\ [Next]_vars => Sections'
<1> SUFFICES ASSUME Types, Answers, Sections, [Next]_vars PROVE Sections'
  OBVIOUS
<1> USE DEF Types, TypeThreads, TypeLock, Sections
<1>1. ASSUME NEW t \in Thread, NEW q, th' = [th EXCEPT ![t] = q], lock' = lock,
             q.pc \in LockedPCs <=> th[t].pc \in LockedPCs, q.pc \in LockedPCs => q.pr = th[t].pr
      PROVE  Sections'
  BY <1>1, DeviceAssumption
<1>2. ASSUME NEW t \in Thread, HandlerStep(t) PROVE Sections'
  <2>1. Moves(t)
    BY <1>2, HandlerMoves
  <2>2. PICK q \in Requests : Stays(t, q) \/ Enters(t, q) \/ Leaves(t, q)
    BY <2>1 DEF Moves
  <2>3. th[t].pr \in Producer
    BY <2>1 DEF Moves, Busy
  <2>4. CASE Stays(t, q)
    BY <1>1, <2>4 DEF Stays, Sets
  <2>5. CASE Enters(t, q)
    <3>1. th' = [th EXCEPT ![t] = q] /\ q.pr = th[t].pr /\ q.pc \in LockedPCs /\ th[t].pc \notin LockedPCs
          /\ lock[th[t].pr] = None /\ lock' = [lock EXCEPT ![th[t].pr] = t]
      BY <2>5 DEF Enters, Sets
    <3>2. QED
      BY <2>3, <3>1, DeviceAssumption
  <2>6. CASE Leaves(t, q)
    <3>1. th' = [th EXCEPT ![t] = q] /\ q.pc \notin LockedPCs
      BY <2>6, PCFacts DEF Leaves, Sets
    <3>2. lock' = [pr \in Producer |-> IF lock[pr] = t THEN None ELSE lock[pr]]
      BY <2>6 DEF Leaves, Leave
    <3>3. ASSUME NEW s \in Thread, th'[s].pc \in LockedPCs PROVE lock'[th'[s].pr] = s
      <4>1. s # t /\ th'[s] = th[s]
        BY <3>1, <3>3
      <4>2. th[s].pr \in Producer /\ lock[th[s].pr] = s
        BY <3>3, <4>1, PCFacts DEF Busy
      <4>3. QED
        BY <3>2, <4>1, <4>2
    <3>4. ASSUME NEW pr \in Producer, lock'[pr] # None
          PROVE  th'[lock'[pr]].pc \in LockedPCs /\ th'[lock'[pr]].pr = pr
      <4>1. lock'[pr] = lock[pr] /\ lock[pr] # t /\ lock[pr] \in Thread
        BY <3>2, <3>4
      <4>2. th'[lock[pr]] = th[lock[pr]]
        BY <3>1, <4>1
      <4>3. QED
        BY <3>4, <4>1, <4>2
    <3>5. QED
      BY <3>3, <3>4
  <2>7. QED
    BY <2>2, <2>4, <2>5, <2>6
<1>3. ASSUME NEW pr \in Producer, AskStatus(pr) \/ SendChunk(pr) PROVE Sections'
  <2>1. PICK call \in {"status", "append"}, off \in 0..Total, n \in 0..MaxChunk :
              off + n <= Total /\ Request(pr, call, off, n)
    BY <1>3, RequestFacts
  <2> DEFINE q == [IdleThread EXCEPT !.pc = call, !.pr = pr, !.off = off, !.n = n]
  <2>2. PICK t \in Thread : th[t].pc = "idle" /\ th' = [th EXCEPT ![t] = q] /\ lock' = lock
    BY <2>1 DEF Request
  <2>3. q.pc = call
    BY DEF IdleThread
  <2> HIDE DEF q
  <2>4. QED
    BY <1>1, <2>2, <2>3, PCFacts
<1>4. ASSUME NEW pr \in Producer, Receive(pr) PROVE Sections'
  <2>1. lock' = lock
    BY <1>4 DEF Receive
  <2>2. QED
    BY <1>1, <1>4, <2>1, ReceiveFacts, PCFacts DEF IdleThread
<1>5. ASSUME NEW t \in Thread, Discard(t) PROVE Sections'
  BY <1>1, <1>5, PCFacts DEF Discard, IdleThread
<1>6. CASE StopServer
  BY <1>6, PCFacts DEF StopServer, IdleThread
<1>7. CASE UNCHANGED <<th, lock>>
  BY <1>7
<1>8. QED
  BY <1>2, <1>3, <1>4, <1>5, <1>6, <1>7
     DEF Next, Handle, HandlerStep, vars, Lose, Expire, Crash, PowerLoss

-----------------------------------------------------------------------------
(* A published object is never taken for a corrupt one, so that only a      *)
(* decayed copy is refused.                                                 *)
LEMMA CompletedFacts ==
    ASSUME TypeFile, RecipeComesLast, Completed
    PROVE  Verified /\ (SyncFile(Files) => AllDurable')
<1>1. \A i \in 1..Files : i = Files \/ i \in 1..Files - 1
  BY SizeAssumption
<1>2. Files \in 1..Files
  BY SizeAssumption
<1>3. Verified
  BY <1>1 DEF Verified, RecipeComesLast, Completed
<1>4. ASSUME SyncFile(Files) PROVE AllDurable'
  <2>1. file' = [file EXCEPT ![Files] = "durable"]
    BY <1>4 DEF SyncFile
  <2>2. ASSUME NEW i \in 1..Files PROVE file'[i] = "durable"
    BY <1>1, <2>1, <2>2 DEF RecipeComesLast, TypeFile
  <2>3. QED
    BY <2>2 DEF AllDurable
<1>5. QED
  BY <1>3, <1>4

LEMMA RejectFacts ==
    ASSUME Types, RecipeComesLast, NEW t \in Thread, HandlerStep(t), th'[t].pc = "reject"
    PROVE  th[t].pr \in Rotten
<1> USE DEF Types, TypeThreads
<1>1. ASSUME NEW label, Goto(t, label) PROVE th'[t].pc = label
  BY <1>1 DEF Goto, Requests
<1>2. ASSUME NEW kind, NEW off, Reply(t, kind, off) PROVE th'[t].pc = kind
  BY <1>2 DEF Reply, IdleThread
<1>3. CASE StatusLook(t)
  BY <1>1, <1>2, <1>3, CompletedFacts DEF StatusLook
<1>4. CASE AppendCompleted(t)
  BY <1>1, <1>2, <1>4, CompletedFacts DEF AppendCompleted
<1>5. CASE AppendSync(t)
  <2>1. th[t].pr \in Producer
    BY <1>5 DEF AppendSync, Busy
  <2>2. Len(part[th[t].pr]) \in 0..Total /\ part[th[t].pr] = Beginning(th[t].pr, Len(part[th[t].pr]))
    BY <2>1 DEF Begun
  <2>3. CASE Len(part[th[t].pr]) = Total /\ ~Checksum(part[th[t].pr])
    BY <2>1, <2>2, <2>3, BeginningIsWhole DEF Checksum
  <2>4. CASE th' = [th EXCEPT ![t].pc = "publish", ![t].at = 1]
    BY <2>4 DEF Requests
  <2>5. QED
    BY <1>2, <1>5, <2>3, <2>4 DEF AppendSync
<1>6. CASE PublishSync(t)
  <2>1. CASE th' = [th EXCEPT ![t].pc = "publish", ![t].at = th[t].at + 1]
    BY <2>1 DEF Requests
  <2>2. QED
    BY <1>1, <1>6, <2>1 DEF PublishSync
<1>7. QED
  BY <1>1, <1>2, <1>3, <1>4, <1>5, <1>6
     DEF HandlerStep, StatusPending, StatusComplete, AppendLock, AppendConflict,
     AppendAdmit, AppendWrite, AppendTorn, PublishLink, DropPartial, DropSync

LEMMA AnswersStep == Types /\ Answers /\ RecipeComesLast /\ [Next]_vars => Answers'
<1> SUFFICES ASSUME Types, Answers, RecipeComesLast, [Next]_vars PROVE Answers'
  OBVIOUS
<1> USE DEF Types, TypeThreads, TypeClients, Answers, NeverRejected
<1>1. ASSUME NEW t \in Thread, HandlerStep(t) PROVE Answers'
  <2>1. PICK q \in Requests : Sets(t, q)
    BY <1>1, HandlerMoves DEF Moves, Stays, Enters, Leaves
  <2>2. th' = [th EXCEPT ![t] = q] /\ q.pr = th[t].pr /\ q.pc # "idle" /\ th'[t] = q
    BY <2>1 DEF Sets
  <2>3. cl' = cl
    BY <1>1 DEF HandlerStep, StatusLook, StatusPending, StatusComplete, AppendLock,
    AppendCompleted, AppendConflict, AppendAdmit, AppendWrite, AppendTorn, AppendSync,
    PublishLink, PublishSync, DropPartial, DropSync
  <2>4. q.pc = "reject" => q.pr \in Rotten
    BY <1>1, <2>2, RejectFacts
  <2>5. QED
    BY <2>2, <2>3, <2>4
<1>2. ASSUME NEW pr \in Producer, AskStatus(pr) \/ SendChunk(pr) PROVE Answers'
  <2>1. PICK call \in {"status", "append"}, off \in 0..Total, n \in 0..MaxChunk :
              off + n <= Total /\ Request(pr, call, off, n)
    BY <1>2, RequestFacts
  <2> DEFINE q == [IdleThread EXCEPT !.pc = call, !.pr = pr, !.off = off, !.n = n]
             a == [pc |-> "wait", off |-> off, n |-> n, t |-> cl'[pr].t]
  <2>2. PICK t \in Thread : th[t].pc = "idle" /\ th' = [th EXCEPT ![t] = q]
                            /\ cl' = [cl EXCEPT ![pr] = [pc |-> "wait", off |-> off, n |-> n, t |-> t]]
    BY <2>1 DEF Request
  <2>3. q.pc = call /\ q.pr = pr
    BY DEF IdleThread
  <2>4. cl'[pr].pc = "wait" /\ cl'[pr].t = t /\ \A p \in Producer \ {pr} : cl'[p] = cl[p]
    BY <2>2
  <2> HIDE DEF q
  <2>5. th'[t] = q /\ \A s \in Thread \ {t} : th'[s] = th[s]
    BY <2>2
  <2>6. QED
    BY <2>2, <2>3, <2>4, <2>5
<1>3. ASSUME NEW pr \in Producer, Receive(pr) PROVE Answers'
  <2>1. PICK a \in Attempts : /\ cl' = [cl EXCEPT ![pr] = a] /\ a.pc # "wait"
                              /\ a.pc = "rejected" => th[cl[pr].t].pc = "reject"
    BY <1>3, ReceiveFacts
  <2>2. cl[pr].t \in Thread /\ th[cl[pr].t].pr = pr /\ th' = [th EXCEPT ![cl[pr].t] = IdleThread]
    BY <1>3, ReceiveFacts
  <2>3. IdleThread.pc = "idle"
    BY DEF IdleThread
  <2>4. QED
    BY <2>1, <2>2, <2>3
<1>4. ASSUME NEW pr \in Producer, Lose(pr) PROVE Answers'
  BY <1>4, ClientIdle DEF Lose
<1>5. ASSUME NEW t \in Thread, Discard(t) PROVE Answers'
  BY <1>5 DEF Discard, IdleThread
<1>6. CASE StopServer
  BY <1>6 DEF StopServer, IdleThread, IdleClient
<1>7. CASE UNCHANGED <<th, cl>>
  BY <1>7
<1>8. QED
  BY <1>1, <1>2, <1>3, <1>4, <1>5, <1>6, <1>7
     DEF Next, Handle, HandlerStep, vars, Expire, Crash, PowerLoss

-----------------------------------------------------------------------------
(* What a handler compared cannot change while it is in the section.        *)
LEMMA ComparedStep == Types /\ Answers /\ Sections /\ Compared /\ [Next]_vars => Compared'
<1> SUFFICES ASSUME Types, Answers, Sections, Compared, [Next]_vars PROVE Compared'
  OBVIOUS
<1> USE DEF Types, TypeThreads, Compared, AtEnd
<1>0. {"admitted", "publish", "sync", "written", "drop", "dropped", "locked"} \subseteq LockedPCs
  BY DEF LockedPCs
<1>1. ASSUME NEW t \in Thread, NEW q, th' = [th EXCEPT ![t] = q], part' = part,
             q.pc \notin {"admitted", "publish", "sync"}
      PROVE  Compared'
  BY <1>1
<1>2. ASSUME NEW t \in Thread, NEW w, th[t].pc \in LockedPCs, part' = [part EXCEPT ![th[t].pr] = w],
             NEW q, th' = [th EXCEPT ![t] = q], q.pc \notin {"admitted", "publish", "sync"}
      PROVE  Compared'
  <2>1. ASSUME NEW s \in Thread, s # t, th[s].pc \in {"admitted", "publish", "sync"}
        PROVE  th'[s] = th[s] /\ part'[th[s].pr] = part[th[s].pr]
    <3>1. th[s].pc \in LockedPCs
      BY <1>0, <2>1
    <3>2. th[s].pr # th[t].pr
      BY <1>2, <2>1, <3>1, SectionIsAlone
    <3>3. QED
      BY <1>2, <2>1, <3>2
  <2>2. th'[t].pc \notin {"admitted", "publish", "sync"}
    BY <1>2
  <2>3. \A s \in Thread : s # t => th'[s] = th[s]
    BY <1>2
  <2>4. QED
    BY <2>1, <2>2, <2>3
<1>3. ASSUME NEW t \in Thread, AppendWrite(t) \/ AppendTorn(t) \/ DropPartial(t) PROVE Compared'
  <2>1. \E w : part' = [part EXCEPT ![th[t].pr] = w]
    BY <1>3 DEF AppendWrite, AppendTorn, DropPartial
  <2>2. th[t].pc \in LockedPCs
    BY <1>0, <1>3 DEF AppendWrite, AppendTorn, DropPartial
  <2>3. \E q : th' = [th EXCEPT ![t] = q] /\ q.pc \in {"written", "retry", "dropped"}
    <3>1. th[t] \in Requests
      OBVIOUS
    <3>2. CASE AppendWrite(t)
      BY <1>3, <3>2, GotoSets, PCFacts DEF AppendWrite, Sets, HandlerPCs, LockedPCs
    <3>3. CASE AppendTorn(t)
      BY <1>3, <3>3, ReplySets, SizeAssumption DEF AppendTorn, Sets, ReplyPCs
    <3>4. CASE DropPartial(t)
      BY <1>3, <3>4, GotoSets, PCFacts DEF DropPartial, Sets, HandlerPCs, LockedPCs
    <3>5. QED
      BY <1>3, <3>2, <3>3, <3>4
  <2>4. QED
    BY <1>2, <2>1, <2>2, <2>3
<1>4. ASSUME NEW t \in Thread, AppendAdmit(t) PROVE Compared'
  BY <1>4 DEF AppendAdmit, Goto, Reply, IdleThread, Requests
<1>5. ASSUME NEW t \in Thread, AppendSync(t) PROVE Compared'
  <2>1. part' = part /\ \A s \in Thread : s # t => th'[s] = th[s]
    BY <1>5 DEF AppendSync, Reply
  <2>2. CASE th' = [th EXCEPT ![t].pc = "publish", ![t].at = 1] /\ Checksum(part[th[t].pr])
    <3>1. th'[t].pc = "publish" /\ th'[t].pr = th[t].pr
      BY <2>2 DEF Requests
    <3>2. QED
      BY <2>1, <2>2, <3>1 DEF Checksum
  <2>3. CASE \E kind \in {"pending", "reject"} : th'[t].pc = kind
    BY <2>1, <2>3
  <2>4. ASSUME NEW kind, NEW off, Reply(t, kind, off) PROVE th'[t].pc = kind
    BY <2>4 DEF Reply, IdleThread
  <2>5. QED
    BY <1>5, <2>2, <2>3, <2>4 DEF AppendSync
<1>6. ASSUME NEW t \in Thread, PublishLink(t) PROVE Compared'
  BY <1>6 DEF PublishLink, Goto, Requests
<1>7. ASSUME NEW t \in Thread, PublishSync(t) PROVE Compared'
  BY <1>7 DEF PublishSync, Goto, Requests
<1>8. ASSUME NEW t \in Thread,
             \/ StatusLook(t) \/ StatusPending(t) \/ StatusComplete(t) \/ AppendLock(t) \/ AppendCompleted(t)
             \/ AppendConflict(t) \/ DropSync(t)
      PROVE  Compared'
  <2>1. part' = part
    BY <1>8 DEF StatusLook, StatusPending, StatusComplete, AppendLock, AppendCompleted,
       AppendConflict, DropSync
  <2>2. \A s \in Thread : s # t => th'[s] = th[s]
    BY <1>8 DEF StatusLook, StatusPending, StatusComplete, AppendLock, AppendCompleted,
       AppendConflict, DropSync,
                Goto, Reply
  <2>3. th'[t].pc \notin {"admitted", "publish", "sync"}
    BY <1>8 DEF StatusLook, StatusPending, StatusComplete, AppendLock, AppendCompleted,
       AppendConflict, DropSync,
                Goto, Reply, IdleThread, Requests
  <2>4. QED
    BY <2>1, <2>2, <2>3
<1>9. ASSUME NEW pr \in Producer, AskStatus(pr) \/ SendChunk(pr) PROVE Compared'
  <2>1. PICK call \in {"status", "append"}, off \in 0..Total, n \in 0..MaxChunk : Request(pr, call, off, n)
    BY <1>9, RequestFacts
  <2> DEFINE q == [IdleThread EXCEPT !.pc = call, !.pr = pr, !.off = off, !.n = n]
  <2>2. PICK t \in Thread : th' = [th EXCEPT ![t] = q] /\ part' = part
    BY <2>1 DEF Request
  <2>3. q.pc = call
    BY DEF IdleThread
  <2> HIDE DEF q
  <2>4. QED
    BY <1>1, <2>2, <2>3
<1>10. ASSUME NEW pr \in Producer, Receive(pr) PROVE Compared'
  <2>1. part' = part
    BY <1>10 DEF Receive
  <2>2. QED
    BY <1>1, <1>10, <2>1, ReceiveFacts DEF IdleThread
<1>11. ASSUME NEW t \in Thread, Discard(t) PROVE Compared'
  BY <1>1, <1>11 DEF Discard, IdleThread
<1>12. CASE StopServer
  BY <1>12 DEF StopServer, IdleThread
<1>13. ASSUME NEW pr \in Producer, Expire(pr) PROVE Compared'
  <2>1. \A t \in Thread : th'[t].pc \notin LockedPCs
    BY <1>13 DEF Expire
  <2>2. QED
    BY <1>0, <2>1
<1>14. CASE UNCHANGED <<part, th>>
  BY <1>14
<1>15. QED
  BY <1>3, <1>4, <1>5, <1>6, <1>7, <1>8, <1>9, <1>10, <1>11, <1>12, <1>13, <1>14
     DEF Next, Handle, vars, Lose, Crash, PowerLoss

-----------------------------------------------------------------------------
(* The files of the object only become more durable; a power loss takes     *)
(* names back that were not synced.                                         *)
LEMMA FileGrows ==
    ASSUME TypeFile, [Next]_vars, NEW i \in 1..Files
    PROVE  /\ file[i] = "durable" => file'[i] = "durable"
           /\ file'[i] = "absent" /\ file[i] # "absent" => PowerLoss
           /\ file[i] = "absent" /\ file'[i] # "absent" =>
                 \/ \E t \in Thread : PublishLink(t) /\ th[t].at = i
                 \/ \E t \in Thread : StatusComplete(t) /\ i = Files
                 \/ \E t \in Thread : PublishSync(t) /\ th[t].at = i
<1> USE DEF TypeFile, FileStates
<1>1. ASSUME NEW j, SyncFile(j)
      PROVE  file'[i] = IF i = j THEN "durable" ELSE file[i]
  BY <1>1 DEF SyncFile
<1>2. ASSUME NEW t \in Thread, PublishLink(t)
      PROVE  file'[i] = IF i = th[t].at /\ file[i] = "absent" THEN "linked" ELSE file[i]
  <2>1. file' = [file EXCEPT ![th[t].at] = IF file[th[t].at] = "absent" THEN "linked" ELSE file[th[t].at]]
    BY <1>2 DEF PublishLink
  <2>2. QED
    BY <2>1
<1>3. ASSUME NEW t \in Thread, StatusComplete(t) PROVE SyncFile(Files)
  BY <1>3 DEF StatusComplete
<1>4. ASSUME NEW t \in Thread, AppendCompleted(t) PROVE Completed /\ (SyncFile(Files) \/ file' = file)
  BY <1>4 DEF AppendCompleted
<1>5. ASSUME NEW t \in Thread, PublishSync(t) PROVE SyncFile(th[t].at)
  BY <1>5 DEF PublishSync
<1>6. CASE PowerLoss
  BY <1>6 DEF PowerLoss
<1>7. CASE file' = file
  BY <1>7
<1>8. ASSUME NEW t \in Thread, StatusComplete(t) \/ AppendCompleted(t) \/ PublishLink(t) \/ PublishSync(t)
      PROVE  /\ file[i] = "durable" => file'[i] = "durable"
             /\ file'[i] = "absent" /\ file[i] # "absent" => PowerLoss
             /\ file[i] = "absent" /\ file'[i] # "absent" =>
                   \/ \E s \in Thread : PublishLink(s) /\ th[s].at = i
                   \/ \E s \in Thread : StatusComplete(s) /\ i = Files
                   \/ \E s \in Thread : PublishSync(s) /\ th[s].at = i
  <2>1. CASE StatusComplete(t)
    BY <2>1, <1>1, <1>3
  <2>2. CASE AppendCompleted(t)
    <3>1. file[Files] # "absent"
      BY <1>4, <2>2 DEF Completed
    <3>2. CASE SyncFile(Files)
      BY <3>1, <3>2, <1>1
    <3>3. CASE file' = file
      BY <3>3
    <3>4. QED
      BY <1>4, <2>2, <3>2, <3>3
  <2>3. CASE PublishLink(t)
    BY <2>3, <1>2
  <2>4. CASE PublishSync(t)
    BY <2>4, <1>1, <1>5
  <2>5. QED
    BY <1>8, <2>1, <2>2, <2>3, <2>4
<1>9. QED
  BY <1>6, <1>7, <1>8
     DEF Next, Handle, vars, AskStatus, SendChunk, Request, Receive, Lose, Discard,
     StatusLook, StatusPending, AppendLock, AppendConflict, AppendAdmit, AppendWrite,
     AppendTorn, AppendSync, DropPartial, DropSync, Expire, Crash

LEMMA DurableStays == ASSUME TypeFile, [Next]_vars, AllDurable PROVE AllDurable'
BY FileGrows DEF AllDurable

(* Where a name appears, the files before it are durable.                   *)
LEMMA RecipeStep == Types /\ Durable /\ [Next]_vars => RecipeComesLast'
<1> SUFFICES ASSUME Types, Durable, [Next]_vars, file'[Files] # "absent", NEW i \in 1..Files - 1
             PROVE  file'[i] = "durable"
  BY DEF RecipeComesLast, Completed
<1> USE DEF Types
<1>1. Files \in 1..Files /\ i \in 1..Files
  BY SizeAssumption
<1>2. CASE file[Files] # "absent"
  BY <1>1, <1>2, FileGrows DEF Durable, RecipeComesLast, Completed
<1>3. CASE file[Files] = "absent"
  <2>1. ASSUME NEW t \in Thread, PublishLink(t), th[t].at = Files PROVE file[i] = "durable"
    BY <2>1 DEF PublishLink, Durable, Relies
  <2>2. ASSUME NEW t \in Thread, StatusComplete(t) PROVE FALSE
    BY <1>3, <2>2 DEF StatusComplete, Durable, Relies, Completed
  <2>3. ASSUME NEW t \in Thread, PublishSync(t), th[t].at = Files PROVE FALSE
    BY <1>3, <2>3 DEF PublishSync, Durable, Relies
  <2>4. file[i] = "durable"
    BY <1>1, <1>3, <2>1, <2>2, <2>3, FileGrows DEF Completed
  <2>5. QED
    BY <1>1, <2>4, FileGrows
<1>4. QED
  BY <1>2, <1>3

(* What a handler relies on stays so, whoever else runs, and it holds where *)
(* the handler's own step takes it.                                         *)
LEMMA ReliedStays ==
    ASSUME Types, Durable, [Next]_vars, NEW s \in Thread, th'[s] = th[s]
    PROVE  Relies(th[s])'
<1>1. CASE th[s].pc = "idle"
  BY <1>1 DEF Relies
<1>2. CASE th[s].pc # "idle"
  <2>1. ~PowerLoss
    BY <1>2 DEF PowerLoss, StopServer, IdleThread
  <2>2. \A i \in 1..Files : /\ file[i] = "durable" => file'[i] = "durable"
                            /\ file[i] # "absent" => file'[i] # "absent"
    BY <2>1, FileGrows DEF Types
  <2>3. Files \in 1..Files
    BY SizeAssumption
  <2>4. Relies(th[s])
    BY DEF Durable
  <2>5. ASSUME NEW j \in 1..Files, NEW i \in 1..j - 1 PROVE i \in 1..Files
    BY <2>5, SizeAssumption
  <2>6. AllDurable => AllDurable'
    BY <2>2 DEF AllDurable
  <2>7. Completed => Completed'
    BY <2>2, <2>3 DEF Completed
  <2>8. QED
    BY <2>2, <2>4, <2>5, <2>6, <2>7 DEF Relies
<1>3. QED
  BY <1>1, <1>2

LEMMA HandlerRelies ==
    ASSUME Types, Durable, [Next]_vars, NEW t \in Thread, HandlerStep(t)
    PROVE  Relies(th[t])'
<1> USE DEF Types, TypeThreads, TypeFile
<1>1. ASSUME NEW label, Goto(t, label) PROVE th'[t].pc = label /\ th'[t].at = th[t].at
  BY <1>1 DEF Goto, Requests
<1>2. ASSUME NEW kind, NEW off, Reply(t, kind, off) PROVE th'[t].pc = kind
  BY <1>2 DEF Reply, IdleThread
<1>3. RecipeComesLast /\ Relies(th[t])
  BY DEF Durable
<1>4. ASSUME th'[t].pc \notin {"found", "publish", "sync", "drop", "dropped", "complete"} PROVE Relies(th[t])'
  BY <1>4 DEF Relies
<1>5. ASSUME th'[t].pc \in {"drop", "dropped", "complete"}, AllDurable' PROVE Relies(th[t])'
  BY <1>5 DEF Relies
<1>6. CASE StatusLook(t)
  <2>1. file' = file
    BY <1>6 DEF StatusLook
  <2>2. th'[t].pc \in {"look", "reject"} \/ (Completed /\ th'[t].pc = "found")
    BY <1>1, <1>2, <1>6 DEF StatusLook
  <2>3. QED
    BY <1>4, <2>1, <2>2 DEF Relies, Completed
<1>7. CASE StatusComplete(t)
  <2>1. SyncFile(Files) /\ th'[t].pc \in {"drop", "complete"}
    BY <1>1, <1>2, <1>7 DEF StatusComplete
  <2>2. Completed
    BY <1>3, <1>7 DEF StatusComplete, Relies
  <2>3. QED
    BY <1>3, <1>5, <2>1, <2>2, CompletedFacts
<1>8. CASE AppendCompleted(t)
  <2>1. Completed /\ (th'[t].pc = "reject" \/ (th'[t].pc = "drop" /\ SyncFile(Files)))
    BY <1>1, <1>2, <1>8 DEF AppendCompleted
  <2>2. QED
    BY <1>3, <1>4, <1>5, <2>1, CompletedFacts
<1>9. CASE AppendSync(t)
  <2>1. \/ th'[t].pc \in {"pending", "reject"}
        \/ th' = [th EXCEPT ![t].pc = "publish", ![t].at = 1]
    BY <1>2, <1>9 DEF AppendSync
  <2>2. CASE th' = [th EXCEPT ![t].pc = "publish", ![t].at = 1]
    <3>1. th'[t].pc = "publish" /\ th'[t].at = 1
      BY <2>2 DEF Requests
    <3>2. 1 \in 1..Files /\ 1..1 - 1 = {}
      BY SizeAssumption
    <3>3. QED
      BY <3>1, <3>2 DEF Relies
  <2>3. QED
    BY <1>4, <2>1, <2>2
<1>10. CASE PublishLink(t)
  <2>1. th[t].pc = "publish" /\ th'[t].pc = "sync" /\ th'[t].at = th[t].at
    BY <1>1, <1>10 DEF PublishLink
  <2>2. th[t].at \in 1..Files /\ \A i \in 1..th[t].at - 1 : i \in 1..Files /\ file[i] = "durable"
    BY <1>3, <2>1, SizeAssumption DEF Relies
  <2>3. \A i \in 1..th[t].at - 1 : file'[i] = "durable"
    BY <2>2, FileGrows
  <2>4. file' = [file EXCEPT ![th[t].at] = IF file[th[t].at] = "absent" THEN "linked" ELSE file[th[t].at]]
    BY <1>10 DEF PublishLink
  <2>5. file'[th[t].at] # "absent"
    BY <2>2, <2>4
  <2>6. QED
    BY <2>1, <2>2, <2>3, <2>5 DEF Relies
<1>11. CASE PublishSync(t)
  <2>1. th[t].pc = "sync" /\ file' = [file EXCEPT ![th[t].at] = "durable"]
    BY <1>11 DEF PublishSync, SyncFile
  <2>2. th[t].at \in 1..Files /\ \A i \in 1..th[t].at - 1 : i \in 1..Files /\ file[i] = "durable"
    BY <1>3, <2>1, SizeAssumption DEF Relies
  <2>3. \A i \in 1..th[t].at : i = th[t].at \/ i \in 1..th[t].at - 1
    BY <2>2, SizeAssumption
  <2>4. \A i \in 1..th[t].at : file'[i] = "durable"
    BY <2>1, <2>2, <2>3
  <2>5. CASE th[t].at = Files
    BY <1>1, <1>5, <1>11, <2>4, <2>5 DEF PublishSync, AllDurable
  <2>6. CASE th[t].at # Files
    <3>1. th'[t].pc = "publish" /\ th'[t].at = th[t].at + 1
      BY <1>11, <2>6 DEF PublishSync, Requests
    <3>2. th[t].at + 1 \in 1..Files /\ th[t].at + 1 - 1 = th[t].at
      BY <2>2, <2>6, SizeAssumption
    <3>3. th'[t].at \in 1..Files /\ th'[t].at - 1 = th[t].at
      BY <2>2, <3>1, <3>2, SizeAssumption
    <3>4. \A i \in 1..th'[t].at - 1 : file'[i] = "durable"
      BY <2>4, <3>3
    <3>5. QED
      BY <3>1, <3>3, <3>4 DEF Relies
  <2>7. QED
    BY <2>5, <2>6
<1>12. CASE DropPartial(t) \/ DropSync(t)
  <2>1. th'[t].pc \in {"dropped", "complete"} /\ file' = file
    BY <1>1, <1>2, <1>12 DEF DropPartial, DropSync
  <2>2. AllDurable
    BY <1>3, <1>12 DEF DropPartial, DropSync, Relies
  <2>3. QED
    BY <1>5, <2>1, <2>2 DEF AllDurable
<1>13. CASE StatusPending(t) \/ AppendLock(t) \/ AppendConflict(t) \/ AppendAdmit(t) \/ AppendWrite(t) \/ AppendTorn(t)
  <2>1. th'[t].pc \in {"pending", "locked", "retry", "admitted", "written"}
    BY <1>1, <1>2, <1>13 DEF StatusPending, AppendLock, AppendConflict, AppendAdmit,
       AppendWrite, AppendTorn
  <2>2. QED
    BY <1>4, <2>1
<1>14. QED
  BY <1>6, <1>7, <1>8, <1>9, <1>10, <1>11, <1>12, <1>13 DEF HandlerStep

LEMMA DurableStep == Types /\ Answers /\ Durable /\ [Next]_vars => Durable'
<1> SUFFICES ASSUME Types, Answers, Durable, [Next]_vars PROVE Durable'
  OBVIOUS
<1>1. RecipeComesLast'
  BY RecipeStep
<1>2. ASSUME NEW t \in Thread PROVE Relies(th[t])'
  <2>1. CASE th'[t] = th[t]
    BY <2>1, ReliedStays
  <2>2. CASE th'[t].pc \in {"idle", "status", "append"}
    BY <2>2 DEF Relies
  <2>3. CASE HandlerStep(t)
    BY <2>3, HandlerRelies
  <2>4. ASSUME NEW s \in Thread, HandlerStep(s) PROVE s = t \/ th'[t] = th[t]
    BY <2>4, HandlerMoves DEF Moves, Stays, Enters, Leaves, Sets, Types, TypeThreads
  <2>5. ASSUME NEW pr \in Producer, AskStatus(pr) \/ SendChunk(pr)
        PROVE  th'[t] = th[t] \/ th'[t].pc \in {"status", "append"}
    <3>1. PICK call \in {"status", "append"}, off \in 0..Total, n \in 0..MaxChunk : Request(pr, call, off, n)
      BY <2>5, RequestFacts DEF Types
    <3> DEFINE q == [IdleThread EXCEPT !.pc = call, !.pr = pr, !.off = off, !.n = n]
    <3>2. q.pc = call
      BY DEF IdleThread
    <3>3. \E s \in Thread : th' = [th EXCEPT ![s] = q]
      BY <3>1 DEF Request
    <3> HIDE DEF q
    <3>4. QED
      BY <3>2, <3>3 DEF Types, TypeThreads
  <2>6. ASSUME NEW pr \in Producer, Receive(pr) PROVE th'[t] = th[t] \/ th'[t].pc = "idle"
    BY <2>6, ReceiveFacts DEF IdleThread, Types, TypeThreads
  <2>7. ASSUME NEW s \in Thread, Discard(s) PROVE th'[t] = th[t] \/ th'[t].pc = "idle"
    BY <2>7 DEF Discard, IdleThread, Types, TypeThreads
  <2>8. CASE StopServer
    BY <2>2, <2>8 DEF StopServer, IdleThread
  <2>9. CASE th' = th
    BY <2>1, <2>9
  <2>10. QED
    BY <2>1, <2>2, <2>3, <2>4, <2>5, <2>6, <2>7, <2>8, <2>9
       DEF Next, Handle, HandlerStep, vars, Lose, Expire, Crash, PowerLoss
<1>3. ASSUME NEW pr \in Producer, cl'[pr].pc = "done" PROVE AllDurable'
  <2> USE DEF Types, TypeClients
  <2>1. CASE cl[pr].pc = "done"
    BY <2>1, DurableStays DEF Durable, CompleteIsDurable, AllDurable
  <2>2. ASSUME NEW p \in Producer, Receive(p) PROVE cl[pr].pc = "done" \/ AllDurable
    <3>1. CASE p = pr
      BY <1>3, <2>2, <3>1, ReceiveFacts DEF Durable, Relies
    <3>2. CASE p # pr
      BY <1>3, <2>2, <3>2, ReceiveFacts
    <3>3. QED
      BY <3>1, <3>2
  <2>3. ASSUME NEW p \in Producer, AskStatus(p) \/ SendChunk(p) PROVE cl[pr].pc = "done"
    <3>1. PICK call \in {"status", "append"}, off \in 0..Total, n \in 0..MaxChunk : Request(p, call, off, n)
      BY <2>3, RequestFacts
    <3>2. \E t \in Thread : cl' = [cl EXCEPT ![p] = [pc |-> "wait", off |-> off, n |-> n, t |-> t]]
      BY <3>1 DEF Request
    <3>3. QED
      BY <1>3, <3>2
  <2>4. ASSUME NEW p \in Producer, Lose(p) PROVE cl[pr].pc = "done"
    BY <1>3, <2>4, ClientIdle DEF Lose
  <2>5. ASSUME StopServer PROVE cl[pr].pc = "done"
    BY <1>3, <2>5, ClientIdle DEF StopServer
  <2>6. ASSUME cl' = cl PROVE cl[pr].pc = "done"
    BY <1>3, <2>6
  <2>7. cl[pr].pc = "done" \/ AllDurable
    BY <2>2, <2>3, <2>4, <2>5, <2>6
       DEF Next, Handle, vars, Request, Discard, StatusLook, StatusPending, StatusComplete,
       AppendLock, AppendCompleted, AppendConflict, AppendAdmit, AppendWrite, AppendTorn,
       AppendSync, PublishLink, PublishSync, DropPartial, DropSync, Expire, Crash,
       PowerLoss
  <2>8. QED
    BY <2>1, <2>7, DurableStays
<1>4. CompleteIsDurable'
  BY <1>3 DEF CompleteIsDurable, AllDurable
<1>5. QED
  BY <1>1, <1>2, <1>4 DEF Durable

-----------------------------------------------------------------------------
(* Promises. Until the object is durable, a partial shrinks only by expiry. *)
LEMMA PromisedStep == Types /\ Compared /\ Durable /\ Promised /\ [Next]_vars => Promised'
<1> SUFFICES ASSUME Types, Compared, Durable, Promised, [Next]_vars, NEW pr \in Producer, ~AllDurable'
             PROVE  Len(disk'[pr]) <= Len(part'[pr]) /\ told'[pr] <= Len(disk'[pr])
  BY DEF Promised, AllDurable
<1> DEFINE p == Len(part[pr])
           d == Len(disk[pr])
<1>1. ~AllDurable
  BY DurableStays DEF Types
<1>2. p \in 0..Total /\ d \in 0..Total /\ told[pr] \in 0..Total /\ d <= p /\ told[pr] <= d
  BY <1>1 DEF Types, Begun, TypeTold, Promised
<1>3. part \in Partials /\ disk \in Partials
  BY DEF Types, Begun
<1>4. ASSUME NEW t \in Thread, AppendWrite(t) \/ AppendTorn(t)
      PROVE  Len(disk'[pr]) <= Len(part'[pr]) /\ told'[pr] <= Len(disk'[pr])
  <2>1. disk' = disk /\ told' = told
    BY <1>4 DEF AppendWrite, AppendTorn
  <2>2. PICK k \in 0..th[t].n :
              /\ Len(part[th[t].pr]) + k \in 0..Total
              /\ part' = [part EXCEPT ![th[t].pr] = Beginning(th[t].pr, Len(part[th[t].pr]) + k)]
    BY <1>4, WriteFacts
  <2>3. CASE th[t].pr = pr
    <3>1. Len(part'[pr]) = p + k
      BY <1>3, <2>2, <2>3, BeginningFacts DEF Partials
    <3>2. k \in Nat
      BY SizeAssumption DEF Types, TypeThreads, Requests
    <3>3. QED
      BY <1>2, <2>1, <3>1, <3>2, SizeAssumption
  <2>4. CASE th[t].pr # pr
    BY <1>2, <2>1, <2>2, <2>4
  <2>5. QED
    BY <2>3, <2>4
<1>5. ASSUME NEW t \in Thread, AppendSync(t)
      PROVE  Len(disk'[pr]) <= Len(part'[pr]) /\ told'[pr] <= Len(disk'[pr])
  <2>1. part' = part /\ disk' = [disk EXCEPT ![th[t].pr] = part[th[t].pr]]
    BY <1>5 DEF AppendSync, SyncPartial
  <2>2. told' = told \/ told' = [told EXCEPT ![th[t].pr] = Len(part[th[t].pr])]
    BY <1>5 DEF AppendSync
  <2>3. CASE th[t].pr = pr
    <3>1. disk'[pr] = part[pr]
      BY <1>3, <2>1, <2>3 DEF Partials
    <3>2. told'[pr] \in {told[pr], p}
      BY <2>2, <2>3 DEF Types, TypeTold
    <3>3. QED
      BY <1>2, <2>1, <3>1, <3>2, SizeAssumption
  <2>4. CASE th[t].pr # pr
    BY <1>2, <2>1, <2>2, <2>4 DEF Types, TypeTold
  <2>5. QED
    BY <2>3, <2>4
<1>6. ASSUME NEW t \in Thread, DropPartial(t) \/ DropSync(t) PROVE FALSE
  BY <1>1, <1>6 DEF DropPartial, DropSync, Durable, Relies
<1>7. ASSUME NEW q \in Producer, Expire(q)
      PROVE  Len(disk'[pr]) <= Len(part'[pr]) /\ told'[pr] <= Len(disk'[pr])
  <2>1. CASE q = pr
    <3>1. part'[pr] = <<>> /\ disk'[pr] = <<>> /\ told'[pr] = 0
      BY <1>3, <1>7, <2>1 DEF Expire, Partials, Types, TypeTold
    <3>2. Len(<<>>) = 0
      OBVIOUS
    <3>3. QED
      BY <3>1, <3>2
  <2>2. CASE q # pr
    BY <1>2, <1>7, <2>2 DEF Expire
  <2>3. QED
    BY <2>1, <2>2
<1>8. CASE PowerLoss
  <2>1. told' = told
    BY <1>8 DEF PowerLoss, StopServer
  <2>2. PICK k \in 0..Total : /\ part'[pr] = Beginning(pr, k) /\ disk'[pr] = Beginning(pr, k) /\ Len(part'[pr]) = k
                              /\ d <= p => d <= k /\ k <= p
    BY <1>8, SurvivorFacts
  <2>3. Len(disk'[pr]) = k /\ d <= k
    BY <1>2, <2>2
  <2>4. QED
    BY <1>2, <2>1, <2>2, <2>3, SizeAssumption
<1>9. CASE UNCHANGED <<part, disk, told>>
  BY <1>2, <1>9
<1>10. QED
  BY <1>4, <1>5, <1>6, <1>7, <1>8, <1>9
     DEF Next, Handle, vars, AskStatus, SendChunk, Request, Receive, Lose, Discard,
     StatusLook, StatusPending, StatusComplete, AppendLock, AppendCompleted,
     AppendConflict, AppendAdmit, PublishLink, PublishSync, StopServer, Crash

-----------------------------------------------------------------------------
(* The budget. Whatever shortens a partial or its durable content leaves    *)
(* less; what the admitted append adds was counted when it was admitted.    *)
Elsewhere(w, pr) == {u \in Units(w) : u[1] # pr}

LEMMA UnitsExcept ==
    ASSUME NEW w, Begun(w), NEW pr \in Producer, NEW x, NEW k \in 0..Total, Len(x[pr]) = k,
           \A q \in Producer : q # pr => x[q] = w[q]
    PROVE  Units(x) = Elsewhere(w, pr) \cup ({pr} \X (1..k))
<1>1. Len(x[pr]) = k /\ \A q \in Producer : q # pr => x[q] = w[q]
  OBVIOUS
<1>2. ASSUME NEW u \in Producer \X (1..Total)
      PROVE  u \in Units(x) <=> u \in {y \in Units(w) : y[1] # pr} \cup ({pr} \X (1..k))
  <2>0. u[1] \in Producer /\ u[2] \in 1..Total /\ u = <<u[1], u[2]>>
    BY <1>2
  <2>1. CASE u[1] = pr
    <3>1. u \in Units(x) <=> u[2] <= k
      BY <1>1, <2>1 DEF Units
    <3>2. u[2] <= k <=> u[2] \in 1..k
      BY <2>0, SizeAssumption
    <3>3. u[2] \in 1..k <=> u \in {pr} \X (1..k)
      BY <2>0, <2>1
    <3>4. QED
      BY <2>1, <3>1, <3>2, <3>3
  <2>2. CASE u[1] # pr
    <3>1. u \in Units(x) <=> u \in Units(w)
      BY <1>1, <2>0, <2>2 DEF Units
    <3>2. u \notin {pr} \X (1..k)
      BY <2>2
    <3>3. QED
      BY <2>2, <3>1, <3>2
  <2>3. QED
    BY <2>1, <2>2
<1>3. {pr} \X (1..k) \subseteq Producer \X (1..Total)
  BY SizeAssumption
<1>4. Units(x) \subseteq Producer \X (1..Total) /\ Units(w) \subseteq Producer \X (1..Total)
  BY DEF Units
<1>5. Units(x) = {u \in Units(w) : u[1] # pr} \cup ({pr} \X (1..k))
  BY <1>2, <1>3, <1>4
<1>6. QED
  BY <1>5 DEF Elsewhere

(* The units a step leaves. *)
LEMMA LessIsStaged ==
    ASSUME NEW S, NEW w, S \subseteq Units(w)
    PROVE  IsFiniteSet(S) /\ Cardinality(S) \in Nat /\ Cardinality(S) <= Cardinality(Units(w))
BY FiniteFootprint, FS_Subset, FS_CardinalityType

LEMMA FootprintFinite == IsFiniteSet(Footprint) /\ Cardinality(Footprint) \in Nat
<1>1. IsFiniteSet(Units(part)) /\ IsFiniteSet(Units(disk))
  BY FiniteFootprint
<1>2. IsFiniteSet(Footprint)
  BY <1>1, FS_Union DEF Footprint
<1>3. QED
  BY <1>2, FS_CardinalityType

LEMMA LessIsLess ==
    ASSUME Footprint' \subseteq Footprint
    PROVE  Cardinality(Footprint') <= Cardinality(Footprint)
BY FootprintFinite, FS_Subset

(* Units by length alone. *)
LEMMA ShorterIsLess ==
    ASSUME NEW w, Begun(w), NEW v, Begun(v),
           \A pr \in Producer : Len(v[pr]) <= Len(w[pr])
    PROVE  Units(v) \subseteq Units(w)
<1>1. ASSUME NEW u \in Producer \X (1..Total), u[2] <= Len(v[u[1]]) PROVE u[2] <= Len(w[u[1]])
  <2>1. u[1] \in Producer /\ u[2] \in 1..Total
    BY <1>1
  <2>2. Len(v[u[1]]) <= Len(w[u[1]]) /\ Len(v[u[1]]) \in 0..Total /\ Len(w[u[1]]) \in 0..Total
    BY <2>1 DEF Begun
  <2>3. QED
    BY <1>1, <2>1, <2>2, SizeAssumption
<1>2. QED
  BY <1>1 DEF Units

(* What each step does to the staging directory: an append of n admitted    *)
(* units adds at most n, an unadmitted step none.                           *)
LEMMA FootprintStep ==
    ASSUME Types, Compared, [Next]_vars
    PROVE  \/ Cardinality(Footprint') <= Cardinality(Footprint)
           \/ \E t \in Thread : /\ AppendWrite(t) \/ AppendTorn(t)
                                /\ th[t].n # 0
                                /\ Cardinality(Footprint') <= Cardinality(Footprint) + th[t].n
<1> DEFINE Goal == \/ Cardinality(Footprint') <= Cardinality(Footprint)
                   \/ \E t \in Thread : /\ AppendWrite(t) \/ AppendTorn(t)
                                        /\ th[t].n # 0
                                        /\ Cardinality(Footprint') <= Cardinality(Footprint) + th[t].n
<1>0. Begun(part) /\ Begun(disk) /\ Begun(part') /\ Begun(disk')
  BY BegunStep DEF Types, Begun, Beginning, Copy, Source, Partials
<1>1. ASSUME \A pr \in Producer : /\ Len(part'[pr]) <= Len(part[pr]) \/ Len(part'[pr]) <= Len(disk[pr])
                                  /\ Len(disk'[pr]) <= Len(part[pr]) \/ Len(disk'[pr]) <= Len(disk[pr])
      PROVE  Cardinality(Footprint') <= Cardinality(Footprint)
  <2>1. ASSUME NEW v, Begun(v), \A pr \in Producer : Len(v[pr]) <= Len(part[pr]) \/ Len(v[pr]) <= Len(disk[pr]),
               NEW u \in Units(v)
        PROVE  u \in Units(part) \/ u \in Units(disk)
    <3>1. u \in Producer \X (1..Total) /\ u[1] \in Producer /\ u[2] \in 1..Total /\ u[2] <= Len(v[u[1]])
      BY <2>1 DEF Units
    <3>2. Len(v[u[1]]) \in 0..Total /\ Len(part[u[1]]) \in 0..Total /\ Len(disk[u[1]]) \in 0..Total
      BY <1>0, <2>1, <3>1 DEF Begun
    <3>3. Len(v[u[1]]) <= Len(part[u[1]]) \/ Len(v[u[1]]) <= Len(disk[u[1]])
      BY <2>1, <3>1
    <3>4. u[2] <= Len(part[u[1]]) \/ u[2] <= Len(disk[u[1]])
      BY <3>1, <3>2, <3>3, SizeAssumption
    <3>5. QED
      BY <3>1, <3>4 DEF Units
  <2>2. Units(part') \subseteq Footprint /\ Units(disk') \subseteq Footprint
    BY <1>0, <1>1, <2>1 DEF Footprint
  <2>3. Footprint' = Units(part') \cup Units(disk')
    BY DEF Footprint, Units
  <2>4. QED
    BY <2>2, <2>3, LessIsLess
<1>2. \A pr \in Producer : Len(part[pr]) <= Len(part[pr]) /\ Len(disk[pr]) <= Len(disk[pr]) /\ 0 <= Len(part[pr])
  BY <1>0, SizeAssumption DEF Begun
<1>3. ASSUME NEW t \in Thread, AppendWrite(t) \/ AppendTorn(t) PROVE Goal
  <2> DEFINE pr == th[t].pr
             p == Len(part[pr])
  <2>1. pr \in Producer /\ disk' = disk
    BY <1>3, WriteFacts
  <2>2. PICK k \in 0..th[t].n : p + k \in 0..Total /\ part' = [part EXCEPT ![pr] = Beginning(pr, p + k)]
    BY <1>3, WriteFacts
  <2>3. p \in 0..Total /\ p \in Nat /\ k \in Nat /\ th[t].n \in Nat /\ k <= th[t].n
    BY <1>0, <2>1, SizeAssumption DEF Begun, Types, TypeThreads, Requests
  <2>4. Len(Beginning(pr, p + k)) = p + k
    BY <2>1, <2>2, BeginningFacts
  <2>5. Units(part') = Elsewhere(part, pr) \cup ({pr} \X (1..p + k))
    <3>1. PICK m \in 0..Total : m = p + k
      BY <2>2
    <3>2. Len(part'[pr]) = m /\ \A q \in Producer : q # pr => part'[q] = part[q]
      BY <1>0, <2>1, <2>2, <2>4, <3>1 DEF Begun, Partials
    <3> HIDE DEF p, pr
    <3>3. Units(part') = Elsewhere(part, pr) \cup ({pr} \X (1..m))
      BY <1>0, <2>1, <3>2, UnitsExcept
    <3>4. QED
      BY <3>1, <3>3
  <2>6. {pr} \X (1..p) \subseteq Units(part)
    BY <2>1, <2>3, SizeAssumption DEF Units
  <2>7. 1..p + k = (1..p) \cup (p + 1..p + k)
    BY <2>3
  <2>8. {pr} \X (1..p + k) = ({pr} \X (1..p)) \cup ({pr} \X (p + 1..p + k))
    BY <2>7
  <2>9. Footprint' \subseteq Footprint \cup ({pr} \X (p + 1..p + k))
    <3>1. Footprint' = Units(part') \cup Units(disk)
      BY <2>1 DEF Footprint, Units
    <3>2. QED
      BY <2>5, <2>6, <2>8, <3>1 DEF Footprint, Elsewhere
  <2>10. /\ IsFiniteSet(Footprint \cup ({pr} \X (p + 1..p + k)))
         /\ Cardinality(Footprint \cup ({pr} \X (p + 1..p + k))) <= Cardinality(Footprint) + k
    BY <2>3, FootprintFinite, AppendedUnits
  <2>11. Cardinality(Footprint') <= Cardinality(Footprint \cup ({pr} \X (p + 1..p + k)))
    BY <2>9, <2>10, FS_Subset
  <2>12. Cardinality(Footprint') \in Nat /\ Cardinality(Footprint \cup ({pr} \X (p + 1..p + k))) \in Nat
    BY <2>9, <2>10, FS_Subset, FS_CardinalityType
  <2>13. Cardinality(Footprint') <= Cardinality(Footprint) + k
    BY <2>3, <2>10, <2>11, <2>12, FootprintFinite
  <2>14. QED
    BY <1>3, <2>3, <2>12, <2>13, FootprintFinite
<1>4. ASSUME NEW t \in Thread, AppendSync(t) \/ DropSync(t) PROVE Goal
  <2>1. part' = part /\ disk' = [disk EXCEPT ![th[t].pr] = part[th[t].pr]]
    BY <1>4 DEF AppendSync, DropSync, SyncPartial
  <2>2. \A pr \in Producer : disk'[pr] = part[pr] \/ disk'[pr] = disk[pr]
    BY <1>0, <2>1 DEF Begun, Partials
  <2>3. QED
    BY <1>1, <1>2, <2>1, <2>2
<1>5. ASSUME NEW t \in Thread, DropPartial(t) PROVE Goal
  <2>1. disk' = disk /\ part' = [part EXCEPT ![th[t].pr] = <<>>]
    BY <1>5 DEF DropPartial
  <2>2. \A pr \in Producer : part'[pr] = <<>> \/ part'[pr] = part[pr]
    BY <1>0, <2>1 DEF Begun, Partials
  <2>3. Len(<<>>) = 0
    OBVIOUS
  <2>4. QED
    BY <1>1, <1>2, <2>1, <2>2, <2>3
<1>6. ASSUME NEW q \in Producer, Expire(q) PROVE Goal
  <2>1. disk' = [disk EXCEPT ![q] = <<>>] /\ part' = [part EXCEPT ![q] = <<>>]
    BY <1>6 DEF Expire
  <2>2. \A pr \in Producer : (part'[pr] = <<>> /\ disk'[pr] = <<>>) \/ (part'[pr] = part[pr] /\ disk'[pr] = disk[pr])
    BY <1>0, <2>1 DEF Begun, Partials
  <2>3. Len(<<>>) = 0
    OBVIOUS
  <2>4. QED
    BY <1>1, <1>2, <2>2, <2>3
<1>7. CASE PowerLoss
  <2>1. ASSUME NEW pr \in Producer
        PROVE  /\ Len(part'[pr]) <= Len(part[pr]) \/ Len(part'[pr]) <= Len(disk[pr])
               /\ disk'[pr] = part'[pr]
    BY <1>7, SurvivorFacts
  <2>2. QED
    BY <1>1, <2>1
<1>8. CASE UNCHANGED <<part, disk>>
  BY <1>1, <1>2, <1>8
<1>9. Goal
  BY <1>3, <1>4, <1>5, <1>6, <1>7, <1>8
     DEF Next, Handle, vars, AskStatus, SendChunk, Request, Receive, Lose, Discard,
     StatusLook, StatusPending, StatusComplete, AppendLock, AppendCompleted,
     AppendConflict, AppendAdmit, PublishLink, PublishSync, StopServer, Crash
<1>10. QED
  BY <1>9

(* A handler's step leaves the other handlers alone.                        *)
LEMMA OthersStay ==
    ASSUME Types, NEW t \in Thread, HandlerStep(t), NEW s \in Thread, s # t
    PROVE  th'[s] = th[s]
BY HandlerMoves DEF Moves, Stays, Enters, Leaves, Sets, Types, TypeThreads

(* Into the metered section a handler comes by AppendAdmit only.            *)
LEMMA ScanningStep ==
    ASSUME Types, Answers, [Next]_vars, NEW s \in Thread, th'[s].pc \in {"admitted", "written"}
    PROVE  \/ th'[s] = th[s]
           \/ th[s].pc = "admitted" /\ th'[s].pc = "written" /\ th'[s].n = th[s].n
           \/ AppendAdmit(s) /\ Admissible(s) /\ th'[s].n = th[s].n
<1> USE DEF Types, TypeThreads
<1>1. ASSUME NEW label, Goto(s, label) PROVE th'[s].pc = label /\ th'[s].n = th[s].n
  BY <1>1 DEF Goto, Requests
<1>2. ASSUME NEW kind, NEW off, Reply(s, kind, off) PROVE th'[s].pc = kind
  BY <1>2 DEF Reply, IdleThread
<1>3. ASSUME NEW t \in Thread, HandlerStep(t), t # s PROVE th'[s] = th[s]
  BY <1>3, OthersStay
<1>4. CASE AppendAdmit(s)
  BY <1>1, <1>2, <1>4 DEF AppendAdmit
<1>5. CASE AppendWrite(s)
  BY <1>1, <1>5 DEF AppendWrite
<1>6. ASSUME AppendSync(s) PROVE FALSE
  <2>1. CASE th' = [th EXCEPT ![s].pc = "publish", ![s].at = 1]
    BY <2>1 DEF Requests
  <2>2. QED
    BY <1>2, <1>6, <2>1 DEF AppendSync
<1>7. ASSUME PublishSync(s) PROVE FALSE
  <2>1. CASE th' = [th EXCEPT ![s].pc = "publish", ![s].at = th[s].at + 1]
    BY <2>1 DEF Requests
  <2>2. QED
    BY <1>1, <1>7, <2>1 DEF PublishSync
<1>8. CASE HandlerStep(s)
  BY <1>1, <1>2, <1>4, <1>5, <1>6, <1>7, <1>8
     DEF HandlerStep, StatusLook, StatusPending, StatusComplete, AppendLock,
     AppendCompleted, AppendConflict, AppendTorn, PublishLink, DropPartial, DropSync
<1>9. ASSUME NEW pr \in Producer, AskStatus(pr) \/ SendChunk(pr) PROVE th'[s] = th[s]
  <2>1. PICK call \in {"status", "append"}, off \in 0..Total, n \in 0..MaxChunk : Request(pr, call, off, n)
    BY <1>9, RequestFacts
  <2> DEFINE q == [IdleThread EXCEPT !.pc = call, !.pr = pr, !.off = off, !.n = n]
  <2>2. q.pc = call
    BY DEF IdleThread
  <2>3. \E t \in Thread : th' = [th EXCEPT ![t] = q]
    BY <2>1 DEF Request
  <2> HIDE DEF q
  <2>4. QED
    BY <2>2, <2>3
<1>10. ASSUME NEW pr \in Producer, Receive(pr) PROVE th'[s] = th[s]
  BY <1>10, ReceiveFacts DEF IdleThread
<1>11. ASSUME NEW t \in Thread, Discard(t) PROVE th'[s] = th[s]
  BY <1>11 DEF Discard, IdleThread
<1>12. ASSUME StopServer PROVE FALSE
  BY <1>12 DEF StopServer, IdleThread
<1>13. CASE th' = th
  BY <1>13
<1>14. QED
  BY <1>3, <1>8, <1>9, <1>10, <1>11, <1>12, <1>13
     DEF Next, Handle, HandlerStep, vars, Lose, Expire, Crash, PowerLoss

(* What is staged when an append is admitted is the whole footprint.        *)
LEMMA AdmittedFits ==
    ASSUME Types, Promised, NEW t \in Thread, AppendAdmit(t), Admissible(t), Budget # None, th[t].n # 0
    PROVE  /\ \A s \in Thread : ~Scanning(s)
           /\ Footprint' = Footprint /\ Cardinality(Footprint) + th[t].n <= Budget
<1>1. (\A s \in Thread : ~Scanning(s)) /\ Staged + th[t].n <= Budget
  BY DEF Admissible, Unmetered
<1>2. ~AllDurable
  <2>1. Files \in 1..Files /\ file[Files] = "absent"
    BY SizeAssumption DEF AppendAdmit, Completed
  <2>2. QED
    BY <2>1 DEF AllDurable
<1>3. Units(disk) \subseteq Units(part)
  BY <1>2, ShorterIsLess DEF Types, Promised
<1>4. Footprint = Units(part)
  BY <1>3 DEF Footprint
<1>5. Staged = Cardinality(Footprint)
  BY <1>4 DEF Staged, Units
<1>6. part' = part /\ disk' = disk
  BY DEF AppendAdmit
<1>7. QED
  BY <1>1, <1>5, <1>6 DEF Footprint, Units

LEMMA MeteredStep == Types /\ Answers /\ Compared /\ Promised /\ Metered /\ [Next]_vars => Metered'
<1> SUFFICES ASSUME Types, Answers, Compared, Promised, Metered, [Next]_vars, Budget # None
             PROVE  /\ \A s, t \in Thread : Scanning(s)' /\ Scanning(t)' => s = t
                    /\ Cardinality(Footprint') <= Budget
                    /\ \A t \in Thread : th'[t].pc = "admitted" /\ th'[t].n # 0 =>
                          Cardinality(Footprint') + th'[t].n <= Budget
  BY DEF Metered, Footprint, Units
<1> USE DEF Types, TypeThreads
<1>0. /\ \A s, t \in Thread : Scanning(s) /\ Scanning(t) => s = t
      /\ Cardinality(Footprint) <= Budget
      /\ \A t \in Thread : th[t].pc = "admitted" /\ th[t].n # 0 => Cardinality(Footprint) + th[t].n <= Budget
      /\ Budget \in Nat
  BY SizeAssumption DEF Metered
<1>1. \A t \in Thread : th[t].n \in Nat
  BY SizeAssumption DEF Requests
<1>2. Cardinality(Footprint) \in Nat /\ Cardinality(Footprint') \in Nat
  BY FootprintFinite, FiniteFootprint, FS_Union, FS_CardinalityType DEF Footprint, Units
<1>3. ASSUME NEW s \in Thread, Scanning(s)' PROVE Scanning(s) \/ (AppendAdmit(s) /\ Admissible(s) /\ th[s].n # 0)
  <2>1. th'[s].pc \in {"admitted", "written"} /\ th'[s].n # 0
    BY <1>3 DEF Scanning, Unmetered
  <2>2. QED
    BY <2>1, ScanningStep DEF Scanning, Unmetered
<1>4. ASSUME NEW s \in Thread, NEW t \in Thread, Scanning(s)', Scanning(t)' PROVE s = t
  <2>1. ASSUME NEW x \in Thread, NEW y \in Thread, x # y, AppendAdmit(x), Admissible(x), th[x].n # 0,
               Scanning(y)'
        PROVE  FALSE
    <3>1. th'[y] = th[y]
      BY <2>1, OthersStay DEF HandlerStep
    <3>2. Scanning(y)
      BY <2>1, <3>1 DEF Scanning, Unmetered
    <3>3. QED
      BY <2>1, <3>2, AdmittedFits
  <2>2. QED
    BY <1>0, <1>3, <1>4, <2>1
<1>5. ASSUME NEW t \in Thread, AppendWrite(t) \/ AppendTorn(t), th[t].n # 0,
             Cardinality(Footprint') <= Cardinality(Footprint) + th[t].n
      PROVE  /\ Cardinality(Footprint') <= Budget
             /\ \A s \in Thread : th'[s].pc # "admitted" \/ th'[s].n = 0
  <2>1. th[t].pc = "admitted"
    BY <1>5, WriteFacts
  <2>2. Cardinality(Footprint') <= Budget
    BY <1>0, <1>1, <1>2, <1>5, <2>1
  <2>3. ASSUME NEW s \in Thread, s # t, th'[s].pc = "admitted", th'[s].n # 0 PROVE FALSE
    <3>1. th'[s] = th[s]
      BY <1>5, <2>3, OthersStay DEF HandlerStep
    <3>2. Scanning(s) /\ Scanning(t)
      BY <1>5, <2>1, <2>3, <3>1 DEF Scanning, Unmetered
    <3>3. QED
      BY <1>0, <2>3, <3>2
  <2>4. th'[t].pc # "admitted"
    BY <1>5 DEF AppendWrite, AppendTorn, Goto, Reply, IdleThread, Requests
  <2>5. QED
    BY <2>2, <2>3, <2>4
<1>6. ASSUME Cardinality(Footprint') <= Cardinality(Footprint)
      PROVE  /\ Cardinality(Footprint') <= Budget
             /\ \A t \in Thread : th'[t].pc = "admitted" /\ th'[t].n # 0 =>
                   Cardinality(Footprint') + th'[t].n <= Budget
  <2>1. Cardinality(Footprint') <= Budget
    BY <1>0, <1>2, <1>6
  <2>2. ASSUME NEW t \in Thread, th'[t].pc = "admitted", th'[t].n # 0
        PROVE  Cardinality(Footprint) + th[t].n <= Budget /\ th'[t].n = th[t].n
    <3>1. CASE th'[t] = th[t]
      BY <1>0, <2>2, <3>1
    <3>2. CASE AppendAdmit(t) /\ Admissible(t) /\ th'[t].n = th[t].n
      BY <2>2, <3>2, AdmittedFits
    <3>3. QED
      BY <2>2, <3>1, <3>2, ScanningStep
  <2>3. ASSUME NEW t \in Thread, th'[t].pc = "admitted", th'[t].n # 0
        PROVE  Cardinality(Footprint') + th'[t].n <= Budget
    BY <1>0, <1>1, <1>2, <1>6, <2>2, <2>3
  <2>4. QED
    BY <2>1, <2>3
<1>7. QED
  BY <1>4, <1>5, <1>6, FootprintStep

-----------------------------------------------------------------------------
(* The invariant is inductive. *)
LEMMA EmptyBegun == ASSUME NEW w, w = [pr \in Producer |-> <<>>] PROVE Begun(w) /\ Units(w) = {}
<1>1. \A pr \in Producer : w[pr] = Beginning(pr, 0) /\ Len(w[pr]) = 0
  BY BeginningEnds
<1>2. w \in Partials
  BY DEF Partials
<1>3. 0 \in 0..Total
  BY SizeAssumption
<1>4. Begun(w)
  BY <1>1, <1>2, <1>3 DEF Begun
<1>5. ASSUME NEW u \in Units(w) PROVE FALSE
  <2>1. u[1] \in Producer /\ u[2] \in 1..Total /\ u[2] <= Len(w[u[1]])
    BY DEF Units
  <2>2. u[2] <= 0
    BY <1>1, <2>1
  <2>3. QED
    BY <2>1, <2>2, SizeAssumption
<1>6. QED
  BY <1>4, <1>5

LEMMA IInvInit == Init => IInv
<1> SUFFICES ASSUME Init PROVE IInv
  OBVIOUS
<1>1. Begun(part) /\ Begun(disk) /\ Footprint = {}
  BY EmptyBegun DEF Init, Footprint
<1>2. \A t \in Thread : th[t] = IdleThread
  BY DEF Init
<1>3. IdleThread \in Requests /\ IdleThread.pc = "idle" /\ IdleThread.off + IdleThread.n <= Total
  <2>1. IdleThread.off = 0 /\ IdleThread.n = 0 /\ IdleThread.pc = "idle" /\ 0 + 0 <= Total
    BY SizeAssumption DEF IdleThread
  <2>2. QED
    BY <2>1, RequestsClosed
<1>4. TypeThreads /\ Busy
  BY <1>2, <1>3 DEF Init, TypeThreads, Busy
<1>5. TypeClients
  BY ClientIdle DEF Init, TypeClients
<1>6. TypeFile /\ TypeLock
  BY DEF Init, TypeFile, FileStates, TypeLock
<1>7. TypeTold /\ Counted
  BY SizeAssumption DEF Init, TypeTold, Counted
<1>8. Sections
  BY <1>2, <1>3, PCFacts DEF Init, Sections
<1>9. Answers
  BY <1>2, <1>3, ClientIdle DEF Init, Answers, NeverRejected, IdleClient
<1>10. Compared
  BY <1>2, <1>3 DEF Compared
<1>11. Durable
  <2>1. file[Files] = "absent"
    BY SizeAssumption DEF Init
  <2>2. CompleteIsDurable
    BY ClientIdle DEF Init, CompleteIsDurable
  <2>3. QED
    BY <1>2, <1>3, <2>1, <2>2 DEF Durable, Relies, RecipeComesLast, Completed
<1>12. Promised
  <2>1. \A pr \in Producer : Len(part[pr]) = 0 /\ Len(disk[pr]) = 0 /\ told[pr] = 0
    BY DEF Init
  <2>2. QED
    BY <2>1 DEF Promised
<1>13. Metered
  <2>1. Cardinality(Footprint) = 0
    BY <1>1, FS_EmptySet
  <2>2. Budget # None => 0 <= Budget
    BY SizeAssumption
  <2>3. QED
    BY <1>2, <1>3, <2>1, <2>2 DEF Metered, Scanning
<1>14. QED
  BY <1>1, <1>4, <1>5, <1>6, <1>7, <1>8, <1>9, <1>10, <1>11, <1>12, <1>13 DEF IInv, Types

LEMMA CountedStep == Counted /\ [Next]_vars => Counted'
<1> SUFFICES ASSUME Counted, [Next]_vars PROVE Counted'
  OBVIOUS
<1>1. faults' = faults \/ faults' = faults + 1
  BY DEF Next, Handle, vars, AskStatus, SendChunk, Request, Receive, Lose, Discard,
  StatusLook, StatusPending, StatusComplete, AppendLock, AppendCompleted, AppendConflict,
  AppendAdmit, AppendWrite, AppendTorn, AppendSync, PublishLink, PublishSync, DropPartial,
  DropSync, Expire, StopServer, Crash, PowerLoss
<1>2. QED
  BY <1>1 DEF Counted

LEMMA IInvStep == IInv /\ [Next]_vars => IInv'
<1> SUFFICES ASSUME IInv, [Next]_vars PROVE IInv'
  OBVIOUS
<1>1. Types /\ Counted /\ Sections /\ Answers /\ Compared /\ Durable /\ Promised /\ Metered /\ RecipeComesLast
  BY DEF IInv, Durable
<1>2. Types'
  BY <1>1, ThreadsStep, LockStep, ClientsStep, FileStep, ToldStep, BegunStep DEF Types
<1>3. Counted' /\ Sections' /\ Answers' /\ Compared'
  BY <1>1, CountedStep, SectionsStep, AnswersStep, ComparedStep
<1>4. Durable' /\ Promised' /\ Metered'
  BY <1>1, DurableStep, PromisedStep, MeteredStep
<1>5. QED
  BY <1>2, <1>3, <1>4 DEF IInv

LEMMA BegunIsShort == ASSUME NEW w, Begun(w) PROVE w \in [Producer -> SeqOf(0..Total, Total)]
<1>1. w \in [Producer -> Seq(0..Total)]
  BY DEF Begun, Partials
<1>2. ASSUME NEW pr \in Producer PROVE w[pr] \in SeqOf(0..Total, Total)
  <2>1. w[pr] \in Seq(0..Total) /\ Len(w[pr]) \in 0..Total
    BY <1>1 DEF Begun
  <2>2. w[pr] \in [1..Len(w[pr]) -> 0..Total]
    BY <2>1, LenProperties
  <2>3. QED
    BY <2>1, <2>2 DEF SeqOf
<1>3. QED
  BY <1>1, <1>2

LEMMA IInvTypeOK == IInv => TypeOK
<1> SUFFICES ASSUME IInv PROVE TypeOK
  OBVIOUS
<1> USE DEF IInv, Types
<1>1. part \in [Producer -> SeqOf(0..Total, Total)] /\ disk \in [Producer -> SeqOf(0..Total, Total)]
  BY BegunIsShort
<1>2. file \in [1..Files -> {"absent", "linked", "durable"}] /\ lock \in [Producer -> Thread \cup {None}]
  BY DEF TypeFile, FileStates, TypeLock
<1>3. th \in [Thread -> [pc : HandlerPCs, pr : Producer \cup {None}, off : 0..Total, n : 0..MaxChunk, at : 0..Files]]
  BY DEF TypeThreads, Requests
<1>4. cl \in [Producer -> [pc : {"idle", "wait", "ready", "done", "rejected"},
                          off : 0..Total, n : 0..MaxChunk, t : Thread \cup {None}]]
  BY DEF TypeClients, Attempts, ClientPCs
<1>5. told \in [Producer -> 0..Total]
  BY DEF TypeTold
<1>6. \A t \in Thread : th[t].pc \in LockedPCs <=> \E pr \in Producer : lock[pr] = t
  BY PCFacts, DeviceAssumption DEF Busy, Sections
<1> HIDE DEF IInv, Types
<1>7. QED
  BY <1>1, <1>2, <1>3, <1>4, <1>5, <1>6 DEF TypeOK

LEMMA IInvStaged == IInv => StagedIsSafe
<1> SUFFICES ASSUME IInv PROVE StagedIsSafe
  OBVIOUS
<1>1. Begun(part) /\ Begun(disk)
  BY DEF IInv, Types
<1>2. PartialIsPrefix
  BY <1>1, BeginningPrefix DEF PartialIsPrefix, Begun
<1>3. PromisedIsDurable
  BY DEF IInv, Promised, PromisedIsDurable, AllDurable
<1>4. StagingBounded
  <2>1. Units(part) \subseteq Footprint
    BY DEF Footprint
  <2>2. Cardinality(Units(part)) <= Cardinality(Footprint)
    BY <2>1, FootprintFinite, FS_Subset
  <2>3. Cardinality(Units(part)) \in Nat /\ Cardinality(Footprint) \in Nat
    BY FiniteFootprint, FootprintFinite
  <2>4. Staged = Cardinality(Units(part))
    BY DEF Staged, Units
  <2>5. ASSUME Budget # None PROVE Cardinality(Footprint) <= Budget /\ Budget \in Nat
    BY <2>5, SizeAssumption DEF IInv, Metered
  <2>6. QED
    BY <2>2, <2>3, <2>4, <2>5 DEF StagingBounded
<1>5. QED
  BY <1>2, <1>3, <1>4, IInvTypeOK DEF StagedIsSafe

-----------------------------------------------------------------------------
(* Appends that race, repeat, tear or arrive late leave each partial, cached*)
(* and durable, a beginning of the object; a promised offset stays durable  *)
(* until the whole object is; and all partials together stay within the     *)
(* staging budget (transfers.py:130-186, transfer_capacity.py), through     *)
(* crashes, power losses and expiry.                                        *)
THEOREM StagingIsSafe == Spec => []StagedIsSafe
<1>1. IInv => StagedIsSafe
  BY IInvStaged
<1>2. QED
  BY <1>1, IInvInit, IInvStep, PTL DEF Spec

(* A client is told "complete" only when every file of the object is        *)
(* durable, the recipe never precedes a chunk, and a client with an intact  *)
(* copy is never refused for good (transfers.py:89-186, chunks.py:47-74).   *)
THEOREM PublicationIsSafe == Spec => []PublishedIsSafe
<1>1. IInv => PublishedIsSafe
  BY DEF IInv, Durable, Answers, PublishedIsSafe
<1>2. QED
  BY <1>1, IInvInit, IInvStep, PTL DEF Spec

(* Decayed bytes are not published: when a file of the object gets a name,  *)
(* some partial holds the intact object (transfers.py:166-186).             *)
THEOREM OnlyIntactIsPublished == Spec => RotIsNotPublished
<1> DEFINE Published == \A i \in 1..Files : file[i] = "absent" /\ file'[i] = "linked" =>
                           \E pr \in Producer : part[pr] = Source
<1>1. ASSUME IInv, [Next]_vars PROVE Published
  <2> SUFFICES ASSUME NEW i \in 1..Files, file[i] = "absent", file'[i] = "linked"
               PROVE  \E pr \in Producer : part[pr] = Source
    OBVIOUS
  <2>0. Types /\ Compared /\ \A t \in Thread : Relies(th[t])
    BY <1>1 DEF IInv, Durable
  <2>1. ASSUME NEW t \in Thread, PublishLink(t) PROVE th[t].pr \in Producer /\ part[th[t].pr] = Source
    BY <2>0, <2>1 DEF PublishLink, Compared, Types, Busy
  <2>2. ASSUME NEW t \in Thread, StatusComplete(t), i = Files PROVE FALSE
    BY <2>0, <2>2 DEF StatusComplete, Relies, Completed
  <2>3. ASSUME NEW t \in Thread, PublishSync(t), th[t].at = i PROVE FALSE
    BY <2>0, <2>3 DEF PublishSync, Relies
  <2>4. QED
    BY <1>1, <2>0, <2>1, <2>2, <2>3, FileGrows DEF Types
<1>2. IInv /\ [Next]_vars => [Published]_vars
  BY <1>1
<1>3. QED
  BY <1>2, IInvInit, IInvStep, PTL DEF Spec, RotIsNotPublished

(* A partial is removed, other than by expiry or a power loss, only when    *)
(* the whole object is durable (transfers.py:89-128).                       *)
THEOREM DropsAreSafe == Spec => DropsOnlyDurable
<1> DEFINE Kept == \A pr \in Producer : part[pr] # <<>> /\ part'[pr] = <<>> /\ faults' = faults =>
                      \A i \in 1..Files : file[i] = "durable"
<1>1. ASSUME IInv, [Next]_vars PROVE Kept
  <2> SUFFICES ASSUME NEW pr \in Producer, part[pr] # <<>>, part'[pr] = <<>>, faults' = faults PROVE AllDurable
    BY DEF AllDurable
  <2>0. Types /\ Compared /\ Counted /\ \A t \in Thread : Relies(th[t])
    BY <1>1 DEF IInv, Durable
  <2>1. part' # part /\ part \in Partials
    BY <2>0 DEF Types, Begun
  <2>2. Len(part[pr]) \in 0..Total /\ Len(part[pr]) # 0
    BY <2>0, EmptyIffZero DEF Types, Begun
  <2>3. ASSUME NEW t \in Thread, AppendWrite(t) \/ AppendTorn(t) PROVE FALSE
    <3>1. PICK k \in 0..th[t].n :
                /\ Len(part[th[t].pr]) + k \in 0..Total
                /\ part' = [part EXCEPT ![th[t].pr] = Beginning(th[t].pr, Len(part[th[t].pr]) + k)]
      BY <2>0, <2>3, WriteFacts
    <3>2. th[t].pr = pr
      BY <2>1, <3>1
    <3>3. Len(part'[pr]) = Len(part[pr]) + k
      BY <2>1, <3>1, <3>2, BeginningFacts DEF Partials
    <3>4. k \in Nat
      BY <2>0, SizeAssumption DEF Types, TypeThreads, Requests
    <3>5. Len(<<>>) = 0
      OBVIOUS
    <3>6. QED
      BY <2>2, <3>3, <3>4, <3>5, SizeAssumption
  <2>4. ASSUME NEW t \in Thread, DropPartial(t) PROVE AllDurable
    BY <2>0, <2>4 DEF DropPartial, Relies
  <2>5. faults' # faults + 1
    BY <2>0 DEF Counted
  <2>6. QED
    BY <1>1, <2>1, <2>3, <2>4, <2>5
       DEF Next, Handle, vars, AskStatus, SendChunk, Request, Receive, Lose, Discard,
       StatusLook, StatusPending, StatusComplete, AppendLock, AppendCompleted,
       AppendConflict, AppendAdmit, AppendSync, PublishLink, PublishSync, DropSync, Expire,
       StopServer, Crash, PowerLoss
<1>2. IInv /\ [Next]_vars => [Kept]_vars
  BY <1>1
<1>3. QED
  BY <1>2, IInvInit, IInvStep, PTL DEF Spec, DropsOnlyDurable
-----------------------------------------------------------------------------
(* The lock file beside it, see TransferLock: a mutex for any number of     *)
(* processes and inodes. The inductive invariant says who owns which inode, *)
(* that the section is entered only through the named inode, and what an    *)
(* exclusive writer lease lets expiry assume between its scan and its       *)
(* unlinks.                                                                 *)
Locked(p) == pc[p] \in {"check", "held", "retire", "unlinkPart", "unlink"}

(* flock: an owner has the inode open, and past flock everyone owns his.    *)
OwnersOpen == \A i \in Inode : owner[i] # NoOne => fd[owner[i]] = i

LockedOwn == \A p \in Proc : Locked(p) => owner[fd[p]] = p

InsideNamed == \A p \in Proc : Inside(p) => path = fd[p]

(* Which calls reach which places, and with which lease. *)
LeaseExclusive ==
    \A p, q \in Proc : lease[p] = "exclusive" /\ p # q => lease[q] = "none"

CreatorsLeased ==
    \A p \in Proc : Creates(p) /\ pc[p] \in OpenPCs \cup {"open"} => lease[p] = "shared"

ExpiryLeased ==
    \A p \in Proc :
       /\ op[p] \in {"expirePart", "expireLock"} => lease[p] = "exclusive"
       /\ pc[p] = "scan" => op[p] = "expire" /\ lease[p] = "exclusive"
       /\ op[p] = "expire" => pc[p] \in {"lease", "scan", "return"}
       /\ pc[p] = "unlinkPart" => op[p] = "expirePart"
       /\ pc[p] \in {"held", "retire"} => ~Expiring(p)

UnlinkAfterPart == \A p \in Proc : pc[p] = "unlink" => ~partial

(* From its scan on, expiry of a partial relies on the partial and its lock *)
(* to stay; expiry of an orphan relies on nobody creating a new lock.       *)
PartExpiry ==
    \A p \in Proc :
       op[p] = "expirePart" /\ pc[p] \in {"open", "flock", "check", "unlinkPart"} =>
          partial /\ (fd[p] # NoOne => fd[p] = path)

LockExpiry ==
    \A p \in Proc :
       op[p] = "expireLock" /\ pc[p] \in {"open", "flock", "check", "unlink"} =>
          /\ ~partial
          /\ seen[p] # NoOne
          /\ path \in {NoOne, seen[p]}
          /\ fd[p] # NoOne => fd[p] = seen[p]

LeaseInv == LeaseExclusive /\ CreatorsLeased /\ ExpiryLeased

LockInv ==
    /\ OwnersOpen /\ LockedOwn /\ InsideNamed
    /\ PartialKeepsLock /\ UnlinkAfterPart /\ PartExpiry /\ LockExpiry

LockIInv == LockTypeOK /\ LeaseInv /\ LockInv

-----------------------------------------------------------------------------
(* The initial state satisfies every part of the invariant. *)
LEMMA LockIInvInit == LockInit => LockIInv
BY NoOneAssumption
   DEF LockInit, LockIInv, LockTypeOK, OpenPCs, PCs, Ops, Calls,
       LeaseInv, LeaseExclusive, CreatorsLeased, Creates, ExpiryLeased, Expiring,
       LockInv, OwnersOpen, LockedOwn, Locked, InsideNamed, Inside,
       PartialKeepsLock, UnlinkAfterPart, PartExpiry, LockExpiry

(* Every step keeps the types, and the descriptors where the code has them. *)
LEMMA TypeStep == LockTypeOK /\ [LockNext]_lockVars => LockTypeOK'
<1> SUFFICES ASSUME LockTypeOK, [LockNext]_lockVars PROVE LockTypeOK'
  OBVIOUS
<1> USE NoOneAssumption DEF LockTypeOK, OpenPCs, PCs, Ops, Calls,
       Creates, Expiring, LockGoto, CloseFd, EndCall
<1>1. ASSUME NEW p \in Proc, NEW k \in Calls, Start(p, k) PROVE LockTypeOK'
  BY <1>1 DEF Start
<1>2. ASSUME NEW p \in Proc, TakeSharedLease(p) PROVE LockTypeOK'
  BY <1>2 DEF TakeSharedLease
<1>3. ASSUME NEW p \in Proc, TakeExclusiveLease(p) PROVE LockTypeOK'
  BY <1>3 DEF TakeExclusiveLease
<1>4. ASSUME NEW p \in Proc, Scan(p) PROVE LockTypeOK'
  BY <1>4 DEF Scan
<1>5. ASSUME NEW p \in Proc, OpenExisting(p) PROVE LockTypeOK'
  BY <1>5 DEF OpenExisting
<1>6. ASSUME NEW p \in Proc, OpenCreate(p) PROVE LockTypeOK'
  BY <1>6 DEF OpenCreate
<1>7. ASSUME NEW p \in Proc, OpenAbsent(p) PROVE LockTypeOK'
  BY <1>7 DEF OpenAbsent
<1>8. ASSUME NEW p \in Proc, Flock(p) PROVE LockTypeOK'
  BY <1>8 DEF Flock
<1>9. ASSUME NEW p \in Proc, FlockBusy(p) PROVE LockTypeOK'
  BY <1>9 DEF FlockBusy
<1>10. ASSUME NEW p \in Proc, CheckSame(p) PROVE LockTypeOK'
  BY <1>10 DEF CheckSame
<1>11. ASSUME NEW p \in Proc, CheckRetired(p) PROVE LockTypeOK'
  BY <1>11 DEF CheckRetired
<1>12. ASSUME NEW p \in Proc, Body(p) PROVE LockTypeOK'
  BY <1>12 DEF Body
<1>13. ASSUME NEW p \in Proc, Retire(p) PROVE LockTypeOK'
  BY <1>13 DEF Retire
<1>14. ASSUME NEW p \in Proc, RecheckPart(p) PROVE LockTypeOK'
  BY <1>14 DEF RecheckPart
<1>15. ASSUME NEW p \in Proc, RecheckLock(p) PROVE LockTypeOK'
  BY <1>15 DEF RecheckLock
<1>16. ASSUME NEW p \in Proc, UnlinkPart(p) PROVE LockTypeOK'
  BY <1>16 DEF UnlinkPart
<1>17. ASSUME NEW p \in Proc, Unlink(p) PROVE LockTypeOK'
  BY <1>17 DEF Unlink
<1>18. ASSUME NEW p \in Proc, Close(p) PROVE LockTypeOK'
  BY <1>18 DEF Close
<1>19. ASSUME NEW p \in Proc, Return(p) PROVE LockTypeOK'
  BY <1>19 DEF Return
<1>20. ASSUME NEW p \in Proc, Die(p) PROVE LockTypeOK'
  BY <1>20 DEF Die
<1>21. CASE UNCHANGED lockVars
  BY <1>21 DEF lockVars
<1>22. QED
  BY <1>1, <1>2, <1>3, <1>4, <1>5, <1>6, <1>7, <1>8, <1>9, <1>10, <1>11, <1>12, <1>13, <1>14, <1>15, <1>16, <1>17, <1>18, <1>19, <1>20, <1>21
     DEF LockNext, Work

(* Every step keeps the discipline of .writers.lock: expiry is alone among  *)
(* the calls that may create a lock file or change a partial.               *)
LEMMA LeaseStep == LockTypeOK /\ LeaseInv /\ [LockNext]_lockVars => LeaseInv'
<1> SUFFICES ASSUME LockTypeOK, LeaseInv, [LockNext]_lockVars PROVE LeaseInv'
  OBVIOUS
<1> USE NoOneAssumption DEF LockTypeOK, OpenPCs, PCs, Ops, Calls,
       LeaseInv, LeaseExclusive, CreatorsLeased, Creates, ExpiryLeased, Expiring, LockGoto, CloseFd, EndCall
<1>1. ASSUME NEW p \in Proc, NEW k \in Calls, Start(p, k) PROVE LeaseInv'
  BY <1>1 DEF Start
<1>2. ASSUME NEW p \in Proc, TakeSharedLease(p) PROVE LeaseInv'
  BY <1>2 DEF TakeSharedLease
<1>3. ASSUME NEW p \in Proc, TakeExclusiveLease(p) PROVE LeaseInv'
  BY <1>3 DEF TakeExclusiveLease
<1>4. ASSUME NEW p \in Proc, Scan(p) PROVE LeaseInv'
  BY <1>4 DEF Scan
<1>5. ASSUME NEW p \in Proc, OpenExisting(p) PROVE LeaseInv'
  BY <1>5 DEF OpenExisting
<1>6. ASSUME NEW p \in Proc, OpenCreate(p) PROVE LeaseInv'
  BY <1>6 DEF OpenCreate
<1>7. ASSUME NEW p \in Proc, OpenAbsent(p) PROVE LeaseInv'
  BY <1>7 DEF OpenAbsent
<1>8. ASSUME NEW p \in Proc, Flock(p) PROVE LeaseInv'
  BY <1>8 DEF Flock
<1>9. ASSUME NEW p \in Proc, FlockBusy(p) PROVE LeaseInv'
  BY <1>9 DEF FlockBusy
<1>10. ASSUME NEW p \in Proc, CheckSame(p) PROVE LeaseInv'
  BY <1>10 DEF CheckSame
<1>11. ASSUME NEW p \in Proc, CheckRetired(p) PROVE LeaseInv'
  BY <1>11 DEF CheckRetired
<1>12. ASSUME NEW p \in Proc, Body(p) PROVE LeaseInv'
  BY <1>12 DEF Body
<1>13. ASSUME NEW p \in Proc, Retire(p) PROVE LeaseInv'
  BY <1>13 DEF Retire
<1>14. ASSUME NEW p \in Proc, RecheckPart(p) PROVE LeaseInv'
  BY <1>14 DEF RecheckPart
<1>15. ASSUME NEW p \in Proc, RecheckLock(p) PROVE LeaseInv'
  BY <1>15 DEF RecheckLock
<1>16. ASSUME NEW p \in Proc, UnlinkPart(p) PROVE LeaseInv'
  BY <1>16 DEF UnlinkPart
<1>17. ASSUME NEW p \in Proc, Unlink(p) PROVE LeaseInv'
  BY <1>17 DEF Unlink
<1>18. ASSUME NEW p \in Proc, Close(p) PROVE LeaseInv'
  BY <1>18 DEF Close
<1>19. ASSUME NEW p \in Proc, Return(p) PROVE LeaseInv'
  BY <1>19 DEF Return
<1>20. ASSUME NEW p \in Proc, Die(p) PROVE LeaseInv'
  BY <1>20 DEF Die
<1>21. CASE UNCHANGED lockVars
  BY <1>21 DEF lockVars
<1>22. QED
  BY <1>1, <1>2, <1>3, <1>4, <1>5, <1>6, <1>7, <1>8, <1>9, <1>10, <1>11, <1>12, <1>13, <1>14, <1>15, <1>16, <1>17, <1>18, <1>19, <1>20, <1>21
     DEF LockNext, Work

(* Every step keeps ownership and the name of the held inode. *)
LEMMA OwnershipStep == LockIInv /\ [LockNext]_lockVars => LockInv'
<1> SUFFICES ASSUME LockIInv, [LockNext]_lockVars PROVE LockInv'
  OBVIOUS
<1> USE NoOneAssumption DEF LockIInv, LockTypeOK, OpenPCs, PCs, Ops, Calls,
       LeaseInv, LeaseExclusive, CreatorsLeased, Creates, ExpiryLeased, Expiring,
       LockInv, OwnersOpen, LockedOwn, Locked, InsideNamed, Inside,
       PartialKeepsLock, UnlinkAfterPart, PartExpiry, LockExpiry, LockGoto, CloseFd, EndCall
<1>1. ASSUME NEW p \in Proc, NEW k \in Calls, Start(p, k) PROVE LockInv'
  BY <1>1 DEF Start
<1>2. ASSUME NEW p \in Proc, TakeSharedLease(p) PROVE LockInv'
  BY <1>2 DEF TakeSharedLease
<1>3. ASSUME NEW p \in Proc, TakeExclusiveLease(p) PROVE LockInv'
  BY <1>3 DEF TakeExclusiveLease
<1>4. ASSUME NEW p \in Proc, Scan(p) PROVE LockInv'
  BY <1>4 DEF Scan
<1>5. ASSUME NEW p \in Proc, OpenExisting(p) PROVE LockInv'
  BY <1>5 DEF OpenExisting
<1>6. ASSUME NEW p \in Proc, OpenCreate(p) PROVE LockInv'
  BY <1>6 DEF OpenCreate
<1>7. ASSUME NEW p \in Proc, OpenAbsent(p) PROVE LockInv'
  BY <1>7 DEF OpenAbsent
<1>8. ASSUME NEW p \in Proc, Flock(p) PROVE LockInv'
  BY <1>8 DEF Flock
<1>9. ASSUME NEW p \in Proc, FlockBusy(p) PROVE LockInv'
  BY <1>9 DEF FlockBusy
<1>10. ASSUME NEW p \in Proc, CheckSame(p) PROVE LockInv'
  BY <1>10 DEF CheckSame
<1>11. ASSUME NEW p \in Proc, CheckRetired(p) PROVE LockInv'
  BY <1>11 DEF CheckRetired
<1>12. ASSUME NEW p \in Proc, Body(p) PROVE LockInv'
  BY <1>12 DEF Body
<1>13. ASSUME NEW p \in Proc, Retire(p) PROVE LockInv'
  BY <1>13 DEF Retire
<1>14. ASSUME NEW p \in Proc, RecheckPart(p) PROVE LockInv'
  BY <1>14 DEF RecheckPart
<1>15. ASSUME NEW p \in Proc, RecheckLock(p) PROVE LockInv'
  BY <1>15 DEF RecheckLock
<1>16. ASSUME NEW p \in Proc, UnlinkPart(p) PROVE LockInv'
  BY <1>16 DEF UnlinkPart
<1>17. ASSUME NEW p \in Proc, Unlink(p) PROVE LockInv'
  BY <1>17 DEF Unlink
<1>18. ASSUME NEW p \in Proc, Close(p) PROVE LockInv'
  BY <1>18 DEF Close
<1>19. ASSUME NEW p \in Proc, Return(p) PROVE LockInv'
  BY <1>19 DEF Return
<1>20. ASSUME NEW p \in Proc, Die(p) PROVE LockInv'
  BY <1>20 DEF Die
<1>21. CASE UNCHANGED lockVars
  BY <1>21 DEF lockVars
<1>22. QED
  BY <1>1, <1>2, <1>3, <1>4, <1>5, <1>6, <1>7, <1>8, <1>9, <1>10, <1>11, <1>12, <1>13, <1>14, <1>15, <1>16, <1>17, <1>18, <1>19, <1>20, <1>21
     DEF LockNext, Work

LEMMA LockIInvStep == LockIInv /\ [LockNext]_lockVars => LockIInv'
BY TypeStep, LeaseStep, OwnershipStep DEF LockIInv

LEMMA LockInvariance == LockSpec => []LockIInv
BY LockIInvInit, LockIInvStep, PTL DEF LockSpec

-----------------------------------------------------------------------------
(* Every value of the constants: the variables keep their types and a       *)
(* descriptor is open exactly from os.open to os.close (transfers.py:22-50).*)
THEOREM LockTypeCorrect == LockSpec => []LockTypeOK
BY LockInvariance, PTL DEF LockIInv

(* Whoever is in the guarded section owns the flock of the inode the lock's *)
(* name refers to (transfers.py:33-41; for expiry, transfer_maintenance.py: *)
(* 114-134, which never makes that comparison for a partial).               *)
THEOREM HeldLockNamed == LockSpec => []HeldLockIsNamed
<1>1. LockIInv => HeldLockIsNamed
  BY NoOneAssumption
     DEF LockIInv, LockTypeOK, OpenPCs, LockInv, LockedOwn, Locked, InsideNamed, Inside, HeldLockIsNamed
<1>2. QED
  BY <1>1, LockInvariance, PTL

(* Two handlers are never in the section of one partial together, because   *)
(* both would own the same inode.                                           *)
THEOREM Exclusion == LockSpec => []MutualExclusion
<1>1. HeldLockIsNamed => MutualExclusion
  BY DEF HeldLockIsNamed, MutualExclusion
<1>2. QED
  BY <1>1, HeldLockNamed, PTL

(* A resumable partial keeps its lock file (transfers.py:43-46).            *)
THEOREM PartialLocked == LockSpec => []PartialKeepsLock
BY LockInvariance, PTL DEF LockIInv, LockInv

(* The lock's name is removed only by the owner of the inode it refers to.  *)
THEOREM OwnUnlink == LockSpec => NoForeignUnlink
<1> DEFINE Own == path # NoOne /\ path' # path =>
                    path' = NoOne /\ \E p \in Proc : owner[path] = p /\ pc[p] = "unlink"
<1>1. ASSUME LockIInv, [LockNext]_lockVars PROVE [Own]_lockVars
  <2> SUFFICES ASSUME path # NoOne, path' # path
               PROVE  path' = NoOne /\ \E p \in Proc : owner[path] = p /\ pc[p] = "unlink"
    OBVIOUS
  <2>1. PICK p \in Proc : OpenCreate(p) \/ Unlink(p)
    BY <1>1 DEF LockNext, Work, Start, TakeSharedLease, TakeExclusiveLease, Scan, OpenExisting,
           OpenAbsent, Flock, FlockBusy, CheckSame, CheckRetired, Body, Retire, RecheckPart,
           RecheckLock, UnlinkPart, Close, Return, Die, lockVars
  <2>2. Unlink(p)
    BY <2>1 DEF OpenCreate
  <2>3. owner[path] = p
    BY <1>1, <2>2 DEF LockIInv, LockInv, LockedOwn, Locked, InsideNamed, Inside, Unlink
  <2>4. QED
    BY <2>2, <2>3 DEF Unlink
<1>2. QED
  BY <1>1, LockInvariance, PTL DEF LockSpec, NoForeignUnlink

(* The lock file implements the mutex: each step enters the section alone,  *)
(* leaves it, or does not move anyone across its border.                    *)
THEOREM LockIsMutex == LockSpec => ImplementsMutex
<1>1. LockInit => Abstract!Init
  BY DEF LockInit, InsideSet, Inside, Abstract!Init
<1>2. ASSUME LockIInv, LockIInv', [LockNext]_lockVars PROVE [Abstract!Next]_InsideSet
  <2> SUFFICES ASSUME InsideSet' # InsideSet PROVE Abstract!Next
    OBVIOUS
  <2>1. \A p, q \in Proc : Inside(p)' /\ Inside(q)' => p = q
    BY <1>2 DEF LockIInv, LockInv, LockedOwn, Locked, InsideNamed, Inside
  <2>2. \A p, q \in Proc : Inside(p) /\ Inside(q) => p = q
    BY <1>2 DEF LockIInv, LockInv, LockedOwn, Locked, InsideNamed, Inside
  <2>3. PICK p \in Proc : \A q \in Proc \ {p} : pc'[q] = pc[q]
    <3>1. CASE UNCHANGED lockVars
      BY <3>1 DEF lockVars, InsideSet, Inside
    <3>2. ASSUME NEW p \in Proc, Work(p) \/ Die(p) \/ \E k \in Calls : Start(p, k)
          PROVE  \E label : LockGoto(p, label)
      BY <3>2 DEF EndCall, Work, Start, TakeSharedLease, TakeExclusiveLease, Scan,
             OpenExisting, OpenCreate, OpenAbsent, Flock, FlockBusy, CheckSame,
             CheckRetired, Body, Retire, RecheckPart, RecheckLock, UnlinkPart, Unlink,
             Close, Return, Die
    <3>3. ASSUME NEW p \in Proc, NEW label, LockGoto(p, label)
          PROVE  \A q \in Proc \ {p} : pc'[q] = pc[q]
      BY <1>2, <3>3 DEF LockIInv, LockTypeOK, LockGoto
    <3>4. QED
      BY <1>2, <3>1, <3>2, <3>3 DEF LockNext
  <2>4. \A q \in Proc \ {p} : Inside(q)' <=> Inside(q)
    BY <2>3 DEF Inside
  <2>5. CASE Inside(p)
    <3>1. ~Inside(p)'
      BY <2>4, <2>5 DEF InsideSet
    <3>2. InsideSet = {p} /\ InsideSet' = {}
      BY <2>2, <2>4, <2>5, <3>1 DEF InsideSet
    <3>3. QED
      BY <3>2 DEF Abstract!Next, Abstract!Leave
  <2>6. CASE ~Inside(p)
    <3>1. Inside(p)'
      BY <2>4, <2>6 DEF InsideSet
    <3>2. InsideSet = {} /\ InsideSet' = {p}
      BY <2>1, <2>4, <2>6, <3>1 DEF InsideSet
    <3>3. QED
      BY <3>2 DEF Abstract!Next, Abstract!Enter
  <2>7. QED
    BY <2>5, <2>6
<1>3. QED
  BY <1>1, <1>2, LockInvariance, PTL DEF LockSpec, ImplementsMutex, Abstract!Spec
=============================================================================
