-------------------------- MODULE PerceptionLogProofs --------------------------
(***************************************************************************)
(* Theorems about PerceptionLog, for every set of channels and every bound. *)
(*                                                                         *)
(* NothingForgotten is not inductive: that a truncation forgets nobody     *)
(* needs to know that a line it removes is of the drained batch or older   *)
(* (Order), that the batch is served by then (Shape), that every line is   *)
(* waiting, finished or stranded (Accounted), and that what is finished is *)
(* saved when the truncation runs (SavedAtCommit, SavedIsKnown).           *)
(*                                                                         *)
(* Serving once and in order needs the numbers of the lines (Numbered),    *)
(* which processes a line has been before (RanBefore, Known), that a turn  *)
(* takes all its channel has (WholeBuckets), and that nothing saved is     *)
(* left on record where nothing failed (Tidy).  The last part maps the     *)
(* log's steps to Delivery's, one lemma per action.                        *)
(***************************************************************************)
EXTENDS PerceptionLog, SequenceTheorems, TLAPS

-----------------------------------------------------------------------------
(* What the sequence operators do to the set of a sequence's elements.     *)

\* The elements of a sequence over S are in S.
LEMMA ElemsType ==
    ASSUME NEW S, NEW s \in Seq(S)
    PROVE  Elems(s) \subseteq S
BY ElementOfSeq DEF Elems

\* Append adds its element and keeps the others.
LEMMA ElemsAppend ==
    ASSUME NEW S, NEW s \in Seq(S), NEW e \in S
    PROVE  Elems(Append(s, e)) = Elems(s) \union {e}
<1>1. DOMAIN Append(s, e) = 1..(Len(s) + 1) /\ DOMAIN s = 1..Len(s)
  BY AppendProperties, LenProperties
<1>2. \A i \in 1..Len(s) : Append(s, e)[i] = s[i]
  BY AppendProperties
<1>3. Append(s, e)[Len(s) + 1] = e
  BY AppendProperties
<1>4. Len(s) \in Nat
  BY LenProperties
<1>5. \A i \in 1..(Len(s) + 1) : i \in 1..Len(s) \/ i = Len(s) + 1
  BY <1>4
<1>6. 1..Len(s) \subseteq 1..(Len(s) + 1) /\ Len(s) + 1 \in 1..(Len(s) + 1)
  BY <1>4
<1>7. QED
  BY <1>1, <1>2, <1>3, <1>5, <1>6 DEF Elems

\* Tail keeps nothing that was not there.
LEMMA ElemsTail ==
    ASSUME NEW S, NEW s \in Seq(S), s # <<>>
    PROVE  /\ Tail(s) \in Seq(S)
           /\ Elems(Tail(s)) \subseteq Elems(s)
<1>1. /\ Tail(s) \in Seq(S) /\ Len(Tail(s)) = Len(s) - 1
      /\ \A i \in 1..Len(Tail(s)) : Tail(s)[i] = s[i + 1]
  BY HeadTailProperties
<1>2. DOMAIN Tail(s) = 1..Len(Tail(s)) /\ DOMAIN s = 1..Len(s) /\ Len(s) \in Nat
  BY <1>1, LenProperties
<1>3. \A i \in 1..Len(Tail(s)) : i + 1 \in 1..Len(s)
  BY <1>1, <1>2
<1>4. QED
  BY <1>1, <1>2, <1>3 DEF Elems

\* A truncation leaves a log of entries, namely those above its bound.
LEMMA Truncation ==
    ASSUME log \in Seq(Entry), NEW m \in Nat, TruncateThrough(m)
    PROVE  /\ log' \in Seq(Entry)
           /\ Elems(log)' = {e \in Elems(log) : e.seq > m}
           /\ torn' = FALSE
<1>1. PICK k \in 0..Len(log) :
        /\ \A i \in 1..k : log[i].seq <= m
        /\ \A i \in (k+1)..Len(log) : log[i].seq > m
        /\ log' = SubSeq(log, k + 1, Len(log))
        /\ torn' = FALSE
  BY DEF TruncateThrough
<1>2. Len(log) \in Nat /\ DOMAIN log = 1..Len(log) /\ k \in Nat /\ k <= Len(log)
  BY LenProperties
<1>3. \A i \in 1..Len(log) : log[i] \in Entry
  BY ElementOfSeq
<1>4. \A i \in (k+1)..Len(log) : i \in 1..Len(log)
  BY <1>2
<1>5. /\ log' \in Seq(Entry)
      /\ Len(log') = IF k + 1 <= Len(log) THEN Len(log) - (k + 1) + 1 ELSE 0
      /\ \A i \in 1..(Len(log) - (k + 1) + 1) : log'[i] = log[(k + 1) + i - 1]
  <2>1. k + 1 \in Int /\ Len(log) \in Int
    BY <1>2
  <2>2. QED
    BY <2>1, <1>1, <1>3, <1>4, SubSeqProperties
<1>0. Len(log) - (k + 1) + 1 = Len(log) - k
  BY <1>2
<1>6. DOMAIN log' = 1..(Len(log) - k)
  <2>1. DOMAIN log' = 1..Len(log')
    BY <1>5, LenProperties
  <2>2. CASE k + 1 <= Len(log)
    BY <1>0, <1>5, <2>1, <2>2
  <2>3. CASE ~(k + 1 <= Len(log))
    <3>1. Len(log) = k
      <4>1. Len(log) \in Nat /\ k \in Nat /\ k <= Len(log) /\ ~(k + 1 <= Len(log))
        BY <1>2, <2>3
      <4>2. QED
        BY <4>1
    <3>2. 1..0 = 1..(Len(log) - k)
      BY <1>2, <3>1, SMTT(30)
    <3>3. QED
      BY <1>5, <2>1, <2>3, <3>2
  <2>4. QED
    BY <2>2, <2>3
<1>7. \A i \in 1..(Len(log) - k) : log'[i] = log[k + i] /\ k + i \in (k+1)..Len(log)
  <2>1. \A i \in 1..(Len(log) - k) : (k + 1) + i - 1 = k + i /\ k + i \in (k+1)..Len(log)
    BY <1>2
  <2>2. QED
    BY <1>0, <1>5, <2>1
<1>8. Elems(log)' = {log[i] : i \in (k+1)..Len(log)}
  <2>1. \A j \in (k+1)..Len(log) : j - k \in 1..(Len(log) - k) /\ log'[j - k] = log[j]
    BY <1>2, <1>7
  <2>2. Elems(log)' = {log'[i] : i \in 1..(Len(log) - k)}
    BY <1>6 DEF Elems
  <2>3. QED
    BY <2>1, <2>2, <1>7, SMTT(30)
<1>9. \A i \in 1..Len(log) : log[i].seq > m <=> i \in (k+1)..Len(log)
  <2>1. \A i \in 1..Len(log) : i \in 1..k \/ i \in (k+1)..Len(log)
    BY <1>2
  <2>2. \A i \in 1..Len(log) : log[i].seq \in Nat
    BY <1>3 DEF Entry
  <2>3. QED
    BY <2>1, <2>2, <1>1
<1>10. QED
  BY <1>1, <1>2, <1>4, <1>5, <1>8, <1>9, ZenonT(30) DEF Elems

-----------------------------------------------------------------------------
(* Type correctness.                                                       *)

LEMMA InitTypeOK == Init => TypeOK
<1> SUFFICES ASSUME Init PROVE TypeOK
  OBVIOUS
<1>1. <<>> \in Seq(Entry) /\ DOMAIN <<>> = {}
  BY EmptySeq
<1>2. 0 \in 0..MaxArrivals
  BY BoundsAssumption
<1>3. QED
  BY <1>1, <1>2 DEF Init, TypeOK

LEMMA BucketIsWaiting == Bucket \subseteq Waiting /\ Waiting \subseteq DOMAIN batch
BY DEF Bucket, Waiting

\* The drained entries and their ids are in range.
LEMMA BatchEntries ==
    ASSUME TypeOK
    PROVE  /\ \A i \in DOMAIN batch : batch[i] \in Entry /\ batch[i].id \in Ids
           /\ BucketIds \subseteq Ids
<1>1. \A i \in DOMAIN batch : batch[i] \in Entry
  BY ElementOfSeq, LenProperties DEF TypeOK
<1>2. QED
  BY <1>1, BucketIsWaiting DEF BucketIds, Entry

LEMMA EndTurnType ==
    ASSUME TypeOK, EndTurn, UNCHANGED batch
    PROVE  /\ done' \subseteq DOMAIN batch' /\ mem' \subseteq Ids
           /\ ran' \subseteq Entry /\ loop' \in {"turns", "commit"}
BY BucketIsWaiting, BatchEntries DEF TypeOK, EndTurn, Waiting

\* A failing step counts one fault.
LEMMA FaultType ==
    ASSUME TypeOK, Fault
    PROVE  faults' \in Nat /\ crashes' \in Nat
BY DEF TypeOK, Fault

\* Every step keeps every variable in its type.
LEMMA NextTypeOK == TypeOK /\ [Next]_vars => TypeOK'
<1> USE DEF TypeOK
<1> SUFFICES ASSUME TypeOK, [Next]_vars PROVE TypeOK'
  OBVIOUS
<1>1. ASSUME NEW c \in Channels, Put(c) PROVE TypeOK'
  <2> DEFINE e == [id |-> arrivals + 1, seq |-> nextSeq, ch |-> c]
  <2>1. e \in Entry /\ arrivals' \in 0..MaxArrivals /\ e.id \in Ids /\ nextSeq' \in Nat
    <3>1. arrivals + 1 \in 1..MaxArrivals /\ arrivals' \in 0..MaxArrivals
      BY <1>1, BoundsAssumption DEF Put
    <3>2. QED
      BY <1>1, <3>1 DEF Put, Entry, Ids
  <2>2. Append(log, e) \in Seq(Entry) /\ Append(queue, e) \in Seq(Entry)
    BY <2>1, AppendProperties
  <2>3. log' \in Seq(Entry) /\ queue' \in Seq(Entry) /\ exposed' \subseteq Ids
    BY <1>1, <2>1, <2>2 DEF Put
  <2>4. QED
    BY <1>1, <2>1, <2>3 DEF Put, budget, MayInterleave
<1>2. ASSUME NEW partial \in BOOLEAN, PutFails(partial) PROVE TypeOK'
  <2>1. nextSeq' \in Nat /\ torn' \in BOOLEAN /\ faults' \in Nat /\ crashes' \in Nat
    BY <1>2, FaultType DEF PutFails
  <2>2. QED
    BY <1>2, <2>1 DEF PutFails
<1>3. CASE Drain
  BY <1>3, EmptySeq DEF Drain, file, history, budget
<1>4. CASE DrainStops
  <2>1. queue' \in Seq(Entry)
    BY <1>4, ElemsTail DEF DrainStops
  <2>2. QED
    BY <1>4, <2>1 DEF DrainStops, file, history, budget
<1>5. CASE TurnSaved
  BY <1>5, EndTurnType DEF TurnSaved, budget
<1>6. CASE TurnSaveFails
  <2>1. faults' \in Nat /\ crashes' \in Nat
    BY <1>6, FaultType DEF TurnSaveFails
  <2>2. QED
    BY <1>6, <2>1, EndTurnType DEF TurnSaveFails, file
<1>7. CASE TurnRaises
  <2>1. stranded' \subseteq Ids
    BY <1>7, BatchEntries, BucketIsWaiting DEF TurnRaises
  <2>2. faults' \in Nat /\ crashes' \in Nat
    BY <1>7, FaultType DEF TurnRaises
  <2>3. QED
    BY <1>7, <2>1, <2>2, EmptySeq DEF TurnRaises, file, NextLoop
<1>8. CASE Commit
  <2>1. log' \in Seq(Entry) /\ torn' \in BOOLEAN
    <3>1. CASE allSaved
      <4>1. PICK last \in DOMAIN batch : TruncateThrough(batch[last].seq)
        BY <1>8, <3>1 DEF Commit
      <4>2. batch[last].seq \in Nat
        BY BatchEntries DEF Entry
      <4>3. QED
        BY <4>1, <4>2, Truncation
    <3>2. CASE ~allSaved
      BY <1>8, <3>2 DEF Commit
    <3>3. QED
      BY <3>1, <3>2
  <2>2. QED
    BY <1>8, <2>1, EmptySeq DEF Commit, Iterated, history, budget, NextLoop
<1>9. CASE CommitFails
  <2>1. faults' \in Nat /\ crashes' \in Nat
    BY <1>9, FaultType DEF CommitFails
  <2>2. QED
    BY <1>9, <2>1, EmptySeq DEF CommitFails, Iterated, file, NextLoop
<1>10. CASE RequestStop
  BY <1>10 DEF RequestStop, file, history, budget
<1>11. CASE Exit
  BY <1>11 DEF Exit, file, history, budget
<1>12. CASE Crash
  <2>1. crashes' \in Nat /\ alive' = FALSE /\ tidy' = FALSE
    BY <1>12 DEF Crash
  <2>2. QED
    BY <1>12, <2>1 DEF Crash, file
<1>13. CASE Boot
  <2>1. nextSeq' \in Nat
    <3>1. \A i \in DOMAIN log : log[i] \in Entry
      BY ElementOfSeq, LenProperties
    <3>2. \A i \in DOMAIN log : log[i].seq \in Nat
      BY <3>1 DEF Entry
    <3>3. QED
      BY <1>13, <3>2 DEF Boot
  <2>2. QED
    BY <1>13, <2>1, EmptySeq DEF Boot, file, budget
<1>14. CASE UNCHANGED vars
  BY <1>14 DEF vars
<1>15. QED
  BY <1>1, <1>2, <1>3, <1>4, <1>5, <1>6, <1>7, <1>8, <1>9, <1>10, <1>11,
     <1>12, <1>13, <1>14 DEF Next

\* Type correctness: whatever is put, drained, saved, failed, crashed or
\* booted, every variable of the queue, the log and the loop has its type.
THEOREM TypeCorrect == Spec => []TypeOK
BY InitTypeOK, NextTypeOK, PTL DEF Spec

-----------------------------------------------------------------------------
(* The inductive invariant behind NothingForgotten and UnservedIsLogged.   *)

\* What is queued was numbered after what is drained.
Order ==
    /\ \A e \in Elems(queue) : e.seq < nextSeq
    /\ \A b \in Elems(batch) : b.seq < nextSeq
    /\ \A e \in Elems(queue), b \in Elems(batch) : b.seq < e.seq

\* Outside iterate() there is no batch; at the truncation it is served.
Shape ==
    /\ loop \in {"drain", "ended"} => batch = <<>>
    /\ loop = "commit" => done = DOMAIN batch

\* Every line of the log has a reason to be there.
Accounted ==
    (alive /\ loop # "ended") =>
        \A e \in Elems(log) : e \in Unserved \/ e.id \in mem \/ e.id \in stranded

SavedAtCommit == (alive /\ loop = "commit" /\ allSaved) => disk = mem
SavedIsKnown  == alive => disk \subseteq mem

IInv == /\ TypeOK /\ Order /\ Shape /\ Accounted /\ SavedAtCommit /\ SavedIsKnown
        /\ NothingForgotten /\ UnservedIsLogged

\* Entries are numbered.
LEMMA EntriesAreNumbered ==
    ASSUME TypeOK
    PROVE  \A e \in Elems(log) \union Elems(queue) \union Elems(batch) :
              e \in Entry /\ e.seq \in Nat
<1>1. /\ Elems(log) \subseteq Entry /\ Elems(queue) \subseteq Entry
      /\ Elems(batch) \subseteq Entry
  BY ElemsType DEF TypeOK
<1>2. QED
  BY <1>1 DEF Entry

LEMMA InitIInv == Init => IInv
<1> SUFFICES ASSUME Init PROVE IInv
  OBVIOUS
<1>1. TypeOK
  BY InitTypeOK
<1>2. Elems(log) = {} /\ Elems(queue) = {} /\ Elems(batch) = {} /\ Unserved = {}
  BY EmptySeq DEF Init, Elems, Unserved, Waiting
<1>3. 1..arrivals = {}
  BY DEF Init
<1>4. QED
  BY <1>1, <1>2, <1>3 DEF IInv, Order, Shape, Accounted, SavedAtCommit,
     SavedIsKnown, NothingForgotten, UnservedIsLogged, Init

\* A step that changes neither the log, the queue, the batch nor what is
\* saved keeps the invariant if it leaves the loop where it is or ends it.
LEMMA QuietStep ==
    ASSUME IInv, TypeOK',
           UNCHANGED <<log, disk, queue, batch, done, mem, arrivals, stranded, exposed>>,
           nextSeq' \in Nat, nextSeq' >= nextSeq,
           allSaved' = allSaved, loop' = loop, alive' => alive
    PROVE  IInv'
<1>1. /\ Elems(queue)' = Elems(queue) /\ Elems(batch)' = Elems(batch)
      /\ Elems(log)' = Elems(log) /\ Unserved' = Unserved /\ Logged' = Logged
  BY DEF Elems, Unserved, Waiting, Logged, IdsOf
<1>2. Order'
  <2>1. \A e \in Elems(queue) \union Elems(batch) : e.seq \in Nat
    BY EntriesAreNumbered DEF IInv
  <2>2. nextSeq \in Nat
    BY DEF IInv, TypeOK
  <2>3. \A e \in Elems(queue) \union Elems(batch) : e.seq < nextSeq'
    BY <2>1, <2>2 DEF IInv, Order
  <2>4. QED
    BY <1>1, <2>3 DEF IInv, Order
<1>3. Shape' /\ Accounted' /\ SavedAtCommit' /\ SavedIsKnown'
  BY <1>1 DEF IInv, Shape, Accounted, SavedAtCommit, SavedIsKnown
<1>4. NothingForgotten' /\ UnservedIsLogged'
  BY <1>1 DEF IInv, NothingForgotten, UnservedIsLogged
<1>5. QED
  BY <1>2, <1>3, <1>4 DEF IInv

\* An accepted perception is numbered after all others and covered at once.
LEMMA PutKeeps ==
    ASSUME IInv, TypeOK', NEW c \in Channels, Put(c)
    PROVE  IInv'
<1> DEFINE e == [id |-> arrivals + 1, seq |-> nextSeq, ch |-> c]
<1>1. e \in Entry /\ e.id = arrivals + 1 /\ e.seq = nextSeq /\ nextSeq \in Nat
  <2>1. arrivals + 1 \in 1..MaxArrivals
    BY BoundsAssumption DEF IInv, TypeOK, Put
  <2>2. QED
    BY <2>1 DEF IInv, TypeOK, Entry, Ids
<1>2. /\ Elems(queue)' = Elems(queue) \union {e}
      /\ Elems(batch)' = Elems(batch)
      /\ Unserved' = Unserved \union {e}
  <2>1. Elems(queue)' = Elems(queue) \union {e}
    BY <1>1, ElemsAppend DEF IInv, TypeOK, Put
  <2>2. QED
    BY <2>1 DEF Put, Elems, Unserved, Waiting
<1>3. /\ Elems(log) \subseteq Elems(log)'
      /\ Elems(log)' \subseteq Elems(log) \union {e}
      /\ e \in Elems(log)' \/ e.id \in exposed'
      /\ exposed \subseteq exposed'
  <2>1. CASE torn
    BY <2>1 DEF Put, Elems
  <2>2. CASE ~torn
    <3>1. Elems(log)' = Elems(log) \union {e}
      BY <2>2, <1>1, ElemsAppend DEF IInv, TypeOK, Put
    <3>2. QED
      BY <2>2, <3>1 DEF Put
  <2>3. QED
    BY <2>1, <2>2
<1>4. /\ UNCHANGED <<disk, batch, done, allSaved, mem, loop, alive, stranded>>
      /\ nextSeq' = nextSeq + 1 /\ arrivals' = arrivals + 1
  BY DEF Put
<1>5. Order'
  <2>1. \A x \in Elems(queue) \union Elems(batch) : x.seq \in Nat
    BY EntriesAreNumbered DEF IInv
  <2>2. \A x \in Elems(queue) \union Elems(batch) : x.seq < nextSeq /\ x.seq < nextSeq + 1
    BY <1>1, <2>1 DEF IInv, Order
  <2>3. nextSeq < nextSeq + 1
    BY <1>1
  <2>4. QED
    BY <1>1, <1>2, <1>4, <2>2, <2>3 DEF IInv, Order
<1>6. Shape' /\ SavedAtCommit' /\ SavedIsKnown'
  BY <1>4 DEF IInv, Shape, SavedAtCommit, SavedIsKnown
<1>7. Accounted' /\ UnservedIsLogged'
  BY <1>2, <1>3, <1>4 DEF IInv, Accounted, UnservedIsLogged
<1>8. NothingForgotten'
  <2>1. \A p \in 1..(arrivals + 1) : p \in 1..arrivals \/ p = e.id
    BY <1>1 DEF IInv, TypeOK
  <2>2. Logged \subseteq Logged' /\ (e.id \in Logged' \/ e.id \in exposed')
    BY <1>3 DEF Logged, IdsOf
  <2>3. QED
    BY <1>3, <1>4, <2>1, <2>2 DEF IInv, NothingForgotten
<1>9. QED
  BY <1>5, <1>6, <1>7, <1>8 DEF IInv

\* Draining moves what waits from the queue to the batch.
LEMMA DrainKeeps ==
    ASSUME IInv, TypeOK', Drain
    PROVE  IInv'
<1>1. batch = <<>>
  BY DEF IInv, Shape, Drain
<1>2. /\ Elems(queue)' = {} /\ Elems(batch)' = Elems(queue)
      /\ Unserved' = Unserved /\ Elems(log)' = Elems(log) /\ Logged' = Logged
  BY <1>1, EmptySeq DEF Drain, file, Elems, Unserved, Waiting, Logged, IdsOf
<1>3. /\ UNCHANGED <<log, disk, nextSeq, mem, alive, arrivals, stranded, exposed>>
      /\ loop = "drain" /\ loop' = "turns"
  BY DEF Drain, file, history
<1>4. QED
  BY <1>2, <1>3 DEF IInv, Order, Shape, Accounted, SavedAtCommit, SavedIsKnown,
     NothingForgotten, UnservedIsLogged

\* A stopping drain may drop one perception, whose line stays.
LEMMA DrainStopsKeeps ==
    ASSUME IInv, TypeOK', DrainStops
    PROVE  IInv'
<1>1. Elems(queue)' \subseteq Elems(queue)
  <2>1. CASE queue' = queue
    BY <2>1 DEF Elems
  <2>2. CASE queue # <<>> /\ queue' = Tail(queue)
    BY <2>2, ElemsTail DEF IInv, TypeOK
  <2>3. QED
    BY <2>1, <2>2 DEF DrainStops
<1>2. /\ UNCHANGED <<log, disk, nextSeq, mem, alive, batch, done, arrivals, stranded, exposed>>
      /\ loop = "drain" /\ loop' = "ended"
  BY DEF DrainStops, file, history
<1>3. /\ Unserved' \subseteq Unserved /\ Elems(log)' = Elems(log) /\ Logged' = Logged
      /\ Elems(batch)' = Elems(batch)
  BY <1>1, <1>2 DEF Unserved, Waiting, Elems, Logged, IdsOf
<1>4. QED
  BY <1>1, <1>2, <1>3 DEF IInv, Order, Shape, Accounted, SavedAtCommit, SavedIsKnown,
     NothingForgotten, UnservedIsLogged

\* A finished turn moves its bucket from the batch to the state, saved or not.
LEMMA EndTurnKeeps ==
    ASSUME IInv, TypeOK', InTurn, EndTurn,
           UNCHANGED <<log, nextSeq, queue, batch, alive, arrivals, stranded, exposed>>,
           \/ disk' = mem'
           \/ disk' = disk /\ allSaved' = FALSE
    PROVE  IInv'
<1>1. /\ Elems(queue)' = Elems(queue) /\ Elems(batch)' = Elems(batch)
      /\ Elems(log)' = Elems(log) /\ Logged' = Logged
  BY DEF Elems, Logged, IdsOf
<1>2. alive /\ loop = "turns" /\ disk \subseteq mem /\ mem \subseteq mem'
  BY DEF InTurn, EndTurn, IInv, SavedIsKnown
<1>3. /\ Unserved' \subseteq Unserved
      /\ \A e \in Unserved : e \in Unserved' \/ e.id \in mem'
  <2>1. Waiting' = Waiting \ Bucket
    BY DEF Waiting, EndTurn
  <2>2. \A i \in Bucket : batch[i].id \in mem'
    BY DEF EndTurn, BucketIds
  <2>3. QED
    BY <2>1, <2>2, <1>1 DEF Unserved
<1>4. Accounted' /\ UnservedIsLogged'
  BY <1>1, <1>2, <1>3 DEF IInv, Accounted, UnservedIsLogged, EndTurn
<1>5. Shape' /\ SavedAtCommit' /\ SavedIsKnown'
  BY <1>2 DEF IInv, Shape, SavedAtCommit, SavedIsKnown, EndTurn
<1>6. Order' /\ NothingForgotten'
  BY <1>1, <1>2 DEF IInv, Order, NothingForgotten
<1>7. QED
  BY <1>4, <1>5, <1>6 DEF IInv

\* A raising turn turns what still waits into stranded perceptions.
LEMMA TurnRaisesKeeps ==
    ASSUME IInv, TypeOK', TurnRaises
    PROVE  IInv'
<1>1. /\ UNCHANGED <<log, disk, nextSeq, queue, mem, alive, arrivals, exposed>>
      /\ batch' = <<>> /\ loop = "turns" /\ loop' \in {"drain", "ended"}
      /\ stranded \subseteq stranded'
      /\ \A i \in Waiting : batch[i].id \in stranded'
  BY DEF TurnRaises, InTurn, NextLoop, file
<1>2. /\ Elems(queue)' = Elems(queue) /\ Elems(batch)' = {}
      /\ Elems(log)' = Elems(log) /\ Logged' = Logged
  BY <1>1, EmptySeq DEF Elems, Logged, IdsOf
<1>3. Unserved' = Elems(queue)
  BY <1>1, <1>2, EmptySeq DEF Unserved, Waiting
<1>4. \A e \in Unserved : e \in Unserved' \/ e.id \in stranded'
  BY <1>1, <1>3 DEF Unserved
<1>5. Unserved' \subseteq Unserved
  BY <1>3 DEF Unserved
<1>6. Accounted' /\ UnservedIsLogged' /\ NothingForgotten'
  BY <1>1, <1>2, <1>4, <1>5 DEF IInv, Accounted, UnservedIsLogged, NothingForgotten
<1>7. Order' /\ Shape' /\ SavedAtCommit' /\ SavedIsKnown'
  BY <1>1, <1>2 DEF IInv, Order, Shape, SavedAtCommit, SavedIsKnown
<1>8. QED
  BY <1>6, <1>7 DEF IInv

\* Ending an iteration without touching the log keeps the invariant.
LEMMA IteratedKeeps ==
    ASSUME IInv, TypeOK', Iterated, loop = "commit",
           UNCHANGED <<disk, nextSeq, queue, mem, alive, arrivals, stranded, exposed>>,
           Elems(log)' \subseteq Elems(log),
           \A e \in Elems(log) : e \in Elems(log)' \/ (e \notin Elems(queue)),
           Elems(log)' = Elems(log) \/ disk = mem,
           alive
    PROVE  IInv'
<1>1. /\ Elems(queue)' = Elems(queue) /\ Elems(batch)' = {} /\ batch' = <<>>
      /\ loop' \in {"drain", "ended"}
  BY EmptySeq DEF Elems, Iterated, NextLoop
<1>2. Unserved = Elems(queue) /\ Unserved' = Elems(queue)
  <2>1. Waiting = {} /\ Waiting' = {}
    BY EmptySeq DEF Waiting, Iterated, IInv, Shape
  <2>2. QED
    BY <2>1, <1>1 DEF Unserved
<1>3. Accounted' /\ UnservedIsLogged'
  BY <1>1, <1>2 DEF IInv, Accounted, UnservedIsLogged
<1>4. Order' /\ Shape' /\ SavedAtCommit' /\ SavedIsKnown'
  BY <1>1 DEF IInv, Order, Shape, SavedAtCommit, SavedIsKnown
<1>5. NothingForgotten'
  <2>1. CASE Elems(log)' = Elems(log)
    BY <2>1 DEF IInv, NothingForgotten, Logged, IdsOf
  <2>2. CASE disk = mem
    <3>1. \A e \in Elems(log) : e \in Elems(log)' \/ e.id \in disk \/ e.id \in stranded
      BY <2>2, <1>2 DEF IInv, Accounted
    <3>2. Logged \subseteq Logged' \union disk \union stranded
      BY <3>1 DEF Logged, IdsOf
    <3>3. QED
      BY <3>2 DEF IInv, NothingForgotten
  <2>3. QED
    BY <2>1, <2>2
<1>6. QED
  BY <1>3, <1>4, <1>5 DEF IInv

\* The truncation removes lines of the batch and older ones only.
LEMMA CommitKeeps ==
    ASSUME IInv, TypeOK', Commit
    PROVE  IInv'
<1>1. /\ UNCHANGED <<disk, nextSeq, queue, mem, alive, arrivals, stranded, exposed>>
      /\ Iterated /\ loop = "commit" /\ alive
  BY DEF Commit, history
<1>2. CASE allSaved
  <2>1. PICK last \in DOMAIN batch : TruncateThrough(batch[last].seq)
    BY <1>2 DEF Commit
  <2>2. batch[last] \in Elems(batch) /\ batch[last].seq \in Nat
    BY EntriesAreNumbered DEF IInv, Elems
  <2>3. Elems(log)' = {e \in Elems(log) : e.seq > batch[last].seq}
    BY <2>1, <2>2, Truncation DEF IInv, TypeOK
  <2>4. \A e \in Elems(queue) : e.seq > batch[last].seq
    BY <2>2, EntriesAreNumbered DEF IInv, Order
  <2>5. disk = mem
    BY <1>1, <1>2 DEF IInv, SavedAtCommit
  <2>6. QED
    BY <1>1, <2>3, <2>4, <2>5, IteratedKeeps
<1>3. CASE ~allSaved
  <2>1. log' = log
    BY <1>3 DEF Commit
  <2>2. Elems(log)' = Elems(log)
    BY <2>1 DEF Elems
  <2>3. QED
    BY <1>1, <2>2, IteratedKeeps
<1>4. QED
  BY <1>2, <1>3 DEF IInv, TypeOK

\* A failed rewrite leaves the log as it is.
LEMMA CommitFailsKeeps ==
    ASSUME IInv, TypeOK', CommitFails
    PROVE  IInv'
<1>1. /\ UNCHANGED <<log, disk, nextSeq, queue, mem, alive, arrivals, stranded, exposed>>
      /\ Iterated /\ loop = "commit" /\ alive
  BY DEF CommitFails, file
<1>2. Elems(log)' = Elems(log)
  BY <1>1 DEF Elems
<1>3. QED
  BY <1>1, <1>2, IteratedKeeps

\* A new process queues every line of the log.
LEMMA BootKeeps ==
    ASSUME IInv, TypeOK', Boot
    PROVE  IInv'
<1>1. /\ UNCHANGED <<log, disk, arrivals, exposed>>
      /\ mem' = disk /\ queue' = log /\ batch' = <<>> /\ loop' = "drain"
      /\ stranded' = stranded \ Logged
  BY DEF Boot, file
<1>2. /\ Elems(log)' = Elems(log) /\ Elems(queue)' = Elems(log) /\ Elems(batch)' = {}
      /\ Logged' = Logged /\ Elems(log)' \subseteq Unserved'
      /\ Unserved' \subseteq Elems(log)'
  BY <1>1, EmptySeq DEF Elems, Logged, IdsOf, Unserved, Waiting
<1>3. Order'
  <2>1. \A e \in Elems(log) : e.seq < nextSeq'
    <3>1. CASE log = <<>>
      BY <3>1, EmptySeq DEF Elems
    <3>2. CASE \E i \in DOMAIN log : /\ \A j \in DOMAIN log : log[j].seq <= log[i].seq
                                     /\ nextSeq' = log[i].seq + 1
      <4>1. PICK i \in DOMAIN log : /\ \A j \in DOMAIN log : log[j].seq <= log[i].seq
                                    /\ nextSeq' = log[i].seq + 1
        BY <3>2
      <4>2. \A j \in DOMAIN log : log[j].seq \in Nat
        BY EntriesAreNumbered DEF IInv, Elems
      <4>3. \A j \in DOMAIN log : log[j].seq < nextSeq'
        BY <4>1, <4>2
      <4>4. QED
        BY <4>3 DEF Elems
    <3>3. QED
      BY <3>1, <3>2 DEF Boot
  <2>2. QED
    BY <1>2, <2>1 DEF Order
<1>4. Shape' /\ Accounted' /\ SavedAtCommit' /\ SavedIsKnown' /\ UnservedIsLogged'
  BY <1>1, <1>2 DEF Shape, Accounted, SavedAtCommit, SavedIsKnown, UnservedIsLogged
<1>5. NothingForgotten'
  BY <1>1, <1>2 DEF IInv, NothingForgotten
<1>6. QED
  BY <1>3, <1>4, <1>5 DEF IInv

LEMMA NextIInv == IInv /\ [Next]_vars => IInv'
<1> SUFFICES ASSUME IInv, [Next]_vars PROVE IInv'
  OBVIOUS
<1>0. TypeOK'
  BY NextTypeOK DEF IInv
<1>a. nextSeq \in Nat /\ nextSeq >= nextSeq /\ nextSeq + 1 >= nextSeq
  BY DEF IInv, TypeOK
<1>1. ASSUME NEW c \in Channels, Put(c) PROVE IInv'
  BY <1>0, <1>1, PutKeeps
<1>2. ASSUME NEW partial \in BOOLEAN, PutFails(partial) PROVE IInv'
  BY <1>0, <1>a, <1>2, QuietStep DEF PutFails
<1>3. CASE Drain
  BY <1>0, <1>3, DrainKeeps
<1>4. CASE DrainStops
  BY <1>0, <1>4, DrainStopsKeeps
<1>5. CASE TurnSaved
  BY <1>0, <1>5, EndTurnKeeps DEF TurnSaved
<1>6. CASE TurnSaveFails
  BY <1>0, <1>6, EndTurnKeeps DEF TurnSaveFails, file
<1>7. CASE TurnRaises
  BY <1>0, <1>7, TurnRaisesKeeps
<1>8. CASE Commit
  BY <1>0, <1>8, CommitKeeps
<1>9. CASE CommitFails
  BY <1>0, <1>9, CommitFailsKeeps
<1>10. CASE RequestStop
  BY <1>0, <1>a, <1>10, QuietStep DEF RequestStop, file, history
<1>11. CASE Exit
  BY <1>0, <1>a, <1>11, QuietStep DEF Exit, file, history
<1>12. CASE Crash
  BY <1>0, <1>a, <1>12, QuietStep DEF Crash, file
<1>13. CASE Boot
  BY <1>0, <1>13, BootKeeps
<1>14. CASE UNCHANGED vars
  BY <1>0, <1>a, <1>14, QuietStep DEF vars
<1>15. QED
  BY <1>1, <1>2, <1>3, <1>4, <1>5, <1>6, <1>7, <1>8, <1>9, <1>10, <1>11,
     <1>12, <1>13, <1>14 DEF Next

\* The strengthened invariant holds in every reachable state.
THEOREM Inductive == Spec => []IInv
BY InitIInv, NextIInv, PTL DEF Spec

\* No accepted perception is forgotten: for any channels, any number of
\* arrivals, crashes and faults, it is saved, on record, stranded by a raising
\* turn, or it was accepted onto a torn line.
THEOREM NeverForgotten == Spec => []NothingForgotten
BY Inductive, PTL DEF IInv

\* What a running process has not served yet is covered by the log: no
\* truncation reaches the queue or a later bucket.
THEOREM UnservedStaysLogged == Spec => []UnservedIsLogged
BY Inductive, PTL DEF IInv

-----------------------------------------------------------------------------
(* Serving once, and in order.  Perceptions are numbered as they arrive,    *)
(* and log, queue and batch keep them in that order over drains, replays    *)
(* and truncations: so an entry is told by its number.                      *)

Rising(s) == \A i, j \in DOMAIN s : i < j => s[i].id < s[j].id

\* Log, queue and batch rise, and an entry's number tells which it is.
Numbered ==
    /\ Rising(log) /\ Rising(queue) /\ Rising(batch)
    /\ \A x, y \in Elems(log) \union Elems(queue) \union Elems(batch) :
          x.id = y.id => x = y
    /\ \A x \in Elems(log) \union Elems(queue) \union Elems(batch) \union ran :
          x.id <= arrivals
    /\ \A b \in Elems(batch), e \in Elems(queue) : b.id < e.id

\* What ran is of the batch's finished part, or older than batch and queue.
RanBefore ==
    \A r \in ran :
        /\ \A e \in Elems(queue) : r.id < e.id
        /\ \/ \E i \in done : r = batch[i]
           \/ \A b \in Elems(batch) : r.id < b.id

\* A turn takes everything its channel has in the batch.
WholeBuckets == \A i \in done, j \in Waiting : batch[i].ch # batch[j].ch

\* What the state holds was accepted, and was served by this process unless it
\* is saved.  What is still to be served has not been cut short.
Known ==
    /\ mem \union disk \union stranded \subseteq 1..arrivals
    /\ mem \ disk \subseteq IdsOf(ran)
    /\ stranded \intersect IdsOf(Unserved) = {}
    /\ stranded \intersect (mem \ disk) = {}

\* While nothing failed, a line whose turn is saved is of the current drain.
Tidy ==
    tidy => /\ allSaved
            /\ alive => disk = mem
            /\ \A e \in Elems(log) : e.id \in disk =>
                  alive /\ \E i \in done : e.id = batch[i].id

SInv == IInv /\ Numbered /\ RanBefore /\ WholeBuckets /\ Known /\ Tidy

LEMMA RisingAppend ==
    ASSUME NEW s \in Seq(Entry), Rising(s), NEW e \in Entry,
           \A x \in Elems(s) : x.id < e.id
    PROVE  Rising(Append(s, e))
<1>1. DOMAIN Append(s, e) = 1..(Len(s) + 1) /\ DOMAIN s = 1..Len(s) /\ Len(s) \in Nat
  BY AppendProperties, LenProperties
<1>2. /\ \A i \in 1..Len(s) : Append(s, e)[i] = s[i]
      /\ Append(s, e)[Len(s) + 1] = e
  BY AppendProperties
<1> SUFFICES ASSUME NEW i \in 1..(Len(s) + 1), NEW j \in 1..(Len(s) + 1), i < j
             PROVE  Append(s, e)[i].id < Append(s, e)[j].id
  BY <1>1 DEF Rising
<1>3. i \in 1..Len(s) /\ (j \in 1..Len(s) \/ j = Len(s) + 1)
  BY <1>1
<1>4. CASE j \in 1..Len(s)
  BY <1>1, <1>2, <1>3, <1>4 DEF Rising
<1>5. CASE j = Len(s) + 1
  BY <1>1, <1>2, <1>3, <1>5 DEF Elems
<1> QED BY <1>3, <1>4, <1>5

LEMMA RisingTail ==
    ASSUME NEW s \in Seq(Entry), Rising(s), s # <<>>
    PROVE  Rising(Tail(s))
<1>1. /\ Tail(s) \in Seq(Entry) /\ Len(Tail(s)) = Len(s) - 1
      /\ \A i \in 1..Len(Tail(s)) : Tail(s)[i] = s[i + 1]
  BY HeadTailProperties
<1>2. DOMAIN Tail(s) = 1..Len(Tail(s)) /\ DOMAIN s = 1..Len(s) /\ Len(s) \in Nat
  BY <1>1, LenProperties
<1>3. \A i, j \in 1..Len(Tail(s)) : i + 1 \in 1..Len(s) /\ (i < j => i + 1 < j + 1)
  BY <1>1, <1>2
<1> QED BY <1>1, <1>2, <1>3 DEF Rising

LEMMA TruncationRises ==
    ASSUME log \in Seq(Entry), Rising(log), NEW m, TruncateThrough(m)
    PROVE  Rising(log)'
<1>1. PICK k \in 0..Len(log) : log' = SubSeq(log, k + 1, Len(log))
  BY DEF TruncateThrough
<1>2. Len(log) \in Nat /\ DOMAIN log = 1..Len(log) /\ k \in Nat /\ k <= Len(log)
  BY LenProperties
<1>3. /\ DOMAIN log' = 1..(Len(log) - k)
      /\ \A i \in 1..(Len(log) - k) : log'[i] = log[k + i]
  BY <1>1, <1>2
<1>4. \A i, j \in 1..(Len(log) - k) :
         k + i \in 1..Len(log) /\ (i < j => k + i < k + j)
  BY <1>2
<1> QED BY <1>2, <1>3, <1>4 DEF Rising

\* No two positions of a rising sequence hold one number.
LEMMA Distinct ==
    ASSUME NEW s \in Seq(Entry), Rising(s),
           NEW i \in DOMAIN s, NEW j \in DOMAIN s, i # j
    PROVE  s[i].id # s[j].id
<1>1. DOMAIN s = 1..Len(s) /\ Len(s) \in Nat
  BY LenProperties
<1>2. s[i] \in Entry /\ s[j] \in Entry
  BY <1>1, ElementOfSeq
<1>3. s[i].id \in Nat /\ s[j].id \in Nat
  BY <1>2, BoundsAssumption DEF Entry, Ids
<1>4. i < j \/ j < i
  BY <1>1
<1> QED BY <1>3, <1>4 DEF Rising

\* Who waits after the bucket in turn is of another channel.
LEMMA BucketIsWhole ==
    \A i \in Bucket, j \in Waiting \ Bucket : batch[i].ch # batch[j].ch
BY DEF Bucket

\* What ran is not waiting: neither in the queue nor in the batch.
LEMMA RanIsNotWaiting ==
    ASSUME SInv, NEW r \in ran
    PROVE  /\ \A e \in Elems(queue) : r.id # e.id
           /\ \A j \in Waiting : r.id # batch[j].id
<1>1. /\ r.id \in Nat /\ \A e \in Elems(queue) \union Elems(batch) : e.id \in Nat
      /\ \A j \in DOMAIN batch : batch[j] \in Elems(batch)
  <2>1. Elems(queue) \subseteq Entry /\ Elems(batch) \subseteq Entry /\ ran \subseteq Entry
    BY ElemsType DEF SInv, IInv, TypeOK
  <2> QED BY <2>1, BoundsAssumption DEF Entry, Ids, Elems
<1>2. \A e \in Elems(queue) : r.id # e.id
  BY <1>1 DEF SInv, RanBefore
<1>3. ASSUME NEW j \in Waiting PROVE r.id # batch[j].id
  <2>1. j \in DOMAIN batch /\ j \notin done
    BY DEF Waiting
  <2>2. CASE \E i \in done : r = batch[i]
    BY <2>1, <2>2, Distinct DEF SInv, IInv, TypeOK, Numbered
  <2>3. CASE \A b \in Elems(batch) : r.id < b.id
    BY <1>1, <2>1, <2>3
  <2> QED BY <2>2, <2>3 DEF SInv, RanBefore
<1> QED BY <1>2, <1>3

LEMMA InitSInv == Init => SInv
<1> SUFFICES ASSUME Init PROVE SInv
  OBVIOUS
<1>1. IInv
  BY InitIInv
<1>2. Elems(log) = {} /\ Elems(queue) = {} /\ Elems(batch) = {} /\ Unserved = {}
  BY EmptySeq DEF Init, Elems, Unserved, Waiting
<1>3. Rising(log) /\ Rising(queue) /\ Rising(batch)
  BY EmptySeq DEF Init, Rising
<1> QED
  BY <1>1, <1>2, <1>3 DEF Init, SInv, Numbered, RanBefore, WholeBuckets, Known, Tidy, IdsOf

\* Numbers are numbers.
LEMMA NumbersType ==
    ASSUME TypeOK
    PROVE  /\ \A e \in Elems(log) \union Elems(queue) \union Elems(batch) \union ran :
                 e \in Entry /\ e.id \in Nat /\ e.id \in Ids
           /\ \A i \in DOMAIN batch : batch[i] \in Elems(batch)
           /\ arrivals \in Nat
<1>1. /\ Elems(log) \subseteq Entry /\ Elems(queue) \subseteq Entry
      /\ Elems(batch) \subseteq Entry /\ ran \subseteq Entry
  BY ElemsType DEF TypeOK
<1> QED BY <1>1, BoundsAssumption DEF Entry, Ids, Elems, TypeOK

\* A step after which log, queue and batch hold no more than before, in the
\* order they had, and what ran is what it was or gone.
LEMMA LessKeeps ==
    ASSUME SInv, Rising(log)', Rising(queue)', Rising(batch)',
           Elems(log)' \subseteq Elems(log), Elems(queue)' \subseteq Elems(queue),
           \/ batch' = batch /\ done' = done /\ ran' = ran
           \/ Elems(batch)' = {} /\ batch' = <<>> /\ done' = {} /\ ran' = ran,
           arrivals' = arrivals
    PROVE  Numbered' /\ RanBefore' /\ WholeBuckets'
<1>1. Elems(batch)' \subseteq Elems(batch)
  BY DEF Elems
<1>2. Numbered'
  BY <1>1 DEF SInv, Numbered
<1>3. RanBefore'
  BY <1>1 DEF SInv, RanBefore, Elems
<1>4. WholeBuckets'
  BY DEF SInv, WholeBuckets, Waiting
<1> QED BY <1>2, <1>3, <1>4

\* A step of which the perceptions notice nothing.
LEMMA QuietServes ==
    ASSUME SInv, IInv',
           UNCHANGED <<log, disk, queue, batch, done, mem, arrivals, ran, stranded>>,
           \/ tidy' = FALSE
           \/ UNCHANGED <<tidy, allSaved, alive>>
           \/ /\ alive /\ batch = <<>> /\ UNCHANGED <<tidy, allSaved>> /\ alive' = FALSE
    PROVE  SInv'
<1>1. /\ Elems(queue)' = Elems(queue) /\ Elems(batch)' = Elems(batch)
      /\ Elems(log)' = Elems(log) /\ Unserved' = Unserved /\ IdsOf(ran)' = IdsOf(ran)
      /\ IdsOf(Unserved)' = IdsOf(Unserved)
      /\ Rising(log)' /\ Rising(queue)' /\ Rising(batch)'
  BY DEF Elems, Unserved, Waiting, IdsOf, SInv, Numbered, Rising
<1>2. Numbered' /\ RanBefore' /\ WholeBuckets'
  BY <1>1, LessKeeps
<1>3. Known'
  BY <1>1 DEF SInv, Known
<1>4. Tidy'
  <2>1. CASE UNCHANGED <<tidy, allSaved, alive>> \/ tidy' = FALSE
    BY <1>1, <2>1 DEF SInv, Tidy
  <2>2. CASE alive /\ batch = <<>> /\ UNCHANGED <<tidy, allSaved>> /\ alive' = FALSE
    <3>1. done = {}
      BY <2>2, EmptySeq DEF SInv, IInv, TypeOK
    <3> QED BY <1>1, <2>2, <3>1 DEF SInv, Tidy
  <2> QED BY <2>1, <2>2
<1> QED BY <1>2, <1>3, <1>4 DEF SInv

\* The newest entry is numbered above all.
LEMMA PutServes ==
    ASSUME SInv, IInv', NEW c \in Channels, Put(c)
    PROVE  SInv'
<1> DEFINE e == [id |-> arrivals + 1, seq |-> nextSeq, ch |-> c]
<1> USE DEF SInv
<1>1. /\ e \in Entry /\ e.id = arrivals + 1
      /\ \A x \in Elems(log) \union Elems(queue) \union Elems(batch) \union ran :
            x.id < e.id /\ x.id < arrivals + 1 /\ x.id <= arrivals + 1
  <2>1. e \in Entry
    <3>1. arrivals + 1 \in 1..MaxArrivals
      BY BoundsAssumption DEF IInv, TypeOK, Put
    <3> QED BY <3>1 DEF IInv, TypeOK, Entry, Ids
  <2> QED BY <2>1, NumbersType DEF IInv, Numbered
<1>2. /\ Elems(queue)' = Elems(queue) \union {e} /\ Rising(queue)'
      /\ Elems(batch)' = Elems(batch) /\ Rising(batch)'
      /\ Elems(log)' \subseteq Elems(log) \union {e} /\ Rising(log)'
  <2>1. /\ queue \in Seq(Entry) /\ log \in Seq(Entry) /\ Rising(queue) /\ Rising(log)
        /\ Rising(batch)
    BY DEF IInv, TypeOK, Numbered
  <2>2. /\ Elems(Append(queue, e)) = Elems(queue) \union {e} /\ Rising(Append(queue, e))
        /\ Elems(Append(log, e)) = Elems(log) \union {e} /\ Rising(Append(log, e))
    BY <1>1, <2>1, ElemsAppend, RisingAppend
  <2>3. queue' = Append(queue, e) /\ log' = (IF torn THEN log ELSE Append(log, e))
        /\ batch' = batch
    BY DEF Put
  <2> QED BY <2>1, <2>2, <2>3 DEF Elems, Rising
<1>3. /\ UNCHANGED <<disk, batch, done, allSaved, mem, loop, alive, ran, stranded, tidy>>
      /\ arrivals' = arrivals + 1
  BY DEF Put
<1>4. Numbered'
  BY <1>1, <1>2, <1>3 DEF Numbered
<1>5. RanBefore' /\ WholeBuckets'
  BY <1>1, <1>2, <1>3 DEF RanBefore, WholeBuckets, Waiting, Elems
<1>6. arrivals \in Nat /\ mem \union disk \union stranded \subseteq 1..arrivals
      /\ e.id \notin mem \union disk \union stranded
      /\ 1..arrivals \subseteq 1..(arrivals + 1)
  BY <1>1, SMTT(30) DEF IInv, TypeOK, Known
<1>7. Known'
  <2>0. Unserved' = Unserved \union {e}
    BY <1>2, <1>3 DEF Unserved, Waiting
  <2>1. \A p \in IdsOf(Unserved)' : p \in IdsOf(Unserved) \/ p = e.id
    BY <2>0 DEF IdsOf
  <2>2. IdsOf(ran)' = IdsOf(ran)
    BY <1>3 DEF IdsOf
  <2> QED BY <1>3, <1>6, <2>1, <2>2 DEF Known
<1>8. Tidy'
  BY <1>2, <1>3, <1>6 DEF Tidy
<1> QED BY <1>4, <1>5, <1>7, <1>8

LEMMA DrainServes ==
    ASSUME SInv, IInv', Drain
    PROVE  SInv'
<1> USE DEF SInv
<1>1. batch = <<>> /\ done = {}
  BY EmptySeq DEF IInv, TypeOK, Shape, Drain
<1>2. /\ Elems(queue)' = {} /\ Elems(batch)' = Elems(queue) /\ Elems(log)' = Elems(log)
      /\ Unserved' = Unserved /\ Rising(log)' /\ Rising(queue)' /\ Rising(batch)'
  BY <1>1, EmptySeq DEF Drain, file, Elems, Unserved, Waiting, Numbered, Rising
<1>3. /\ UNCHANGED <<log, disk, mem, alive, arrivals, ran, stranded, tidy>>
      /\ done' = {} /\ allSaved' = TRUE
  BY DEF Drain, file, history
<1>4. Numbered' /\ RanBefore' /\ WholeBuckets'
  BY <1>1, <1>2, <1>3 DEF Numbered, RanBefore, WholeBuckets
<1>5. Known' /\ Tidy'
  BY <1>1, <1>2, <1>3 DEF Known, Tidy, IdsOf
<1> QED BY <1>4, <1>5

LEMMA DrainStopsServes ==
    ASSUME SInv, IInv', DrainStops
    PROVE  SInv'
<1> USE DEF SInv
<1>1. Elems(queue)' \subseteq Elems(queue) /\ Rising(queue)'
  <2>1. CASE queue' = queue
    BY <2>1 DEF Elems, Numbered, Rising
  <2>2. CASE queue # <<>> /\ queue' = Tail(queue)
    BY <2>2, ElemsTail, RisingTail DEF IInv, TypeOK, Numbered
  <2> QED BY <2>1, <2>2 DEF DrainStops
<1>2. UNCHANGED <<log, disk, mem, alive, batch, done, allSaved, arrivals, ran, stranded, tidy>>
  BY DEF DrainStops, file, history
<1>3. Rising(log)' /\ Rising(batch)' /\ Elems(log)' = Elems(log)
  BY <1>2 DEF Numbered, Rising, Elems
<1>4. Numbered' /\ RanBefore' /\ WholeBuckets'
  BY <1>1, <1>2, <1>3, LessKeeps
<1>5. Unserved' \subseteq Unserved
  BY <1>1, <1>2 DEF Unserved, Waiting
<1>6. Known' /\ Tidy'
  BY <1>2, <1>3, <1>5 DEF Known, Tidy, IdsOf
<1> QED BY <1>4, <1>6

\* A turn moves one channel of the batch to what ran.
LEMMA EndTurnServes ==
    ASSUME SInv, IInv', InTurn, EndTurn,
           UNCHANGED <<log, queue, batch, alive, arrivals, stranded>>,
           \/ disk' = mem' /\ UNCHANGED <<allSaved, tidy>>
           \/ disk' = disk /\ tidy' = FALSE
    PROVE  SInv'
<1> USE DEF SInv
<1>1. /\ Elems(queue)' = Elems(queue) /\ Elems(batch)' = Elems(batch)
      /\ Elems(log)' = Elems(log)
      /\ Rising(log)' /\ Rising(queue)' /\ Rising(batch)'
  BY DEF Elems, Numbered, Rising
<1>2. /\ done' = done \union Bucket /\ mem' = mem \union BucketIds
      /\ ran' = ran \union {batch[i] : i \in Bucket} /\ Waiting' = Waiting \ Bucket
      /\ Bucket \subseteq Waiting /\ Waiting \subseteq DOMAIN batch
  BY BucketIsWaiting DEF EndTurn, Waiting
<1>3. \A i \in Bucket : batch[i] \in Elems(batch)
  BY <1>2, NumbersType DEF IInv
<1>4. Numbered'
  BY <1>1, <1>2, <1>3 DEF Numbered
<1>5. RanBefore'
  <2> SUFFICES ASSUME NEW r \in ran'
               PROVE  /\ \A e \in Elems(queue) : r.id < e.id
                      /\ \/ \E i \in done' : r = batch[i]
                         \/ \A b \in Elems(batch) : r.id < b.id
    BY <1>1 DEF RanBefore
  <2>1. CASE r \in ran
    BY <1>2, <2>1 DEF RanBefore
  <2>2. CASE \E i \in Bucket : r = batch[i]
    BY <1>2, <1>3, <2>2 DEF Numbered
  <2> QED BY <1>2, <2>1, <2>2
<1>6. WholeBuckets'
  <2>1. \A i \in done', j \in Waiting' : batch[i].ch # batch[j].ch
    BY <1>2, BucketIsWhole DEF WholeBuckets
  <2> QED BY <2>1 DEF WholeBuckets
<1>7. Known'
  <2>1. Unserved' \subseteq Unserved /\ BucketIds \subseteq IdsOf(Unserved)
    BY <1>1, <1>2 DEF Unserved, BucketIds, IdsOf
  <2>2. BucketIds \subseteq 1..arrivals
    BY <1>2, <1>3, NumbersType DEF BucketIds, IInv, Numbered, Ids
  <2>3. BucketIds \subseteq IdsOf(ran)' /\ IdsOf(ran) \subseteq IdsOf(ran)'
    BY <1>2 DEF BucketIds, IdsOf
  <2>4. IdsOf(Unserved)' \subseteq IdsOf(Unserved)
    BY <2>1 DEF IdsOf
  <2> QED BY <1>2, <2>1, <2>2, <2>3, <2>4 DEF Known
<1>8. Tidy'
  <2> SUFFICES ASSUME disk' = mem', UNCHANGED <<allSaved, tidy>>, tidy
               PROVE  Tidy'
    BY DEF Tidy
  <2>1. alive /\ alive' /\ disk = mem
    BY DEF InTurn, Tidy
  <2>2. \A e \in Elems(log) : e.id \in disk' => \E i \in done' : e.id = batch[i].id
    BY <1>2, <2>1 DEF Tidy, BucketIds
  <2> QED BY <1>1, <2>1, <2>2 DEF Tidy
<1> QED BY <1>4, <1>5, <1>6, <1>7, <1>8

LEMMA TurnRaisesServes ==
    ASSUME SInv, IInv', TurnRaises
    PROVE  SInv'
<1> USE DEF SInv
<1>1. /\ UNCHANGED <<log, disk, queue, mem, arrivals, ran>> /\ tidy' = FALSE
      /\ batch' = <<>> /\ done' = {}
      /\ stranded' = stranded \union {batch[i].id : i \in Waiting}
  BY DEF TurnRaises, file
<1>2. /\ Elems(queue)' = Elems(queue) /\ Elems(batch)' = {} /\ Elems(log)' = Elems(log)
      /\ Rising(log)' /\ Rising(queue)' /\ Rising(batch)' /\ Unserved' = Elems(queue)
      /\ IdsOf(ran)' = IdsOf(ran)
  BY <1>1, EmptySeq DEF Elems, Numbered, Rising, Unserved, Waiting, IdsOf
<1>3. Numbered' /\ RanBefore' /\ WholeBuckets'
  BY <1>1, <1>2, LessKeeps
<1>4. Known'
  <2>1. ASSUME NEW i \in Waiting
        PROVE  /\ batch[i].id \in 1..arrivals /\ batch[i].id \notin IdsOf(Elems(queue))
               /\ batch[i].id \notin mem \ disk
    <3>1. i \in DOMAIN batch /\ batch[i] \in Elems(batch)
      BY DEF Waiting, Elems
    <3>2. batch[i].id \in 1..arrivals
      BY <3>1, NumbersType DEF IInv, Numbered, Ids
    <3>3. batch[i].id \notin IdsOf(Elems(queue))
      BY <3>1, NumbersType DEF IInv, Numbered, IdsOf
    <3>4. batch[i].id \notin mem \ disk
      BY RanIsNotWaiting DEF Known, IdsOf
    <3> QED BY <3>2, <3>3, <3>4
  <2>2. IdsOf(Elems(queue)) \subseteq IdsOf(Unserved) /\ IdsOf(Unserved)' = IdsOf(Elems(queue))
    BY <1>2 DEF IdsOf, Unserved
  <2> QED BY <1>1, <1>2, <2>1, <2>2 DEF Known
<1>5. Tidy'
  BY <1>1 DEF Tidy
<1> QED BY <1>3, <1>4, <1>5

\* The end of an iteration, the log rewritten or not.
LEMMA IteratedServes ==
    ASSUME SInv, IInv', Iterated, loop = "commit", alive, alive',
           UNCHANGED <<disk, queue, mem, arrivals, ran, stranded, allSaved>>,
           Elems(log)' \subseteq Elems(log), Rising(log)',
           \/ tidy' = FALSE
           \/ tidy' = tidy /\ ~allSaved
           \/ /\ tidy' = tidy
              /\ \A e \in Elems(log)' : e \notin Elems(batch)
    PROVE  SInv'
<1> USE DEF SInv
<1>1. /\ Elems(queue)' = Elems(queue) /\ Elems(batch)' = {} /\ batch' = <<>> /\ done' = {}
      /\ Rising(queue)' /\ Rising(batch)' /\ IdsOf(ran)' = IdsOf(ran)
  BY EmptySeq DEF Elems, Iterated, Numbered, Rising, IdsOf
<1>2. Numbered' /\ RanBefore' /\ WholeBuckets'
  BY <1>1, LessKeeps
<1>3. Unserved' \subseteq Unserved
  BY <1>1 DEF Unserved, Waiting
<1>4. Known'
  BY <1>1, <1>3 DEF Known, IdsOf
<1>5. Tidy'
  <2> SUFFICES ASSUME tidy, tidy', allSaved, NEW e \in Elems(log)', e.id \in disk,
                      \A x \in Elems(log)' : x \notin Elems(batch)
               PROVE  FALSE
    BY DEF Tidy
  <2>1. PICK i \in done : e.id = batch[i].id
    BY DEF Tidy
  <2>2. batch[i] \in Elems(batch)
    BY DEF IInv, TypeOK, Elems
  <2> QED BY <2>1, <2>2 DEF Numbered
<1> QED BY <1>2, <1>4, <1>5

LEMMA CommitServes ==
    ASSUME SInv, IInv', Commit
    PROVE  SInv'
<1>1. /\ UNCHANGED <<disk, queue, mem, alive, arrivals, ran, stranded, allSaved, tidy>>
      /\ Iterated /\ loop = "commit" /\ alive
  BY DEF Commit, history
<1>2. log \in Seq(Entry) /\ Rising(log)
  BY DEF SInv, IInv, TypeOK, Numbered
<1>3. CASE allSaved
  <2>1. PICK last \in DOMAIN batch : /\ \A i \in DOMAIN batch : batch[i].seq <= batch[last].seq
                                     /\ TruncateThrough(batch[last].seq)
    BY <1>3 DEF Commit
  <2>2. \A b \in Elems(batch) : b.seq \in Nat /\ b.seq <= batch[last].seq
    BY <2>1, EntriesAreNumbered DEF SInv, IInv, Elems
  <2>3. batch[last].seq \in Nat
    BY <2>2 DEF Elems
  <2>4. Elems(log)' = {e \in Elems(log) : e.seq > batch[last].seq}
    BY <1>2, <2>1, <2>3, Truncation
  <2>5. Rising(log)'
    BY <1>2, <2>1, TruncationRises
  <2>6. \A e \in Elems(log)' : e \notin Elems(batch)
    BY <2>2, <2>3, <2>4
  <2> QED BY <1>1, <2>4, <2>5, <2>6, IteratedServes
<1>4. CASE ~allSaved
  <2>1. Elems(log)' = Elems(log) /\ Rising(log)'
    BY <1>2, <1>4 DEF Commit, Elems, Rising
  <2> QED BY <1>1, <1>4, <2>1, IteratedServes
<1> QED BY <1>3, <1>4

LEMMA CommitFailsServes ==
    ASSUME SInv, IInv', CommitFails
    PROVE  SInv'
<1>1. /\ UNCHANGED <<log, disk, queue, mem, alive, arrivals, ran, stranded, allSaved>>
      /\ Iterated /\ loop = "commit" /\ alive /\ tidy' = FALSE
  BY DEF CommitFails, file
<1>2. Elems(log)' = Elems(log) /\ Rising(log)'
  BY <1>1 DEF Elems, SInv, Numbered, Rising
<1> QED BY <1>1, <1>2, IteratedServes

\* A new process has served nothing, and finds the log in order.
LEMMA BootServes ==
    ASSUME SInv, IInv', Boot
    PROVE  SInv'
<1> USE DEF SInv
<1>1. /\ UNCHANGED <<log, disk, arrivals>> /\ mem' = disk /\ queue' = log /\ batch' = <<>>
      /\ done' = {} /\ allSaved' = TRUE /\ ran' = {} /\ stranded' = stranded \ Logged
      /\ tidy' = (Logged \intersect disk = {})
  BY DEF Boot, file
<1>2. /\ Elems(log)' = Elems(log) /\ Elems(queue)' = Elems(log) /\ Elems(batch)' = {}
      /\ Rising(log)' /\ Rising(queue)' /\ Rising(batch)' /\ Unserved' = Elems(log)
  BY <1>1, EmptySeq DEF Elems, Numbered, Rising, Unserved, Waiting
<1>3. Numbered' /\ RanBefore' /\ WholeBuckets'
  BY <1>1, <1>2 DEF Numbered, RanBefore, WholeBuckets
<1>4. Known'
  BY <1>1, <1>2 DEF Known, Logged, IdsOf
<1>5. Tidy'
  BY <1>1, <1>2 DEF Tidy, Logged, IdsOf
<1> QED BY <1>3, <1>4, <1>5

LEMMA NextSInv == SInv /\ [Next]_vars => SInv'
<1> SUFFICES ASSUME SInv, [Next]_vars PROVE SInv'
  OBVIOUS
<1>0. IInv'
  BY NextIInv DEF SInv
<1>1. ASSUME NEW c \in Channels, Put(c) PROVE SInv'
  BY <1>0, <1>1, PutServes
<1>2. ASSUME NEW partial \in BOOLEAN, PutFails(partial) PROVE SInv'
  BY <1>0, <1>2, QuietServes DEF PutFails
<1>3. CASE Drain
  BY <1>0, <1>3, DrainServes
<1>4. CASE DrainStops
  BY <1>0, <1>4, DrainStopsServes
<1>5. CASE TurnSaved
  BY <1>0, <1>5, EndTurnServes DEF TurnSaved
<1>6. CASE TurnSaveFails
  BY <1>0, <1>6, EndTurnServes DEF TurnSaveFails, file
<1>7. CASE TurnRaises
  BY <1>0, <1>7, TurnRaisesServes
<1>8. CASE Commit
  BY <1>0, <1>8, CommitServes
<1>9. CASE CommitFails
  BY <1>0, <1>9, CommitFailsServes
<1>10. CASE RequestStop
  BY <1>0, <1>10, QuietServes DEF RequestStop, file, history
<1>11. CASE Exit
  BY <1>0, <1>11, QuietServes DEF Exit, file, history, SInv, IInv, Shape
<1>12. CASE Crash
  BY <1>0, <1>12, QuietServes DEF Crash, file
<1>13. CASE Boot
  BY <1>0, <1>13, BootServes
<1>14. CASE UNCHANGED vars
  BY <1>0, <1>14, QuietServes DEF vars
<1>15. QED
  BY <1>1, <1>2, <1>3, <1>4, <1>5, <1>6, <1>7, <1>8, <1>9, <1>10, <1>11,
     <1>12, <1>13, <1>14 DEF Next

\* The invariant behind serving once and in order: log, queue and batch keep
\* the order of arrival, a turn takes all its channel has, and while nothing
\* failed a line whose turn is saved is of the drain still under way.
THEOREM InOrder == Spec => []SInv
BY InitSInv, NextSInv, PTL DEF Spec

\* No process serves a perception twice, whatever was replayed, failed to be
\* saved or to be truncated; and a process in which nothing failed leaves no
\* line whose turn is saved, so its successor repeats nothing.
THEOREM NeverServedTwice == Spec => []ServedOnce
<1>1. SInv => ServedOnce
  <2> SUFFICES ASSUME SInv PROVE ServedOncePerRun /\ OrderlyStopLeavesNoRepeat
    BY DEF ServedOnce
  <2>1. queue \in Seq(Entry) /\ batch \in Seq(Entry) /\ Rising(queue) /\ Rising(batch)
    BY DEF SInv, IInv, TypeOK, Numbered
  <2>2. /\ \A i, j \in DOMAIN queue : i # j => queue[i].id # queue[j].id
        /\ \A i, j \in Waiting : i # j => batch[i].id # batch[j].id
    BY <2>1, Distinct DEF Waiting
  <2>3. IdsOf(Elems(queue)) \intersect {batch[i].id : i \in Waiting} = {}
    BY NumbersType DEF SInv, IInv, Numbered, IdsOf, Waiting
  <2>4. IdsOf(Unserved) \intersect IdsOf(ran) = {}
    BY RanIsNotWaiting DEF IdsOf, Unserved
  <2>5. OrderlyStopLeavesNoRepeat
    BY DEF OrderlyStopLeavesNoRepeat, SInv, Tidy, Logged, IdsOf
  <2> QED BY <2>2, <2>3, <2>4, <2>5 DEF ServedOncePerRun
<1> QED BY <1>1, InOrder, PTL

\* In one process a channel's perceptions are served in the order in which
\* they arrived.
THEOREM ChannelsInOrder == Spec => ChannelOrder
<1>1. ASSUME SInv, [Next]_vars
      PROVE  \A e \in ran' \ ran, f \in ran : e.ch = f.ch => f.id < e.id
  <2>1. CASE InTurn /\ EndTurn
    <3> SUFFICES ASSUME NEW i \in Bucket, NEW f \in ran, batch[i].ch = f.ch
                 PROVE  f.id < batch[i].id
      BY <2>1 DEF EndTurn
    <3>1. i \in Waiting /\ batch[i] \in Elems(batch)
      BY BucketIsWaiting DEF Elems
    <3>2. ~ \E j \in done : f = batch[j]
      BY <1>1, <3>1 DEF SInv, WholeBuckets
    <3> QED BY <1>1, <3>1, <3>2 DEF SInv, RanBefore
  <2>2. CASE ~(InTurn /\ EndTurn)
    <3>1. ran' = ran \/ ran' = {}
      BY <1>1, <2>2 DEF Next, vars, Put, PutFails, Drain, DrainStops, TurnSaved, TurnSaveFails,
         TurnRaises, Commit, CommitFails, RequestStop, Exit, Crash, Boot, history
    <3> QED BY <3>1
  <2> QED BY <2>1, <2>2
<1>2. SInv /\ [Next]_vars =>
        [\A e \in ran' \ ran, f \in ran : e.ch = f.ch => f.id < e.id]_vars
  BY <1>1
<1> QED BY <1>2, InOrder, PTL DEF Spec, ChannelOrder

-----------------------------------------------------------------------------
(* The refinement of Delivery: every step moves the status of perceptions   *)
(* as Delivery allows, or not at all.                                       *)

LEMMA StatusIs ==
    /\ status = [p \in Ids |-> Stage(p)]
    /\ status' = [p \in Ids |-> Stage(p)']
BY DEF status

LEMMA SameStages ==
    ASSUME \A p \in Ids : Stage(p)' = Stage(p)
    PROVE  status' = status
BY StatusIs

\* The steps that keep what is saved, on record, cut short and in the process.
LEMMA SameViews ==
    ASSUME UNCHANGED <<log, disk, arrivals, stranded>>,
           \A p \in Ids : InProcess(p)' <=> InProcess(p)
    PROVE  status' = status
<1>1. Logged' = Logged
  BY DEF Logged, IdsOf, Elems
<1> QED BY <1>1, SameStages DEF Stage

LEMMA PutIsAccept ==
    ASSUME SInv, NEW c \in Channels, Put(c)
    PROVE  Promise!Next
<1>0. arrivals + 1 \in 1..MaxArrivals /\ nextSeq \in Nat /\ arrivals \in Nat
  BY BoundsAssumption DEF SInv, IInv, TypeOK, Put
<1>n. PICK n \in Ids : n = arrivals + 1
  BY <1>0 DEF Ids
<1>e. PICK e \in Entry : e = [id |-> n, seq |-> nextSeq, ch |-> c]
  BY <1>0, <1>n DEF Entry
<1>1. n = arrivals + 1 /\ e.id = n /\ arrivals \in Nat /\ Ids \subseteq Nat
  BY <1>0, <1>n, <1>e, BoundsAssumption DEF Ids
<1>2. n \notin disk /\ n \notin mem /\ n \notin stranded
  BY <1>1 DEF SInv, Known
<1>3. Elems(Append(queue, e)) = Elems(queue) \union {e}
      /\ Elems(Append(log, e)) = Elems(log) \union {e}
  BY <1>1, ElemsAppend DEF SInv, IInv, TypeOK
<1>4. /\ UNCHANGED <<disk, mem, stranded, loop, batch, done, alive>> /\ arrivals' = n /\ alive
      /\ Elems(queue)' = Elems(queue) \union {e}
      /\ Elems(log)' = Elems(log) \/ Elems(log)' = Elems(log) \union {e}
  <2>1. /\ UNCHANGED <<disk, mem, stranded, loop, batch, done, alive>> /\ arrivals' = n /\ alive
        /\ queue' = Append(queue, e)
        /\ log' = log \/ log' = Append(log, e)
    BY <1>n, <1>e DEF Put, MayInterleave
  <2>2. Elems(queue') = Elems(queue) \union {e}
    BY <2>1, <1>3
  <2>3. Elems(log') = Elems(log) \/ Elems(log') = Elems(log) \union {e}
    BY <2>1, <1>3
  <2> QED BY <2>1, <2>2, <2>3
<1>5. \A p \in Ids : p # n => Stage(p)' = Stage(p)
  <2> SUFFICES ASSUME NEW p \in Ids, p # n PROVE Stage(p)' = Stage(p)
    OBVIOUS
  <2>1. (p > n <=> p > arrivals)
    BY <1>1
  <2>2. (p \in Logged' <=> p \in Logged)
    BY <1>1, <1>4 DEF Logged, IdsOf
  <2>3. p \in IdsOf(Elems(queue))' <=> p \in IdsOf(Elems(queue))
    BY <1>1, <1>4 DEF IdsOf
  <2>4. InProcess(p)' <=> InProcess(p)
    BY <1>4, <2>3 DEF InProcess, Waiting
  <2> QED BY <1>4, <2>1, <2>2, <2>4 DEF Stage
<1>6. Stage(n) = "new"
  BY <1>1 DEF Stage
<1>7. Stage(n)' \in {"owed", "volatile"}
  <2>1. n \in IdsOf(Elems(queue))'
    BY <1>1, <1>4 DEF IdsOf
  <2>2. InProcess(n)'
    BY <1>4, <2>1 DEF InProcess
  <2>3. ~(n > n)
    BY <1>1
  <2> QED BY <1>2, <1>4, <2>2, <2>3 DEF Stage
<1>8. \A q \in Ids : q < n => Stage(q) # "new"
  BY <1>1 DEF Stage
<1>9. Promise!Accept(n)
  BY <1>1, <1>5, <1>6, <1>7, <1>8, StatusIs DEF Promise!Accept, Promise!Move
<1> QED BY <1>1, <1>9 DEF Promise!Next

LEMMA DrainIsQuiet ==
    ASSUME SInv, Drain
    PROVE  status' = status
<1>1. batch = <<>>
  BY DEF SInv, IInv, Shape, Drain
<1>2. \A p \in Ids : InProcess(p)' <=> InProcess(p)
  BY <1>1, EmptySeq DEF Drain, InProcess, IdsOf, Elems, Waiting
<1> QED BY <1>2, SameViews DEF Drain, file, history

\* What a process loses when it ends, or drops on its way out, only it knew.
LEMMA LossIsVanish ==
    ASSUME UNCHANGED <<log, disk, arrivals, stranded>>,
           \A p \in Ids : InProcess(p)' => InProcess(p)
    PROVE  Promise!Next
<1> DEFINE S == {p \in Ids : Stage(p) = "volatile" /\ ~InProcess(p)'}
<1>1. Logged' = Logged
  BY DEF Logged, IdsOf, Elems
<1>2. \A p \in Ids : Stage(p)' = IF p \in S THEN "lost" ELSE Stage(p)
  BY <1>1 DEF Stage
<1>3. Promise!Vanish(S)
  BY <1>2, StatusIs DEF Promise!Vanish, Promise!Move, Promise!At
<1> QED BY <1>3 DEF Promise!Next

LEMMA DrainStopsIsVanish ==
    ASSUME SInv, DrainStops
    PROVE  Promise!Next
<1>1. Elems(queue)' \subseteq Elems(queue)
  <2>1. CASE queue' = queue
    BY <2>1 DEF Elems
  <2>2. CASE queue # <<>> /\ queue' = Tail(queue)
    BY <2>2, ElemsTail DEF SInv, IInv, TypeOK
  <2> QED BY <2>1, <2>2 DEF DrainStops
<1>2. \A p \in Ids : InProcess(p)' => InProcess(p)
  BY <1>1 DEF DrainStops, InProcess, IdsOf
<1> QED BY <1>2, LossIsVanish DEF DrainStops, file, history

\* The bucket in turn is owed or volatile, unless it is saved already.
LEMMA TurnSavedIsSettle ==
    ASSUME SInv, TurnSaved
    PROVE  Promise!Next
<1> DEFINE S == {p \in Ids : p \in mem' /\ p \notin disk}
<1>1. /\ UNCHANGED <<log, queue, batch, alive, arrivals, stranded>> /\ alive
      /\ mem' = mem \union BucketIds /\ disk' = mem' /\ disk \subseteq mem
      /\ loop = "turns" /\ loop' \in {"turns", "commit"} /\ Waiting' = Waiting \ Bucket
  BY DEF TurnSaved, InTurn, EndTurn, SInv, IInv, SavedIsKnown, Waiting
<1>2. Logged' = Logged /\ IdsOf(Elems(queue))' = IdsOf(Elems(queue))
  BY <1>1 DEF Logged, IdsOf, Elems
<1>3. \A p \in S : p \notin stranded /\ InProcess(p) /\ ~(p > arrivals)
  <2>1. \A p \in BucketIds : p \in IdsOf(Unserved) /\ p \in {batch[i].id : i \in Waiting}
    BY BucketIsWaiting DEF BucketIds, IdsOf, Unserved
  <2>2. \A p \in BucketIds : p \in 1..arrivals
    <3>1. \A i \in Bucket : batch[i] \in Elems(batch)
      BY BucketIsWaiting DEF Elems
    <3> QED BY <3>1, NumbersType DEF BucketIds, SInv, IInv, Numbered, Ids
  <2>3. \A p \in 1..arrivals : ~(p > arrivals)
    BY NumbersType DEF SInv, IInv
  <2> QED BY <1>1, <2>1, <2>2, <2>3 DEF SInv, Known, InProcess
<1>4. \A p \in Ids : Stage(p)' = IF p \in S THEN "settled" ELSE Stage(p)
  <2> SUFFICES ASSUME NEW p \in Ids PROVE Stage(p)' = IF p \in S THEN "settled" ELSE Stage(p)
    OBVIOUS
  <2>1. CASE p \in mem'
    BY <1>1, <1>3, <2>1 DEF Stage, SInv, Known
  <2>2. CASE p \notin mem'
    <3>1. p \in {batch[i].id : i \in Waiting}' <=> p \in {batch[i].id : i \in Waiting}
      BY <1>1, <2>2 DEF BucketIds
    <3>2. InProcess(p)' <=> InProcess(p)
      BY <1>1, <1>2, <2>2, <3>1 DEF InProcess
    <3> QED BY <1>1, <1>2, <2>2, <3>2 DEF Stage
  <2> QED BY <2>1, <2>2
<1>5. \A p \in S : Stage(p) \in {"owed", "volatile"}
  BY <1>3 DEF Stage
<1>6. Promise!Settle(S)
  BY <1>4, <1>5, StatusIs DEF Promise!Settle, Promise!Move, Promise!At
<1> QED BY <1>6 DEF Promise!Next

LEMMA TurnSaveFailsIsQuiet ==
    ASSUME SInv, TurnSaveFails
    PROVE  status' = status
<1>1. /\ UNCHANGED <<log, disk, arrivals, stranded, queue, batch, alive>> /\ alive
      /\ mem' = mem \union BucketIds
      /\ loop = "turns" /\ loop' \in {"turns", "commit"} /\ Waiting' = Waiting \ Bucket
      /\ Bucket \subseteq Waiting
  BY BucketIsWaiting DEF TurnSaveFails, InTurn, EndTurn, file, Waiting
<1>2. IdsOf(Elems(queue))' = IdsOf(Elems(queue))
  BY <1>1 DEF IdsOf, Elems
<1>3. \A p \in Ids : InProcess(p)' <=> InProcess(p)
  BY <1>1, <1>2 DEF InProcess, BucketIds
<1> QED BY <1>1, <1>3, SameViews

LEMMA TurnRaisesIsCut ==
    ASSUME SInv, TurnRaises
    PROVE  Promise!Next
<1> DEFINE W == {batch[i].id : i \in Waiting}
           S == {p \in W : p \notin disk}
<1>1. /\ UNCHANGED <<log, disk, queue, mem, alive, arrivals>> /\ alive
      /\ stranded' = stranded \union W /\ batch' = <<>>
      /\ loop = "turns" /\ loop' \notin {"turns", "commit"}
  BY DEF TurnRaises, InTurn, file, NextLoop
<1>2. Logged' = Logged /\ IdsOf(Elems(queue))' = IdsOf(Elems(queue))
  BY <1>1 DEF Logged, IdsOf, Elems
<1>3. W \subseteq IdsOf(Unserved) /\ W \subseteq Ids
  <2>1. \A i \in Waiting : batch[i] \in Elems(batch)
    BY DEF Waiting, Elems
  <2> QED BY <2>1, NumbersType DEF SInv, IInv, IdsOf, Unserved
<1>4. \A p \in W : /\ p \notin stranded /\ p \notin IdsOf(Elems(queue))
                   /\ p \notin mem \ disk /\ InProcess(p) /\ ~(p > arrivals)
  <2> SUFFICES ASSUME NEW i \in Waiting
               PROVE  LET p == batch[i].id IN
                      /\ p \notin stranded /\ p \notin IdsOf(Elems(queue))
                      /\ p \notin mem \ disk /\ InProcess(p) /\ ~(p > arrivals)
    OBVIOUS
  <2>1. batch[i] \in Elems(batch)
    BY DEF Waiting, Elems
  <2>2. batch[i].id \notin IdsOf(Elems(queue)) /\ ~(batch[i].id > arrivals)
    BY <2>1, NumbersType DEF SInv, IInv, Numbered, IdsOf
  <2>3. batch[i].id \notin mem \ disk
    BY RanIsNotWaiting DEF SInv, Known, IdsOf
  <2>4. batch[i].id \notin stranded
    BY <1>3 DEF SInv, Known
  <2>5. InProcess(batch[i].id)
    BY <1>1 DEF InProcess
  <2> QED BY <2>2, <2>3, <2>4, <2>5
<1>5. \A p \in Ids : Stage(p)' = IF p \notin S THEN Stage(p)
                                 ELSE IF Stage(p) = "owed" THEN "cut" ELSE "lost"
  <2> SUFFICES ASSUME NEW p \in Ids
               PROVE  Stage(p)' = IF p \notin S THEN Stage(p)
                                  ELSE IF Stage(p) = "owed" THEN "cut" ELSE "lost"
    OBVIOUS
  <2>1. InProcess(p)' <=> p \in IdsOf(Elems(queue)) \union mem
    BY <1>1, <1>2 DEF InProcess
  <2>2. InProcess(p) <=> p \in IdsOf(Elems(queue)) \union mem \union W
    BY <1>1 DEF InProcess
  <2>3. CASE p \in S
    BY <1>1, <1>2, <1>4, <2>1, <2>3 DEF Stage
  <2>4. CASE p \notin S
    BY <1>1, <1>2, <1>4, <2>1, <2>2, <2>4 DEF Stage
  <2> QED BY <2>3, <2>4
<1>6. S \in SUBSET Ids /\ \A p \in S : Stage(p) \in {"owed", "volatile"}
  BY <1>3, <1>4 DEF Stage
<1>7. Promise!CutShort(S)
  BY <1>5, <1>6, StatusIs DEF Promise!CutShort, Promise!At
<1> QED BY <1>6, <1>7 DEF Promise!Next

\* The end of an iteration: nothing waits, and a line that goes is saved or cut.
LEMMA IteratedIsForget ==
    ASSUME SInv, Iterated, loop = "commit", alive,
           UNCHANGED <<disk, queue, mem, alive, arrivals, stranded>>,
           Elems(log)' \subseteq Elems(log),
           \/ Elems(log)' = Elems(log)
           \/ disk = mem /\ \A e \in Elems(log) : e \in Elems(log)' \/ e \notin Elems(queue)
    PROVE  Promise!Next
<1> DEFINE S == {p \in Ids : Stage(p) = "cut" /\ p \notin Logged'}
<1>1. /\ Waiting = {} /\ Waiting' = {} /\ Unserved = Elems(queue)
      /\ Elems(queue)' = Elems(queue)
  BY EmptySeq DEF SInv, IInv, Shape, Iterated, Waiting, Unserved, Elems
<1>2. \A p \in Ids : InProcess(p)' <=> InProcess(p)
  BY <1>1 DEF InProcess, IdsOf
<1>3. Logged' \subseteq Logged
  BY DEF Logged, IdsOf
<1>4. \A p \in Logged \ Logged' : p \in disk \/ (p \in stranded /\ ~InProcess(p))
  <2> SUFFICES ASSUME NEW e \in Elems(log), e.id \notin Logged', e.id \notin disk
               PROVE  e.id \in stranded /\ ~InProcess(e.id)
    BY DEF Logged, IdsOf
  <2>1. disk = mem /\ e \notin Elems(queue)
    BY DEF Logged, IdsOf
  <2>2. e.id \in stranded
    BY <1>1, <2>1 DEF SInv, IInv, Accounted
  <2>3. e.id \notin IdsOf(Elems(queue))
    BY <1>1, <2>2 DEF SInv, Known
  <2> QED BY <1>1, <2>1, <2>2, <2>3 DEF InProcess
<1>5. \A p \in Ids : Stage(p)' = IF p \in S THEN "lost" ELSE Stage(p)
  BY <1>2, <1>3, <1>4 DEF Stage
<1>6. Promise!Forget(S)
  BY <1>5, StatusIs DEF Promise!Forget, Promise!Move, Promise!At
<1> QED BY <1>6 DEF Promise!Next

LEMMA CommitIsForget ==
    ASSUME SInv, Commit \/ CommitFails
    PROVE  Promise!Next
<1>1. /\ UNCHANGED <<disk, queue, mem, alive, arrivals, stranded>>
      /\ Iterated /\ loop = "commit" /\ alive
  BY DEF Commit, CommitFails, history, file
<1>2. CASE Commit /\ allSaved
  <2>1. PICK last \in DOMAIN batch : TruncateThrough(batch[last].seq)
    BY <1>2 DEF Commit
  <2>2. batch[last] \in Elems(batch) /\ batch[last].seq \in Nat
    BY EntriesAreNumbered DEF SInv, IInv, Elems
  <2>3. Elems(log)' = {e \in Elems(log) : e.seq > batch[last].seq}
    BY <2>1, <2>2, Truncation DEF SInv, IInv, TypeOK
  <2>4. \A e \in Elems(queue) : e.seq > batch[last].seq
    BY <2>2, EntriesAreNumbered DEF SInv, IInv, Order
  <2>5. disk = mem
    BY <1>1, <1>2 DEF SInv, IInv, SavedAtCommit
  <2> QED BY <1>1, <2>3, <2>4, <2>5, IteratedIsForget
<1>3. CASE ~(Commit /\ allSaved)
  <2>1. Elems(log)' = Elems(log)
    BY <1>3 DEF Commit, CommitFails, file, Elems
  <2> QED BY <1>1, <2>1, IteratedIsForget
<1> QED BY <1>2, <1>3

LEMMA BootIsRestart ==
    ASSUME SInv, Boot
    PROVE  Promise!Next
<1>1. /\ UNCHANGED <<log, disk, arrivals>> /\ mem' = disk /\ queue' = log /\ batch' = <<>>
      /\ stranded' = stranded \ Logged /\ ~alive
  BY DEF Boot, file
<1>2. Logged' = Logged /\ IdsOf(Elems(queue))' = Logged
  BY <1>1 DEF Logged, IdsOf, Elems
<1>3. \A p \in Ids : ~InProcess(p) /\ (InProcess(p)' => p \in Logged \union disk)
  BY <1>1, <1>2, EmptySeq DEF InProcess, Waiting
<1>4. \A p \in Ids : Stage(p)' = IF Stage(p) = "cut" THEN "owed" ELSE Stage(p)
  BY <1>1, <1>2, <1>3 DEF Stage
<1>5. Promise!Restart
  BY <1>4, StatusIs DEF Promise!Restart, Promise!Move, Promise!At
<1> QED BY <1>5 DEF Promise!Next

\* Every step of the queue, the log and the loop is one Delivery allows.
LEMMA StepIsPromised == SInv /\ [Next]_vars => [Promise!Next]_status
<1> SUFFICES ASSUME SInv, [Next]_vars PROVE Promise!Next \/ status' = status
  OBVIOUS
<1>1. ASSUME NEW c \in Channels, Put(c) PROVE Promise!Next
  BY <1>1, PutIsAccept
<1>2. ASSUME UNCHANGED <<log, disk, queue, batch, done, mem, alive, loop, arrivals, stranded>>
      PROVE  status' = status
  BY <1>2, SameViews DEF InProcess, IdsOf, Elems, Waiting
<1>3. ASSUME NEW partial \in BOOLEAN, PutFails(partial) PROVE status' = status
  BY <1>2, <1>3 DEF PutFails
<1>4. CASE Drain
  BY <1>4, DrainIsQuiet
<1>5. CASE DrainStops
  BY <1>5, DrainStopsIsVanish
<1>6. CASE TurnSaved
  BY <1>6, TurnSavedIsSettle
<1>7. CASE TurnSaveFails
  BY <1>7, TurnSaveFailsIsQuiet
<1>8. CASE TurnRaises
  BY <1>8, TurnRaisesIsCut
<1>9. CASE Commit \/ CommitFails
  BY <1>9, CommitIsForget
<1>10. CASE RequestStop
  BY <1>2, <1>10 DEF RequestStop, file, history
<1>11. CASE Exit \/ Crash
  <2>1. \A p \in Ids : ~InProcess(p)'
    BY <1>11 DEF Exit, Crash, InProcess
  <2> QED BY <1>11, <2>1, LossIsVanish DEF Exit, Crash, file, history
<1>12. CASE Boot
  BY <1>12, BootIsRestart
<1>13. CASE UNCHANGED vars
  BY <1>2, <1>13 DEF vars
<1> QED
  BY <1>1, <1>3, <1>4, <1>5, <1>6, <1>7, <1>8, <1>9, <1>10, <1>11, <1>12, <1>13 DEF Next

\* The queue, the log and the loop keep Delivery's promise: whatever crashes,
\* fails or is stopped, only a drain cut short or a perception the process
\* alone knew is ever lost, and what is saved stays saved.
THEOREM PromiseKept == Spec => KeepsThePromise
<1>1. Init => Promise!Init
  BY StatusIs, BoundsAssumption DEF Init, Promise!Init, Stage, Ids
<1> QED BY <1>1, InOrder, StepIsPromised, PTL DEF Spec, KeepsThePromise, Promise!Spec

=============================================================================
