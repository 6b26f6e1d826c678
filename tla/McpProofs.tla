------------------------------- MODULE McpProofs -------------------------------
(***************************************************************************)
(* Proofs about Mcp, for any number of calls, queries, connections and     *)
(* sentences: what a call of talk() returns is what happened in her turn.  *)
(* The second part is about Bridge, the other process at the daemon's      *)
(* socket.                                                                 *)
(***************************************************************************)
EXTENDS Mcp, Bridge, FiniteSetTheorems, FunctionTheorems, SequenceTheorems, TLAPS

IsIn(c, q) == \E i \in DOMAIN q : q[i] = c

TextsAt(c, q) == {i \in DOMAIN q : q[i] = Frame(c, "text")}
Texts(c)      == Cardinality(TextsAt(c, downward))

\* What she says now on the channel of c finds its way to the connector.
Alive(c) == up /\ reg[c] = conn

\* Both ends of the wire, and of the pipe to the MCP server.
Ends ==
    /\ stage \in [Requests -> {"new", "waiting"} \cup Outcomes \cup Answers]
    /\ up => conn > 0
    /\ ~up => upward = <<>> /\ downward = <<>>
    /\ holder = "ended" => server = "dead"
    /\ request = "closed" => server = "dead"
    /\ turn = None => doing = "thinking"

\* A call that has not reached the daemon has left no trace there.
Fresh(c) ==
    /\ reg[c] = 0 /\ said[c] = 0 /\ got[c] = 0
    /\ \A i \in DOMAIN downward : downward[i].of # c
    /\ c \notin ended /\ c \notin pending /\ turn # c

\* A call gets one turn at most: it is on its way, waits, is served, or was.
OneTurn ==
    \A c \in Calls :
        /\ stage[c] = "new" => ~IsIn(c, upward)
        /\ stage[c] = "new" \/ IsIn(c, upward) => Fresh(c)
        /\ \A i, j \in DOMAIN upward : upward[i] = c /\ upward[j] = c => i = j
        /\ c \in pending => turn # c /\ c \notin ended /\ said[c] = 0
        /\ turn = c => c \notin ended

\* Frames of a call travel on the connection it is registered on, and the end
\* of its turn is the last of them.
InOrder ==
    \A i \in DOMAIN downward : downward[i].of \in Calls =>
        /\ downward[i].kind \in {"text", "end"} /\ Alive(downward[i].of)
        /\ downward[i].kind = "end" =>
              /\ downward[i].of \in ended
              /\ \A j \in DOMAIN downward : j > i => downward[j].of # downward[i].of

\* No sentence is counted twice, and none is missing while the call waits on a
\* connection that lives.
NoneMissing ==
    \A c \in Calls :
        /\ got[c] + Texts(c) <= said[c]
        /\ stage[c] = "waiting" /\ Alive(c) => got[c] + Texts(c) = said[c]
        /\ c \in over => c \in ended /\ got[c] = said[c]

IInv == WhatItReturns /\ Ends /\ OneTurn /\ InOrder /\ NoneMissing

USE McpAssumption

-----------------------------------------------------------------------------
(* Frames                                                                   *)

Frames == [of : Requests, kind : Kinds]

LEMMA FrameIs ==
  ASSUME NEW c \in Requests, NEW what \in Kinds
  PROVE  Frame(c, what) \in Frames /\ Frame(c, what).of = c /\ Frame(c, what).kind = what
BY DEF Frame, Frames

LEMMA TextsFinite ==
  ASSUME NEW q \in Seq(Frames), NEW c
  PROVE  IsFiniteSet(TextsAt(c, q)) /\ Cardinality(TextsAt(c, q)) \in Nat
<1>1. DOMAIN q = 1..Len(q) /\ Len(q) \in Nat /\ IsFiniteSet(1..Len(q))
  BY FS_Interval
<1>2. TextsAt(c, q) \in SUBSET (1..Len(q))
  BY <1>1 DEF TextsAt
<1>3. IsFiniteSet(TextsAt(c, q))
  BY <1>1, <1>2, FS_Subset
<1> QED BY <1>3, FS_CardinalityType

\* A frame more.
LEMMA TextsAppend ==
  ASSUME NEW q \in Seq(Frames), NEW f \in Frames, NEW c
  PROVE  Cardinality(TextsAt(c, Append(q, f))) =
           IF f = Frame(c, "text") THEN Cardinality(TextsAt(c, q)) + 1
                                   ELSE Cardinality(TextsAt(c, q))
<1> DEFINE p == Append(q, f)
           n == Len(q) + 1
<1>1. /\ Len(q) \in Nat /\ DOMAIN q = 1..Len(q) /\ DOMAIN p = 1..n
      /\ p[n] = f /\ \A i \in 1..Len(q) : p[i] = q[i]
  BY AppendProperties
<1>2. \A i \in 1..n : i \in 1..Len(q) \/ i = n
  BY <1>1
<1>3. n \notin 1..Len(q) /\ 1..Len(q) \subseteq 1..n /\ n \in 1..n
  BY <1>1
<1> HIDE DEF p, n
<1>4. n \notin TextsAt(c, q) /\ IsFiniteSet(TextsAt(c, q))
  BY <1>1, <1>3, TextsFinite DEF TextsAt
<1>5. CASE f = Frame(c, "text")
  <2>1. TextsAt(c, p) = TextsAt(c, q) \cup {n}
    BY <1>1, <1>2, <1>3, <1>5 DEF TextsAt
  <2> QED BY <1>4, <1>5, <2>1, FS_AddElement DEF p
<1>6. CASE f # Frame(c, "text")
  <2>1. TextsAt(c, p) = TextsAt(c, q)
    BY <1>1, <1>2, <1>3, <1>6 DEF TextsAt
  <2> QED BY <1>6, <2>1 DEF p
<1> QED BY <1>5, <1>6

\* A frame less.
LEMMA TextsTail ==
  ASSUME NEW q \in Seq(Frames), q # <<>>, NEW c
  PROVE  Cardinality(TextsAt(c, Tail(q))) =
           IF Head(q) = Frame(c, "text") THEN Cardinality(TextsAt(c, q)) - 1
                                         ELSE Cardinality(TextsAt(c, q))
<1> DEFINE p == Tail(q)
           A == TextsAt(c, q) \ {1}
           B == TextsAt(c, p)
           F == [i \in A |-> i - 1]
<1>1. /\ Len(q) \in Nat /\ Len(q) >= 1 /\ DOMAIN q = 1..Len(q) /\ DOMAIN p = 1..(Len(q) - 1)
      /\ q[1] = Head(q) /\ \A i \in 1..(Len(q) - 1) : p[i] = q[i + 1]
  BY HeadTailProperties
<1>2. IsFiniteSet(TextsAt(c, q)) /\ Cardinality(TextsAt(c, q)) \in Nat
  BY TextsFinite
<1>3. IsFiniteSet(A)
  BY <1>2, FS_RemoveElement
<1> HIDE DEF p
<1>4. \A i \in A : i - 1 \in B /\ i \in Nat
  <2> TAKE i \in A
  <2>1. i \in 2..Len(q) /\ q[i] = Frame(c, "text")
    BY <1>1 DEF TextsAt
  <2>2. i - 1 \in 1..(Len(q) - 1) /\ (i - 1) + 1 = i
    BY <1>1, <2>1
  <2> QED BY <1>1, <2>1, <2>2 DEF TextsAt
<1>5. \A j \in B : j + 1 \in A /\ j \in Nat
  <2> TAKE j \in B
  <2>1. j \in 1..(Len(q) - 1) /\ p[j] = Frame(c, "text")
    BY <1>1 DEF TextsAt
  <2>2. j + 1 \in 1..Len(q) /\ q[j + 1] = Frame(c, "text") /\ j + 1 # 1
    BY <1>1, <2>1
  <2> QED BY <1>1, <2>1, <2>2 DEF TextsAt
<1> HIDE DEF A, B
<1>6. F \in Bijection(A, B)
  <2>1. F \in [A -> B] /\ \A i \in A : F[i] = i - 1
    BY <1>4
  <2>2. \A i, j \in A : F[i] = F[j] => i = j
    BY <1>4, <2>1
  <2>3. \A j \in B : \E i \in A : F[i] = j
    <3> TAKE j \in B
    <3>1. j + 1 \in A /\ F[j + 1] = (j + 1) - 1 /\ (j + 1) - 1 = j
      BY <1>5, <2>1
    <3> QED BY <3>1
  <2> QED BY <2>1, <2>2, <2>3, Fun_IsBij
<1>7. Cardinality(B) = Cardinality(A)
  BY <1>3, <1>6, FS_Bijection DEF ExistsBijection
<1>8. Cardinality(A) = IF 1 \in TextsAt(c, q) THEN Cardinality(TextsAt(c, q)) - 1
                       ELSE Cardinality(TextsAt(c, q))
  BY <1>2, FS_RemoveElement DEF A
<1>9. 1 \in TextsAt(c, q) <=> Head(q) = Frame(c, "text")
  BY <1>1 DEF TextsAt
<1> QED BY <1>7, <1>8, <1>9 DEF B, p

-----------------------------------------------------------------------------
(* Steps                                                                    *)

LEMMA TypeIs ==
  ASSUME IInv
  PROVE  /\ stage \in [Requests -> {"new", "waiting"} \cup Outcomes \cup Answers]
         /\ conn \in Nat /\ \A c \in Calls : reg[c] \in Nat /\ reg[c] <= conn
         /\ \A c \in Calls : got[c] \in Nat /\ said[c] \in Nat /\ Texts(c) \in Nat
         /\ downward \in Seq(Frames) /\ upward \in Seq(Requests)
<1>1. /\ TypeOK /\ stage \in [Requests -> {"new", "waiting"} \cup Outcomes \cup Answers]
  BY DEF IInv, WhatItReturns, Ends
<1>3. downward \in Seq(Frames)
  BY <1>1 DEF TypeOK, Frames
<1>4. \A c \in Calls : Texts(c) \in Nat
  BY <1>3, TextsFinite DEF Texts
<1> QED BY <1>1, <1>3, <1>4 DEF TypeOK

LEMMA InitIInv == Init => IInv
<1> SUFFICES ASSUME Init PROVE IInv
  OBVIOUS
<1> USE DEF Init
<1>1. /\ upward \in Seq(Requests) /\ downward \in Seq([of : Requests, kind : Kinds])
      /\ DOMAIN upward = {} /\ DOMAIN downward = {}
  BY EmptySeq
<1>2. \A c \in Calls : Texts(c) = 0
  <2>1. \A c \in Calls : TextsAt(c, downward) = {}
    BY <1>1 DEF TextsAt
  <2> QED BY <2>1, FS_EmptySet DEF Texts
<1>3. \A r \in Requests : stage[r] = "new"
  OBVIOUS
<1>4. TypeOK
  BY <1>1, <1>3 DEF TypeOK, Requests
<1>5. WhatItReturns
  BY <1>3, <1>4 DEF WhatItReturns, Requests
<1>6. Ends
  BY DEF Ends
<1>7. OneTurn
  BY <1>1 DEF OneTurn, Fresh, IsIn
<1>8. InOrder
  BY <1>1 DEF InOrder
<1>9. NoneMissing
  <2>1. \A c \in Calls : got[c] = 0 /\ said[c] = 0 /\ Texts(c) = 0 /\ c \notin over
    BY <1>2
  <2>2. ASSUME NEW g, NEW t, NEW s, g = 0, t = 0, s = 0 PROVE g + t <= s /\ g + t = s
    BY <2>2
  <2> QED BY ONLY <2>1, <2>2 DEF NoneMissing
<1> QED BY <1>5, <1>6, <1>7, <1>8, <1>9 DEF IInv

\* What only the daemon and its MCP server know of.
LEMMA AsideStep ==
  ASSUME IInv, TypeOK', Ends',
         UNCHANGED <<stage, got, over, conn, up, upward, downward, reg, pending, turn, said, ended>>
  PROVE  IInv'
<1>1. WhatItReturns'
  BY DEF IInv, WhatItReturns
<1>2. OneTurn' /\ InOrder' /\ NoneMissing'
  BY DEF IInv, OneTurn, InOrder, NoneMissing, Fresh, IsIn, Alive, Texts
<1> QED BY <1>1, <1>2 DEF IInv

LEMMA SendsStep ==
  ASSUME IInv, NEW r \in Requests, Sends(r)
  PROVE  IInv'
<1>1. TypeOK /\ Ends /\ OneTurn /\ InOrder /\ NoneMissing /\ stage[r] = "new"
  BY DEF IInv, WhatItReturns, Sends
<1>2. /\ UNCHANGED <<got, over, conn, up, downward, reg, pending, turn, said, ended, granted,
                     doing, server, holder, gone, request>>
      /\ \A c \in Requests : c # r => stage'[c] = stage[c]
      /\ DOMAIN stage' = Requests
  BY <1>1, TypeIs DEF Sends, mind, client
<1>3. CASE up
  <2>1. /\ stage' = [stage EXCEPT ![r] = "waiting"] /\ collectors' = collectors \cup {r}
        /\ upward' = Append(upward, r)
    BY <1>3 DEF Sends
  <2>2. /\ upward' \in Seq(Requests) /\ Len(upward') = Len(upward) + 1 /\ Len(upward) \in Nat
        /\ DOMAIN upward = 1..Len(upward) /\ DOMAIN upward' = 1..Len(upward')
        /\ upward'[Len(upward')] = r /\ \A i \in 1..Len(upward) : upward'[i] = upward[i]
    BY <2>1, TypeIs, AppendProperties
  <2>3. stage'[r] = "waiting"
    BY <2>1, TypeIs
  <2>4. TypeOK'
    <3>1. collectors' = {s \in Requests : stage'[s] = "waiting"}
      BY <1>1, <1>2, <2>1, <2>3 DEF TypeOK
    <3> QED BY <1>1, <1>2, <2>1, <2>2, <2>3, <3>1 DEF TypeOK, Requests
  <2>5. Ends'
    BY <1>1, <1>2, <1>3, <2>1 DEF Ends
  <2>6. ASSUME NEW c \in Calls PROVE IsIn(c, upward') <=> IsIn(c, upward) \/ c = r
    BY <2>2 DEF IsIn
  <2>7. r \in Calls => ~IsIn(r, upward) /\ Fresh(r)
    BY <1>1 DEF OneTurn
  <2>8. ASSUME NEW c \in Calls
        PROVE  /\ stage'[c] = "new" => ~IsIn(c, upward')
               /\ stage'[c] = "new" \/ IsIn(c, upward') => Fresh(c)'
               /\ \A i, j \in DOMAIN upward' : upward'[i] = c /\ upward'[j] = c => i = j
               /\ c \in pending' => turn' # c /\ c \notin ended' /\ said'[c] = 0
               /\ turn' = c => c \notin ended'
    <3>1. Fresh(c) => Fresh(c)'
      BY <1>2 DEF Fresh
    <3>2. \A i, j \in DOMAIN upward' : upward'[i] = c /\ upward'[j] = c => i = j
      BY <1>1, <2>2, <2>7 DEF OneTurn, IsIn
    <3> QED BY <1>1, <1>2, <2>3, <2>6, <2>7, <3>1, <3>2 DEF OneTurn, Requests
  <2>9. OneTurn'
    BY <2>8 DEF OneTurn
  <2>10. InOrder'
    BY <1>1, <1>2 DEF InOrder, Alive
  <2>11. NoneMissing'
    <3> SUFFICES ASSUME NEW c \in Calls
                 PROVE  /\ got'[c] + Texts(c)' <= said'[c]
                        /\ stage'[c] = "waiting" /\ Alive(c)' => got'[c] + Texts(c)' = said'[c]
                        /\ c \in over' => c \in ended' /\ got'[c] = said'[c]
      BY DEF NoneMissing
    <3>1. Texts(c)' = Texts(c) /\ (Alive(c)' <=> Alive(c))
      BY <1>2 DEF Texts, Alive
    <3>2. c = r => ~Alive(c)
      BY <1>1, <2>7, TypeIs DEF Alive, Fresh, Ends
    <3> QED BY <1>1, <1>2, <3>1, <3>2 DEF NoneMissing, Requests
  <2>12. WhatItReturns'
    BY <1>1, <1>2, <2>3, <2>4 DEF IInv, WhatItReturns, Requests
  <2> QED BY <2>5, <2>9, <2>10, <2>11, <2>12 DEF IInv
<1>4. CASE ~up
  <2>1. stage' = [stage EXCEPT ![r] = "error"] /\ UNCHANGED <<collectors, upward>>
    BY <1>4 DEF Sends
  <2>2. stage'[r] = "error"
    BY <2>1, TypeIs
  <2>3. TypeOK'
    <3>1. collectors' = {s \in Requests : stage'[s] = "waiting"}
      BY <1>1, <1>2, <2>1, <2>2 DEF TypeOK
    <3> QED BY <1>1, <1>2, <2>1, <2>2, <3>1 DEF TypeOK, Requests, Outcomes, Answers
  <2>4. Ends'
    BY <1>1, <1>2, <2>1 DEF Ends, Outcomes
  <2>5. WhatItReturns'
    BY <1>1, <1>2, <2>2, <2>3 DEF IInv, WhatItReturns, Requests
  <2>6. OneTurn' /\ InOrder'
    BY <1>1, <1>2, <2>1, <2>2 DEF OneTurn, InOrder, Fresh, IsIn, Alive, Requests
  <2>7. NoneMissing'
    BY <1>1, <1>2, <2>2 DEF NoneMissing, Texts, Alive, Requests
  <2> QED BY <2>4, <2>5, <2>6, <2>7 DEF IInv
<1> QED BY <1>3, <1>4

\* A request that stops waiting.
LEMMA StopsStep ==
  ASSUME IInv, NEW r \in Requests,
         stage[r] = "waiting" \/ (stage[r] = "new" /\ r \in Queries),
         collectors' = collectors \ {r}, over' = over \ {r}, granted' = granted \ {r},
         NEW result, stage' = [stage EXCEPT ![r] = result],
         r \in Calls => result \in Outcomes, r \in Queries => result \in Answers,
         got' \in [Calls -> 0..MaxSaid], \A c \in Calls : c # r => got'[c] = got[c],
         r \in Calls => got'[r] = got[r] \/ got'[r] = 0,
         r \in Calls /\ result = "reply" => r \in ended /\ got'[r] = said[r] /\ got'[r] > 0,
         r \in Calls /\ result = "no_response" => r \in ended /\ said[r] = 0,
         UNCHANGED <<wires, reg, mind, client>>
  PROVE  IInv'
<1>1. TypeOK /\ Ends /\ OneTurn /\ InOrder /\ NoneMissing
  BY DEF IInv, WhatItReturns
<1>2. /\ UNCHANGED <<conn, up, upward, downward, reg, pending, turn, said, ended,
                     doing, server, holder, gone, request>>
      /\ \A c \in Requests : c # r => stage'[c] = stage[c]
      /\ stage'[r] = result /\ DOMAIN stage' = Requests /\ r \in Calls \cup Queries
  BY TypeIs DEF mind, client, wires, Requests
<1>3. result \in Outcomes \cup Answers /\ result # "new" /\ result # "waiting"
  BY <1>2 DEF Outcomes, Answers
<1>4. \A c \in Calls : c # r => got'[c] = got[c]
  OBVIOUS
<1>5. \A c \in Calls : got'[c] = got[c] \/ got'[c] = 0
  OBVIOUS
<1>6. got' \in [Calls -> 0..MaxSaid]
  OBVIOUS
<1>7. TypeOK'
  <2>1. collectors' = {s \in Requests : stage'[s] = "waiting"}
    BY <1>1, <1>2, <1>3 DEF TypeOK
  <2>2. over' \subseteq collectors' /\ granted' \subseteq over'
    BY <1>1 DEF TypeOK
  <2>3. /\ \A c \in Calls : stage'[c] \in {"new", "waiting"} \cup Outcomes
        /\ \A q \in Queries : stage'[q] \in {"new", "waiting"} \cup Answers
    BY <1>1, <1>2 DEF TypeOK, Requests
  <2> QED BY <1>1, <1>2, <1>6, <2>1, <2>2, <2>3 DEF TypeOK
<1>8. Ends'
  BY <1>1, <1>2, <1>3 DEF Ends
<1>9. \A c \in Calls : got'[c] = said'[c] /\ got'[c] > 0 => got'[c] = got[c]
  BY <1>5
<1>10. WhatItReturns'
  BY <1>1, <1>2, <1>4, <1>7 DEF IInv, WhatItReturns, Requests
<1>11. OneTurn'
  <2> SUFFICES ASSUME NEW c \in Calls
               PROVE  /\ stage'[c] = "new" => ~IsIn(c, upward')
                      /\ stage'[c] = "new" \/ IsIn(c, upward') => Fresh(c)'
                      /\ \A i, j \in DOMAIN upward' : upward'[i] = c /\ upward'[j] = c => i = j
                      /\ c \in pending' => turn' # c /\ c \notin ended' /\ said'[c] = 0
                      /\ turn' = c => c \notin ended'
    BY DEF OneTurn
  <2>1. Fresh(c) => Fresh(c)'
    BY <1>2, <1>5 DEF Fresh
  <2> QED BY <1>1, <1>2, <1>3, <2>1 DEF OneTurn, Requests
<1>12. InOrder'
  BY <1>1, <1>2 DEF InOrder, Alive
<1>13. NoneMissing'
  <2> SUFFICES ASSUME NEW c \in Calls
               PROVE  /\ got'[c] + Texts(c)' <= said'[c]
                      /\ stage'[c] = "waiting" /\ Alive(c)' => got'[c] + Texts(c)' = said'[c]
                      /\ c \in over' => c \in ended' /\ got'[c] = said'[c]
    BY DEF NoneMissing
  <2>1. Texts(c)' = Texts(c) /\ (Alive(c)' <=> Alive(c))
    BY <1>2 DEF Texts, Alive
  <2>2. /\ got[c] \in Nat /\ said[c] \in Nat /\ Texts(c) \in Nat
        /\ got[c] + Texts(c) <= said[c]
    BY <1>1, TypeIs DEF NoneMissing
  <2>3. CASE c = r
    <3>1. c \notin over'
      BY <1>2, <2>3 DEF Requests
    <3> QED BY <1>2, <1>3, <1>5, <2>1, <2>2, <2>3, <3>1
  <2>4. CASE c # r
    <3>1. stage'[c] = stage[c] /\ got'[c] = got[c] /\ (c \in over' => c \in over)
      BY <1>2, <1>4, <2>4 DEF Requests
    <3> QED BY <1>1, <1>2, <2>1, <3>1 DEF NoneMissing
  <2> QED BY <2>3, <2>4
<1> QED BY <1>8, <1>10, <1>11, <1>12, <1>13 DEF IInv

LEMMA DispatchStep ==
  ASSUME IInv, Dispatch
  PROVE  IInv'
<1> DEFINE f == Head(downward)
           waited == f.of \in collectors
<1>1. TypeOK /\ Ends /\ OneTurn /\ InOrder /\ NoneMissing
  BY DEF IInv, WhatItReturns
<1>2. /\ UNCHANGED <<stage, collectors, conn, up, upward, reg, pending, turn, said, ended,
                     doing, server, holder, gone, request>>
      /\ downward # <<>> /\ downward' = Tail(downward)
  BY DEF Dispatch, mind, client
<1>3. /\ downward \in Seq(Frames) /\ downward' \in Seq(Frames)
      /\ f \in Frames /\ Len(downward) \in Nat /\ Len(downward) >= 1
      /\ DOMAIN downward = 1..Len(downward) /\ DOMAIN downward' = 1..(Len(downward) - 1)
      /\ downward[1] = f /\ 1 \in DOMAIN downward
      /\ \A i \in 1..(Len(downward) - 1) : downward'[i] = downward[i + 1]
  BY <1>2, TypeIs, HeadTailProperties
<1>4. /\ got' = IF waited /\ f.kind = "text" THEN [got EXCEPT ![f.of] = @ + 1] ELSE got
      /\ over' = IF waited /\ f.kind # "text" THEN over \cup {f.of} ELSE over
      /\ granted' = IF waited /\ f.kind = "granted" THEN granted \cup {f.of} ELSE granted
  BY DEF Dispatch
<1>5. ASSUME NEW c \in Calls
      PROVE  Texts(c)' = IF f = Frame(c, "text") THEN Texts(c) - 1 ELSE Texts(c)
  BY <1>2, <1>3, TextsTail DEF Texts
<1>6. ASSUME NEW i \in DOMAIN downward'
      PROVE  i + 1 \in DOMAIN downward /\ downward'[i] = downward[i + 1] /\ i \in Nat /\ i >= 1
  BY <1>3
<1>7. f.of \in Calls => /\ f.kind \in {"text", "end"} /\ Alive(f.of)
                        /\ f.kind = "end" => /\ f.of \in ended
                                             /\ \A j \in DOMAIN downward : j > 1 => downward[j].of # f.of
  BY <1>1, <1>3 DEF InOrder
<1>8. ASSUME NEW c \in Calls
      PROVE  (f.of = c /\ f.kind = "text") <=> f = Frame(c, "text")
  BY <1>3 DEF Frame, Frames
<1> HIDE DEF f
<1>9. ASSUME NEW c \in Calls, f.of = c, f.kind # "text" PROVE Texts(c) = 0 /\ c \in ended
  <2>1. TextsAt(c, downward) = {}
    <3>1. \A j \in DOMAIN downward : j > 1 => downward[j].of # c
      BY <1>7, <1>9
    <3>2. \A j \in DOMAIN downward : j > 1 \/ j = 1
      BY <1>3
    <3>3. downward[1] # Frame(c, "text")
      BY <1>3, <1>8, <1>9
    <3>4. \A j \in DOMAIN downward : j > 1 => downward[j] # Frame(c, "text")
      BY <3>1 DEF Frame
    <3> QED BY <3>2, <3>3, <3>4 DEF TextsAt
  <2> QED BY <1>7, <1>9, <2>1, FS_EmptySet DEF Texts
<1>10. ASSUME NEW c \in Calls
       PROVE  /\ got'[c] = IF c \in collectors /\ f = Frame(c, "text") THEN got[c] + 1 ELSE got[c]
              /\ c \in over' <=> c \in over \/ (c \in collectors /\ f.of = c /\ f.kind # "text")
  <2>1. got \in [Calls -> 0..MaxSaid]
    BY <1>1 DEF TypeOK
  <2> QED BY <1>4, <1>8, <2>1
<1>11. ASSUME NEW c \in Calls
       PROVE  /\ got'[c] + Texts(c)' <= said'[c] /\ got'[c] <= said'[c] /\ got'[c] \in Nat
              /\ stage'[c] = "waiting" /\ Alive(c)' => got'[c] + Texts(c)' = said'[c]
              /\ c \in over' => c \in ended' /\ got'[c] = said'[c]
  <2>1. /\ got[c] \in Nat /\ Texts(c) \in Nat /\ said[c] \in Nat /\ Texts(c)' \in Nat
        /\ got[c] + Texts(c) <= said[c]
        /\ stage[c] = "waiting" /\ Alive(c) => got[c] + Texts(c) = said[c]
        /\ c \in over => c \in ended /\ got[c] = said[c]
    BY <1>1, <1>3, TypeIs, TextsFinite DEF NoneMissing, Texts
  <2>2. c \in collectors <=> stage[c] = "waiting"
    BY <1>1 DEF TypeOK, Requests
  <2>3. (Alive(c)' <=> Alive(c)) /\ stage'[c] = stage[c] /\ said'[c] = said[c] /\ ended' = ended
    BY <1>2 DEF Alive
  <2>4. CASE f = Frame(c, "text")
    <3>1. f.of = c /\ f.kind = "text" /\ Alive(c)
      BY <1>7, <1>8, <2>4
    <3>2. Texts(c)' = Texts(c) - 1 /\ Texts(c) >= 1
      BY <1>5, <2>1, <2>4
    <3>3. c \in over' => c \in over
      BY <1>10, <3>1
    <3>4. CASE c \in collectors
      <4>1. c \notin over
        BY <2>1, <3>2
      <4> QED BY <1>10, <2>1, <2>2, <2>3, <2>4, <3>1, <3>2, <3>3, <3>4, <4>1
    <3>5. CASE c \notin collectors
      BY <1>10, <2>1, <2>2, <2>3, <2>4, <3>1, <3>2, <3>3, <3>5
    <3> QED BY <3>4, <3>5
  <2>5. CASE f # Frame(c, "text")
    <3>1. Texts(c)' = Texts(c) /\ got'[c] = got[c]
      BY <1>5, <1>10, <2>5
    <3>2. ASSUME c \in over', c \notin over PROVE c \in ended /\ got[c] = said[c]
      <4>1. c \in collectors /\ f.of = c /\ f.kind # "text"
        BY <1>10, <3>2
      <4>2. Texts(c) = 0 /\ c \in ended /\ Alive(c)
        BY <1>7, <1>9, <4>1
      <4> QED BY <2>1, <2>2, <4>1, <4>2
    <3> QED BY <2>1, <2>3, <3>1, <3>2
  <2> QED BY <2>4, <2>5
<1>12. NoneMissing'
  BY <1>11 DEF NoneMissing
<1>13. got' \in [Calls -> 0..MaxSaid]
  <2>1. got \in [Calls -> 0..MaxSaid] /\ \A c \in Calls : said[c] \in 0..MaxSaid
    BY <1>1 DEF TypeOK
  <2>2. CASE got' = got
    BY <2>1, <2>2
  <2>3. CASE got' = [got EXCEPT ![f.of] = @ + 1] /\ f.of \in Calls
    <3>1. \A c \in Calls : got'[c] \in 0..MaxSaid
      BY <1>2, <1>11, <2>1
    <3>2. DOMAIN got' = Calls /\ got' = [c \in Calls |-> got'[c]]
      BY <2>1, <2>3
    <3> QED BY <3>1, <3>2
  <2>4. CASE got' = [got EXCEPT ![f.of] = @ + 1] /\ f.of \notin Calls
    BY <2>1, <2>4
  <2> QED BY <1>4, <2>2, <2>3, <2>4
<1>14. TypeOK'
  <2>1. over' \subseteq collectors' /\ granted' \subseteq over'
    BY <1>1, <1>2, <1>4 DEF TypeOK
  <2>2. downward' \in Seq([of : Requests, kind : Kinds])
    BY <1>3 DEF Frames
  <2> QED BY <1>1, <1>2, <1>13, <2>1, <2>2 DEF TypeOK
<1>15. Ends'
  <2>1. up
    BY DEF Dispatch
  <2> QED BY <1>1, <1>2, <2>1 DEF Ends
<1>16. OneTurn'
  <2> SUFFICES ASSUME NEW c \in Calls PROVE Fresh(c) => Fresh(c)'
    BY <1>1, <1>2 DEF OneTurn, IsIn
  <2>1. Fresh(c) => f.of # c
    BY <1>3 DEF Fresh
  <2>2. Fresh(c) => \A i \in DOMAIN downward' : downward'[i].of # c
    BY <1>6 DEF Fresh
  <2>3. Fresh(c) => got'[c] = got[c]
    BY <1>8, <1>10, <2>1
  <2> QED BY <1>2, <2>2, <2>3 DEF Fresh
<1>17. InOrder'
  <2> SUFFICES ASSUME NEW i \in DOMAIN downward', downward'[i].of \in Calls
               PROVE  /\ downward'[i].kind \in {"text", "end"}
                      /\ up' /\ reg'[downward'[i].of] = conn'
                      /\ downward'[i].kind = "end" =>
                            /\ downward'[i].of \in ended'
                            /\ \A j \in DOMAIN downward' : j > i => downward'[j].of # downward'[i].of
    BY DEF InOrder, Alive
  <2>1. /\ downward[i + 1].kind \in {"text", "end"} /\ Alive(downward[i + 1].of)
        /\ downward[i + 1].kind = "end" =>
              /\ downward[i + 1].of \in ended
              /\ \A j \in DOMAIN downward : j > i + 1 => downward[j].of # downward[i + 1].of
    BY <1>1, <1>6 DEF InOrder
  <2>2. \A j \in DOMAIN downward' : j > i => j + 1 > i + 1
    BY <1>6
  <2>3. up' /\ reg'[downward'[i].of] = conn'
    BY <1>2, <1>6, <2>1 DEF Alive
  <2> QED BY <1>2, <1>6, <2>1, <2>2, <2>3
<1>18. WhatItReturns'
  <2> SUFFICES ASSUME NEW c \in Calls
               PROVE  /\ stage'[c] = "reply" => c \in ended' /\ got'[c] = said'[c] /\ got'[c] > 0
                      /\ stage'[c] = "no_response" => c \in ended' /\ said'[c] = 0
    BY <1>14 DEF WhatItReturns
  <2>1. stage[c] = "reply" => c \notin collectors
    BY <1>1 DEF TypeOK
  <2> QED BY <1>2, <1>10, <2>1 DEF IInv, WhatItReturns
<1> QED BY <1>12, <1>15, <1>16, <1>17, <1>18 DEF IInv

LEMMA DropsStep ==
  ASSUME IInv, Drops
  PROVE  IInv'
<1>1. TypeOK /\ Ends /\ OneTurn /\ InOrder /\ NoneMissing
  BY DEF IInv, WhatItReturns
<1>2. /\ UNCHANGED <<stage, collectors, got, over, granted, conn, reg, pending, turn, said, ended,
                     doing, server, holder, gone, request>>
      /\ up' = FALSE /\ upward' = <<>> /\ downward' = <<>>
      /\ DOMAIN upward' = {} /\ DOMAIN downward' = {}
  BY DEF Drops, peer, mind, client
<1>3. upward' \in Seq(Requests) /\ downward' \in Seq([of : Requests, kind : Kinds])
  BY <1>2, EmptySeq
<1>4. TypeOK'
  BY <1>1, <1>2, <1>3 DEF TypeOK
<1>5. WhatItReturns' /\ Ends'
  BY <1>1, <1>2, <1>4 DEF IInv, WhatItReturns, Ends
<1>6. OneTurn'
  BY <1>1, <1>2 DEF OneTurn, Fresh, IsIn
<1>7. InOrder'
  BY <1>2 DEF InOrder
<1>8. NoneMissing'
  <2> SUFFICES ASSUME NEW c \in Calls
               PROVE  /\ got'[c] + Texts(c)' <= said'[c]
                      /\ stage'[c] = "waiting" /\ Alive(c)' => got'[c] + Texts(c)' = said'[c]
                      /\ c \in over' => c \in ended' /\ got'[c] = said'[c]
    BY DEF NoneMissing
  <2>1. Texts(c)' = 0
    <3>1. TextsAt(c, downward') = {}
      BY <1>2 DEF TextsAt
    <3> QED BY <3>1, FS_EmptySet DEF Texts
  <2>2. ~Alive(c)'
    BY <1>2 DEF Alive
  <2>3. got[c] \in Nat /\ said[c] \in Nat /\ Texts(c) \in Nat
    BY TypeIs
  <2> QED BY <1>1, <1>2, <2>1, <2>2, <2>3 DEF NoneMissing
<1> QED BY <1>5, <1>6, <1>7, <1>8 DEF IInv

LEMMA ReconnectsStep ==
  ASSUME IInv, Reconnects
  PROVE  IInv'
<1>1. TypeOK /\ Ends /\ OneTurn /\ InOrder /\ NoneMissing
  BY DEF IInv, WhatItReturns
<1>2. /\ UNCHANGED <<stage, collectors, got, over, granted, reg, pending, turn, said, ended,
                     doing, server, holder, gone, request, upward, downward>>
      /\ ~up /\ up' = TRUE /\ conn' = conn + 1 /\ conn < MaxConns /\ conn \in Nat
  BY TypeIs DEF Reconnects, peer, mind, client
<1>3. downward = <<>> /\ DOMAIN downward' = {}
  BY <1>1, <1>2 DEF Ends
<1>4. reg' \in [Calls -> 0..conn']
  BY <1>1, <1>2 DEF TypeOK
<1>5. conn' \in 0..MaxConns
  BY <1>2
<1>6. TypeOK'
  BY <1>1, <1>2, <1>4, <1>5 DEF TypeOK
<1>7. WhatItReturns' /\ Ends'
  BY <1>1, <1>2, <1>6 DEF IInv, WhatItReturns, Ends
<1>8. OneTurn' /\ InOrder'
  BY <1>1, <1>2, <1>3 DEF OneTurn, Fresh, IsIn, InOrder
<1>9. \A c \in Calls : ~Alive(c)'
  BY <1>2, TypeIs DEF Alive
<1>10. NoneMissing'
  <2> SUFFICES ASSUME NEW c \in Calls
               PROVE  /\ got'[c] + Texts(c)' <= said'[c]
                      /\ stage'[c] = "waiting" /\ Alive(c)' => got'[c] + Texts(c)' = said'[c]
                      /\ c \in over' => c \in ended' /\ got'[c] = said'[c]
    BY DEF NoneMissing
  <2>1. Texts(c)' = Texts(c)
    BY <1>2 DEF Texts
  <2> QED BY <1>1, <1>2, <1>9, <2>1 DEF NoneMissing
<1> QED BY <1>7, <1>8, <1>10 DEF IInv

LEMMA DisconnectedStep ==
  ASSUME IInv, NEW k \in 1..MaxConns, Disconnected(k)
  PROVE  IInv'
<1>1. TypeOK /\ Ends /\ OneTurn /\ InOrder /\ NoneMissing
  BY DEF IInv, WhatItReturns
<1>2. /\ UNCHANGED <<stage, collectors, got, over, granted, conn, up, pending, turn, said, ended,
                     doing, server, holder, gone, request, upward, downward>>
      /\ k < conn \/ ~up
      /\ \A c \in Calls : reg'[c] = IF reg[c] = k THEN 0 ELSE reg[c]
  BY DEF Disconnected, peer, mind, client, wires
<1>3. reg' \in [Calls -> 0..conn']
  <2>1. 0 \in 0..conn /\ reg \in [Calls -> 0..conn]
    BY <1>1, TypeIs DEF TypeOK
  <2>2. reg' = [c \in Calls |-> IF reg[c] = k THEN 0 ELSE reg[c]]
    BY DEF Disconnected
  <2> QED BY <1>2, <2>1, <2>2
<1>4. TypeOK'
  BY <1>1, <1>2, <1>3 DEF TypeOK
<1>5. WhatItReturns' /\ Ends'
  BY <1>1, <1>2, <1>4 DEF IInv, WhatItReturns, Ends
<1>6. OneTurn'
  BY <1>1, <1>2 DEF OneTurn, Fresh, IsIn
<1>7. ASSUME NEW c \in Calls PROVE Alive(c)' <=> Alive(c)
  BY <1>1, <1>2, TypeIs DEF Alive, Ends
<1>8. InOrder'
  BY <1>1, <1>2, <1>7 DEF InOrder, Alive
<1>9. NoneMissing'
  <2>1. \A c \in Calls : Texts(c)' = Texts(c)
    BY <1>2 DEF Texts
  <2> QED BY <1>1, <1>2, <1>7, <2>1 DEF NoneMissing
<1> QED BY <1>5, <1>6, <1>8, <1>9 DEF IInv

\* What a turn does to the frames of its call: a frame more, on a connection
\* that lives, or nothing.
LEMMA Delivered ==
  ASSUME IInv, NEW c \in Calls, NEW what \in {"text", "end"}, c \notin ended,
         UNCHANGED <<conn, up, reg>>, downward' = Deliver(Frame(c, what)),
         ended' = IF what = "end" THEN ended \cup {c} ELSE ended
  PROVE  /\ downward' \in Seq(Frames) /\ InOrder'
         /\ \A b \in Calls : Texts(b)' = IF Alive(c) /\ b = c /\ what = "text"
                                         THEN Texts(b) + 1 ELSE Texts(b)
         /\ \A b : b # c /\ (\A i \in DOMAIN downward : downward[i].of # b)
                     => \A i \in DOMAIN downward' : downward'[i].of # b
<1> DEFINE f == Frame(c, what)
<1>1. InOrder /\ downward \in Seq(Frames)
  BY TypeIs DEF IInv
<1>2. f \in Frames /\ f.of = c /\ f.kind = what
  BY FrameIs DEF Requests, Kinds
<1>3. CASE ~Alive(c)
  <2>1. downward' = downward
    BY <1>2, <1>3 DEF Deliver, Alive
  <2>2. \A b \in Calls : Texts(b)' = Texts(b)
    BY <2>1 DEF Texts
  <2>3. InOrder'
    BY <1>1, <2>1 DEF InOrder, Alive
  <2> QED BY <1>1, <1>3, <2>1, <2>2, <2>3
<1>4. CASE Alive(c)
  <2>1. downward' = Append(downward, f)
    BY <1>2, <1>4 DEF Deliver, Alive
  <2>2. /\ downward' \in Seq(Frames) /\ Len(downward') = Len(downward) + 1
        /\ Len(downward) \in Nat /\ DOMAIN downward = 1..Len(downward)
        /\ DOMAIN downward' = 1..Len(downward') /\ downward'[Len(downward')] = f
        /\ \A i \in 1..Len(downward) : downward'[i] = downward[i]
    BY <1>1, <1>2, <2>1, AppendProperties
  <2>3. \A b \in Calls : f = Frame(b, "text") <=> b = c /\ what = "text"
    BY DEF Frame
  <2>4. ASSUME NEW b \in Calls
        PROVE  Texts(b)' = IF f = Frame(b, "text") THEN Texts(b) + 1 ELSE Texts(b)
    BY <1>1, <1>2, <2>1, TextsAppend DEF Texts
  <2>5. \A i \in DOMAIN downward' : i \in DOMAIN downward \/ i = Len(downward')
    BY <2>2
  <2> HIDE DEF f
  <2>6. InOrder'
    <3> SUFFICES ASSUME NEW i \in DOMAIN downward', downward'[i].of \in Calls
                 PROVE  /\ downward'[i].kind \in {"text", "end"}
                        /\ up' /\ reg'[downward'[i].of] = conn'
                        /\ downward'[i].kind = "end" =>
                              /\ downward'[i].of \in ended'
                              /\ \A j \in DOMAIN downward' : j > i => downward'[j].of # downward'[i].of
      BY DEF InOrder, Alive
    <3>1. CASE i \in DOMAIN downward
      <4>1. /\ downward'[i] = downward[i] /\ downward[i].kind \in {"text", "end"}
            /\ Alive(downward[i].of)
            /\ downward[i].kind = "end" =>
                  /\ downward[i].of \in ended
                  /\ \A j \in DOMAIN downward : j > i => downward[j].of # downward[i].of
        BY <1>1, <2>2, <3>1 DEF InOrder
      <4>2. downward[i].kind = "end" => downward[i].of # c
        BY <4>1
      <4> QED BY <1>2, <2>2, <2>5, <4>1, <4>2 DEF Alive
    <3>2. CASE i = Len(downward')
      <4>1. downward'[i] = f /\ \A j \in DOMAIN downward' : ~(j > i)
        BY <2>2, <3>2
      <4> QED BY <1>2, <1>4, <4>1 DEF Alive
    <3> QED BY <2>5, <3>1, <3>2
  <2>7. \A b : b # c /\ (\A i \in DOMAIN downward : downward[i].of # b)
                 => \A i \in DOMAIN downward' : downward'[i].of # b
    BY <1>2, <2>2, <2>5
  <2> QED BY <1>4, <2>2, <2>3, <2>4, <2>6, <2>7
<1> QED BY <1>3, <1>4

LEMMA SaysStep ==
  ASSUME IInv, Says
  PROVE  IInv'
<1>1. TypeOK /\ Ends /\ OneTurn /\ InOrder /\ NoneMissing
  BY DEF IInv, WhatItReturns
<1>2. /\ UNCHANGED <<stage, collectors, got, over, granted, conn, up, upward, reg, pending, turn,
                     ended, doing, server, holder, gone, request>>
      /\ turn \in Calls /\ said[turn] < MaxSaid /\ said' = [said EXCEPT ![turn] = @ + 1]
      /\ downward' = Deliver(Frame(turn, "text"))
  BY <1>1 DEF Says, peer, client, TypeOK
<1>3. turn \notin ended /\ turn \notin pending
  BY <1>1, <1>2 DEF OneTurn
<1>4. /\ downward' \in Seq(Frames) /\ InOrder'
      /\ \A b \in Calls : Texts(b)' = IF Alive(turn) /\ b = turn THEN Texts(b) + 1 ELSE Texts(b)
      /\ \A b : b # turn /\ (\A i \in DOMAIN downward : downward[i].of # b)
                  => \A i \in DOMAIN downward' : downward'[i].of # b
  <2>1. ended' = IF "text" = "end" THEN ended \cup {turn} ELSE ended
    BY <1>2
  <2> QED BY <1>2, <1>3, <2>1, Delivered
<1>5. /\ said' \in [Calls -> 0..MaxSaid]
      /\ \A b \in Calls : said'[b] = IF b = turn THEN said[b] + 1 ELSE said[b]
  BY <1>1, <1>2 DEF TypeOK
<1>6. TypeOK'
  BY <1>1, <1>2, <1>4, <1>5 DEF TypeOK, Frames
<1>7. WhatItReturns' /\ Ends'
  <2>1. up = FALSE => downward' = downward
    BY <1>2 DEF Deliver
  <2> QED BY <1>1, <1>2, <1>3, <1>5, <1>6, <2>1 DEF IInv, WhatItReturns, Ends
<1>8. OneTurn'
  <2> SUFFICES ASSUME NEW c \in Calls
               PROVE  /\ stage'[c] = "new" => ~IsIn(c, upward')
                      /\ stage'[c] = "new" \/ IsIn(c, upward') => Fresh(c)'
                      /\ \A i, j \in DOMAIN upward' : upward'[i] = c /\ upward'[j] = c => i = j
                      /\ c \in pending' => turn' # c /\ c \notin ended' /\ said'[c] = 0
                      /\ turn' = c => c \notin ended'
    BY DEF OneTurn
  <2>1. Fresh(c) => Fresh(c)'
    BY <1>2, <1>4, <1>5 DEF Fresh
  <2> QED BY <1>1, <1>2, <1>3, <1>5, <2>1 DEF OneTurn
<1>9. NoneMissing'
  <2> SUFFICES ASSUME NEW c \in Calls
               PROVE  /\ got'[c] + Texts(c)' <= said'[c]
                      /\ stage'[c] = "waiting" /\ Alive(c)' => got'[c] + Texts(c)' = said'[c]
                      /\ c \in over' => c \in ended' /\ got'[c] = said'[c]
    BY DEF NoneMissing
  <2>1. Alive(c)' <=> Alive(c)
    BY <1>2 DEF Alive
  <2>2. got[c] \in Nat /\ said[c] \in Nat /\ Texts(c) \in Nat
    BY TypeIs
  <2>3. c = turn => c \notin over
    BY <1>1, <1>3 DEF NoneMissing
  <2> QED BY <1>1, <1>2, <1>4, <1>5, <2>1, <2>2, <2>3 DEF NoneMissing
<1> QED BY <1>4, <1>7, <1>8, <1>9 DEF IInv

LEMMA TurnOverStep ==
  ASSUME IInv, turn # None, TurnOver(turn)
  PROVE  IInv'
<1>1. TypeOK /\ Ends /\ OneTurn /\ InOrder /\ NoneMissing
  BY DEF IInv, WhatItReturns
<1>2. /\ UNCHANGED <<stage, collectors, got, over, granted, conn, up, upward, reg, pending, said,
                     server, holder, gone>>
      /\ turn \in Calls /\ turn' = None /\ doing' = "thinking" /\ request' = "none"
      /\ ended' = ended \cup {turn} /\ downward' = Deliver(Frame(turn, "end"))
  BY <1>1 DEF TurnOver, peer, TypeOK
<1>3. turn \notin ended /\ turn \notin pending
  BY <1>1, <1>2 DEF OneTurn
<1>4. /\ downward' \in Seq(Frames) /\ InOrder'
      /\ \A b \in Calls : Texts(b)' = Texts(b)
      /\ \A b : b # turn /\ (\A i \in DOMAIN downward : downward[i].of # b)
                  => \A i \in DOMAIN downward' : downward'[i].of # b
  <2>1. ended' = IF "end" = "end" THEN ended \cup {turn} ELSE ended
    BY <1>2
  <2> QED BY <1>2, <1>3, <2>1, Delivered
<1>5. TypeOK'
  BY <1>1, <1>2, <1>4 DEF TypeOK, Frames
<1>6. WhatItReturns' /\ Ends'
  <2>1. up = FALSE => downward' = downward
    BY <1>2 DEF Deliver
  <2> QED BY <1>1, <1>2, <1>3, <1>5, <2>1 DEF IInv, WhatItReturns, Ends
<1>7. OneTurn'
  <2> SUFFICES ASSUME NEW c \in Calls
               PROVE  /\ stage'[c] = "new" => ~IsIn(c, upward')
                      /\ stage'[c] = "new" \/ IsIn(c, upward') => Fresh(c)'
                      /\ \A i, j \in DOMAIN upward' : upward'[i] = c /\ upward'[j] = c => i = j
                      /\ c \in pending' => turn' # c /\ c \notin ended' /\ said'[c] = 0
                      /\ turn' = c => c \notin ended'
    BY DEF OneTurn
  <2>1. Fresh(c) => Fresh(c)'
    BY <1>2, <1>4 DEF Fresh
  <2> QED BY <1>1, <1>2, <1>3, <2>1 DEF OneTurn
<1>8. NoneMissing'
  <2>1. \A c \in Calls : Alive(c)' <=> Alive(c)
    BY <1>2 DEF Alive
  <2> QED BY <1>1, <1>2, <1>4, <2>1 DEF NoneMissing
<1> QED BY <1>4, <1>6, <1>7, <1>8 DEF IInv

LEMMA TurnBeginsStep ==
  ASSUME IInv, NEW c \in Calls, TurnBegins(c)
  PROVE  IInv'
<1>1. TypeOK /\ Ends /\ OneTurn /\ InOrder /\ NoneMissing
  BY DEF IInv, WhatItReturns
<1>2. /\ UNCHANGED <<stage, collectors, got, over, granted, conn, up, upward, downward, reg, said,
                     ended, server, holder, gone, request>>
      /\ turn = None /\ c \in pending
      /\ turn' = c /\ pending' = pending \ {c} /\ doing' = "thinking"
  BY DEF TurnBegins, peer, wires, client
<1>3. TypeOK'
  BY <1>1, <1>2 DEF TypeOK, Ends
<1>4. WhatItReturns' /\ Ends'
  BY <1>1, <1>2, <1>3 DEF IInv, WhatItReturns, Ends
<1>5. OneTurn'
  <2>1. \A b \in Calls : Fresh(b) => Fresh(b)'
    BY <1>2 DEF Fresh
  <2>2. c \notin ended
    BY <1>1, <1>2 DEF OneTurn
  <2> QED BY <1>1, <1>2, <2>1, <2>2 DEF OneTurn
<1>6. InOrder' /\ NoneMissing'
  BY <1>1, <1>2 DEF InOrder, NoneMissing, Alive, Texts
<1> QED BY <1>4, <1>5, <1>6 DEF IInv

LEMMA HandleStep ==
  ASSUME IInv, Handle
  PROVE  IInv'
<1>1. TypeOK /\ Ends /\ OneTurn /\ InOrder /\ NoneMissing
  BY DEF IInv, WhatItReturns
<1>2. PICK r : r = Head(upward)
  OBVIOUS
<1>3. /\ UNCHANGED <<stage, collectors, got, over, granted, conn, up, turn, said, ended,
                     doing, server, holder, gone, request>>
      /\ up /\ upward' = Tail(upward) /\ upward # <<>>
  BY DEF Handle, peer, client
<1>4. /\ Len(upward) \in Nat /\ Len(upward) >= 1 /\ DOMAIN upward = 1..Len(upward)
      /\ upward' \in Seq(Requests) /\ DOMAIN upward' = 1..(Len(upward) - 1)
      /\ upward[1] = r /\ \A i \in 1..(Len(upward) - 1) : upward'[i] = upward[i + 1]
      /\ r \in Requests
  BY <1>2, <1>3, TypeIs, HeadTailProperties
<1>5. \A i \in DOMAIN upward' : i + 1 \in DOMAIN upward /\ i + 1 # 1 /\ upward'[i] = upward[i + 1]
  BY <1>4
<1>6. \A c \in Calls : IsIn(c, upward') => IsIn(c, upward)
  BY <1>5 DEF IsIn
<1>7. 1 \in DOMAIN upward
  BY <1>4
<1>8. r \in Calls => /\ IsIn(r, upward) /\ ~IsIn(r, upward') /\ Fresh(r) /\ stage[r] # "new"
  <2>1. r \in Calls => IsIn(r, upward)
    BY <1>4, <1>7 DEF IsIn
  <2>2. r \in Calls => ~IsIn(r, upward')
    BY <1>1, <1>4, <1>5, <1>7 DEF IsIn, OneTurn
  <2> QED BY <1>1, <2>1, <2>2 DEF OneTurn
<1>9. \A c \in Calls, i, j \in DOMAIN upward' : upward'[i] = c /\ upward'[j] = c => i = j
  <2> SUFFICES ASSUME NEW c \in Calls, NEW i \in DOMAIN upward', NEW j \in DOMAIN upward',
                      upward'[i] = c, upward'[j] = c
               PROVE  i = j
    OBVIOUS
  <2>1. i + 1 = j + 1
    BY <1>1, <1>5 DEF OneTurn
  <2> QED BY <1>4, <2>1
<1>10. CASE r \in Calls
  <2>1. reg' = [reg EXCEPT ![r] = conn] /\ pending' = pending \cup {r} /\ downward' = downward
    BY <1>2, <1>10 DEF Handle
  <2>2. reg' \in [Calls -> 0..conn'] /\ \A c \in Calls : reg'[c] = IF c = r THEN conn ELSE reg[c]
    BY <1>1, <1>3, <1>10, <2>1, TypeIs, SMTT(40) DEF TypeOK
  <2>3. TypeOK'
    BY <1>1, <1>3, <1>4, <1>10, <2>1, <2>2 DEF TypeOK
  <2>4. WhatItReturns' /\ Ends'
    BY <1>1, <1>3, <2>1, <2>3 DEF IInv, WhatItReturns, Ends
  <2>5. OneTurn'
    <3> SUFFICES ASSUME NEW c \in Calls
                 PROVE  /\ stage'[c] = "new" => ~IsIn(c, upward')
                        /\ stage'[c] = "new" \/ IsIn(c, upward') => Fresh(c)'
                        /\ c \in pending' => turn' # c /\ c \notin ended' /\ said'[c] = 0
                        /\ turn' = c => c \notin ended'
      BY <1>9 DEF OneTurn
    <3>1. c # r => (Fresh(c) => Fresh(c)')
      BY <1>3, <2>1, <2>2 DEF Fresh
    <3>2. Fresh(r)
      BY <1>8, <1>10
    <3>3. c \in pending' => turn' # c /\ c \notin ended' /\ said'[c] = 0
      BY <1>1, <1>3, <2>1, <3>2 DEF OneTurn, Fresh
    <3> QED BY <1>1, <1>3, <1>6, <1>8, <1>10, <3>1, <3>3 DEF OneTurn
  <2>6. InOrder'
    <3>1. \A c \in Calls : c # r => (Alive(c) => Alive(c)')
      BY <1>3, <2>2 DEF Alive
    <3>2. \A i \in DOMAIN downward : downward[i].of # r
      BY <1>8, <1>10 DEF Fresh
    <3> QED BY <1>1, <1>3, <2>1, <2>2, <3>2 DEF InOrder, Alive
  <2>7. NoneMissing'
    <3> SUFFICES ASSUME NEW c \in Calls
                 PROVE  /\ got'[c] + Texts(c)' <= said'[c]
                        /\ stage'[c] = "waiting" /\ Alive(c)' => got'[c] + Texts(c)' = said'[c]
                        /\ c \in over' => c \in ended' /\ got'[c] = said'[c]
      BY DEF NoneMissing
    <3>1. Texts(c)' = Texts(c)
      BY <2>1 DEF Texts
    <3>2. c = r => got[c] = 0 /\ said[c] = 0 /\ Texts(c) = 0
      <4>1. Fresh(r)
        BY <1>8, <1>10
      <4>2. TextsAt(r, downward) = {}
        BY <1>10, <4>1 DEF Fresh, TextsAt, Frame
      <4> QED BY <4>1, <4>2, FS_EmptySet DEF Fresh, Texts
    <3>3. c # r => (Alive(c)' <=> Alive(c))
      BY <1>3, <2>2 DEF Alive
    <3> QED BY <1>1, <1>3, <3>1, <3>2, <3>3 DEF NoneMissing
  <2> QED BY <2>4, <2>5, <2>6, <2>7 DEF IInv
<1>11. CASE r \notin Calls
  <2>1. reg' = reg /\ pending' = pending
    BY <1>2, <1>11 DEF Handle
  <2>2. PICK what \in {"granted", "denied"} : downward' = Append(downward, Frame(r, what))
    BY <1>2, <1>11 DEF Handle
  <2>3. PICK f : f = Frame(r, what)
    OBVIOUS
  <2>4. f \in Frames /\ f.of = r /\ f.kind = what /\ downward' = Append(downward, f)
    BY <1>4, <2>2, <2>3, FrameIs DEF Kinds
  <2>5. /\ downward' \in Seq(Frames) /\ Len(downward') = Len(downward) + 1
        /\ Len(downward) \in Nat /\ DOMAIN downward = 1..Len(downward)
        /\ DOMAIN downward' = 1..Len(downward') /\ downward'[Len(downward')] = f
        /\ \A i \in 1..Len(downward) : downward'[i] = downward[i]
    BY <2>4, TypeIs, AppendProperties
  <2>6. \A i \in DOMAIN downward' :
           \/ i \in DOMAIN downward /\ downward'[i] = downward[i]
           \/ downward'[i].of \notin Calls
    <3> TAKE i \in DOMAIN downward'
    <3>1. i \in 1..Len(downward) \/ i = Len(downward')
      BY <2>5
    <3> QED BY <1>11, <2>4, <2>5, <3>1
  <2>7. \A c \in Calls : Texts(c)' = Texts(c)
    <3> TAKE c \in Calls
    <3>1. f # Frame(c, "text")
      BY <1>11, <2>4, FrameIs DEF Requests, Kinds
    <3>2. Cardinality(TextsAt(c, Append(downward, f))) = Cardinality(TextsAt(c, downward))
      BY <2>4, <3>1, TextsAppend, TypeIs
    <3> QED BY <2>4, <3>2 DEF Texts
  <2>8. TypeOK'
    BY <1>1, <1>3, <1>4, <2>1, <2>5 DEF TypeOK, Frames
  <2>9. WhatItReturns' /\ Ends'
    BY <1>1, <1>3, <2>1, <2>8 DEF IInv, WhatItReturns, Ends
  <2>10. OneTurn'
    <3>1. \A c \in Calls : Fresh(c) => Fresh(c)'
      BY <1>3, <2>1, <2>6 DEF Fresh
    <3> QED BY <1>1, <1>3, <1>6, <1>9, <2>1, <3>1 DEF OneTurn
  <2>11. InOrder'
    BY <1>1, <1>3, <2>1, <2>6 DEF InOrder, Alive
  <2>12. NoneMissing'
    BY <1>1, <1>3, <2>1, <2>7 DEF NoneMissing, Alive
  <2> QED BY <2>9, <2>10, <2>11, <2>12 DEF IInv
<1> QED BY <1>10, <1>11

LEMMA RefusedStep ==
  ASSUME IInv, NEW q \in Queries, Refused(q)
  PROVE  IInv'
<1>1. /\ q \in Requests /\ q \notin Calls /\ "refused" \in Answers
      /\ stage' = [stage EXCEPT ![q] = "refused"]
  BY DEF Requests, Answers, Refused
<1>2. stage[q] = "new" /\ UNCHANGED <<collectors, over, granted, got, wires, reg, mind, client>>
  BY DEF Refused
<1>3. /\ q \notin collectors /\ over \subseteq collectors /\ granted \subseteq over
      /\ got \in [Calls -> 0..MaxSaid]
  BY <1>2 DEF IInv, WhatItReturns, TypeOK
<1>4. collectors' = collectors \ {q} /\ over' = over \ {q} /\ granted' = granted \ {q}
  BY <1>2, <1>3
<1>5. got' \in [Calls -> 0..MaxSaid] /\ \A c \in Calls : c # q => got'[c] = got[c]
  BY <1>2, <1>3
<1> QED BY <1>1, <1>2, <1>4, <1>5, StopsStep

\* The done event is set by the end of the turn, which came after all she said.
LEMMA ReturnsStep ==
  ASSUME IInv, NEW r \in Requests, Returns(r)
  PROVE  IInv'
<1>1. PICK result : result = Verdict(r)
  OBVIOUS
<1>2. TypeOK /\ NoneMissing /\ stage' = [stage EXCEPT ![r] = result]
  BY <1>1 DEF IInv, WhatItReturns, Returns
<1>3. stage[r] = "waiting" /\ UNCHANGED <<wires, reg, mind, client>>
  BY DEF Returns
<1>4. collectors' = collectors \ {r} /\ over' = over \ {r} /\ granted' = granted \ {r}
  BY DEF Returns, Popped
<1>5. got' = got /\ got' \in [Calls -> 0..MaxSaid]
  BY <1>2 DEF Returns, TypeOK
<1>6. CASE r \in Calls
  <2>1. r \notin Queries /\ result = IF got[r] = 0 THEN "no_response" ELSE "reply"
    BY <1>1, <1>6 DEF Verdict
  <2>2. r \in ended /\ got[r] = said[r] /\ got[r] \in Nat
    BY <1>2, <1>6, TypeIs DEF NoneMissing, Returns
  <2>3. /\ result \in Outcomes /\ (result = "reply" => got[r] > 0)
        /\ result = "no_response" => got[r] = 0
    BY <2>1, <2>2 DEF Outcomes
  <2> QED BY <1>2, <1>3, <1>4, <1>5, <2>1, <2>2, <2>3, StopsStep
<1>7. CASE r \in Queries
  <2>1. r \notin Calls /\ result = IF r \in granted THEN "payload" ELSE "rejected"
    BY <1>1, <1>7 DEF Verdict
  <2>2. result \in Answers
    BY <2>1 DEF Answers
  <2> QED BY <1>2, <1>3, <1>4, <1>5, <2>1, <2>2, StopsStep
<1> QED BY <1>6, <1>7 DEF Requests

LEMMA ExpiresStep ==
  ASSUME IInv, NEW r \in Requests, Expires(r)
  PROVE  IInv'
<1>1. "timeout" \in Outcomes /\ "timeout" \in Answers
  BY DEF Outcomes, Answers
<1>2. /\ stage[r] = "waiting" /\ stage' = [stage EXCEPT ![r] = "timeout"]
      /\ collectors' = collectors \ {r} /\ over' = over \ {r} /\ granted' = granted \ {r}
      /\ UNCHANGED <<wires, reg, mind, client>>
  BY DEF Expires, Popped
<1>3. got \in [Calls -> 0..MaxSaid] /\ 0 \in 0..MaxSaid
  BY DEF IInv, WhatItReturns, TypeOK
<1>4. /\ got' \in [Calls -> 0..MaxSaid] /\ \A c \in Calls : c # r => got'[c] = got[c]
      /\ r \in Calls => got'[r] = 0
  BY <1>3 DEF Expires
<1> QED BY <1>1, <1>2, <1>4, StopsStep

\* The MCP server, its holder and the call in flight.
LEMMA ServerStep ==
  ASSUME IInv,
         CallsTool \/ ToolReturns \/ ToolTimesOut \/ Boots \/ ServerAnswers \/ ServerDies \/ CallMisses
  PROVE  IInv'
<1>1. TypeOK /\ Ends
  BY DEF IInv, WhatItReturns
<1>2. UNCHANGED <<stage, collectors, got, over, granted, conn, up, upward, downward, reg, pending,
                  turn, said, ended>>
  BY DEF CallsTool, ToolReturns, ToolTimesOut, Boots, ServerAnswers, ServerDies, CallMisses,
         peer, wires, mind
<1>3. /\ doing' \in {"thinking", "calling", "told"} /\ (doing' = "calling" <=> request' # "none")
      /\ server' \in {"booting", "running", "dead"} /\ holder' \in {"starting", "holding", "ended"}
      /\ (gone' => server' = "dead")
      /\ holder' = "ended" => server' = "dead"
      /\ request' = "closed" => server' = "dead"
      /\ turn' = None => doing' = "thinking"
  <2>1. CASE CallsTool
    BY <1>1, <2>1 DEF CallsTool, TypeOK, Ends
  <2>2. CASE ToolReturns
    BY <1>1, <2>2 DEF ToolReturns, TypeOK, Ends
  <2>3. CASE ToolTimesOut
    BY <1>1, <2>3 DEF ToolTimesOut, TypeOK, Ends
  <2>4. CASE Boots
    BY <1>1, <2>4 DEF Boots, TypeOK, Ends, mind
  <2>5. CASE ServerAnswers
    BY <1>1, <2>5 DEF ServerAnswers, TypeOK, Ends, mind
  <2>6. CASE ServerDies
    BY <1>1, <2>6 DEF ServerDies, TypeOK, Ends, mind
  <2>7. CASE CallMisses
    BY <1>1, <2>7 DEF CallMisses, TypeOK, Ends, mind
  <2> QED BY <2>1, <2>2, <2>3, <2>4, <2>5, <2>6, <2>7
<1>4. TypeOK'
  BY <1>1, <1>2, <1>3 DEF TypeOK
<1>5. Ends'
  BY <1>1, <1>2, <1>3 DEF Ends
<1> QED BY <1>2, <1>4, <1>5, AsideStep

LEMMA StepIInv ==
  ASSUME IInv, [Next]_vars
  PROVE  IInv'
<1>1. CASE UNCHANGED vars
  <2>1. UNCHANGED <<stage, collectors, got, over, granted, conn, up, upward, downward, reg, pending,
                    turn, said, ended, doing, server, holder, offered, gone, request>>
    BY <1>1 DEF vars, peer, wires, mind, client
  <2>2. TypeOK' /\ Ends'
    BY <2>1 DEF IInv, WhatItReturns, TypeOK, Ends
  <2> QED BY <2>1, <2>2, AsideStep
<1>2. CASE \E r \in Requests : Sends(r) \/ Returns(r) \/ Expires(r)
  BY <1>2, SendsStep, ReturnsStep, ExpiresStep
<1>3. CASE \E q \in Queries : Refused(q)
  BY <1>3, RefusedStep
<1>4. CASE Dispatch \/ Drops \/ Reconnects \/ Handle
  BY <1>4, DispatchStep, DropsStep, ReconnectsStep, HandleStep
<1>5. CASE \E k \in 1..MaxConns : Disconnected(k)
  BY <1>5, DisconnectedStep
<1>6. CASE \E c \in Calls : TurnBegins(c)
  BY <1>6, TurnBeginsStep
<1>7. CASE TurnEnds \/ TurnIsCut
  BY <1>7, TurnOverStep DEF TurnEnds, TurnIsCut
<1>8. CASE Says
  BY <1>8, SaysStep
<1>9. CASE CallsTool \/ ToolReturns \/ ToolTimesOut \/ Boots \/ ServerAnswers \/ ServerDies \/ CallMisses
  BY <1>9, ServerStep
<1> QED BY <1>1, <1>2, <1>3, <1>4, <1>5, <1>6, <1>7, <1>8, <1>9 DEF Next, Turns

-----------------------------------------------------------------------------
(* The two ends of the connector and the daemon between them agree: who     *)
(* waits, which frames are on the wire and where from, whose turn it is,    *)
(* and how many of the sentences of a turn have arrived.                    *)
THEOREM Agreement == Spec => []IInv
<1>1. Init => IInv
  BY InitIInv
<1>2. IInv /\ [Next]_vars => IInv'
  BY StepIInv
<1> QED BY <1>1, <1>2, PTL DEF Spec

(* What talk() returns is what happened in her turn, however often the      *)
(* connection is lost and made again and whichever call times out: a reply  *)
(* is all she said in a turn that is over, and no_response a turn that is   *)
(* over in which she said nothing.                                          *)
THEOREM Honest == Spec => []WhatItReturns
<1>1. IInv => WhatItReturns
  BY DEF IInv
<1> QED BY <1>1, Agreement, PTL

-----------------------------------------------------------------------------
(* Bridge, the other process at the daemon's socket, for any number of        *)
(* messages, replays, crashes and lost connections: what it captures and what  *)
(* it sends.                                                                   *)

HIDE McpAssumption

-----------------------------------------------------------------------------
(* Bridge: the inductive invariant                                          *)

\* Whoever awaits has logged what he awaits for, and it is none of Doll's own.
Tracked ==
    \A m \in Messages :
        /\ due[m] # "no" => m \in Posted
        /\ forwarded[m] > 0 => m \in Posted
        /\ awaiting[m] # "none" => m \in seen /\ kind[m] # "filtered"
        /\ phase = "dead" => awaiting[m] = "none"

\* What was forwarded is on record, and nobody awaits to forward it again; what
\* the next process will not know was appended to a torn line.
Once ==
    /\ ForwardedOnce
    /\ \A m \in Posted \ glued : forwarded[m] > 0 => m \in seen /\ awaiting[m] = "none"
    /\ seen \subseteq lines \union glued

\* What was fetched is on record, or is still to be replayed.
Replayed ==
    /\ phase = "filling" => fetched \subseteq seen \union todo
    /\ GapIsFilled

\* What is known to be registered is, and so is what awaits only its return.
SinksKnown ==
    /\ registered \subseteq sinks
    /\ \A m \in Messages : awaiting[m] = "registering" => Chan(m) \in sinks

BInv == BridgeTypeOK /\ Tracked /\ Once /\ Replayed /\ SinksKnown

USE BridgeAssumption

Callers == {"live", "stale", "fill"}

\* What a step of the handler or the replay of m comes to: it awaits or it has
\* returned; it has registered the channel, or has just seen that done; it has
\* sent at most m, over a connection with a sink for it.
Outcome(m, who) ==
    \E s \in {"none", "gate", "registering"} :
        /\ awaiting' = [awaiting EXCEPT ![m] = s]
        /\ whose' = [whose EXCEPT ![m] = IF s = "none" THEN Unset ELSE who]
        /\ s # "none" => who # "stale"
        /\ todo' \in {todo, todo \ {m}}
        /\ due' \in {due, [due EXCEPT ![m] = "no"]}
        /\ phase' \in {phase, "broken"} /\ link' = link /\ deaf' = deaf
        /\ sinks' \in {sinks, sinks \union {Chan(m)}}
        /\ s = "registering" => Chan(m) \in sinks'
        /\ \/ registered' = registered
           \/ registered' = registered \union {Chan(m)} /\ Chan(m) \in sinks
        /\ \/ forwarded' = forwarded
           \/ /\ s = "none" /\ Chan(m) \in sinks /\ kind[m] # "filtered"
              /\ forwarded' = [forwarded EXCEPT ![m] = @ + 1]
        /\ s # "none" => kind[m] # "filtered"

LEMMA InitHolds == ASSUME BridgeInit PROVE BInv
<1>1. BridgeTypeOK
  <2>1. kind \in Seq(Posts) /\ Len(kind) = 0
    BY DEF BridgeInit
  <2>2. /\ due \in [Messages -> {"no", "live", "stale"}]
        /\ awaiting \in [Messages -> {"none", "gate", "registering"}]
        /\ whose \in [Messages -> {Unset, "live", "fill"}] /\ forwarded \in [Messages -> Nat]
        /\ \A m \in Messages : awaiting[m] = "none" <=> whose[m] = Unset
    BY DEF BridgeInit
  <2>3. /\ phase \in {"down", "login", "fetching", "filling", "serving", "broken", "exited", "dead"}
        /\ link \in BOOLEAN /\ deaf \in BOOLEAN /\ member \in {Unset, "yes", "no"}
        /\ reply \in {"none", "waiting", "limited"}
    BY DEF BridgeInit
  <2>5. crashes \in 0..MaxCrashes /\ faults \in 0..MaxFaults
    BY DEF BridgeInit
  <2>4. /\ lines = {} /\ seen = {} /\ glued = {} /\ torn = {} /\ registered = {} /\ todo = {}
        /\ sinks = {} /\ fetched = {} /\ 0 <= MaxMessages
    BY DEF BridgeInit
  <2> QED BY <2>1, <2>2, <2>3, <2>4, <2>5 DEF BridgeTypeOK
<1>2. Tracked /\ Once /\ Replayed /\ SinksKnown
  BY DEF BridgeInit, Tracked, Once, Replayed, SinksKnown, ForwardedOnce, GapIsFilled, Posted
<1> QED BY <1>1, <1>2 DEF BInv

LEMMA AwaitOut ==
  ASSUME NEW m \in Messages, NEW who \in Callers, NEW s \in {"none", "gate", "registering"},
         Await(m, who, s), s # "none" => who # "stale" /\ kind[m] # "filtered",
         sinks' \in {sinks, sinks \union {Chan(m)}},
         s = "registering" => Chan(m) \in sinks',
         \/ registered' = registered
         \/ registered' = registered \union {Chan(m)} /\ Chan(m) \in sinks,
         \/ forwarded' = forwarded
         \/ /\ s = "none" /\ Chan(m) \in sinks /\ kind[m] # "filtered"
            /\ forwarded' = [forwarded EXCEPT ![m] = @ + 1]
  PROVE  Outcome(m, who)
BY DEF Await, Done, Outcome

LEMMA ReturnOut ==
  ASSUME NEW m \in Messages, NEW who \in Callers, Return(m, who)
  PROVE  Outcome(m, who)
BY AwaitOut DEF Return

LEMMA RaisesOut ==
  ASSUME NEW m \in Messages, NEW who \in Callers, SendRaises(m, who)
  PROVE  Outcome(m, who)
<1>1. CASE who # "fill"
  BY <1>1, ReturnOut DEF SendRaises
<1>2. CASE who = "fill"
  BY <1>2 DEF SendRaises, Outcome
<1> QED BY <1>1, <1>2

LEMMA ClearedOut ==
  ASSUME NEW m \in Messages, NEW who \in Callers, SinksKnown, kind[m] # "filtered",
         Cleared(m, who)
  PROVE  Outcome(m, who)
<1>1. CASE ~Open(who)
  BY <1>1, RaisesOut DEF Cleared
<1>2. CASE Open(who) /\ Chan(m) \in registered
  <2>1. Chan(m) \in sinks
    BY <1>2 DEF SinksKnown
  <2> QED BY <1>2, <2>1, AwaitOut DEF Cleared, Forward
<1>3. CASE Open(who) /\ Chan(m) \notin registered
  <2>1. Await(m, who, "registering") /\ who # "stale"
    BY <1>3 DEF Cleared, Open
  <2>2. sinks' = sinks \union {Chan(m)} /\ registered' = registered /\ forwarded' = forwarded
    BY <1>3 DEF Cleared
  <2> QED BY <2>1, <2>2, AwaitOut
<1> QED BY <1>1, <1>2, <1>3

\* A caller that finds m logged changes nothing but where it stands itself.
Skips(m) ==
    /\ todo' \in {todo, todo \ {m}} /\ due' \in {due, [due EXCEPT ![m] = "no"]}
    /\ UNCHANGED <<phase, link, deaf, awaiting, whose, registered, sinks, forwarded, file>>

LEMMA CaptureOut ==
  ASSUME NEW m \in Messages, NEW who \in Callers, SinksKnown, Capture(m, who)
  PROVE  (m \in seen /\ Skips(m)) \/ (m \notin seen /\ Logged(m) /\ Outcome(m, who))
<1>1. CASE m \in seen
  BY <1>1 DEF Capture, Skips, Done
<1>2. CASE m \notin seen
  <2>1. Logged(m)
    BY <1>2 DEF Capture
  <2>2. Outcome(m, who)
    <3>1. CASE Return(m, who)
      BY <3>1, ReturnOut
    <3>2. CASE Cleared(m, who) /\ kind[m] # "filtered"
      BY <3>2, ClearedOut
    <3>3. CASE /\ kind[m] = "guild" /\ who # "stale" /\ Await(m, who, "gate")
               /\ UNCHANGED <<registered, sinks, forwarded>>
      BY <3>3, AwaitOut
    <3> QED BY <1>2, <3>1, <3>2, <3>3 DEF Capture
  <2> QED BY <1>2, <2>1, <2>2
<1> QED BY <1>1, <1>2

\* A message is logged, or it has been; either way the file stays true.
Filed(m) == (m \notin seen /\ Logged(m)) \/ (m \in seen /\ awaiting[m] # "none" /\ UNCHANGED file)

LEMMA OutcomeKeeps ==
  ASSUME BInv, NEW m \in Posted, NEW who \in Callers, Outcome(m, who), Filed(m),
         phase # "dead", UNCHANGED <<kind, fetched, crashes, faults>>,
         member' \in {Unset, "yes", "no"}, reply' \in {"none", "waiting", "limited"}
  PROVE  BInv'
<1>0. BridgeTypeOK /\ m \in Messages
  BY DEF BInv, BridgeTypeOK, Posted, Messages
<1>1. PICK s \in {"none", "gate", "registering"} :
        /\ awaiting' = [awaiting EXCEPT ![m] = s]
        /\ whose' = [whose EXCEPT ![m] = IF s = "none" THEN Unset ELSE who]
        /\ s # "none" => who # "stale"
        /\ todo' \in {todo, todo \ {m}}
        /\ due' \in {due, [due EXCEPT ![m] = "no"]}
        /\ phase' \in {phase, "broken"} /\ link' = link /\ deaf' = deaf
        /\ sinks' \in {sinks, sinks \union {Chan(m)}}
        /\ s = "registering" => Chan(m) \in sinks'
        /\ \/ registered' = registered
           \/ registered' = registered \union {Chan(m)} /\ Chan(m) \in sinks
        /\ \/ forwarded' = forwarded
           \/ /\ s = "none" /\ Chan(m) \in sinks /\ kind[m] # "filtered"
              /\ forwarded' = [forwarded EXCEPT ![m] = @ + 1]
        /\ s # "none" => kind[m] # "filtered"
  BY DEF Outcome
<1>2. /\ Chan(m) \in Channels /\ Posted' = Posted /\ \A n \in Messages : Chan(n)' = Chan(n)
  BY DEF Chan, Channels, Posted
<1>3. /\ seen' = seen \union {m} /\ torn' \subseteq torn
      /\ glued \subseteq glued' /\ glued' \subseteq glued \union {m}
      /\ lines \subseteq lines' /\ lines' \subseteq lines \union {m}
      /\ seen' \subseteq lines' \union glued'
  BY DEF Filed, Logged, file, BInv, Once
<1>4. BridgeTypeOK'
  <2>1. /\ awaiting' \in [Messages -> {"none", "gate", "registering"}]
        /\ whose' \in [Messages -> {Unset, "live", "fill"}]
        /\ due' \in [Messages -> {"no", "live", "stale"}]
        /\ forwarded' \in [Messages -> Nat]
    BY <1>0, <1>1 DEF BridgeTypeOK, Callers
  <2>2. \A n \in Messages : awaiting'[n] = "none" <=> whose'[n] = Unset
    BY <1>0, <1>1 DEF BridgeTypeOK, Callers
  <2>3. /\ lines' \subseteq Posted /\ seen' \subseteq Posted /\ glued' \subseteq Posted
        /\ torn' \subseteq Channels /\ registered' \subseteq Channels
        /\ todo' \subseteq Posted /\ sinks' \subseteq Channels /\ fetched' \subseteq Posted
    BY <1>0, <1>1, <1>2, <1>3 DEF BridgeTypeOK
  <2>4. phase' \in {"down", "login", "fetching", "filling", "serving", "broken", "exited", "dead"}
    BY <1>0, <1>1 DEF BridgeTypeOK
  <2> QED BY <1>0, <1>1, <1>2, <2>1, <2>2, <2>3, <2>4 DEF BridgeTypeOK
<1>5. Tracked'
  BY <1>0, <1>1, <1>2, <1>3 DEF BInv, Tracked, BridgeTypeOK
<1>6. m \in glued \/ (forwarded[m] = 0)
  BY DEF Filed, BInv, Once, BridgeTypeOK, ForwardedOnce, Posted, Messages
<1>7. Once'
  <2>1. ForwardedOnce'
    BY <1>0, <1>1, <1>2, <1>3, <1>6, SMTT(30) DEF BInv, Once, ForwardedOnce, BridgeTypeOK, Posted, Messages
  <2>2. \A n \in Posted \ glued' : forwarded'[n] > 0 => n \in seen' /\ awaiting'[n] = "none"
    BY <1>0, <1>1, <1>2, <1>3, <1>6 DEF BInv, Once, BridgeTypeOK, Posted, Messages
  <2> QED BY <1>2, <1>3, <2>1, <2>2 DEF Once
<1>8. Replayed'
  BY <1>1, <1>3 DEF BInv, Replayed, GapIsFilled
<1>9. SinksKnown'
  BY <1>0, <1>1, <1>2 DEF BInv, SinksKnown, BridgeTypeOK
<1> QED BY <1>4, <1>5, <1>7, <1>8, <1>9 DEF BInv

LEMMA SkipKeeps ==
  ASSUME BInv, NEW m \in seen, Skips(m), UNCHANGED <<kind, member, reply, fetched, budget>>
  PROVE  BInv'
<1>1. /\ UNCHANGED <<kind, member, reply, fetched, crashes, faults>>
      /\ UNCHANGED <<phase, link, deaf, awaiting, whose, registered, sinks, forwarded>>
      /\ UNCHANGED <<lines, torn, seen, glued>>
      /\ todo' \subseteq todo /\ (\A n \in todo : n \in todo' \union {m})
  BY DEF Skips, file, budget
<1>2. due' \in [Messages -> {"no", "live", "stale"}] /\ \A n \in Messages : due'[n] # "no" => due[n] # "no"
  BY DEF Skips, BInv, BridgeTypeOK
<1>3. BridgeTypeOK'
  BY <1>1, <1>2 DEF BInv, BridgeTypeOK, Posted
<1>4. Tracked' /\ Once' /\ SinksKnown'
  BY <1>1, <1>2 DEF BInv, Tracked, Once, SinksKnown, ForwardedOnce, Posted, Chan
<1>5. Replayed'
  BY <1>1 DEF BInv, Replayed, GapIsFilled
<1> QED BY <1>3, <1>4, <1>5 DEF BInv

LEMMA CaptureKeeps ==
  ASSUME BInv, NEW m \in Posted, NEW who \in Callers, Capture(m, who),
         phase # "dead", UNCHANGED <<kind, member, reply, fetched, budget>>
  PROVE  BInv'
<1>1. m \in Messages /\ SinksKnown /\ member \in {Unset, "yes", "no"}
      /\ reply \in {"none", "waiting", "limited"} /\ UNCHANGED <<kind, fetched, crashes, faults>>
  BY DEF BInv, BridgeTypeOK, Posted, Messages, budget
<1>2. CASE m \in seen /\ Skips(m)
  BY <1>2, SkipKeeps
<1>3. CASE m \notin seen /\ Logged(m) /\ Outcome(m, who)
  <2>1. Filed(m)
    BY <1>3 DEF Filed
  <2> QED BY <1>1, <1>3, <2>1, OutcomeKeeps
<1> QED BY <1>1, <1>2, <1>3, CaptureOut

LEMMA HandlersKeep ==
  ASSUME BInv, NEW m \in Messages,
         \/ Begin(m) \/ Fill(m) \/ Registered(m) \/ \E a \in {"yes", "no"} : GateAnswers(m, a)
  PROVE  BInv'
<1>0. BridgeTypeOK /\ SinksKnown /\ (due[m] # "no" => m \in Posted) /\ Posted \subseteq Messages
  BY DEF BInv, Tracked, Posted, Messages, BridgeTypeOK
<1>1. CASE Begin(m)
  <2>1. due[m] \in Callers /\ m \in Posted
    BY <1>0, <1>1 DEF Begin, Callers, BridgeTypeOK
  <2> QED BY <1>1, <2>1, CaptureKeeps DEF Begin
<1>2. CASE Fill(m)
  <2>1. m \in Posted /\ phase = "filling" /\ "fill" \in Callers
    BY <1>0, <1>2 DEF Fill, Replays, BridgeTypeOK, Callers
  <2> QED BY <1>2, <2>1, CaptureKeeps DEF Fill
<1>3. ASSUME awaiting[m] # "none"
      PROVE  /\ m \in Posted /\ m \in seen /\ phase # "dead" /\ kind[m] # "filtered"
             /\ whose[m] \in Callers
  BY <1>0, <1>3 DEF BInv, Tracked, BridgeTypeOK, Callers
<1>4. CASE \E a \in {"yes", "no"} : GateAnswers(m, a)
  <2>1. PICK a \in {"yes", "no"} : GateAnswers(m, a)
    BY <1>4
  <2>2. awaiting[m] # "none" /\ member' = a /\ UNCHANGED <<kind, fetched, crashes, faults, reply, file>>
    BY <2>1 DEF GateAnswers, budget
  <2>3. Outcome(m, whose[m])
    BY <1>0, <1>3, <2>1, <2>2, ClearedOut, ReturnOut DEF GateAnswers
  <2>4. Filed(m) /\ reply \in {"none", "waiting", "limited"}
    BY <1>0, <1>3, <2>2 DEF Filed, BridgeTypeOK
  <2> QED BY <1>3, <2>2, <2>3, <2>4, OutcomeKeeps
<1>5. CASE Registered(m)
  <2>1. awaiting[m] = "registering" /\ UNCHANGED <<kind, fetched, crashes, faults, member, reply, file>>
    BY <1>5 DEF Registered, budget
  <2>2. Chan(m) \in sinks
    BY <1>0, <2>1 DEF SinksKnown
  <2>3. Outcome(m, whose[m])
    <3>1. CASE Open(whose[m])
      <4>1. Forward(m, whose[m]) /\ registered' = registered \union {Chan(m)}
        BY <1>5, <3>1 DEF Registered
      <4> QED BY <1>3, <2>1, <2>2, <4>1, AwaitOut DEF Forward
    <3>2. CASE ~Open(whose[m])
      BY <1>3, <1>5, <2>1, <3>2, RaisesOut DEF Registered
    <3> QED BY <3>1, <3>2
  <2>4. /\ Filed(m) /\ reply \in {"none", "waiting", "limited"} /\ member \in {Unset, "yes", "no"}
    BY <1>0, <1>3, <2>1 DEF Filed, BridgeTypeOK
  <2> QED BY <1>3, <2>1, <2>3, <2>4, OutcomeKeeps
<1> QED BY <1>1, <1>2, <1>4, <1>5

LEMMA PostKeeps == ASSUME BInv, NEW k \in Posts, Post(k) PROVE BInv'
<1> DEFINE new == Len(kind) + 1
<1>1. /\ BridgeTypeOK /\ Len(kind) \in Nat /\ Len(kind) < MaxMessages /\ kind' = Append(kind, k)
      /\ UNCHANGED <<phase, link, deaf, awaiting, whose, registered, member, todo, reply, sinks,
                      fetched, forwarded, crashes, faults>>
      /\ UNCHANGED <<lines, torn, seen, glued>>
      /\ due' = IF Listening THEN [due EXCEPT ![new] = "live"] ELSE due
  BY DEF BInv, BridgeTypeOK, Post, file, session, budget
<1>2. /\ kind' \in Seq(Posts) /\ Len(kind') = Len(kind) + 1
      /\ \A n \in 1..Len(kind) : kind'[n] = kind[n]
  BY <1>1 DEF BridgeTypeOK
<1>3. /\ new \in Messages /\ new \notin Posted /\ Posted' = Posted \union {new}
      /\ Posted \subseteq Messages
  BY <1>1, <1>2 DEF Posted, Messages, BridgeTypeOK
<1>4. \A n \in Posted : kind'[n] = kind[n] /\ Chan(n)' = Chan(n)
  BY <1>2 DEF Posted, Chan
<1>5. due' \in [Messages -> {"no", "live", "stale"}] /\ \A n \in Messages : due'[n] # "no" => n \in Posted'
  BY <1>1, <1>3 DEF BInv, Tracked, BridgeTypeOK
<1>6. forwarded[new] = 0 /\ awaiting[new] = "none"
  BY <1>1, <1>3 DEF BInv, Tracked, BridgeTypeOK
<1>7. BridgeTypeOK'
  BY <1>1, <1>2, <1>3, <1>5 DEF BridgeTypeOK
<1>8. Tracked'
  BY <1>1, <1>3, <1>4, <1>5 DEF BInv, Tracked, BridgeTypeOK
<1>9. Once'
  <2>1. forwarded'[new] = 0
    BY <1>1, <1>6
  <2>2. ForwardedOnce'
    <3>1. forwarded' = forwarded /\ glued' = glued /\ \A n \in Posted : kind'[n] = kind[n]
      BY <1>1, <1>4
    <3>2. ForwardedOnce /\ \A n \in Posted' : n \in Posted \/ n = new
      BY <1>3 DEF BInv, Once
    <3> QED BY <2>1, <3>1, <3>2 DEF ForwardedOnce
  <2>3. \A n \in Posted' \ glued' : forwarded'[n] > 0 => n \in seen' /\ awaiting'[n] = "none"
    BY <1>1, <1>3, <2>1 DEF BInv, Once
  <2> QED BY <1>1, <2>2, <2>3 DEF BInv, Once
<1>10. Replayed'
  BY <1>1 DEF BInv, Replayed, GapIsFilled
<1>11. SinksKnown'
  BY <1>1, <1>3, <1>4 DEF BInv, SinksKnown, Tracked, BridgeTypeOK
<1> QED BY <1>7, <1>8, <1>9, <1>10, <1>11 DEF BInv

\* What ends a connection, with what becomes of what was delivered.
LEMMA EndsKeep ==
  ASSUME BInv, Abandon, ForgetSession, phase' \in {"down", "exited", "dead"},
         link' \in BOOLEAN, deaf' \in BOOLEAN, torn' \subseteq Channels,
         due' \in [Messages -> {"no", "live", "stale"}],
         \A m \in Messages : due'[m] # "no" => due[m] # "no",
         UNCHANGED <<kind, lines, seen, glued, forwarded>>,
         crashes' \in 0..MaxCrashes, faults' \in 0..MaxFaults
  PROVE  BInv'
<1>1. /\ registered' = {} /\ member' = Unset /\ todo' = {} /\ reply' = "none" /\ sinks' = {}
      /\ fetched' = {} /\ \A m \in Messages : awaiting'[m] = "none" /\ whose'[m] = Unset
      /\ awaiting' \in [Messages -> {"none", "gate", "registering"}]
      /\ whose' \in [Messages -> {Unset, "live", "fill"}]
  BY DEF Abandon, ForgetSession
<1>2. Posted' = Posted /\ \A m \in Messages : Chan(m)' = Chan(m)
  BY DEF Posted, Chan
<1>3. BridgeTypeOK'
  BY <1>1, <1>2 DEF BInv, BridgeTypeOK
<1>4. Tracked'
  BY <1>1, <1>2 DEF BInv, Tracked
<1>5. Once'
  BY <1>1, <1>2 DEF BInv, Once, ForwardedOnce, Posted, Messages, BridgeTypeOK
<1>6. Replayed' /\ SinksKnown'
  BY <1>1 DEF Replayed, GapIsFilled, SinksKnown
<1> QED BY <1>3, <1>4, <1>5, <1>6 DEF BInv

LEMMA TeardownKeeps == ASSUME BInv, Teardown PROVE BInv'
<1>1. /\ due' \in [Messages -> {"no", "live", "stale"}]
      /\ \A m \in Messages : due'[m] # "no" => due[m] # "no"
  BY DEF Teardown, BInv, BridgeTypeOK
<1> QED BY <1>1, EndsKeep DEF Teardown, BInv, BridgeTypeOK, file, budget

LEMMA LoginFailsKeeps == ASSUME BInv, LoginFails PROVE BInv'
<1>1. /\ due' \in [Messages -> {"no", "live", "stale"}]
      /\ \A m \in Messages : due'[m] # "no" => due[m] # "no"
  BY DEF LoginFails
<1>2. faults' \in 0..MaxFaults
  BY DEF LoginFails, Fault, BInv, BridgeTypeOK
<1> QED BY <1>1, <1>2, EndsKeep DEF LoginFails, BInv, BridgeTypeOK, file

LEMMA CrashKeeps == ASSUME BInv, Crash PROVE BInv'
<1>1. /\ due' \in [Messages -> {"no", "live", "stale"}]
      /\ \A m \in Messages : due'[m] # "no" => due[m] # "no"
  BY DEF Crash
<1>2. crashes' \in 0..MaxCrashes
  BY DEF Crash, BInv, BridgeTypeOK
<1>3. \A m \in Posted : Chan(m) \in Channels
  BY DEF Chan, Channels
<1>4. torn' \subseteq Channels
  BY <1>3 DEF Crash, BInv, BridgeTypeOK
<1> QED BY <1>1, <1>2, <1>4, EndsKeep DEF Crash, BInv, BridgeTypeOK

LEMMA RelaunchKeeps == ASSUME BInv, Relaunch PROVE BInv'
<1>1. /\ phase = "dead" /\ phase' = "down" /\ seen' = lines
      /\ UNCHANGED <<kind, link, deaf, due, awaiting, whose, lines, torn, glued, registered,
                      member, todo, reply, sinks, fetched, forwarded, crashes, faults>>
  BY DEF Relaunch, session, budget
<1>2. Posted' = Posted /\ \A m \in Messages : Chan(m)' = Chan(m)
  BY <1>1 DEF Posted, Chan
<1>3. BridgeTypeOK'
  BY <1>1, <1>2 DEF BInv, BridgeTypeOK
<1>4. Tracked'
  BY <1>1, <1>2 DEF BInv, Tracked
<1>5. Once'
  BY <1>1, <1>2 DEF BInv, Once, ForwardedOnce
<1>6. Replayed' /\ SinksKnown'
  BY <1>1, <1>2 DEF BInv, Replayed, GapIsFilled, SinksKnown
<1> QED BY <1>3, <1>4, <1>5, <1>6 DEF BInv

\* Steps of the connection that touch neither a message nor what is known of it.
LEMMA LinkKeeps ==
  ASSUME BInv,
         \/ phase' = phase /\ todo' = todo /\ fetched' = fetched
         \/ phase # "dead" /\ phase' \in {"login", "fetching", "broken"}
         \/ phase = "filling" /\ phase' = "serving" /\ todo = {} /\ fetched' = fetched
         \/ phase # "dead" /\ phase' = "filling" /\ fetched' = todo',
         link' \in BOOLEAN, deaf' \in BOOLEAN, member' \in {Unset, "yes", "no"},
         reply' \in {"none", "waiting", "limited"}, faults' \in 0..MaxFaults,
         todo' \subseteq Posted, fetched' \subseteq Posted,
         UNCHANGED <<kind, due, awaiting, whose, lines, torn, seen, glued, registered, sinks,
                     forwarded, crashes>>
  PROVE  BInv'
<1>1. Posted' = Posted /\ \A m \in Messages : Chan(m)' = Chan(m)
  BY DEF Posted, Chan
<1>2. BridgeTypeOK'
  BY <1>1 DEF BInv, BridgeTypeOK
<1>3. Tracked'
  BY <1>1 DEF BInv, Tracked
<1>4. Once' /\ SinksKnown'
  BY <1>1 DEF BInv, Once, ForwardedOnce, SinksKnown
<1>5. Replayed'
  BY DEF BInv, Replayed, GapIsFilled
<1> QED BY <1>2, <1>3, <1>4, <1>5 DEF BInv

LEMMA HistoryPosted == History \subseteq Posted
BY DEF History

LEMMA LinksKeep ==
  ASSUME BInv,
         GateExpires \/ Connect \/ Ready \/ ClientDies \/ DaemonGoes \/ Fetch \/ Filled
            \/ DollReplies \/ Serve \/ Closed
  PROVE  BInv'
<1>1. /\ phase \in {"down", "login", "fetching", "filling", "serving", "broken", "exited", "dead"}
      /\ link \in BOOLEAN /\ deaf \in BOOLEAN /\ member \in {Unset, "yes", "no"}
      /\ reply \in {"none", "waiting", "limited"} /\ faults \in 0..MaxFaults
      /\ todo \subseteq Posted /\ fetched \subseteq Posted
  BY DEF BInv, BridgeTypeOK
<1>2. CASE GateExpires
  BY <1>1, <1>2, LinkKeeps DEF GateExpires, file, budget
<1>3. CASE Connect
  BY <1>1, <1>3, LinkKeeps DEF Connect, file, session, budget
<1>4. CASE Ready
  BY <1>1, <1>4, LinkKeeps DEF Ready, file, session, budget
<1>5. CASE ClientDies
  BY <1>1, <1>5, LinkKeeps DEF ClientDies, Connected, Fault, file, session
<1>6. CASE DaemonGoes
  <2>1. /\ phase' = phase /\ link' = FALSE /\ faults' \in 0..MaxFaults
        /\ UNCHANGED <<deaf, member, reply, todo, fetched, crashes>>
        /\ UNCHANGED <<kind, due, awaiting, whose, lines, torn, seen, glued, registered, sinks, forwarded>>
    BY <1>1, <1>6 DEF DaemonGoes, Fault, file, session
  <2> QED BY <1>1, <2>1, LinkKeeps
<1>7. CASE Fetch
  BY <1>1, <1>7, HistoryPosted, LinkKeeps DEF Fetch, Fault, file
<1>8. CASE Filled
  BY <1>1, <1>8, LinkKeeps DEF Filled, file, session, budget
<1>9. CASE DollReplies
  BY <1>1, <1>9, LinkKeeps DEF DollReplies, file, budget
<1>10. CASE Serve
  BY <1>1, <1>10, LinkKeeps DEF Serve, Fault, file
<1>11. CASE Closed
  BY <1>1, <1>11, LinkKeeps DEF Closed, file, session, budget
<1> QED BY <1>2, <1>3, <1>4, <1>5, <1>6, <1>7, <1>8, <1>9, <1>10, <1>11

LEMMA StandstillKeeps == ASSUME BInv, UNCHANGED bridgeVars PROVE BInv'
<1>1. /\ UNCHANGED <<kind, phase, link, deaf, due, awaiting, whose, lines, torn, seen, glued>>
      /\ UNCHANGED <<registered, member, todo, reply, sinks, fetched, forwarded, crashes, faults>>
  BY DEF bridgeVars, file, session, budget
<1> QED BY <1>1 DEF BInv, BridgeTypeOK, Tracked, Once, ForwardedOnce, Replayed, GapIsFilled,
        SinksKnown, Posted, Chan

LEMMA NextHolds == ASSUME BInv, [BridgeNext]_bridgeVars PROVE BInv'
BY PostKeeps, HandlersKeep, TeardownKeeps, LoginFailsKeeps, CrashKeeps, RelaunchKeeps, LinksKeep,
   StandstillKeeps DEF BridgeNext

\* What is on record, what awaits and what is still to be replayed.
THEOREM OnRecord == BridgeSpec => []BInv
BY InitHolds, NextHolds, PTL DEF BridgeSpec

\* No message of the history goes to the daemon twice, and none of it is left
\* out, for any number of messages, crashes and lost connections.
THEOREM NeitherGapNorRepeat == BridgeSpec => []NoGapNoRepeat
<1>1. BInv => NoGapNoRepeat
  BY DEF BInv, Once, Replayed, NoGapNoRepeat
<1> QED BY <1>1, OnRecord, PTL

\* Only a caller that found the channel registered sends what it captured.
LEMMA SentToASink ==
  ASSUME BInv, [BridgeNext]_bridgeVars, NEW m \in Messages, forwarded'[m] > forwarded[m]
  PROVE  Chan(m) \in sinks
<1>1. forwarded \in [Messages -> Nat] /\ SinksKnown
  BY DEF BInv, BridgeTypeOK
<1>2. ASSUME NEW n \in Messages, NEW who \in Callers, Outcome(n, who) PROVE Chan(m) \in sinks
  BY <1>1, <1>2 DEF Outcome
<1>3. ASSUME NEW n \in Messages, NEW who \in Callers, Capture(n, who) PROVE Chan(m) \in sinks
  BY <1>1, <1>2, <1>3, CaptureOut DEF Skips
<1>4. ASSUME NEW n \in Messages, awaiting[n] # "none"
      PROVE  whose[n] \in Callers /\ kind[n] # "filtered"
  BY <1>4 DEF BInv, Tracked, BridgeTypeOK, Callers
<1>5. ASSUME NEW n \in Messages, Begin(n) PROVE Chan(m) \in sinks
  BY <1>3, <1>5 DEF Begin, BInv, BridgeTypeOK, Callers
<1>6. ASSUME NEW n \in Messages, Fill(n) PROVE Chan(m) \in sinks
  BY <1>3, <1>6 DEF Fill, Callers
<1>7. ASSUME NEW n \in Messages, NEW a \in {"yes", "no"}, GateAnswers(n, a) PROVE Chan(m) \in sinks
  <2>1. Outcome(n, whose[n]) /\ whose[n] \in Callers
    BY <1>1, <1>4, <1>7, ClearedOut, ReturnOut DEF GateAnswers
  <2> QED BY <1>2, <2>1
<1>8. ASSUME NEW n \in Messages, Registered(n) PROVE Chan(m) \in sinks
  <2>1. awaiting[n] = "registering" /\ Chan(n) \in sinks
    BY <1>1, <1>8 DEF Registered, SinksKnown
  <2>2. CASE forwarded' = [forwarded EXCEPT ![n] = @ + 1]
    BY <1>1, <2>1, <2>2
  <2>3. CASE SendRaises(n, whose[n])
    BY <1>2, <1>4, <2>1, <2>3, RaisesOut
  <2> QED BY <1>8, <2>2, <2>3 DEF Registered, Forward
<1>9. forwarded' # forwarded
  BY <1>1
<1> QED BY <1>5, <1>6, <1>7, <1>8, <1>9 DEF BridgeNext, bridgeVars, Post, GateExpires, Teardown, Connect, Ready,
        LoginFails, ClientDies, DaemonGoes, Fetch, Filled, DollReplies, Serve, Closed, Crash, Relaunch

\* Doll's answer always has a sink.
THEOREM NeverUnheard == BridgeSpec => SinkBeforeEvent
<1>1. ASSUME BInv, [BridgeNext]_bridgeVars
      PROVE  \A m \in Messages : forwarded'[m] > forwarded[m] => Chan(m) \in sinks
  BY <1>1, SentToASink
<1> QED BY <1>1, OnRecord, PTL DEF BridgeSpec, SinkBeforeEvent
=============================================================================
