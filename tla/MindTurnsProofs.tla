---------------------------- MODULE MindTurnsProofs ----------------------------
(***************************************************************************)
(* Proofs about MindTurns, for any places, tools, servers and switches,    *)
(* any number of pages, days and restarts: taint follows foreign text and  *)
(* keeps it apart, safe mode and the owner's tools are guarded, and what a *)
(* page is taken to hold is on it.                                         *)
(***************************************************************************)
EXTENDS MindTurns, SequenceTheorems, TLAPS

-----------------------------------------------------------------------------
(* The tables of ToolBinding                                                *)

\* Safe mode binds the two reads, whoever the turn acts for.
LEMMA SafeModeBinds ==
  ASSUME NEW principal \in Principals, NEW tool \in BoundTools["safe_mode"][principal]
  PROVE  tool \in {"Recall", "ReadToolOutput"}
<1>1. "safe_mode" \in Kinds
  BY DEF Kinds
<1>2. \A x \in Extras : x.kind # "safe_mode"
  BY DEF Extras
<1>3. KindTools("safe_mode") = {"Recall", "ReadToolOutput"}
  BY DEF KindTools
<1> QED BY <1>1, <1>2, <1>3 DEF BoundTools

\* The tools no server and no plain kind brings: an extra does.
LEMMA ExtraBinds ==
  ASSUME NEW kind \in Kinds, NEW principal \in Principals,
         NEW tool \in BoundTools[kind][principal], tool \in {"LearnName", "PinSelf"}
  PROVE  \E x \in Extras : x.kind = kind /\ x.tool = tool /\ Holds(x, principal)
<1>1. tool \notin McpTools
  BY BindingAssumption DEF NoneTaken, BuiltinTools, ExtraTools
<1>2. tool \notin KindTools(kind)
  BY DEF KindTools, Kinds, MainTools
<1>3. tool \in {e.tool : e \in {x \in Extras : x.kind = kind /\ Holds(x, principal)}}
  BY <1>1, <1>2 DEF BoundTools
<1> QED BY <1>3

LEMMA LearnNameBinds ==
  ASSUME NEW kind \in Kinds, NEW principal \in Principals,
         "LearnName" \in BoundTools[kind][principal]
  PROVE  principal \in Owners
<1>1. PICK x \in Extras : x.tool = "LearnName" /\ Holds(x, principal)
  BY ExtraBinds
<1>2. principal \in ToolMatrix["LearnName"]
  BY <1>1 DEF Holds
<1> QED BY <1>2 DEF ToolMatrix, BuiltinTools, ExtraTools

LEMMA PinSelfBinds ==
  ASSUME NEW kind \in Kinds, NEW principal \in Principals,
         "PinSelf" \in BoundTools[kind][principal]
  PROVE  kind = "reflection" \/ principal \in Owners
<1>1. PICK x \in Extras : x.kind = kind /\ x.tool = "PinSelf" /\ Holds(x, principal)
  BY ExtraBinds
<1>2. x.kind = "reflection" \/ "owner_present" \in x.when
  BY <1>1 DEF Extras
<1> QED BY <1>1, <1>2 DEF Holds

-----------------------------------------------------------------------------
(* Who a batch acts for                                                     *)

LEMMA OneAuthor ==
  ASSUME NEW b, NEW a \in {"owner", "owner_dm", "external_public"}, Authors(b) = {a}
  PROVE  PrincipalOf(b) = a
<1>1. Rank[a] \in Nat /\ Rank[a] <= Rank[a]
  BY DEF Rank
<1> QED BY <1>1 DEF PrincipalOf

\* A stranger's turn is one of a public place; a turn has the owner's word only
\* if he gave it; a one-off diary is a private turn.
LEMMA ActsFor ==
  ASSUME NEW pl \in Places, scope \in Scopes, NEW b, b # {}, b \subseteq Perceptions(pl)
  PROVE  /\ PrincipalOf(b) \in Principals
         /\ PrincipalOf(b) = "external_public" <=> pl \in Publics
         /\ PrincipalOf(b) \in Owners => \E p \in b : p.kind = "UserSpoke" \/ (p.owner /\ p.dm)
         /\ OneOff(b) => pl = Private
<1>1. "ChannelMessage" \notin scope.moments
  BY TurnsAssumption
<1>2. CASE pl \in Publics
  <2>1. pl # Private /\ pl \notin OwnerDms
    BY <1>2, TurnsAssumption DEF Channels
  <2>2. \A p \in b : p.kind = "ChannelMessage" /\ ~(p.owner /\ p.dm)
    BY <2>1 DEF Perceptions, Inbox, Message
  <2>3. Authors(b) = {"external_public"}
    BY <2>2 DEF Authors
  <2>4. ~OneOff(b)
    BY <2>2 DEF OneOff, MomentOf
  <2> QED BY <1>2, <2>3, <2>4, OneAuthor DEF Principals, Owners
<1>3. CASE pl \in OwnerDms
  <2>1. pl # Private /\ pl \notin Publics
    BY <1>3, TurnsAssumption DEF Channels
  <2>2. \A p \in b : p.kind = "ChannelMessage" /\ p.owner /\ p.dm
    BY <1>3, <2>1 DEF Perceptions, Inbox, Message
  <2>3. Authors(b) = {"owner_dm"}
    BY <2>2 DEF Authors
  <2>4. ~OneOff(b)
    BY <2>2 DEF OneOff, MomentOf
  <2> QED BY <2>1, <2>2, <2>3, <2>4, OneAuthor DEF Principals, Owners
<1>4. CASE pl = Private
  <2>1. pl \notin Publics
    BY <1>4, TurnsAssumption DEF Channels
  <2>2. \A p \in b : p.kind # "ChannelMessage"
    BY <1>1, <1>4 DEF Perceptions, Inbox, Moment
  <2>3. CASE Has("UserSpoke", b)
    <3>1. Authors(b) = {"owner"}
      BY <2>2, <2>3 DEF Authors, Has
    <3> QED BY <1>4, <2>1, <2>3, <3>1, OneAuthor DEF Principals, Owners, Has
  <2>4. CASE ~Has("UserSpoke", b)
    <3>1. Authors(b) = {}
      BY <2>2, <2>4 DEF Authors, Has
    <3>2. PrincipalOf(b) = "internal"
      BY <3>1 DEF PrincipalOf
    <3> QED BY <1>4, <2>1, <3>2 DEF Principals, Owners
  <2> QED BY <2>3, <2>4
<1> QED BY <1>2, <1>3, <1>4 DEF Places, Channels

LEMMA KindIs ==
  ASSUME NEW b, NEW safe \in BOOLEAN
  PROVE  /\ EffectiveKind(MomentOf(b), safe) \in Kinds
         /\ safe => EffectiveKind(MomentOf(b), safe) = "safe_mode"
         /\ EffectiveKind(MomentOf(b), safe) = "reflection" => Has("ReflectionMoment", b)
<1>1. MomentOf(b) \in {"reflection", "diary", "agenda", "pulse", "conversation"}
  BY DEF MomentOf
<1>2. MomentOf(b) = "reflection" => Has("ReflectionMoment", b)
  BY DEF MomentOf, Has
<1> QED BY <1>1, <1>2 DEF EffectiveKind, Kinds

-----------------------------------------------------------------------------
(* The pages in memory                                                      *)

NoneTwice(q) == \A i, j \in DOMAIN q : q[i] = q[j] => i = j
IsIn(c, q)   == \E i \in DOMAIN q : q[i] = c

LEMMA MovedIsOrder ==
  ASSUME NEW q \in Seq(Channels), NoneTwice(q), NEW c \in Channels, NEW u, u = MovedToEnd(q, c)
  PROVE  /\ u \in Seq(Channels) /\ NoneTwice(u) /\ Len(u) \in 1..(Len(q) + 1)
         /\ \A d : IsIn(d, u) <=> IsIn(d, q) \/ d = c
         /\ u[Len(u)] = c
<1> DEFINE n == Len(q)
<1>1. n \in Nat /\ DOMAIN q = 1..n
  OBVIOUS
<1>2. CASE ~IsIn(c, q)
  <2>1. u = Append(q, c)
    BY <1>2 DEF MovedToEnd, IsIn
  <2>2. /\ u \in Seq(Channels) /\ Len(u) = n + 1 /\ DOMAIN u = 1..(n + 1)
        /\ u[n + 1] = c /\ \A i \in 1..n : u[i] = q[i]
    BY <2>1, AppendProperties
  <2>3. \A i \in 1..(n + 1) : i \in 1..n \/ i = n + 1
    BY <1>1
  <2>4. n + 1 \in 1..(n + 1) /\ 1..n \subseteq 1..(n + 1)
    BY <1>1
  <2> HIDE DEF n
  <2>5. NoneTwice(u)
    BY <1>1, <1>2, <2>2, <2>3 DEF NoneTwice, IsIn
  <2>6. \A d : IsIn(d, u) <=> IsIn(d, q) \/ d = c
    BY <1>1, <2>2, <2>3, <2>4 DEF IsIn
  <2> QED BY <1>1, <2>2, <2>5, <2>6 DEF n
<1>3. CASE IsIn(c, q)
  <2>a. PICK at : at = CHOOSE i \in DOMAIN q : q[i] = c
    OBVIOUS
  <2>b. at \in DOMAIN q /\ q[at] = c
    BY <1>3, <2>a DEF IsIn
  <2>c. ~(\A i \in DOMAIN q : q[i] # c)
    BY <1>3 DEF IsIn
  <2>d. u = [i \in DOMAIN q |-> IF i < at THEN q[i] ELSE IF i < Len(q) THEN q[i + 1] ELSE c]
    BY <2>a, <2>c, Zenon DEF MovedToEnd
  <2>1. /\ at \in 1..n /\ q[at] = c
        /\ u = [i \in 1..n |-> IF i < at THEN q[i] ELSE IF i < n THEN q[i + 1] ELSE c]
    <3> HIDE DEF n
    <3>1. n = Len(q)
      BY DEF n
    <3> QED BY <1>1, <2>b, <2>d, <3>1, Zenon
  <2>2. \A i \in 1..n : /\ i < at => u[i] = q[i]
                        /\ ~(i < at) /\ i < n => u[i] = q[i + 1] /\ i + 1 \in 1..n
                        /\ ~(i < n) => u[i] = q[at] /\ i = n
    <3> TAKE i \in 1..n
    <3>1. u[i] = IF i < at THEN q[i] ELSE IF i < n THEN q[i + 1] ELSE c
      BY <2>1, Zenon
    <3>2. ~(i < n) => i = n /\ ~(i < at)
      <4>1. at \in 1..n
        BY <2>1
      <4> HIDE DEF n
      <4> QED BY <1>1, <4>1
    <3>3. i < n => i + 1 \in 1..n
      BY <1>1
    <3> HIDE DEF n
    <3> QED BY <2>1, <3>1, <3>2, <3>3
  <2>3. u \in [1..n -> Channels]
    <3>1. \A i \in 1..n : q[i] \in Channels
      BY <1>1
    <3> QED BY <1>1, <2>1, <3>1
  <2>4. u \in Seq(Channels) /\ Len(u) = n /\ DOMAIN u = 1..n
    BY <1>1, <2>3
  <2> HIDE DEF n
  <2>5. NoneTwice(u)
    <3> SUFFICES ASSUME NEW i \in 1..n, NEW j \in 1..n, u[i] = u[j] PROVE i = j
      BY <2>4 DEF NoneTwice
    <3>1. \A k, l \in 1..n : q[k] = q[l] => k = l
      BY <1>1 DEF NoneTwice
    <3>2. /\ i < at \/ (~(i < at) /\ i < n) \/ ~(i < n)
          /\ j < at \/ (~(j < at) /\ j < n) \/ ~(j < n)
      OBVIOUS
    <3>3. CASE ~(i < n) /\ ~(j < n)
      BY <2>2, <3>3
    <3>4. CASE ~(i < n) /\ j < n
      <4>1. u[i] = q[at] /\ (j < at => u[j] = q[j]) /\ (~(j < at) => u[j] = q[j + 1] /\ j + 1 \in 1..n)
        BY <2>2, <3>4
      <4> QED BY <1>1, <2>1, <3>1, <3>4, <4>1
    <3>5. CASE i < n /\ ~(j < n)
      <4>1. u[j] = q[at] /\ (i < at => u[i] = q[i]) /\ (~(i < at) => u[i] = q[i + 1] /\ i + 1 \in 1..n)
        BY <2>2, <3>5
      <4> QED BY <1>1, <2>1, <3>1, <3>5, <4>1
    <3>6. CASE i < n /\ j < n
      <4>1. (i < at => u[i] = q[i]) /\ (~(i < at) => u[i] = q[i + 1] /\ i + 1 \in 1..n)
        BY <2>2, <3>6
      <4>2. (j < at => u[j] = q[j]) /\ (~(j < at) => u[j] = q[j + 1] /\ j + 1 \in 1..n)
        BY <2>2, <3>6
      <4> QED BY <1>1, <2>1, <3>1, <3>6, <4>1, <4>2
    <3> QED BY <3>3, <3>4, <3>5, <3>6
  <2>6. \A d : IsIn(d, u) => IsIn(d, q)
    <3>1. \A i \in 1..n : \E k \in 1..n : u[i] = q[k]
      BY <2>1, <2>2
    <3>2. DOMAIN u = 1..n /\ DOMAIN q = 1..n
      BY <1>1, <2>4
    <3> TAKE d
    <3> HAVE IsIn(d, u)
    <3>3. PICK i \in DOMAIN u : u[i] = d
      BY DEF IsIn
    <3>4. PICK k \in 1..n : u[i] = q[k]
      BY <3>1, <3>2, <3>3
    <3>5. k \in DOMAIN q /\ q[k] = d
      BY <3>2, <3>3, <3>4
    <3> QED BY <3>5 DEF IsIn
  <2>7. u[n] = c
    BY <1>1, <2>1, <2>2
  <2>8. \A d : IsIn(d, q) => IsIn(d, u)
    <3> SUFFICES ASSUME NEW k \in 1..n PROVE \E i \in 1..n : u[i] = q[k]
      BY <1>1, <2>4 DEF IsIn
    <3>1. CASE k < at
      BY <2>2, <3>1
    <3>2. CASE k = at
      BY <1>1, <2>1, <2>7, <3>2
    <3>3. CASE k > at
      <4>1. k - 1 \in 1..n /\ ~(k - 1 < at) /\ k - 1 < n /\ (k - 1) + 1 = k
        BY <1>1, <2>1, <3>3
      <4> QED BY <2>2, <4>1
    <3> QED BY <1>1, <2>1, <3>1, <3>2, <3>3
  <2> QED BY <1>1, <1>3, <2>1, <2>4, <2>5, <2>6, <2>7, <2>8 DEF n
<1> QED BY <1>2, <1>3

LEMMA TailIsOrder ==
  ASSUME NEW q \in Seq(Channels), Len(q) > 0, NoneTwice(q), NEW t, t = Tail(q)
  PROVE  /\ t \in Seq(Channels) /\ Len(t) = Len(q) - 1 /\ NoneTwice(t)
         /\ \A d : IsIn(d, t) <=> IsIn(d, q) /\ d # q[1]
<1>0. PICK n \in Nat : n = Len(q)
  OBVIOUS
<1>1. n > 0 /\ DOMAIN q = 1..n
  BY <1>0
<1>2. /\ t \in Seq(Channels) /\ Len(t) = n - 1 /\ DOMAIN t = 1..(n - 1)
      /\ \A i \in 1..(n - 1) : t[i] = q[i + 1] /\ i + 1 \in 1..n /\ i + 1 # 1
  BY <1>0, <1>1
<1>3. \A i \in 1..n : i = 1 \/ (i - 1 \in 1..(n - 1) /\ (i - 1) + 1 = i)
  BY <1>1
<1>4. 1 \in 1..n
  BY <1>1
<1>5. \A i, j \in 1..n : q[i] = q[j] => i = j
  BY <1>1 DEF NoneTwice
<1>6. NoneTwice(t)
  <2> SUFFICES ASSUME NEW i \in 1..(n - 1), NEW j \in 1..(n - 1), t[i] = t[j] PROVE i = j
    BY <1>2 DEF NoneTwice
  <2>1. i + 1 = j + 1
    BY <1>2, <1>5
  <2> QED BY <2>1
<1>7. \A d : IsIn(d, t) => IsIn(d, q) /\ d # q[1]
  <2> TAKE d
  <2> HAVE IsIn(d, t)
  <2>1. PICK i \in 1..(n - 1) : t[i] = d
    BY <1>2 DEF IsIn
  <2>2. i + 1 \in DOMAIN q /\ q[i + 1] = d
    BY <1>1, <1>2, <2>1
  <2>3. q[i + 1] # q[1]
    BY <1>2, <1>4, <1>5
  <2> QED BY <2>2, <2>3 DEF IsIn
<1>8. \A d : IsIn(d, q) /\ d # q[1] => IsIn(d, t)
  <2> TAKE d
  <2> HAVE IsIn(d, q) /\ d # q[1]
  <2>1. PICK i \in 1..n : q[i] = d
    BY <1>1 DEF IsIn
  <2>2. i - 1 \in 1..(n - 1) /\ t[i - 1] = d
    BY <1>2, <1>3, <2>1
  <2> QED BY <1>2, <2>2 DEF IsIn
<1> QED BY <1>0, <1>2, <1>6, <1>7, <1>8

\* Store: the place has the page, whatever was dropped for it, and memory and
\* the order of use still name the same channels.
LEMMA Stored ==
  ASSUME TypeOK, NoneTwice(recency), NEW pl \in Places, NEW pg \in Page, Store(pl, pg)
  PROVE  /\ recency' \in Seq(Channels) /\ Len(recency') <= MaxChannels /\ NoneTwice(recency')
         /\ page' \in [Places -> Page \union {NoPage}]
         /\ \A c \in Channels : page'[c] # NoPage <=> IsIn(c, recency')
         /\ page'[pl] = pg
         /\ \A q \in Places : q # pl => page'[q] = page[q] \/ page'[q] = NoPage
         /\ pl # Private => page'[Private] = page[Private]
<1>0. /\ recency \in Seq(Channels) /\ Len(recency) <= MaxChannels
      /\ page \in [Places -> Page \union {NoPage}]
      /\ \A c \in Channels : page[c] # NoPage <=> IsIn(c, recency)
  BY DEF TypeOK, IsIn
<1>1. /\ Private \in Places /\ Private \notin Channels /\ Channels \subseteq Places
      /\ MaxChannels \in Nat /\ MaxChannels > 0
      /\ pg # NoPage
  BY TurnsAssumption DEF Places, NoPage
<1>2. CASE pl = Private
  <2>1. page' = [page EXCEPT ![pl] = pg] /\ recency' = recency
    BY <1>2 DEF Store
  <2> QED BY <1>0, <1>1, <1>2, <2>1
<1>3. CASE pl # Private
  <2>1. pl \in Channels
    BY <1>3 DEF Places
  <2>2. PICK u : u = MovedToEnd(recency, pl)
    OBVIOUS
  <2>3. /\ u \in Seq(Channels) /\ NoneTwice(u) /\ Len(u) \in 1..(Len(recency) + 1)
        /\ \A d : IsIn(d, u) <=> IsIn(d, recency) \/ d = pl
        /\ u[Len(u)] = pl
    <3>1. recency \in Seq(Channels)
      BY <1>0
    <3> QED BY <3>1, <2>1, <2>2, MovedIsOrder, ZenonT(40)
  <2>4. CASE Len(u) > MaxChannels
    <3>1. /\ recency' = Tail(u)
          /\ page' = [q \in Places |-> IF q \in {Head(u)} THEN NoPage
                                       ELSE IF q = pl THEN pg ELSE page[q]]
      BY <1>3, <2>2, <2>4, Zenon DEF Store
    <3>2. Len(u) > 1 /\ 1 \in DOMAIN u /\ Len(u) \in DOMAIN u /\ Head(u) = u[1]
      BY <1>1, <2>3, <2>4
    <3>3. u[1] # pl
      BY <2>3, <3>2 DEF NoneTwice
    <3>4. /\ recency' \in Seq(Channels) /\ Len(recency') = Len(u) - 1 /\ NoneTwice(recency')
          /\ \A d : IsIn(d, recency') <=> IsIn(d, u) /\ d # u[1]
      <4>1. PICK t : t = Tail(u)
        OBVIOUS
      <4>2. u \in Seq(Channels) /\ Len(u) > 0 /\ NoneTwice(u)
        BY <2>3, <3>2
      <4>3. /\ t \in Seq(Channels) /\ Len(t) = Len(u) - 1 /\ NoneTwice(t)
            /\ \A d : IsIn(d, t) <=> IsIn(d, u) /\ d # u[1]
        BY <4>1, <4>2, TailIsOrder
      <4>4. recency' = t
        BY <3>1, <4>1
      <4> QED BY <4>3, <4>4
    <3>5. Len(recency') <= MaxChannels
      BY <1>0, <1>1, <2>3, <3>4
    <3>6. \A q \in Places : page'[q] = IF q = u[1] THEN NoPage ELSE IF q = pl THEN pg ELSE page[q]
      BY <3>1, <3>2, Zenon
    <3>7. page' \in [Places -> Page \union {NoPage}]
      BY <1>0, <3>1
    <3>8. u[1] # Private
      BY <1>1, <2>3, <3>2
    <3>9. \A c \in Channels : page'[c] # NoPage <=> IsIn(c, recency')
      BY <1>0, <1>1, <2>3, <3>3, <3>4, <3>6
    <3> QED BY <1>1, <1>3, <3>3, <3>4, <3>5, <3>6, <3>7, <3>8, <3>9
  <2>5. CASE ~(Len(u) > MaxChannels)
    <3>1. /\ recency' = u
          /\ page' = [q \in Places |-> IF q \in {} THEN NoPage
                                       ELSE IF q = pl THEN pg ELSE page[q]]
      BY <1>3, <2>2, <2>5, Zenon DEF Store
    <3>2. \A q \in Places : page'[q] = IF q = pl THEN pg ELSE page[q]
      BY <3>1
    <3>3. page' \in [Places -> Page \union {NoPage}]
      BY <1>0, <3>1
    <3>4. \A c \in Channels : page'[c] # NoPage <=> IsIn(c, recency')
      BY <1>0, <1>1, <2>3, <3>1, <3>2
    <3>5. Len(recency') <= MaxChannels
      BY <1>1, <2>3, <2>5, <3>1
    <3> QED BY <1>1, <1>3, <2>3, <3>1, <3>2, <3>3, <3>4, <3>5
  <2> QED BY <2>4, <2>5
<1> QED BY <1>2, <1>3

-----------------------------------------------------------------------------
(* What a turn's first message makes of the page                            *)

LEMMA SnapshotIs ==
  ASSUME TypeOK, NEW pl \in Places
  PROVE  Snapshot(pl) \in Snapshots
<1>1. common \in 0..MaxChanges /\ owners \in 0..MaxChanges
  BY DEF TypeOK
<1>2. <<common>> \in [1..1 -> 0..MaxChanges] /\ <<common, owners>> \in [1..2 -> 0..MaxChanges]
  BY <1>1
<1>3. 1 \in 1..2 /\ 2 \in 1..2
  OBVIOUS
<1> QED BY <1>2, <1>3, Zenon DEF Snapshot, Snapshots

LEMMA UnsampledIs == Unsampled \in Signature /\ \A o \in Organs : Unsampled[o] = 0
<1>1. 0 \in 0..MaxChanges
  BY TurnsAssumption
<1> QED BY <1>1 DEF Unsampled, Signature

\* What counts as sent, of a page or of all, organ by organ.
LEMMA SignalIs ==
  ASSUME NEW pl, NEW b, NEW fresh, NEW sent \in Signature, body \in Signature,
         NEW sig, sig = BodySignal(pl, b, fresh, sent)
  PROVE  /\ sig \in Signature
         /\ \A o \in Organs : sig[o] = IF Given(o, pl, b, fresh) THEN body[o] ELSE sent[o]
BY DEF BodySignal, Signature

\* A turn that does not read the body counts nothing as sent.
LEMMA NothingRead ==
  ASSUME NEW pl, NEW b, NEW fresh, NEW sent \in Signature, ~ReadsBody(pl, b)
  PROVE  BodySignal(pl, b, fresh, sent) = sent
<1>1. \A o \in Organs : ~Given(o, pl, b, fresh)
  BY DEF Given
<1>2. BodySignal(pl, b, fresh, sent) = [o \in Organs |-> sent[o]]
  BY <1>1 DEF BodySignal
<1> QED BY <1>2 DEF Signature

LEMMA FreshIs ==
  ASSUME TypeOK, NEW pl \in Places, NEW pg, pg = FreshPage(pl)
  PROVE  /\ pg \in Page /\ ~pg.tainted /\ ~pg.foreign
         /\ pg.hits = pg.holds /\ pg.blocks = pg.shows /\ pg.body = Unsampled
<1>1. Snapshot(pl) \in Snapshots /\ Unsampled \in Signature
  BY SnapshotIs, UnsampledIs
<1> QED BY <1>1 DEF FreshPage, Page

LEMMA DeltaIs ==
  ASSUME TypeOK, NEW pl \in Places, NEW p \in Page, NEW f \in BOOLEAN, NEW b,
         NEW fresh, NEW new \in SUBSET Facts, safeMode' \in BOOLEAN,
         NEW r, r = Delta(pl, [p EXCEPT !.foreign = f], b, fresh, new)
  PROVE  /\ r \in Page /\ r.tainted = p.tainted /\ r.foreign = f
         /\ r.told = safeMode' /\ r.hits = p.hits \union new /\ r.holds = p.holds \union new
         /\ p.blocks = p.shows => r.blocks = r.shows
         /\ r.body = BodySignal(pl, b, fresh, p.body)
<1>1. /\ p.tainted \in BOOLEAN /\ p.due \in BOOLEAN /\ p.blocks \in Snapshots
      /\ p.hits \in SUBSET Facts /\ p.told \in BOOLEAN /\ p.foreign \in BOOLEAN
      /\ p.holds \in SUBSET Facts /\ p.shows \in Snapshots /\ p.body \in Signature
  BY DEF Page
<1>2. PICK s : s = Snapshot(pl)
  OBVIOUS
<1>3. s \in Snapshots
  BY <1>2, SnapshotIs
<1>4. BodySignal(pl, b, fresh, p.body) \in Signature
  BY <1>1, SignalIs DEF TypeOK
<1>5. PICK p1 : p1 = [p EXCEPT !.foreign = f]
  OBVIOUS
<1>6. /\ p1 \in Page /\ p1.foreign = f /\ p1.tainted = p.tainted /\ p1.due = p.due
      /\ p1.blocks = p.blocks /\ p1.hits = p.hits /\ p1.told = p.told
      /\ p1.holds = p.holds /\ p1.shows = p.shows /\ p1.body = p.body
  BY <1>5 DEF Page
<1>7. r = [tainted |-> p1.tainted, due |-> p1.due, blocks |-> s, hits |-> p1.hits \union new,
           told |-> safeMode', foreign |-> p1.foreign, holds |-> p1.holds \union new,
           shows |-> IF p1.blocks # s THEN s ELSE p1.shows, body |-> BodySignal(pl, b, fresh, p1.body)]
  BY <1>2, <1>5, <1>6 DEF Delta, Page
<1>8. r \in Page
  BY <1>1, <1>3, <1>4, <1>6, <1>7 DEF Page
<1> QED BY <1>6, <1>7, <1>8

-----------------------------------------------------------------------------
(* The inductive invariant                                                  *)

\* TypeOK, in the parts that steps share.
Queued  == /\ pending \in [Places -> SUBSET UNION {Perceptions(pl) : pl \in Places}]
           /\ \A pl \in Places : pending[pl] \subseteq Perceptions(pl)
Memory  == /\ page \in [Places -> Page \union {NoPage}]
           /\ recency \in Seq(Channels) /\ Len(recency) <= MaxChannels
           /\ \A c \in Channels : page[c] # NoPage <=> IsIn(c, recency)
OneTurn == /\ place \in Places \union {None}
           /\ IF place = None THEN batch = {} ELSE batch # {} /\ batch \subseteq Perceptions(place)
           /\ tainted \in BOOLEAN /\ foreign \in BOOLEAN /\ sources \subseteq Facts
Bounds  == /\ wrote \in BOOLEAN
           /\ {common, owners} \subseteq 0..MaxChanges /\ {body, bodySent} \subseteq Signature
           /\ retryDate \in 0..MaxDays /\ today \in 1..MaxDays /\ boots \in 1..MaxBoots
Guarded == /\ safeMode \in BOOLEAN /\ saved \in BOOLEAN /\ tripped \in BOOLEAN
           /\ unverified \subseteq Dirs
HasRun  == last \in {None} \union [tool : scope.called, foreign : BOOLEAN, tripped : BOOLEAN]

\* An organ without a sample has nothing counted as sent, but after midnight.
Sensed  == \A o \in Organs : body[o] = 0 => bodySent[o] = 0 \/ (o = "cognition" /\ today > 1)

\* What the turns do not hold.
Outside == Bounds /\ Sensed

\* A page's taint says that there is foreign text on it, a public place's never.
Pages == \A pl \in Places : page[pl] # NoPage =>
            IF pl \in Publics THEN ~page[pl].tainted ELSE page[pl].tainted <=> page[pl].foreign

\* A stranger's turn is not tainted; any other but a one-off diary has a page,
\* and its taint.
InTurn == place # None =>
            /\ place \in Publics => ~tainted
            /\ ~OneOff(batch) => page[place] # NoPage /\ (page[place].tainted => tainted)

\* Safe mode holds from where it was entered, and the state file has it.
Remembered == tripped => safeMode /\ saved

IInv == /\ TaintGoverns /\ GuardsHold /\ PageIsTrue
        /\ NoneTwice(recency) /\ Pages /\ InTurn /\ Remembered /\ Sensed

\* The pages, whatever the turn: what a step that leaves them need not prove.
Threads == /\ Memory /\ NoneTwice(recency) /\ Pages /\ BodyIsNotLost
           /\ \A pl \in Places : page[pl] # NoPage =>
                 page[pl].hits = page[pl].holds /\ page[pl].blocks = page[pl].shows

\* The turn on its page.
OnPage == /\ (place # None /\ ~Stranger) => (tainted <=> foreign)
          /\ InTurn
          /\ place # None /\ ~OneOff(batch) =>
                sources \subseteq page[place].holds /\ page[place].told = safeMode

\* The last call.
RanRight == /\ (last # None /\ ~Stranger) => (last.foreign => last.tool \in TaintedTools)
            /\ GuardsHold

LEMMA Parts ==
  IInv <=> /\ scope \in Scopes /\ Queued /\ OneTurn /\ Outside /\ Guarded /\ HasRun
           /\ Threads /\ OnPage /\ RanRight
           /\ unverified \subseteq ExternalDirs /\ Remembered
<1>1. TypeOK <=> scope \in Scopes /\ Queued /\ Memory /\ OneTurn /\ Bounds /\ Guarded /\ HasRun
  BY DEF TypeOK, Queued, Memory, OneTurn, Bounds, Guarded, HasRun, IsIn
<1> QED
  BY <1>1, Zenon
     DEF IInv, TaintGoverns, TaintMatchesThread, ForeignTextStaysApart, PageIsTrue,
         PageHoldsWhatItSaw, Threads, OnPage, RanRight, Outside

LEMMA PartsNext ==
  IInv' <=> /\ (scope \in Scopes)' /\ Queued' /\ OneTurn' /\ Outside' /\ Guarded' /\ HasRun'
            /\ Threads' /\ OnPage' /\ RanRight'
            /\ (unverified \subseteq ExternalDirs)' /\ Remembered'
<1>1. TypeOK' <=> /\ (scope \in Scopes)' /\ Queued' /\ Memory' /\ OneTurn' /\ Bounds' /\ Guarded'
                  /\ HasRun'
  BY DEF TypeOK, Queued, Memory, OneTurn, Bounds, Guarded, HasRun, IsIn
<1> QED
  BY <1>1, Zenon
     DEF IInv, TaintGoverns, TaintMatchesThread, ForeignTextStaysApart, PageIsTrue,
         PageHoldsWhatItSaw, Threads, OnPage, RanRight, Outside

LEMMA PlaceFacts ==
  /\ Private \in Places /\ Channels \subseteq Places /\ Private \notin Channels
  /\ None \notin Places /\ NoPage \notin Page /\ Publics \subseteq Channels
BY TurnsAssumption DEF Places, Channels, NoPage

LEMMA ScopeFacts ==
  ASSUME scope \in Scopes
  PROVE  /\ scope.places \subseteq Places /\ None \notin scope.called
         /\ scope.days \in 1..MaxDays /\ scope.boots \in 1..MaxBoots
         /\ scope.facts \subseteq Facts
         /\ scope.changes \in 0..MaxChanges /\ scope.samples \in 0..MaxChanges
<1>1. scope \in Scope
  BY TurnsAssumption
<1> QED BY <1>1, TurnsAssumption DEF Scope

LEMMA SamePerceptions ==
  ASSUME scope' = scope
  PROVE  \A pl : Perceptions(pl)' = Perceptions(pl)
BY DEF Perceptions, Inbox

\* A step that changes the queue of one place.
LEMMA QueueOne ==
  ASSUME Queued, scope' = scope, NEW pl \in Places, NEW q \in SUBSET Perceptions(pl),
         pending' = [pending EXCEPT ![pl] = q]
  PROVE  Queued'
<1>1. \A x \in Places : Perceptions(x)' = Perceptions(x)
  BY SamePerceptions
<1>2. \A x \in Places : pending'[x] = IF x = pl THEN q ELSE pending[x]
  BY DEF Queued
<1>3. \A x \in Places : pending'[x] \subseteq Perceptions(x)
  BY <1>2 DEF Queued
<1>4. \A x \in Places : pending'[x] \subseteq UNION {Perceptions(y) : y \in Places}
  BY <1>3
<1>5. pending' \in [Places -> SUBSET UNION {Perceptions(y) : y \in Places}]
  BY <1>2, <1>4 DEF Queued
<1>6. {Perceptions(y) : y \in Places}' = {Perceptions(y) : y \in Places}
  BY <1>1
<1>7. (pending \in [Places -> SUBSET UNION {Perceptions(y) : y \in Places}])'
  BY <1>5, <1>6
<1> QED BY <1>1, <1>3, <1>7 DEF Queued

LEMMA QueueSame ==
  ASSUME Queued, scope' = scope, pending' = pending
  PROVE  Queued'
<1>1. Private \in Places /\ pending[Private] \in SUBSET Perceptions(Private)
  BY PlaceFacts DEF Queued
<1>2. pending' = [pending EXCEPT ![Private] = pending[Private]]
  BY <1>1 DEF Queued
<1>3. PICK q : q = pending[Private]
  OBVIOUS
<1> QED BY <1>1, <1>2, <1>3, QueueOne

-----------------------------------------------------------------------------
(* Steps that leave the turn and the pages as they are                      *)

LEMMA Quiet ==
  ASSUME IInv, scope' = scope, last' = None, Queued', Outside',
         today > 1 => today' > 1,
         UNCHANGED <<place, batch, tainted, foreign, sources, page, recency, bodySent,
                     safeMode, saved, tripped, unverified>>
  PROVE  IInv'
<1>0. /\ scope \in Scopes /\ Queued /\ OneTurn /\ Outside /\ Guarded /\ HasRun
      /\ Threads /\ OnPage /\ RanRight /\ unverified \subseteq ExternalDirs /\ Remembered
  BY Parts
<1>1. OneTurn'
  BY <1>0, SamePerceptions DEF OneTurn
<1>2. Guarded' /\ HasRun' /\ (unverified \subseteq ExternalDirs)' /\ Remembered'
  BY <1>0 DEF Guarded, HasRun, Remembered
<1>3. Threads'
  BY <1>0 DEF Threads, Memory, Pages, BodyIsNotLost
<1>4. OnPage'
  BY <1>0 DEF OnPage, InTurn, Stranger, Principal
<1>5. RanRight'
  BY DEF RanRight, GuardsHold, SafeModeHolds, OwnerToolsNeedTheOwner
<1> QED BY <1>0, <1>1, <1>2, <1>3, <1>4, <1>5, PartsNext

LEMMA ArriveKeeps ==
  ASSUME IInv, scope' = scope, NEW pl \in scope.places, NEW p \in Inbox(pl), Arrive(pl, p)
  PROVE  IInv'
<1>0. scope \in Scopes /\ Queued /\ Outside
  BY Parts
<1>1. pl \in Places
  BY <1>0, ScopeFacts
<1>2. PICK q : q = pending[pl] \union {p}
  OBVIOUS
<1>3. q \in SUBSET Perceptions(pl)
  BY <1>0, <1>1, <1>2 DEF Queued, Perceptions
<1>4. pending' = [pending EXCEPT ![pl] = q]
  BY <1>2 DEF Arrive
<1>5. Queued'
  BY <1>0, <1>1, <1>3, <1>4, QueueOne
<1>6. Outside'
  BY <1>0 DEF Arrive, Outside, Bounds, Sensed, turn, senses, clock
<1> QED
  BY <1>5, <1>6, Quiet DEF Arrive, turn, context, senses, safety, clock

LEMMA WorldKeeps ==
  ASSUME IInv, scope' = scope, Changes \/ Samples \/ NewDay
  PROVE  IInv'
<1>0. scope \in Scopes /\ Queued /\ Outside
  BY Parts
<1>1. /\ scope.days \in 1..MaxDays /\ scope.changes \in 0..MaxChanges
      /\ scope.samples \in 0..MaxChanges /\ MaxDays \in Nat /\ MaxChanges \in Nat
  BY <1>0, ScopeFacts, TurnsAssumption
<1>2. CASE Changes
  <2>1. Queued'
    BY <1>0, <1>2, QueueSame DEF Changes
  <2>2. {common', owners'} \subseteq 0..MaxChanges
    <3>1. common \in 0..MaxChanges /\ owners \in 0..MaxChanges
      BY <1>0 DEF Outside, Bounds, Sensed
    <3>2. common' \in 0..MaxChanges /\ owners' \in 0..MaxChanges
      BY <1>1, <1>2, <3>1 DEF Changes
    <3> QED BY <3>2
  <2>3. Outside'
    BY <1>0, <1>2, <2>2 DEF Changes, Outside, Bounds, Sensed, turn, clock
  <2> QED BY <1>2, <2>1, <2>3, Quiet DEF Changes, turn, context, safety, clock
<1>3. CASE Samples
  <2>1. Queued'
    BY <1>0, <1>3, QueueSame DEF Samples
  <2>1a. PICK o \in Organs, sig \in 1..scope.samples : body' = [body EXCEPT ![o] = sig]
    BY <1>3 DEF Samples
  <2>2. body' \in Signature /\ \A q \in Organs : body'[q] = 0 => body[q] = 0
    <3>1. sig \in 0..MaxChanges /\ sig # 0 /\ body \in Signature
      BY <1>0, <1>1 DEF Outside, Bounds
    <3> QED BY <2>1a, <3>1 DEF Signature
  <2>3. Outside'
    BY <1>0, <1>3, <2>2 DEF Samples, Outside, Bounds, Sensed, turn, clock
  <2> QED BY <1>3, <2>1, <2>3, Quiet DEF Samples, turn, context, safety, clock
<1>4. CASE NewDay
  <2>1. Queued'
    BY <1>0, <1>4, QueueSame DEF NewDay
  <2>2. today' \in 1..MaxDays /\ today' > 1
    BY <1>0, <1>1, <1>4 DEF NewDay, Outside, Bounds
  <2>2a. body' \in Signature /\ \A q \in Organs : body'[q] = 0 => body[q] = 0 \/ q = "cognition"
    <3>1. 0 \in 0..MaxChanges /\ body \in Signature /\ body' = [body EXCEPT !["cognition"] = 0]
      BY <1>0, <1>1, <1>4 DEF Outside, Bounds, NewDay
    <3> QED BY <3>1 DEF Signature
  <2>3. Outside'
    BY <1>0, <1>4, <2>2, <2>2a DEF NewDay, Outside, Bounds, Sensed, turn, senses
  <2> QED BY <1>4, <2>1, <2>2, <2>3, Quiet DEF NewDay, turn, context, senses, safety
<1> QED BY <1>2, <1>3, <1>4

LEMMA NotRunKeeps ==
  ASSUME IInv, scope' = scope, NEW tool, Refused(tool) \/ Denied(tool)
  PROVE  IInv'
<1>0. Queued /\ Outside
  BY Parts
<1>1. Queued'
  BY <1>0, QueueSame DEF Refused, Denied
<1>2. wrote' \in BOOLEAN
  <2>1. CASE Refused(tool)
    BY <1>0, <2>1 DEF Refused, turn, Outside, Bounds, Sensed
  <2>2. CASE Denied(tool)
    <3>1. wrote' = (wrote \/ tool = "WriteDiary")
      BY <2>2 DEF Denied
    <3> QED BY <3>1
  <2> QED BY <2>1, <2>2
<1>3. Outside'
  BY <1>0, <1>2 DEF Refused, Denied, Outside, Bounds, Sensed, senses, clock
<1> QED BY <1>1, <1>3, Quiet DEF Refused, Denied, turn, context, senses, safety, clock

-----------------------------------------------------------------------------
(* A call                                                                   *)

\* What the turn of a batch is, from what the batch holds.
LEMMA TurnFacts ==
  ASSUME IInv, place # None
  PROVE  /\ Principal \in Principals /\ Kind \in Kinds
         /\ Stranger <=> place \in Publics
         /\ Principal \in Owners => \E p \in batch : p.kind = "UserSpoke" \/ (p.owner /\ p.dm)
         /\ OneOff(batch) => place = Private
         /\ safeMode => Kind = "safe_mode"
         /\ Kind = "reflection" => Has("ReflectionMoment", batch)
<1>0. scope \in Scopes /\ OneTurn /\ safeMode \in BOOLEAN
  BY Parts DEF Guarded
<1>1. place \in Places /\ batch # {} /\ batch \subseteq Perceptions(place)
  BY <1>0 DEF OneTurn
<1>2. PICK b : b = batch
  OBVIOUS
<1>3. PICK pl : pl = place
  OBVIOUS
<1>4. pl \in Places /\ b # {} /\ b \subseteq Perceptions(pl)
  BY <1>1, <1>2, <1>3
<1>5. /\ PrincipalOf(b) \in Principals
      /\ PrincipalOf(b) = "external_public" <=> pl \in Publics
      /\ PrincipalOf(b) \in Owners => \E p \in b : p.kind = "UserSpoke" \/ (p.owner /\ p.dm)
      /\ OneOff(b) => pl = Private
  BY <1>0, <1>4, ActsFor
<1>6. PICK s : s = safeMode
  OBVIOUS
<1>7. /\ EffectiveKind(MomentOf(b), s) \in Kinds
      /\ s => EffectiveKind(MomentOf(b), s) = "safe_mode"
      /\ EffectiveKind(MomentOf(b), s) = "reflection" => Has("ReflectionMoment", b)
  BY <1>0, <1>6, KindIs
<1>8. Principal = PrincipalOf(b) /\ Kind = EffectiveKind(MomentOf(b), s)
  BY <1>2, <1>6 DEF Principal, Kind
<1> QED BY <1>2, <1>3, <1>5, <1>6, <1>7, <1>8, Zenon DEF Stranger

\* Memory that is no stranger's is clean as long as foreign text is apart.
LEMMA NothingSurfaces ==
  ASSUME unverified \subseteq ExternalDirs
  PROVE  MayHit = {FALSE} /\ \A tool : ~RecallsForeign(tool)
<1>1. Surfaces = {}
  BY DEF Surfaces
<1> QED BY <1>1 DEF MayHit, RecallsForeign

\* What a turn with foreign text on its thread writes stays outside.
LEMMA WritesOutside ==
  ASSUME IInv, place # None, foreign, NEW tool \in EffectiveBound
  PROVE  WritesTo(tool) \subseteq ExternalDirs
<1>0. OnPage /\ OneTurn
  BY Parts
<1>1. Principal \in Principals /\ (Stranger <=> place \in Publics)
  BY TurnFacts
<1>2. CASE Stranger
  <2>1. ~tainted
    BY <1>0, <1>1, <1>2 DEF OnPage, InTurn
  <2>2. TierDir[OriginTier[Principal]] = "external_public"
    BY <1>2 DEF Stranger, OriginTier, TierDir
  <2> QED BY <2>1, <2>2 DEF WritesTo, NoteDir, ExternalDirs
<1>3. CASE ~Stranger
  <2>1. tainted
    BY <1>0, <1>3 DEF OnPage
  <2>2. tool \in TaintedTools
    BY <1>3, <2>1 DEF EffectiveBound
  <2>3. tool # "WriteDiary"
    BY <2>2 DEF TaintedTools
  <2> QED BY <2>1, <2>3 DEF WritesTo, NoteDir, ExternalDirs
<1> QED BY <1>2, <1>3

LEMMA RunKeepsPage ==
  ASSUME IInv, scope' = scope, NEW tool \in scope.called, NEW external \in BOOLEAN,
         NEW ok \in BOOLEAN, Runs(tool, external, ok)
  PROVE  Queued' /\ OneTurn' /\ Outside' /\ Guarded' /\ HasRun' /\ Threads' /\ Remembered'
         /\ (unverified \subseteq ExternalDirs)'
<1>0. /\ scope \in Scopes /\ Queued /\ OneTurn /\ Outside /\ Guarded /\ HasRun
      /\ Threads /\ OnPage /\ unverified \subseteq ExternalDirs /\ Remembered
  BY Parts
<1>1. /\ place # None /\ tool \in EffectiveBound
      /\ UNCHANGED <<pending, place, batch, sources, page, recency, common, owners, body, bodySent,
                     safeMode, saved, tripped, retryDate, today, boots>>
  BY DEF Runs, context, senses, safety, clock
<1>2. Queued'
  BY <1>0, <1>1, QueueSame
<1>3. tainted' \in BOOLEAN /\ foreign' \in BOOLEAN /\ wrote' \in BOOLEAN
  BY Zenon DEF Runs
<1>4. OneTurn'
  BY <1>0, <1>1, <1>3, SamePerceptions DEF OneTurn
<1>5. Outside'
  BY <1>0, <1>1, <1>3 DEF Outside, Bounds, Sensed
<1>6. unverified' \subseteq ExternalDirs
  <2>1. CASE foreign
    BY <1>0, <1>1, <2>1, WritesOutside DEF Runs
  <2>2. CASE ~foreign
    BY <1>0, <2>2 DEF Runs
  <2> QED BY <2>1, <2>2
<1>7. Guarded'
  BY <1>0, <1>1, <1>6 DEF Guarded, ExternalDirs, Dirs
<1>8. HasRun'
  <2>1. foreign \in BOOLEAN /\ tripped \in BOOLEAN
    BY <1>0 DEF OneTurn, Guarded
  <2> QED BY <2>1 DEF HasRun, Runs
<1>9. Threads' /\ Remembered'
  BY <1>0, <1>1 DEF Threads, Memory, Pages, BodyIsNotLost, Remembered
<1> QED BY <1>2, <1>4, <1>5, <1>6, <1>7, <1>8, <1>9

LEMMA RunKeepsTaint ==
  ASSUME IInv, scope' = scope, NEW tool, NEW external, NEW ok, Runs(tool, external, ok)
  PROVE  OnPage'
<1>0. OnPage /\ unverified \subseteq ExternalDirs
  BY Parts
<1>1. /\ place # None /\ UNCHANGED <<place, batch, sources, page, safeMode>>
      /\ tainted' = (tainted \/ (~Stranger /\ CallTaints(tool, external)))
      /\ foreign' = (foreign \/ CallTaints(tool, external) \/ RecallsForeign(tool))
  BY DEF Runs, context, safety
<1>2. ~RecallsForeign(tool)
  BY <1>0, NothingSurfaces
<1>3. Stranger' <=> Stranger
  BY <1>1 DEF Stranger, Principal
<1>4. Stranger <=> place \in Publics
  BY <1>1, TurnFacts
<1>5. ~Stranger' => (tainted' <=> foreign')
  BY <1>0, <1>1, <1>2, <1>3, Zenon DEF OnPage
<1>6. InTurn'
  <2>1. InTurn
    BY <1>0 DEF OnPage
  <2>2. tainted => tainted'
    BY <1>1
  <2>3. Stranger => (tainted' <=> tainted)
    BY <1>1
  <2> QED BY <1>1, <1>4, <2>1, <2>2, <2>3, Zenon DEF InTurn
<1>7. (place # None /\ ~OneOff(batch) =>
          sources \subseteq page[place].holds /\ page[place].told = safeMode)'
  BY <1>0, <1>1 DEF OnPage
<1> QED BY <1>5, <1>6, <1>7 DEF OnPage

LEMMA RunIsGuarded ==
  ASSUME IInv, scope' = scope, NEW tool \in scope.called, NEW external, NEW ok,
         Runs(tool, external, ok)
  PROVE  RanRight'
<1>0. /\ scope \in Scopes /\ OnPage /\ Remembered
  BY Parts
<1>1. /\ place # None /\ tool \in EffectiveBound /\ batch' = batch
      /\ last'.tool = tool /\ last'.foreign = foreign /\ last'.tripped = tripped
  BY DEF Runs
<1>2. /\ Principal \in Principals /\ Kind \in Kinds
      /\ Principal \in Owners => \E p \in batch : p.kind = "UserSpoke" \/ (p.owner /\ p.dm)
      /\ safeMode => Kind = "safe_mode"
      /\ Kind = "reflection" => Has("ReflectionMoment", batch)
  BY <1>1, TurnFacts
<1>3. tool \in BoundTools[Kind][Principal]
  BY <1>1 DEF EffectiveBound
<1>4. ~Stranger' => (last'.foreign => last'.tool \in TaintedTools)
  <2>1. Stranger' <=> Stranger
    BY <1>1 DEF Stranger, Principal
  <2>2. ~Stranger /\ foreign => tainted
    BY <1>0, <1>1 DEF OnPage
  <2>3. ~Stranger /\ foreign => tool \in TaintedTools
    BY <1>1, <2>2 DEF EffectiveBound
  <2> QED BY <1>1, <2>1, <2>3
<1>5. last'.tripped => last'.tool \in {"Recall", "ReadToolOutput"}
  <2>1. tripped => tool \in BoundTools["safe_mode"][Principal]
    BY <1>0, <1>2, <1>3 DEF Remembered
  <2> QED BY <1>1, <1>2, <2>1, SafeModeBinds
<1>6. last'.tool = "LearnName" => \E p \in batch' : p.kind = "UserSpoke" \/ (p.owner /\ p.dm)
  <2>1. tool = "LearnName" => Principal \in Owners
    BY <1>2, <1>3, LearnNameBinds
  <2> QED BY <1>1, <1>2, <2>1
<1>7. last'.tool = "PinSelf" => \/ Has("ReflectionMoment", batch')
                                \/ \E p \in batch' : p.kind = "UserSpoke" \/ (p.owner /\ p.dm)
  <2>1. tool = "PinSelf" => Kind = "reflection" \/ Principal \in Owners
    BY <1>2, <1>3, PinSelfBinds
  <2> QED BY <1>1, <1>2, <2>1
<1> QED
  BY <1>4, <1>5, <1>6, <1>7
     DEF RanRight, GuardsHold, SafeModeHolds, OwnerToolsNeedTheOwner

-----------------------------------------------------------------------------
(* The turn's end                                                           *)

\* Between turns there is no turn to be right about.
LEMMA NoTurn ==
  ASSUME place' = None, batch' = {}, tainted' = FALSE, foreign' = FALSE, sources' = {},
         last' = None
  PROVE  OneTurn' /\ HasRun' /\ OnPage' /\ RanRight'
BY DEF OneTurn, HasRun, OnPage, InTurn, RanRight, GuardsHold, SafeModeHolds,
       OwnerToolsNeedTheOwner

\* The page takes the turn's taint and its text along.
LEMMA Left ==
  ASSUME IInv, place # None, NEW due \in BOOLEAN, LeaveThread(due),
         UNCHANGED <<recency, bodySent, today>>
  PROVE  Threads'
<1>0. OneTurn /\ Threads /\ OnPage
  BY Parts
<1>1. place \in Places /\ tainted \in BOOLEAN /\ foreign \in BOOLEAN
  BY <1>0 DEF OneTurn
<1>2. CASE OneOff(batch)
  <2>1. page' = page
    BY <1>2 DEF LeaveThread
  <2> QED BY <1>0, <2>1 DEF Threads, Memory, Pages, BodyIsNotLost
<1>3. CASE ~OneOff(batch)
  <2>0. page \in [Places -> Page \union {NoPage}]
    BY <1>0 DEF Threads, Memory
  <2>1. PICK p : p = page[place]
    OBVIOUS
  <2>2. p \in Page /\ p # NoPage
    BY <1>0, <1>1, <1>3, <2>0, <2>1 DEF OnPage, InTurn
  <2>3. PICK r : r = [p EXCEPT !.tainted = p.tainted \/ tainted, !.foreign = foreign, !.due = due]
    OBVIOUS
  <2>4. page' = [page EXCEPT ![place] = r]
    <3>1. page' = [page EXCEPT ![place] = [page[place] EXCEPT !.tainted = page[place].tainted \/ tainted,
                                                              !.foreign = foreign, !.due = due]]
      BY <1>3, Zenon DEF LeaveThread
    <3> QED BY <2>1, <2>3, <3>1
  <2>5. /\ p.tainted \in BOOLEAN /\ p.due \in BOOLEAN /\ p.blocks \in Snapshots
        /\ p.hits \in SUBSET Facts /\ p.told \in BOOLEAN /\ p.foreign \in BOOLEAN
        /\ p.holds \in SUBSET Facts /\ p.shows \in Snapshots /\ p.body \in Signature
    BY <2>2 DEF Page
  <2>6. PICK t \in BOOLEAN : t = (p.tainted \/ tainted)
    BY Zenon
  <2>7. r = [tainted |-> t, due |-> due, blocks |-> p.blocks, hits |-> p.hits, told |-> p.told,
             foreign |-> foreign, holds |-> p.holds, shows |-> p.shows, body |-> p.body]
    BY <2>2, <2>3, <2>6 DEF Page
  <2>8. r \in Page /\ r # NoPage
    BY <1>1, <2>5, <2>6, <2>7, PlaceFacts DEF Page
  <2>9. \A q \in Places : page'[q] = IF q = place THEN r ELSE page[q]
    BY <2>0, <2>4
  <2>10. Memory'
    <3>1. page' \in [Places -> Page \union {NoPage}]
      BY <2>0, <2>4, <2>8
    <3>2. \A c \in Channels : page'[c] # NoPage <=> page[c] # NoPage
      BY <2>1, <2>2, <2>8, <2>9, PlaceFacts
    <3> QED BY <1>0, <3>1, <3>2 DEF Threads, Memory
  <2>11. Pages'
    <3>1. place \in Publics => ~p.tainted /\ ~tainted
      BY <1>0, <1>1, <2>1, <2>2 DEF Threads, Pages, OnPage, InTurn
    <3>2. place \notin Publics => (tainted <=> foreign)
      BY <1>0, <1>1, TurnFacts DEF OnPage
    <3>3. p.tainted => tainted
      BY <1>0, <1>1, <1>3, <2>1 DEF OnPage, InTurn
    <3>4. IF place \in Publics THEN ~r.tainted ELSE r.tainted <=> r.foreign
      BY <2>6, <2>7, <3>1, <3>2, <3>3
    <3> QED BY <1>0, <2>9, <3>4 DEF Threads, Pages
  <2>12. BodyIsNotLost'
    BY <1>0, <2>1, <2>2, <2>7, <2>9, PlaceFacts DEF Threads, BodyIsNotLost
  <2>13. \A pl \in Places : page'[pl] # NoPage =>
            page'[pl].hits = page'[pl].holds /\ page'[pl].blocks = page'[pl].shows
    BY <1>0, <1>1, <2>1, <2>2, <2>7, <2>9 DEF Threads
  <2>14. NoneTwice(recency')
    BY <1>0 DEF Threads
  <2> QED BY <2>10, <2>11, <2>12, <2>13, <2>14 DEF Threads
<1> QED BY <1>2, <1>3

LEMMA ReturnKeeps ==
  ASSUME IInv, scope' = scope, NEW trips \in BOOLEAN, NEW due \in BOOLEAN, Returns(trips, due)
  PROVE  IInv'
<1>0. /\ scope \in Scopes /\ Queued /\ OneTurn /\ Outside /\ Guarded
      /\ unverified \subseteq ExternalDirs /\ Remembered
  BY Parts
<1>1. /\ place # None /\ SafeModeEntered(trips) /\ saved' = safeMode' /\ LeaveThread(due)
      /\ RetryOnce
      /\ UNCHANGED <<recency, wrote, common, owners, body, bodySent, today, boots, unverified>>
  BY DEF Returns, senses, clock
<1>2. Threads'
  BY <1>1, Left
<1>3. OneTurn' /\ HasRun' /\ OnPage' /\ RanRight'
  BY <1>1, NoTurn DEF LeaveThread
<1>4. Outside'
  <2>1. retryDate' \in 0..MaxDays
    BY <1>0, <1>1, TurnsAssumption DEF RetryOnce, Outside, Bounds, Sensed
  <2> QED BY <1>0, <1>1, <2>1 DEF Outside, Bounds, Sensed
<1>5. Guarded' /\ Remembered'
  <2>1. safeMode' = (safeMode \/ trips) /\ tripped' = (tripped \/ trips)
    BY <1>1 DEF SafeModeEntered
  <2>2. safeMode' \in BOOLEAN /\ tripped' \in BOOLEAN
    BY <2>1, Zenon
  <2>3. saved' \in BOOLEAN /\ (tripped' => safeMode' /\ saved')
    BY <1>0, <1>1, <2>1, <2>2 DEF Remembered
  <2> QED BY <1>0, <1>1, <2>2, <2>3 DEF Guarded, Remembered
<1>6. Queued'
  <2>1. PICK q : q = pending[Private]
                   \union (IF trips /\ ~safeMode THEN {Moment("SafeModeEntered")} ELSE {})
                   \union (IF retryDate' # retryDate THEN {Moment("DiaryMoment")} ELSE {})
    OBVIOUS
  <2>2. pending' = [pending EXCEPT ![Private] = q]
    BY <2>1 DEF Returns
  <2>3. {Moment("SafeModeEntered"), Moment("DiaryMoment")} \subseteq Perceptions(Private)
    BY DEF Perceptions
  <2>4. pending[Private] \subseteq Perceptions(Private)
    BY <1>0, PlaceFacts DEF Queued
  <2>5. q \in SUBSET Perceptions(Private)
    <3> HIDE DEF Perceptions, Moment
    <3> QED BY <2>1, <2>3, <2>4
  <2> QED BY <1>0, <2>2, <2>5, QueueOne, PlaceFacts
<1> QED BY <1>0, <1>1, <1>2, <1>3, <1>4, <1>5, <1>6, PartsNext

LEMMA BrainDownKeeps ==
  ASSUME IInv, scope' = scope, NEW server \in BOOLEAN, BrainDown(server)
  PROVE  IInv'
<1>0. /\ scope \in Scopes /\ Queued /\ Outside /\ Guarded
      /\ unverified \subseteq ExternalDirs /\ Remembered
  BY Parts
<1>1. /\ place # None /\ LeaveThread(server)
      /\ UNCHANGED <<pending, recency, wrote, common, owners, body, bodySent, safeMode, saved, tripped,
                     retryDate, today, boots, unverified>>
  BY DEF BrainDown, senses, safety, clock
<1>2. Threads'
  BY <1>1, Left
<1>3. OneTurn' /\ HasRun' /\ OnPage' /\ RanRight'
  BY <1>1, NoTurn DEF LeaveThread
<1>4. Outside' /\ Guarded' /\ Remembered'
  BY <1>0, <1>1 DEF Outside, Bounds, Sensed, Guarded, Remembered
<1>5. Queued'
  BY <1>0, <1>1, QueueSame
<1> QED BY <1>0, <1>1, <1>2, <1>3, <1>4, <1>5, PartsNext

LEMMA RestartKeeps ==
  ASSUME IInv, scope' = scope, Restart
  PROVE  IInv'
<1>0. /\ scope \in Scopes /\ Queued /\ OneTurn /\ Outside /\ Guarded
      /\ unverified \subseteq ExternalDirs /\ Remembered
  BY Parts
<1>1. /\ page' = [pl \in Places |-> NoPage] /\ recency' = <<>>
      /\ safeMode' = saved /\ wrote' = FALSE /\ retryDate' = 0
      /\ body' = [body EXCEPT !["pulse"] = 0] /\ bodySent' = Unsampled
      /\ boots < scope.boots /\ boots' = boots + 1
      /\ UNCHANGED <<common, owners, saved, tripped, today, unverified>>
  BY DEF Restart
<1>2. OneTurn' /\ HasRun' /\ OnPage' /\ RanRight'
  <2>1. place' = None /\ batch' = {} /\ tainted' = FALSE /\ foreign' = FALSE /\ sources' = {}
        /\ last' = None
    BY DEF Restart
  <2> QED BY <2>1, NoTurn
<1>3. Threads'
  <2>1. \A pl \in Places : page'[pl] = NoPage
    BY <1>1
  <2>2. page' \in [Places -> Page \union {NoPage}]
    BY <1>1
  <2>3. recency' \in Seq(Channels) /\ Len(recency') = 0 /\ DOMAIN recency' = {}
    BY <1>1
  <2>4. Len(recency') <= MaxChannels
    BY <2>3, TurnsAssumption
  <2>5. NoneTwice(recency') /\ \A c : ~IsIn(c, recency')
    BY <2>3 DEF NoneTwice, IsIn
  <2>6. Memory'
    BY <2>1, <2>2, <2>3, <2>4, <2>5, PlaceFacts DEF Memory
  <2> QED BY <2>1, <2>5, <2>6, PlaceFacts DEF Threads, Pages, BodyIsNotLost
<1>4. Outside'
  <2>1. boots' \in 1..MaxBoots
    BY <1>0, <1>1, ScopeFacts, TurnsAssumption DEF Outside, Bounds, Sensed
  <2>2. 0 \in 0..MaxChanges /\ 0 \in 0..MaxDays
    BY TurnsAssumption
  <2>3. body' \in Signature /\ bodySent' \in Signature /\ \A o \in Organs : bodySent'[o] = 0
    <3>1. body \in Signature
      BY <1>0 DEF Outside, Bounds
    <3> QED BY <1>1, <2>2, <3>1, UnsampledIs DEF Signature
  <2> QED BY <1>0, <1>1, <2>1, <2>2, <2>3 DEF Outside, Bounds, Sensed
<1>5. Guarded' /\ Remembered'
  BY <1>0, <1>1 DEF Guarded, Remembered
<1>6. Queued'
  <2>1. CASE place = None
    BY <1>0, <2>1, QueueSame DEF Restart
  <2>2. CASE place # None
    <3>1. PICK pl : pl = place
      OBVIOUS
    <3>2. PICK q : q = pending[pl] \union batch
      OBVIOUS
    <3>3. pl \in Places /\ q \in SUBSET Perceptions(pl)
      BY <1>0, <2>2, <3>1, <3>2 DEF OneTurn, Queued
    <3>4. pending' = [pending EXCEPT ![pl] = q]
      BY <2>2, <3>1, <3>2 DEF Restart
    <3> QED BY <1>0, <3>3, <3>4, QueueOne
  <2> QED BY <2>1, <2>2
<1> QED BY <1>0, <1>1, <1>2, <1>3, <1>4, <1>5, <1>6, PartsNext

-----------------------------------------------------------------------------
(* The turn's start                                                         *)

\* What Begin and Aborts share: the batch leaves the queue, the owner at the
\* keyboard ends safe mode.
LEMMA DrainedKeeps ==
  ASSUME IInv, scope' = scope, NEW pl \in Places, NEW b \in SomeBatch(pl), Drained(pl, b),
         UNCHANGED <<saved, retryDate, today, boots, unverified>>
  PROVE  /\ place = None /\ b # {} /\ b \subseteq Perceptions(pl)
         /\ Queued' /\ Guarded' /\ Remembered' /\ HasRun' /\ RanRight'
         /\ safeMode' \in BOOLEAN /\ body' = body
         /\ bodySent' \in Signature /\ Sensed' => Outside'
<1>0. /\ scope \in Scopes /\ Queued /\ Outside /\ Guarded /\ Remembered
  BY Parts
<1>1. /\ place = None /\ LeavesSafeMode(b) /\ wrote' = FALSE /\ last' = None
      /\ pending' = [pending EXCEPT ![pl] = pending[pl] \ b]
      /\ UNCHANGED <<common, owners, body>>
  BY DEF Drained, world
<1>2. b # {} /\ b \subseteq pending[pl] /\ pending[pl] \subseteq Perceptions(pl)
  BY <1>0 DEF SomeBatch, Queued
<1>3. Queued'
  <2>1. PICK q : q = pending[pl] \ b
    OBVIOUS
  <2>2. q \in SUBSET Perceptions(pl) /\ pending' = [pending EXCEPT ![pl] = q]
    BY <1>1, <1>2, <2>1
  <2> QED BY <1>0, <2>2, QueueOne
<1>4. PICK h \in BOOLEAN : h <=> Has("UserSpoke", b)
  BY DEF Has
<1>5. safeMode' = (safeMode /\ ~h) /\ tripped' = (tripped /\ ~h)
  BY <1>1, <1>4, Zenon DEF LeavesSafeMode
<1>6. safeMode' \in BOOLEAN /\ tripped' \in BOOLEAN
  BY <1>5, Zenon
<1>7. Guarded' /\ Remembered'
  BY <1>0, <1>5, <1>6 DEF Guarded, Remembered
<1>8. HasRun' /\ RanRight'
  BY <1>1 DEF HasRun, RanRight, GuardsHold, SafeModeHolds, OwnerToolsNeedTheOwner
<1>9. bodySent' \in Signature /\ Sensed' => Outside'
  BY <1>0, <1>1 DEF Outside, Bounds
<1> QED BY <1>1, <1>2, <1>3, <1>6, <1>7, <1>8, <1>9

LEMMA AbortKeeps ==
  ASSUME IInv, scope' = scope, NEW pl \in Places, NEW b \in SomeBatch(pl), Aborts(pl, b)
  PROVE  IInv'
<1>0. /\ scope \in Scopes /\ OneTurn /\ Outside /\ Threads
      /\ unverified \subseteq ExternalDirs
  BY Parts
<1>1. /\ Drained(pl, b)
      /\ UNCHANGED <<place, batch, tainted, foreign, sources, page, recency, bodySent, saved,
                     retryDate, today, boots, unverified>>
  BY DEF Aborts, context, clock
<1>2. place = None /\ Queued' /\ Guarded' /\ Remembered' /\ HasRun' /\ RanRight' /\ Outside'
  <2>1. bodySent' \in Signature /\ Sensed'
    BY <1>0, <1>1 DEF Drained, world, Outside, Bounds, Sensed
  <2> QED BY <1>1, <2>1, DrainedKeeps
<1>3. OneTurn' /\ OnPage'
  BY <1>0, <1>1, <1>2, SamePerceptions DEF OneTurn, OnPage, InTurn
<1>4. Threads'
  BY <1>0, <1>1 DEF Threads, Memory, Pages, BodyIsNotLost
<1> QED BY <1>0, <1>1, <1>2, <1>3, <1>4, PartsNext

\* The page a turn opens, old or new: what it is taken to hold is on it.
LEMMA OpenedIs ==
  ASSUME IInv, NEW pl \in Places, NEW changed, NEW p, p = PageOf(pl, changed)
  PROVE  /\ p \in Page /\ p.hits = p.holds /\ p.blocks = p.shows
         /\ IF pl \in Publics THEN ~p.tainted ELSE p.tainted <=> p.foreign
         /\ NewPage(pl, changed) => \A o \in Organs : p.body[o] = 0
         /\ ~NewPage(pl, changed) => page[pl] # NoPage /\ p = page[pl]
<1>0. Threads /\ TypeOK
  BY Parts DEF IInv, TaintGoverns, TaintMatchesThread
<1>1. CASE NewPage(pl, changed)
  <2>1. p = FreshPage(pl)
    BY <1>1 DEF PageOf
  <2> QED BY <1>0, <1>1, <2>1, FreshIs, UnsampledIs
<1>2. CASE ~NewPage(pl, changed)
  <2>1. p = page[pl] /\ page[pl] # NoPage
    BY <1>2 DEF PageOf, NewPage
  <2>2. p \in Page
    BY <1>0, <2>1 DEF TypeOK
  <2> QED BY <1>0, <1>2, <2>1, <2>2 DEF Threads, Pages
<1> QED BY <1>1, <1>2

LEMMA BeginKeepsPage ==
  ASSUME IInv, scope' = scope, NEW pl \in Places, NEW b \in SomeBatch(pl),
         NEW changed \in BOOLEAN, NEW hit \in MayHit, NEW found \in Found(pl),
         Begin(pl, b, changed, hit, found), ~OneOff(b)
  PROVE  Threads' /\ OneTurn' /\ OnPage'
<1>0. /\ scope \in Scopes /\ Threads /\ Outside /\ TypeOK /\ unverified \subseteq ExternalDirs
  BY Parts DEF IInv, TaintGoverns, TaintMatchesThread
<1>1. /\ Drained(pl, b) /\ place' = pl /\ batch' = b
      /\ bodySent' = BodySignal(pl, b, NewPage(pl, changed), bodySent)
      /\ UNCHANGED <<saved, retryDate, today, boots, unverified>>
  BY DEF Begin, clock
<1>2. b # {} /\ b \subseteq Perceptions(pl) /\ safeMode' \in BOOLEAN
  BY <1>1, DrainedKeeps
<1>3. PICK p : p = PageOf(pl, changed)
  OBVIOUS
<1>4. /\ p \in Page /\ p.hits = p.holds /\ p.blocks = p.shows
      /\ IF pl \in Publics THEN ~p.tainted ELSE p.tainted <=> p.foreign
      /\ NewPage(pl, changed) => \A o \in Organs : p.body[o] = 0
      /\ ~NewPage(pl, changed) => page[pl] # NoPage /\ p = page[pl]
  BY <1>3, OpenedIs
<1>5. PICK stranger \in BOOLEAN : stranger <=> PrincipalOf(b) = "external_public"
  OBVIOUS
<1>6. /\ tainted' = (p.tainted /\ ~stranger)
      /\ foreign' = (p.foreign \/ stranger \/ hit)
      /\ \E new \in NewHits(p, found) :
            LET next == Delta(pl, [p EXCEPT !.foreign = foreign'], b, NewPage(pl, changed), new) IN
            sources' = found \intersect next.hits /\ Store(pl, next)
  BY <1>3, <1>5, Zenon DEF Begin
<1>7. ~hit
  BY <1>0, NothingSurfaces
<1>8. stranger <=> pl \in Publics
  BY <1>0, <1>2, <1>5, ActsFor
<1>9. tainted' \in BOOLEAN /\ foreign' \in BOOLEAN
  BY <1>6, Zenon
<1>10. PICK new \in NewHits(p, found) :
         LET next == Delta(pl, [p EXCEPT !.foreign = foreign'], b, NewPage(pl, changed), new) IN
         sources' = found \intersect next.hits /\ Store(pl, next)
  BY <1>6
<1>11. PICK r : r = Delta(pl, [p EXCEPT !.foreign = foreign'], b, NewPage(pl, changed), new)
  OBVIOUS
<1>12. sources' = found \intersect r.hits /\ Store(pl, r)
  BY <1>10, <1>11
<1>13. found \subseteq Facts
  BY <1>0, ScopeFacts DEF Found
<1>14. new \in SUBSET Facts
  BY <1>13 DEF NewHits, kSubset
<1>15. PICK f \in BOOLEAN : f = foreign'
  BY <1>9
<1>16. PICK fresh \in BOOLEAN : fresh = NewPage(pl, changed)
  BY DEF NewPage
<1>16a. r = Delta(pl, [p EXCEPT !.foreign = f], b, fresh, new)
  BY <1>11, <1>15, <1>16
<1>17. /\ r \in Page /\ r.tainted = p.tainted /\ r.foreign = f
       /\ r.told = safeMode' /\ r.hits = p.hits \union new /\ r.holds = p.holds \union new
       /\ p.blocks = p.shows => r.blocks = r.shows
       /\ r.body = BodySignal(pl, b, fresh, p.body)
  BY <1>0, <1>2, <1>4, <1>14, <1>16a, DeltaIs
<1>18. NoneTwice(recency)
  BY <1>0 DEF Threads
<1>19. /\ recency' \in Seq(Channels) /\ Len(recency') <= MaxChannels /\ NoneTwice(recency')
       /\ page' \in [Places -> Page \union {NoPage}]
       /\ \A c \in Channels : page'[c] # NoPage <=> IsIn(c, recency')
       /\ page'[pl] = r
       /\ \A q \in Places : q # pl => page'[q] = page[q] \/ page'[q] = NoPage
       /\ pl # Private => page'[Private] = page[Private]
  BY <1>0, <1>12, <1>17, <1>18, Stored
<1>20. r.hits = r.holds /\ r.blocks = r.shows
  BY <1>4, <1>17
<1>21. IF pl \in Publics THEN ~r.tainted ELSE r.tainted <=> r.foreign
  BY <1>4, <1>6, <1>7, <1>8, <1>15, <1>17
<1>22. Threads'
  <2>1. Memory'
    BY <1>19 DEF Memory
  <2>2. Pages'
    BY <1>0, <1>19, <1>21 DEF Threads, Pages
  <2>3. BodyIsNotLost'
    <3>1. CASE pl = Private
      <4>1. /\ p.body \in Signature /\ body \in Signature /\ bodySent \in Signature
            /\ today' = today
        BY <1>0, <1>1, <1>4 DEF Page, TypeOK
      <4>2. \A o \in Organs :
              /\ r.body[o] = IF Given(o, pl, b, fresh) THEN body[o] ELSE p.body[o]
              /\ bodySent'[o] = IF Given(o, pl, b, fresh) THEN body[o] ELSE bodySent[o]
        BY <1>1, <1>16, <1>17, <4>1, SignalIs
      <4>3. ASSUME NEW o \in Organs
            PROVE  r.body[o] = bodySent'[o] \/ (o = "cognition" /\ r.body[o] = 0 /\ today > 1)
        <5>1. CASE Given(o, pl, b, fresh)
          BY <4>2, <5>1
        <5>2. CASE ~Given(o, pl, b, fresh) /\ fresh
          <6>1. p.body[o] = 0 /\ body[o] = 0
            BY <1>4, <1>16, <3>1, <5>2 DEF Given, ReadsBody
          <6> QED BY <1>0, <4>2, <5>2, <6>1 DEF Outside, Sensed
        <5>3. CASE ~Given(o, pl, b, fresh) /\ ~fresh
          <6>1. page[Private] # NoPage /\ p = page[Private]
            BY <1>4, <1>16, <3>1, <5>3
          <6> QED BY <1>0, <4>2, <5>3, <6>1 DEF Threads, BodyIsNotLost
        <5> QED BY <5>1, <5>2, <5>3
      <4> QED BY <1>19, <3>1, <4>1, <4>3 DEF BodyIsNotLost
    <3>2. CASE pl # Private
      <4>1. bodySent' = bodySent /\ today' = today
        BY <1>0, <1>1, <3>2, NothingRead DEF TypeOK, ReadsBody
      <4> QED BY <1>0, <1>19, <3>2, <4>1 DEF Threads, BodyIsNotLost
    <3> QED BY <3>1, <3>2
  <2>4. \A q \in Places : page'[q] # NoPage =>
           page'[q].hits = page'[q].holds /\ page'[q].blocks = page'[q].shows
    BY <1>0, <1>19, <1>20 DEF Threads
  <2> QED BY <1>19, <2>1, <2>2, <2>3, <2>4 DEF Threads
<1>23. sources' \subseteq r.holds /\ r.holds \subseteq Facts
  BY <1>4, <1>12, <1>14, <1>17 DEF Page
<1>24. OneTurn'
  <2>1. pl # None
    BY PlaceFacts
  <2>2. sources' \subseteq Facts
    BY <1>23
  <2> QED BY <1>1, <1>2, <1>9, <2>1, <2>2, SamePerceptions DEF OneTurn
<1>25. OnPage'
  <2>1. Stranger' <=> stranger
    BY <1>1, <1>5 DEF Stranger, Principal
  <2>2. ~stranger => (tainted' <=> foreign')
    BY <1>4, <1>6, <1>7, <1>8
  <2>3. stranger => ~tainted'
    BY <1>6
  <2>4. r # NoPage /\ (r.tainted => ~stranger /\ tainted')
    BY <1>4, <1>6, <1>8, <1>17, PlaceFacts
  <2>5. InTurn'
    BY <1>1, <1>8, <1>19, <2>3, <2>4 DEF InTurn
  <2>6. sources' \subseteq page'[place'].holds /\ page'[place'].told = safeMode'
    BY <1>1, <1>17, <1>19, <1>23
  <2> QED BY <2>1, <2>2, <2>5, <2>6 DEF OnPage
<1> QED BY <1>22, <1>24, <1>25

LEMMA BeginKeeps ==
  ASSUME IInv, scope' = scope, NEW pl \in Places, NEW b \in SomeBatch(pl),
         NEW changed \in BOOLEAN, NEW hit \in MayHit, NEW found \in Found(pl),
         Begin(pl, b, changed, hit, found)
  PROVE  IInv'
<1>0. /\ scope \in Scopes /\ Outside /\ Threads /\ unverified \subseteq ExternalDirs
  BY Parts
<1>1. /\ Drained(pl, b) /\ place' = pl /\ batch' = b
      /\ bodySent' = BodySignal(pl, b, NewPage(pl, changed), bodySent)
      /\ UNCHANGED <<saved, retryDate, today, boots, unverified>>
  BY DEF Begin, clock
<1>2. bodySent' \in Signature /\ Sensed'
  <2>1. /\ body' = body /\ today' = today /\ body \in Signature /\ bodySent \in Signature
        /\ \A o \in Organs : body[o] = 0 => bodySent[o] = 0 \/ (o = "cognition" /\ today > 1)
    BY <1>0, <1>1 DEF Drained, world, Outside, Bounds, Sensed
  <2>2. PICK fresh : fresh = NewPage(pl, changed)
    OBVIOUS
  <2>3. /\ bodySent' \in Signature
        /\ \A o \in Organs : bodySent'[o] = IF Given(o, pl, b, fresh) THEN body[o] ELSE bodySent[o]
    BY <1>1, <2>1, <2>2, SignalIs
  <2> QED BY <2>1, <2>3 DEF Given, Sensed
<1>3. /\ b # {} /\ b \subseteq Perceptions(pl)
      /\ Queued' /\ Guarded' /\ Remembered' /\ HasRun' /\ RanRight' /\ Outside'
  BY <1>1, <1>2, DrainedKeeps
<1>4. CASE OneOff(b)
  <2>1. /\ tainted' = FALSE /\ foreign' = FALSE /\ sources' = {}
        /\ UNCHANGED <<page, recency>>
    BY <1>4 DEF Begin, OneOffRequest, context
  <2>2. bodySent' = bodySent
    <3>1. bodySent \in Signature /\ ~ReadsBody(pl, b)
      BY <1>0, <1>4 DEF Outside, Bounds, ReadsBody
    <3> QED BY <1>1, <3>1, NothingRead
  <2>3. Threads'
    BY <1>0, <1>1, <2>1, <2>2 DEF Threads, Memory, Pages, BodyIsNotLost
  <2>4. OneTurn'
    <3>1. pl # None
      BY PlaceFacts
    <3> QED BY <1>1, <1>3, <2>1, <3>1, SamePerceptions DEF OneTurn
  <2>5. OneOff(batch')
    BY <1>1, <1>4
  <2>6. OnPage'
    BY <1>1, <2>1, <2>5 DEF OnPage, InTurn
  <2> QED BY <1>0, <1>1, <1>3, <2>3, <2>4, <2>6, PartsNext
<1>5. CASE ~OneOff(b)
  <2>1. Threads' /\ OneTurn' /\ OnPage'
    BY <1>5, BeginKeepsPage
  <2> QED BY <1>0, <1>1, <1>3, <2>1, PartsNext
<1> QED BY <1>4, <1>5

-----------------------------------------------------------------------------
(* The theorems                                                             *)

LEMMA InitGood == Init => IInv
<1> SUFFICES ASSUME Init PROVE IInv
  OBVIOUS
<1>1. Queued
  BY DEF Init, Queued
<1>2. /\ page \in [Places -> Page \union {NoPage}] /\ \A pl \in Places : page[pl] = NoPage
      /\ recency \in Seq(Channels) /\ Len(recency) = 0 /\ DOMAIN recency = {}
  BY DEF Init
<1>3. Threads
  <2>1. Len(recency) <= MaxChannels
    BY <1>2, TurnsAssumption
  <2>2. NoneTwice(recency) /\ \A c : ~IsIn(c, recency)
    BY <1>2 DEF NoneTwice, IsIn
  <2> QED BY <1>2, <2>1, <2>2, PlaceFacts DEF Threads, Memory, Pages, BodyIsNotLost
<1>4. OneTurn /\ HasRun /\ OnPage /\ RanRight
  BY DEF Init, OneTurn, HasRun, OnPage, InTurn, RanRight, GuardsHold, SafeModeHolds,
         OwnerToolsNeedTheOwner
<1>5. Outside
  <2>1. /\ 0 \in 0..MaxChanges /\ 0 \in 0..MaxDays /\ 1 \in 1..MaxDays /\ 1 \in 1..MaxBoots
        /\ Unsampled \in Signature /\ \A o \in Organs : Unsampled[o] = 0
    BY TurnsAssumption, UnsampledIs
  <2>2. wrote \in BOOLEAN
    BY DEF Init
  <2> QED BY <2>1, <2>2 DEF Init, Outside, Bounds, Sensed
<1>6. Guarded /\ Remembered /\ unverified \subseteq ExternalDirs /\ scope \in Scopes
  BY DEF Init, Guarded, Remembered
<1> QED BY <1>1, <1>3, <1>4, <1>5, <1>6, Parts

LEMMA StutterKeeps ==
  ASSUME IInv, UNCHANGED vars
  PROVE  IInv'
<1>0. /\ scope \in Scopes /\ Queued /\ OneTurn /\ Outside /\ Guarded /\ HasRun
      /\ Threads /\ OnPage /\ RanRight /\ unverified \subseteq ExternalDirs /\ Remembered
  BY Parts
<1>1. UNCHANGED <<scope, pending, page, recency, place, batch, tainted, foreign, wrote, sources,
                  common, owners, body, bodySent, safeMode, saved, retryDate, today, boots,
                  unverified, tripped, last>>
  BY DEF vars, senses
<1>2. Queued'
  BY <1>0, <1>1, QueueSame
<1>3. OneTurn'
  BY <1>0, <1>1, SamePerceptions DEF OneTurn
<1>4. Outside' /\ Guarded' /\ HasRun' /\ Remembered'
  BY <1>0, <1>1 DEF Outside, Bounds, Sensed, Guarded, HasRun, Remembered
<1>5. Threads'
  BY <1>0, <1>1 DEF Threads, Memory, Pages, BodyIsNotLost
<1>6. OnPage'
  BY <1>0, <1>1 DEF OnPage, InTurn, Stranger, Principal
<1>7. RanRight'
  BY <1>0, <1>1
     DEF RanRight, GuardsHold, SafeModeHolds, OwnerToolsNeedTheOwner, Stranger, Principal, Has
<1> QED BY <1>0, <1>1, <1>2, <1>3, <1>4, <1>5, <1>6, <1>7, PartsNext

LEMMA StepGood == IInv /\ [Next]_vars => IInv'
<1> SUFFICES ASSUME IInv, [Next]_vars PROVE IInv'
  OBVIOUS
<1>1. CASE UNCHANGED vars
  BY <1>1, StutterKeeps
<1>2. CASE Next
  <2>0. scope' = scope
    BY <1>2 DEF Next
  <2>1. CASE \E pl \in scope.places : \E p \in Inbox(pl) : Arrive(pl, p)
    BY <2>0, <2>1, ArriveKeeps
  <2>2. CASE \E pl \in Places : \E b \in SomeBatch(pl) :
                \E changed \in BOOLEAN : \E hit \in MayHit : \E found \in Found(pl) :
                   Begin(pl, b, changed, hit, found)
    BY <2>0, <2>2, BeginKeeps
  <2>3. CASE \E pl \in Places : \E b \in SomeBatch(pl) : Aborts(pl, b)
    BY <2>0, <2>3, AbortKeeps
  <2>4. CASE \E tool \in scope.called : \E external, ok \in BOOLEAN : Runs(tool, external, ok)
    <3>1. PICK tool \in scope.called, external \in BOOLEAN, ok \in BOOLEAN :
            Runs(tool, external, ok)
      BY <2>4
    <3>2. /\ Queued' /\ OneTurn' /\ Outside' /\ Guarded' /\ HasRun' /\ Threads' /\ Remembered'
          /\ (unverified \subseteq ExternalDirs)'
      BY <2>0, <3>1, RunKeepsPage
    <3>3. OnPage' /\ RanRight'
      BY <2>0, <3>1, RunKeepsTaint, RunIsGuarded
    <3>4. (scope \in Scopes)'
      BY <2>0, Parts
    <3> QED BY <3>2, <3>3, <3>4, PartsNext
  <2>5. CASE \E tool \in scope.called : Refused(tool) \/ Denied(tool)
    BY <2>0, <2>5, NotRunKeeps
  <2>6. CASE \E trips, due \in BOOLEAN : Returns(trips, due)
    BY <2>0, <2>6, ReturnKeeps
  <2>7. CASE \E server \in BOOLEAN : BrainDown(server)
    BY <2>0, <2>7, BrainDownKeeps
  <2>8. CASE Changes \/ Samples \/ NewDay
    BY <2>0, <2>8, WorldKeeps
  <2>9. CASE Restart
    BY <2>0, <2>9, RestartKeeps
  <2> QED
    BY <1>2, <2>1, <2>2, <2>3, <2>4, <2>5, <2>6, <2>7, <2>8, <2>9, Zenon DEF Next
<1> QED BY <1>1, <1>2

\* The invariant the three properties below rest on, over every batch, call,
\* error and restart: a page's taint is its text's, the order of use names the
\* pages in memory and each once, a turn carries its page's taint, and safe
\* mode stays on, in memory and on disk, from where it was entered.
THEOREM Carried == Spec => []IInv
BY InitGood, StepGood, PTL DEF Spec

\* Taint is neither forgotten nor ignored (ContextBuilder's pages, ToolExecutor,
\* _llm_iterate's finally): a turn that is no stranger's is tainted exactly when
\* its thread carries foreign text, no tool a stranger may not have runs there,
\* and none of the text reaches memory her own turns are given unasked.
THEOREM TaintIsCarried == Spec => []TaintGoverns
<1>1. IInv => TaintGoverns
  BY DEF IInv
<1> QED BY Carried, <1>1, PTL

\* From the turn that entered it until the owner speaks at the keyboard safe
\* mode lets only the two reads run, and LearnName and PinSelf run only with the
\* owner's word, or in a reflection (turn_policy's tables, permissions.py, the
\* state file).
THEOREM Guard == Spec => []GuardsHold
<1>1. IInv => GuardsHold
  BY DEF IInv
<1> QED BY Carried, <1>1, PTL

\* What begin_turn and render_turn_delta take a page to hold is on it: hits,
\* blocks, whether safe mode is on, and the body's signals as they were sent,
\* but for a page begun while there was none to give: what was sent before it
\* is not on it (a midnight before the day's first call).
THEOREM PageIsRight == Spec => []PageIsTrue
<1>1. IInv => PageIsTrue
  BY DEF IInv
<1> QED BY Carried, <1>1, PTL
===============================================================================
