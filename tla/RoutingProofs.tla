----------------------------- MODULE RoutingProofs -----------------------------
(***************************************************************************)
(* Proofs about Routing, for any connectors, channels, authors and number  *)
(* of connections: what a connection brought goes with it, a turn's words  *)
(* reach the connection its message came through, and nobody gets through  *)
(* untagged who has not tagged her, or after the session's last reply.     *)
(***************************************************************************)
EXTENDS Routing, FiniteSetTheorems, WellFoundedInduction, SequenceTheorems, TLAPS

-----------------------------------------------------------------------------
(* The inductive invariant                                                  *)

\* Connections are numbered as they come, and handles as SinkResolver gives
\* them out.
Numbered == (\A c \in Conns : link[c] # None => c <= opened) /\ Len(sinks) <= MaxHandles

\* A connection that carries a channel, and has registered it.
Reaches(ch, c) == /\ c \in Open /\ link[c] \in Links /\ ch \in Serves[link[c]]
                  /\ held[c][ch] # NoHandle

\* A remembered handle is that of a sink of the connection for the channel.
HeldServe == \A c \in Conns, ch \in Chats : held[c][ch] # NoHandle =>
                /\ Reaches(ch, c) /\ held[c][ch] \in Live
                /\ sinks[held[c][ch]].conn = c /\ sinks[held[c][ch]].channel = ch

\* An internal sink is of an open connection; one for a channel is remembered
\* by its connection, or was overwritten.
SinksServe == \A h \in Live :
                IF sinks[h].channel = None THEN sinks[h].conn \in Open
                ELSE h \in stray \/ held[sinks[h].conn][sinks[h].channel] = h

\* The newest handle of a channel in the registry is a remembered one.
Answered == \A ch \in external : \E c \in Conns :
               held[c][ch] # NoHandle /\ \A h \in SinksOf(ch) : h <= held[c][ch]

\* server.stop() has closed every connection, and flush_all every batch.
Closed == stage # "serving" => Open = {}

\* A turn whose channel has stayed registered has its connection.
SteadyTurn == (turn # None /\ turn.origin # None) =>
                 (turn.steady => turn.origin \in external /\ Reaches(turn.origin, turn.sink))

\* The session counts the replies since the last tag.
Counted == \A ch \in Chats : session[ch] # None => replies[ch] = session[ch].turns

Registry == /\ link \in [Conns -> Links \union {"local", None}] /\ opened \in 0..MaxConnections
            /\ sinks \in Seq(Registration \union {None}) /\ external \subseteq Chats
            /\ held \in [Conns -> [Chats -> Handles \union {NoHandle}]] /\ stray \subseteq Handles
            /\ stage \in {"serving", "closed", "ended"}
            /\ Numbered /\ HeldServe /\ SinksServe /\ Answered /\ Closed
Sessions == /\ session \in [Chats -> Session \union {None}]
            /\ tagged \in [Chats -> SUBSET Authors] /\ replies \in [Chats -> Nat]
            /\ NoBystander /\ Counted
            /\ \A ch \in Chats : session[ch] # None => Holders(ch) # {}
Queues   == /\ waiting \subseteq Chats /\ queued \subseteq Origins
            /\ stage = "ended" => waiting = {}
Turns    == turn \in Turn \union {None} /\ SteadyTurn
Outs     == out \in Written \union {None} /\ SteadyReplyArrives

IInv == Registry /\ Sessions /\ Queues /\ Turns /\ Outs

USE RoutingAssumption

-----------------------------------------------------------------------------
(* The registry                                                             *)

\* Among some handles there is a newest.
LEMMA NewestIsOne ==
  ASSUME sinks \in Seq(Registration \union {None}), NEW S \in SUBSET DOMAIN sinks, S # {}
  PROVE  Newest(S) \in S
<1>0. PICK n \in Nat : n = Len(sinks) /\ DOMAIN sinks = 1..n
  OBVIOUS
<1> DEFINE T == {(d + 1)..n : d \in S}
           R == StrictSubsetOrdering(Nat)
<1>1. S \subseteq 1..n
  BY <1>0
<1>2. T # {}
  OBVIOUS
<1>3. T \subseteq FiniteSubsetsOf(Nat)
  <2> SUFFICES ASSUME NEW d \in S PROVE (d + 1)..n \in FiniteSubsetsOf(Nat)
    OBVIOUS
  <2>1. d + 1 \in Int /\ n \in Int /\ (d + 1)..n \in SUBSET Nat
    BY <1>1
  <2>2. IsFiniteSet((d + 1)..n)
    BY <2>1, FS_Interval
  <2> QED BY <2>1, <2>2 DEF FiniteSubsetsOf
<1>4. IsWellFoundedOn(R, FiniteSubsetsOf(Nat))
  BY FS_StrictSubsetOrderingWellFounded
<1>5. PICK x \in T : \A y \in T : <<y, x>> \notin R
  <2> HIDE DEF T, R
  <2> QED BY <1>2, <1>3, <1>4, WFMin
<1>6. PICK d \in S : x = (d + 1)..n
  OBVIOUS
<1>7. \A e \in S : e <= d
  <2> SUFFICES ASSUME NEW e \in S, ~(e <= d) PROVE FALSE
    OBVIOUS
  <2>1. d \in 1..n /\ e \in 1..n /\ e > d
    BY <1>1
  <2>2. e \in (d + 1)..n /\ e \notin (e + 1)..n /\ (e + 1)..n \subseteq (d + 1)..n
    BY <2>1
  <2>3. (e + 1)..n \in SUBSET Nat /\ x \in SUBSET Nat /\ (e + 1)..n \in T
    BY <1>6, <2>1
  <2>4. <<(e + 1)..n, x>> \in R
    BY <1>6, <2>2, <2>3 DEF StrictSubsetOrdering
  <2> QED BY <1>5, <2>3, <2>4
<1>8. \E h \in S : \A j \in S : j <= h
  BY <1>7
<1> QED BY <1>8 DEF Newest

\* SinkResolver: somebody registered, or nobody's; and a channel that is
\* registered is answered on a connection that carries it.
LEMMA Resolves ==
  ASSUME Registry, NEW origin \in Origins
  PROVE  /\ Resolve(origin) \in Conns \union {Nobody}
         /\ origin \in external => Reaches(origin, Resolve(origin))
<1>0. sinks \in Seq(Registration \union {None}) /\ external \subseteq Chats /\ HeldServe /\ Answered
  BY DEF Registry
<1>1. \A ch : SinksOf(ch) # {} => Newest(SinksOf(ch)) \in SinksOf(ch)
  <2> SUFFICES ASSUME NEW ch, SinksOf(ch) # {} PROVE Newest(SinksOf(ch)) \in SinksOf(ch)
    OBVIOUS
  <2>1. PICK S : S = SinksOf(ch)
    OBVIOUS
  <2>2. S \in SUBSET DOMAIN sinks /\ S # {}
    BY <2>1 DEF SinksOf, Live
  <2>3. Newest(S) \in S
    BY <1>0, <2>2, NewestIsOne
  <2> QED BY <2>1, <2>3
<1>2. \A h \in Live : sinks[h].conn \in Conns /\ h \in Nat
  BY <1>0 DEF Live, Registration
<1>3. Resolve(origin) \in Conns \union {Nobody}
  BY <1>1, <1>2 DEF Resolve, SinksOf
<1>4. ASSUME origin \in external PROVE Reaches(origin, Resolve(origin))
  <2>1. origin \in Chats /\ origin # None
    BY <1>0, <1>4
  <2>2. PICK c \in Conns : held[c][origin] # NoHandle
                           /\ \A h \in SinksOf(origin) : h <= held[c][origin]
    BY <1>0, <1>4 DEF Answered
  <2>3. PICK k : k = held[c][origin]
    OBVIOUS
  <2>4. k \in SinksOf(origin) /\ sinks[k].conn = c /\ Reaches(origin, c)
    BY <1>0, <2>1, <2>2, <2>3 DEF HeldServe, SinksOf
  <2>5. Newest(SinksOf(origin)) = k
    <3>1. PICK S : S = SinksOf(origin)
      OBVIOUS
    <3>2. k \in S /\ (\A h \in S : h <= k) /\ S \subseteq Nat
      BY <1>2, <2>2, <2>3, <2>4, <3>1 DEF SinksOf
    <3>3. \A h \in S : (\A j \in S : j <= h) => h = k
      BY <3>2
    <3>4. Newest(S) = k
      BY <3>2, <3>3 DEF Newest
    <3> QED BY <3>1, <3>4
  <2>6. Resolve(origin) = sinks[Newest(SinksOf(origin))].conn
    BY <2>1, <2>4 DEF Resolve
  <2> QED BY <2>4, <2>5, <2>6
<1> QED BY <1>3, <1>4

LEMMA RegistrySame ==
  ASSUME Registry, UNCHANGED <<link, opened, sinks, held, stray, external, stage>>
  PROVE  Registry' /\ Live' = Live /\ Open' = Open
BY DEF Registry, Numbered, HeldServe, SinksServe, Answered, SinksOf, Reaches, Closed, Live, Open

\* SinkResolver.register: one more handle.
LEMMA OneMore ==
  ASSUME sinks \in Seq(Registration \union {None}), NEW new \in Registration,
         sinks' = Append(sinks, new), Len(sinks) < MaxHandles
  PROVE  /\ sinks' \in Seq(Registration \union {None}) /\ Len(sinks') = Len(sinks) + 1
         /\ Len(sinks) + 1 \in Handles /\ Len(sinks) + 1 \notin Live
         /\ sinks'[Len(sinks) + 1] = new
         /\ \A h : h \in Live' <=> h \in Live \/ h = Len(sinks) + 1
         /\ \A h \in Live : sinks'[h] = sinks[h] /\ h <= Len(sinks) /\ h \in Nat
<1>1. PICK n \in Nat : n = Len(sinks) /\ DOMAIN sinks = 1..n
  OBVIOUS
<1>2. new # None
  OBVIOUS
<1>3. /\ sinks' \in Seq(Registration \union {None}) /\ DOMAIN sinks' = 1..(n + 1)
      /\ Len(sinks') = n + 1
      /\ \A h \in 1..n : sinks'[h] = sinks[h]
      /\ sinks'[n + 1] = new
  BY <1>1, AppendProperties
<1>4. \A h : h \in Live <=> h \in 1..n /\ sinks[h] # None
  BY <1>1 DEF Live
<1>5. \A h : h \in Live' <=> h \in 1..(n + 1) /\ sinks'[h] # None
  BY <1>3 DEF Live
<1>6. n + 1 \in Handles
  BY <1>1 DEF Handles
<1> QED BY <1>1, <1>2, <1>3, <1>4, <1>5, <1>6

LEMMA ConnectKeepsRegistry ==
  ASSUME Registry, NEW l \in Links \union {"local"}, Connect(l)
  PROVE  Registry' /\ \A ch, c : Reaches(ch, c) => Reaches(ch, c)'
<1>0. /\ link \in [Conns -> Links \union {"local", None}] /\ opened \in 0..MaxConnections
      /\ sinks \in Seq(Registration \union {None}) /\ external \subseteq Chats
      /\ held \in [Conns -> [Chats -> Handles \union {NoHandle}]] /\ stray \subseteq Handles
      /\ Numbered /\ HeldServe /\ SinksServe /\ Answered
  BY DEF Registry
<1>1. /\ stage = "serving" /\ opened < MaxConnections /\ Len(sinks) < MaxHandles
      /\ opened' = opened + 1 /\ link' = [link EXCEPT ![opened + 1] = l]
      /\ sinks' = Append(sinks, [conn |-> opened + 1, channel |-> None])
      /\ external' = external /\ stage' = stage /\ held' = held /\ stray' = stray
  BY DEF Connect
<1>2. PICK k \in Conns : k = opened + 1
  BY <1>0, <1>1 DEF Conns
<1>3. link[k] = None /\ l # None
  BY <1>0, <1>2 DEF Numbered
<1>4. \A c \in Conns : link'[c] = IF c = k THEN l ELSE link[c]
  BY <1>0, <1>1, <1>2
<1>5. link' \in [Conns -> Links \union {"local", None}] /\ opened' \in 0..MaxConnections
  <2>1. link' = [link EXCEPT ![k] = l]
    BY <1>1, <1>2
  <2>2. MaxConnections \in Nat
    OBVIOUS
  <2>3. opened' \in 0..MaxConnections
    BY <1>0, <1>1, <2>2
  <2> QED BY <1>0, <2>1, <2>3
<1>6. Open' = Open \union {k}
  BY <1>3, <1>4 DEF Open
<1>7. k \notin Open
  BY <1>3 DEF Open
<1>10. \A ch, c : Reaches(ch, c) => Reaches(ch, c)'
  BY <1>1, <1>4, <1>6, <1>7 DEF Reaches, Open
<1>11. PICK new : new = [conn |-> k, channel |-> None]
  OBVIOUS
<1>12. new \in Registration /\ new # None /\ new.conn = k /\ new.channel = None
  BY <1>11 DEF Registration, Origins
<1>13. PICK n : n = Len(sinks) + 1
  OBVIOUS
<1>14. /\ sinks' \in Seq(Registration \union {None}) /\ Len(sinks') = n /\ n \in Handles
       /\ sinks'[n] = new
       /\ \A h : h \in Live' <=> h \in Live \/ h = n
       /\ \A h \in Live : sinks'[h] = sinks[h]
  <2>1. sinks' = Append(sinks, new)
    BY <1>1, <1>2, <1>11
  <2> QED BY <1>0, <1>1, <1>12, <1>13, <2>1, OneMore
<1>8. Numbered'
  BY <1>0, <1>1, <1>2, <1>4, <1>14 DEF Numbered, Handles
<1>15. HeldServe'
  <2> SUFFICES ASSUME NEW c \in Conns, NEW ch \in Chats, held'[c][ch] # NoHandle
               PROVE  /\ Reaches(ch, c)' /\ held'[c][ch] \in Live'
                      /\ sinks'[held'[c][ch]].conn = c /\ sinks'[held'[c][ch]].channel = ch
    BY DEF HeldServe
  <2>1. PICK h : h = held[c][ch]
    OBVIOUS
  <2>2. Reaches(ch, c) /\ h \in Live /\ sinks[h].conn = c /\ sinks[h].channel = ch
    BY <1>0, <1>1, <2>1 DEF HeldServe
  <2>3. Reaches(ch, c)'
    BY <1>10, <2>2
  <2> QED BY <1>1, <1>14, <2>1, <2>2, <2>3
<1>17. SinksServe'
  BY <1>0, <1>1, <1>6, <1>12, <1>14 DEF SinksServe
<1>18. Answered'
  <2>1. \A ch \in Chats : SinksOf(ch)' = SinksOf(ch)
    BY <1>12, <1>14 DEF SinksOf
  <2> QED BY <1>0, <1>1, <2>1 DEF Answered
<1>19. Closed' /\ stage' \in {"serving", "closed", "ended"} /\ external' \subseteq Chats
  BY <1>0, <1>1 DEF Closed
<1> QED BY <1>0, <1>1, <1>5, <1>8, <1>10, <1>14, <1>15, <1>17, <1>18, <1>19 DEF Registry

\* A second register of the channel leaves the first handle in stray.
LEMMA RegisterKeepsRegistry ==
  ASSUME Registry, NEW c \in Conns, NEW ch \in Chats, Register(c, ch)
  PROVE  /\ Registry' /\ external \subseteq external'
         /\ \A x, d : Reaches(x, d) => Reaches(x, d)'
         /\ \A x \in Chats : Holders(x) \subseteq Holders(x)'
<1>0. /\ link \in [Conns -> Links \union {"local", None}] /\ opened \in 0..MaxConnections
      /\ sinks \in Seq(Registration \union {None}) /\ external \subseteq Chats
      /\ held \in [Conns -> [Chats -> Handles \union {NoHandle}]] /\ stray \subseteq Handles
      /\ Numbered /\ HeldServe /\ SinksServe /\ Answered /\ Closed
      /\ stage \in {"serving", "closed", "ended"}
  BY DEF Registry
<1>1. /\ c \in Open /\ link[c] \in Links /\ ch \in Serves[link[c]] /\ Len(sinks) < MaxHandles
      /\ sinks' = Append(sinks, [conn |-> c, channel |-> ch])
      /\ held' = [held EXCEPT ![c][ch] = Len(sinks) + 1]
      /\ stray' = stray \union ({held[c][ch]} \ {NoHandle})
      /\ external' = external \union {ch}
      /\ link' = link /\ opened' = opened /\ stage' = stage
  BY DEF Register, RegisterSink
<1>2. Open' = Open
  BY <1>1 DEF Open
<1>3. PICK new : new = [conn |-> c, channel |-> ch]
  OBVIOUS
<1>4. new \in Registration /\ new # None /\ new.conn = c /\ new.channel = ch /\ ch # None
  BY <1>3 DEF Registration, Origins
<1>5. PICK n : n = Len(sinks) + 1
  OBVIOUS
<1>6. /\ sinks' \in Seq(Registration \union {None}) /\ Len(sinks') = n /\ n \in Handles
      /\ sinks'[n] = new /\ n \notin Live
      /\ \A h : h \in Live' <=> h \in Live \/ h = n
      /\ \A h \in Live : sinks'[h] = sinks[h] /\ h <= n
  <2>1. sinks' = Append(sinks, new)
    BY <1>1, <1>3
  <2>2. \A h \in Live : h <= Len(sinks) /\ h \in Nat => h <= Len(sinks) + 1
    BY <1>0
  <2> QED BY <1>0, <1>1, <1>4, <1>5, <2>1, <2>2, OneMore
<1>7. n # NoHandle /\ n \in Nat
  BY <1>6 DEF Handles, NoHandle
<1>8. \A d \in Conns, x \in Chats : held'[d][x] = IF d = c /\ x = ch THEN n ELSE held[d][x]
  BY <1>0, <1>1, <1>5
<1>9. \A x \in Chats, d \in Conns : held[d][x] # NoHandle => held'[d][x] # NoHandle
  BY <1>7, <1>8
<1>10. held' \in [Conns -> [Chats -> Handles \union {NoHandle}]] /\ stray' \subseteq Handles
  <2>1. held' = [held EXCEPT ![c][ch] = n]
    BY <1>1, <1>5
  <2>2. held[c][ch] \in Handles \union {NoHandle}
    BY <1>0
  <2> QED BY <1>0, <1>1, <1>6, <2>1, <2>2
<1>11. \A x, d : Reaches(x, d) => Reaches(x, d)'
  <2> SUFFICES ASSUME NEW x, NEW d, Reaches(x, d) PROVE Reaches(x, d)'
    OBVIOUS
  <2>1. d \in Conns /\ x \in Chats
    BY DEF Reaches, Open, Chats
  <2> QED BY <1>1, <1>2, <1>9, <2>1 DEF Reaches
<1>12. Reaches(ch, c)'
  BY <1>1, <1>2, <1>7, <1>8 DEF Reaches
<1>13. Numbered'
  BY <1>0, <1>1, <1>6 DEF Numbered, Handles
<1>14. HeldServe'
  <2> SUFFICES ASSUME NEW d \in Conns, NEW x \in Chats, held'[d][x] # NoHandle
               PROVE  /\ Reaches(x, d)' /\ held'[d][x] \in Live'
                      /\ sinks'[held'[d][x]].conn = d /\ sinks'[held'[d][x]].channel = x
    BY DEF HeldServe
  <2>1. CASE d = c /\ x = ch
    BY <1>4, <1>6, <1>8, <1>12, <2>1
  <2>2. CASE ~(d = c /\ x = ch)
    <3>1. held'[d][x] = held[d][x]
      BY <1>8, <2>2
    <3> QED BY <1>0, <1>6, <1>11, <3>1 DEF HeldServe
  <2> QED BY <2>1, <2>2
<1>15. SinksServe'
  <2> SUFFICES ASSUME NEW h \in Live'
               PROVE  IF sinks'[h].channel = None THEN sinks'[h].conn \in Open'
                      ELSE h \in stray' \/ held'[sinks'[h].conn][sinks'[h].channel] = h
    BY DEF SinksServe
  <2>1. CASE h = n
    BY <1>4, <1>6, <1>8, <2>1
  <2>2. CASE h # n
    <3>1. h \in Live /\ sinks'[h] = sinks[h]
      BY <1>6, <2>2
    <3>2. sinks[h].conn \in Conns /\ sinks[h].channel \in Origins
      BY <1>0, <3>1 DEF Live, Registration
    <3>3. CASE sinks[h].channel = None
      BY <1>0, <1>2, <3>1, <3>3 DEF SinksServe
    <3>4. CASE sinks[h].channel # None
      <4>1. PICK d, x : d = sinks[h].conn /\ x = sinks[h].channel
        OBVIOUS
      <4>2. d \in Conns /\ x \in Chats /\ (h \in stray \/ held[d][x] = h)
        BY <1>0, <3>1, <3>2, <3>4, <4>1 DEF SinksServe, Origins
      <4>3. h # NoHandle
        BY <1>0, <3>1 DEF Live, NoHandle
      <4>4. h \in stray' \/ held'[d][x] = h
        BY <1>1, <1>8, <4>2, <4>3
      <4> QED BY <3>1, <3>4, <4>1, <4>4
    <3> QED BY <3>3, <3>4
  <2> QED BY <2>1, <2>2
<1>16. Answered'
  <2> SUFFICES ASSUME NEW x \in external'
               PROVE  \E d \in Conns : held'[d][x] # NoHandle /\ \A h \in SinksOf(x)' : h <= held'[d][x]
    BY DEF Answered
  <2>0. x \in Chats
    BY <1>0, <1>1
  <2>1. CASE x = ch
    <3>1. \A h \in SinksOf(x)' : h <= n
      BY <1>6, <1>7 DEF SinksOf
    <3> QED BY <1>7, <1>8, <2>1, <3>1
  <2>2. CASE x # ch
    <3>1. SinksOf(x)' = SinksOf(x)
      BY <1>4, <1>6, <2>2 DEF SinksOf
    <3>2. x \in external
      BY <1>1, <2>2
    <3>3. PICK d \in Conns : held[d][x] # NoHandle /\ \A h \in SinksOf(x) : h <= held[d][x]
      BY <1>0, <3>2 DEF Answered
    <3>4. held'[d][x] = held[d][x]
      BY <1>8, <2>0, <2>2
    <3> QED BY <3>1, <3>3, <3>4
  <2> QED BY <2>1, <2>2
<1>17. Closed' /\ external' \subseteq Chats /\ stage' \in {"serving", "closed", "ended"}
  BY <1>0, <1>1, <1>2 DEF Closed
<1>18. \A x \in Chats : Holders(x) \subseteq Holders(x)'
  BY <1>9 DEF Holders
<1>19. /\ link' \in [Conns -> Links \union {"local", None}] /\ opened' \in 0..MaxConnections
       /\ external \subseteq external'
  BY <1>0, <1>1
<1> QED BY <1>6, <1>10, <1>11, <1>13, <1>14, <1>15, <1>16, <1>17, <1>18, <1>19 DEF Registry

\* The connections of S go, and with them their sinks, and their channels; a
\* connection that stays keeps the channels that none of S had registered.
LEMMA DisconnectedKeepsRegistry ==
  ASSUME Registry, NEW S \in SUBSET Open, Disconnected(S), opened' = opened,
         stage' \in {"serving", "closed", "ended"}, stage' = stage \/ S = Open
  PROVE  /\ Registry'
         /\ \A ch, c : Reaches(ch, c) /\ c \notin S => Reaches(ch, c)'
         /\ \A ch, c : Reaches(ch, c) /\ c \in S => ch \in ChannelsOf(S)
         /\ \A ch \in Chats : ch \notin ChannelsOf(S) => Holders(ch)' = Holders(ch)
<1>0. /\ link \in [Conns -> Links \union {"local", None}] /\ opened \in 0..MaxConnections
      /\ sinks \in Seq(Registration \union {None}) /\ external \subseteq Chats
      /\ held \in [Conns -> [Chats -> Handles \union {NoHandle}]] /\ stray \subseteq Handles
      /\ Numbered /\ HeldServe /\ SinksServe /\ Answered /\ Closed
      /\ stage \in {"serving", "closed", "ended"}
  BY DEF Registry
<1>1. PICK gone : gone = ChannelsOf(S)
  OBVIOUS
<1>2. /\ link' = [c \in Conns |-> IF c \in S THEN None ELSE link[c]]
      /\ sinks' = [h \in DOMAIN sinks |-> IF h \in Live /\ Kept(h, S) THEN sinks[h] ELSE None]
      /\ held' = [c \in Conns |-> IF c \in S THEN [ch \in Chats |-> NoHandle] ELSE held[c]]
      /\ external' = external \ gone /\ stray' = stray
  BY <1>1 DEF Disconnected, Unregistered
<1>3. \A c \in Conns : link'[c] = IF c \in S THEN None ELSE link[c]
  BY <1>2
<1>4. link' \in [Conns -> Links \union {"local", None}]
  BY <1>0, <1>2
<1>5. Open' = Open \ S
  BY <1>3 DEF Open
<1>6. \A c \in Conns, ch \in Chats : held'[c][ch] = IF c \in S THEN NoHandle ELSE held[c][ch]
  BY <1>2
<1>7. \A ch, c : Reaches(ch, c) => c \in Conns /\ ch \in Chats
  BY DEF Reaches, Open, Chats
<1>8. \A ch, c : Reaches(ch, c) /\ c \notin S => Reaches(ch, c)'
  BY <1>3, <1>5, <1>6, <1>7 DEF Reaches, Open
<1>9. \A ch, c : Reaches(ch, c) /\ c \in S => ch \in ChannelsOf(S)
  BY <1>7 DEF Reaches, ChannelsOf, Holders
<1>10. \A ch \in Chats : ch \notin gone => Holders(ch)' = Holders(ch) /\ Holders(ch) \intersect S = {}
  BY <1>1, <1>6 DEF ChannelsOf, Holders
<1>11. sinks' \in Seq(Registration \union {None}) /\ Len(sinks') = Len(sinks)
       /\ DOMAIN sinks' = DOMAIN sinks
  <2>0. PICK n \in Nat : DOMAIN sinks = 1..n /\ n = Len(sinks)
    BY <1>0
  <2>1. sinks' \in [1..n -> Registration \union {None}]
    <3>1. \A h \in 1..n : sinks[h] \in Registration \union {None}
      BY <1>0, <2>0
    <3> QED BY <1>2, <2>0, <3>1
  <2> QED BY <2>0, <2>1
<1>12. \A h : h \in Live' <=> h \in Live /\ Kept(h, S)
  BY <1>2, <1>11 DEF Live
<1>13. \A h \in Live' : sinks'[h] = sinks[h]
  BY <1>2, <1>12 DEF Live
<1>14. held' \in [Conns -> [Chats -> Handles \union {NoHandle}]]
  BY <1>0, <1>2
<1>15. HeldServe'
  <2> SUFFICES ASSUME NEW c \in Conns, NEW ch \in Chats, held'[c][ch] # NoHandle
               PROVE  /\ Reaches(ch, c)' /\ held'[c][ch] \in Live'
                      /\ sinks'[held'[c][ch]].conn = c /\ sinks'[held'[c][ch]].channel = ch
    BY DEF HeldServe
  <2>1. c \notin S /\ held'[c][ch] = held[c][ch]
    BY <1>6
  <2>2. PICK h : h = held[c][ch]
    OBVIOUS
  <2>3. Reaches(ch, c) /\ h \in Live /\ sinks[h].conn = c /\ sinks[h].channel = ch
    BY <1>0, <2>1, <2>2 DEF HeldServe
  <2>4. ASSUME NEW d \in S, NEW x \in Chats, held[d][x] = h PROVE FALSE
    <3>1. d \in Conns /\ held[d][x] # NoHandle
      BY <2>1, <2>2, <2>4 DEF Open
    <3>2. sinks[h].conn = d
      BY <1>0, <2>4, <3>1 DEF HeldServe
    <3> QED BY <2>1, <2>3, <3>2
  <2>5. ch # None
    OBVIOUS
  <2>6. Kept(h, S)
    BY <2>3, <2>4, <2>5 DEF Kept
  <2> QED BY <1>8, <1>12, <1>13, <2>1, <2>2, <2>3, <2>6
<1>16. SinksServe'
  <2> SUFFICES ASSUME NEW h \in Live'
               PROVE  IF sinks'[h].channel = None THEN sinks'[h].conn \in Open'
                      ELSE h \in stray' \/ held'[sinks'[h].conn][sinks'[h].channel] = h
    BY DEF SinksServe
  <2>1. h \in Live /\ Kept(h, S) /\ sinks'[h] = sinks[h]
    BY <1>12, <1>13
  <2>2. sinks[h].conn \in Conns /\ sinks[h].channel \in Origins
    BY <1>0, <2>1 DEF Live, Registration
  <2>3. CASE sinks[h].channel = None
    BY <1>0, <1>5, <2>1, <2>3 DEF SinksServe, Kept
  <2>4. CASE sinks[h].channel # None
    <3>1. PICK d, x : d = sinks[h].conn /\ x = sinks[h].channel
      OBVIOUS
    <3>2. d \in Conns /\ x \in Chats /\ (h \in stray \/ held[d][x] = h)
      BY <1>0, <2>1, <2>2, <2>4, <3>1 DEF SinksServe, Origins
    <3>3. held[d][x] = h => held'[d][x] = h
      BY <1>6, <2>1, <3>2 DEF Kept
    <3> QED BY <1>2, <2>1, <2>4, <3>1, <3>2, <3>3
  <2> QED BY <2>3, <2>4
<1>17. Answered'
  <2> SUFFICES ASSUME NEW ch \in external'
               PROVE  \E d \in Conns : held'[d][ch] # NoHandle /\ \A h \in SinksOf(ch)' : h <= held'[d][ch]
    BY DEF Answered
  <2>1. ch \in external /\ ch \notin gone /\ ch \in Chats
    BY <1>0, <1>2
  <2>2. PICK d \in Conns : held[d][ch] # NoHandle /\ \A h \in SinksOf(ch) : h <= held[d][ch]
    BY <1>0, <2>1 DEF Answered
  <2>3. d \notin S
    BY <1>10, <2>1, <2>2 DEF Holders
  <2>4. held'[d][ch] = held[d][ch]
    BY <1>6, <2>1, <2>3
  <2>5. SinksOf(ch)' \subseteq SinksOf(ch)
    BY <1>12, <1>13 DEF SinksOf
  <2> QED BY <2>2, <2>4, <2>5
<1>18. Numbered'
  BY <1>0, <1>3, <1>11 DEF Numbered
<1>19. Closed'
  BY <1>0, <1>5 DEF Closed
<1>20. external' \subseteq Chats /\ opened' \in 0..MaxConnections /\ stray' \subseteq Handles
  BY <1>0, <1>2
<1>21. Registry'
  BY <1>4, <1>11, <1>14, <1>15, <1>16, <1>17, <1>18, <1>19, <1>20 DEF Registry
<1> QED BY <1>1, <1>8, <1>9, <1>10, <1>21

LEMMA DisconnectedKeeps ==
  ASSUME IInv, NEW S \in SUBSET Open, Disconnected(S), opened' = opened, queued' = queued,
         waiting' = waiting, stage' = stage \/ (S = Open /\ stage' = "closed")
  PROVE  IInv'
<1>0. Registry /\ Sessions /\ Queues /\ Turns
  BY DEF IInv
<1>1. stage' \in {"serving", "closed", "ended"}
  BY <1>0 DEF Registry
<1>3. PICK gone : gone = ChannelsOf(S)
  OBVIOUS
<1>2. /\ Registry'
      /\ \A ch, c : Reaches(ch, c) /\ c \notin S => Reaches(ch, c)'
      /\ \A ch, c : Reaches(ch, c) /\ c \in S => ch \in gone
      /\ \A ch \in Chats : ch \notin gone => Holders(ch)' = Holders(ch)
  BY <1>0, <1>1, <1>3, DisconnectedKeepsRegistry
<1>4. /\ external' = external \ gone
      /\ session' = [ch \in Chats |-> IF ch \in gone THEN None ELSE session[ch]]
      /\ tagged' = [ch \in Chats |-> IF ch \in gone THEN {} ELSE tagged[ch]]
      /\ replies' = replies
      /\ turn' = IF turn # None /\ turn.origin \in gone THEN [turn EXCEPT !.steady = FALSE] ELSE turn
      /\ out' = None
  BY <1>3 DEF Disconnected, Forget
<1>5. Sessions'
  <2>1. session' \in [Chats -> Session \union {None}] /\ tagged' \in [Chats -> SUBSET Authors]
    BY <1>0, <1>4 DEF Sessions
  <2>2. \A ch \in Chats : session'[ch] # None =>
           ch \notin gone /\ session'[ch] = session[ch] /\ tagged'[ch] = tagged[ch]
    BY <1>4
  <2>3. \A ch \in Chats : session'[ch] # None => Holders(ch)' # {}
    BY <1>0, <1>2, <2>2 DEF Sessions
  <2> QED BY <1>0, <1>4, <2>1, <2>2, <2>3 DEF Sessions, NoBystander, Counted
<1>6. Queues'
  BY <1>0 DEF Queues
<1>7. Turns'
  <2>1. CASE turn # None /\ turn.origin \in gone
    <3>1. turn \in Turn /\ turn' = [turn EXCEPT !.steady = FALSE]
      BY <1>0, <1>4, <2>1 DEF Turns
    <3>2. turn' \in Turn /\ turn'.steady = FALSE
      BY <3>1 DEF Turn
    <3> QED BY <3>2 DEF Turns, SteadyTurn
  <2>2. CASE ~(turn # None /\ turn.origin \in gone)
    <3>1. turn' = turn
      BY <1>4, <2>2
    <3>2. (turn # None /\ turn.origin # None /\ turn.steady) =>
              turn.origin \in external' /\ Reaches(turn.origin, turn.sink)'
      BY <1>0, <1>2, <1>4, <2>2 DEF Turns, SteadyTurn
    <3> QED BY <1>0, <3>1, <3>2 DEF Turns, SteadyTurn
  <2> QED BY <2>1, <2>2
<1>8. Outs'
  BY <1>4 DEF Outs, SteadyReplyArrives
<1> QED BY <1>2, <1>5, <1>6, <1>7, <1>8 DEF IInv

-----------------------------------------------------------------------------
(* Steps                                                                    *)

LEMMA TurnsSame ==
  ASSUME Turns, turn' = turn, external \subseteq external',
         \A ch, c : Reaches(ch, c) => Reaches(ch, c)'
  PROVE  Turns'
BY DEF Turns, SteadyTurn

LEMMA SessionsSame ==
  ASSUME Sessions, UNCHANGED <<session, tagged, replies>>,
         \A ch \in Chats : Holders(ch) \subseteq Holders(ch)'
  PROVE  Sessions'
BY DEF Sessions, NoBystander, Counted

LEMMA ReachesSame ==
  ASSUME link' = link, held' = held
  PROVE  (\A ch, c : Reaches(ch, c) => Reaches(ch, c)') /\ \A ch \in Chats : Holders(ch)' = Holders(ch)
BY DEF Reaches, Open, Holders

LEMMA ConnectionKeeps ==
  ASSUME IInv, \/ \E l \in Links \union {"local"} : Connect(l)
               \/ \E c \in Conns : Disconnect(c) \/ (\E ch \in Chats : Register(c, ch))
               \/ ServerStops
  PROVE  IInv'
<1>0. Registry /\ Sessions /\ Queues /\ Turns
  BY DEF IInv
<1>1. CASE \E l \in Links \union {"local"} : Connect(l)
  <2>1. PICK l \in Links \union {"local"} : Connect(l)
    BY <1>1
  <2>2. /\ UNCHANGED <<held, external, session, tagged, replies, waiting, queued, turn, stage>>
        /\ out' = None
    BY <2>1 DEF Connect, attention
  <2>3. /\ Registry' /\ \A ch, c : Reaches(ch, c) => Reaches(ch, c)'
        /\ \A ch \in Chats : Holders(ch) \subseteq Holders(ch)'
    BY <1>0, <2>1, <2>2, ConnectKeepsRegistry DEF Holders
  <2>4. Sessions' /\ Turns'
    BY <1>0, <2>2, <2>3, SessionsSame, TurnsSame
  <2>5. Queues' /\ Outs'
    BY <1>0, <2>2 DEF Queues, Outs, SteadyReplyArrives
  <2> QED BY <2>3, <2>4, <2>5 DEF IInv
<1>2. CASE \E c \in Conns : \E ch \in Chats : Register(c, ch)
  <2>1. PICK c \in Conns, ch \in Chats : Register(c, ch)
    BY <1>2
  <2>2. /\ UNCHANGED <<link, session, tagged, replies, waiting, queued, turn, stage>>
        /\ out' = None
    BY <2>1 DEF Register, attention
  <2>3. /\ Registry' /\ external \subseteq external'
        /\ \A x, d : Reaches(x, d) => Reaches(x, d)'
        /\ \A x \in Chats : Holders(x) \subseteq Holders(x)'
    BY <1>0, <2>1, RegisterKeepsRegistry
  <2>4. Sessions' /\ Turns'
    BY <1>0, <2>2, <2>3, SessionsSame, TurnsSame
  <2>5. Queues' /\ Outs'
    BY <1>0, <2>2 DEF Queues, Outs, SteadyReplyArrives
  <2> QED BY <2>3, <2>4, <2>5 DEF IInv
<1>3. CASE \E c \in Conns : Disconnect(c)
  <2>1. PICK c \in Conns : Disconnect(c)
    BY <1>3
  <2>2. PICK S : S = {c}
    OBVIOUS
  <2>3. S \in SUBSET Open /\ Disconnected(S) /\ UNCHANGED <<opened, waiting, queued, stage>>
    BY <2>1, <2>2 DEF Disconnect
  <2> QED BY <2>3, DisconnectedKeeps
<1>4. CASE ServerStops
  <2>1. PICK S : S = Open
    OBVIOUS
  <2>2. S \in SUBSET Open /\ Disconnected(S) /\ UNCHANGED <<opened, waiting, queued>>
        /\ stage' = "closed"
    BY <1>4, <2>1 DEF ServerStops
  <2> QED BY <2>1, <2>2, DisconnectedKeeps
<1> QED BY <1>1, <1>2, <1>3, <1>4

\* A message, and what the attention gate makes of it.
LEMMA MessageKeeps ==
  ASSUME IInv, NEW ch \in Chats,
         \/ \E a \in Authors : Tagged(ch, a) \/ Continues(ch, a) \/ Ignored(ch, a)
         \/ WindowRunsOut(ch)
  PROVE  IInv'
<1>0. Registry /\ Sessions /\ Queues /\ Turns
  BY DEF IInv
<1>1. /\ UNCHANGED <<link, opened, sinks, held, stray, external, queued, turn, stage>> /\ out' = None
      /\ (waiting' = waiting \union {ch} /\ Holders(ch) # {}) \/ waiting' = waiting
  BY DEF Tagged, Continues, Ignored, WindowRunsOut, Admitted, Heard, connections
<1>2. Registry' /\ Turns'
  BY <1>0, <1>1, RegistrySame, TurnsSame, ReachesSame
<1>3. Holders(ch) # {} => stage # "ended"
  <2>1. ASSUME NEW c \in Holders(ch) PROVE c \in Open
    BY <1>0, <2>1 DEF Registry, HeldServe, Reaches, Holders
  <2> QED BY <1>0, <2>1 DEF Registry, Closed
<1>8. \A x \in Chats : Holders(x)' = Holders(x)
  BY <1>1, ReachesSame
<1>4. Queues' /\ Outs'
  BY <1>0, <1>1, <1>3 DEF Queues, Outs, SteadyReplyArrives
<1>5. /\ session \in [Chats -> Session \union {None}]
      /\ tagged \in [Chats -> SUBSET Authors] /\ replies \in [Chats -> Nat]
      /\ \A x \in Chats : session[x] # None =>
            session[x].with \subseteq tagged[x] /\ replies[x] = session[x].turns
            /\ Holders(x) # {}
  BY <1>0 DEF Sessions, NoBystander, Counted
<1>6. MaxSessionTurns \in Nat /\ 0 \in 0..(MaxSessionTurns - 1)
  OBVIOUS
<1>7. Sessions'
  <2>1. CASE \E a \in Authors : Tagged(ch, a)
    <3>0. PICK a \in Authors : Tagged(ch, a)
      BY <2>1
    <3>1. PICK w : w = {a} \union (IF session[ch] = None THEN {} ELSE session[ch].with)
      OBVIOUS
    <3>2. w \in SUBSET Authors /\ w \subseteq tagged[ch] \union {a}
      BY <1>5, <3>1 DEF Session
    <3>3. PICK s : s = [with |-> w, turns |-> 0, cold |-> FALSE]
      OBVIOUS
    <3>4. s \in Session /\ s.with = w /\ s.turns = 0
      BY <1>6, <3>2, <3>3 DEF Session
    <3>5. /\ session' = [session EXCEPT ![ch] = s] /\ Holders(ch) # {}
          /\ tagged' = [tagged EXCEPT ![ch] = tagged[ch] \union {a}]
          /\ replies' = [replies EXCEPT ![ch] = 0]
      BY <3>0, <3>1, <3>3 DEF Tagged, Heard
    <3>6. \A x \in Chats : /\ session'[x] = IF x = ch THEN s ELSE session[x]
                           /\ tagged'[x] = IF x = ch THEN tagged[ch] \union {a} ELSE tagged[x]
                           /\ replies'[x] = IF x = ch THEN 0 ELSE replies[x]
      BY <1>5, <3>5
    <3>7. /\ session' \in [Chats -> Session \union {None}]
          /\ tagged' \in [Chats -> SUBSET Authors] /\ replies' \in [Chats -> Nat]
      BY <1>5, <3>4, <3>5
    <3> QED BY <1>1, <1>5, <1>8, <3>2, <3>4, <3>5, <3>6, <3>7 DEF Sessions, NoBystander, Counted
  <2>2. CASE (\E a \in Authors : Continues(ch, a) \/ Ignored(ch, a)) \/ WindowRunsOut(ch)
    <3>1. UNCHANGED <<tagged, replies>>
      BY <2>2 DEF Continues, Ignored, WindowRunsOut
    <3>2. PICK s \in Session \union {None} :
             /\ session' = [session EXCEPT ![ch] = s]
             /\ s # None => /\ session[ch] # None
                            /\ s.with = session[ch].with /\ s.turns = session[ch].turns
      <4>1. ASSUME NEW cold \in BOOLEAN, session[ch] # None,
                   session' = [session EXCEPT ![ch].cold = cold]
            PROVE  \E s \in Session \union {None} :
                      /\ session' = [session EXCEPT ![ch] = s]
                      /\ s # None => /\ session[ch] # None
                                     /\ s.with = session[ch].with /\ s.turns = session[ch].turns
        <5>1. session[ch] \in Session
          BY <1>5, <4>1
        <5>2. PICK s : s = [session[ch] EXCEPT !.cold = cold]
          OBVIOUS
        <5>3. s \in Session /\ s.with = session[ch].with /\ s.turns = session[ch].turns
          BY <5>1, <5>2 DEF Session
        <5>4. session' = [session EXCEPT ![ch] = s]
          BY <4>1, <5>2
        <5> QED BY <4>1, <5>3, <5>4
      <4>2. CASE \E a \in Authors : Continues(ch, a)
        BY <4>1, <4>2 DEF Continues
      <4>3. CASE WindowRunsOut(ch)
        BY <4>1, <4>3 DEF WindowRunsOut
      <4>4. CASE \E a \in Authors : Ignored(ch, a)
        <5>1. CASE session' = [session EXCEPT ![ch] = None]
          BY <5>1
        <5>2. CASE session' = session
          <6>1. session' = [session EXCEPT ![ch] = session[ch]] /\ session[ch] \in Session \union {None}
            BY <1>5, <5>2
          <6> QED BY <6>1
        <5> QED BY <4>4, <5>1, <5>2 DEF Ignored
      <4> QED BY <2>2, <4>2, <4>3, <4>4
    <3>3. \A x \in Chats : session'[x] = IF x = ch THEN s ELSE session[x]
      BY <1>5, <3>2
    <3>4. session' \in [Chats -> Session \union {None}]
      BY <1>5, <3>2
    <3> QED BY <1>1, <1>5, <1>8, <3>1, <3>2, <3>3, <3>4 DEF Sessions, NoBystander, Counted
  <2> QED BY <2>1, <2>2
<1> QED BY <1>2, <1>4, <1>7 DEF IInv

\* What arrives otherwise, and what the timers and the shutdown flush.
LEMMA QueueKeeps ==
  ASSUME IInv, \/ \E c \in Conns : Type(c)
               \/ Stir
               \/ \E ch \in Chats : TimerFires(ch)
               \/ LoopStops
  PROVE  IInv'
<1>0. Registry /\ Sessions /\ Queues /\ Turns
  BY DEF IInv
<1>1. /\ UNCHANGED <<link, opened, sinks, held, stray, external, session, tagged, replies, turn>>
      /\ out' = None
  BY DEF Type, Stir, TimerFires, LoopStops, connections, attention
<1>2. Sessions' /\ Turns'
  BY <1>0, <1>1, SessionsSame, TurnsSame, ReachesSame
<1>3. Outs'
  BY <1>1 DEF Outs, SteadyReplyArrives
<1>4. CASE LoopStops
  <2>1. stage = "closed" /\ stage' = "ended" /\ waiting' = waiting \ waiting
        /\ queued' = queued \union waiting
    BY <1>4 DEF LoopStops, Flushed
  <2>2. Queues'
    BY <1>0, <2>1 DEF Queues, Origins
  <2>3. Registry'
    BY <1>0, <1>1, <2>1
       DEF Registry, Numbered, HeldServe, SinksServe, Answered, SinksOf, Reaches, Closed, Live, Open
  <2> QED BY <1>2, <1>3, <2>2, <2>3 DEF IInv
<1>5. CASE ~LoopStops
  <2>1. stage' = stage /\ waiting' \subseteq waiting
        /\ queued' \subseteq queued \union waiting \union {None}
    BY <1>5 DEF Type, Stir, TimerFires, Flushed
  <2>2. Queues'
    BY <1>0, <2>1 DEF Queues, Origins
  <2>3. Registry'
    BY <1>0, <1>1, <2>1, RegistrySame
  <2> QED BY <1>2, <1>3, <2>2, <2>3 DEF IInv
<1> QED BY <1>4, <1>5

\* A step of the turn: what it says goes where SinkResolver says, or said.
LEMMA TurnKeeps ==
  ASSUME IInv, \/ \E origin \in Origins : Begin(origin)
               \/ Speak
               \/ \E raises \in BOOLEAN : EndTurn(raises)
  PROVE  IInv'
<1>0. Registry /\ Sessions /\ Queues /\ Turns
  BY DEF IInv
<1>1. /\ UNCHANGED <<link, opened, sinks, held, stray, external, stage, session, tagged, replies,
                      waiting>>
      /\ queued' \subseteq queued
  BY DEF Begin, Speak, EndTurn, connections, attention
<1>2. Registry' /\ Sessions' /\ Queues'
  BY <1>0, <1>1, RegistrySame, SessionsSame, ReachesSame DEF Queues
<1>3. \A ch, c : Reaches(ch, c)' <=> Reaches(ch, c)
  BY <1>1 DEF Reaches, Open
<1>4. CASE \E origin \in Origins : Begin(origin)
  <2>1. PICK origin \in Origins : Begin(origin)
    BY <1>4
  <2>2. PICK to : to = Resolve(origin)
    OBVIOUS
  <2>3. to \in Conns \union {Nobody} /\ (origin \in external => Reaches(origin, to))
    BY <1>0, <2>2, Resolves
  <2>4. PICK steady \in BOOLEAN : steady <=> origin \in external
    OBVIOUS
  <2>5. PICK t : t = [origin |-> origin, sink |-> to, spoke |-> FALSE, over |-> FALSE,
                      steady |-> steady]
    OBVIOUS
  <2>6. t \in Turn /\ t.origin = origin /\ t.sink = to /\ t.steady = steady
    BY <2>3, <2>5 DEF Turn
  <2>7. steady = (origin \in external)
    BY <2>4
  <2>8. turn' = t /\ out' = None
    BY <2>1, <2>2, <2>5, <2>7 DEF Begin
  <2>9. Turns'
    BY <1>1, <1>3, <2>3, <2>4, <2>6, <2>8 DEF Turns, SteadyTurn
  <2>10. Outs'
    BY <2>8 DEF Outs, SteadyReplyArrives
  <2> QED BY <1>2, <2>9, <2>10 DEF IInv
<1>5. CASE Speak \/ \E raises \in BOOLEAN : EndTurn(raises)
  <2>1. turn # None /\ turn \in Turn /\ SteadyTurn
    BY <1>0, <1>5 DEF Speak, EndTurn, Speaking, Turns
  <2>2. /\ turn.origin \in Origins /\ turn.sink \in Conns \union {Nobody}
        /\ turn.spoke \in BOOLEAN /\ turn.over \in BOOLEAN /\ turn.steady \in BOOLEAN
    BY <2>1 DEF Turn
  <2>3. PICK what \in {"sentence", "end"}, to \in {turn.sink, Resolve(turn.origin)} : Writes(what, to)
    BY <1>5 DEF Speak, EndTurn
  <2>4. PICK o : o = turn.origin
    OBVIOUS
  <2>5. Resolve(o) \in Conns \union {Nobody} /\ (o \in external => Reaches(o, Resolve(o)))
    BY <1>0, <2>2, <2>4, Resolves
  <2>6. to \in Conns \union {Nobody}
    BY <2>2, <2>3, <2>4, <2>5
  <2>7. (o # None /\ turn.steady) => o \in external /\ Reaches(o, to)
    BY <2>1, <2>3, <2>4, <2>5 DEF SteadyTurn
  <2>8. PICK addressed \in BOOLEAN : addressed <=> o \in external
    OBVIOUS
  <2>9. addressed = (o \in external)
    BY <2>8
  <2>10. out' = [what |-> what, to |-> to, origin |-> o, steady |-> turn.steady,
                 addressed |-> addressed]
    BY <2>3, <2>4, <2>9 DEF Writes
  <2>11. /\ out' \in Written /\ out'.to = to /\ out'.origin = o /\ out'.steady = turn.steady
         /\ out'.addressed = addressed
    BY <2>2, <2>4, <2>6, <2>10 DEF Written
  <2>12. Outs'
    <3>1. (o # None /\ turn.steady) => addressed /\ (to \in Open)' /\ link'[to] \in Links
                                       /\ o \in Serves[link'[to]]
      BY <1>1, <2>7, <2>8 DEF Reaches, Open
    <3> QED BY <2>11, <3>1 DEF Outs, SteadyReplyArrives
  <2>13. turn' \in Turn \union {None} /\ (turn' # None => /\ turn'.origin = turn.origin
                                                          /\ turn'.sink = turn.sink
                                                          /\ turn'.steady = turn.steady)
    <3>1. CASE Speak
      <4>1. turn' = [turn EXCEPT !.spoke = TRUE]
        BY <3>1 DEF Speak
      <4> QED BY <2>1, <4>1 DEF Turn
    <3>2. CASE \E raises \in BOOLEAN : EndTurn(raises)
      <4>1. turn' = None \/ turn' = [turn EXCEPT !.over = TRUE]
        BY <3>2 DEF EndTurn
      <4> QED BY <2>1, <4>1 DEF Turn
    <3> QED BY <1>5, <3>1, <3>2
  <2>14. Turns'
    BY <1>1, <1>3, <2>1, <2>13 DEF Turns, SteadyTurn
  <2> QED BY <1>2, <2>12, <2>14 DEF IInv
<1> QED BY <1>4, <1>5

\* A reply is counted in the session and since the tag alike.
LEMMA SettleKeeps ==
  ASSUME IInv, Settle
  PROVE  IInv'
<1>0. Registry /\ Sessions /\ Queues /\ Turns
  BY DEF IInv
<1>1. /\ UNCHANGED <<link, opened, sinks, held, stray, external, waiting, queued, stage, tagged>>
      /\ turn' = None /\ out' = None
  BY DEF Settle, connections
<1>2. Registry' /\ Queues' /\ Turns' /\ Outs'
  BY <1>0, <1>1, RegistrySame DEF Queues, Turns, SteadyTurn, Outs, SteadyReplyArrives
<1>3. CASE UNCHANGED <<session, replies>>
  <2>1. Sessions'
    BY <1>0, <1>1, <1>3, SessionsSame, ReachesSame
  <2> QED BY <1>2, <2>1 DEF IInv
<1>4. CASE ~UNCHANGED <<session, replies>>
  <2>1. PICK ch : ch = turn.origin
    OBVIOUS
  <2>2. turn \in Turn /\ ch # None /\ NoteReply(ch)
    BY <1>0, <1>4, <2>1 DEF Settle, Turns
  <2>3. ch \in Chats
    BY <2>1, <2>2 DEF Turn, Origins
  <2>4. /\ session \in [Chats -> Session \union {None}] /\ replies \in [Chats -> Nat]
        /\ \A x \in Chats : session[x] # None =>
              session[x].with \subseteq tagged[x] /\ replies[x] = session[x].turns
    BY <1>0 DEF Sessions, NoBystander, Counted
  <2>5. PICK s : s = session[ch]
    OBVIOUS
  <2>6. s # None /\ s \in Session /\ replies[ch] = s.turns /\ s.with \subseteq tagged[ch]
    BY <1>4, <2>2, <2>3, <2>4, <2>5 DEF NoteReply
  <2>7. PICK r : r = IF s.turns + 1 >= MaxSessionTurns THEN None ELSE [s EXCEPT !.turns = s.turns + 1]
    OBVIOUS
  <2>8. /\ session' = [session EXCEPT ![ch] = r]
        /\ replies' = [replies EXCEPT ![ch] = replies[ch] + 1]
    BY <2>2, <2>5, <2>6, <2>7 DEF NoteReply
  <2>9. s.turns \in Nat /\ MaxSessionTurns \in Nat
    BY <2>6 DEF Session
  <2>10. r = None \/ (r \in Session /\ r.with = s.with /\ r.turns = s.turns + 1)
    <3>1. CASE s.turns + 1 >= MaxSessionTurns
      BY <2>7, <3>1
    <3>2. CASE ~(s.turns + 1 >= MaxSessionTurns)
      <4>1. s.turns + 1 \in 0..(MaxSessionTurns - 1)
        BY <2>9, <3>2
      <4>2. r = [s EXCEPT !.turns = s.turns + 1]
        BY <2>7, <3>2
      <4> QED BY <2>6, <4>1, <4>2 DEF Session
    <3> QED BY <3>1, <3>2
  <2>11. \A x \in Chats : /\ session'[x] = IF x = ch THEN r ELSE session[x]
                          /\ replies'[x] = IF x = ch THEN replies[ch] + 1 ELSE replies[x]
    BY <2>4, <2>8
  <2>12. session' \in [Chats -> Session \union {None}] /\ replies' \in [Chats -> Nat]
    BY <2>3, <2>4, <2>8, <2>10
  <2>13. \A x \in Chats : session'[x] # None =>
            /\ session'[x].with \subseteq tagged'[x] /\ replies'[x] = session'[x].turns
            /\ session[x] # None
    BY <1>1, <2>4, <2>5, <2>6, <2>10, <2>11
  <2>14. Sessions'
    BY <1>0, <1>1, <2>12, <2>13, ReachesSame DEF Sessions, NoBystander, Counted
  <2> QED BY <1>2, <2>14 DEF IInv
<1> QED BY <1>3, <1>4

LEMMA StutterKeeps ==
  ASSUME IInv, UNCHANGED vars
  PROVE  IInv'
<1>0. Registry /\ Sessions /\ Queues /\ Turns /\ Outs
  BY DEF IInv
<1>1. UNCHANGED <<link, opened, sinks, held, stray, external, session, waiting, queued, turn, stage, tagged,
                  replies, out>>
  BY DEF vars
<1>2. Registry' /\ Sessions' /\ Queues' /\ Turns'
  BY <1>0, <1>1, RegistrySame, SessionsSame, TurnsSame, ReachesSame DEF Queues
<1>3. Outs'
  BY <1>0, <1>1 DEF Outs, SteadyReplyArrives, Open
<1> QED BY <1>2, <1>3 DEF IInv

-----------------------------------------------------------------------------
(* The theorems                                                             *)

LEMMA InitGood == Init => IInv
<1> SUFFICES ASSUME Init PROVE IInv
  OBVIOUS
<1>1. Live = {} /\ Open = {}
  BY DEF Init, Live, Open
<1>2. Registry
  <2>1. link \in [Conns -> Links \union {"local", None}] /\ sinks \in Seq(Registration \union {None})
    BY DEF Init
  <2>2. /\ opened \in 0..MaxConnections /\ external = {} /\ stage = "serving" /\ stray = {}
        /\ held \in [Conns -> [Chats -> Handles \union {NoHandle}]]
        /\ \A c \in Conns, ch \in Chats : held[c][ch] = NoHandle
    BY DEF Init
  <2>3. Numbered
    BY DEF Init, Numbered
  <2> QED BY <1>1, <2>1, <2>2, <2>3 DEF Registry, HeldServe, SinksServe, Answered, Closed
<1>3. Sessions
  BY DEF Init, Sessions, NoBystander, Counted
<1>4. Queues /\ Turns /\ Outs
  BY DEF Init, Queues, Turns, SteadyTurn, Outs, SteadyReplyArrives
<1> QED BY <1>2, <1>3, <1>4 DEF IInv

LEMMA StepGood == IInv /\ [Next]_vars => IInv'
<1> SUFFICES ASSUME IInv, [Next]_vars PROVE IInv'
  OBVIOUS
<1>1. CASE \/ \E l \in Links \union {"local"} : Connect(l)
           \/ \E c \in Conns : Disconnect(c) \/ (\E ch \in Chats : Register(c, ch))
           \/ ServerStops
  BY <1>1, ConnectionKeeps
<1>2. CASE \E ch \in Chats : \/ \E a \in Authors : Tagged(ch, a) \/ Continues(ch, a) \/ Ignored(ch, a)
                             \/ WindowRunsOut(ch)
  <2>1. PICK ch \in Chats : \/ \E a \in Authors : Tagged(ch, a) \/ Continues(ch, a) \/ Ignored(ch, a)
                            \/ WindowRunsOut(ch)
    BY <1>2
  <2> QED BY <2>1, MessageKeeps
<1>3. CASE \/ \E c \in Conns : Type(c)
           \/ Stir
           \/ \E ch \in Chats : TimerFires(ch)
           \/ LoopStops
  BY <1>3, QueueKeeps
<1>4. CASE \/ \E origin \in Origins : Begin(origin)
           \/ Speak
           \/ \E raises \in BOOLEAN : EndTurn(raises)
  BY <1>4, TurnKeeps
<1>5. CASE Settle
  BY <1>5, SettleKeeps
<1>6. CASE Stopped \/ UNCHANGED vars
  BY <1>6, StutterKeeps DEF Stopped
<1> QED BY <1>1, <1>2, <1>3, <1>4, <1>5, <1>6, Zenon DEF Next

\* The invariant the properties below rest on, over every order of connections
\* that may overlap, registers and repeated registers, messages, turns and the
\* shutdown: the handle a connection remembers is that of its sink, a sink it
\* does not remember is its internal one or was overwritten, and the newest
\* sink of a channel in the registry is remembered by an open connection.
THEOREM Wired == Spec => []IInv
BY InitGood, StepGood, PTL DEF Spec

\* What a connection brought goes with it (_handle_disconnect), but for the
\* sinks a second register of a channel overwrote, and nothing admitted waits
\* any more when MindLoop has been told to stop (Kernel.run).
THEOREM NothingIsLeft == Spec => []NothingOutlivesItsConnection
<1>1. ASSUME IInv PROVE NothingOutlivesItsConnection
  <2>0. Registry /\ Sessions /\ Queues /\ Turns /\ Outs
    BY <1>1 DEF IInv
  <2>1. TypeOK
    BY <2>0 DEF TypeOK, Registry, Sessions, Queues, Turns, Outs
  <2>2. \A c \in Conns, ch \in Chats : held[c][ch] # NoHandle => Reaches(ch, c)
    BY <2>0 DEF Registry, HeldServe
  <2>3. ASSUME NEW h \in Live, sinks[h].conn \notin Open PROVE h \in stray
    <3>1. PICK d, x : d = sinks[h].conn /\ x = sinks[h].channel
      OBVIOUS
    <3>2. d \in Conns /\ x \in Origins /\ h # NoHandle
      BY <2>1, <3>1 DEF TypeOK, Live, Registration, NoHandle
    <3>3. x # None /\ (h \in stray \/ held[d][x] = h)
      BY <2>0, <2>3, <3>1 DEF Registry, SinksServe
    <3>4. x \in Chats
      BY <3>2, <3>3 DEF Origins
    <3> QED BY <2>2, <2>3, <3>1, <3>2, <3>3, <3>4 DEF Reaches
  <2>4. ASSUME NEW ch \in external PROVE Resolve(ch) \in Open \intersect Holders(ch)
    <3>1. ch \in Origins
      BY <2>1 DEF TypeOK, Origins
    <3>2. Reaches(ch, Resolve(ch))
      BY <2>0, <3>1, Resolves
    <3> QED BY <3>2 DEF Reaches, Holders, Open
  <2>5. ASSUME NEW ch \in Chats, session[ch] # None PROVE Open \intersect Holders(ch) # {}
    <3>1. PICK c : c \in Holders(ch)
      BY <2>0, <2>5 DEF Sessions
    <3>2. c \in Open
      BY <2>2, <3>1 DEF Holders, Reaches
    <3> QED BY <3>1, <3>2
  <2>6. stage = "ended" => waiting = {}
    BY <2>0 DEF Queues
  <2> QED BY <2>1, <2>3, <2>4, <2>5, <2>6 DEF NothingOutlivesItsConnection
<1> QED BY Wired, <1>1, PTL

\* As long as no connection that registered the channel closes, everything its
\* turn says and the turn's end reach a connection of it (SinkResolver,
\* MindLoop's two look-ups).
THEOREM ReplyArrives == Spec => []SteadyReplyArrives
<1>1. IInv => SteadyReplyArrives
  BY DEF IInv, Outs
<1> QED BY Wired, <1>1, PTL

\* AttentionGate.admit: nobody gets through untagged who has not tagged her in
\* that channel since its connection registered it.
THEOREM BystandersWait == Spec => []NoBystander
<1>1. IInv => NoBystander
  BY DEF IInv, Sessions
<1> QED BY Wired, <1>1, PTL

\* AttentionGate.note_reply: after MaxSessionTurns counted replies no batch of
\* the channel is opened before the next tag.
THEOREM QuietAfter == Spec => QuietAfterTheCap
<1>1. ASSUME IInv, Next
      PROVE  \A ch \in Chats : (replies[ch] >= MaxSessionTurns /\ replies'[ch] # 0)
                                  => (ch \in waiting' => ch \in waiting)
  <2> SUFFICES ASSUME NEW ch \in Chats, replies[ch] >= MaxSessionTurns, replies'[ch] # 0,
                      ch \in waiting', ch \notin waiting
               PROVE  FALSE
    OBVIOUS
  <2>0. Sessions
    BY <1>1 DEF IInv
  <2>1. PICK c \in Chats, a \in Authors : Tagged(c, a) \/ Continues(c, a)
    BY <1>1 DEF Next, Connect, Disconnect, Type, Register, Ignored, WindowRunsOut, TimerFires,
                Stir, Begin, Speak, Settle, EndTurn, ServerStops, LoopStops, Stopped, Flushed, vars
  <2>2. waiting' = waiting \union {c}
    BY <2>1 DEF Tagged, Continues, Admitted
  <2>3. c = ch
    BY <2>2
  <2>4. replies \in [Chats -> Nat] /\ session \in [Chats -> Session \union {None}] /\ Counted
    BY <2>0 DEF Sessions
  <2>5. CASE Tagged(c, a)
    BY <2>3, <2>4, <2>5 DEF Tagged
  <2>6. CASE Continues(c, a)
    <3>1. session[ch] # None /\ session[ch].turns < MaxSessionTurns
      BY <2>3, <2>6 DEF Continues, Engaged
    <3>2. session[ch].turns \in Nat /\ replies[ch] = session[ch].turns
      BY <2>4, <3>1 DEF Counted
    <3> QED BY <3>1, <3>2
  <2> QED BY <2>1, <2>5, <2>6
<1> QED BY Wired, <1>1, PTL DEF Spec, QuietAfterTheCap
===============================================================================
