--------------------------- MODULE TurnRunnerProofs ---------------------------
(***************************************************************************)
(* Proofs about TurnRunner, for any tools, limits and policies: what a     *)
(* turn leaves in its thread, that an interrupt stops it, and that its     *)
(* counters and its ending agree with the thread.  The second half is      *)
(* about Evolution, whose calls a turn makes: for any texts, bounds and    *)
(* number of faults, log, slot, file and evidence tell one story, and she  *)
(* adopts nothing but what passed a skeptic and was shown to her.          *)
(***************************************************************************)
EXTENDS TurnRunner, Evolution, FiniteSetTheorems, SequenceTheorems, TLAPS

AnswersOf == [role : {"tool"}, tool : Tools,
              status : {"ok", "failed", "unbound", "not_run"}]

\* Before its first tool call a pass has no answers; the answers there are
\* belong to the calls.
Shaped ==
    /\ thread \in Seq(Messages) /\ results \in Seq(AnswersOf)
    /\ \A k \in DOMAIN results : results[k].tool = calls[k]
    /\ phase \in {"streaming", "replied"} => results = <<>> /\ pass > 0

SInv == Shaped /\ EveryCallAnswered

\* Between two passes the thread holds what was said; in the middle of one
\* what is missing is in its reply.
Heard ==
    Live => /\ Kept \subseteq said
            /\ \A s \in said : s[1] <= pass
            /\ phase = "boundary" => said \subseteq Kept
            /\ phase = "over" /\ endedBy # "server" => said \subseteq Kept
            /\ phase \in {"streaming", "replied", "tools"} =>
                  /\ said \subseteq Kept \union Spoken
                  /\ Spoken \subseteq speech
                  /\ \A s \in speech : s[1] = pass
            /\ phase = "tools" => speech \subseteq said

\* The thread as it will be when the pass is over.
Log == IF phase = "tools" THEN Append(thread, Assistant(calls, speech)) \o results
       ELSE thread

FailingIn(T) ==
    {i \in DOMAIN T :
        /\ T[i].role = "tool" /\ T[i].status = "failed"
        /\ \A j \in DOMAIN T : j > i /\ T[j].role = "tool" => T[j].status # "ok"}

FailingOfIn(T, t) == {i \in FailingIn(T) : T[i].tool = t}

RefusedIn(T, t) ==
    {i \in DOMAIN T :
        /\ T[i].role = "assistant"
        /\ \E k \in DOMAIN T[i].calls : i + k \in DOMAIN T /\ T[i + k] = Answer(t, "unbound")}

\* The last n failures are those of t.
LastFailuresOf(T, t, n) ==
    \E i \in FailingIn(T) :
        /\ Cardinality({j \in FailingIn(T) : j >= i}) = n
        /\ \A j \in FailingIn(T) : j >= i => T[j].tool = t

Counted ==
    /\ phase \in {"streaming", "replied"} => refused = {}
    /\ phase = "tools" => refused = {t \in Tools : Len(thread) + 1 \in RefusedIn(Log, t)}
    /\ \A t \in Tools : unbound[t] = Cardinality(RefusedIn(Log, t))
    /\ ~Live => \A t \in Tools : perTool[t] = Cardinality(FailingOfIn(Log, t))
    /\ Live => /\ failRun = Cardinality(FailingIn(Log))
               /\ \A t \in Tools : perTool[t] > 0 => lastFailed = t
               /\ \A t \in Tools : \A n \in 1..perTool[t] : LastFailuresOf(Log, t, n)

\* A turn that goes on has no streak that ends it.
GoesOn ==
    phase \in {"boundary", "streaming", "replied"} =>
        /\ Live => failRun < FailLimit
        /\ \A t \in Tools : ~Stuck(t) /\ unbound[t] < UnboundLimit

\* A report is made in a pass that has calls, and that pass is the last.
Reporting ==
    /\ ~Live => ~cancelled
    /\ phase \in {"replied", "tools"} /\ length => calls = <<>>
    /\ ~Live /\ reported => /\ ~length /\ phase \in {"tools", "over"}
                            /\ phase = "over" => endedBy = "report"

\* The rule that ended the turn was the counters'.
Warranted ==
    /\ endedBy = "safe_mode" => Live /\ failRun >= FailLimit
    /\ endedBy = "stuck_tool" => ~Live /\ \E t \in Tools : Stuck(t)
    /\ endedBy = "unbound_limit" =>
          /\ \E t \in Tools : unbound[t] >= UnboundLimit
          /\ Live => failRun < FailLimit
          /\ ~Live => \A t \in Tools : ~Stuck(t)

CInv == SInv /\ Counted

EInv == CInv /\ GoesOn /\ Reporting /\ Warranted

USE RunnerAssumption

-----------------------------------------------------------------------------
(* Sequences of messages                                                    *)

LEMMA CallListsAre ==
  ASSUME NEW c \in CallLists
  PROVE  c \in Seq(Tools) /\ Len(c) \in 0..MaxCalls /\ c \in Seq(Callable)
<1>1. PICK n \in 0..MaxCalls : c \in [1..n -> Callable]
  BY DEF CallLists
<1>2. Callable \subseteq Tools
  BY DEF Callable
<1> QED BY <1>1, <1>2

LEMMA CallListsHave == <<>> \in CallLists
<1>1. <<>> \in [1..0 -> Callable]
  OBVIOUS
<1> QED BY <1>1 DEF CallLists

LEMMA AnswersAreMessages == AnswersOf \subseteq Messages
BY DEF AnswersOf, Messages

\* U is T with more messages behind it.
Extends(U, T) ==
    /\ T \in Seq(Messages) /\ U \in Seq(Messages) /\ Len(T) <= Len(U)
    /\ \A i \in 1..Len(T) : U[i] = T[i]

LEMMA AppendExtends ==
  ASSUME NEW T \in Seq(Messages), NEW m \in Messages
  PROVE  /\ Extends(Append(T, m), T) /\ Len(Append(T, m)) = Len(T) + 1
         /\ Append(T, m)[Len(T) + 1] = m
BY AppendProperties DEF Extends

LEMMA ConcatExtends ==
  ASSUME NEW T \in Seq(Messages), NEW r \in Seq(AnswersOf)
  PROVE  /\ Extends(T \o r, T) /\ Len(T \o r) = Len(T) + Len(r)
         /\ \A k \in 1..Len(r) : (T \o r)[Len(T) + k] = r[k]
<1>1. r \in Seq(Messages)
  BY AnswersAreMessages
<1> QED BY <1>1, ConcatProperties DEF Extends

LEMMA ExtendsTrans ==
  ASSUME NEW T, NEW U, NEW V, Extends(U, T), Extends(V, U)
  PROVE  Extends(V, T)
BY DEF Extends

\* U is T and a pass behind it: the reply, then the answers.
PassBehind(U, T, m, r) ==
    /\ Extends(U, T) /\ Len(U) = Len(T) + 1 + Len(r)
    /\ U[Len(T) + 1] = m
    /\ \A k \in 1..Len(r) : U[Len(T) + 1 + k] = r[k]

LEMMA PassExtends ==
  ASSUME NEW T \in Seq(Messages), NEW m \in Messages, NEW r \in Seq(AnswersOf)
  PROVE  PassBehind(Append(T, m) \o r, T, m, r)
<1> DEFINE A == Append(T, m)
           U == A \o r
<1>1. Extends(A, T) /\ Len(A) = Len(T) + 1 /\ A[Len(T) + 1] = m
  BY AppendExtends
<1>2. A \in Seq(Messages)
  BY <1>1 DEF Extends
<1>3. Extends(U, A) /\ Len(U) = Len(A) + Len(r) /\ \A k \in 1..Len(r) : U[Len(A) + k] = r[k]
  BY <1>2, ConcatExtends
<1>4. U[Len(T) + 1] = m
  BY <1>1, <1>3 DEF Extends
<1> HIDE DEF U, A
<1>5. Extends(U, T)
  BY <1>1, <1>3, ExtendsTrans
<1>6. PassBehind(U, T, m, r)
  BY <1>1, <1>3, <1>4, <1>5 DEF PassBehind
<1> QED BY <1>6 DEF U, A

LEMMA ReplyExtends ==
  ASSUME NEW T \in Seq(Messages), NEW m \in Messages
  PROVE  PassBehind(Append(T, m), T, m, <<>>)
<1>1. Len(<<>>) = 0 /\ Len(T) \in Nat
  OBVIOUS
<1> QED BY <1>1, AppendExtends DEF PassBehind

LEMMA NotRunAre ==
  ASSUME NEW cs \in Seq(Tools)
  PROVE  /\ NotRun(cs) \in Seq(AnswersOf) /\ Len(NotRun(cs)) = Len(cs)
         /\ \A k \in 1..Len(cs) : NotRun(cs)[k] = Answer(cs[k], "not_run")
<1>1. DOMAIN cs = 1..Len(cs) /\ Len(cs) \in Nat /\ \A k \in 1..Len(cs) : cs[k] \in Tools
  OBVIOUS
<1>2. NotRun(cs) \in [1..Len(cs) -> AnswersOf]
  BY <1>1 DEF NotRun, Answer, AnswersOf
<1> QED BY <1>1, <1>2 DEF NotRun

-----------------------------------------------------------------------------
(* Calls and their answers                                                  *)

PairedIn(T) ==
    /\ \A i \in DOMAIN T : T[i].role = "assistant" =>
         /\ i + Len(T[i].calls) <= Len(T)
         /\ \A k \in DOMAIN T[i].calls : /\ T[i + k].role = "tool"
                                         /\ T[i + k].tool = T[i].calls[k]
    /\ \A i \in DOMAIN T : T[i].role = "tool" =>
         \E j \in DOMAIN T : /\ T[j].role = "assistant"
                             /\ i \in (j + 1)..(j + Len(T[j].calls))

KeptIn(T) == UNION {T[i].content : i \in {j \in DOMAIN T : T[j].role = "assistant"}}

LEMMA PairedIsAnswered == EveryCallAnswered <=> TypeOK /\ PairedIn(thread)
BY DEF EveryCallAnswered, At, PairedIn

LEMMA KeptIs == Kept = KeptIn(thread)
BY DEF Kept, KeptIn, At

LEMMA MessageIs ==
  ASSUME NEW m \in Messages
  PROVE  \/ m.role = "user"
         \/ m.role = "assistant" /\ m.calls \in CallLists /\ m.content \subseteq Sentences
         \/ m \in AnswersOf /\ m.role = "tool"
BY DEF Messages, AnswersOf, User

\* A reply with its answers behind it keeps a thread paired and adds to what
\* it keeps the reply's sentences.
LEMMA PassPaired ==
  ASSUME NEW T \in Seq(Messages), PairedIn(T),
         NEW c \in CallLists, NEW x \in SUBSET Sentences,
         NEW r \in Seq(AnswersOf), Len(r) = Len(c), \A k \in 1..Len(r) : r[k].tool = c[k],
         NEW U, PassBehind(U, T, Assistant(c, x), r)
  PROVE  U \in Seq(Messages) /\ PairedIn(U) /\ \A s : s \in KeptIn(U) <=> s \in KeptIn(T) \/ s \in x
<1> DEFINE m == Assistant(c, x)
           n == Len(T) + 1
<1>1. m \in Messages /\ m.role = "assistant" /\ m.calls = c /\ m.content = x
  BY DEF Messages, Assistant
<1>2. /\ Extends(U, T) /\ Len(U) = n + Len(r) /\ U[n] = m
      /\ \A k \in 1..Len(r) : U[n + k] = r[k]
  BY DEF PassBehind
<1>3. /\ U \in Seq(Messages) /\ Len(T) \in Nat /\ Len(r) \in Nat
      /\ DOMAIN T = 1..Len(T) /\ DOMAIN U = 1..Len(U)
      /\ \A i \in 1..Len(T) : U[i] = T[i]
  BY <1>2 DEF Extends
<1>4. c \in Seq(Tools) /\ DOMAIN c = 1..Len(r)
  BY CallListsAre
<1>5. \A k \in 1..Len(r) : U[n + k].role = "tool" /\ U[n + k].tool = c[k]
  <2> TAKE k \in 1..Len(r)
  <2>1. r[k] \in AnswersOf
    OBVIOUS
  <2> QED BY <2>1, <1>2 DEF AnswersOf
<1> HIDE DEF m
<1>6. ASSUME NEW i \in DOMAIN U
      PROVE  i \in DOMAIN T \/ i = n \/ \E k \in 1..Len(r) : i = n + k
  <2>1. i \in Nat /\ i >= 1 /\ i <= n + Len(r)
    BY <1>2, <1>3
  <2>2. CASE i > n
    <3>1. i - n \in 1..Len(r) /\ i = n + (i - n)
      BY <2>1, <2>2, <1>3
    <3> QED BY <3>1
  <2> QED BY <2>1, <2>2, <1>3
<1>7. ASSUME NEW i \in DOMAIN U, U[i].role = "assistant"
      PROVE  /\ i + Len(U[i].calls) <= Len(U)
             /\ \A k \in DOMAIN U[i].calls : /\ U[i + k].role = "tool"
                                             /\ U[i + k].tool = U[i].calls[k]
  <2>1. CASE i \in DOMAIN T
    <3>1. U[i] = T[i] /\ T[i].role = "assistant"
      BY <1>3, <2>1, <1>7
    <3>2. T[i].calls \in CallLists
      <4>1. T[i] \in Messages
        BY <2>1
      <4> QED BY <4>1, <3>1, MessageIs DEF AnswersOf
    <3>3. DOMAIN T[i].calls = 1..Len(T[i].calls) /\ Len(T[i].calls) \in Nat
      BY <3>2, CallListsAre
    <3>4. i + Len(T[i].calls) <= Len(T)
      BY <2>1, <3>1 DEF PairedIn
    <3>5. ASSUME NEW k \in DOMAIN T[i].calls PROVE U[i + k] = T[i + k]
      BY <1>3, <2>1, <3>3, <3>4
    <3> QED BY <2>1, <3>1, <3>3, <3>4, <3>5, <1>2, <1>3, SMTT(30) DEF PairedIn
  <2>2. CASE i = n
    BY <2>2, <1>1, <1>2, <1>3, <1>4, <1>5, SMTT(30)
  <2>3. ASSUME NEW k \in 1..Len(r), i = n + k PROVE FALSE
    BY <2>3, <1>5, <1>7
  <2> QED BY <1>6, <2>1, <2>2, <2>3
<1>8. ASSUME NEW i \in DOMAIN U, U[i].role = "tool"
      PROVE  \E j \in DOMAIN U : /\ U[j].role = "assistant"
                                 /\ i \in (j + 1)..(j + Len(U[j].calls))
  <2>1. CASE i \in DOMAIN T
    <3>1. PICK j \in DOMAIN T : /\ T[j].role = "assistant"
                                /\ i \in (j + 1)..(j + Len(T[j].calls))
      BY <1>3, <2>1, <1>8 DEF PairedIn
    <3>2. j \in DOMAIN U /\ U[j] = T[j]
      BY <1>2, <1>3
    <3> QED BY <3>1, <3>2
  <2>2. CASE i = n
    BY <2>2, <1>1, <1>2, <1>8
  <2>3. ASSUME NEW k \in 1..Len(r), i = n + k
        PROVE  \E j \in DOMAIN U : /\ U[j].role = "assistant"
                                   /\ i \in (j + 1)..(j + Len(U[j].calls))
    <3>1. n \in DOMAIN U /\ U[n].role = "assistant" /\ U[n].calls = c
      BY <1>1, <1>2, <1>3
    <3>2. i \in (n + 1)..(n + Len(U[n].calls))
      BY <2>3, <3>1, <1>3
    <3> QED BY <3>1, <3>2
  <2> QED BY <1>6, <2>1, <2>2, <2>3
<1>9. PairedIn(U)
  BY <1>7, <1>8 DEF PairedIn
<1>10. \A s : s \in KeptIn(U) <=> s \in KeptIn(T) \/ s \in x
  <2>1. ASSUME NEW i \in DOMAIN U, U[i].role = "assistant"
        PROVE  i = n \/ i \in DOMAIN T
    <3>1. ASSUME NEW k \in 1..Len(r), i = n + k PROVE FALSE
      BY <3>1, <1>5, <2>1
    <3> QED BY <1>6, <3>1
  <2>2. n \in DOMAIN U /\ U[n].role = "assistant" /\ U[n].content = x
    BY <1>1, <1>2, <1>3
  <2>3. ASSUME NEW i \in DOMAIN T PROVE i \in DOMAIN U /\ U[i] = T[i]
    BY <1>2, <1>3
  <2>4. {i \in DOMAIN U : U[i].role = "assistant"}
          = {i \in DOMAIN T : T[i].role = "assistant"} \union {n}
    BY <2>1, <2>2, <2>3
  <2> QED BY <2>2, <2>3, <2>4 DEF KeptIn
<1> QED BY <1>3, <1>9, <1>10

\* A reply that called nothing.
LEMMA ReplyPaired ==
  ASSUME NEW T \in Seq(Messages), PairedIn(T), NEW x \in SUBSET Sentences,
         NEW U, PassBehind(U, T, Assistant(<<>>, x), <<>>)
  PROVE  U \in Seq(Messages) /\ PairedIn(U) /\ \A s : s \in KeptIn(U) <=> s \in KeptIn(T) \/ s \in x
<1>1. PICK e : e = <<>>
  OBVIOUS
<1>2. e \in Seq(AnswersOf) /\ e \in CallLists /\ Len(e) = 0
  BY <1>1, EmptySeq, CallListsHave
<1>3. PassBehind(U, T, Assistant(e, x), e)
  BY <1>1
<1>4. \A k \in 1..Len(e) : e[k].tool = e[k]
  BY <1>2
<1> QED BY <1>2, <1>3, <1>4, PassPaired

-----------------------------------------------------------------------------
(* The shape of a turn                                                      *)

LEMMA SamePolicy ==
  ASSUME policy' = policy
  PROVE  /\ Messages' = Messages /\ CallLists' = CallLists /\ Sentences' = Sentences
         /\ (Live <=> Live') /\ MaxPasses' = MaxPasses /\ MaxSentences' = MaxSentences
         /\ Callable' = Callable
BY DEF Messages, CallLists, Sentences, Live, MaxPasses, MaxSentences, Callable

LEMMA PolicyIs ==
  ASSUME policy \in Policies
  PROVE  policy.live \in BOOLEAN /\ policy.passes \in Nat \ {0} /\ policy.sentences \in Nat
OBVIOUS

LEMMA SpokenIs == ASSUME TypeOK PROVE Spoken \subseteq Sentences
BY DEF TypeOK, Spoken

\* What a reply cut short leaves behind.
LEMMA PartialReplyIs ==
  ASSUME SInv
  PROVE  \/ PartialReply = thread /\ Spoken = {}
         \/ PassBehind(PartialReply, thread, Assistant(<<>>, Spoken), <<>>)
<1>1. Assistant(<<>>, Spoken) \in Messages
  BY CallListsHave, SpokenIs DEF Messages, Assistant, SInv, EveryCallAnswered
<1>2. PassBehind(Append(thread, Assistant(<<>>, Spoken)), thread, Assistant(<<>>, Spoken), <<>>)
  BY <1>1, ReplyExtends DEF SInv, Shaped
<1> QED BY <1>2 DEF PartialReply

\* The replies that end a pass, and what is behind the thread then.
LEMMA RepliedCancelledIs ==
  ASSUME SInv
  PROVE  LET m == Assistant(calls, Spoken) IN
         /\ m \in Messages /\ NotRun(calls) \in Seq(AnswersOf) /\ Len(NotRun(calls)) = Len(calls)
         /\ \A k \in 1..Len(calls) : NotRun(calls)[k] = Answer(calls[k], "not_run")
         /\ PassBehind(Append(thread, m) \o NotRun(calls), thread, m, NotRun(calls))
<1>1. calls \in CallLists /\ calls \in Seq(Tools)
  BY CallListsAre DEF SInv, EveryCallAnswered, TypeOK
<1>2. Assistant(calls, Spoken) \in Messages
  BY <1>1, SpokenIs DEF Messages, Assistant, SInv, EveryCallAnswered
<1> QED BY <1>1, <1>2, NotRunAre, PassExtends DEF SInv, Shaped

LEMMA LogIs ==
  ASSUME SInv
  PROVE  LET m == Assistant(calls, speech) IN
         /\ m \in Messages
         /\ PassBehind(Append(thread, m) \o results, thread, m, results)
<1>1. calls \in CallLists /\ speech \in SUBSET Sentences
  BY DEF SInv, EveryCallAnswered, TypeOK
<1>2. Assistant(calls, speech) \in Messages
  BY <1>1 DEF Messages, Assistant
<1> QED BY <1>2, PassExtends DEF SInv, Shaped

\* The answers of the calls that an interrupt skips.
LEMMA SkippedAre ==
  ASSUME SInv, Len(results) < Len(calls)
  PROVE  LET r == results \o NotRun(SubSeq(calls, Len(results) + 1, Len(calls))) IN
         /\ r \in Seq(AnswersOf) /\ Len(r) = Len(calls)
         /\ \A k \in 1..Len(results) : r[k] = results[k]
         /\ \A k \in 1..Len(calls) : k > Len(results) => r[k] = Answer(calls[k], "not_run")
<1> DEFINE rest == SubSeq(calls, Len(results) + 1, Len(calls))
           n == Len(results)
<1>1. calls \in Seq(Tools) /\ results \in Seq(AnswersOf) /\ n \in Nat /\ Len(calls) \in Nat
  BY CallListsAre DEF SInv, EveryCallAnswered, TypeOK, Shaped
<1>2. /\ rest \in Seq(Tools) /\ Len(rest) = Len(calls) - n
      /\ \A i \in 1..(Len(calls) - n) : rest[i] = calls[n + i]
  <2>1. \A i \in (n + 1)..Len(calls) : calls[i] \in Tools
    BY <1>1
  <2> QED BY <2>1, <1>1, SubSeqProperties
<1> HIDE DEF rest
<1>3. /\ NotRun(rest) \in Seq(AnswersOf) /\ Len(NotRun(rest)) = Len(calls) - n
      /\ \A k \in 1..(Len(calls) - n) : NotRun(rest)[k] = Answer(calls[n + k], "not_run")
  <2>1. /\ NotRun(rest) \in Seq(AnswersOf) /\ Len(NotRun(rest)) = Len(rest)
        /\ \A k \in 1..Len(rest) : NotRun(rest)[k] = Answer(rest[k], "not_run")
    BY <1>2, NotRunAre, Zenon
  <2> QED BY <1>2, <2>1, Zenon
<1> DEFINE N == NotRun(rest)
<1> HIDE DEF N
<1>4. /\ results \o N \in Seq(AnswersOf) /\ Len(results \o N) = n + Len(N)
      /\ \A i \in 1..(n + Len(N)) : (results \o N)[i] = IF i <= n THEN results[i] ELSE N[i - n]
  BY <1>1, <1>3, ConcatProperties DEF N
<1>5. ASSUME NEW k \in 1..Len(calls), k > n
      PROVE  (results \o N)[k] = Answer(calls[k], "not_run")
  <2>1. k - n \in 1..(Len(calls) - n) /\ n + (k - n) = k
    BY <1>1, <1>5
  <2>2. N[k - n] = Answer(calls[n + (k - n)], "not_run")
    BY <2>1, <1>3 DEF N
  <2>3. k \in 1..(n + Len(N)) /\ ~(k <= n)
    BY <1>1, <1>3, <1>5 DEF N
  <2> QED BY <2>1, <2>2, <2>3, <1>4
<1>6. \A k \in 1..n : (results \o N)[k] = results[k]
  BY <1>1, <1>3, <1>4 DEF N
<1> QED BY <1>1, <1>3, <1>4, <1>5, <1>6 DEF N, rest

LEMMA AnsweredAre ==
  ASSUME SInv, Len(results) < Len(calls), NEW status \in {"ok", "failed", "unbound"}
  PROVE  LET a == Answer(CurrentCall, status)
             r == Append(results, a) IN
         /\ CurrentCall \in Tools /\ a \in AnswersOf /\ r \in Seq(AnswersOf)
         /\ Len(r) = Len(results) + 1 /\ r[Len(results) + 1] = a
         /\ \A k \in 1..Len(results) : r[k] = results[k]
<1>1. calls \in Seq(Tools) /\ results \in Seq(AnswersOf)
  BY CallListsAre DEF SInv, EveryCallAnswered, TypeOK, Shaped
<1>2. CurrentCall \in Tools
  BY <1>1 DEF CurrentCall
<1>3. Answer(CurrentCall, status) \in AnswersOf
  BY <1>2 DEF Answer, AnswersOf
<1> QED BY <1>1, <1>2, <1>3, AppendProperties

LEMMA InitSInv == Init => SInv
<1> SUFFICES ASSUME Init PROVE SInv
  OBVIOUS
<1> USE DEF Init
<1>1. User \in Messages /\ User.role = "user"
  BY DEF User, Messages
<1>2. thread \in Seq(Messages) /\ Len(thread) = 1 /\ DOMAIN thread = {1} /\ thread[1] = User
  BY <1>1
<1>3. PairedIn(thread)
  BY <1>1, <1>2 DEF PairedIn
<1>4. calls \in CallLists /\ Len(results) = 0 /\ Len(calls) = 0
  BY CallListsHave
<1>5. results \in Seq(AnswersOf) /\ DOMAIN results = {}
  BY EmptySeq
<1>6. pass \in 0..MaxPasses
  BY PolicyIs DEF MaxPasses
<1>7. TypeOK
  <2>1. /\ perTool \in [Tools -> Nat] /\ lastFailed \in Tools \union {None} /\ failRun \in Nat
        /\ unbound \in [Tools -> Nat] /\ refused \subseteq Tools
    OBVIOUS
  <2>2. endedBy \in Endings \union {None} /\ (endedBy # None <=> phase = "over")
    OBVIOUS
  <2>3. calls \in CallLists /\ Len(results) <= Len(calls)
    BY <1>4
  <2>4. \A i \in DOMAIN thread : thread[i] \in Messages
    BY <1>1, <1>2
  <2> QED BY <1>6, <2>1, <2>2, <2>3, <2>4 DEF TypeOK
<1> QED BY <1>2, <1>3, <1>5, <1>7, PairedIsAnswered DEF SInv, Shaped

LEMMA SentenceFits ==
  ASSUME TypeOK, pass > 0, Cardinality(speech) < MaxSentences
  PROVE  <<pass, Cardinality(speech) + 1>> \in Sentences
<1>1. speech \subseteq Sentences /\ MaxSentences \in Nat /\ MaxPasses \in Nat
  BY PolicyIs DEF TypeOK, MaxSentences, MaxPasses
<1>2. IsFiniteSet(Sentences)
  <2>1. IsFiniteSet(1..MaxPasses) /\ IsFiniteSet(1..MaxSentences)
    BY <1>1, FS_Interval
  <2> QED BY <2>1, FS_Product DEF Sentences
<1>3. Cardinality(speech) \in Nat
  BY <1>1, <1>2, FS_Subset, FS_CardinalityType
<1> QED BY <1>1, <1>3, SMTT(30) DEF TypeOK, Sentences

LEMMA EndTypes ==
  ASSUME SInv, policy' = policy, NEW rule \in Endings, Finish(rule),
         UNCHANGED <<pass, cancelled, reply, said, reported, counts>>,
         thread' \in Seq(Messages), PairedIn(thread')
  PROVE  SInv'
<1>1. TypeOK'
  <2>1. \A i \in DOMAIN thread' : thread'[i] \in Messages
    OBVIOUS
  <2> QED BY <2>1, SamePolicy
      DEF SInv, EveryCallAnswered, TypeOK, Finish, reply, counts
<1>2. EveryCallAnswered'
  BY <1>1 DEF EveryCallAnswered, At, PairedIn
<1>3. Shaped'
  BY SamePolicy DEF SInv, Shaped, Finish, reply, AnswersOf
<1> QED BY <1>2, <1>3 DEF SInv

LEMMA StepSInv ==
  ASSUME SInv, [Next]_vars
  PROVE  SInv'
<1>1. PairedIn(thread) /\ TypeOK /\ Shaped
  BY PairedIsAnswered DEF SInv
<1>2. CASE UNCHANGED vars
  BY <1>1, <1>2, SamePolicy, PairedIsAnswered
     DEF SInv, Shaped, TypeOK, vars, EveryCallAnswered, At
<1> SUFFICES ASSUME Next PROVE SInv'
  BY <1>2
<1>3. policy' = policy
  BY DEF Next
<1>4. policy.live \in BOOLEAN /\ policy.passes \in Nat \ {0} /\ policy.sentences \in Nat
  BY <1>1, PolicyIs DEF TypeOK
\* A step that leaves the thread alone.
<1>5. ASSUME thread' = thread, TypeOK', Shaped' PROVE SInv'
  BY <1>1, <1>5 DEF SInv, EveryCallAnswered, At, PairedIn
<1>6. CASE Cancel
  <2>1. TypeOK'
    BY <1>1, <1>3, <1>6, SamePolicy DEF Cancel, TypeOK, reply, counts
  <2>2. Shaped'
    BY <1>1, <1>3, <1>6, SamePolicy DEF Cancel, Shaped, reply, AnswersOf
  <2> QED BY <1>5, <1>6, <2>1, <2>2 DEF Cancel
<1>7. CASE BoundaryCancelled
  BY <1>1, <1>3, <1>7, EndTypes DEF BoundaryCancelled, Shaped, Endings
<1>8. CASE Send
  <2>1. <<>> \in CallLists /\ Len(<<>>) = 0 /\ <<>> \in Seq(AnswersOf) /\ DOMAIN <<>> = {}
    BY CallListsHave, EmptySeq
  <2>2. TypeOK'
    <3>1. calls' \in CallLists /\ Len(results') <= Len(calls')
      BY <1>8, <2>1 DEF Send
    <3>2. pass' \in 0..MaxPasses /\ MaxPasses' = MaxPasses
      BY <1>1, <1>3, <1>4, <1>8, SamePolicy DEF Send, TypeOK, MaxPasses
    <3> QED BY <1>1, <1>3, <1>8, <3>1, <3>2, SamePolicy DEF Send, TypeOK
  <2>3. Shaped'
    BY <1>1, <1>3, <1>8, <2>1, <2>2, SamePolicy DEF Send, Shaped, AnswersOf, TypeOK
  <2> QED BY <1>5, <1>8, <2>2, <2>3 DEF Send
<1>9. CASE Exhausted
  BY <1>1, <1>3, <1>9, EndTypes DEF Exhausted, Shaped, Endings
<1>10. CASE Think
  <2>1. TypeOK'
    BY <1>1, <1>3, <1>10, SamePolicy DEF Think, TypeOK, counts
  <2>2. Shaped'
    BY <1>1, <1>3, <1>10, SamePolicy DEF Think, Shaped, AnswersOf
  <2> QED BY <1>5, <1>10, <2>1, <2>2 DEF Think
<1>11. CASE Say
  <2>1. <<pass, Cardinality(speech) + 1>> \in Sentences
    BY <1>1, <1>11, SentenceFits DEF Say, Shaped
  <2>2. TypeOK'
    BY <1>1, <1>3, <1>11, <2>1, SamePolicy DEF Say, TypeOK, counts
  <2>3. Shaped'
    BY <1>1, <1>3, <1>11, SamePolicy DEF Say, Shaped, AnswersOf
  <2> QED BY <1>5, <1>11, <2>2, <2>3 DEF Say
<1>12. ASSUME thread' = PartialReply
       PROVE  thread' \in Seq(Messages) /\ PairedIn(thread')
  <2>1. Spoken \in SUBSET Sentences /\ thread \in Seq(Messages)
    BY <1>1, SpokenIs DEF Shaped
  <2> QED BY <1>1, <1>12, <2>1, PartialReplyIs, ReplyPaired
<1>13. CASE CutMidStream
  BY <1>3, <1>12, <1>13, EndTypes DEF CutMidStream, Endings
<1>14. ASSUME NEW kind \in {"transport", "server"}, StreamBreaks(kind) PROVE SInv'
  BY <1>1, <1>3, <1>12, <1>14, EndTypes DEF StreamBreaks, Endings, Shaped
<1>15. ASSUME NEW c \in CallLists, NEW tail \in BOOLEAN, NEW cut \in BOOLEAN,
              StreamEnds(c, tail, cut)
       PROVE  SInv'
  <2>1. tail => <<pass, Cardinality(speech) + 1>> \in Sentences
    BY <1>1, <1>15, SentenceFits DEF StreamEnds, Shaped
  <2>2. Len(c) \in Nat /\ results = <<>> /\ Len(results) = 0 /\ DOMAIN results = {}
    BY <1>1, <1>15, CallListsAre DEF StreamEnds, Shaped
  <2>3. TypeOK'
    <3>1. speech' \subseteq Sentences
      BY <1>1, <1>15, <2>1 DEF StreamEnds, TypeOK
    <3>2. calls' \in CallLists /\ Len(results') <= Len(calls') /\ length' \in BOOLEAN
      BY <1>15, <2>2 DEF StreamEnds
    <3> QED BY <1>1, <1>3, <1>15, <3>1, <3>2, SamePolicy DEF StreamEnds, TypeOK, counts
  <2>4. Shaped'
    BY <1>1, <1>3, <1>15, <2>2, SamePolicy DEF StreamEnds, Shaped, AnswersOf
  <2> QED BY <1>5, <1>15, <2>3, <2>4 DEF StreamEnds
<1>16. CASE RepliedCancelled
  <2>1. /\ calls \in CallLists /\ Spoken \in SUBSET Sentences
        /\ thread \in Seq(Messages)
    BY <1>1, SpokenIs DEF TypeOK, Shaped
  <2>2. /\ NotRun(calls) \in Seq(AnswersOf) /\ Len(NotRun(calls)) = Len(calls)
        /\ \A k \in 1..Len(calls) : NotRun(calls)[k] = Answer(calls[k], "not_run")
        /\ PassBehind(thread', thread, Assistant(calls, Spoken), NotRun(calls))
    BY <1>16, RepliedCancelledIs DEF RepliedCancelled
  <2>3. \A k \in 1..Len(NotRun(calls)) : NotRun(calls)[k].tool = calls[k]
    <3> TAKE k \in 1..Len(NotRun(calls))
    <3>1. NotRun(calls)[k] = Answer(calls[k], "not_run")
      BY <2>2
    <3> QED BY <3>1 DEF Answer
  <2>4. thread' \in Seq(Messages) /\ PairedIn(thread')
    BY <1>1, <2>1, <2>2, <2>3, PassPaired
  <2> QED BY <1>3, <1>16, <2>4, EndTypes DEF RepliedCancelled, Endings
<1>17. CASE Flush
  <2>1. TypeOK'
    BY <1>1, <1>3, <1>17, SamePolicy DEF Flush, TypeOK, counts, reply
  <2>2. Shaped'
    BY <1>1, <1>3, <1>17, SamePolicy DEF Flush, Shaped, AnswersOf, reply
  <2> QED BY <1>5, <1>17, <2>1, <2>2 DEF Flush
<1>18. ASSUME NEW status \in {"ok", "failed", "unbound"}, RunCall(status) PROVE SInv'
  <2>1. /\ CurrentCall \in Tools /\ results' \in Seq(AnswersOf)
        /\ Len(results') = Len(results) + 1
        /\ results'[Len(results) + 1] = Answer(CurrentCall, status)
        /\ \A k \in 1..Len(results) : results'[k] = results[k]
    BY <1>18, AnsweredAre DEF RunCall
  <2>2. results \in Seq(AnswersOf) /\ Len(results) \in Nat /\ Len(calls) \in Nat
    BY <1>1, CallListsAre DEF Shaped, TypeOK
  <2>3. /\ perTool' \in [Tools -> Nat] /\ lastFailed' \in Tools \union {None}
        /\ failRun' \in Nat /\ unbound' \in [Tools -> Nat] /\ refused' \subseteq Tools
    <3>1. /\ perTool \in [Tools -> Nat] /\ lastFailed \in Tools \union {None}
          /\ failRun \in Nat /\ unbound \in [Tools -> Nat] /\ refused \subseteq Tools
      BY <1>1 DEF TypeOK
    <3>2. CASE CountSuccess
      BY <3>1, <3>2 DEF CountSuccess
    <3>3. CASE CountFailure(CurrentCall)
      <4>1. [perTool EXCEPT ![CurrentCall] = @ + 1] \in [Tools -> Nat]
        BY <2>1, <3>1
      <4>2. [u \in Tools |-> IF u = CurrentCall THEN 1 ELSE 0] \in [Tools -> Nat]
        OBVIOUS
      <4>3. perTool' \in [Tools -> Nat]
        BY <3>3, <4>1, <4>2 DEF CountFailure
      <4> QED BY <2>1, <3>1, <3>3, <4>3 DEF CountFailure
    <3>4. CASE CountRefusal(CurrentCall)
      BY <2>1, <3>1, <3>4 DEF CountRefusal
    <3> QED BY <1>18, <3>2, <3>3, <3>4 DEF RunCall
  <2>4. reported' \in BOOLEAN
    BY <1>1, <1>18 DEF RunCall, TypeOK
  <2>5. TypeOK'
    <3>1. /\ UNCHANGED <<thread, phase, pass, cancelled, thought, speech, said, calls,
                         length, endedBy>>
          /\ Len(results') <= Len(calls)
      BY <1>18, <2>1, <2>2 DEF RunCall
    <3> QED BY <1>1, <1>3, <2>3, <2>4, <3>1, SamePolicy DEF TypeOK
  <2>6. \A k \in DOMAIN results' : results'[k].tool = calls[k]
    <3> TAKE k \in DOMAIN results'
    <3>1. k \in 1..Len(results) \/ k = Len(results) + 1
      BY <2>1, <2>2
    <3>2. CASE k \in 1..Len(results)
      BY <1>1, <2>1, <2>2, <3>2 DEF Shaped
    <3>3. CASE k = Len(results) + 1
      BY <2>1, <3>3 DEF Answer, CurrentCall
    <3> QED BY <3>1, <3>2, <3>3
  <2>7. Shaped'
    BY <1>1, <1>3, <1>18, <2>1, <2>6, SamePolicy DEF RunCall, Shaped, AnswersOf
  <2> QED BY <1>5, <1>18, <2>5, <2>7 DEF RunCall
<1>19. CASE SkipCalls
  <2>1. /\ results' \in Seq(AnswersOf) /\ Len(results') = Len(calls)
        /\ \A k \in 1..Len(results) : results'[k] = results[k]
        /\ \A k \in 1..Len(calls) : k > Len(results) => results'[k] = Answer(calls[k], "not_run")
    BY <1>19, SkippedAre DEF SkipCalls
  <2>2. results \in Seq(AnswersOf) /\ Len(results) \in Nat /\ Len(calls) \in Nat
    BY <1>1, CallListsAre DEF Shaped, TypeOK
  <2>3. TypeOK'
    BY <1>1, <1>3, <1>19, <2>1, <2>2, SamePolicy DEF SkipCalls, TypeOK, counts
  <2>4. \A k \in DOMAIN results' : results'[k].tool = calls[k]
    <3> TAKE k \in DOMAIN results'
    <3>1. k \in 1..Len(calls)
      BY <2>1
    <3>2. CASE k <= Len(results)
      BY <1>1, <2>1, <2>2, <3>1, <3>2 DEF Shaped
    <3>3. CASE k > Len(results)
      <4>1. results'[k] = Answer(calls[k], "not_run")
        BY <2>1, <3>1, <3>3
      <4> QED BY <4>1 DEF Answer
    <3> QED BY <2>2, <3>1, <3>2, <3>3
  <2>5. Shaped'
    BY <1>1, <1>3, <1>19, <2>1, <2>4, SamePolicy DEF SkipCalls, Shaped, AnswersOf
  <2> QED BY <1>5, <1>19, <2>3, <2>5 DEF SkipCalls
<1>20. CASE EndPass
  <2>1. /\ calls \in CallLists /\ speech \in SUBSET Sentences /\ Len(results) = Len(calls)
        /\ thread \in Seq(Messages) /\ results \in Seq(AnswersOf)
        /\ \A k \in 1..Len(results) : results[k].tool = calls[k]
    BY <1>1, <1>20, SMTT(30) DEF EndPass, TypeOK, Shaped
  <2>2. PassBehind(thread', thread, Assistant(calls, speech), results)
    BY <1>20, LogIs DEF EndPass
  <2>3. thread' \in Seq(Messages) /\ PairedIn(thread')
    BY <1>1, <2>1, <2>2, PassPaired
  <2>4. CASE Verdict = None
    <3>1. TypeOK'
      <4>1. \A i \in DOMAIN thread' : thread'[i] \in Messages
        BY <2>3
      <4> QED BY <1>1, <1>3, <1>20, <2>4, <4>1, SamePolicy DEF EndPass, TypeOK, reply, counts
    <3>2. Shaped'
      BY <1>1, <1>3, <1>20, <2>3, <2>4, SamePolicy DEF EndPass, Shaped, AnswersOf, reply
    <3> QED BY <2>3, <3>1, <3>2 DEF SInv, EveryCallAnswered, At, PairedIn
  <2>5. CASE Verdict # None
    <3>1. Verdict \in Endings
      BY <2>5 DEF Verdict, Endings
    <3> QED BY <1>3, <1>20, <2>3, <2>5, <3>1, EndTypes DEF EndPass
  <2> QED BY <2>4, <2>5
<1>21. CASE Over
  BY <1>2, <1>21 DEF Over
<1> QED
  BY <1>6, <1>7, <1>8, <1>9, <1>10, <1>11, <1>13, <1>14, <1>15, <1>16, <1>17,
     <1>18, <1>19, <1>20, <1>21 DEF Next

-----------------------------------------------------------------------------
(* What was heard                                                           *)

\* Heard, with the kept sentences as a function of the thread.
HeardIn(T) ==
    /\ \A s \in KeptIn(T) : s \in said
    /\ \A s \in said : s[1] <= pass
    /\ phase = "boundary" \/ (phase = "over" /\ endedBy # "server") =>
          \A s \in said : s \in KeptIn(T)
    /\ phase \in {"streaming", "replied", "tools"} =>
          /\ \A s \in said : s \in KeptIn(T) \/ s[1] = pass
          /\ \A s \in said : s[1] = pass => s \in speech
          /\ \A s \in speech : s[1] = pass
    /\ phase = "tools" => \A s \in speech : s \in said

LEMMA HeardIs == Heard <=> (Live => HeardIn(thread))
<1>1. \A s : s \in Kept <=> s \in KeptIn(thread)
  BY KeptIs
<1>2. \A s : s \in Spoken <=> s \in said /\ s[1] = pass
  BY DEF Spoken
<1> QED BY <1>1, <1>2 DEF Heard, HeardIn

LEMMA HeardIsNext == (Live' => HeardIn(thread)') => Heard'
<1>1. \A s : s \in Kept' <=> s \in KeptIn(thread')
  BY DEF Kept, KeptIn, At
<1>2. \A s : s \in Spoken' <=> s \in said' /\ s[1] = pass'
  BY DEF Spoken
<1> QED BY <1>1, <1>2 DEF Heard, HeardIn

LEMMA StepHeard ==
  ASSUME SInv, Heard, [Next]_vars
  PROVE  Heard'
<1>1. CASE UNCHANGED vars
  BY <1>1, SamePolicy DEF vars, Heard, Kept, At, Spoken
<1> SUFFICES ASSUME Next, Live, Live' PROVE HeardIn(thread)'
  <2>1. (Live' => HeardIn(thread)') => Heard'
    BY HeardIsNext
  <2> QED BY <1>1, <2>1, SamePolicy DEF Next
<1>2. /\ HeardIn(thread) /\ TypeOK /\ PairedIn(thread) /\ thread \in Seq(Messages)
      /\ pass \in Nat
  BY HeardIs, PairedIsAnswered DEF SInv, Shaped, TypeOK
<1> DEFINE Same == UNCHANGED <<thread, phase, pass, speech, said, endedBy>>
<1>3. CASE Same
  BY <1>2, <1>3 DEF HeardIn
<1>4. CASE Cancel
  BY <1>3, <1>4 DEF Cancel, reply
<1>5. CASE BoundaryCancelled
  BY <1>2, <1>5 DEF BoundaryCancelled, HeardIn, Finish, reply
<1>6. CASE Send
  <2>1. \A s \in said : s[1] \in Nat
    BY <1>2 DEF TypeOK, Sentences
  <2>2. \A s \in said : s[1] <= pass + 1 /\ s[1] # pass + 1
    BY <1>2, <2>1 DEF HeardIn
  <2>3. /\ UNCHANGED <<thread, said>> /\ pass' = pass + 1 /\ speech' = {}
        /\ phase = "boundary" /\ phase' = "streaming"
    BY <1>6 DEF Send
  <2> QED BY <1>2, <2>2, <2>3 DEF HeardIn
<1>7. CASE Exhausted
  BY <1>2, <1>7 DEF Exhausted, HeardIn, Finish, reply
<1>8. CASE Think
  BY <1>3, <1>8 DEF Think
<1>9. CASE Say
  <2> DEFINE s == <<pass, Cardinality(speech) + 1>>
  <2>1. s[1] = pass
    OBVIOUS
  <2>2. /\ speech' = speech \union {s} /\ said' = said \union {s}
        /\ phase = "streaming" /\ UNCHANGED <<thread, phase, pass, endedBy>>
    BY <1>9 DEF Say
  <2> HIDE DEF s
  <2> QED BY <1>2, <2>1, <2>2 DEF HeardIn
<1>10. Spoken \in SUBSET Sentences /\ \A s : s \in Spoken <=> s \in said /\ s[1] = pass
  BY <1>2, SpokenIs DEF Spoken
<1>11. CASE CutMidStream
  <2>1. \A s : s \in KeptIn(thread') <=> s \in KeptIn(thread) \/ s \in Spoken
    BY <1>2, <1>10, <1>11, PartialReplyIs, ReplyPaired DEF CutMidStream
  <2> QED BY <1>2, <1>10, <1>11, <2>1 DEF CutMidStream, HeardIn, Finish, reply
<1>12. ASSUME NEW kind \in {"transport", "server"}, StreamBreaks(kind)
       PROVE  HeardIn(thread)'
  <2>1. CASE kind = "transport"
    <3>1. \A s : s \in KeptIn(thread') <=> s \in KeptIn(thread) \/ s \in Spoken
      BY <1>2, <1>10, <1>12, <2>1, PartialReplyIs, ReplyPaired DEF StreamBreaks
    <3> QED BY <1>2, <1>10, <1>12, <2>1, <3>1 DEF StreamBreaks, HeardIn, Finish, reply
  <2>2. CASE kind = "server"
    BY <1>2, <1>12, <2>2 DEF StreamBreaks, HeardIn, Finish, reply
  <2> QED BY <2>1, <2>2
<1>13. ASSUME NEW c \in CallLists, NEW tail \in BOOLEAN, NEW cut \in BOOLEAN,
              StreamEnds(c, tail, cut)
       PROVE  HeardIn(thread)'
  <2> DEFINE s == <<pass, Cardinality(speech) + 1>>
  <2>1. s[1] = pass
    OBVIOUS
  <2>2. /\ speech' = speech \/ speech' = speech \union {s}
        /\ phase = "streaming" /\ phase' = "replied"
        /\ UNCHANGED <<thread, pass, said, endedBy>>
    BY <1>13 DEF StreamEnds
  <2> HIDE DEF s
  <2> QED BY <1>2, <2>1, <2>2 DEF HeardIn
<1>14. CASE RepliedCancelled
  <2>1. /\ calls \in CallLists /\ NotRun(calls) \in Seq(AnswersOf)
        /\ Len(NotRun(calls)) = Len(calls)
        /\ \A k \in 1..Len(NotRun(calls)) : NotRun(calls)[k].tool = calls[k]
        /\ PassBehind(thread', thread, Assistant(calls, Spoken), NotRun(calls))
    <3>1. \A k \in 1..Len(calls) : NotRun(calls)[k] = Answer(calls[k], "not_run")
      BY RepliedCancelledIs
    <3>2. \A k \in 1..Len(calls) : NotRun(calls)[k].tool = calls[k]
      <4> TAKE k \in 1..Len(calls)
      <4>1. NotRun(calls)[k] = Answer(calls[k], "not_run")
        BY <3>1
      <4> QED BY <4>1 DEF Answer
    <3> QED BY <1>2, <1>14, <3>2, RepliedCancelledIs DEF RepliedCancelled, TypeOK
  <2>2. \A s : s \in KeptIn(thread') <=> s \in KeptIn(thread) \/ s \in Spoken
    BY <1>2, <1>10, <2>1, PassPaired
  <2> QED BY <1>2, <1>10, <1>14, <2>2 DEF RepliedCancelled, HeardIn, Finish, reply
<1>15. CASE Flush
  BY <1>2, <1>15 DEF Flush, HeardIn, reply
<1>16. ASSUME NEW status \in {"ok", "failed", "unbound"}, RunCall(status)
       PROVE  HeardIn(thread)'
  BY <1>3, <1>16 DEF RunCall
<1>17. CASE SkipCalls
  BY <1>3, <1>17 DEF SkipCalls
<1>18. CASE EndPass
  <2>1. /\ calls \in CallLists /\ speech \in SUBSET Sentences /\ Len(results) = Len(calls)
        /\ results \in Seq(AnswersOf) /\ \A k \in 1..Len(results) : results[k].tool = calls[k]
    BY <1>2, <1>18, SMTT(40) DEF EndPass, TypeOK, SInv, Shaped
  <2>2. PassBehind(thread', thread, Assistant(calls, speech), results)
    BY <1>18, LogIs DEF EndPass
  <2>3. \A s : s \in KeptIn(thread') <=> s \in KeptIn(thread) \/ s \in speech
    BY <1>2, <2>1, <2>2, PassPaired
  <2>4. /\ phase = "tools" /\ phase' \in {"boundary", "over"}
        /\ UNCHANGED <<pass, said, speech>>
    BY <1>18 DEF EndPass, Finish, reply
  <2> QED BY <1>2, <2>3, <2>4 DEF HeardIn
<1>19. CASE Over
  BY <1>1, <1>3, <1>19 DEF Over, vars
<1> QED
  BY <1>4, <1>5, <1>6, <1>7, <1>8, <1>9, <1>11, <1>12, <1>13, <1>14, <1>15, <1>16,
     <1>17, <1>18, <1>19 DEF Next

LEMMA InitHeard == Init => Heard
<1> SUFFICES ASSUME Init PROVE Heard
  OBVIOUS
<1>1. thread = <<User>> /\ DOMAIN thread = {1} /\ thread[1].role = "user" /\ said = {}
  BY DEF Init, User
<1> QED BY <1>1 DEF Init, Heard, Kept, At, Spoken

LEMMA HeardImplies == ASSUME SInv, Heard PROVE ThreadTellsTheTurn
BY DEF SInv, Heard, ThreadTellsTheTurn, RemembersWhatWasHeard

\* The messages of a thread follow one another as the loop appends them, every
\* reply's calls answered, and RemembersWhatWasHeard: its two parts.
THEOREM InShape == Spec => [](SInv /\ Heard)
<1>1. Init => SInv /\ Heard
  BY InitSInv, InitHeard
<1>2. SInv /\ Heard /\ [Next]_vars => SInv' /\ Heard'
  BY StepSInv, StepHeard
<1> QED BY <1>1, <1>2, PTL DEF Spec

\* The thread a turn leaves behind, however it was interrupted: every call has
\* its answer behind its reply, and a live turn's holds what was spoken and
\* nothing else.
THEOREM ThreadIsTrue == Spec => []ThreadTellsTheTurn
BY InShape, HeardImplies, PTL

-----------------------------------------------------------------------------
(* An interrupt                                                             *)

LEMMA NothingStarts ==
  ASSUME SInv, [Next]_vars, cancelled
  PROVE  /\ said' = said /\ pass' = pass
         /\ \A i \in DOMAIN results' \ DOMAIN results : results'[i].status = "not_run"
<1>1. CASE UNCHANGED vars
  BY <1>1 DEF vars
<1>2. CASE SkipCalls
  <2>1. /\ results' \in Seq(AnswersOf) /\ Len(results') = Len(calls)
        /\ \A k \in 1..Len(calls) : k > Len(results) => results'[k] = Answer(calls[k], "not_run")
    BY <1>2, SkippedAre DEF SkipCalls
  <2>2. /\ results \in Seq(AnswersOf) /\ Len(results) \in Nat /\ DOMAIN results = 1..Len(results)
        /\ DOMAIN results' = 1..Len(calls) /\ Len(calls) \in Nat
    BY <2>1 DEF SInv, Shaped
  <2>3. ASSUME NEW i \in DOMAIN results' \ DOMAIN results
        PROVE  results'[i].status = "not_run"
    <3>1. i \in 1..Len(calls) /\ i > Len(results)
      BY <2>2
    <3>2. results'[i] = Answer(calls[i], "not_run")
      BY <2>1, <3>1
    <3> QED BY <3>2 DEF Answer
  <2> QED BY <1>2, <2>3 DEF SkipCalls
<1>3. CASE \/ Cancel \/ BoundaryCancelled \/ Send \/ Exhausted \/ Think \/ Say
           \/ CutMidStream \/ RepliedCancelled \/ Flush \/ EndPass \/ Over
  BY <1>1, <1>3 DEF Cancel, BoundaryCancelled, Send, Exhausted, Think, Say, CutMidStream,
     RepliedCancelled, Flush, EndPass, Over, reply
<1>4. ASSUME NEW kind \in {"transport", "server"}, StreamBreaks(kind)
      PROVE  said' = said /\ pass' = pass /\ results' = results
  BY <1>4 DEF StreamBreaks, reply
<1>5. ASSUME NEW c \in CallLists, NEW tail \in BOOLEAN, NEW cut \in BOOLEAN,
             StreamEnds(c, tail, cut)
      PROVE  said' = said /\ pass' = pass /\ results' = results
  BY <1>5 DEF StreamEnds
<1>6. ASSUME NEW status \in {"ok", "failed", "unbound"}, RunCall(status)
      PROVE  FALSE
  BY <1>6 DEF RunCall
<1> QED BY <1>1, <1>2, <1>3, <1>4, <1>5, <1>6 DEF Next

\* An interrupt stops the turn where it is.
THEOREM InterruptStops == Spec => NothingStartsAfterCancel
<1>1. SInv /\ [Next]_vars =>
        [cancelled => /\ said' = said /\ pass' = pass
                      /\ \A i \in DOMAIN results' \ DOMAIN results :
                            results'[i].status = "not_run"]_vars
  BY NothingStarts
<1>2. Init => SInv
  BY InitSInv
<1>3. SInv /\ [Next]_vars => SInv'
  BY StepSInv
<1> QED BY <1>1, <1>2, <1>3, PTL DEF Spec, NothingStartsAfterCancel

-----------------------------------------------------------------------------
(* How far a turn can go: what is left of it, and the words it says         *)

\* The sentences of a reply are numbered as they come, a live turn says each
\* at once, and only the unterminated last one waits for the end of the reply.
Paced ==
    /\ phase = "streaming" =>
          /\ Cardinality(speech) <= MaxSentences
          /\ \A s \in speech : s[2] <= Cardinality(speech)
          /\ Live => speech \subseteq said
    /\ phase = "replied" /\ Live => \E s : speech \subseteq said \union {s}

LEMMA SentencesFinite ==
  ASSUME TypeOK
  PROVE  /\ IsFiniteSet(speech) /\ Cardinality(speech) \in Nat
         /\ IsFiniteSet(said) /\ Cardinality(said) \in Nat
         /\ IsFiniteSet(Sentences)
         /\ MaxSentences \in Nat /\ MaxPasses \in Nat /\ pass \in Nat
<1>1. MaxSentences \in Nat /\ MaxPasses \in Nat
  BY PolicyIs DEF TypeOK, MaxSentences, MaxPasses
<1>2. IsFiniteSet(1..MaxPasses) /\ IsFiniteSet(1..MaxSentences)
  BY <1>1, FS_Interval
<1>3. IsFiniteSet(Sentences)
  BY <1>2, FS_Product DEF Sentences
<1>4. IsFiniteSet(speech) /\ IsFiniteSet(said)
  BY <1>3, FS_Subset DEF TypeOK
<1> QED BY <1>1, <1>3, <1>4, FS_CardinalityType DEF TypeOK

\* A sentence that is new to the reply is one more, and new to all she said.
LEMMA OneMoreSentence ==
  ASSUME TypeOK, Heard, Paced, phase = "streaming",
         NEW s, s = <<pass, Cardinality(speech) + 1>>
  PROVE  /\ Cardinality(speech \union {s}) = Cardinality(speech) + 1
         /\ \A r \in speech \union {s} : r[2] <= Cardinality(speech) + 1
         /\ Live => Cardinality(said \union {s}) = Cardinality(said) + 1
<1>1. /\ IsFiniteSet(speech) /\ Cardinality(speech) \in Nat
      /\ IsFiniteSet(said) /\ Cardinality(said) \in Nat
  BY SentencesFinite
<1>2. s[1] = pass /\ s[2] = Cardinality(speech) + 1
  OBVIOUS
<1>3. \A r \in speech : r[2] \in Nat /\ r[2] <= Cardinality(speech)
  BY DEF TypeOK, Sentences, Paced
<1>4. s \notin speech
  BY <1>1, <1>2, <1>3
<1>5. Live => s \notin said
  BY <1>2, <1>4 DEF Heard, Spoken
<1>6. Cardinality(speech \union {s}) = Cardinality(speech) + 1
  BY <1>1, <1>4, FS_AddElement
<1>7. Live => Cardinality(said \union {s}) = Cardinality(said) + 1
  BY <1>1, <1>5, FS_AddElement
<1> QED BY <1>1, <1>2, <1>3, <1>6, <1>7

LEMMA InitPaced == Init => Paced
BY DEF Init, Paced

LEMMA StepPaced ==
  ASSUME SInv, Heard, Paced, [Next]_vars
  PROVE  Paced'
<1>1. CASE UNCHANGED vars
  BY <1>1, SamePolicy DEF vars, Paced
<1> SUFFICES ASSUME Next PROVE Paced'
  BY <1>1
<1>2. /\ policy' = policy /\ (Live <=> Live') /\ MaxSentences' = MaxSentences
      /\ TypeOK /\ Cardinality(speech) \in Nat /\ MaxSentences \in Nat
  BY SamePolicy, SentencesFinite DEF Next, SInv, EveryCallAnswered
\* A step that leads elsewhere, or leaves alone what is said.
<1>3. ASSUME phase' \notin {"streaming", "replied"} PROVE Paced'
  BY <1>3 DEF Paced
<1>4. ASSUME UNCHANGED <<phase, speech, said>> PROVE Paced'
  BY <1>2, <1>4 DEF Paced
<1>5. CASE Send
  <2>1. speech' = {} /\ phase' = "streaming"
    BY <1>5 DEF Send
  <2>2. Cardinality(speech') = 0
    BY <2>1, FS_EmptySet
  <2> QED BY <1>2, <2>1, <2>2 DEF Paced
<1>6. CASE Say
  <2>1. PICK s : /\ s = <<pass, Cardinality(speech) + 1>> /\ speech' = speech \union {s}
                 /\ said' = IF Live THEN said \union {s} ELSE said
    BY <1>6 DEF Say
  <2>2. phase = "streaming" /\ phase' = "streaming" /\ Cardinality(speech) < MaxSentences
    BY <1>6 DEF Say
  <2>3. /\ Cardinality(speech') = Cardinality(speech) + 1
        /\ \A r \in speech' : r[2] <= Cardinality(speech')
    BY <1>2, <2>1, <2>2, OneMoreSentence
  <2>4. Live => speech' \subseteq said'
    BY <2>1, <2>2 DEF Paced
  <2> QED BY <1>2, <2>2, <2>3, <2>4 DEF Paced
<1>7. ASSUME NEW c \in CallLists, NEW tail \in BOOLEAN, NEW cut \in BOOLEAN,
             StreamEnds(c, tail, cut)
      PROVE  Paced'
  <2>1. /\ phase = "streaming" /\ phase' = "replied" /\ said' = said
        /\ \E s : speech' \subseteq speech \union {s}
    BY <1>7 DEF StreamEnds
  <2> QED BY <1>2, <2>1 DEF Paced
<1>8. CASE Cancel \/ Think \/ SkipCalls \/ Over \/ \E status \in {"ok", "failed", "unbound"} : RunCall(status)
  BY <1>4, <1>8 DEF Cancel, Think, SkipCalls, Over, RunCall, reply, vars
<1>9. CASE BoundaryCancelled \/ Exhausted \/ CutMidStream \/ RepliedCancelled \/ Flush \/ EndPass
           \/ \E kind \in {"transport", "server"} : StreamBreaks(kind)
  <2>1. phase' \in {"over", "tools", "boundary"}
    BY <1>9 DEF BoundaryCancelled, Exhausted, CutMidStream, RepliedCancelled, Flush, EndPass,
                StreamBreaks, Finish
  <2> QED BY <1>3, <2>1
<1> QED BY <1>5, <1>6, <1>7, <1>8, <1>9 DEF Next

\* StepsLeft, phase by phase.
StepsByPhase ==
  LET c == IF cancelled THEN 0 ELSE 1
      t == IF thought THEN 0 ELSE 1 IN
  /\ phase = "streaming" => StepsLeft = c + (MaxSentences - Cardinality(speech)) + t + MaxCalls + 4
  /\ phase = "replied"   => StepsLeft = c + MaxCalls + 3
  /\ phase = "tools"     => StepsLeft = c + (Len(calls) - Len(results)) + 2
  /\ phase = "boundary"  => StepsLeft = c + 1
  /\ phase = "over"      => StepsLeft = c

LEMMA StepsAre == TypeOK => StepsByPhase
<1> SUFFICES ASSUME TypeOK PROVE StepsByPhase
  OBVIOUS
<1> DEFINE c == IF cancelled THEN 0 ELSE 1
           t == IF thought THEN 0 ELSE 1
<1>1. ASSUME phase = "streaming"
      PROVE  StepsLeft = c + ((MaxSentences - Cardinality(speech)) + t + MaxCalls + 4)
  BY <1>1, Zenon DEF StepsLeft
<1>2. ASSUME phase = "replied" PROVE StepsLeft = c + (MaxCalls + 3)
  BY <1>2, Zenon DEF StepsLeft
<1>3. ASSUME phase = "tools" PROVE StepsLeft = c + ((Len(calls) - Len(results)) + 2)
  BY <1>3, Zenon DEF StepsLeft
<1>4. ASSUME phase = "boundary" PROVE StepsLeft = c + 1
  BY <1>4, Zenon DEF StepsLeft
<1>5. ASSUME phase = "over" PROVE StepsLeft = c + 0
  BY <1>5, Zenon DEF StepsLeft
<1>6. /\ c \in Nat /\ t \in Nat /\ MaxCalls \in Nat /\ MaxSentences \in Nat
      /\ Cardinality(speech) \in Nat /\ Len(calls) \in Nat /\ Len(results) \in Nat
  BY SentencesFinite, CallListsAre DEF TypeOK
<1> HIDE DEF c, t
<1> QED BY <1>1, <1>2, <1>3, <1>4, <1>5, <1>6 DEF StepsByPhase, c, t

LEMMA StepsAreNext == TypeOK' => StepsByPhase'
BY StepsAre, PTL

LEMMA Difference ==
  ASSUME NEW a \in Nat, NEW b \in Nat, NEW d \in Nat, b <= a, a <= d
  PROVE  a - b \in Nat /\ a - b <= d
OBVIOUS

LEMMA CallsBounded == ASSUME TypeOK PROVE Len(calls) \in 0..MaxCalls
BY CallListsAre DEF TypeOK

\* What a step leaves to do is less than before, unless it begins a pass.
LEMMA StepCounts ==
  ASSUME SInv, Heard, Paced, Next
  PROVE  \/ UNCHANGED vars
         \/ pass' = pass + 1 /\ pass' <= MaxPasses'
         \/ pass' = pass /\ StepsLeft' \in Nat /\ StepsLeft' < StepsLeft
<1>1. /\ policy' = policy /\ (Live <=> Live') /\ MaxSentences' = MaxSentences
      /\ MaxPasses' = MaxPasses /\ TypeOK /\ SInv' /\ Heard' /\ Paced' /\ TypeOK'
  BY SamePolicy, StepSInv, StepHeard, StepPaced DEF Next, SInv, EveryCallAnswered
<1> DEFINE k == Cardinality(speech)
           m == Len(calls)
           n == Len(results)
<1>2. /\ k \in Nat /\ k' \in Nat /\ MaxSentences \in Nat /\ MaxPasses \in Nat /\ pass \in Nat
      /\ MaxCalls \in Nat /\ cancelled \in BOOLEAN /\ thought \in BOOLEAN
  <2>1. speech \subseteq Sentences /\ speech' \subseteq Sentences /\ IsFiniteSet(Sentences)
    BY <1>1, SamePolicy, SentencesFinite DEF TypeOK
  <2>2. Cardinality(speech) \in Nat /\ Cardinality(speech') \in Nat
    BY <2>1, FS_Subset, FS_CardinalityType
  <2> QED BY <1>1, <2>2, SentencesFinite DEF TypeOK
<1>3. /\ m \in Nat /\ n \in Nat /\ m <= MaxCalls /\ n <= m
      /\ m' \in Nat /\ n' \in Nat /\ m' <= MaxCalls /\ n' <= m'
  <2>1. Len(calls) \in 0..MaxCalls /\ Len(results) <= Len(calls)
    BY <1>1, CallsBounded DEF TypeOK
  <2>2. calls' \in CallLists /\ Len(results') <= Len(calls')
    BY <1>1, SamePolicy DEF TypeOK
  <2>3. results \in Seq(AnswersOf) /\ results' \in Seq(AnswersOf')
    BY <1>1 DEF SInv, Shaped
  <2> QED BY <2>1, <2>2, <2>3, CallListsAre
<1>4. /\ phase = "streaming" => k <= MaxSentences
      /\ phase' = "streaming" => k' <= MaxSentences
  BY <1>1 DEF Paced
<1> DEFINE c == IF cancelled THEN 0 ELSE 1
           t == IF thought THEN 0 ELSE 1
<1>5. /\ phase = "streaming" => StepsLeft = c + (MaxSentences - k) + t + MaxCalls + 4
      /\ phase = "replied"   => StepsLeft = c + MaxCalls + 3
      /\ phase = "tools"     => StepsLeft = c + (m - n) + 2
      /\ phase = "boundary"  => StepsLeft = c + 1
      /\ phase = "over"      => StepsLeft = c
      /\ c \in 0..1 /\ t \in 0..1
  BY <1>1, StepsAre DEF StepsByPhase
<1>6. /\ phase' = "streaming" => StepsLeft' = c' + (MaxSentences - k') + t' + MaxCalls + 4
      /\ phase' = "replied"   => StepsLeft' = c' + MaxCalls + 3
      /\ phase' = "tools"     => StepsLeft' = c' + (m' - n') + 2
      /\ phase' = "boundary"  => StepsLeft' = c' + 1
      /\ phase' = "over"      => StepsLeft' = c'
      /\ c' \in 0..1 /\ t' \in 0..1
  BY <1>1, StepsAreNext DEF StepsByPhase
<1> HIDE DEF k, m, n, c, t
<1>7. phase \in {"boundary", "streaming", "replied", "tools", "over"}
  BY <1>1 DEF TypeOK
\* The turn ends.
<1>8. ASSUME phase # "over", phase' = "over", UNCHANGED <<pass, cancelled>>
      PROVE  pass' = pass /\ StepsLeft' \in Nat /\ StepsLeft' < StepsLeft
  <2>1. c' = c
    BY <1>8 DEF c
  <2> QED BY <1>2, <1>3, <1>4, <1>5, <1>6, <1>7, <1>8, <2>1
<1>9. CASE Cancel
  <2>1. c = 1 /\ c' = 0 /\ UNCHANGED <<phase, pass>> /\ k' = k /\ m' = m /\ n' = n /\ t' = t
    BY <1>9 DEF Cancel, reply, c, k, m, n, t
  <2> QED BY <1>2, <1>3, <1>4, <1>5, <1>6, <1>7, <2>1
<1>10. CASE BoundaryCancelled \/ Exhausted \/ CutMidStream \/ RepliedCancelled
            \/ \E kind \in {"transport", "server"} : StreamBreaks(kind)
  <2>1. phase # "over" /\ phase' = "over" /\ UNCHANGED <<pass, cancelled>>
    BY <1>10 DEF BoundaryCancelled, Exhausted, CutMidStream, RepliedCancelled, StreamBreaks, Finish
  <2> QED BY <1>8, <2>1
<1>11. CASE Send
  BY <1>1, <1>2, <1>11 DEF Send
<1>12. CASE Think
  <2>1. /\ phase = "streaming" /\ phase' = "streaming" /\ pass' = pass
        /\ c' = c /\ k' = k /\ t = 1 /\ t' = 0
    BY <1>12 DEF Think, c, k, t
  <2> QED BY <1>2, <1>4, <1>5, <1>6, <2>1
<1>13. CASE Say
  <2>1. /\ phase = "streaming" /\ phase' = "streaming" /\ pass' = pass /\ c' = c /\ t' = t
    BY <1>13 DEF Say, c, t
  <2>2. k' = k + 1
    BY <1>1, <1>13, OneMoreSentence DEF Say, k
  <2> QED BY <1>2, <1>4, <1>5, <1>6, <2>1, <2>2
<1>14. ASSUME NEW d \in CallLists, NEW tail \in BOOLEAN, NEW cut \in BOOLEAN,
              StreamEnds(d, tail, cut)
       PROVE  pass' = pass /\ StepsLeft' \in Nat /\ StepsLeft' < StepsLeft
  <2>1. phase = "streaming" /\ phase' = "replied" /\ pass' = pass /\ c' = c
    BY <1>14 DEF StreamEnds, c
  <2> QED BY <1>2, <1>4, <1>5, <1>6, <2>1
<1>15. CASE Flush
  <2>1. phase = "replied" /\ phase' = "tools" /\ pass' = pass /\ c' = c
    BY <1>15 DEF Flush, c
  <2>2. StepsLeft = c + MaxCalls + 3 /\ StepsLeft' = c + (m' - n') + 2
    BY <1>5, <1>6, <2>1
  <2>3. m' - n' \in Nat /\ m' - n' <= MaxCalls
    BY <1>2, <1>3, Difference
  <2>4. c \in Nat /\ MaxCalls \in Nat
    BY <1>5
  <2> QED BY <2>1, <2>2, <2>3, <2>4
<1>16. ASSUME NEW status \in {"ok", "failed", "unbound"}, RunCall(status)
       PROVE  pass' = pass /\ StepsLeft' \in Nat /\ StepsLeft' < StepsLeft
  <2>1. /\ phase = "tools" /\ phase' = "tools" /\ pass' = pass /\ c' = c /\ m' = m
    BY <1>16 DEF RunCall, c, m
  <2>2. n' = n + 1
    BY <1>1, <1>16, AnsweredAre DEF RunCall, n
  <2> QED BY <1>3, <1>5, <1>6, <2>1, <2>2
<1>17. CASE SkipCalls
  <2>1. /\ phase = "tools" /\ phase' = "tools" /\ pass' = pass /\ c' = c /\ m' = m /\ n < m
    BY <1>17 DEF SkipCalls, c, m, n
  <2>2. n' = m
    BY <1>17, SkippedAre DEF SkipCalls, n, m
  <2> QED BY <1>3, <1>5, <1>6, <2>1, <2>2
<1>18. CASE EndPass
  <2>1. /\ phase = "tools" /\ phase' \in {"boundary", "over"} /\ pass' = pass /\ c' = c
    BY <1>18 DEF EndPass, Finish, c
  <2> QED BY <1>3, <1>5, <1>6, <2>1
<1>19. CASE Over
  BY <1>19 DEF Over
<1> QED
  BY <1>9, <1>10, <1>11, <1>12, <1>13, <1>14, <1>15, <1>16, <1>17, <1>18, <1>19 DEF Next

\* A turn is bounded by its policy: every step begins one more of its passes or
\* leaves less to do in this one, over interrupts, refusals and failures.
THEOREM EveryTurnIsBounded == Spec => EveryStepCounts
<1>1. Init => SInv /\ Heard /\ Paced
  BY InitSInv, InitHeard, InitPaced
<1>2. SInv /\ Heard /\ Paced /\ [Next]_vars => SInv' /\ Heard' /\ Paced'
  BY StepSInv, StepHeard, StepPaced
<1>3. SInv /\ Heard /\ Paced /\ [Next]_vars =>
        [\/ pass' = pass + 1 /\ pass' <= MaxPasses
         \/ pass' = pass /\ StepsLeft' \in Nat /\ StepsLeft' < StepsLeft]_vars
  <2>1. Next => MaxPasses' = MaxPasses
    BY SamePolicy DEF Next
  <2> QED BY <2>1, StepCounts
<1> QED BY <1>1, <1>2, <1>3, PTL DEF Spec, EveryStepCounts

-----------------------------------------------------------------------------
(* A run as the rest of DollOS takes it                                     *)

\* Every step of a run is one of Cascade or a stutter: a sentence at a time is
\* said, the last one of a reply when it is flushed.
LEMMA StepOfCascade ==
  ASSUME SInv, Heard, Paced, [Next]_vars
  PROVE  \/ CascadeOfRun!Next
         \/ UNCHANGED <<IF phase = "over" THEN "idle" ELSE "speaking", cancelled, Cardinality(said)>>
<1>1. CASE UNCHANGED vars
  BY <1>1 DEF vars
<1> SUFFICES ASSUME Next
             PROVE  \/ CascadeOfRun!Next
                    \/ /\ (phase = "over" <=> phase' = "over")
                       /\ cancelled' = cancelled /\ said' = said
  BY <1>1
<1>2. TypeOK /\ IsFiniteSet(said) /\ Cardinality(said) \in Nat
  BY SentencesFinite DEF SInv, EveryCallAnswered
\* The steps that end the turn, and those that say nothing.
<1>3. ASSUME phase # "over", phase' = "over", UNCHANGED <<cancelled, said>>
      PROVE  CascadeOfRun!Next
  BY <1>3 DEF CascadeOfRun!Next, CascadeOfRun!End
<1>4. CASE Cancel
  BY <1>4 DEF Cancel, CascadeOfRun!Next, CascadeOfRun!Cancel
<1>5. CASE BoundaryCancelled \/ Exhausted \/ CutMidStream \/ RepliedCancelled
           \/ \E kind \in {"transport", "server"} : StreamBreaks(kind)
  <2>1. phase # "over" /\ phase' = "over" /\ UNCHANGED <<cancelled, said>>
    BY <1>5 DEF BoundaryCancelled, Exhausted, CutMidStream, RepliedCancelled, StreamBreaks, Finish
  <2> QED BY <1>3, <2>1
<1>6. CASE Send \/ Think \/ SkipCalls \/ \E status \in {"ok", "failed", "unbound"} : RunCall(status)
  <2>1. phase # "over" /\ phase' # "over" /\ UNCHANGED <<cancelled, said>>
    <3>1. CASE Send \/ Think \/ SkipCalls
      BY <3>1 DEF Send, Think, SkipCalls
    <3>2. CASE \E status \in {"ok", "failed", "unbound"} : RunCall(status)
      BY <3>2 DEF RunCall
    <3> QED BY <1>6, <3>1, <3>2
  <2> QED BY <2>1
<1>7. ASSUME phase # "over", phase' # "over", ~cancelled, cancelled' = cancelled,
             Cardinality(said') = Cardinality(said) + 1
      PROVE  CascadeOfRun!Next
  BY <1>7 DEF CascadeOfRun!Next, CascadeOfRun!Utter
<1>8. CASE Say
  <2>1. /\ phase = "streaming" /\ phase' = "streaming" /\ ~cancelled /\ cancelled' = cancelled
        /\ said' = IF Live THEN said \union {<<pass, Cardinality(speech) + 1>>} ELSE said
    BY <1>8 DEF Say
  <2>2. CASE Live
    <3>1. Cardinality(said') = Cardinality(said) + 1
      BY <1>2, <2>1, <2>2, OneMoreSentence
    <3> QED BY <1>7, <2>1, <3>1
  <2>3. CASE ~Live
    BY <2>1, <2>3
  <2> QED BY <2>2, <2>3
<1>9. ASSUME NEW c \in CallLists, NEW tail \in BOOLEAN, NEW cut \in BOOLEAN,
             StreamEnds(c, tail, cut)
      PROVE  (phase = "over" <=> phase' = "over") /\ cancelled' = cancelled /\ said' = said
  BY <1>9 DEF StreamEnds
<1>10. CASE Flush
  <2>1. /\ phase = "replied" /\ phase' = "tools" /\ ~cancelled /\ cancelled' = cancelled
        /\ said' = IF Live THEN said \union speech ELSE said
    BY <1>10 DEF Flush
  <2>2. CASE ~Live \/ speech \subseteq said
    BY <2>1, <2>2
  <2>3. CASE Live /\ ~(speech \subseteq said)
    <3>1. PICK s : speech \subseteq said \union {s}
      BY <2>1, <2>3 DEF Paced
    <3>2. said' = said \union {s} /\ s \notin said
      BY <2>1, <2>3, <3>1
    <3>3. Cardinality(said') = Cardinality(said) + 1
      BY <1>2, <3>2, FS_AddElement
    <3> QED BY <1>7, <2>1, <3>3
  <2> QED BY <2>2, <2>3
<1>11. CASE EndPass
  <2>1. phase = "tools" /\ phase' \in {"boundary", "over"} /\ UNCHANGED <<cancelled, said>>
    BY <1>11 DEF EndPass, Finish
  <2> QED BY <1>3, <2>1
<1>12. CASE Over
  BY <1>12 DEF Over, vars
<1> QED
  BY <1>4, <1>5, <1>6, <1>8, <1>9, <1>10, <1>11, <1>12 DEF Next

\* A run implements one turn of Cascade: it says its sentences one by one and
\* none after a cancel, whatever its model and its tools do.
THEOREM RunIsACascade == Spec => IsACascade
<1>1. Init => SInv /\ Heard /\ Paced
  BY InitSInv, InitHeard, InitPaced
<1>2. SInv /\ Heard /\ Paced /\ [Next]_vars => SInv' /\ Heard' /\ Paced'
  BY StepSInv, StepHeard, StepPaced
<1>3. Init => CascadeOfRun!Init
  BY FS_EmptySet DEF Init, CascadeOfRun!Init
<1>4. SInv /\ Heard /\ Paced /\ [Next]_vars =>
        [CascadeOfRun!Next]_<<IF phase = "over" THEN "idle" ELSE "speaking", cancelled, Cardinality(said)>>
  BY StepOfCascade
<1> QED BY <1>1, <1>2, <1>3, <1>4, PTL DEF Spec, IsACascade, CascadeOfRun!Spec

\* A run of the loop (runner.py) is one turn: an interrupt stops it where it is, its
\* policy bounds it, and to the rest of DollOS it is a cascade.
THEOREM OneRunOneTurn == Spec => RunIsOneTurn
BY InterruptStops, EveryTurnIsBounded, RunIsACascade DEF RunIsOneTurn

-----------------------------------------------------------------------------
(* Streaks of failures and replies with a refusal                           *)

LEMMA StreaksFinite ==
  ASSUME NEW T \in Seq(Messages)
  PROVE  /\ FailingIn(T) \subseteq 1..Len(T) /\ IsFiniteSet(FailingIn(T))
         /\ Cardinality(FailingIn(T)) \in Nat
         /\ \A t : /\ FailingOfIn(T, t) \subseteq FailingIn(T) /\ IsFiniteSet(FailingOfIn(T, t))
                   /\ RefusedIn(T, t) \subseteq 1..Len(T) /\ IsFiniteSet(RefusedIn(T, t))
<1>1. DOMAIN T = 1..Len(T) /\ Len(T) \in Nat /\ IsFiniteSet(1..Len(T))
  BY FS_Interval
<1>2. FailingIn(T) \subseteq 1..Len(T)
  BY <1>1 DEF FailingIn
<1>3. IsFiniteSet(FailingIn(T))
  BY <1>1, <1>2, FS_Subset
<1>4. Cardinality(FailingIn(T)) \in Nat
  BY <1>3, FS_CardinalityType
<1>5. ASSUME NEW t
      PROVE  /\ FailingOfIn(T, t) \subseteq FailingIn(T) /\ IsFiniteSet(FailingOfIn(T, t))
             /\ RefusedIn(T, t) \subseteq 1..Len(T) /\ IsFiniteSet(RefusedIn(T, t))
  <2>1. FailingOfIn(T, t) \subseteq FailingIn(T) /\ RefusedIn(T, t) \subseteq 1..Len(T)
    BY <1>1 DEF FailingOfIn, RefusedIn
  <2> QED BY <2>1, <1>1, <1>3, FS_Subset
<1> QED BY <1>2, <1>3, <1>4, <1>5

\* Nothing behind T is an answer of one of these statuses.
Silent(U, T, S) ==
    \A i \in DOMAIN U : i > Len(T) /\ U[i].role = "tool" => U[i].status \notin S

LEMMA FailingSame ==
  ASSUME NEW T, NEW U, Extends(U, T), Silent(U, T, {"ok", "failed"})
  PROVE  /\ FailingIn(U) = FailingIn(T)
         /\ \A t : FailingOfIn(U, t) = FailingOfIn(T, t)
         /\ \A t, n : LastFailuresOf(U, t, n) <=> LastFailuresOf(T, t, n)
<1>1. /\ DOMAIN T = 1..Len(T) /\ DOMAIN U = 1..Len(U) /\ Len(T) <= Len(U)
      /\ Len(T) \in Nat /\ Len(U) \in Nat /\ \A i \in 1..Len(T) : U[i] = T[i]
  BY DEF Extends
<1>2. FailingIn(U) = FailingIn(T)
  BY <1>1 DEF FailingIn, Silent
<1>3. \A i \in FailingIn(T) : U[i] = T[i]
  BY <1>1 DEF FailingIn
<1>4. \A t : FailingOfIn(U, t) = FailingOfIn(T, t)
  BY <1>2, <1>3 DEF FailingOfIn
<1>5. ASSUME NEW t, NEW n PROVE LastFailuresOf(U, t, n) <=> LastFailuresOf(T, t, n)
  BY <1>2, <1>3 DEF LastFailuresOf
<1> QED BY <1>2, <1>4, <1>5

LEMMA RefusedSame ==
  ASSUME NEW T, NEW U, Extends(U, T), Silent(U, T, {"unbound"}), NEW t
  PROVE  RefusedIn(U, t) = RefusedIn(T, t)
<1>1. /\ DOMAIN T = 1..Len(T) /\ DOMAIN U = 1..Len(U) /\ Len(T) <= Len(U)
      /\ Len(T) \in Nat /\ Len(U) \in Nat /\ \A i \in 1..Len(T) : U[i] = T[i]
  BY DEF Extends
<1>2. ASSUME NEW i \in DOMAIN U, U[i] = Answer(t, "unbound") PROVE i <= Len(T)
  BY <1>1, <1>2 DEF Silent, Answer
<1>3. ASSUME NEW i \in DOMAIN U, U[i].role = "assistant"
      PROVE  \A k \in DOMAIN U[i].calls : k \in Nat /\ k >= 1
  <2>1. U[i] \in Messages
    BY DEF Extends
  <2>2. U[i].calls \in CallLists
    BY <2>1, <1>3, MessageIs DEF AnswersOf
  <2> QED BY <2>2, CallListsAre
<1>4. ASSUME NEW i \in RefusedIn(U, t) PROVE i \in RefusedIn(T, t)
  <2>1. i \in DOMAIN U /\ U[i].role = "assistant"
    BY <1>4 DEF RefusedIn
  <2>2. PICK k \in DOMAIN U[i].calls : i + k \in DOMAIN U /\ U[i + k] = Answer(t, "unbound")
    BY <1>4 DEF RefusedIn
  <2>3. k \in Nat /\ k >= 1
    BY <2>1, <1>3
  <2>4. i + k <= Len(T)
    BY <2>2, <1>2
  <2>5. i \in DOMAIN T /\ i + k \in DOMAIN T /\ U[i] = T[i] /\ U[i + k] = T[i + k]
    BY <1>1, <2>1, <2>2, <2>3, <2>4
  <2> QED BY <2>1, <2>2, <2>5 DEF RefusedIn
<1>5. ASSUME NEW i \in RefusedIn(T, t) PROVE i \in RefusedIn(U, t)
  BY <1>1, <1>5 DEF RefusedIn
<1> QED BY <1>4, <1>5

LEMMA SilentSame ==
  ASSUME NEW T, NEW U, Extends(U, T), Silent(U, T, {"ok", "failed", "unbound"})
  PROVE  /\ FailingIn(U) = FailingIn(T)
         /\ \A t : FailingOfIn(U, t) = FailingOfIn(T, t)
         /\ \A t : RefusedIn(U, t) = RefusedIn(T, t)
         /\ \A t, n : LastFailuresOf(U, t, n) <=> LastFailuresOf(T, t, n)
<1>1. Silent(U, T, {"ok", "failed"}) /\ Silent(U, T, {"unbound"})
  BY DEF Silent
<1> QED BY <1>1, FailingSame, RefusedSame

\* A success ends every streak.
LEMMA FailingCleared ==
  ASSUME NEW T, NEW U, Extends(U, T), Len(U) = Len(T) + 1,
         NEW c, U[Len(U)] = Answer(c, "ok")
  PROVE  FailingIn(U) = {}
<1>1. DOMAIN U = 1..Len(U) /\ Len(U) \in Nat /\ Len(T) \in Nat
  BY DEF Extends
<1>2. U[Len(U)].role = "tool" /\ U[Len(U)].status = "ok" /\ Len(U) \in DOMAIN U
  BY <1>1 DEF Answer
<1> QED BY <1>1, <1>2 DEF FailingIn

\* A failure is the last of the streak.
LEMMA FailingGoesOn ==
  ASSUME NEW T, NEW U, Extends(U, T), Len(U) = Len(T) + 1,
         NEW c, U[Len(U)] = Answer(c, "failed")
  PROVE  /\ \A i : i \in FailingIn(U) <=> i \in FailingIn(T) \/ i = Len(U)
         /\ Len(U) \notin FailingIn(T) /\ U[Len(U)].tool = c
         /\ \A i \in FailingIn(T) : i < Len(U) /\ U[i] = T[i]
<1>1. /\ DOMAIN T = 1..Len(T) /\ DOMAIN U = 1..Len(U)
      /\ Len(T) \in Nat /\ Len(U) \in Nat /\ \A i \in 1..Len(T) : U[i] = T[i]
  BY DEF Extends
<1>2. U[Len(U)].role = "tool" /\ U[Len(U)].status = "failed" /\ U[Len(U)].tool = c
  BY DEF Answer
<1>3. ASSUME NEW i PROVE i \in FailingIn(U) <=> i \in FailingIn(T) \/ i = Len(U)
  BY <1>1, <1>2 DEF FailingIn
<1>4. \A i \in FailingIn(T) : i < Len(U) /\ U[i] = T[i]
  BY <1>1 DEF FailingIn
<1> QED BY <1>1, <1>2, <1>3, <1>4

LEMMA FailuresCounted ==
  ASSUME NEW T, NEW U, Extends(U, T), Len(U) = Len(T) + 1,
         NEW c, U[Len(U)] = Answer(c, "failed")
  PROVE  /\ Cardinality(FailingIn(U)) = Cardinality(FailingIn(T)) + 1
         /\ Cardinality(FailingOfIn(U, c)) = Cardinality(FailingOfIn(T, c)) + 1
         /\ \A t : t # c => FailingOfIn(U, t) = FailingOfIn(T, t)
         /\ LastFailuresOf(U, c, 1)
         /\ \A n \in Nat : LastFailuresOf(T, c, n) => LastFailuresOf(U, c, n + 1)
<1> DEFINE l == Len(U)
           F == FailingIn(T)
           G == FailingIn(U)
<1>1. T \in Seq(Messages) /\ U \in Seq(Messages) /\ l \in Nat
  BY DEF Extends
<1>2. /\ G = F \union {l} /\ l \notin F /\ U[l].tool = c
      /\ \A i \in F : i < l /\ U[i] = T[i]
  BY FailingGoesOn
<1>3. F \subseteq Nat /\ IsFiniteSet(F)
  BY <1>1, StreaksFinite
<1> HIDE DEF F, G, l
<1>4. Cardinality(G) = Cardinality(F) + 1
  BY <1>2, <1>3, FS_AddElement
<1>5. FailingOfIn(U, c) = FailingOfIn(T, c) \union {l}
  BY <1>2 DEF FailingOfIn, F, G
<1>6. IsFiniteSet(FailingOfIn(T, c)) /\ l \notin FailingOfIn(T, c)
  BY <1>1, <1>2, StreaksFinite DEF F
<1>7. Cardinality(FailingOfIn(U, c)) = Cardinality(FailingOfIn(T, c)) + 1
  BY <1>5, <1>6, FS_AddElement, ZenonT(30)
<1>8. \A t : t # c => FailingOfIn(U, t) = FailingOfIn(T, t)
  BY <1>2 DEF FailingOfIn, F, G
<1>9. LastFailuresOf(U, c, 1)
  <2>1. {j \in G : j >= l} = {l}
    <3>1. \A j \in F : ~(j >= l)
      BY <1>1, <1>2, <1>3 DEF l
    <3>2. l \in G /\ l >= l
      BY <1>1, <1>2 DEF l
    <3> QED BY <1>2, <3>1, <3>2
  <2>2. Cardinality({j \in G : j >= l}) = 1
    BY <2>1, FS_Singleton
  <2>3. \A j \in G : j >= l => U[j].tool = c
    BY <2>1, <1>2
  <2> QED BY <2>2, <2>3, <1>2 DEF LastFailuresOf, G
<1>10. ASSUME NEW n \in Nat, LastFailuresOf(T, c, n) PROVE LastFailuresOf(U, c, n + 1)
  <2>1. PICK i \in F : /\ Cardinality({j \in F : j >= i}) = n
                       /\ \A j \in F : j >= i => T[j].tool = c
    BY <1>10 DEF LastFailuresOf, F
  <2> DEFINE A == {j \in F : j >= i}
  <2>2. {j \in G : j >= i} = A \union {l}
    BY <1>1, <1>2, <1>3
  <2>3. IsFiniteSet(A) /\ l \notin A /\ Cardinality(A) = n
    BY <1>2, <1>3, <2>1, FS_Subset
  <2> HIDE DEF A
  <2>4. Cardinality({j \in G : j >= i}) = n + 1
    BY <2>2, <2>3, FS_AddElement, ZenonT(30)
  <2>5. \A j \in G : j >= i => U[j].tool = c
    BY <1>2, <2>1
  <2> QED BY <1>2, <2>1, <2>4, <2>5 DEF LastFailuresOf, G
<1> QED BY <1>4, <1>7, <1>8, <1>9, <1>10 DEF F, G, l

LEMMA NotTheLast ==
  ASSUME NEW i \in Nat, NEW k \in Nat, NEW m \in Nat, k >= 1,
         i + k <= m + 1, i + k # m + 1
  PROVE  i + k <= m /\ i <= m
OBVIOUS

\* A refusal marks the reply it answers, and no other.
LEMMA RefusalMarks ==
  ASSUME NEW B \in Seq(Messages), PairedIn(B), NEW c \in CallLists, NEW x,
         NEW r \in Seq(AnswersOf), NEW T, PassBehind(T, B, Assistant(c, x), r),
         NEW U, Extends(U, T), Len(U) = Len(T) + 1, Len(r) < Len(c),
         NEW d, c[Len(r) + 1] = d, U[Len(U)] = Answer(d, "unbound"), NEW t
  PROVE  \A i : i \in RefusedIn(U, t) <=> i \in RefusedIn(T, t) \/ (t = d /\ i = Len(B) + 1)
<1> DEFINE a == Len(B) + 1
           n == Len(r) + 1
<1>1. /\ Len(B) \in Nat /\ Len(r) \in Nat /\ Len(T) \in Nat /\ Len(U) \in Nat
      /\ DOMAIN B = 1..Len(B) /\ DOMAIN T = 1..Len(T) /\ DOMAIN U = 1..Len(U)
      /\ Len(T) = a + Len(r) /\ Len(U) = a + n /\ U \in Seq(Messages)
      /\ \A i \in 1..Len(T) : U[i] = T[i]
      /\ \A i \in 1..Len(B) : T[i] = B[i]
      /\ T[a] = Assistant(c, x)
      /\ \A k \in 1..Len(r) : T[a + k] = r[k]
  BY DEF Extends, PassBehind
<1>2. DOMAIN c = 1..Len(c) /\ n \in 1..Len(c) /\ Len(c) \in Nat
  BY <1>1, CallListsAre
<1>3. T[a].role = "assistant" /\ T[a].calls = c /\ U[a] = T[a]
  BY <1>1 DEF Assistant
<1>4. t # d => U[Len(U)] # Answer(t, "unbound")
  BY DEF Answer
<1> HIDE DEF a, n
<1>5. ASSUME NEW i \in DOMAIN U, U[i].role = "assistant", i # a
      PROVE  i \in DOMAIN B /\ \A k \in DOMAIN U[i].calls : k \in Nat /\ k >= 1 /\ i + k <= Len(B)
  <2>1. ~(i > a)
    <3> SUFFICES ASSUME i > a PROVE FALSE
      OBVIOUS
    <3>1. CASE i = Len(U)
      BY <3>1, <1>5 DEF Answer
    <3>2. CASE i # Len(U)
      <4>1. i - a \in 1..Len(r) /\ a + (i - a) = i /\ i \in 1..Len(T)
        BY <1>1, <1>5, <3>2, SMTT(30) DEF n, a
      <4>2. U[i] = r[i - a]
        BY <1>1, <4>1
      <4>3. r[i - a] \in AnswersOf
        BY <4>1
      <4> QED BY <4>2, <4>3, <1>5 DEF AnswersOf
    <3> QED BY <3>1, <3>2
  <2>2. i \in DOMAIN B /\ U[i] = B[i]
    BY <1>1, <1>5, <2>1, SMTT(40) DEF a
  <2>3. B[i].calls \in CallLists
    <3>1. B[i] \in Messages
      BY <2>2
    <3> QED BY <3>1, <2>2, <1>5, MessageIs DEF AnswersOf
  <2>4. DOMAIN B[i].calls = 1..Len(B[i].calls) /\ Len(B[i].calls) \in Nat
    BY <2>3, CallListsAre
  <2>5. i + Len(B[i].calls) <= Len(B)
    BY <2>2, <1>5 DEF PairedIn
  <2> QED BY <1>1, <2>2, <2>4, <2>5, SMTT(30)
<1>6. ASSUME NEW i, i \in RefusedIn(U, t)
      PROVE  i \in RefusedIn(T, t) \/ (t = d /\ i = a)
  <2>1. i \in DOMAIN U /\ U[i].role = "assistant"
    BY <1>6 DEF RefusedIn
  <2>2. PICK k \in DOMAIN U[i].calls : i + k \in DOMAIN U /\ U[i + k] = Answer(t, "unbound")
    BY <1>6 DEF RefusedIn
  <2>3. CASE i # a
    <3>1. i \in DOMAIN B /\ k \in Nat /\ k >= 1 /\ i + k <= Len(B)
      BY <1>5, <2>1, <2>3
    <3>2. i \in DOMAIN T /\ U[i] = T[i] /\ i + k \in DOMAIN T /\ U[i + k] = T[i + k]
      BY <1>1, <3>1, SMTT(30) DEF a
    <3> QED BY <2>1, <2>2, <3>2 DEF RefusedIn
  <2>4. CASE i = a /\ t # d
    <3>1. i + k # Len(U)
      BY <1>4, <2>2, <2>4
    <3>2. k \in DOMAIN c
      BY <1>3, <2>2, <2>4
    <3>3. i \in DOMAIN T /\ i + k \in DOMAIN T /\ U[i] = T[i] /\ U[i + k] = T[i + k]
      <4>1. k \in Nat /\ k >= 1 /\ i = a /\ i \in Nat /\ i >= 1
        BY <1>1, <1>2, <2>4, <3>2 DEF a
      <4>2. i + k <= Len(U) /\ Len(U) = Len(T) + 1
        BY <1>1, <2>2
      <4>3. i + k <= Len(T) /\ i <= Len(T)
        <5>1. Len(T) \in Nat
          BY <1>1
        <5>2. i + k <= Len(T) + 1 /\ i + k # Len(T) + 1
          BY <3>1, <4>2
        <5> QED BY <4>1, <5>1, <5>2, NotTheLast, Zenon
      <4>4. i \in DOMAIN T /\ i + k \in DOMAIN T
        BY <1>1, <4>1, <4>3
      <4> QED BY <1>1, <4>4
    <3> QED BY <2>1, <2>2, <3>3 DEF RefusedIn
  <2> QED BY <2>3, <2>4
<1>7. ASSUME NEW i, i \in RefusedIn(T, t) PROVE i \in RefusedIn(U, t)
  BY <1>1, <1>7 DEF RefusedIn, n
<1>8. ASSUME t = d PROVE a \in RefusedIn(U, t)
  <2>1. a \in DOMAIN U /\ a + n \in DOMAIN U /\ U[a + n] = Answer(t, "unbound")
    BY <1>1, <1>8 DEF a, n
  <2>2. U[a].role = "assistant" /\ n \in DOMAIN U[a].calls
    BY <1>2, <1>3
  <2> QED BY <2>1, <2>2 DEF RefusedIn
<1> QED BY <1>6, <1>7, <1>8 DEF a

-----------------------------------------------------------------------------
(* The log of a turn                                                        *)

Statuses == {"ok", "failed", "unbound"}

LEMMA ExtendsRefl ==
  ASSUME NEW T \in Seq(Messages)
  PROVE  Extends(T, T) /\ Silent(T, T, Statuses)
<1>1. DOMAIN T = 1..Len(T) /\ Len(T) \in Nat
  OBVIOUS
<1> QED BY <1>1 DEF Extends, Silent

\* A reply is no answer, nor does an answer of a call that was not run count.
LEMMA PassSilent ==
  ASSUME NEW T \in Seq(Messages), NEW c, NEW x, NEW r \in Seq(AnswersOf),
         NEW U, PassBehind(U, T, Assistant(c, x), r),
         \A k \in 1..Len(r) : r[k].status = "not_run"
  PROVE  Extends(U, T) /\ Silent(U, T, Statuses)
<1>1. /\ Extends(U, T) /\ Len(T) \in Nat /\ Len(r) \in Nat
      /\ DOMAIN U = 1..Len(U) /\ Len(U) = Len(T) + 1 + Len(r)
      /\ U[Len(T) + 1] = Assistant(c, x)
      /\ \A k \in 1..Len(r) : U[Len(T) + 1 + k] = r[k]
  BY DEF PassBehind, Extends
<1>2. ASSUME NEW i \in DOMAIN U, i > Len(T), U[i].role = "tool"
      PROVE  U[i].status \notin Statuses
  <2>1. i # Len(T) + 1
    BY <1>1, <1>2 DEF Assistant
  <2>2. i - (Len(T) + 1) \in 1..Len(r) /\ Len(T) + 1 + (i - (Len(T) + 1)) = i
    BY <1>1, <1>2, <2>1
  <2>3. U[i] = r[i - (Len(T) + 1)]
    BY <1>1, <2>2
  <2>4. U[i].status = "not_run"
    BY <2>2, <2>3
  <2> QED BY <2>4 DEF Statuses
<1> QED BY <1>1, <1>2 DEF Silent

LEMMA LogInPass ==
  ASSUME SInv, phase = "tools"
  PROVE  PassBehind(Log, thread, Assistant(calls, speech), results)
BY LogIs DEF Log

LEMMA LogInPassNext ==
  ASSUME SInv', policy' = policy, phase' = "tools"
  PROVE  PassBehind(Log', thread', Assistant(calls', speech'), results')
<1>1. /\ calls' \in CallLists /\ speech' \in SUBSET Sentences
      /\ thread' \in Seq(Messages) /\ results' \in Seq(AnswersOf)
  BY SamePolicy DEF SInv, EveryCallAnswered, TypeOK, Shaped, AnswersOf
<1>2. Assistant(calls', speech') \in Messages
  BY <1>1 DEF Messages, Assistant
<1>3. PassBehind(Append(thread', Assistant(calls', speech')) \o results', thread',
                 Assistant(calls', speech'), results')
  BY <1>1, <1>2, PassExtends
<1>4. Log' = Append(thread', Assistant(calls', speech')) \o results'
  BY DEF Log, Assistant
<1> QED BY <1>3, <1>4

LEMMA LogTyped == ASSUME SInv PROVE Log \in Seq(Messages)
<1>1. CASE phase = "tools"
  BY <1>1, LogInPass DEF PassBehind, Extends
<1> QED BY <1>1 DEF Log, SInv, Shaped

\* No step but the run of a call adds an answer that counts.
LEMMA LogSilent ==
  ASSUME SInv, SInv', Next, \A status \in Statuses : ~RunCall(status)
  PROVE  Extends(Log', Log) /\ Silent(Log', Log, Statuses)
<1>1. policy' = policy /\ thread \in Seq(Messages) /\ Log \in Seq(Messages)
  BY LogTyped DEF Next, SInv, Shaped
<1>2. CASE Log' = Log
  BY <1>1, <1>2, ExtendsRefl
<1>3. CASE UNCHANGED thread /\ phase # "tools" /\ phase' # "tools"
  BY <1>2, <1>3 DEF Log
<1>4. ASSUME UNCHANGED <<thread, phase, calls, speech, results>>
      PROVE  Log' = Log
  BY <1>4 DEF Log, Assistant
<1>5. CASE Cancel
  BY <1>2, <1>4, <1>5 DEF Cancel, reply
<1>6. CASE BoundaryCancelled \/ Send \/ Exhausted \/ Think \/ Say
  BY <1>3, <1>6 DEF BoundaryCancelled, Send, Exhausted, Think, Say, Finish
<1>7. ASSUME thread' = PartialReply, phase # "tools", phase' # "tools"
      PROVE  Extends(Log', Log) /\ Silent(Log', Log, Statuses)
  <2>1. Log' = thread' /\ Log = thread
    BY <1>7 DEF Log
  <2>2. CASE PartialReply = thread
    BY <1>2, <1>7, <2>1, <2>2
  <2>3. CASE PassBehind(PartialReply, thread, Assistant(<<>>, Spoken), <<>>)
    <3>1. PICK e : e = <<>>
      OBVIOUS
    <3>2. e \in Seq(AnswersOf) /\ Len(e) = 0 /\ \A k \in 1..Len(e) : e[k].status = "not_run"
      BY <3>1, EmptySeq
    <3>3. PassBehind(PartialReply, thread, Assistant(e, Spoken), e)
      BY <2>3, <3>1
    <3> QED BY <1>1, <1>7, <2>1, <3>2, <3>3, PassSilent
  <2> QED BY <2>2, <2>3, PartialReplyIs
<1>8. CASE CutMidStream
  BY <1>7, <1>8 DEF CutMidStream, Finish
<1>9. ASSUME NEW kind \in {"transport", "server"}, StreamBreaks(kind)
      PROVE  Extends(Log', Log) /\ Silent(Log', Log, Statuses)
  BY <1>3, <1>7, <1>9 DEF StreamBreaks, Finish
<1>10. ASSUME NEW c \in CallLists, NEW tail \in BOOLEAN, NEW cut \in BOOLEAN,
              StreamEnds(c, tail, cut)
       PROVE  Extends(Log', Log) /\ Silent(Log', Log, Statuses)
  BY <1>3, <1>10 DEF StreamEnds
<1>11. CASE RepliedCancelled
  <2>1. Log' = thread' /\ Log = thread
    BY <1>11 DEF Log, RepliedCancelled, Finish
  <2>2. /\ NotRun(calls) \in Seq(AnswersOf) /\ Len(NotRun(calls)) = Len(calls)
        /\ \A k \in 1..Len(calls) : NotRun(calls)[k] = Answer(calls[k], "not_run")
        /\ PassBehind(thread', thread, Assistant(calls, Spoken), NotRun(calls))
    BY <1>11, RepliedCancelledIs DEF RepliedCancelled
  <2>3. \A k \in 1..Len(NotRun(calls)) : NotRun(calls)[k].status = "not_run"
    <3> TAKE k \in 1..Len(NotRun(calls))
    <3>1. NotRun(calls)[k] = Answer(calls[k], "not_run")
      BY <2>2
    <3> QED BY <3>1 DEF Answer
  <2> QED BY <1>1, <2>1, <2>2, <2>3, PassSilent
<1>12. CASE Flush
  <2>1. Log = thread /\ thread' = thread /\ results' = results /\ results = <<>>
    BY <1>12 DEF Log, Flush, reply, SInv, Shaped
  <2>2. results' \in Seq(AnswersOf) /\ Len(results') = 0
    BY <2>1, EmptySeq
  <2>3. PassBehind(Log', thread, Assistant(calls', speech'), results')
    BY <1>1, <1>12, <2>1, LogInPassNext DEF Flush
  <2>4. \A k \in 1..Len(results') : results'[k].status = "not_run"
    BY <2>2
  <2> QED BY <1>1, <2>1, <2>2, <2>3, <2>4, PassSilent
<1>13. CASE SkipCalls
  <2>1. phase = "tools" /\ phase' = "tools" /\ UNCHANGED <<thread, calls, speech>>
    BY <1>13 DEF SkipCalls
  <2> DEFINE m == Assistant(calls, speech)
             n == Len(thread) + 1
  <2>2. PassBehind(Log, thread, m, results) /\ PassBehind(Log', thread, m, results')
    <3>1. PassBehind(Log', thread', Assistant(calls', speech'), results')
      BY <1>1, <2>1, LogInPassNext
    <3>2. Assistant(calls', speech') = m
      BY <2>1 DEF Assistant
    <3> QED BY <2>1, <3>1, <3>2, LogInPass
  <2>3. /\ results' \in Seq(AnswersOf) /\ Len(results') = Len(calls) /\ Len(results) < Len(calls)
        /\ \A k \in 1..Len(results) : results'[k] = results[k]
        /\ \A k \in 1..Len(calls) : k > Len(results) => results'[k] = Answer(calls[k], "not_run")
    BY <1>13, SkippedAre DEF SkipCalls
  <2>4. /\ Len(results) \in Nat /\ Len(calls) \in Nat /\ Len(thread) \in Nat
        /\ Len(Log) = n + Len(results) /\ Len(Log') = n + Len(calls)
        /\ Log' \in Seq(Messages) /\ DOMAIN Log' = 1..(n + Len(calls))
        /\ \A i \in 1..Len(thread) : Log[i] = thread[i] /\ Log'[i] = thread[i]
        /\ Log[n] = m /\ Log'[n] = m
        /\ \A k \in 1..Len(results) : Log[n + k] = results[k]
        /\ \A k \in 1..Len(calls) : Log'[n + k] = results'[k]
    BY <1>1, <2>2, <2>3 DEF PassBehind, Extends, SInv, Shaped
  <2> HIDE DEF m, n
  <2>5. ASSUME NEW i \in 1..Len(Log) PROVE Log'[i] = Log[i]
    <3>1. CASE i \in 1..Len(thread) \/ i = n
      BY <2>4, <3>1
    <3>2. CASE i > n
      <4>1. i - n \in 1..Len(results) /\ n + (i - n) = i /\ i - n \in 1..Len(calls)
        BY <2>3, <2>4, <3>2 DEF n
      <4>2. Log[i] = results[i - n] /\ Log'[i] = results'[i - n]
        BY <2>4, <4>1
      <4> QED BY <2>3, <4>1, <4>2
    <3> QED BY <2>4, <3>1, <3>2 DEF n
  <2>6. ASSUME NEW i \in DOMAIN Log', i > Len(Log) PROVE Log'[i].status \notin Statuses
    <3>1. i - n \in 1..Len(calls) /\ n + (i - n) = i /\ i - n > Len(results)
      BY <2>4, <2>6 DEF n
    <3>2. Log'[i] = results'[i - n] /\ results'[i - n] = Answer(calls[i - n], "not_run")
      BY <2>3, <2>4, <3>1
    <3> QED BY <3>2 DEF Answer, Statuses
  <2>7. Len(Log) <= Len(Log')
    BY <2>3, <2>4 DEF n
  <2> QED BY <1>1, <2>4, <2>5, <2>6, <2>7 DEF Extends, Silent
<1>14. CASE EndPass
  BY <1>2, <1>14 DEF EndPass, Log, Finish
<1>15. CASE Over
  BY <1>2, <1>4, <1>15 DEF Over, vars
<1> QED
  BY <1>5, <1>6, <1>8, <1>9, <1>10, <1>11, <1>12, <1>13, <1>14, <1>15 DEF Next, Statuses

-----------------------------------------------------------------------------
(* The counters                                                             *)

LEMMA InitCounted == Init => Counted
<1> SUFFICES ASSUME Init PROVE Counted
  OBVIOUS
<1>1. /\ thread = <<User>> /\ DOMAIN thread = {1} /\ thread[1].role = "user"
      /\ Log = thread
  BY DEF Init, User, Log
<1>2. FailingIn(Log) = {} /\ \A t : FailingOfIn(Log, t) = {} /\ RefusedIn(Log, t) = {}
  BY <1>1 DEF FailingIn, FailingOfIn, RefusedIn
<1>3. Cardinality({}) = 0
  BY FS_EmptySet
<1>4. \A t \in Tools : perTool[t] = 0 /\ unbound[t] = 0
  BY DEF Init
<1>5. failRun = 0 /\ phase = "boundary"
  BY DEF Init
<1>6. \A t \in Tools : unbound[t] = Cardinality(RefusedIn(Log, t))
  BY <1>2, <1>3, <1>4
<1>7. \A t \in Tools : perTool[t] = Cardinality(FailingOfIn(Log, t))
  BY <1>2, <1>3, <1>4
<1>8. failRun = Cardinality(FailingIn(Log))
  BY <1>2, <1>3, <1>5
<1>9. \A t \in Tools : ~(perTool[t] > 0) /\ \A n \in 1..perTool[t] : FALSE
  BY <1>4
<1> QED BY <1>5, <1>6, <1>7, <1>8, <1>9 DEF Counted

\* The counters of a log that grew by nothing that counts.
LEMMA CountsHold ==
  ASSUME CInv, policy' = policy, Extends(Log', Log), Silent(Log', Log, Statuses),
         UNCHANGED <<perTool, lastFailed, failRun, unbound>>,
         phase' \in {"streaming", "replied"} => refused' = {},
         phase' = "tools" => refused' = {t \in Tools : Len(thread') + 1 \in RefusedIn(Log', t)}
  PROVE  Counted'
<1>1. /\ FailingIn(Log') = FailingIn(Log)
      /\ \A t : FailingOfIn(Log', t) = FailingOfIn(Log, t)
      /\ \A t : RefusedIn(Log', t) = RefusedIn(Log, t)
      /\ \A t, n : LastFailuresOf(Log', t, n) <=> LastFailuresOf(Log, t, n)
  BY SilentSame DEF Statuses
<1>2. Counted /\ (Live <=> Live')
  BY SamePolicy DEF CInv
<1>3. \A t \in Tools : unbound'[t] = Cardinality(RefusedIn(Log', t))
  BY <1>1, <1>2 DEF Counted
<1>4. ~Live' => \A t \in Tools : perTool'[t] = Cardinality(FailingOfIn(Log', t))
  BY <1>1, <1>2 DEF Counted
<1>5. Live' => /\ failRun' = Cardinality(FailingIn(Log'))
               /\ \A t \in Tools : perTool'[t] > 0 => lastFailed' = t
               /\ \A t \in Tools : \A n \in 1..perTool'[t] : LastFailuresOf(Log', t, n)
  BY <1>1, <1>2 DEF Counted
<1> QED BY <1>3, <1>4, <1>5 DEF Counted

\* One call more.
LEMMA LogAnswered ==
  ASSUME SInv, SInv', Next, NEW status \in Statuses, RunCall(status)
  PROVE  /\ Extends(Log', Log) /\ Len(Log') = Len(Log) + 1
         /\ Log'[Len(Log')] = Answer(CurrentCall, status)
<1>1. /\ policy' = policy /\ thread \in Seq(Messages) /\ results \in Seq(AnswersOf)
      /\ phase = "tools" /\ phase' = "tools" /\ UNCHANGED <<thread, calls, speech>>
  BY DEF Next, SInv, Shaped, RunCall
<1> DEFINE m == Assistant(calls, speech)
           n == Len(thread) + 1
<1>2. PassBehind(Log, thread, m, results) /\ PassBehind(Log', thread, m, results')
  <2>1. PassBehind(Log', thread', Assistant(calls', speech'), results')
    BY <1>1, LogInPassNext
  <2>2. Assistant(calls', speech') = m
    BY <1>1 DEF Assistant
  <2> QED BY <1>1, <2>1, <2>2, LogInPass
<1>3. /\ results' \in Seq(AnswersOf) /\ Len(results') = Len(results) + 1
      /\ results'[Len(results) + 1] = Answer(CurrentCall, status)
      /\ \A k \in 1..Len(results) : results'[k] = results[k]
  BY AnsweredAre DEF RunCall, Statuses
<1>4. /\ Len(results) \in Nat /\ Len(thread) \in Nat
      /\ Len(Log) = n + Len(results) /\ Len(Log') = n + Len(results) + 1
      /\ Log \in Seq(Messages) /\ Log' \in Seq(Messages)
      /\ \A i \in 1..Len(thread) : Log[i] = thread[i] /\ Log'[i] = thread[i]
      /\ Log[n] = m /\ Log'[n] = m
      /\ \A k \in 1..Len(results) : Log[n + k] = results[k]
      /\ \A k \in 1..(Len(results) + 1) : Log'[n + k] = results'[k]
  BY <1>1, <1>2, <1>3 DEF PassBehind, Extends
<1> HIDE DEF m, n
<1>5. ASSUME NEW i \in 1..Len(Log) PROVE Log'[i] = Log[i]
  <2>1. CASE i \in 1..Len(thread) \/ i = n
    BY <1>4, <2>1
  <2>2. CASE i > n
    <3>1. i - n \in 1..Len(results) /\ n + (i - n) = i /\ i - n \in 1..(Len(results) + 1)
      BY <1>4, <2>2 DEF n
    <3>2. Log[i] = results[i - n] /\ Log'[i] = results'[i - n]
      BY <1>4, <3>1
    <3> QED BY <1>3, <3>1, <3>2
  <2> QED BY <1>4, <2>1, <2>2 DEF n
<1>6. Log'[Len(Log')] = Answer(CurrentCall, status)
  <2>1. Len(results) + 1 \in 1..(Len(results) + 1) /\ n + (Len(results) + 1) = Len(Log')
    BY <1>4 DEF n
  <2>2. Log'[n + (Len(results) + 1)] = results'[Len(results) + 1]
    BY <1>4, <2>1
  <2> QED BY <1>3, <2>1, <2>2
<1>7. Len(Log) <= Len(Log') /\ Len(Log') = Len(Log) + 1
  BY <1>4 DEF n
<1> QED BY <1>4, <1>5, <1>6, <1>7 DEF Extends

LEMMA StepCountedRun ==
  ASSUME CInv, SInv', Next, NEW status \in Statuses, RunCall(status)
  PROVE  Counted'
<1> DEFINE c == CurrentCall
           a == Len(thread) + 1
<1>1. /\ SInv /\ Counted /\ (Live <=> Live') /\ policy' = policy
      /\ phase = "tools" /\ phase' = "tools" /\ thread' = thread
      /\ perTool \in [Tools -> Nat] /\ failRun \in Nat /\ unbound \in [Tools -> Nat]
      /\ lastFailed \in Tools \union {None} /\ refused \subseteq Tools
  BY SamePolicy DEF CInv, Next, RunCall, SInv, EveryCallAnswered, TypeOK
<1>2. c \in Tools
  BY <1>1, AnsweredAre DEF RunCall, Statuses
<1>3. /\ Extends(Log', Log) /\ Len(Log') = Len(Log) + 1 /\ Log'[Len(Log')] = Answer(c, status)
      /\ Log \in Seq(Messages) /\ Len(Log) \in Nat
  BY <1>1, LogAnswered, LogTyped
<1>4. ASSUME NEW S, status \notin S PROVE Silent(Log', Log, S)
  <2>1. DOMAIN Log' = 1..Len(Log')
    BY <1>3 DEF Extends
  <2>2. \A i \in DOMAIN Log' : i > Len(Log) => i = Len(Log')
    BY <1>3, <2>1
  <2>3. Log'[Len(Log')].status = status
    BY <1>3 DEF Answer
  <2> QED BY <1>4, <2>2, <2>3 DEF Silent
<1> HIDE DEF c
<1>5. ASSUME status # "unbound", UNCHANGED <<unbound, refused>>
      PROVE  /\ \A t \in Tools : unbound'[t] = Cardinality(RefusedIn(Log', t))
             /\ refused' = {t \in Tools : Len(thread') + 1 \in RefusedIn(Log', t)}
  <2>1. \A t : RefusedIn(Log', t) = RefusedIn(Log, t)
    BY <1>3, <1>4, <1>5, RefusedSame
  <2> QED BY <1>1, <1>5, <2>1 DEF Counted
<1>6. CASE status = "ok"
  <2>1. CountSuccess
    BY <1>6 DEF RunCall
  <2>2. FailingIn(Log') = {} /\ \A t : FailingOfIn(Log', t) = {}
    BY <1>3, <1>6, FailingCleared DEF FailingOfIn
  <2>3. Cardinality({}) = 0
    BY FS_EmptySet
  <2>4. failRun' = 0 /\ \A t \in Tools : perTool'[t] = 0
    BY <2>1 DEF CountSuccess
  <2>5. ~Live' => \A t \in Tools : perTool'[t] = Cardinality(FailingOfIn(Log', t))
    BY <2>2, <2>3, <2>4
  <2>6. Live' => /\ failRun' = Cardinality(FailingIn(Log'))
                 /\ \A t \in Tools : perTool'[t] > 0 => lastFailed' = t
                 /\ \A t \in Tools : \A n \in 1..perTool'[t] : LastFailuresOf(Log', t, n)
    BY <2>2, <2>3, <2>4
  <2> QED BY <1>1, <1>5, <1>6, <2>1, <2>5, <2>6 DEF Counted, CountSuccess
<1>7. CASE status = "failed"
  <2>1. CountFailure(c)
    BY <1>7 DEF RunCall, c
  <2>2. /\ Cardinality(FailingIn(Log')) = Cardinality(FailingIn(Log)) + 1
        /\ Cardinality(FailingOfIn(Log', c)) = Cardinality(FailingOfIn(Log, c)) + 1
        /\ \A t : t # c => FailingOfIn(Log', t) = FailingOfIn(Log, t)
        /\ LastFailuresOf(Log', c, 1)
        /\ \A n \in Nat : LastFailuresOf(Log, c, n) => LastFailuresOf(Log', c, n + 1)
    BY <1>3, <1>7, FailuresCounted
  <2>3. ASSUME ~Live'
        PROVE  \A t \in Tools : perTool'[t] = Cardinality(FailingOfIn(Log', t))
    <3>1. perTool' = [perTool EXCEPT ![c] = @ + 1]
      BY <1>1, <2>1, <2>3 DEF CountFailure
    <3> QED BY <1>1, <1>2, <2>2, <2>3, <3>1 DEF Counted
  <2>4. ASSUME Live'
        PROVE  /\ failRun' = Cardinality(FailingIn(Log'))
               /\ \A t \in Tools : perTool'[t] > 0 => lastFailed' = t
               /\ \A t \in Tools : \A n \in 1..perTool'[t] : LastFailuresOf(Log', t, n)
    <3>1. /\ failRun' = failRun + 1 /\ lastFailed' = c
          /\ perTool' = IF c = lastFailed THEN [perTool EXCEPT ![c] = @ + 1]
                        ELSE [u \in Tools |-> IF u = c THEN 1 ELSE 0]
      BY <1>1, <2>1, <2>4 DEF CountFailure
    <3>2. /\ failRun = Cardinality(FailingIn(Log))
          /\ \A t \in Tools : perTool[t] > 0 => lastFailed = t
          /\ \A t \in Tools : \A n \in 1..perTool[t] : LastFailuresOf(Log, t, n)
      BY <1>1, <2>4 DEF Counted
    <3>3. /\ perTool'[c] = (IF c = lastFailed THEN perTool[c] + 1 ELSE 1)
          /\ \A t \in Tools : t # c => perTool'[t] = 0
      <4>1. CASE c = lastFailed
        <5>1. \A t \in Tools : t # c => perTool[t] = 0
          BY <1>1, <3>2, <4>1
        <5> QED BY <1>1, <1>2, <3>1, <4>1, <5>1
      <4>2. CASE c # lastFailed
        BY <1>2, <3>1, <4>2
      <4> QED BY <4>1, <4>2
    <3>4. \A t \in Tools : perTool'[t] > 0 => lastFailed' = t
      BY <3>1, <3>3
    <3>5. ASSUME NEW n \in 1..perTool'[c] PROVE LastFailuresOf(Log', c, n)
      <4>1. CASE n = 1
        BY <2>2, <4>1
      <4>2. CASE n # 1
        <5>1. n - 1 \in 1..perTool[c] /\ n - 1 \in Nat /\ (n - 1) + 1 = n
          BY <1>1, <1>2, <3>3, <3>5, <4>2
        <5>2. LastFailuresOf(Log, c, n - 1)
          BY <1>2, <3>2, <5>1
        <5>3. LastFailuresOf(Log', c, (n - 1) + 1)
          BY <2>2, <5>1, <5>2
        <5> QED BY <5>1, <5>3
      <4> QED BY <4>1, <4>2
    <3>6. \A t \in Tools : \A n \in 1..perTool'[t] : LastFailuresOf(Log', t, n)
      BY <3>3, <3>5
    <3> QED BY <2>2, <3>1, <3>2, <3>4, <3>6
  <2> QED BY <1>1, <1>5, <1>7, <2>1, <2>3, <2>4 DEF Counted, CountFailure
<1>8. CASE status = "unbound"
  <2>1. CountRefusal(c)
    BY <1>8 DEF RunCall, c
  <2>2. /\ FailingIn(Log') = FailingIn(Log)
        /\ \A t : FailingOfIn(Log', t) = FailingOfIn(Log, t)
        /\ \A t, n : LastFailuresOf(Log', t, n) <=> LastFailuresOf(Log, t, n)
    BY <1>3, <1>4, <1>8, FailingSame
  <2>3. ASSUME NEW t \in Tools
        PROVE  \A i : i \in RefusedIn(Log', t) <=> i \in RefusedIn(Log, t) \/ (t = c /\ i = a)
    <3>1. /\ thread \in Seq(Messages) /\ PairedIn(thread) /\ calls \in CallLists
          /\ results \in Seq(AnswersOf) /\ Len(results) < Len(calls)
          /\ calls[Len(results) + 1] = c
      BY <1>1, PairedIsAnswered DEF SInv, Shaped, EveryCallAnswered, TypeOK, RunCall, c, CurrentCall
    <3>2. PassBehind(Log, thread, Assistant(calls, speech), results)
      BY <1>1, LogInPass
    <3>3. Log'[Len(Log')] = Answer(c, "unbound")
      BY <1>3, <1>8
    <3> QED BY <1>3, <3>1, <3>2, <3>3, RefusalMarks, SMTT(30)
  <2>4. refused = {t \in Tools : a \in RefusedIn(Log, t)}
    BY <1>1 DEF Counted
  <2>5. refused' = {t \in Tools : a \in RefusedIn(Log', t)}
    <3>1. refused' = refused \union {c}
      BY <2>1 DEF CountRefusal
    <3> QED BY <1>2, <2>3, <2>4, <3>1
  <2>6. ASSUME NEW t \in Tools PROVE unbound'[t] = Cardinality(RefusedIn(Log', t))
    <3>1. /\ unbound[t] = Cardinality(RefusedIn(Log, t)) /\ IsFiniteSet(RefusedIn(Log, t))
          /\ unbound' = IF c \in refused THEN unbound ELSE [unbound EXCEPT ![c] = @ + 1]
      BY <1>1, <1>3, <2>1, StreaksFinite DEF Counted, CountRefusal
    <3>2. CASE t # c \/ c \in refused
      <4>1. unbound'[t] = unbound[t]
        BY <1>1, <3>1, <3>2
      <4>2. \A i : i \in RefusedIn(Log', t) <=> i \in RefusedIn(Log, t)
        BY <2>3, <2>4, <3>2
      <4>3. RefusedIn(Log', t) = RefusedIn(Log, t)
        BY <4>2
      <4> QED BY <3>1, <4>1, <4>3
    <3>3. CASE t = c /\ c \notin refused
      <4>1. unbound'[t] = unbound[t] + 1
        BY <1>1, <3>1, <3>3
      <4>2. RefusedIn(Log', t) = RefusedIn(Log, t) \union {a} /\ a \notin RefusedIn(Log, t)
        BY <2>3, <2>4, <3>3
      <4> QED BY <3>1, <4>1, <4>2, FS_AddElement, ZenonT(60)
    <3> QED BY <3>2, <3>3
  <2>7. UNCHANGED <<perTool, lastFailed, failRun>>
    BY <2>1 DEF CountRefusal
  <2>8. ~Live' => \A t \in Tools : perTool'[t] = Cardinality(FailingOfIn(Log', t))
    BY <1>1, <2>2, <2>7 DEF Counted
  <2>9. Live' => /\ failRun' = Cardinality(FailingIn(Log'))
                 /\ \A t \in Tools : perTool'[t] > 0 => lastFailed' = t
                 /\ \A t \in Tools : \A n \in 1..perTool'[t] : LastFailuresOf(Log', t, n)
    BY <1>1, <2>2, <2>7 DEF Counted
  <2>10. refused' = {t \in Tools : Len(thread') + 1 \in RefusedIn(Log', t)}
    BY <1>1, <2>5
  <2> QED BY <1>1, <2>6, <2>8, <2>9, <2>10 DEF Counted
<1> QED BY <1>6, <1>7, <1>8 DEF Statuses

LEMMA StepCounted ==
  ASSUME CInv, SInv', [Next]_vars
  PROVE  Counted'
<1>1. CASE UNCHANGED vars
  <2>1. Log' = Log
    BY <1>1 DEF vars, Log, Assistant
  <2> QED BY <1>1, <2>1, SamePolicy DEF vars, CInv, Counted
<1> SUFFICES ASSUME Next PROVE Counted'
  BY <1>1
<1>2. CASE \E status \in Statuses : RunCall(status)
  BY <1>2, StepCountedRun
<1> SUFFICES ASSUME \A status \in Statuses : ~RunCall(status) PROVE Counted'
  BY <1>2
<1>3. /\ SInv /\ Counted /\ policy' = policy
      /\ Extends(Log', Log) /\ Silent(Log', Log, Statuses)
  BY LogSilent DEF CInv, Next
<1>4. \A t : RefusedIn(Log', t) = RefusedIn(Log, t)
  BY <1>3, SilentSame DEF Statuses
<1>5. ASSUME UNCHANGED <<perTool, lastFailed, failRun, unbound>>,
             \/ phase' \notin {"streaming", "replied", "tools"}
             \/ phase' \in {"streaming", "replied"} /\ refused' = {}
             \/ phase = "tools" /\ phase' = "tools" /\ UNCHANGED <<refused, thread>>
      PROVE  Counted'
  BY <1>3, <1>4, <1>5, CountsHold DEF Counted
<1>6. CASE Cancel
  <2>1. phase' \in {"boundary", "streaming", "replied", "tools"} /\ phase' = phase
    BY <1>3, <1>6 DEF Cancel, SInv, EveryCallAnswered, TypeOK
  <2> QED BY <1>3, <1>5, <1>6, <2>1 DEF Cancel, counts, Counted
<1>7. CASE BoundaryCancelled \/ Exhausted \/ CutMidStream \/ RepliedCancelled
  BY <1>5, <1>7 DEF BoundaryCancelled, Exhausted, CutMidStream, RepliedCancelled, Finish, counts
<1>8. CASE Send
  BY <1>5, <1>8 DEF Send
<1>9. CASE Think \/ Say
  BY <1>3, <1>5, <1>9 DEF Think, Say, counts, Counted
<1>10. ASSUME NEW kind \in {"transport", "server"}, StreamBreaks(kind) PROVE Counted'
  BY <1>5, <1>10 DEF StreamBreaks, Finish, counts
<1>11. ASSUME NEW c \in CallLists, NEW tail \in BOOLEAN, NEW cut \in BOOLEAN,
              StreamEnds(c, tail, cut)
       PROVE  Counted'
  BY <1>3, <1>5, <1>11 DEF StreamEnds, counts, Counted
<1>12. CASE Flush
  <2>1. refused' = {} /\ thread' = thread /\ Log = thread
    BY <1>3, <1>12 DEF Flush, counts, Counted, Log
  <2>2. \A t : Len(thread) + 1 \notin RefusedIn(thread, t)
    BY <1>3, StreaksFinite DEF SInv, Shaped
  <2>3. refused' = {t \in Tools : Len(thread') + 1 \in RefusedIn(Log', t)}
    BY <1>4, <2>1, <2>2
  <2> QED BY <1>3, <1>12, <2>3, CountsHold DEF Flush, counts
<1>13. CASE SkipCalls
  BY <1>5, <1>13 DEF SkipCalls, counts
<1>14. CASE EndPass
  BY <1>5, <1>14 DEF EndPass, Finish, counts
<1>15. CASE Over
  BY <1>5, <1>15 DEF Over, vars
<1> QED
  BY <1>6, <1>7, <1>8, <1>9, <1>10, <1>11, <1>12, <1>13, <1>14, <1>15
     DEF Next, Statuses

-----------------------------------------------------------------------------
(* How the turn ends                                                        *)

LEMMA InitEInv == Init => EInv
<1> SUFFICES ASSUME Init PROVE EInv
  OBVIOUS
<1>1. FailLimit > 0 /\ UnboundLimit > 0
  OBVIOUS
<1>2. GoesOn
  BY <1>1 DEF Init, GoesOn, Stuck
<1>3. Reporting /\ Warranted
  BY DEF Init, Reporting, Warranted, Endings
<1> QED BY <1>2, <1>3, InitSInv, InitCounted DEF EInv, CInv

\* A tool's own streak is part of the turn's.
LEMMA StuckIsCounted ==
  ASSUME CInv, Live, NEW t \in Tools, Stuck(t)
  PROVE  failRun >= FailLimit
<1>1. /\ SInv /\ Counted /\ perTool[t] \in Nat /\ perTool[t] >= FailLimit
      /\ FailLimit \in Nat /\ FailLimit >= 1
  BY DEF CInv, SInv, EveryCallAnswered, TypeOK, Stuck
<1>2. LastFailuresOf(Log, t, perTool[t]) /\ failRun = Cardinality(FailingIn(Log))
  <2>1. perTool[t] \in 1..perTool[t]
    BY <1>1
  <2> QED BY <1>1, <2>1 DEF Counted
<1>3. PICK i \in FailingIn(Log) : Cardinality({j \in FailingIn(Log) : j >= i}) = perTool[t]
  BY <1>2 DEF LastFailuresOf
<1>4. IsFiniteSet(FailingIn(Log)) /\ Cardinality(FailingIn(Log)) \in Nat
  BY <1>1, LogTyped, StreaksFinite
<1>5. perTool[t] <= Cardinality(FailingIn(Log))
  <2> DEFINE A == {j \in FailingIn(Log) : j >= i}
  <2>1. A \in SUBSET FailingIn(Log)
    OBVIOUS
  <2>2. Cardinality(A) <= Cardinality(FailingIn(Log))
    BY <1>4, <2>1, FS_Subset
  <2> QED BY <1>3, <2>2
<1> QED BY <1>1, <1>2, <1>4, <1>5

LEMMA StepEnding ==
  ASSUME EInv, CInv', [Next]_vars
  PROVE  GoesOn' /\ Reporting' /\ Warranted'
<1>1. /\ GoesOn /\ Reporting /\ Warranted /\ TypeOK /\ SInv
      /\ failRun \in Nat /\ perTool \in [Tools -> Nat] /\ unbound \in [Tools -> Nat]
  BY DEF EInv, CInv, SInv, EveryCallAnswered, TypeOK
<1>2. CASE UNCHANGED vars
  BY <1>1, <1>2, SamePolicy DEF vars, GoesOn, Reporting, Warranted, Stuck
<1> SUFFICES ASSUME Next PROVE GoesOn' /\ Reporting' /\ Warranted'
  BY <1>2
<1>3. (Live <=> Live') /\ TypeOK'
  BY SamePolicy DEF Next, CInv, SInv, EveryCallAnswered
<1>4. phase # "over" => endedBy = None
  BY <1>1 DEF TypeOK
<1>5. None \notin Endings
  OBVIOUS
\* The counters, and what they have warranted, as they were.
<1>6. ASSUME UNCHANGED <<perTool, failRun, unbound, endedBy>> PROVE Warranted'
  BY <1>1, <1>3, <1>6 DEF Warranted, Stuck
<1>7. ASSUME UNCHANGED <<perTool, failRun, unbound>>,
             phase' \in {"boundary", "streaming", "replied"} =>
               phase \in {"boundary", "streaming", "replied"}
      PROVE  GoesOn'
  BY <1>1, <1>3, <1>7 DEF GoesOn, Stuck
\* An end for a reason that no counter gives.
<1>8. ASSUME NEW rule \in {"cancel", "max_passes", "transport", "server"}, Finish(rule),
             UNCHANGED <<perTool, failRun, unbound, reported, length, cancelled>>,
             ~Live => ~reported
      PROVE  GoesOn' /\ Reporting' /\ Warranted'
  BY <1>1, <1>3, <1>8 DEF Finish, GoesOn, Reporting, Warranted
<1>9. CASE Cancel
  BY <1>1, <1>3, <1>6, <1>7, <1>9 DEF Cancel, counts, reply, Reporting
<1>10. CASE BoundaryCancelled
  BY <1>1, <1>8, <1>10 DEF BoundaryCancelled, counts, reply, Reporting
<1>11. CASE Send
  BY <1>1, <1>3, <1>6, <1>7, <1>11 DEF Send, Reporting
<1>12. CASE Exhausted
  BY <1>1, <1>8, <1>12 DEF Exhausted, counts, reply, Reporting
<1>13. CASE Think
  BY <1>1, <1>3, <1>6, <1>7, <1>13 DEF Think, counts, Reporting
<1>14. CASE Say
  BY <1>1, <1>3, <1>6, <1>7, <1>14 DEF Say, counts, Reporting
<1>15. CASE CutMidStream
  BY <1>1, <1>8, <1>15 DEF CutMidStream, counts, reply, Reporting
<1>16. ASSUME NEW kind \in {"transport", "server"}, StreamBreaks(kind)
       PROVE  GoesOn' /\ Reporting' /\ Warranted'
  BY <1>1, <1>8, <1>16 DEF StreamBreaks, counts, reply, Reporting
<1>17. ASSUME NEW c \in CallLists, NEW tail \in BOOLEAN, NEW cut \in BOOLEAN,
              StreamEnds(c, tail, cut)
       PROVE  GoesOn' /\ Reporting' /\ Warranted'
  <2>1. UNCHANGED <<cancelled, reported, endedBy>> /\ phase = "streaming" /\ phase' = "replied"
        /\ (length' => calls' = <<>>)
    BY <1>17 DEF StreamEnds
  <2>2. Reporting'
    BY <1>1, <1>3, <2>1 DEF Reporting
  <2> QED BY <1>6, <1>7, <1>17, <2>2 DEF StreamEnds, counts
<1>18. CASE RepliedCancelled
  BY <1>1, <1>8, <1>18 DEF RepliedCancelled, counts, reply, Reporting
<1>19. CASE Flush
  BY <1>1, <1>3, <1>6, <1>7, <1>19 DEF Flush, counts, reply, Reporting
<1>20. ASSUME NEW status \in {"ok", "failed", "unbound"}, RunCall(status)
       PROVE  GoesOn' /\ Reporting' /\ Warranted'
  <2>1. /\ phase = "tools" /\ phase' = "tools" /\ Len(results) < Len(calls)
        /\ UNCHANGED <<length, calls, cancelled, endedBy>>
    BY <1>20 DEF RunCall
  <2>2. calls # <<>>
    <3>1. Len(results) \in Nat /\ Len(<<>>) = 0
      BY <1>1 DEF SInv, Shaped
    <3> QED BY <2>1, <3>1
  <2>3. Reporting'
    BY <1>1, <1>3, <2>1, <2>2 DEF Reporting
  <2>4. GoesOn' /\ Warranted'
    BY <1>4, <1>5, <2>1 DEF GoesOn, Warranted, Endings
  <2> QED BY <2>3, <2>4
<1>21. CASE SkipCalls
  BY <1>1, <1>3, <1>6, <1>7, <1>21 DEF SkipCalls, counts, Reporting
<1>22. CASE EndPass
  <2>1. /\ phase = "tools" /\ UNCHANGED <<perTool, failRun, unbound, reported, length, cancelled>>
        /\ UNCHANGED calls
    BY <1>22 DEF EndPass, counts, reply
  <2>2. ASSUME Verdict = None PROVE GoesOn' /\ Reporting' /\ Warranted'
    <3>1. phase' = "boundary" /\ endedBy' = endedBy
      BY <1>22, <2>2 DEF EndPass
    <3>2. /\ ~cancelled /\ ~length /\ ~(~Live /\ reported) /\ calls # <<>>
          /\ ~(Live /\ (failRun >= FailLimit \/ \E t \in Tools : Stuck(t)))
          /\ ~(~Live /\ \E t \in Tools : Stuck(t))
          /\ ~(\E t \in Tools : unbound[t] >= UnboundLimit)
      BY <1>5, <2>2 DEF Verdict, Endings
    <3>3. GoesOn'
      BY <1>1, <1>3, <2>1, <3>2 DEF GoesOn, Stuck
    <3>4. Reporting'
      BY <1>1, <1>3, <2>1, <3>1, <3>2 DEF Reporting
    <3> QED BY <1>6, <2>1, <3>1, <3>3, <3>4
  <2>3. ASSUME Verdict # None PROVE GoesOn' /\ Reporting' /\ Warranted'
    <3>1. phase' = "over" /\ endedBy' = Verdict
      BY <1>22, <2>3 DEF EndPass, Finish
    <3>2. ~Live /\ reported => Verdict = "report"
      BY <1>1, <2>1 DEF Verdict, Reporting
    <3>3. Verdict = "safe_mode" => Live /\ failRun >= FailLimit
      <4>1. ASSUME Live, NEW t \in Tools, Stuck(t) PROVE failRun >= FailLimit
        BY <1>1, <4>1, StuckIsCounted DEF EInv
      <4> QED BY <1>5, <4>1 DEF Verdict, Endings
    <3>4. Verdict = "stuck_tool" => ~Live /\ \E t \in Tools : Stuck(t)
      BY <1>5 DEF Verdict, Endings
    <3>5. Verdict = "unbound_limit" =>
            /\ \E t \in Tools : unbound[t] >= UnboundLimit
            /\ Live => ~(failRun >= FailLimit)
            /\ ~Live => \A t \in Tools : ~Stuck(t)
      BY <1>5 DEF Verdict, Endings
    <3>6. Warranted'
      <4>1. ~(failRun >= FailLimit) => failRun < FailLimit
        BY <1>1
      <4> QED BY <1>3, <2>1, <3>1, <3>3, <3>4, <3>5, <4>1 DEF Warranted, Stuck
    <3>7. Reporting'
      BY <1>1, <1>3, <2>1, <3>1, <3>2 DEF Reporting
    <3>8. GoesOn'
      BY <3>1 DEF GoesOn
    <3> QED BY <3>6, <3>7, <3>8
  <2> QED BY <2>2, <2>3
<1>23. CASE Over
  BY <1>2, <1>23 DEF Over
<1> QED
  BY <1>9, <1>10, <1>11, <1>12, <1>13, <1>14, <1>15, <1>16, <1>17, <1>18, <1>19,
     <1>20, <1>21, <1>22, <1>23 DEF Next

\* The thread's streaks are the log's when no pass is under way.
LEMMA StreaksAre ==
  ASSUME SInv
  PROVE  /\ Failing = FailingIn(thread) /\ \A t : FailingOf(t) = FailingOfIn(thread, t)
         /\ \A t : RefusedReplies(t) = RefusedIn(thread, t)
<1>1. Failing = FailingIn(thread)
  BY DEF Failing, FailingIn, At
<1>2. \A t : FailingOf(t) = FailingOfIn(thread, t)
  BY <1>1 DEF FailingOf, FailingOfIn
<1>3. ASSUME NEW i \in DOMAIN thread, thread[i].role = "assistant", NEW k \in DOMAIN thread[i].calls
      PROVE  i + k \in DOMAIN thread
  <2>1. /\ thread \in Seq(Messages) /\ DOMAIN thread = 1..Len(thread) /\ Len(thread) \in Nat
        /\ thread[i] \in Messages
    BY DEF SInv, Shaped
  <2>2. thread[i].calls \in CallLists
    BY <1>3, <2>1, MessageIs DEF AnswersOf
  <2>3. DOMAIN thread[i].calls = 1..Len(thread[i].calls) /\ Len(thread[i].calls) \in Nat
    BY <2>2, CallListsAre
  <2>4. i + Len(thread[i].calls) <= Len(thread)
    BY <1>3, PairedIsAnswered DEF SInv, PairedIn
  <2> QED BY <2>1, <2>3, <2>4
<1>4. \A t : RefusedReplies(t) = RefusedIn(thread, t)
  BY <1>3 DEF RefusedReplies, RefusedIn, At
<1> QED BY <1>1, <1>2, <1>4

LEMMA EInvImplies ==
  ASSUME EInv
  PROVE  EndingIsRight
<1>1. SInv /\ Counted /\ GoesOn /\ Reporting /\ Warranted /\ TypeOK
  BY DEF EInv, CInv, SInv, EveryCallAnswered
<1>2. ASSUME phase # "tools"
      PROVE  /\ Live => failRun = Cardinality(Failing)
             /\ ~Live => \A t \in Tools : perTool[t] = Cardinality(FailingOf(t))
             /\ \A t \in Tools : unbound[t] = Cardinality(RefusedReplies(t))
  BY <1>1, <1>2, StreaksAre DEF Counted, Log
<1>3. endedBy # None => phase = "over"
  BY <1>1 DEF TypeOK
<1>4. FailLimit \in Nat /\ UnboundLimit \in Nat /\ FailLimit >= 1 /\ None \notin Endings
  OBVIOUS
<1>5. failRun \in Nat /\ perTool \in [Tools -> Nat] /\ unbound \in [Tools -> Nat]
  BY <1>1 DEF TypeOK
<1>6. phase = "streaming" => ~Tripped /\ ~Overrefused
  <2> SUFFICES ASSUME phase = "streaming" PROVE ~Tripped /\ ~Overrefused
    OBVIOUS
  <2>1. /\ Live => failRun < FailLimit
        /\ \A t \in Tools : ~Stuck(t) /\ unbound[t] < UnboundLimit
    BY <1>1 DEF GoesOn
  <2>2. ~Tripped
    BY <1>2, <1>4, <1>5, <2>1 DEF Tripped, Stuck
  <2>3. ~Overrefused
    BY <1>2, <1>4, <1>5, <2>1 DEF Overrefused
  <2> QED BY <2>2, <2>3
<1>7. endedBy \in {"safe_mode", "stuck_tool"} => Tripped
  <2> SUFFICES ASSUME endedBy \in {"safe_mode", "stuck_tool"} PROVE Tripped
    OBVIOUS
  <2>1. phase = "over"
    BY <1>3, <1>4 DEF Endings
  <2> QED BY <1>1, <1>2, <2>1 DEF Warranted, Tripped, Stuck
<1>8. endedBy = "unbound_limit" => Overrefused /\ ~Tripped
  <2> SUFFICES ASSUME endedBy = "unbound_limit" PROVE Overrefused /\ ~Tripped
    OBVIOUS
  <2>1. phase = "over"
    BY <1>3, <1>4 DEF Endings
  <2>2. /\ \E t \in Tools : unbound[t] >= UnboundLimit
        /\ Live => failRun < FailLimit
        /\ ~Live => \A t \in Tools : ~Stuck(t)
    BY <1>1 DEF Warranted
  <2>3. Overrefused
    BY <1>2, <2>1, <2>2 DEF Overrefused
  <2>4. ~Tripped
    BY <1>2, <1>4, <1>5, <2>1, <2>2 DEF Tripped, Stuck
  <2> QED BY <2>3, <2>4
<1>9. StuckToolIsTheLastToFail
  <2> SUFFICES ASSUME Live, phase = "over", NEW t \in Tools, Stuck(t)
               PROVE  \E i \in Failing : /\ Cardinality({j \in Failing : j >= i}) = FailLimit
                                         /\ \A j \in Failing : j >= i => thread[j].tool = t
    BY DEF StuckToolIsTheLastToFail
  <2>1. FailLimit \in 1..perTool[t]
    BY <1>4, <1>5 DEF Stuck
  <2>2. LastFailuresOf(thread, t, FailLimit)
    BY <1>1, <2>1 DEF Counted, Log
  <2> QED BY <1>1, <2>2, StreaksAre DEF LastFailuresOf
<1>10. ReportEndsTheTurn
  BY <1>1 DEF Reporting, ReportEndsTheTurn
<1> QED BY <1>6, <1>7, <1>8, <1>9, <1>10 DEF EndingIsRight, EndsForTheRightReason

\* The invariant behind the ending: the counters are those of the results in the
\* thread, a turn that goes on is below its limits, and one that is over has
\* what its ending says.
THEOREM Ending == Spec => []EInv
<1>1. Init => EInv
  BY InitEInv
<1>2. EInv /\ [Next]_vars => EInv'
  BY StepSInv, StepCounted, StepEnding DEF EInv, CInv
<1> QED BY <1>1, <1>2, PTL DEF Spec

\* A turn goes on, or ends and says why, as its thread warrants: the counters
\* of failures and refusals agree with the answers in it over calls of any
\* tools in any order, the tool it is said to be stuck on is the last to have
\* failed, and an agent's report is final.
THEOREM EndsRightly == Spec => []EndingIsRight
BY Ending, EInvImplies, PTL

-----------------------------------------------------------------------------
(* Self evolution.                                                           *)

\* The writes still to make, as a set: their order is that of their kinds, and
\* there is one of each.
Elems(q) == {q[i] : i \in DOMAIN q}
Ops      == Elems(todo)

Place(op) ==
    IF op = "log" THEN 1 ELSE IF op = "write" THEN 2
    ELSE IF op \in {"slot", "clear"} THEN 3 ELSE IF op = "restore" THEN 4
    ELSE IF op = "hwm" THEN 5 ELSE IF op \in {"save", "show"} THEN 6 ELSE 7

Rising(q) == \A i, j \in DOMAIN q : i < j => Place(q[i].op) < Place(q[j].op)

Events ==
    {"adopt", "reject", "kill", "expire", "edit", "candidate", "counter", "repair",
     "slot_after_adopt", "error", "no_change"}

Writes ==
    [op : {"log"}, kind : Events, text : Fit \union {Absent}]
    \union [op : {"slot"}, slot : Slots, new : BOOLEAN]
    \union [op : {"clear"}, owes : BOOLEAN]
    \union [op : {"restore"}, text : Fit \union {Absent}]
    \union [op : {"write", "show"}, text : Fit]
    \union [op : {"hwm"}, to : 0..MaxPins, final : BOOLEAN]
    \union [op : {"save", "latch"}]

Decisions == {"adopt", "reject", "slot_after_adopt"}

Logs(x, kinds) == x.op = "log" /\ x.kind \in kinds
Touches(x)     == x.op \in {"slot", "clear"}
HasOp(op)      == \E x \in Ops : x.op = op

\* What a slot may be, beyond the types of its fields.
Sound(s) ==
    /\ s \in Slots
    /\ s.fallback # Absent => s.kind = "counter"
    /\ s.status = "awaiting_skeptic" => s.kind = "external" \/ s.fallback # Absent
    /\ s.kind = "external" => s.hwm = Absent
    /\ s.fallback # Absent => (s.fallback.kind = "external" => s.hwm = Absent)

\* Types, of the writes as well.
TidyList == todo \in Seq(Writes) /\ Rising(todo)

SoundSlots ==
    /\ slot # Absent => Sound(slot)
    /\ \A x \in Ops : x.op = "slot" => Sound(x.slot)

TypedRest ==
    /\ \A x \in Ops : Logs(x, {"candidate", "counter"}) => x.text # Absent
    /\ trigger \in Passes \union {Absent}
    /\ edited \in BOOLEAN /\ hurt \in BOOLEAN /\ glued \in BOOLEAN
    /\ decided \in Nat /\ owed \in {"no", "owed", "lost"}
    /\ passed \subseteq Fit

Typed == EvolutionTypeOK /\ TidyList /\ SoundSlots /\ TypedRest

\* In the prelude of a turn there are the tripwire's writes only.
InPrelude ==
    turn = "prelude" =>
        /\ seen = Absent
        /\ Ops = {} \/ by = "turn"
        /\ \A x \in Ops : Logs(x, {"edit", "repair"}) \/ x.op \in {"slot", "restore"}

\* What a pass has read stays true while it waits for the model.
StillJudges ==
    Judging =>
        /\ slot = trigger.slot /\ slot.status = "awaiting_skeptic"
        /\ trigger.old = hist.adopt
        /\ \A x \in Ops : ~Touches(x) /\ ~Logs(x, {"adopt"})

StillKeeps ==
    Keeping =>
        /\ slot = Absent \/ slot.hwm = Absent
        /\ trigger.hwm = hwm /\ hwm <= trigger.upto /\ saved <= trigger.upto
        /\ trigger.upto <= hist.pins
        /\ ~HasOp("hwm")
        /\ \A x \in Ops : x.op = "slot" => x.slot.hwm = Absent

\* Each text on its way into the slot has a birth line, or is about to.
OnRecord(s) ==
    s.text \in hist.born /\ (s.fallback # Absent => s.fallback.text \in hist.born)

Born ==
    /\ hist.edit # Absent => hist.edit \in hist.born
    /\ ~glued =>
         /\ slot # Absent => OnRecord(slot)
         /\ \A x \in Ops : x.op = "slot" =>
              /\ \/ x.slot.text \in hist.born
                 \/ \E y \in Ops : /\ Logs(y, {"edit", "candidate", "counter"})
                                   /\ y.text = x.slot.text
              /\ x.slot.fallback # Absent => x.slot.fallback.text \in hist.born

\* The file is the text in force, or a slot is pending or about to be, or the
\* file is about to be written.
Mended ==
    \E x \in Ops : x.op \in {"restore", "write"} \/ Logs(x, {"slot_after_adopt"})

Held == (slot # Absent /\ ~HasOp("clear")) \/ HasOp("slot")

Follows ==
    /\ (~edited /\ (~hurt \/ turn = "prelude")) => file = hist.adopt \/ Mended \/ Held
    /\ \A x \in Ops :
         /\ x.op = "restore" => x.text = hist.adopt /\ \A y \in Ops : ~Logs(y, {"adopt"})
         /\ x.op = "write" =>
              \/ hurt \/ x.text = hist.adopt
              \/ \E y \in Ops : Logs(y, {"adopt"}) /\ y.text = x.text
         /\ Logs(x, {"adopt"}) => \E y \in Ops : y.op = "write" /\ y.text = x.text

\* Evidence: what is behind the slot, and where the marks are.
Backed == slot # Absent /\ slot.hwm # Absent
Good   == owed # "lost"

Evidence ==
    /\ slot # Absent => (slot.hwm # Absent => slot.hwm <= hist.pins)
    /\ Good => (Backed => slot.hwm <= decided)
    /\ owed = "no" => saved <= hwm /\ (hwm <= decided \/ Backed)
    /\ owed = "owed" => hwm <= decided \/ Backed \/ HasOp("hwm")

Committing ==
    /\ \A x \in Ops : x.op = "slot" =>
         /\ x.slot.hwm # Absent => x.slot.hwm <= hist.pins
         /\ ~x.new => slot # Absent /\ x.slot.hwm = slot.hwm
         /\ x.new => /\ slot = Absent
                     /\ Good => (x.slot.hwm # Absent => x.slot.hwm <= decided)
    /\ \A x \in Ops : x.op = "clear" =>
         /\ x.owes => HasOp("hwm")
         /\ (~x.owes /\ Backed) =>
              \/ \E y \in Ops : Logs(y, Decisions)
              \/ hwm <= decided
    /\ \A x \in Ops : x.op = "hwm" =>
         /\ x.to <= hist.pins
         /\ x.final => /\ ~Backed /\ saved <= x.to
                       /\ \A y \in Ops : ~Touches(y)
         /\ (~x.final /\ Good) =>
              \/ x.to <= decided
              \/ /\ Backed \/ \E y \in Ops : y.op = "slot" /\ y.slot.hwm # Absent
                 /\ ~HasOp("clear")
         /\ (~x.final /\ owed = "no") =>
              saved <= x.to \/ \E y \in Ops : y.op = "clear" /\ y.owes
    /\ \A x \in Ops : Logs(x, Decisions) => \A y \in Ops : y.op \notin {"slot", "hwm"}

\* What she may adopt has passed a skeptic.
Passed(s) ==
    /\ s.status = "awaiting_doll" => s.text \in passed
    /\ s.fallback # Absent => s.fallback.text \in passed

Reviewed ==
    /\ slot # Absent => Passed(slot)
    /\ \A x \in Ops : x.op = "slot" /\ ~x.new => Passed(x.slot)
    /\ \A x \in Ops : x.op = "slot" /\ x.new =>
         /\ x.slot.fallback = Absent
         /\ x.slot.kind = "keeper" \/ x.slot.status = "awaiting_skeptic"
    /\ \A x \in Ops : Logs(x, {"adopt"}) =>
         x.text \in passed /\ seen # Absent /\ (x.text = seen \/ hurt)

\* What she was shown is what is pending, until she decides.
InSight ==
    /\ (seen # Absent /\ ~hurt /\ ~latched /\ ~HasOp("latch")) =>
         /\ slot # Absent /\ slot.status = "awaiting_doll" /\ slot.text = seen
         /\ \A x \in Ops : ~Touches(x)
    /\ \A x \in Ops : x.op = "show" =>
         \/ slot # Absent /\ slot.status = "awaiting_doll" /\ slot.text = x.text
            /\ \A y \in Ops : y = x
         \/ \E y \in Ops : /\ y.op = "slot" /\ y.slot.status = "awaiting_doll"
                           /\ y.slot.text = x.text /\ \A z \in Ops : z \in {x, y}

IInv == /\ Typed /\ InPrelude /\ StillJudges /\ StillKeeps /\ Born /\ Follows
        /\ Evidence /\ Committing /\ Reviewed /\ InSight

-----------------------------------------------------------------------------
(* Lists of writes.                                                         *)

LEMMA TailIs ==
  ASSUME NEW q \in Seq(Writes), q # <<>>, Rising(q)
  PROVE  /\ Tail(q) \in Seq(Writes) /\ Rising(Tail(q))
         /\ Head(q) \in Elems(q) /\ Head(q) \in Writes
         /\ \A x \in Elems(Tail(q)) : x \in Elems(q) /\ Place(Head(q).op) < Place(x.op)
         /\ \A x \in Elems(q) : x = Head(q) \/ x \in Elems(Tail(q))
<1>1. /\ Tail(q) \in Seq(Writes) /\ Len(Tail(q)) = Len(q) - 1 /\ Len(q) \in Nat \ {0}
      /\ Head(q) = q[1] /\ 1 \in DOMAIN q /\ q[1] \in Writes
      /\ \A i \in 1..(Len(q) - 1) : Tail(q)[i] = q[i + 1]
      /\ DOMAIN q = 1..Len(q) /\ DOMAIN Tail(q) = 1..(Len(q) - 1)
  OBVIOUS
<1>2. Rising(Tail(q))
  BY <1>1 DEF Rising
<1>3. \A x \in Elems(Tail(q)) : x \in Elems(q) /\ Place(Head(q).op) < Place(x.op)
  <2> SUFFICES ASSUME NEW i \in DOMAIN Tail(q)
               PROVE  Tail(q)[i] \in Elems(q) /\ Place(Head(q).op) < Place(Tail(q)[i].op)
    BY DEF Elems
  <2>1. i + 1 \in DOMAIN q /\ Tail(q)[i] = q[i + 1] /\ 1 < i + 1
    BY <1>1
  <2> QED BY <2>1, <1>1 DEF Elems, Rising
<1>4. \A x \in Elems(q) : x = Head(q) \/ x \in Elems(Tail(q))
  <2> SUFFICES ASSUME NEW i \in DOMAIN q, i # 1 PROVE q[i] \in Elems(Tail(q))
    BY <1>1 DEF Elems
  <2>1. i - 1 \in DOMAIN Tail(q) /\ Tail(q)[i - 1] = q[i]
    BY <1>1
  <2> QED BY <2>1 DEF Elems
<1> QED BY <1>1, <1>2, <1>3, <1>4 DEF Elems

LEMMA EmptyIs == <<>> \in Seq(Writes) /\ Rising(<<>>) /\ Elems(<<>>) = {}
BY DEF Rising, Elems

LEMMA EmptyOps == ASSUME todo \in Seq(Writes) PROVE todo = <<>> <=> Ops = {}
<1>1. todo = <<>> => Ops = {}
  BY DEF Ops, Elems
<1>2. ASSUME todo # <<>> PROVE todo[1] \in Ops
  <2>1. 1 \in DOMAIN todo
    BY <1>2
  <2> QED BY <2>1 DEF Ops, Elems
<1> QED BY <1>1, <1>2

LEMMA OneIs ==
  ASSUME NEW a \in Writes
  PROVE  <<a>> \in Seq(Writes) /\ Rising(<<a>>) /\ Elems(<<a>>) = {a}
BY DEF Rising, Elems

LEMMA TwoIs ==
  ASSUME NEW a \in Writes, NEW b \in Writes, Place(a.op) < Place(b.op)
  PROVE  <<a, b>> \in Seq(Writes) /\ Rising(<<a, b>>) /\ Elems(<<a, b>>) = {a, b}
<1> DEFINE q == <<a, b>>
<1>1. q \in Seq(Writes) /\ DOMAIN q = {1, 2} /\ q[1] = a /\ q[2] = b
  OBVIOUS
<1> QED BY <1>1 DEF Rising, Elems

LEMMA ThreeIs ==
  ASSUME NEW a \in Writes, NEW b \in Writes, NEW c \in Writes,
         Place(a.op) < Place(b.op), Place(b.op) < Place(c.op)
  PROVE  LET q == <<a, b, c>> IN
         q \in Seq(Writes) /\ Rising(q) /\ Elems(q) = {a, b, c}
<1> DEFINE q == <<a, b, c>>
<1>1. q \in Seq(Writes) /\ DOMAIN q = {1, 2, 3} /\ q[1] = a /\ q[2] = b /\ q[3] = c
  OBVIOUS
<1>2. Place(a.op) \in Nat /\ Place(b.op) \in Nat /\ Place(c.op) \in Nat
  BY DEF Place
<1> QED BY <1>1, <1>2 DEF Rising, Elems

LEMMA FourIs ==
  ASSUME NEW a \in Writes, NEW b \in Writes, NEW c \in Writes, NEW d \in Writes,
         Place(a.op) < Place(b.op), Place(b.op) < Place(c.op), Place(c.op) < Place(d.op)
  PROVE  LET q == <<a, b, c, d>> IN
         q \in Seq(Writes) /\ Rising(q) /\ Elems(q) = {a, b, c, d}
<1> DEFINE q == <<a, b, c, d>>
<1>1. q \in Seq(Writes) /\ DOMAIN q = {1, 2, 3, 4}
      /\ q[1] = a /\ q[2] = b /\ q[3] = c /\ q[4] = d
  OBVIOUS
<1>2. /\ Place(a.op) \in Nat /\ Place(b.op) \in Nat
      /\ Place(c.op) \in Nat /\ Place(d.op) \in Nat
  BY DEF Place
<1> QED BY <1>1, <1>2 DEF Rising, Elems

LEMMA FiveIs ==
  ASSUME NEW a \in Writes, NEW b \in Writes, NEW c \in Writes, NEW d \in Writes,
         NEW e \in Writes,
         Place(a.op) < Place(b.op), Place(b.op) < Place(c.op), Place(c.op) < Place(d.op),
         Place(d.op) < Place(e.op)
  PROVE  LET q == <<a, b, c, d, e>> IN
         q \in Seq(Writes) /\ Rising(q) /\ Elems(q) = {a, b, c, d, e}
<1> DEFINE q == <<a, b, c, d, e>>
<1>1. q \in Seq(Writes) /\ DOMAIN q = {1, 2, 3, 4, 5}
      /\ q[1] = a /\ q[2] = b /\ q[3] = c /\ q[4] = d /\ q[5] = e
  OBVIOUS
<1>2. /\ Place(a.op) \in Nat /\ Place(b.op) \in Nat /\ Place(c.op) \in Nat
      /\ Place(d.op) \in Nat /\ Place(e.op) \in Nat
  BY DEF Place
<1> QED BY <1>1, <1>2 DEF Rising, Elems

\* The writes, by their constructors.
LEMMA EventIs ==
  ASSUME NEW k \in Events, NEW t \in Fit \union {Absent}
  PROVE  /\ LogEvent(k, t) \in Writes /\ LogEvent(k, t).op = "log"
         /\ LogEvent(k, t).kind = k /\ LogEvent(k, t).text = t
BY DEF LogEvent, Writes

LEMMA SlotIs ==
  ASSUME NEW s \in Slots
  PROVE  /\ Save(s) \in Writes /\ Save(s).op = "slot" /\ Save(s).slot = s /\ ~Save(s).new
         /\ Birth(s) \in Writes /\ Birth(s).op = "slot" /\ Birth(s).slot = s /\ Birth(s).new
BY DEF Save, Birth, Writes

LEMMA ClearIs ==
  /\ Clear \in Writes /\ Clear.op = "clear" /\ ~Clear.owes
  /\ \A s : /\ ClearExpired(s) \in Writes /\ ClearExpired(s).op = "clear"
            /\ ClearExpired(s).owes <=> s.hwm # Absent
BY DEF Clear, ClearExpired, Writes

LEMMA TextIs ==
  /\ \A t \in Fit \union {Absent} :
       Restore(t) \in Writes /\ Restore(t).op = "restore" /\ Restore(t).text = t
  /\ \A t \in Fit : /\ Write(t) \in Writes /\ Write(t).op = "write" /\ Write(t).text = t
                    /\ Show(t) \in Writes /\ Show(t).op = "show" /\ Show(t).text = t
BY DEF Restore, Write, Show, Writes

LEMMA MarkIs ==
  /\ \A n \in 0..MaxPins, f \in BOOLEAN :
       /\ Hwm(n, f) \in Writes /\ Hwm(n, f).op = "hwm"
       /\ Hwm(n, f).to = n /\ Hwm(n, f).final = f
  /\ SaveState \in Writes /\ SaveState.op = "save"
  /\ Latch \in Writes /\ Latch.op = "latch"
BY DEF Hwm, SaveState, Latch, Writes

\* And by their kinds.
LEMMA WriteIs ==
  ASSUME NEW x \in Writes
  PROVE  /\ x.op \in {"log", "slot", "clear", "restore", "write", "show", "hwm", "save", "latch"}
         /\ x.op = "log" => x.kind \in Events /\ x.text \in Fit \union {Absent}
         /\ x.op = "slot" => x.slot \in Slots /\ x.new \in BOOLEAN
         /\ x.op = "clear" => x.owes \in BOOLEAN
         /\ x.op = "restore" => x.text \in Fit \union {Absent}
         /\ x.op \in {"write", "show"} => x.text \in Fit
         /\ x.op = "hwm" => x.to \in 0..MaxPins /\ x.final \in BOOLEAN
<1>1. CASE x \in [op : {"log"}, kind : Events, text : Fit \union {Absent}]
  BY <1>1
<1>2. CASE x \in [op : {"slot"}, slot : Slots, new : BOOLEAN]
  BY <1>2
<1>3. CASE x \in [op : {"clear"}, owes : BOOLEAN]
  BY <1>3
<1>4. CASE x \in [op : {"restore"}, text : Fit \union {Absent}]
  BY <1>4
<1>5. CASE x \in [op : {"write", "show"}, text : Fit]
  BY <1>5
<1>6. CASE x \in [op : {"hwm"}, to : 0..MaxPins, final : BOOLEAN]
  BY <1>6
<1>7. CASE x \in [op : {"save", "latch"}]
  BY <1>7
<1> QED BY <1>1, <1>2, <1>3, <1>4, <1>5, <1>6, <1>7 DEF Writes

-----------------------------------------------------------------------------
(* One write of the list.                                                   *)

\* What Done leaves of the list: all but its head, which is gone for good.
LEMMA DoneIs ==
  ASSUME Typed, todo # <<>>, Done
  PROVE  /\ todo' \in Seq(Writes) /\ Rising(todo') /\ by' \in {by, "none"} /\ faults' = faults
         /\ Head(todo) \in Ops /\ Head(todo) \in Writes
         /\ \A x \in Ops' : x \in Ops /\ Place(Head(todo).op) < Place(x.op)
         /\ \A x \in Ops : x = Head(todo) \/ x \in Ops'
         /\ Ops' # {} => by' = by
<1>1. /\ todo' = Tail(todo) /\ by' = IF Tail(todo) = <<>> THEN "none" ELSE by
      /\ faults' = faults
  BY DEF Done, Left
<1>2. todo \in Seq(Writes) /\ Rising(todo)
  BY DEF Typed, TidyList
<1>3. Ops' = Elems(Tail(todo))
  BY <1>1 DEF Ops
<1>4. Ops' # {} => Tail(todo) # <<>>
  BY <1>3, EmptyIs
<1> QED BY <1>1, <1>2, <1>3, <1>4, TailIs DEF Ops

LEMMA OneWrite ==
  ASSUME Typed, NEW x \in Ops, NEW y \in Ops, Place(x.op) = Place(y.op) PROVE x = y
<1>1. PICK i \in DOMAIN todo : x = todo[i]
  BY DEF Ops, Elems
<1>2. PICK j \in DOMAIN todo : y = todo[j]
  BY DEF Ops, Elems
<1>3. i \in Nat /\ j \in Nat /\ Rising(todo)
  BY DEF Typed, TidyList
<1>4. \A o : Place(o) \in Nat
  BY DEF Place
<1>5. ~(i < j) /\ ~(j < i)
  BY <1>1, <1>2, <1>3, <1>4 DEF Rising
<1> QED BY <1>1, <1>2, <1>3, <1>5

LEMMA MarksAreNat ==
  ASSUME Typed
  PROVE  /\ slot # Absent => (slot.hwm # Absent => slot.hwm \in Nat)
         /\ \A x \in Ops : x.op = "slot" => (x.slot.hwm # Absent => x.slot.hwm \in Nat)
         /\ \A x \in Ops : x.op = "hwm" => x.to \in Nat
         /\ hwm \in Nat /\ saved \in Nat /\ decided \in Nat /\ hist.pins \in Nat
<1>1. \A s \in Slots : s.hwm # Absent => s.hwm \in Nat
  BY DEF Slots
<1>2. \A x \in Ops : x \in Writes
  BY DEF Typed, TidyList, Ops, Elems
<1>3. \A x \in Ops : x.op = "hwm" => x.to \in Nat
  BY <1>2, WriteIs
<1> QED BY <1>1, <1>3 DEF Typed, SoundSlots, TypedRest, Sound, EvolutionTypeOK

LEMMA RecordedIs ==
  ASSUME Typed, NEW k \in Events, NEW t \in Fit \union {Absent},
         k \in {"candidate", "counter"} => t # Absent,
         NEW r, r = Recorded(k, t)
  PROVE  /\ r \in [adopt : Fit \union {Absent}, old : Fit \union {Absent},
                   edit : Fit \union {Absent}, born : SUBSET Fit, pins : 0..MaxPins]
         /\ r.pins = hist.pins /\ hist.born \subseteq r.born
         /\ k \in {"edit", "candidate", "counter"} /\ t # Absent => t \in r.born
         /\ r.adopt = IF k = "adopt" THEN t ELSE hist.adopt
         /\ r.edit \in {hist.edit, Absent} \union r.born
<1>1. hist \in [adopt : Fit \union {Absent}, old : Fit \union {Absent},
                edit : Fit \union {Absent}, born : SUBSET Fit, pins : 0..MaxPins]
  BY DEF Typed, EvolutionTypeOK
<1>2. CASE k = "adopt"
  <2>1. r = [hist EXCEPT !.adopt = t, !.old = hist.adopt, !.edit = Absent]
    BY <1>2 DEF Recorded
  <2> QED BY <2>1, <1>1, <1>2
<1>3. CASE k \in {"reject", "kill", "expire"}
  <2>1. r = [hist EXCEPT !.edit = Absent]
    BY <1>3 DEF Recorded
  <2> QED BY <2>1, <1>1, <1>3
<1>4. CASE k = "edit" /\ t # Absent
  <2>1. r = [hist EXCEPT !.edit = t, !.born = @ \union {t}]
    BY <1>4 DEF Recorded
  <2>2. r = [adopt |-> hist.adopt, old |-> hist.old, edit |-> t,
             born |-> hist.born \union {t}, pins |-> hist.pins]
    BY <2>1, <1>1
  <2>3. t \in Fit
    BY <1>4
  <2> QED BY <2>2, <2>3, <1>1, <1>4
<1>5. CASE k \in {"candidate", "counter"}
  <2>1. r = [hist EXCEPT !.born = @ \union {t}]
    BY <1>5 DEF Recorded
  <2> QED BY <2>1, <1>1, <1>5
<1>6. CASE \/ k \in {"repair", "slot_after_adopt", "error", "no_change"}
           \/ k = "edit" /\ t = Absent
  <2>1. r = hist
    BY <1>6 DEF Recorded
  <2> QED BY <2>1, <1>1, <1>6
<1> QED BY <1>2, <1>3, <1>4, <1>5, <1>6 DEF Events

LEMMA LogKeeps == IInv /\ WriteLog => IInv'
<1> SUFFICES ASSUME IInv, WriteLog PROVE IInv'
  OBVIOUS
<1> DEFINE h == Head(todo)
<1>1. /\ Typed /\ todo # <<>> /\ Done /\ h.op = "log"
      /\ UNCHANGED <<file, slot, saved, hwm, turn, seen, latched, trigger, passed, edited>>
      /\ torn' = FALSE /\ glued' = (glued \/ torn)
      /\ hurt' = (hurt \/ torn \/ h.kind = "slot_after_adopt")
      /\ hist' = IF torn THEN hist ELSE Recorded(h.kind, h.text)
  BY DEF WriteLog, IInv, Doing, memory
<1>2. /\ todo' \in Seq(Writes) /\ Rising(todo') /\ by' \in {by, "none"} /\ faults' = faults
      /\ h \in Ops /\ h \in Writes
      /\ \A x \in Ops' : x \in Ops /\ x.op # "log"
      /\ \A x \in Ops : x = h \/ x \in Ops'
      /\ Ops' # {} => by' = by
  BY <1>1, DoneIs DEF Place
<1>3. /\ h.kind \in Events /\ h.text \in Fit \union {Absent}
      /\ h.kind \in {"candidate", "counter"} => h.text # Absent
  BY <1>1, <1>2, WriteIs DEF Typed, TypedRest, Logs
<1>4. /\ hist' \in [adopt : Fit \union {Absent}, old : Fit \union {Absent},
                    edit : Fit \union {Absent}, born : SUBSET Fit, pins : 0..MaxPins]
      /\ hist'.pins = hist.pins /\ hist.born \subseteq hist'.born
      /\ ~torn /\ h.kind \in {"edit", "candidate", "counter"} /\ h.text # Absent => h.text \in hist'.born
      /\ hist'.adopt = IF h.kind = "adopt" /\ ~torn THEN h.text ELSE hist.adopt
      /\ hist'.edit \in {hist.edit, Absent} \union hist'.born
  <2>1. CASE torn
    BY <2>1, <1>1 DEF Typed, EvolutionTypeOK
  <2>2. CASE ~torn
    BY <2>2, <1>1, <1>3, RecordedIs
  <2> QED BY <2>1, <2>2
<1>5. /\ decided' \in Nat /\ decided' >= decided /\ owed' \in {"no", owed}
      /\ h.kind \in {"adopt", "reject", "slot_after_adopt"} =>
           /\ hwm <= decided'
           /\ owed' # owed => saved <= hwm /\ (Backed => slot.hwm <= decided')
      /\ h.kind \notin {"adopt", "reject", "slot_after_adopt"} => UNCHANGED <<decided, owed>>
  <2>1. decided \in Nat /\ hwm \in Nat /\ saved \in Nat /\ owed \in {"no", "owed", "lost"}
    BY <1>1 DEF Typed, TypedRest, EvolutionTypeOK
  <2>2. CASE h.kind \in {"adopt", "reject", "slot_after_adopt"}
    <3>1. Settle(hwm, saved <= hwm)
      BY <2>2 DEF WriteLog
    <3> QED BY <2>1, <2>2, <3>1 DEF Settle, Backed
  <2>3. CASE h.kind \notin {"adopt", "reject", "slot_after_adopt"}
    <3>1. UNCHANGED <<decided, owed>>
      BY <2>3 DEF WriteLog
    <3> QED BY <2>1, <2>3, <3>1
  <2> QED BY <2>2, <2>3
<1> HIDE DEF h
<1>6. Typed'
  <2>1. EvolutionTypeOK'
    BY <1>1, <1>2, <1>4, ZenonT(60) DEF Typed, EvolutionTypeOK
  <2>2. SoundSlots'
    BY <1>1, <1>2 DEF Typed, SoundSlots, Sound
  <2>3. TypedRest'
    BY <1>1, <1>2, <1>5 DEF Typed, TypedRest, Logs
  <2>4. TidyList'
    BY <1>2 DEF TidyList
  <2> QED BY <2>1, <2>2, <2>3, <2>4 DEF Typed
<1>7. InPrelude'
  BY <1>1, <1>2 DEF IInv, InPrelude, Logs
<1>8. StillJudges'
  BY <1>1, <1>2, <1>4 DEF IInv, StillJudges, Judging, Touches, Logs
<1>9. StillKeeps'
  BY <1>1, <1>2, <1>4 DEF IInv, StillKeeps, Keeping, HasOp
<1>10. Born'
  <2>1. ~glued' => ~glued /\ ~torn
    BY <1>1
  <2>2. hist'.edit # Absent => hist'.edit \in hist'.born
    BY <1>4 DEF IInv, Born
  <2>3. ~glued' => (slot' # Absent => OnRecord(slot)')
    BY <1>1, <1>4, <2>1 DEF IInv, Born, OnRecord
  <2>4. ASSUME ~glued', NEW x \in Ops', x.op = "slot"
        PROVE  x.slot.text \in hist'.born
    <3>1. x \in Ops /\ x.slot.text # Absent
      <4>1. x \in Ops /\ x.slot \in Slots
        BY <1>1, <1>2, <2>4 DEF Typed, SoundSlots, Sound
      <4> QED BY <4>1, EvolutionAssumption DEF Slots
    <3>2. \/ x.slot.text \in hist.born
          \/ \E y \in Ops : /\ Logs(y, {"edit", "candidate", "counter"})
                            /\ y.text = x.slot.text
      BY <2>1, <2>4, <3>1 DEF IInv, Born
    <3> QED BY <1>2, <1>4, <2>1, <2>4, <3>1, <3>2 DEF Logs
  <2>5. ASSUME ~glued', NEW x \in Ops', x.op = "slot", x.slot.fallback # Absent
        PROVE  x.slot.fallback.text \in hist'.born
    BY <1>2, <1>4, <2>1, <2>5 DEF IInv, Born
  <2> QED BY <2>4, <2>5, <2>2, <2>3 DEF Born
<1>11. Follows'
  <2>1. ASSUME ~edited', ~hurt' \/ turn' = "prelude"
        PROVE  file' = hist'.adopt \/ Mended' \/ Held'
    <3>1. /\ file = hist.adopt \/ Mended \/ Held
          /\ ~edited /\ ~(h.kind = "slot_after_adopt")
      BY <1>1, <1>2, <2>1 DEF IInv, Follows, InPrelude, Logs
    <3>2. Held => Held'
      BY <1>1, <1>2 DEF Held, HasOp
    <3>3. Mended => Mended'
      BY <1>1, <1>2, <3>1 DEF Mended, Logs
    <3>4. hist'.adopt = hist.adopt \/ Mended'
      <4>1. CASE h.kind = "adopt"
        <5>1. \E y \in Ops : y.op = "write"
          BY <1>1, <1>2, <4>1 DEF IInv, Follows, Logs
        <5> QED BY <1>1, <1>2, <5>1 DEF Mended
      <4> QED BY <4>1, <1>4
    <3> QED BY <1>1, <3>1, <3>2, <3>3, <3>4
  <2>2. ASSUME NEW x \in Ops', x.op = "restore"
        PROVE  x.text = hist'.adopt /\ \A y \in Ops' : ~Logs(y, {"adopt"})
    BY <1>1, <1>2, <1>4, <2>2 DEF IInv, Follows, Logs
  <2>3. ASSUME NEW x \in Ops', x.op = "write"
        PROVE  hurt' \/ x.text = hist'.adopt
    <3>1. \/ hurt \/ x.text = hist.adopt
          \/ \E y \in Ops : Logs(y, {"adopt"}) /\ y.text = x.text
      BY <1>2, <2>3 DEF IInv, Follows
    <3>2. ASSUME NEW y \in Ops, Logs(y, {"adopt"}) PROVE y = h /\ h.kind = "adopt"
      BY <1>2, <3>2 DEF Logs
    <3>3. CASE h.kind = "adopt"
      <4>1. \E y \in Ops : y.op = "write" /\ y.text = h.text
        BY <1>1, <1>2, <3>3 DEF IInv, Follows, Logs
      <4>2. x.text = h.text
        BY <1>1, <1>2, <2>3, <4>1, OneWrite
      <4> QED BY <1>1, <1>4, <3>3, <4>2
    <3> QED BY <1>1, <1>4, <3>1, <3>2, <3>3
  <2>4. ASSUME NEW x \in Ops' PROVE ~Logs(x, {"adopt"})
    BY <1>2 DEF Logs
  <2> QED BY <2>1, <2>2, <2>3, <2>4 DEF Follows
<1>12. /\ slot # Absent => (slot.hwm # Absent => slot.hwm \in Nat)
       /\ \A x \in Ops : x.op = "slot" => (x.slot.hwm # Absent => x.slot.hwm \in Nat)
       /\ \A x \in Ops : x.op = "hwm" => x.to \in Nat
       /\ hwm \in Nat /\ saved \in Nat /\ decided \in Nat /\ hist.pins \in Nat
  BY <1>1, MarksAreNat
<1>13. Evidence'
  <2>1. Backed' <=> Backed
    BY <1>1 DEF Backed
  <2>2. Good' => (Backed' => slot'.hwm <= decided')
    BY <1>1, <1>5, <1>12, <2>1 DEF IInv, Evidence, Good, Backed
  <2>3. owed' = "no" => saved' <= hwm' /\ (hwm' <= decided' \/ Backed')
    BY <1>1, <1>5, <1>12, <2>1 DEF IInv, Evidence
  <2>4. owed' = "owed" => hwm' <= decided' \/ Backed' \/ HasOp("hwm")'
    BY <1>1, <1>2, <1>5, <1>12, <2>1 DEF IInv, Evidence, HasOp
  <2>5. slot' # Absent => (slot'.hwm # Absent => slot'.hwm <= hist'.pins)
    BY <1>1, <1>4 DEF IInv, Evidence
  <2> QED BY <2>2, <2>3, <2>4, <2>5 DEF Evidence
<1>14. Committing'
  <2>1. /\ Backed' <=> Backed
        /\ Good' => Good \/ h.kind \in Decisions
        /\ h.kind \in Decisions => hwm' <= decided' /\ \A x \in Ops' : x.op \notin {"slot", "hwm"}
        /\ h.kind \notin Decisions => owed' = owed
    BY <1>1, <1>2, <1>5 DEF IInv, Committing, Backed, Good, Logs, Decisions
  <2>2. ASSUME NEW x \in Ops', x.op = "slot"
        PROVE  /\ x.slot.hwm # Absent => x.slot.hwm <= hist'.pins
               /\ ~x.new => slot' # Absent /\ x.slot.hwm = slot'.hwm
               /\ x.new => /\ slot' = Absent
                           /\ Good' => (x.slot.hwm # Absent => x.slot.hwm <= decided')
    BY <1>1, <1>2, <1>4, <1>5, <1>12, <2>1, <2>2 DEF IInv, Committing
  <2>3. ASSUME NEW x \in Ops', x.op = "clear"
        PROVE  /\ x.owes => HasOp("hwm")'
               /\ (~x.owes /\ Backed') => hwm' <= decided'
    <3>1. x.owes => HasOp("hwm")'
      BY <1>1, <1>2, <2>3 DEF IInv, Committing, HasOp
    <3>2. ASSUME ~x.owes, Backed PROVE hwm <= decided \/ h.kind \in Decisions
      BY <1>2, <2>3, <3>2 DEF IInv, Committing, Logs
    <3> QED BY <1>1, <1>5, <1>12, <2>1, <3>1, <3>2
  <2>4. ASSUME NEW x \in Ops', x.op = "hwm"
        PROVE  /\ x.to <= hist'.pins
               /\ x.final => /\ ~Backed' /\ saved' <= x.to
                             /\ \A y \in Ops' : ~Touches(y)
               /\ (~x.final /\ Good') =>
                    \/ x.to <= decided'
                    \/ /\ Backed' \/ \E y \in Ops' : y.op = "slot" /\ y.slot.hwm # Absent
                       /\ ~HasOp("clear")'
               /\ (~x.final /\ owed' = "no") =>
                    saved' <= x.to \/ \E y \in Ops' : y.op = "clear" /\ y.owes
    <3>1. h.kind \notin Decisions
      BY <2>1, <2>4
    <3>2. Good' => Good
      BY <2>1, <3>1
    <3> QED BY <1>1, <1>2, <1>4, <1>5, <1>12, <2>1, <2>4, <3>1, <3>2
       DEF IInv, Committing, HasOp
  <2>5. ASSUME NEW x \in Ops' PROVE ~Logs(x, Decisions)
    BY <1>2 DEF Logs
  <2> QED BY <2>2, <2>3, <2>4, <2>5 DEF Committing
<1>15. Reviewed'
  BY <1>1, <1>2 DEF IInv, Reviewed, Passed, Logs
<1>16. InSight'
  BY <1>1, <1>2 DEF IInv, InSight, HasOp, Touches
<1> QED BY <1>6, <1>7, <1>8, <1>9, <1>10, <1>11, <1>13, <1>14, <1>15, <1>16 DEF IInv

LEMMA SlotKeeps == IInv /\ WriteSlot => IInv'
<1> SUFFICES ASSUME IInv, WriteSlot PROVE IInv'
  OBVIOUS
<1> DEFINE h == Head(todo)
<1>1. /\ Typed /\ todo # <<>> /\ Done /\ h.op = "slot" /\ slot' = h.slot
      /\ UNCHANGED <<hist, torn, file, saved, hwm, turn, seen, latched, trigger,
                     edited, hurt, glued, decided, owed>>
      /\ ~h.new => passed' = passed
      /\ h.new => passed' = IF h.slot.kind = "keeper" THEN {h.slot.text} ELSE {}
  BY DEF WriteSlot, IInv, Doing, memory, ghosts
<1>2. /\ todo' \in Seq(Writes) /\ Rising(todo') /\ by' \in {by, "none"} /\ faults' = faults
      /\ h \in Ops /\ h \in Writes
      /\ \A x \in Ops' : x \in Ops /\ x.op \notin {"log", "write", "slot", "clear"}
      /\ \A x \in Ops : x = h \/ x \in Ops'
      /\ Ops' # {} => by' = by
  BY <1>1, DoneIs DEF Place
<1>3. /\ slot # Absent => (slot.hwm # Absent => slot.hwm \in Nat)
      /\ \A x \in Ops : x.op = "slot" => (x.slot.hwm # Absent => x.slot.hwm \in Nat)
      /\ \A x \in Ops : x.op = "hwm" => x.to \in Nat
      /\ hwm \in Nat /\ saved \in Nat /\ decided \in Nat /\ hist.pins \in Nat
  BY <1>1, MarksAreNat
<1>4. /\ Sound(h.slot) /\ h.slot # Absent /\ h.slot.text \in Fit /\ h.new \in BOOLEAN
  <2>1. Sound(h.slot) /\ h.slot \in Slots /\ h.new \in BOOLEAN
    BY <1>1, <1>2, WriteIs DEF Typed, SoundSlots, Sound
  <2> QED BY <2>1, EvolutionAssumption DEF Slots
<1>5. \A x \in Ops : x = h \/ x.op \notin {"log", "write", "slot", "clear"}
  BY <1>2
<1> HIDE DEF h
<1>6. Typed'
  <2>1. EvolutionTypeOK'
    BY <1>1, <1>2, <1>4 DEF Typed, EvolutionTypeOK, Sound
  <2>2. TidyList'
    BY <1>2 DEF TidyList
  <2>3. SoundSlots'
    BY <1>1, <1>2, <1>4 DEF Typed, SoundSlots, Sound
  <2>4. TypedRest'
    BY <1>1, <1>2, <1>4 DEF Typed, TypedRest, Logs
  <2> QED BY <2>1, <2>2, <2>3, <2>4 DEF Typed
<1>7. InPrelude'
  BY <1>1, <1>2 DEF IInv, InPrelude, Logs
<1>8. StillJudges'
  BY <1>1, <1>2 DEF IInv, StillJudges, Judging, Touches, Logs
<1>9. StillKeeps'
  BY <1>1, <1>2 DEF IInv, StillKeeps, Keeping, HasOp
<1>10. Born'
  BY <1>1, <1>2, <1>4, <1>5 DEF IInv, Born, OnRecord, Logs
<1>11. Follows'
  BY <1>1, <1>2, <1>4, <1>5 DEF IInv, Follows, Mended, Held, HasOp, Logs
<1>12. Evidence'
  BY <1>1, <1>2, <1>3, <1>4 DEF IInv, Evidence, Committing, Good, Backed, HasOp
<1>13. Committing'
  BY <1>1, <1>2, <1>3, <1>4, <1>5
     DEF IInv, Committing, Good, Backed, HasOp, Logs, Touches, Decisions
<1>14. Reviewed'
  BY <1>1, <1>2, <1>4 DEF IInv, Reviewed, Passed, Logs, Typed, SoundSlots, Sound
<1>15. InSight'
  <2>1. ASSUME seen' # Absent, ~hurt', ~latched', ~HasOp("latch")' PROVE FALSE
    <3>1. ~HasOp("latch") /\ Touches(h)
      BY <1>1, <1>2, <2>1 DEF HasOp, Touches
    <3> QED BY <1>1, <1>2, <2>1, <3>1 DEF IInv, InSight
  <2>2. ASSUME NEW x \in Ops', x.op = "show"
        PROVE  /\ slot'.status = "awaiting_doll" /\ slot'.text = x.text
               /\ \A y \in Ops' : y = x
    <3>1. x \in Ops /\ x # h /\ h \in Ops
      BY <1>1, <1>2, <2>2
    <3>2. PICK y \in Ops : /\ y.op = "slot" /\ y.slot.status = "awaiting_doll"
                           /\ y.slot.text = x.text /\ \A z \in Ops : z \in {x, y}
      BY <2>2, <3>1 DEF IInv, InSight
    <3>3. y = h
      BY <3>1, <3>2
    <3> QED BY <1>1, <1>2, <3>2, <3>3
  <2> QED BY <1>1, <1>4, <2>1, <2>2 DEF InSight
<1> QED BY <1>6, <1>7, <1>8, <1>9, <1>10, <1>11, <1>12, <1>13, <1>14, <1>15 DEF IInv

LEMMA ClearKeeps == IInv /\ ClearSlot => IInv'
<1> SUFFICES ASSUME IInv, ClearSlot PROVE IInv'
  OBVIOUS
<1> DEFINE h == Head(todo)
<1>1. /\ Typed /\ todo # <<>> /\ Done /\ h.op = "clear" /\ slot' = Absent
      /\ passed' = {} /\ owed' = IF h.owes /\ owed = "no" THEN "owed" ELSE owed
      /\ UNCHANGED <<hist, torn, file, saved, hwm, turn, seen, latched, trigger,
                     edited, hurt, glued, decided>>
  BY DEF ClearSlot, IInv, Doing, memory, ghosts
<1>2. /\ todo' \in Seq(Writes) /\ Rising(todo') /\ by' \in {by, "none"} /\ faults' = faults
      /\ h \in Ops /\ h \in Writes
      /\ \A x \in Ops' : x \in Ops /\ x.op \notin {"log", "write", "slot", "clear"}
      /\ \A x \in Ops : x = h \/ x \in Ops'
      /\ Ops' # {} => by' = by
  BY <1>1, DoneIs DEF Place
<1>3. /\ slot # Absent => (slot.hwm # Absent => slot.hwm \in Nat)
      /\ \A x \in Ops : x.op = "slot" => (x.slot.hwm # Absent => x.slot.hwm \in Nat)
      /\ \A x \in Ops : x.op = "hwm" => x.to \in Nat
      /\ hwm \in Nat /\ saved \in Nat /\ decided \in Nat /\ hist.pins \in Nat
  BY <1>1, MarksAreNat
<1>4. owed \in {"no", "owed", "lost"} /\ h.owes \in BOOLEAN
  BY <1>1, <1>2, WriteIs DEF Typed, TypedRest
<1>5. \A x \in Ops : x = h \/ x.op \notin {"log", "write", "slot", "clear"}
  BY <1>2
<1> HIDE DEF h
<1>6. Typed'
  <2>1. EvolutionTypeOK'
    BY <1>1, <1>2 DEF Typed, EvolutionTypeOK
  <2>2. TidyList'
    BY <1>2 DEF TidyList
  <2>3. SoundSlots'
    BY <1>1, <1>2 DEF Typed, SoundSlots, Sound
  <2>4. TypedRest'
    BY <1>1, <1>2, <1>4 DEF Typed, TypedRest, Logs
  <2> QED BY <2>1, <2>2, <2>3, <2>4 DEF Typed
<1>7. InPrelude'
  BY <1>1, <1>2 DEF IInv, InPrelude, Logs
<1>8. StillJudges'
  BY <1>1, <1>2 DEF IInv, StillJudges, Judging, Touches, Logs
<1>9. StillKeeps'
  BY <1>1, <1>2 DEF IInv, StillKeeps, Keeping, HasOp
<1>10. Born'
  BY <1>1, <1>2 DEF IInv, Born, OnRecord, Logs
<1>11. Follows'
  BY <1>1, <1>2, <1>5 DEF IInv, Follows, Mended, Held, HasOp, Logs
<1>12. Evidence'
  BY <1>1, <1>2, <1>3, <1>4, <1>5
     DEF IInv, Evidence, Committing, Good, Backed, HasOp, Logs
<1>13. Committing'
  BY <1>1, <1>2, <1>3, <1>4, <1>5
     DEF IInv, Committing, Good, Backed, HasOp, Logs, Touches, Decisions
<1>14. Reviewed'
  BY <1>1, <1>2 DEF IInv, Reviewed, Passed, Logs
<1>15. InSight'
  BY <1>1, <1>2 DEF IInv, InSight, HasOp, Touches
<1> QED BY <1>6, <1>7, <1>8, <1>9, <1>10, <1>11, <1>12, <1>13, <1>14, <1>15 DEF IInv

LEMMA FileKeeps == IInv /\ WriteFile => IInv'
<1> SUFFICES ASSUME IInv, WriteFile PROVE IInv'
  OBVIOUS
<1> DEFINE h == Head(todo)
<1>1. /\ Typed /\ todo # <<>> /\ Done /\ h.op \in {"restore", "write"} /\ file' = h.text
      /\ UNCHANGED <<hist, torn, slot, saved, hwm, turn, seen, latched, trigger,
                     passed, edited, hurt, glued, decided, owed>>
  BY DEF WriteFile, IInv, Doing, memory, ghosts
<1>2. /\ todo' \in Seq(Writes) /\ Rising(todo') /\ by' \in {by, "none"} /\ faults' = faults
      /\ h \in Ops /\ h \in Writes
      /\ \A x \in Ops' : x \in Ops /\ x.op \notin {"log", "write"}
      /\ \A x \in Ops : x = h \/ x \in Ops'
      /\ Ops' # {} => by' = by
  BY <1>1, DoneIs DEF Place
<1>3. /\ slot # Absent => (slot.hwm # Absent => slot.hwm \in Nat)
      /\ \A x \in Ops : x.op = "slot" => (x.slot.hwm # Absent => x.slot.hwm \in Nat)
      /\ \A x \in Ops : x.op = "hwm" => x.to \in Nat
      /\ hwm \in Nat /\ saved \in Nat /\ decided \in Nat /\ hist.pins \in Nat
  BY <1>1, MarksAreNat
<1>4. h.text \in Texts \union {Absent}
  BY <1>1, <1>2, WriteIs, EvolutionAssumption
<1>5. \A x \in Ops : x = h \/ x.op \notin {"log", "write"}
  BY <1>2
<1> HIDE DEF h
<1>6. Typed'
  <2>1. EvolutionTypeOK'
    BY <1>1, <1>2, <1>4 DEF Typed, EvolutionTypeOK
  <2>2. TidyList'
    BY <1>2 DEF TidyList
  <2>3. SoundSlots'
    BY <1>1, <1>2 DEF Typed, SoundSlots, Sound
  <2>4. TypedRest'
    BY <1>1, <1>2 DEF Typed, TypedRest, Logs
  <2> QED BY <2>1, <2>2, <2>3, <2>4 DEF Typed
<1>7. InPrelude'
  BY <1>1, <1>2 DEF IInv, InPrelude, Logs
<1>8. StillJudges'
  BY <1>1, <1>2 DEF IInv, StillJudges, Judging, Touches, Logs
<1>9. StillKeeps'
  BY <1>1, <1>2 DEF IInv, StillKeeps, Keeping, HasOp
<1>10. Born'
  BY <1>1, <1>2 DEF IInv, Born, OnRecord, Logs
<1>11. Follows'
  BY <1>1, <1>2, <1>5 DEF IInv, InPrelude, Follows, Mended, Held, HasOp, Logs
<1>12. Evidence'
  BY <1>1, <1>2, <1>3 DEF IInv, Evidence, Good, Backed, HasOp
<1>13. Committing'
  BY <1>1, <1>2, <1>3
     DEF IInv, Committing, Good, Backed, HasOp, Logs, Touches, Decisions
<1>14. Reviewed'
  BY <1>1, <1>2 DEF IInv, Reviewed, Passed, Logs
<1>15. InSight'
  BY <1>1, <1>2 DEF IInv, InSight, HasOp, Touches
<1> QED BY <1>6, <1>7, <1>8, <1>9, <1>10, <1>11, <1>12, <1>13, <1>14, <1>15 DEF IInv

LEMMA MarkKeeps == IInv /\ MoveHwm => IInv'
<1> SUFFICES ASSUME IInv, MoveHwm PROVE IInv'
  OBVIOUS
<1> DEFINE h == Head(todo)
<1>1. /\ Typed /\ todo # <<>> /\ Done /\ h.op = "hwm" /\ hwm' = h.to
      /\ h.final => Settle(hwm', TRUE)
      /\ ~h.final => UNCHANGED <<decided, owed>>
      /\ UNCHANGED <<hist, torn, file, slot, saved, turn, seen, latched, trigger,
                     passed, edited, hurt, glued>>
  BY DEF MoveHwm, IInv, Doing, memory, ghosts
<1>2. /\ todo' \in Seq(Writes) /\ Rising(todo') /\ by' \in {by, "none"} /\ faults' = faults
      /\ h \in Ops /\ h \in Writes
      /\ \A x \in Ops' : x \in Ops /\ x.op \notin {"log", "write", "slot", "clear", "restore", "hwm"}
      /\ \A x \in Ops : x = h \/ x \in Ops'
      /\ Ops' # {} => by' = by
  BY <1>1, DoneIs DEF Place
<1>3. /\ slot # Absent => (slot.hwm # Absent => slot.hwm \in Nat)
      /\ \A x \in Ops : x.op = "slot" => (x.slot.hwm # Absent => x.slot.hwm \in Nat)
      /\ \A x \in Ops : x.op = "hwm" => x.to \in Nat
      /\ hwm \in Nat /\ saved \in Nat /\ decided \in Nat /\ hist.pins \in Nat
  BY <1>1, MarksAreNat
<1>4. h.to \in Nat /\ h.to <= hist.pins /\ h.final \in BOOLEAN
  BY <1>1, <1>2, <1>3, WriteIs DEF IInv, Committing
<1>5. \A x \in Ops : x = h \/ x.op \notin {"log", "write", "slot", "clear", "restore", "hwm"}
  BY <1>2
<1>6. ASSUME h.final
      PROVE  /\ ~Backed /\ saved <= hwm' /\ owed' = "no"
             /\ decided' \in Nat /\ decided' >= decided /\ hwm' <= decided'
  <2>1. ~Backed /\ saved <= hwm'
    BY <1>1, <1>2, <1>6 DEF IInv, Committing
  <2> QED BY <1>1, <1>3, <1>4, <1>6, <2>1 DEF Settle, Backed
<1>7. owed \in {"no", "owed", "lost"}
  BY <1>1 DEF Typed, TypedRest
<1> HIDE DEF h
<1>8. Typed'
  <2>1. EvolutionTypeOK'
    BY <1>1, <1>2, <1>3, <1>4 DEF Typed, EvolutionTypeOK
  <2>2. TidyList'
    BY <1>2 DEF TidyList
  <2>3. SoundSlots'
    BY <1>1, <1>2 DEF Typed, SoundSlots, Sound
  <2>4. TypedRest'
    BY <1>1, <1>2, <1>3, <1>4, <1>6, <1>7 DEF Typed, TypedRest, Logs
  <2> QED BY <2>1, <2>2, <2>3, <2>4 DEF Typed
<1>9. InPrelude'
  BY <1>1, <1>2 DEF IInv, InPrelude, Logs
<1>10. StillJudges'
  BY <1>1, <1>2 DEF IInv, StillJudges, Judging, Touches, Logs
<1>11. StillKeeps'
  BY <1>1, <1>2 DEF IInv, StillKeeps, Keeping, HasOp
<1>12. Born'
  BY <1>1, <1>2 DEF IInv, Born, OnRecord, Logs
<1>13. Follows'
  BY <1>1, <1>2 DEF IInv, Follows, Mended, Held, HasOp, Logs
<1>14. Evidence'
  BY <1>1, <1>2, <1>3, <1>4, <1>5, <1>6, <1>7
     DEF IInv, Evidence, Committing, Good, Backed, HasOp
<1>15. Committing'
  BY <1>1, <1>2, <1>3 DEF IInv, Committing, Logs
<1>16. Reviewed'
  BY <1>1, <1>2 DEF IInv, Reviewed, Passed, Logs
<1>17. InSight'
  BY <1>1, <1>2 DEF IInv, InSight, HasOp, Touches
<1> QED BY <1>8, <1>9, <1>10, <1>11, <1>12, <1>13, <1>14, <1>15, <1>16, <1>17 DEF IInv

LEMMA StateKeeps == IInv /\ WriteState => IInv'
<1> SUFFICES ASSUME IInv, WriteState PROVE IInv'
  OBVIOUS
<1> DEFINE h == Head(todo)
<1>1. /\ Typed /\ todo # <<>> /\ Done /\ h.op = "save" /\ saved' = hwm
      /\ owed' = IF owed = "owed" THEN "no" ELSE owed
      /\ UNCHANGED <<hist, torn, file, slot, hwm, turn, seen, latched, trigger,
                     passed, edited, hurt, glued, decided>>
  BY DEF WriteState, IInv, Doing, memory, GivenBack
<1>2. /\ todo' \in Seq(Writes) /\ Rising(todo') /\ by' \in {by, "none"} /\ faults' = faults
      /\ h \in Ops /\ h \in Writes
      /\ \A x \in Ops' : x \in Ops /\ x.op \notin {"log", "write", "slot", "clear", "restore", "hwm", "save"}
      /\ \A x \in Ops : x = h \/ x \in Ops'
      /\ Ops' # {} => by' = by
  BY <1>1, DoneIs DEF Place
<1>3. /\ slot # Absent => (slot.hwm # Absent => slot.hwm \in Nat)
      /\ \A x \in Ops : x.op = "slot" => (x.slot.hwm # Absent => x.slot.hwm \in Nat)
      /\ \A x \in Ops : x.op = "hwm" => x.to \in Nat
      /\ hwm \in Nat /\ saved \in Nat /\ decided \in Nat /\ hist.pins \in Nat
  BY <1>1, MarksAreNat
<1>4. owed \in {"no", "owed", "lost"}
  BY <1>1 DEF Typed, TypedRest
<1>5. \A x \in Ops : x = h \/ x.op \notin {"log", "write", "slot", "clear", "restore", "hwm"}
  BY <1>2
<1> HIDE DEF h
<1>6. Typed'
  <2>1. EvolutionTypeOK'
    BY <1>1, <1>2 DEF Typed, EvolutionTypeOK
  <2>2. TidyList'
    BY <1>2 DEF TidyList
  <2>3. SoundSlots'
    BY <1>1, <1>2 DEF Typed, SoundSlots, Sound
  <2>4. TypedRest'
    BY <1>1, <1>2, <1>4 DEF Typed, TypedRest, Logs
  <2> QED BY <2>1, <2>2, <2>3, <2>4 DEF Typed
<1>7. InPrelude'
  BY <1>1, <1>2 DEF IInv, InPrelude, Logs
<1>8. StillJudges'
  BY <1>1, <1>2 DEF IInv, StillJudges, Judging, Touches, Logs
<1>9. StillKeeps'
  BY <1>1, <1>2 DEF IInv, StillKeeps, Keeping, HasOp
<1>10. Born'
  BY <1>1, <1>2 DEF IInv, Born, OnRecord, Logs
<1>11. Follows'
  BY <1>1, <1>2 DEF IInv, Follows, Mended, Held, HasOp, Logs
<1>12. Evidence'
  BY <1>1, <1>2, <1>3, <1>4, <1>5 DEF IInv, Evidence, Good, Backed, HasOp
<1>13. Committing'
  BY <1>1, <1>2, <1>3 DEF IInv, Committing, Logs
<1>14. Reviewed'
  BY <1>1, <1>2 DEF IInv, Reviewed, Passed, Logs
<1>15. InSight'
  BY <1>1, <1>2 DEF IInv, InSight, HasOp, Touches
<1> QED BY <1>6, <1>7, <1>8, <1>9, <1>10, <1>11, <1>12, <1>13, <1>14, <1>15 DEF IInv

LEMMA FlagKeeps == IInv /\ SetFlag => IInv'
<1> SUFFICES ASSUME IInv, SetFlag PROVE IInv'
  OBVIOUS
<1> DEFINE h == Head(todo)
<1>1. /\ Typed /\ todo # <<>> /\ Done /\ h.op \in {"show", "latch"}
      /\ h.op = "show" => seen' = h.text /\ latched' = latched
      /\ h.op = "latch" => latched' = TRUE /\ seen' = seen
      /\ UNCHANGED <<hist, torn, file, slot, saved, hwm, turn, trigger,
                     passed, edited, hurt, glued, decided, owed>>
  BY DEF SetFlag, IInv, Doing, memory, ghosts
<1>2. /\ todo' \in Seq(Writes) /\ Rising(todo') /\ by' \in {by, "none"} /\ faults' = faults
      /\ h \in Ops /\ h \in Writes
      /\ \A x \in Ops' : x \in Ops /\ x.op \notin {"log", "write", "slot", "clear", "restore", "hwm", "save", "show"}
      /\ \A x \in Ops : x = h \/ x \in Ops'
      /\ Ops' # {} => by' = by
  BY <1>1, DoneIs DEF Place
<1>3. /\ slot # Absent => (slot.hwm # Absent => slot.hwm \in Nat)
      /\ \A x \in Ops : x.op = "slot" => (x.slot.hwm # Absent => x.slot.hwm \in Nat)
      /\ \A x \in Ops : x.op = "hwm" => x.to \in Nat
      /\ hwm \in Nat /\ saved \in Nat /\ decided \in Nat /\ hist.pins \in Nat
  BY <1>1, MarksAreNat
<1>4. h.op = "show" => h.text \in Fit
  BY <1>2, WriteIs
<1>5. \A x \in Ops : x = h \/ x.op \notin {"log", "write", "slot", "clear", "restore", "hwm", "show"}
  BY <1>2
<1> HIDE DEF h
<1>6. Typed'
  <2>1. EvolutionTypeOK'
    <3>1. seen' \in Fit \union {Absent} /\ latched' \in BOOLEAN
      BY <1>1, <1>4 DEF Typed, EvolutionTypeOK
    <3> QED BY <1>1, <1>2, <3>1 DEF Typed, EvolutionTypeOK
  <2>2. TidyList'
    BY <1>2 DEF TidyList
  <2>3. SoundSlots'
    BY <1>1, <1>2 DEF Typed, SoundSlots, Sound
  <2>4. TypedRest'
    BY <1>1, <1>2 DEF Typed, TypedRest, Logs
  <2> QED BY <2>1, <2>2, <2>3, <2>4 DEF Typed
<1>7. InPrelude'
  BY <1>1, <1>2 DEF IInv, InPrelude, Logs
<1>8. StillJudges'
  BY <1>1, <1>2 DEF IInv, StillJudges, Judging, Touches, Logs
<1>9. StillKeeps'
  BY <1>1, <1>2 DEF IInv, StillKeeps, Keeping, HasOp
<1>10. Born'
  BY <1>1, <1>2 DEF IInv, Born, OnRecord, Logs
<1>11. Follows'
  BY <1>1, <1>2 DEF IInv, Follows, Mended, Held, HasOp, Logs
<1>12. Evidence'
  BY <1>1, <1>2, <1>3 DEF IInv, Evidence, Good, Backed, HasOp
<1>13. Committing'
  BY <1>1, <1>2, <1>3 DEF IInv, Committing, Logs
<1>14. Reviewed'
  BY <1>1, <1>2 DEF IInv, Reviewed, Passed, Logs
<1>15. InSight'
  BY <1>1, <1>2, <1>5 DEF IInv, InSight, HasOp, Touches
<1> QED BY <1>6, <1>7, <1>8, <1>9, <1>10, <1>11, <1>12, <1>13, <1>14, <1>15 DEF IInv

-----------------------------------------------------------------------------
(* A write that fails, a crash, an edit of the file, another's event.       *)

LEMMA ConsIs ==
  ASSUME NEW a \in Writes, NEW q \in Seq(Writes), Rising(q),
         \A x \in Elems(q) : Place(a.op) < Place(x.op)
  PROVE  /\ <<a>> \o q \in Seq(Writes) /\ Rising(<<a>> \o q)
         /\ Elems(<<a>> \o q) = {a} \union Elems(q)
<1> DEFINE r == <<a>> \o q
<1>1. /\ r \in Seq(Writes) /\ Len(q) \in Nat /\ DOMAIN q = 1..Len(q)
      /\ DOMAIN r = 1..(Len(q) + 1) /\ r[1] = a
      /\ \A i \in 2..(Len(q) + 1) : r[i] = q[i - 1]
  OBVIOUS
<1> HIDE DEF r
<1>2. \A i \in DOMAIN r : i = 1 \/ (i - 1 \in DOMAIN q /\ r[i] = q[i - 1])
  BY <1>1
<1>3. \A i \in DOMAIN q : i + 1 \in DOMAIN r /\ r[i + 1] = q[i]
  BY <1>1
<1>4. Rising(r)
  <2> SUFFICES ASSUME NEW i \in DOMAIN r, NEW j \in DOMAIN r, i < j
               PROVE  Place(r[i].op) < Place(r[j].op)
    BY DEF Rising
  <2>1. i \in Nat /\ j \in Nat /\ j - 1 \in DOMAIN q /\ r[j] = q[j - 1]
    BY <1>1, <1>2
  <2>2. CASE i = 1
    BY <2>1, <2>2, <1>1 DEF Elems
  <2>3. CASE i # 1
    BY <2>1, <2>3, <1>2 DEF Rising
  <2> QED BY <2>2, <2>3
<1>5. Elems(r) = {a} \union Elems(q)
  <2>1. \A i \in DOMAIN r : r[i] \in {a} \union Elems(q)
    BY <1>1, <1>2 DEF Elems
  <2>2. \A i \in DOMAIN q : q[i] \in Elems(r)
    BY <1>3 DEF Elems
  <2>3. a \in Elems(r)
    BY <1>1 DEF Elems
  <2> QED BY <2>1, <2>2, <2>3 DEF Elems
<1> QED BY <1>1, <1>4, <1>5 DEF r

LEMMA FailKeeps == ASSUME NEW partial \in BOOLEAN PROVE IInv /\ WriteFails(partial) => IInv'
<1> SUFFICES ASSUME IInv, WriteFails(partial) PROVE IInv'
  OBVIOUS
<1> DEFINE h == Head(todo)
          e == LogEvent("error", Absent)
<1>1. /\ Typed /\ todo # <<>> /\ faults < MaxFaults /\ faults' = faults + 1
      /\ torn' = (torn \/ partial) /\ hurt' = TRUE
      /\ todo' = (IF h.op = "write" THEN <<e>> \o Tail(todo) ELSE <<>>)
      /\ by' \in {by, "none"}
      /\ turn' = IF by = "turn" THEN "none" ELSE turn
      /\ owed' = IF owed = "owed" /\ \E i \in DOMAIN todo : todo[i].op = "hwm"
                 THEN "lost" ELSE owed
      /\ UNCHANGED <<hist, file, slot, saved, hwm, seen, latched, trigger, passed,
                     edited, glued, decided>>
  BY DEF WriteFails, IInv, Doing, Left
<1>2. /\ e \in Writes /\ e.op = "log" /\ e.kind = "error"
  BY EventIs DEF Events
<1> HIDE DEF e
<1>3. h \in Ops /\ \A x \in Elems(Tail(todo)) : x \in Ops /\ Place(h.op) < Place(x.op)
  BY <1>1, TailIs DEF Typed, TidyList, Ops
<1>4. /\ TidyList'
      /\ \A x \in Ops' : \/ x = e
                         \/ h.op = "write" /\ x \in Ops /\ x.op \notin {"log", "write"}
      /\ h.op = "write" => \A x \in Ops : x \in {h} \union Ops'
  <2>1. CASE h.op # "write"
    <3>1. todo' = <<>>
      BY <1>1, <2>1
    <3> QED BY <3>1, <2>1, EmptyIs DEF TidyList, Ops
  <2>2. CASE h.op = "write"
    <3>1. todo' = <<e>> \o Tail(todo)
      BY <1>1, <2>2
    <3>2. /\ Tail(todo) \in Seq(Writes) /\ Rising(Tail(todo))
          /\ \A x \in Ops : x = h \/ x \in Elems(Tail(todo))
      BY <1>1, TailIs DEF Typed, TidyList, Ops
    <3>3. \A x \in Elems(Tail(todo)) : /\ Place(e.op) < Place(x.op)
                                       /\ x.op \notin {"log", "write"}
      BY <1>2, <1>3, <2>2 DEF Place
    <3>4. todo' \in Seq(Writes) /\ Rising(todo') /\ Ops' = {e} \union Elems(Tail(todo))
      BY <1>2, <3>1, <3>2, <3>3, ConsIs DEF Ops
    <3> QED BY <1>3, <2>2, <3>2, <3>3, <3>4 DEF TidyList
  <2> QED BY <2>1, <2>2
<1>5. h.op = "write" => \A x \in Ops : x = h \/ x.op \notin {"log", "write"}
  <2>1. \A x \in Ops : x = h \/ x \in Elems(Tail(todo))
    BY <1>1, TailIs DEF Typed, TidyList, Ops
  <2> QED BY <1>3, <2>1 DEF Place
<1>6. (\E i \in DOMAIN todo : todo[i].op = "hwm") <=> HasOp("hwm")
  BY DEF HasOp, Ops, Elems
<1>7. /\ slot # Absent => (slot.hwm # Absent => slot.hwm \in Nat)
      /\ hwm \in Nat /\ saved \in Nat /\ decided \in Nat /\ hist.pins \in Nat
      /\ owed \in {"no", "owed", "lost"} /\ turn \in {"none", "prelude", "talk"}
  BY <1>1, MarksAreNat DEF Typed, TypedRest, EvolutionTypeOK
<1> HIDE DEF h
<1>8. Typed'
  <2>1. EvolutionTypeOK'
    <3>1. faults' \in 0..MaxFaults
      BY <1>1, EvolutionAssumption DEF Typed, EvolutionTypeOK
    <3> QED BY <1>1, <3>1 DEF Typed, EvolutionTypeOK
  <2>2. SoundSlots'
    BY <1>1, <1>2, <1>4 DEF Typed, SoundSlots, Sound
  <2>3. TypedRest'
    BY <1>1, <1>2, <1>4 DEF Typed, TypedRest, Logs
  <2> QED BY <1>4, <2>1, <2>2, <2>3 DEF Typed
<1>9. InPrelude'
  BY <1>1, <1>3, <1>7 DEF IInv, InPrelude
<1>10. StillJudges'
  BY <1>1, <1>2, <1>4 DEF IInv, StillJudges, Judging, Touches, Logs
<1>11. StillKeeps'
  BY <1>1, <1>2, <1>4 DEF IInv, StillKeeps, Keeping, HasOp
<1>12. Born'
  BY <1>1, <1>2, <1>4, <1>5 DEF IInv, Born, OnRecord, Logs
<1>13. Follows'
  <2>1. turn' # "prelude"
    BY <1>1, <1>3, <1>7 DEF IInv, InPrelude
  <2> QED BY <1>1, <1>2, <1>4, <2>1 DEF IInv, Follows, Logs
<1>14. Evidence'
  BY <1>1, <1>6, <1>7 DEF IInv, Evidence, Good, Backed
<1>15. Committing'
  <2>1. Good' => Good
    BY <1>1, <1>7 DEF Good
  <2> QED BY <1>1, <1>2, <1>4, <1>5, <1>7, <2>1
     DEF IInv, Committing, Backed, HasOp, Logs, Touches, Decisions
<1>16. Reviewed'
  BY <1>1, <1>2, <1>4 DEF IInv, Reviewed, Passed, Logs
<1>17. InSight'
  <2> SUFFICES ASSUME NEW x \in Ops', x.op = "show" PROVE FALSE
    BY <1>1 DEF InSight
  <2>1. x \in Ops /\ h \in Ops /\ h.op = "write"
    BY <1>2, <1>3, <1>4
  <2> QED BY <2>1 DEF IInv, InSight
<1> QED BY <1>8, <1>9, <1>10, <1>11, <1>12, <1>13, <1>14, <1>15, <1>16, <1>17 DEF IInv

\* With no write to make, what the parts say of writes holds by itself.
LEMMA CrashKeeps == IInv /\ Crash => IInv'
<1> SUFFICES ASSUME IInv, Crash PROVE IInv'
  OBVIOUS
<1>1. /\ Typed /\ faults < MaxFaults /\ faults' = faults + 1 /\ todo' = <<>> /\ by' = "none"
      /\ turn' = "none" /\ seen' = Absent /\ latched' = FALSE /\ trigger' = Absent
      /\ hwm' = saved /\ hurt' = TRUE /\ owed' = IF owed = "owed" THEN "lost" ELSE owed
      /\ UNCHANGED <<hist, torn, file, slot, saved, passed, edited, glued, decided>>
  BY DEF Crash, IInv, Left
<1>2. Ops' = {} /\ TidyList'
  BY <1>1, EmptyIs DEF Ops, TidyList
<1>3. /\ slot # Absent => (slot.hwm # Absent => slot.hwm \in Nat)
      /\ hwm \in Nat /\ saved \in Nat /\ decided \in Nat /\ hist.pins \in Nat
      /\ owed \in {"no", "owed", "lost"}
  BY <1>1, MarksAreNat DEF Typed, TypedRest
<1>4. Typed'
  <2>1. EvolutionTypeOK'
    <3>1. faults' \in 0..MaxFaults
      BY <1>1, EvolutionAssumption DEF Typed, EvolutionTypeOK
    <3> QED BY <1>1, <3>1 DEF Typed, EvolutionTypeOK
  <2>2. SoundSlots'
    BY <1>1, <1>2 DEF Typed, SoundSlots, Sound
  <2>3. TypedRest'
    BY <1>1, <1>2 DEF Typed, TypedRest
  <2> QED BY <1>2, <2>1, <2>2, <2>3 DEF Typed
<1>5. InPrelude' /\ StillJudges' /\ StillKeeps'
  BY <1>1 DEF InPrelude, StillJudges, StillKeeps, Judging, Keeping
<1>6. Born'
  BY <1>1, <1>2 DEF IInv, Born, OnRecord
<1>7. Follows'
  BY <1>1, <1>2 DEF Follows
<1>8. Evidence'
  BY <1>1, <1>3 DEF IInv, Evidence, Good, Backed
<1>9. Committing'
  BY <1>2 DEF Committing
<1>10. Reviewed'
  BY <1>1, <1>2 DEF IInv, Reviewed, Passed
<1>11. InSight'
  BY <1>1, <1>2 DEF InSight
<1> QED BY <1>4, <1>5, <1>6, <1>7, <1>8, <1>9, <1>10, <1>11 DEF IInv
LEMMA AppendIs ==
  ASSUME NEW q \in Seq(Writes), Rising(q), NEW a \in Writes,
         \A x \in Elems(q) : Place(x.op) < Place(a.op)
  PROVE  /\ q \o <<a>> \in Seq(Writes) /\ Rising(q \o <<a>>)
         /\ Elems(q \o <<a>>) = Elems(q) \union {a}
<1> DEFINE r == q \o <<a>>
<1>1. /\ r \in Seq(Writes) /\ Len(q) \in Nat /\ DOMAIN q = 1..Len(q)
      /\ DOMAIN r = 1..(Len(q) + 1) /\ r[Len(q) + 1] = a
      /\ \A i \in 1..Len(q) : r[i] = q[i]
  OBVIOUS
<1> HIDE DEF r
<1>2. \A i \in DOMAIN r : i = Len(q) + 1 \/ (i \in DOMAIN q /\ r[i] = q[i])
  BY <1>1
<1>3. Rising(r)
  <2> SUFFICES ASSUME NEW i \in DOMAIN r, NEW j \in DOMAIN r, i < j
               PROVE  Place(r[i].op) < Place(r[j].op)
    BY DEF Rising
  <2>1. i \in Nat /\ j \in Nat /\ i \in DOMAIN q /\ r[i] = q[i]
    BY <1>1, <1>2
  <2>2. CASE j = Len(q) + 1
    BY <2>1, <2>2, <1>1 DEF Elems
  <2>3. CASE j # Len(q) + 1
    BY <2>1, <2>3, <1>2 DEF Rising
  <2> QED BY <2>2, <2>3
<1>4. Elems(r) = Elems(q) \union {a}
  <2>1. \A i \in DOMAIN r : r[i] \in Elems(q) \union {a}
    BY <1>1, <1>2 DEF Elems
  <2>2. \A i \in DOMAIN q : q[i] \in Elems(r)
    BY <1>1 DEF Elems
  <2>3. a \in Elems(r)
    BY <1>1 DEF Elems
  <2> QED BY <2>1, <2>2, <2>3 DEF Elems
<1> QED BY <1>1, <1>3, <1>4 DEF r

-----------------------------------------------------------------------------
(* Slots.                                                                   *)

\* A slot with one field changed is a slot.
LEMMA SlotWith ==
  ASSUME NEW s \in Slots
  PROVE  /\ \A k \in {"keeper", "counter", "external"} : [s EXCEPT !.kind = k] \in Slots
         /\ \A k \in {"awaiting_skeptic", "awaiting_doll"} :
                [s EXCEPT !.status = k] \in Slots
         /\ \A t \in Fit : [s EXCEPT !.text = t] \in Slots
         /\ \A f \in Fallbacks \union {Absent} : [s EXCEPT !.fallback = f] \in Slots
         /\ \A n \in 0..RoundCap : [s EXCEPT !.round = n] \in Slots
         /\ \A n \in 0..MaxSurfacings : [s EXCEPT !.shown = n] \in Slots
         /\ \A n \in 0..(ErrorBound - 1) : [s EXCEPT !.errors = n] \in Slots
BY EvolutionAssumption DEF Slots

LEMMA ExternalIs ==
  ASSUME NEW t \in Fit
  PROVE  LET s == ExternalSlot(t) IN
         /\ Sound(s) /\ s.kind = "external" /\ s.status = "awaiting_skeptic" /\ s.text = t
         /\ s.fallback = Absent /\ s.hwm = Absent
BY EvolutionAssumption DEF ExternalSlot, Slot, Sound, Slots

LEMMA KeeperIs ==
  ASSUME NEW t \in Fit, NEW n \in 0..MaxPins
  PROVE  LET s == KeeperSlot(t, n) IN
         /\ Sound(s) /\ s.kind = "keeper" /\ s.status = "awaiting_doll" /\ s.text = t
         /\ s.fallback = Absent /\ s.hwm = n
BY EvolutionAssumption DEF KeeperSlot, Slot, Sound, Slots

LEMMA CounterIs ==
  ASSUME NEW s, Sound(s), s.status = "awaiting_doll", s.round < RoundCap, NEW t \in Fit
  PROVE  LET r == ToCounter(s, t) IN
         /\ Sound(r) /\ r.status = "awaiting_skeptic" /\ r.text = t /\ r.hwm = s.hwm
         /\ r.fallback # Absent /\ r.fallback.text = s.text
<1> DEFINE r == ToCounter(s, t)
           f == [text |-> s.text, kind |-> s.kind]
           r1 == [s EXCEPT !.kind = "counter"]
           r2 == [r1 EXCEPT !.status = "awaiting_skeptic"]
           r3 == [r2 EXCEPT !.text = t]
           r4 == [r3 EXCEPT !.fallback = f]
           r5 == [r4 EXCEPT !.round = s.round + 1]
           r6 == [r5 EXCEPT !.shown = 0]
           r7 == [r6 EXCEPT !.errors = 0]
<1>1. s \in Slots /\ (s.kind = "external" => s.hwm = Absent)
  BY DEF Sound
<1>2. f \in Fallbacks /\ f # Absent /\ f.text = s.text /\ f.kind = s.kind
  BY <1>1, EvolutionAssumption DEF Slots, Fallbacks
<1>3. s.round + 1 \in 0..RoundCap /\ 0 \in 0..MaxSurfacings /\ 0 \in 0..(ErrorBound - 1)
  BY <1>1, EvolutionAssumption DEF Slots
<1> HIDE DEF f
<1>4. r1 \in Slots
  BY <1>1, SlotWith
<1>5. r2 \in Slots
  BY <1>4, SlotWith
<1>6. r3 \in Slots
  BY <1>5, SlotWith
<1>7. r4 \in Slots
  BY <1>6, <1>2, SlotWith
<1>8. r5 \in Slots
  BY <1>7, <1>3, SlotWith
<1>9. r6 \in Slots
  BY <1>8, <1>3, SlotWith
<1>10. r7 \in Slots
  BY <1>9, <1>3, SlotWith
<1>11. r = r7
  BY DEF ToCounter, f
<1>12. /\ r.kind = "counter" /\ r.status = "awaiting_skeptic" /\ r.text = t
       /\ r.fallback = f /\ r.hwm = s.hwm
  BY <1>1 DEF ToCounter, Slots, f
<1> QED BY <1>1, <1>2, <1>10, <1>11, <1>12 DEF Sound

LEMMA RevertIs ==
  ASSUME NEW s, Sound(s), s.fallback # Absent
  PROVE  LET r == RevertToFallback(s) IN
         /\ Sound(r) /\ r.status = "awaiting_doll" /\ r.text = s.fallback.text
         /\ r.hwm = s.hwm /\ r.fallback = Absent
<1> DEFINE r == RevertToFallback(s)
           r1 == [s EXCEPT !.kind = s.fallback.kind]
           r2 == [r1 EXCEPT !.status = "awaiting_doll"]
           r3 == [r2 EXCEPT !.text = s.fallback.text]
           r4 == [r3 EXCEPT !.fallback = Absent]
           r5 == [r4 EXCEPT !.shown = 0]
           r6 == [r5 EXCEPT !.errors = 0]
<1>1. /\ s \in Slots /\ s.fallback \in Fallbacks
      /\ (s.fallback.kind = "external" => s.hwm = Absent)
      /\ 0 \in 0..MaxSurfacings /\ 0 \in 0..(ErrorBound - 1)
  BY EvolutionAssumption DEF Sound, Slots
<1>2. s.fallback.kind \in {"keeper", "counter", "external"} /\ s.fallback.text \in Fit
  BY <1>1 DEF Fallbacks
<1>3. r1 \in Slots
  BY <1>1, <1>2, SlotWith
<1>4. r2 \in Slots
  BY <1>3, SlotWith
<1>5. r3 \in Slots
  BY <1>2, <1>4, SlotWith
<1>6. r4 \in Slots
  BY <1>5, SlotWith
<1>7. r5 \in Slots
  BY <1>1, <1>6, SlotWith
<1>8. r6 \in Slots
  BY <1>1, <1>7, SlotWith
<1>9. r = r6
  BY DEF RevertToFallback
<1>10. /\ r.kind = s.fallback.kind /\ r.status = "awaiting_doll"
       /\ r.text = s.fallback.text /\ r.fallback = Absent /\ r.hwm = s.hwm
  BY <1>1 DEF RevertToFallback, Slots
<1> QED BY <1>1, <1>8, <1>9, <1>10 DEF Sound

LEMMA MarkedIs ==
  ASSUME NEW s, Sound(s)
  PROVE  LET r == MarkAwaitingDoll(s) IN
         /\ Sound(r) /\ r.status = "awaiting_doll" /\ r.text = s.text
         /\ r.hwm = s.hwm /\ r.fallback = Absent
<1> DEFINE r == MarkAwaitingDoll(s)
           r1 == [s EXCEPT !.status = "awaiting_doll"]
           r2 == [r1 EXCEPT !.errors = 0]
           r3 == [r2 EXCEPT !.fallback = Absent]
<1>1. s \in Slots /\ 0 \in 0..(ErrorBound - 1)
  BY EvolutionAssumption DEF Sound
<1>2. r1 \in Slots
  BY <1>1, SlotWith
<1>3. r2 \in Slots
  BY <1>1, <1>2, SlotWith
<1>4. r3 \in Slots
  BY <1>3, SlotWith
<1>5. r = r3
  BY DEF MarkAwaitingDoll
<1>6. /\ r.kind = s.kind /\ r.status = "awaiting_doll"
      /\ r.text = s.text /\ r.fallback = Absent /\ r.hwm = s.hwm
  BY <1>1 DEF MarkAwaitingDoll, Slots
<1> QED BY <1>4, <1>5, <1>6 DEF Sound

LEMMA ShownIs ==
  ASSUME NEW s, Sound(s), s.shown # MaxSurfacings
  PROVE  LET r == [s EXCEPT !.shown = @ + 1] IN
         /\ Sound(r) /\ r.status = s.status /\ r.text = s.text
         /\ r.hwm = s.hwm /\ r.fallback = s.fallback
<1> DEFINE r == [s EXCEPT !.shown = @ + 1]
<1>1. s \in Slots /\ s.shown + 1 \in 0..MaxSurfacings
  BY EvolutionAssumption DEF Sound, Slots
<1>2. /\ r \in Slots /\ r.kind = s.kind /\ r.status = s.status
      /\ r.text = s.text /\ r.fallback = s.fallback /\ r.hwm = s.hwm
  BY <1>1 DEF Slots
<1> QED BY <1>1, <1>2 DEF Sound

\* A verdict that fails too often leaves what is not a slot any more.
LEMMA ErredIs ==
  ASSUME NEW s, Sound(s)
  PROVE  LET r == [s EXCEPT !.errors = @ + 1] IN
         /\ r.errors # ErrorBound => Sound(r)
         /\ r.status = s.status /\ r.text = s.text
         /\ r.hwm = s.hwm /\ r.fallback = s.fallback
<1> DEFINE r == [s EXCEPT !.errors = @ + 1]
<1>1. s \in Slots
  BY DEF Sound
<1>2. /\ r.kind = s.kind /\ r.status = s.status
      /\ r.text = s.text /\ r.fallback = s.fallback /\ r.hwm = s.hwm /\ r.errors = s.errors + 1
  BY <1>1 DEF Slots
<1>3. ASSUME r.errors # ErrorBound PROVE r \in Slots
  <2>1. s.errors + 1 \in 0..(ErrorBound - 1)
    BY <1>1, <1>2, <1>3, EvolutionAssumption DEF Slots
  <2> QED BY <1>1, <2>1 DEF Slots
<1> QED BY <1>1, <1>2, <1>3 DEF Sound

\* The writes of an expiry, with the state's as the trigger's go.
LEMMA ExpireIs ==
  ASSUME NEW s, s.text \in Fit, s.hwm \in 0..MaxPins \union {Absent},
         NEW t \in Fit \union {Absent}
  PROVE  LET q == Expire(s, t)
             some == {LogEvent("expire", s.text), ClearExpired(s), Restore(t)}
                     \union IF s.hwm = Absent THEN {} ELSE {Hwm(s.hwm, FALSE)}
         IN /\ q \in Seq(Writes) /\ Rising(q) /\ Elems(q) = some
            /\ q \o <<SaveState>> \in Seq(Writes) /\ Rising(q \o <<SaveState>>)
            /\ Elems(q \o <<SaveState>>) = some \union {SaveState}
<1> DEFINE q == Expire(s, t)
           a == LogEvent("expire", s.text)
           b == ClearExpired(s)
           c == Restore(t)
           d == Hwm(s.hwm, FALSE)
           e == SaveState
<1>1. /\ a \in Writes /\ b \in Writes /\ c \in Writes /\ e \in Writes
      /\ a.op = "log" /\ b.op = "clear" /\ c.op = "restore" /\ e.op = "save"
      /\ s.hwm # Absent => d \in Writes /\ d.op = "hwm"
  <2>1. a \in Writes /\ a.op = "log"
    BY EventIs DEF Events
  <2>2. b \in Writes /\ b.op = "clear"
    BY ClearIs
  <2>3. c \in Writes /\ c.op = "restore"
    BY TextIs
  <2>4. e \in Writes /\ e.op = "save"
    BY MarkIs
  <2>5. s.hwm # Absent => d \in Writes /\ d.op = "hwm"
    BY MarkIs
  <2> QED BY <2>1, <2>2, <2>3, <2>4, <2>5
<1>2. /\ <<a, b, c>> \in Seq(Writes) /\ Rising(<<a, b, c>>)
      /\ Elems(<<a, b, c>>) = {a, b, c}
  <2> HIDE DEF a, b, c
  <2> QED BY <1>1, ThreeIs DEF Place
<1>3. q = <<a, b, c>> \o IF s.hwm = Absent THEN <<>> ELSE <<d>>
  BY DEF Expire
<1> HIDE DEF a, b, c, d, e, q
<1>4. /\ q \in Seq(Writes) /\ Rising(q)
      /\ Elems(q) = {a, b, c} \union IF s.hwm = Absent THEN {} ELSE {d}
  <2>1. CASE s.hwm = Absent
    <3>1. q = <<a, b, c>>
      BY <1>1, <1>3, <2>1
    <3> QED BY <1>2, <2>1, <3>1
  <2>2. CASE s.hwm # Absent
    <3>1. \A x \in Elems(<<a, b, c>>) : Place(x.op) < Place(d.op)
      BY <1>1, <1>2, <2>2 DEF Place
    <3>2. q = <<a, b, c>> \o <<d>>
      BY <1>3, <2>2
    <3> QED BY <1>1, <1>2, <2>2, <3>1, <3>2, AppendIs
  <2> QED BY <2>1, <2>2
<1>5. \A x \in Elems(q) : Place(x.op) < Place(e.op)
  BY <1>1, <1>4 DEF Place
<1>6. /\ q \o <<e>> \in Seq(Writes) /\ Rising(q \o <<e>>)
      /\ Elems(q \o <<e>>) = Elems(q) \union {e}
  BY <1>1, <1>4, <1>5, AppendIs
<1> QED BY <1>4, <1>6 DEF a, b, c, d, e, q

-----------------------------------------------------------------------------
(* Steps that make no write.                                                *)

LEMMA EditKeeps == 
  ASSUME NEW text \in Texts \union {Absent}
  PROVE  IInv /\ Edit(text) => IInv'
<1> SUFFICES ASSUME IInv, Edit(text) PROVE IInv'
  OBVIOUS
<1>1. /\ Typed /\ todo = <<>> /\ todo' = <<>>
      /\ file' = text /\ edited' = TRUE
      /\ UNCHANGED <<hist, torn, slot, saved, hwm, turn, seen, latched, trigger, by,
                     faults, passed, hurt, glued, decided, owed>>
  BY DEF Edit, IInv, memory
<1>2. Ops = {} /\ Ops' = {} /\ TidyList'
  BY <1>1, EmptyIs DEF Ops, TidyList
<1>3. /\ slot # Absent => (slot.hwm # Absent => slot.hwm \in Nat)
      /\ hwm \in Nat /\ saved \in Nat /\ decided \in Nat /\ hist.pins \in Nat
      /\ owed \in {"no", "owed", "lost"}
  BY <1>1, MarksAreNat DEF Typed, TypedRest
<1>4. Typed'
  <2>1. EvolutionTypeOK'
    BY <1>1 DEF Typed, EvolutionTypeOK
  <2>2. SoundSlots'
    BY <1>1, <1>2 DEF Typed, SoundSlots, Sound
  <2>3. TypedRest'
    BY <1>1, <1>2 DEF Typed, TypedRest
  <2> QED BY <1>2, <2>1, <2>2, <2>3 DEF Typed
<1>5. InPrelude'
  BY <1>1, <1>2 DEF IInv, InPrelude
<1>6. StillJudges'
  BY <1>1, <1>2 DEF IInv, StillJudges, Judging
<1>7. StillKeeps'
  BY <1>1, <1>2, <1>3 DEF IInv, StillKeeps, Keeping, HasOp
<1>8. Born'
  BY <1>1, <1>2 DEF IInv, Born, OnRecord
<1>9. Follows'
  BY <1>1, <1>2 DEF IInv, Follows, Mended, Held, HasOp
<1>10. Evidence'
  BY <1>1, <1>2, <1>3 DEF IInv, Evidence, Good, Backed, HasOp
<1>11. Committing'
  BY <1>2 DEF Committing
<1>12. Reviewed'
  BY <1>1, <1>2 DEF IInv, Reviewed, Passed
<1>13. InSight'
  BY <1>1, <1>2 DEF IInv, InSight, HasOp
<1> QED BY <1>4, <1>5, <1>6, <1>7, <1>8, <1>9, <1>10, <1>11, <1>12, <1>13 DEF IInv

LEMMA PinKeeps == 
  ASSUME NEW written \in BOOLEAN, NEW partial \in BOOLEAN
  PROVE  IInv /\ PinEvent(written, partial) => IInv'
<1> SUFFICES ASSUME IInv, PinEvent(written, partial) PROVE IInv'
  OBVIOUS
<1>1. /\ Typed /\ todo = <<>> /\ todo' = <<>>
      /\ UNCHANGED <<file, slot, saved, hwm, turn, seen, latched, trigger, by, passed,
                     edited, hurt, glued, decided, owed>>
      /\ hist' \in {hist, [hist EXCEPT !.pins = @ + 1]} /\ hist.pins < MaxPins
      /\ torn' \in BOOLEAN /\ faults' \in {faults, faults + 1} /\ turn # "prelude"
      /\ faults' # faults => faults < MaxFaults
  BY DEF PinEvent, IInv, Free, memory, ghosts
<1>2. Ops = {} /\ Ops' = {} /\ TidyList'
  BY <1>1, EmptyIs DEF Ops, TidyList
<1>3. /\ slot # Absent => (slot.hwm # Absent => slot.hwm \in Nat)
      /\ hwm \in Nat /\ saved \in Nat /\ decided \in Nat /\ hist.pins \in Nat
      /\ owed \in {"no", "owed", "lost"}
  BY <1>1, MarksAreNat DEF Typed, TypedRest
<1>4. /\ hist'.pins \in Nat /\ hist.pins <= hist'.pins
      /\ hist'.adopt = hist.adopt /\ hist'.edit = hist.edit /\ hist'.born = hist.born
  BY <1>1, <1>3 DEF Typed, EvolutionTypeOK
<1>5. Typed'
  <2>1. EvolutionTypeOK'
    <3>1. hist' \in [adopt : Fit \union {Absent}, old : Fit \union {Absent},
                     edit : Fit \union {Absent}, born : SUBSET Fit, pins : 0..MaxPins]
      BY <1>1, EvolutionAssumption, SMTT(30) DEF Typed, EvolutionTypeOK
    <3>2. faults' \in 0..MaxFaults
      BY <1>1, EvolutionAssumption DEF Typed, EvolutionTypeOK
    <3>3. hist'.pins \in Nat /\ hist.pins <= hist'.pins
      BY <1>4
    <3> QED BY <1>1, <1>3, <3>1, <3>2, <3>3 DEF Typed, EvolutionTypeOK
  <2>2. SoundSlots'
    BY <1>1, <1>2 DEF Typed, SoundSlots, Sound
  <2>3. TypedRest'
    BY <1>1, <1>2 DEF Typed, TypedRest
  <2> QED BY <1>2, <2>1, <2>2, <2>3 DEF Typed
<1>6. InPrelude'
  BY <1>1, <1>2 DEF IInv, InPrelude
<1>7. StillJudges'
  BY <1>4, <1>1, <1>2 DEF IInv, StillJudges, Judging
<1>8. StillKeeps'
  <2>1. Keeping => /\ trigger.upto \in Nat /\ hwm <= trigger.upto /\ trigger.upto <= hist.pins
    BY <1>1 DEF IInv, StillKeeps, Keeping, Passes, Typed, TypedRest
  <2> QED BY <1>4, <1>1, <1>2, <1>3, <2>1 DEF IInv, StillKeeps, Keeping, HasOp
<1>9. Born'
  BY <1>4, <1>1, <1>2 DEF IInv, Born, OnRecord
<1>10. Follows'
  BY <1>4, <1>1, <1>2 DEF IInv, Follows, Mended, Held, HasOp
<1>11. Evidence'
  BY <1>4, <1>1, <1>2, <1>3 DEF IInv, Evidence, Good, Backed, HasOp
<1>12. Committing'
  BY <1>2 DEF Committing
<1>13. Reviewed'
  BY <1>1, <1>2 DEF IInv, Reviewed, Passed
<1>14. InSight'
  BY <1>1, <1>2 DEF IInv, InSight, HasOp
<1> QED BY <1>5, <1>6, <1>7, <1>8, <1>9, <1>10, <1>11, <1>12, <1>13, <1>14 DEF IInv

LEMMA EndKeeps == 
  ASSUME NEW ok \in BOOLEAN
  PROVE  IInv /\ EndTurn(ok) => IInv'
<1> SUFFICES ASSUME IInv, EndTurn(ok) PROVE IInv'
  OBVIOUS
<1>1. /\ Typed /\ todo = <<>> /\ todo' = <<>>
      /\ turn' = "none" /\ seen' = Absent /\ latched' = FALSE
      /\ UNCHANGED <<hist, torn, file, slot, hwm, trigger, by, faults, passed, edited,
                     hurt, glued, decided>>
      /\ \/ saved' = saved /\ owed' = owed
         \/ saved' = hwm /\ owed' = IF owed = "owed" THEN "no" ELSE owed
  BY DEF EndTurn, IInv, GivenBack
<1>2. Ops = {} /\ Ops' = {} /\ TidyList'
  BY <1>1, EmptyIs DEF Ops, TidyList
<1>3. /\ slot # Absent => (slot.hwm # Absent => slot.hwm \in Nat)
      /\ hwm \in Nat /\ saved \in Nat /\ decided \in Nat /\ hist.pins \in Nat
      /\ owed \in {"no", "owed", "lost"}
  BY <1>1, MarksAreNat DEF Typed, TypedRest
<1>4. Typed'
  <2>1. EvolutionTypeOK'
    <3>1. EvolutionTypeOK /\ saved' \in {saved, hwm} /\ turn' = "none" /\ seen' = Absent
          /\ latched' = FALSE /\ UNCHANGED <<hist, torn, file, slot, hwm, by, faults>>
      BY <1>1 DEF Typed
    <3> QED BY <3>1, ZenonT(60) DEF EvolutionTypeOK
  <2>2. SoundSlots'
    BY <1>1, <1>2 DEF Typed, SoundSlots, Sound
  <2>3. TypedRest'
    BY <1>1, <1>2 DEF Typed, TypedRest
  <2> QED BY <1>2, <2>1, <2>2, <2>3 DEF Typed
<1>5. InPrelude'
  BY <1>1, <1>2 DEF IInv, InPrelude
<1>6. StillJudges'
  BY <1>1, <1>2 DEF IInv, StillJudges, Judging
<1>7. StillKeeps'
  BY <1>1, <1>2, <1>3 DEF IInv, StillKeeps, Keeping, HasOp
<1>8. Born'
  BY <1>1, <1>2 DEF IInv, Born, OnRecord
<1>9. Follows'
  BY <1>1, <1>2 DEF IInv, Follows, Mended, Held, HasOp
<1>10. Evidence'
  BY <1>1, <1>2, <1>3 DEF IInv, Evidence, Good, Backed, HasOp
<1>11. Committing'
  BY <1>2 DEF Committing
<1>12. Reviewed'
  BY <1>1, <1>2 DEF IInv, Reviewed, Passed
<1>13. InSight'
  BY <1>1, <1>2 DEF IInv, InSight, HasOp
<1> QED BY <1>4, <1>5, <1>6, <1>7, <1>8, <1>9, <1>10, <1>11, <1>12, <1>13 DEF IInv

LEMMA SkepticStartKeeps == IInv /\ StartSkeptic => IInv'
<1> SUFFICES ASSUME IInv, StartSkeptic PROVE IInv'
  OBVIOUS
<1>1. /\ Typed /\ todo = <<>> /\ todo' = <<>>
      /\ turn # "prelude" /\ slot # Absent /\ slot.status = "awaiting_skeptic"
      /\ trigger' = [job |-> "skeptic", slot |-> slot, old |-> hist.adopt]
      /\ UNCHANGED <<hist, torn, file, slot, saved, hwm, turn, seen, latched, by,
                     faults, passed, edited, hurt, glued, decided, owed>>
  BY DEF StartSkeptic, Start, IInv, Free, Pending, ghosts
<1>2. Ops = {} /\ Ops' = {} /\ TidyList'
  BY <1>1, EmptyIs DEF Ops, TidyList
<1>3. /\ slot # Absent => (slot.hwm # Absent => slot.hwm \in Nat)
      /\ hwm \in Nat /\ saved \in Nat /\ decided \in Nat /\ hist.pins \in Nat
      /\ owed \in {"no", "owed", "lost"}
  BY <1>1, MarksAreNat DEF Typed, TypedRest
<1>4. Typed'
  <2>1. EvolutionTypeOK'
    BY <1>1 DEF Typed, EvolutionTypeOK
  <2>2. SoundSlots'
    BY <1>1, <1>2 DEF Typed, SoundSlots, Sound
  <2>3. TypedRest'
    <3>1. slot \in Slots /\ hist.adopt \in Fit \union {Absent}
      BY <1>1 DEF Typed, EvolutionTypeOK
    <3>2. trigger' \in Passes
      BY <1>1, <3>1 DEF Passes
    <3> QED BY <1>1, <1>2, <3>2 DEF Typed, TypedRest
  <2> QED BY <1>2, <2>1, <2>2, <2>3 DEF Typed
<1>5. InPrelude'
  BY <1>1, <1>2 DEF IInv, InPrelude
<1>6. StillJudges'
  BY <1>1, <1>2 DEF IInv, StillJudges, Judging
<1>7. StillKeeps'
  BY <1>1, <1>2, <1>3 DEF IInv, StillKeeps, Keeping, HasOp
<1>8. Born'
  BY <1>1, <1>2 DEF IInv, Born, OnRecord
<1>9. Follows'
  BY <1>1, <1>2 DEF IInv, Follows, Mended, Held, HasOp
<1>10. Evidence'
  BY <1>1, <1>2, <1>3 DEF IInv, Evidence, Good, Backed, HasOp
<1>11. Committing'
  BY <1>2 DEF Committing
<1>12. Reviewed'
  BY <1>1, <1>2 DEF IInv, Reviewed, Passed
<1>13. InSight'
  BY <1>1, <1>2 DEF IInv, InSight, HasOp
<1> QED BY <1>4, <1>5, <1>6, <1>7, <1>8, <1>9, <1>10, <1>11, <1>12, <1>13 DEF IInv

LEMMA KeeperStartKeeps == IInv /\ StartKeeper => IInv'
<1> SUFFICES ASSUME IInv, StartKeeper PROVE IInv'
  OBVIOUS
<1>1. /\ Typed /\ todo = <<>> /\ todo' = <<>>
      /\ turn # "prelude" /\ slot = Absent
      /\ trigger' = [job |-> "keeper", hwm |-> hwm, upto |-> hist.pins]
      /\ UNCHANGED <<hist, torn, file, slot, saved, hwm, turn, seen, latched, by,
                     faults, passed, edited, hurt, glued, decided, owed>>
  BY DEF StartKeeper, Start, IInv, Free, Bundle, ghosts
<1>2. Ops = {} /\ Ops' = {} /\ TidyList'
  BY <1>1, EmptyIs DEF Ops, TidyList
<1>3. /\ slot # Absent => (slot.hwm # Absent => slot.hwm \in Nat)
      /\ hwm \in Nat /\ saved \in Nat /\ decided \in Nat /\ hist.pins \in Nat
      /\ owed \in {"no", "owed", "lost"}
  BY <1>1, MarksAreNat DEF Typed, TypedRest
<1>4. Typed'
  <2>1. EvolutionTypeOK'
    BY <1>1 DEF Typed, EvolutionTypeOK
  <2>2. SoundSlots'
    BY <1>1, <1>2 DEF Typed, SoundSlots, Sound
  <2>3. TypedRest'
    <3>1. hist.pins \in 0..MaxPins /\ hwm \in 0..MaxPins
      BY <1>1, <1>3, EvolutionAssumption DEF Typed, EvolutionTypeOK
    <3>2. trigger' \in Passes
      BY <1>1, <3>1 DEF Passes
    <3> QED BY <1>1, <1>2, <3>2 DEF Typed, TypedRest
  <2> QED BY <1>2, <2>1, <2>2, <2>3 DEF Typed
<1>5. InPrelude'
  BY <1>1, <1>2 DEF IInv, InPrelude
<1>6. StillJudges'
  BY <1>1, <1>2 DEF IInv, StillJudges, Judging
<1>7. StillKeeps'
  BY <1>1, <1>2, <1>3 DEF IInv, StillKeeps, Keeping, HasOp, Typed, EvolutionTypeOK
<1>8. Born'
  BY <1>1, <1>2 DEF IInv, Born, OnRecord
<1>9. Follows'
  BY <1>1, <1>2 DEF IInv, Follows, Mended, Held, HasOp
<1>10. Evidence'
  BY <1>1, <1>2, <1>3 DEF IInv, Evidence, Good, Backed, HasOp
<1>11. Committing'
  BY <1>2 DEF Committing
<1>12. Reviewed'
  BY <1>1, <1>2 DEF IInv, Reviewed, Passed
<1>13. InSight'
  BY <1>1, <1>2 DEF IInv, InSight, HasOp
<1> QED BY <1>4, <1>5, <1>6, <1>7, <1>8, <1>9, <1>10, <1>11, <1>12, <1>13 DEF IInv

LEMMA CancelKeeps == IInv /\ CancelPass => IInv'
<1> SUFFICES ASSUME IInv, CancelPass PROVE IInv'
  OBVIOUS
<1>1. /\ Typed /\ todo = <<>> /\ todo' = <<>>
      /\ trigger' = Absent
      /\ UNCHANGED <<hist, torn, file, slot, saved, hwm, turn, seen, latched, by,
                     faults, passed, edited, hurt, glued, decided, owed>>
  BY DEF CancelPass, IInv, Free, ghosts
<1>2. Ops = {} /\ Ops' = {} /\ TidyList'
  BY <1>1, EmptyIs DEF Ops, TidyList
<1>3. /\ slot # Absent => (slot.hwm # Absent => slot.hwm \in Nat)
      /\ hwm \in Nat /\ saved \in Nat /\ decided \in Nat /\ hist.pins \in Nat
      /\ owed \in {"no", "owed", "lost"}
  BY <1>1, MarksAreNat DEF Typed, TypedRest
<1>4. Typed'
  <2>1. EvolutionTypeOK'
    BY <1>1 DEF Typed, EvolutionTypeOK
  <2>2. SoundSlots'
    BY <1>1, <1>2 DEF Typed, SoundSlots, Sound
  <2>3. TypedRest'
    BY <1>1, <1>2 DEF Typed, TypedRest
  <2> QED BY <1>2, <2>1, <2>2, <2>3 DEF Typed
<1>5. InPrelude'
  BY <1>1, <1>2 DEF IInv, InPrelude
<1>6. StillJudges'
  BY <1>1, <1>2 DEF IInv, StillJudges, Judging
<1>7. StillKeeps'
  BY <1>1, <1>2, <1>3 DEF IInv, StillKeeps, Keeping, HasOp
<1>8. Born'
  BY <1>1, <1>2 DEF IInv, Born, OnRecord
<1>9. Follows'
  BY <1>1, <1>2 DEF IInv, Follows, Mended, Held, HasOp
<1>10. Evidence'
  BY <1>1, <1>2, <1>3 DEF IInv, Evidence, Good, Backed, HasOp
<1>11. Committing'
  BY <1>2 DEF Committing
<1>12. Reviewed'
  BY <1>1, <1>2 DEF IInv, Reviewed, Passed
<1>13. InSight'
  BY <1>1, <1>2 DEF IInv, InSight, HasOp
<1> QED BY <1>4, <1>5, <1>6, <1>7, <1>8, <1>9, <1>10, <1>11, <1>12, <1>13 DEF IInv

LEMMA StutterKeeps == IInv /\ UNCHANGED evolutionVars => IInv'
<1> SUFFICES ASSUME IInv, UNCHANGED evolutionVars PROVE IInv'
  OBVIOUS
<1>1. UNCHANGED <<hist, torn, file, slot, saved, hwm, turn, seen, latched, trigger,
                  todo, by, faults, passed, edited, hurt, glued, decided, owed>>
  BY DEF evolutionVars, memory, ghosts
<1>2. Typed'
  BY <1>1 DEF IInv, Typed, EvolutionTypeOK, TidyList, SoundSlots, TypedRest, Ops, Sound
<1>3. InPrelude' /\ StillJudges' /\ StillKeeps'
  BY <1>1 DEF IInv, InPrelude, StillJudges, StillKeeps, Judging, Keeping, Ops, HasOp
<1>4. Born' /\ Follows'
  BY <1>1 DEF IInv, Born, OnRecord, Follows, Mended, Held, Ops, HasOp
<1>5. Evidence' /\ Committing'
  BY <1>1 DEF IInv, Evidence, Committing, Backed, Good, Ops, HasOp
<1>6. Reviewed' /\ InSight'
  BY <1>1 DEF IInv, Reviewed, Passed, InSight, Ops, HasOp
<1> QED BY <1>2, <1>3, <1>4, <1>5, <1>6 DEF IInv

-----------------------------------------------------------------------------
(* Steps that begin a list of writes.                                        *)

\* What the invariant comes to when no write is under way.
Resting ==
    /\ Ops = {} /\ Typed
    /\ hist.adopt \in Fit \union {Absent} /\ hist.edit \in Fit \union {Absent}
    /\ slot # Absent =>
         /\ Sound(slot) /\ slot.text \in Fit /\ slot.hwm \in 0..MaxPins \union {Absent}
         /\ Passed(slot) /\ (~glued => OnRecord(slot))
         /\ slot.hwm # Absent => slot.hwm \in Nat /\ slot.hwm <= hist.pins
         /\ Good => (slot.hwm # Absent => slot.hwm <= decided)
    /\ Good => hwm <= decided \/ Backed
    /\ owed = "no" => saved <= hwm
    /\ owed \in {"no", "owed", "lost"}
    /\ (~edited /\ (~hurt \/ turn = "prelude")) => file = hist.adopt \/ slot # Absent
    /\ (seen # Absent /\ ~hurt /\ ~latched) =>
           slot # Absent /\ slot.status = "awaiting_doll" /\ slot.text = seen
    /\ hwm \in Nat /\ saved \in Nat /\ decided \in Nat /\ hist.pins \in Nat

LEMMA AtRest ==
  ASSUME IInv, todo = <<>>
  PROVE  Resting
<1>1. Typed /\ Ops = {}
  BY EmptyIs DEF IInv, Ops
<1>2. /\ hist.adopt \in Fit \union {Absent} /\ hist.edit \in Fit \union {Absent}
      /\ owed \in {"no", "owed", "lost"}
  BY <1>1 DEF Typed, EvolutionTypeOK, TypedRest
<1>3. ASSUME slot # Absent
      PROVE  /\ Sound(slot) /\ slot.text \in Fit /\ slot.hwm \in 0..MaxPins \union {Absent}
             /\ Passed(slot) /\ (~glued => OnRecord(slot))
             /\ slot.hwm # Absent => slot.hwm \in Nat /\ slot.hwm <= hist.pins
             /\ Good => (slot.hwm # Absent => slot.hwm <= decided)
  <2>1. Sound(slot) /\ slot \in Slots
    BY <1>1, <1>3 DEF Typed, SoundSlots, Sound
  <2>2. slot.text \in Fit /\ slot.hwm \in 0..MaxPins \union {Absent}
    BY <2>1 DEF Slots
  <2>3. Passed(slot) /\ (~glued => OnRecord(slot))
    BY <1>3 DEF IInv, Reviewed, Born
  <2>4. /\ slot.hwm # Absent => slot.hwm \in Nat /\ slot.hwm <= hist.pins
        /\ Good => (slot.hwm # Absent => slot.hwm <= decided)
    BY <1>1, <1>3, MarksAreNat DEF IInv, Evidence, Backed
  <2> QED BY <2>1, <2>2, <2>3, <2>4
<1>4. Good => hwm <= decided \/ Backed
  BY <1>1, <1>2 DEF IInv, Evidence, Good, HasOp
<1>5. owed = "no" => saved <= hwm
  BY DEF IInv, Evidence
<1>6. (~edited /\ (~hurt \/ turn = "prelude")) => file = hist.adopt \/ slot # Absent
  BY <1>1 DEF IInv, Follows, Mended, Held, HasOp
<1>7. (seen # Absent /\ ~hurt /\ ~latched) =>
          slot # Absent /\ slot.status = "awaiting_doll" /\ slot.text = seen
  BY <1>1 DEF IInv, InSight, HasOp
<1> QED BY <1>1, <1>2, <1>3, <1>4, <1>5, <1>6, <1>7, MarksAreNat DEF Resting

\* A pass that has read a slot has read the one that is pending, and a keeper's
\* pass its mark.
LEMMA PassIs ==
  ASSUME IInv, trigger # Absent
  PROVE  /\ Judging => /\ slot = trigger.slot /\ slot # Absent
                       /\ slot.status = "awaiting_skeptic" /\ trigger.old = hist.adopt
         /\ Keeping => /\ slot = Absent \/ slot.hwm = Absent
                       /\ trigger.hwm = hwm /\ trigger.hwm \in 0..MaxPins
                       /\ trigger.upto \in 0..MaxPins /\ trigger.upto <= hist.pins
                       /\ hwm <= trigger.upto /\ saved <= trigger.upto
<1>1. trigger \in Passes
  BY DEF IInv, Typed, TypedRest
<1>2. CASE trigger \in [job : {"skeptic"}, slot : Slots, old : Fit \union {Absent}]
  <2>1. trigger.job = "skeptic" /\ trigger.slot \in Slots
    BY <1>2
  <2>2. trigger.slot # Absent
    BY <2>1, EvolutionAssumption
  <2> QED BY <2>1, <2>2 DEF IInv, StillJudges, Judging, Keeping
<1>3. CASE trigger \in [job : {"keeper"}, hwm : 0..MaxPins, upto : 0..MaxPins]
  <2>1. trigger.job = "keeper" /\ trigger.hwm \in 0..MaxPins /\ trigger.upto \in 0..MaxPins
    BY <1>3
  <2> QED BY <2>1 DEF IInv, StillKeeps, Judging, Keeping
<1> QED BY <1>1, <1>2, <1>3 DEF Passes

LEMMA RejectKeeps == IInv /\ Reject => IInv'
<1> SUFFICES ASSUME IInv, Reject PROVE IInv'
  OBVIOUS
<1>1. /\ todo = <<>>
      /\ turn = "talk" /\ latched = FALSE /\ seen # Absent /\ by' \in {"none", "tool"}
      /\ slot # Absent /\ slot.status = "awaiting_doll"
      /\ UNCHANGED <<hist, torn, file, slot, saved, hwm, turn, seen, latched, trigger,
                     faults, passed, edited, hurt, glued, decided, owed>>
      /\ todo' = <<LogEvent("reject", slot.text), Clear, Restore(hist.adopt), Latch>>
  BY
     DEF Reject, RejectWrites, Typed, EvolutionTypeOK, IInv, Revise, Revisable,
         Pending, Left, memory, ghosts
<1>2. Resting
  BY <1>1, AtRest
<1> DEFINE a == LogEvent("reject", slot.text)
           b == Clear
           c == Restore(hist.adopt)
           d == Latch
<1>3. /\ todo' \in Seq(Writes) /\ Rising(todo') /\ Ops' = {a, b, c, d}
      /\ a.op = "log" /\ a.kind = "reject" /\ b.op = "clear" /\ ~b.owes
      /\ c.op = "restore" /\ c.text = hist.adopt /\ d.op = "latch"
  <2>1. a \in Writes /\ a.op = "log" /\ a.kind = "reject"
    BY <1>1, <1>2, EventIs DEF Events, Resting
  <2>2. b \in Writes /\ b.op = "clear" /\ ~b.owes
    BY ClearIs
  <2>3. c \in Writes /\ c.op = "restore" /\ c.text = hist.adopt
    BY <1>2, TextIs DEF Resting
  <2>4. d \in Writes /\ d.op = "latch"
    BY MarkIs
  <2>5. todo' = <<a, b, c, d>>
    BY <1>1
  <2> HIDE DEF a, b, c, d
  <2> QED BY <2>1, <2>2, <2>3, <2>4, <2>5, FourIs DEF Place, Ops
<1> HIDE DEF a, b, c, d
<1>4. Typed'
  <2>1. EvolutionTypeOK'
    BY <1>1, <1>2 DEF Typed, EvolutionTypeOK, Resting
  <2>2. TidyList'
    BY <1>3 DEF TidyList
  <2>3. SoundSlots'
    BY <1>1, <1>2, <1>3 DEF SoundSlots, Resting
  <2>4. TypedRest'
    BY <1>1, <1>2, <1>3 DEF Typed, TypedRest, Logs, Resting
  <2> QED BY <2>1, <2>2, <2>3, <2>4 DEF Typed
<1>5. InPrelude'
  BY <1>1 DEF InPrelude
<1>6. StillJudges'
  BY <1>1, <1>2, <1>3 DEF IInv, StillJudges, Judging, Touches, Logs, Resting
<1>7. StillKeeps'
  BY <1>1, <1>2, <1>3 DEF IInv, StillKeeps, Keeping, HasOp, Resting
<1>8. Born'
  BY <1>1, <1>2, <1>3 DEF IInv, Born, OnRecord, Logs, Resting
<1>9. Follows'
  BY <1>1, <1>2, <1>3 DEF Follows, Mended, Held, HasOp, Logs, Resting
<1>10. Evidence'
  BY <1>1, <1>2, <1>3 DEF Evidence, Good, Backed, HasOp, Resting
<1>11. Committing'
  BY <1>1, <1>2, <1>3
     DEF Committing, Good, Backed, HasOp, Logs, Touches, Decisions, Resting
<1>12. Reviewed'
  BY <1>1, <1>2, <1>3 DEF Reviewed, Passed, Logs, Resting
<1>13. InSight'
  BY <1>1, <1>2, <1>3 DEF InSight, HasOp, Touches, Resting
<1> QED BY <1>4, <1>5, <1>6, <1>7, <1>8, <1>9, <1>10, <1>11, <1>12, <1>13 DEF IInv

LEMMA AdoptKeeps == IInv /\ Adopt => IInv'
<1> SUFFICES ASSUME IInv, Adopt PROVE IInv'
  OBVIOUS
<1>1. /\ todo = <<>>
      /\ turn = "talk" /\ latched = FALSE /\ seen # Absent /\ by' \in {"none", "tool"}
      /\ slot # Absent /\ slot.status = "awaiting_doll"
      /\ UNCHANGED <<hist, torn, file, slot, saved, hwm, turn, seen, latched, trigger,
                     faults, passed, edited, hurt, glued, decided, owed>>
      /\ todo' = <<LogEvent("adopt", slot.text), Write(slot.text), Clear, Latch>>
  BY
     DEF Adopt, AdoptWrites, Typed, EvolutionTypeOK, IInv, Revise, Revisable,
         Pending, Left, memory, ghosts
<1>2. Resting
  BY <1>1, AtRest
<1> DEFINE a == LogEvent("adopt", slot.text)
           b == Write(slot.text)
           c == Clear
           d == Latch
<1>3. /\ todo' \in Seq(Writes) /\ Rising(todo') /\ Ops' = {a, b, c, d}
      /\ a.op = "log" /\ a.kind = "adopt" /\ a.text = slot.text
      /\ b.op = "write" /\ b.text = slot.text
      /\ c.op = "clear" /\ ~c.owes /\ d.op = "latch"
  <2>1. a \in Writes /\ a.op = "log" /\ a.kind = "adopt" /\ a.text = slot.text
    BY <1>1, <1>2, EventIs DEF Events, Resting
  <2>2. b \in Writes /\ b.op = "write" /\ b.text = slot.text
    BY <1>1, <1>2, TextIs DEF Resting
  <2>3. c \in Writes /\ c.op = "clear" /\ ~c.owes
    BY ClearIs
  <2>4. d \in Writes /\ d.op = "latch"
    BY MarkIs
  <2>5. todo' = <<a, b, c, d>>
    BY <1>1
  <2> HIDE DEF a, b, c, d
  <2> QED BY <2>1, <2>2, <2>3, <2>4, <2>5, FourIs DEF Place, Ops
<1> HIDE DEF a, b, c, d
<1>4. Typed'
  <2>1. EvolutionTypeOK'
    BY <1>1, <1>2 DEF Typed, EvolutionTypeOK, Resting
  <2>2. TidyList'
    BY <1>3 DEF TidyList
  <2>3. SoundSlots'
    BY <1>1, <1>2, <1>3 DEF SoundSlots, Resting
  <2>4. TypedRest'
    BY <1>1, <1>2, <1>3 DEF Typed, TypedRest, Logs, Resting
  <2> QED BY <2>1, <2>2, <2>3, <2>4 DEF Typed
<1>5. InPrelude'
  BY <1>1 DEF InPrelude
<1>6. StillJudges'
  BY <1>1, <1>2, <1>3 DEF IInv, StillJudges, Judging, Touches, Logs, Resting
<1>7. StillKeeps'
  BY <1>1, <1>2, <1>3 DEF IInv, StillKeeps, Keeping, HasOp, Resting
<1>8. Born'
  BY <1>1, <1>2, <1>3 DEF IInv, Born, OnRecord, Logs, Resting
<1>9. Follows'
  BY <1>1, <1>2, <1>3 DEF Follows, Mended, Held, HasOp, Logs, Resting
<1>10. Evidence'
  BY <1>1, <1>2, <1>3 DEF Evidence, Good, Backed, HasOp, Resting
<1>11. Committing'
  BY <1>1, <1>2, <1>3
     DEF Committing, Good, Backed, HasOp, Logs, Touches, Decisions, Resting
<1>12. Reviewed'
  BY <1>1, <1>2, <1>3 DEF Reviewed, Passed, Logs, Resting
<1>13. InSight'
  BY <1>1, <1>2, <1>3 DEF InSight, HasOp, Touches, Resting
<1> QED BY <1>4, <1>5, <1>6, <1>7, <1>8, <1>9, <1>10, <1>11, <1>12, <1>13 DEF IInv

LEMMA CounterKeeps == 
  ASSUME NEW text \in Texts
  PROVE  IInv /\ Counter(text) => IInv'
<1> SUFFICES ASSUME IInv, Counter(text) PROVE IInv'
  OBVIOUS
<1>1. /\ todo = <<>>
      /\ text \in Fit /\ slot.round < RoundCap
      /\ turn = "talk" /\ latched = FALSE /\ seen # Absent /\ by' \in {"none", "tool"}
      /\ slot # Absent /\ slot.status = "awaiting_doll"
      /\ UNCHANGED <<hist, torn, file, slot, saved, hwm, turn, seen, latched, trigger,
                     faults, passed, edited, hurt, glued, decided, owed>>
      /\ todo' = <<LogEvent("counter", text), Save(ToCounter(slot, text)), Latch>>
  BY
     DEF Counter, CounterWrites, Typed, EvolutionTypeOK, IInv, Revise, Revisable,
         Pending, Left, memory, ghosts
<1>2. Resting
  BY <1>1, AtRest
<1> DEFINE a == LogEvent("counter", text)
           s == ToCounter(slot, text)
           b == Save(s)
           c == Latch
<1>3. /\ todo' \in Seq(Writes) /\ Rising(todo') /\ Ops' = {a, b, c}
      /\ a.op = "log" /\ a.kind = "counter" /\ a.text = text /\ text # Absent
      /\ b.op = "slot" /\ b.slot = s /\ ~b.new /\ c.op = "latch"
      /\ Sound(s) /\ s.status = "awaiting_skeptic" /\ s.text = text /\ s.hwm = slot.hwm
      /\ s.fallback # Absent /\ s.fallback.text = slot.text
  <2>1. a \in Writes /\ a.op = "log" /\ a.kind = "counter" /\ a.text = text
    BY <1>1, EventIs DEF Events
  <2>2. /\ Sound(s) /\ s.status = "awaiting_skeptic" /\ s.text = text /\ s.hwm = slot.hwm
        /\ s.fallback # Absent /\ s.fallback.text = slot.text
    BY <1>1, <1>2, CounterIs DEF Resting
  <2>3. b \in Writes /\ b.op = "slot" /\ b.slot = s /\ ~b.new
    BY <2>2, SlotIs DEF Sound
  <2>4. c \in Writes /\ c.op = "latch"
    BY MarkIs
  <2>5. todo' = <<a, b, c>>
    BY <1>1
  <2>6. text # Absent
    BY <1>1, EvolutionAssumption
  <2> HIDE DEF a, b, c, s
  <2> QED BY <2>1, <2>2, <2>3, <2>4, <2>5, <2>6, ThreeIs DEF Place, Ops
<1> HIDE DEF a, b, c, s
<1>4. Typed'
  <2>1. EvolutionTypeOK'
    BY <1>1, <1>2 DEF Typed, EvolutionTypeOK, Resting
  <2>2. TidyList'
    BY <1>3 DEF TidyList
  <2>3. SoundSlots'
    BY <1>1, <1>2, <1>3 DEF SoundSlots, Resting
  <2>4. TypedRest'
    BY <1>1, <1>2, <1>3 DEF Typed, TypedRest, Logs, Resting
  <2> QED BY <2>1, <2>2, <2>3, <2>4 DEF Typed
<1>5. InPrelude'
  BY <1>1 DEF InPrelude
<1>6. StillJudges'
  BY <1>1, <1>2, <1>3 DEF IInv, StillJudges, Judging, Touches, Logs, Resting
<1>7. StillKeeps'
  BY <1>1, <1>2, <1>3 DEF IInv, StillKeeps, Keeping, HasOp, Resting
<1>8. Born'
  BY <1>1, <1>2, <1>3 DEF IInv, Born, OnRecord, Logs, Resting
<1>9. Follows'
  BY <1>1, <1>2, <1>3 DEF Follows, Mended, Held, HasOp, Logs, Resting
<1>10. Evidence'
  BY <1>1, <1>2, <1>3 DEF Evidence, Good, Backed, HasOp, Resting
<1>11. Committing'
  BY <1>1, <1>2, <1>3
     DEF Committing, Good, Backed, HasOp, Logs, Touches, Decisions, Resting
<1>12. Reviewed'
  BY <1>1, <1>2, <1>3 DEF Reviewed, Passed, Logs, Resting
<1>13. InSight'
  BY <1>1, <1>2, <1>3 DEF InSight, HasOp, Touches, Resting
<1> QED BY <1>4, <1>5, <1>6, <1>7, <1>8, <1>9, <1>10, <1>11, <1>12, <1>13 DEF IInv

LEMMA KeeperErrsKeeps == IInv /\ KeeperErrs => IInv'
<1> SUFFICES ASSUME IInv, KeeperErrs PROVE IInv'
  OBVIOUS
<1>1. /\ todo = <<>>
      /\ turn # "prelude" /\ trigger # Absent /\ trigger' = Absent /\ by' \in {"none", "pass"}
      /\ UNCHANGED <<hist, torn, file, slot, saved, hwm, turn, seen, latched, faults,
                     passed, edited, hurt, glued, decided, owed>>
      /\ todo' = <<LogEvent("error", Absent), SaveState>>
  BY DEF KeeperErrs, Keeping, IInv, Answered, Free, Left, ghosts
<1>2. Resting
  BY <1>1, AtRest
<1> DEFINE a == LogEvent("error", Absent)
           c == SaveState
<1>3. /\ todo' \in Seq(Writes) /\ Rising(todo') /\ Ops' = {a, c}
      /\ a.op = "log" /\ a.kind = "error" /\ c.op = "save"
  <2>1. a \in Writes /\ a.op = "log" /\ a.kind = "error"
    BY EventIs DEF Events
  <2>2. c \in Writes /\ c.op = "save"
    BY MarkIs
  <2>3. todo' = <<a, c>>
    BY <1>1
  <2> HIDE DEF a, c
  <2> QED BY <2>1, <2>2, <2>3, TwoIs DEF Ops, Place
<1> HIDE DEF a, c
<1>4. Typed'
  <2>1. EvolutionTypeOK'
    BY <1>1, <1>2 DEF Typed, EvolutionTypeOK, Resting
  <2>2. TidyList'
    BY <1>3 DEF TidyList
  <2>3. SoundSlots'
    BY <1>1, <1>2, <1>3 DEF SoundSlots, Resting
  <2>4. TypedRest'
    BY <1>1, <1>2, <1>3 DEF Typed, TypedRest, Logs, Resting
  <2> QED BY <2>1, <2>2, <2>3, <2>4 DEF Typed
<1>5. InPrelude'
  BY <1>1 DEF InPrelude
<1>6. StillJudges'
  BY <1>1, <1>2, <1>3 DEF IInv, StillJudges, Judging, Touches, Logs, Resting
<1>7. StillKeeps'
  BY <1>1, <1>2, <1>3 DEF IInv, StillKeeps, Keeping, HasOp, Resting
<1>8. Born'
  BY <1>1, <1>2, <1>3 DEF IInv, Born, OnRecord, Logs, Resting
<1>9. Follows'
  BY <1>1, <1>2, <1>3 DEF Follows, Mended, Held, HasOp, Logs, Resting
<1>10. Evidence'
  BY <1>1, <1>2, <1>3 DEF Evidence, Good, Backed, HasOp, Resting
<1>11. Committing'
  BY <1>1, <1>2, <1>3
     DEF Committing, Good, Backed, HasOp, Logs, Touches, Decisions, Resting
<1>12. Reviewed'
  BY <1>1, <1>2, <1>3 DEF Reviewed, Passed, Logs, Resting
<1>13. InSight'
  BY <1>1, <1>2, <1>3 DEF InSight, HasOp, Touches, Resting
<1> QED BY <1>4, <1>5, <1>6, <1>7, <1>8, <1>9, <1>10, <1>11, <1>12, <1>13 DEF IInv

\* A verdict: an event, the mark, the state.
LEMMA VerdictIs ==
  ASSUME NEW k \in Events, NEW t \in Fit \union {Absent}, trigger.upto \in 0..MaxPins
  PROVE  LET q == <<LogEvent(k, t)>> \o Verdicted IN
         /\ q \in Seq(Writes) /\ Rising(q)
         /\ Elems(q) = {LogEvent(k, t), Hwm(trigger.upto, TRUE), SaveState}
<1> DEFINE a == LogEvent(k, t)
           b == Hwm(trigger.upto, TRUE)
           c == SaveState
<1>1. a \in Writes /\ a.op = "log"
  BY EventIs
<1>2. b \in Writes /\ b.op = "hwm" /\ c \in Writes /\ c.op = "save"
  BY MarkIs
<1>3. Verdicted = <<b, c>>
  BY DEF Verdicted
<1> HIDE DEF a, b, c
<1>4. /\ Verdicted \in Seq(Writes) /\ Rising(Verdicted)
      /\ Elems(Verdicted) = {b, c}
  BY <1>2, <1>3, TwoIs DEF Place
<1>5. \A x \in Elems(Verdicted) : Place(a.op) < Place(x.op)
  BY <1>1, <1>2, <1>4 DEF Place
<1>6. /\ <<a>> \o Verdicted \in Seq(Writes) /\ Rising(<<a>> \o Verdicted)
      /\ Elems(<<a>> \o Verdicted) = {a} \union Elems(Verdicted)
  BY <1>1, <1>4, <1>5, ConsIs
<1> QED BY <1>4, <1>6 DEF a, b, c

LEMMA NothingKeeps == 
  ASSUME NEW kind \in {"no_change", "kill"}
  PROVE  IInv /\ KeeperFindsNothing(kind) => IInv'
<1> SUFFICES ASSUME IInv, KeeperFindsNothing(kind) PROVE IInv'
  OBVIOUS
<1>1. /\ todo = <<>>
      /\ Keeping
      /\ turn # "prelude" /\ trigger # Absent /\ trigger' = Absent /\ by' \in {"none", "pass"}
      /\ UNCHANGED <<hist, torn, file, slot, saved, hwm, turn, seen, latched, faults,
                     passed, edited, hurt, glued, decided, owed>>
      /\ todo' = <<LogEvent(kind, Absent)>> \o Verdicted
  BY DEF KeeperFindsNothing, Keeping, IInv, Answered, Free, Left, ghosts
<1>2. Resting
  BY <1>1, AtRest
<1> DEFINE a == LogEvent(kind, Absent)
           b == Hwm(trigger.upto, TRUE)
           c == SaveState
<1>3. /\ slot = Absent \/ slot.hwm = Absent
      /\ trigger.upto \in 0..MaxPins /\ trigger.upto <= hist.pins
      /\ hwm <= trigger.upto /\ saved <= trigger.upto
  BY <1>1, PassIs
<1>4. /\ todo' \in Seq(Writes) /\ Rising(todo') /\ Ops' = {a, b, c}
      /\ a.op = "log" /\ a.kind = kind /\ c.op = "save"
      /\ b.op = "hwm" /\ b.final /\ b.to = trigger.upto
  <2>1. a.op = "log" /\ a.kind = kind
    BY <1>1, EventIs DEF Events
  <2>2. b.op = "hwm" /\ b.to = trigger.upto /\ b.final /\ c.op = "save"
    BY <1>3, MarkIs
  <2>3. kind \in Events
    BY <1>1 DEF Events
  <2> QED BY <1>1, <1>3, <2>1, <2>2, <2>3, VerdictIs DEF Ops
<1> HIDE DEF a, b, c
<1>5. Typed'
  <2>1. EvolutionTypeOK'
    BY <1>1, <1>2 DEF Typed, EvolutionTypeOK, Resting
  <2>2. TidyList'
    BY <1>4 DEF TidyList
  <2>3. SoundSlots'
    BY <1>1, <1>2, <1>4 DEF SoundSlots, Resting
  <2>4. TypedRest'
    BY <1>1, <1>2, <1>4 DEF Typed, TypedRest, Logs, Resting
  <2> QED BY <2>1, <2>2, <2>3, <2>4 DEF Typed
<1>6. InPrelude'
  BY <1>1 DEF InPrelude
<1>7. StillJudges'
  BY <1>1, <1>2, <1>4 DEF IInv, StillJudges, Judging, Touches, Logs, Resting
<1>8. StillKeeps'
  BY <1>1, <1>2, <1>4 DEF IInv, StillKeeps, Keeping, HasOp, Resting
<1>9. Born'
  BY <1>1, <1>2, <1>4 DEF IInv, Born, OnRecord, Logs, Resting
<1>10. Follows'
  BY <1>1, <1>2, <1>4 DEF Follows, Mended, Held, HasOp, Logs, Resting
<1>11. Evidence'
  BY <1>1, <1>2, <1>4 DEF Evidence, Good, Backed, HasOp, Resting
<1>12. Committing'
  BY <1>1, <1>2, <1>3, <1>4
     DEF Committing, Good, Backed, HasOp, Logs, Touches, Decisions, Resting
<1>13. Reviewed'
  BY <1>1, <1>2, <1>4 DEF Reviewed, Passed, Logs, Resting
<1>14. InSight'
  BY <1>1, <1>2, <1>4 DEF InSight, HasOp, Touches, Resting
<1> QED BY <1>5, <1>6, <1>7, <1>8, <1>9, <1>10, <1>11, <1>12, <1>13, <1>14 DEF IInv

LEMMA YieldKeeps == 
  ASSUME NEW text \in Texts
  PROVE  IInv /\ KeeperProposes(text) /\ slot # Absent => IInv'
<1> SUFFICES ASSUME IInv, KeeperProposes(text) /\ slot # Absent PROVE IInv'
  OBVIOUS
<1>1. /\ todo = <<>>
      /\ Keeping /\ text \in Fit /\ slot # Absent
      /\ turn # "prelude" /\ trigger # Absent /\ trigger' = Absent /\ by' \in {"none", "pass"}
      /\ UNCHANGED <<hist, torn, file, slot, saved, hwm, turn, seen, latched, faults,
                     passed, edited, hurt, glued, decided, owed>>
      /\ todo' = <<LogEvent("kill", text)>> \o Verdicted
  BY DEF KeeperProposes, KeeperWrites, Keeping, IInv, Answered, Free, Left, ghosts
<1>2. Resting
  BY <1>1, AtRest
<1> DEFINE a == LogEvent("kill", text)
           b == Hwm(trigger.upto, TRUE)
           c == SaveState
<1>3. /\ slot = Absent \/ slot.hwm = Absent
      /\ trigger.upto \in 0..MaxPins /\ trigger.upto <= hist.pins
      /\ hwm <= trigger.upto /\ saved <= trigger.upto
  BY <1>1, PassIs
<1>4. /\ todo' \in Seq(Writes) /\ Rising(todo') /\ Ops' = {a, b, c}
      /\ a.op = "log" /\ a.kind = "kill" /\ c.op = "save"
      /\ b.op = "hwm" /\ b.final /\ b.to = trigger.upto
  <2>1. a.op = "log" /\ a.kind = "kill"
    BY <1>1, EventIs DEF Events
  <2>2. b.op = "hwm" /\ b.to = trigger.upto /\ b.final /\ c.op = "save"
    BY <1>3, MarkIs
  <2>3. "kill" \in Events
    BY <1>1 DEF Events
  <2> QED BY <1>1, <1>3, <2>1, <2>2, <2>3, VerdictIs DEF Ops
<1> HIDE DEF a, b, c
<1>5. Typed'
  <2>1. EvolutionTypeOK'
    BY <1>1, <1>2 DEF Typed, EvolutionTypeOK, Resting
  <2>2. TidyList'
    BY <1>4 DEF TidyList
  <2>3. SoundSlots'
    BY <1>1, <1>2, <1>4 DEF SoundSlots, Resting
  <2>4. TypedRest'
    BY <1>1, <1>2, <1>4 DEF Typed, TypedRest, Logs, Resting
  <2> QED BY <2>1, <2>2, <2>3, <2>4 DEF Typed
<1>6. InPrelude'
  BY <1>1 DEF InPrelude
<1>7. StillJudges'
  BY <1>1, <1>2, <1>4 DEF IInv, StillJudges, Judging, Touches, Logs, Resting
<1>8. StillKeeps'
  BY <1>1, <1>2, <1>4 DEF IInv, StillKeeps, Keeping, HasOp, Resting
<1>9. Born'
  BY <1>1, <1>2, <1>4 DEF IInv, Born, OnRecord, Logs, Resting
<1>10. Follows'
  BY <1>1, <1>2, <1>4 DEF Follows, Mended, Held, HasOp, Logs, Resting
<1>11. Evidence'
  BY <1>1, <1>2, <1>4 DEF Evidence, Good, Backed, HasOp, Resting
<1>12. Committing'
  BY <1>1, <1>2, <1>3, <1>4
     DEF Committing, Good, Backed, HasOp, Logs, Touches, Decisions, Resting
<1>13. Reviewed'
  BY <1>1, <1>2, <1>4 DEF Reviewed, Passed, Logs, Resting
<1>14. InSight'
  BY <1>1, <1>2, <1>4 DEF InSight, HasOp, Touches, Resting
<1> QED BY <1>5, <1>6, <1>7, <1>8, <1>9, <1>10, <1>11, <1>12, <1>13, <1>14 DEF IInv

LEMMA ProposeKeeps == 
  ASSUME NEW text \in Texts
  PROVE  IInv /\ KeeperProposes(text) /\ slot = Absent => IInv'
<1> SUFFICES ASSUME IInv, KeeperProposes(text) /\ slot = Absent PROVE IInv'
  OBVIOUS
<1>1. /\ todo = <<>>
      /\ Keeping /\ text \in Fit /\ slot = Absent
      /\ turn # "prelude" /\ trigger # Absent /\ trigger' = Absent /\ by' \in {"none", "pass"}
      /\ UNCHANGED <<hist, torn, file, slot, saved, hwm, turn, seen, latched, faults,
                     passed, edited, hurt, glued, decided, owed>>
      /\ todo' = <<LogEvent("candidate", text), Birth(KeeperSlot(text, trigger.hwm)),
                  Hwm(trigger.upto, FALSE), SaveState>>
  BY DEF KeeperProposes, KeeperWrites, Keeping, IInv, Answered, Free, Left, ghosts
<1>2. Resting
  BY <1>1, AtRest
<1> DEFINE a == LogEvent("candidate", text)
           s == KeeperSlot(text, trigger.hwm)
           b == Birth(s)
           c == Hwm(trigger.upto, FALSE)
           d == SaveState
<1>3. /\ trigger.upto \in 0..MaxPins /\ trigger.upto <= hist.pins
      /\ trigger.hwm = hwm /\ trigger.hwm \in 0..MaxPins
      /\ hwm <= trigger.upto /\ saved <= trigger.upto
  BY <1>1, PassIs
<1>4. /\ todo' \in Seq(Writes) /\ Rising(todo') /\ Ops' = {a, b, c, d}
      /\ a.op = "log" /\ a.kind = "candidate" /\ a.text = text /\ text # Absent
      /\ b.op = "slot" /\ b.new /\ b.slot = s /\ d.op = "save"
      /\ c.op = "hwm" /\ ~c.final /\ c.to = trigger.upto
      /\ Sound(s) /\ s.kind = "keeper" /\ s.text = text /\ s.fallback = Absent
      /\ s.hwm = hwm /\ s.hwm # Absent
  <2>1. a \in Writes /\ a.op = "log" /\ a.kind = "candidate" /\ a.text = text
    BY <1>1, EventIs DEF Events
  <2>2. /\ Sound(s) /\ s.kind = "keeper" /\ s.text = text /\ s.fallback = Absent
        /\ s.hwm = hwm
    BY <1>1, <1>3, KeeperIs
  <2>3. b \in Writes /\ b.op = "slot" /\ b.new /\ b.slot = s
    BY <2>2, SlotIs DEF Sound
  <2>4. /\ c \in Writes /\ c.op = "hwm" /\ ~c.final /\ c.to = trigger.upto
        /\ d \in Writes /\ d.op = "save"
    BY <1>3, MarkIs
  <2>5. text # Absent /\ hwm # Absent
    BY <1>1, <1>2, EvolutionAssumption DEF Resting
  <2>6. todo' = <<a, b, c, d>>
    BY <1>1
  <2> HIDE DEF a, b, c, d, s
  <2> QED BY <2>1, <2>2, <2>3, <2>4, <2>5, <2>6, FourIs DEF Place, Ops
<1> HIDE DEF a, b, c, d, s
<1>5. Typed'
  <2>1. EvolutionTypeOK'
    BY <1>1, <1>2 DEF Typed, EvolutionTypeOK, Resting
  <2>2. TidyList'
    BY <1>4 DEF TidyList
  <2>3. SoundSlots'
    BY <1>1, <1>2, <1>4 DEF SoundSlots, Resting
  <2>4. TypedRest'
    BY <1>1, <1>2, <1>4 DEF Typed, TypedRest, Logs, Resting
  <2> QED BY <2>1, <2>2, <2>3, <2>4 DEF Typed
<1>6. InPrelude'
  BY <1>1 DEF InPrelude
<1>7. StillJudges'
  BY <1>1, <1>2, <1>4 DEF IInv, StillJudges, Judging, Touches, Logs, Resting
<1>8. StillKeeps'
  BY <1>1, <1>2, <1>4 DEF IInv, StillKeeps, Keeping, HasOp, Resting
<1>9. Born'
  BY <1>1, <1>2, <1>4 DEF IInv, Born, OnRecord, Logs, Resting
<1>10. Follows'
  BY <1>1, <1>2, <1>4 DEF Follows, Mended, Held, HasOp, Logs, Resting
<1>11. Evidence'
  BY <1>1, <1>2, <1>4 DEF Evidence, Good, Backed, HasOp, Resting
<1>12. Committing'
  <2>1. Good => hwm <= decided
    BY <1>1, <1>2 DEF Backed, Resting
  <2>2. Good' => Good
    BY <1>1 DEF Good
  <2> QED BY <1>1, <1>2, <1>3, <1>4, <2>1, <2>2, SMTT(60)
     DEF Committing, Backed, HasOp, Logs, Touches, Decisions, Resting
<1>13. Reviewed'
  BY <1>1, <1>2, <1>4 DEF Reviewed, Passed, Logs, Resting
<1>14. InSight'
  BY <1>1, <1>2, <1>4 DEF InSight, HasOp, Touches, Resting
<1> QED BY <1>5, <1>6, <1>7, <1>8, <1>9, <1>10, <1>11, <1>12, <1>13, <1>14 DEF IInv

LEMMA PassesKeeps == IInv /\ SkepticPasses => IInv'
<1> SUFFICES ASSUME IInv, SkepticPasses PROVE IInv'
  OBVIOUS
<1>1. /\ todo = <<>>
      /\ Judging /\ passed' = passed \union {trigger.slot.text}
      /\ turn # "prelude" /\ trigger # Absent /\ trigger' = Absent /\ by' \in {"none", "pass"}
      /\ UNCHANGED <<hist, torn, file, slot, saved, hwm, turn, seen, latched, faults,
                     edited, hurt, glued, decided, owed>>
      /\ todo' = <<Save(MarkAwaitingDoll(trigger.slot))>>
  BY DEF SkepticPasses, Judging, IInv, Answered, Free, Left, ghosts
<1>2. Resting
  BY <1>1, AtRest
<1> DEFINE s == MarkAwaitingDoll(slot)
           a == Save(s)
<1>3. trigger.slot = slot /\ slot # Absent /\ slot.status = "awaiting_skeptic"
  BY <1>1, PassIs
<1>4. /\ todo' \in Seq(Writes) /\ Rising(todo') /\ Ops' = {a}
      /\ a.op = "slot" /\ a.slot = s /\ ~a.new
      /\ Sound(s) /\ s.status = "awaiting_doll" /\ s.text = slot.text
      /\ s.hwm = slot.hwm /\ s.fallback = Absent
  <2>1. /\ Sound(s) /\ s.status = "awaiting_doll" /\ s.text = slot.text
        /\ s.hwm = slot.hwm /\ s.fallback = Absent
    BY <1>2, <1>3, MarkedIs DEF Resting
  <2>2. a \in Writes /\ a.op = "slot" /\ a.slot = s /\ ~a.new
    BY <2>1, SlotIs DEF Sound
  <2>3. todo' = <<a>>
    BY <1>1, <1>3
  <2> HIDE DEF a, s
  <2> QED BY <2>1, <2>2, <2>3, OneIs DEF Ops
<1> HIDE DEF a, s
<1>5. Typed'
  <2>1. EvolutionTypeOK'
    BY <1>1, <1>2 DEF Typed, EvolutionTypeOK, Resting
  <2>2. TidyList'
    BY <1>4 DEF TidyList
  <2>3. SoundSlots'
    BY <1>1, <1>2, <1>4 DEF SoundSlots, Resting
  <2>4. TypedRest'
    BY <1>1, <1>2, <1>3, <1>4 DEF Typed, TypedRest, Logs, Resting
  <2> QED BY <2>1, <2>2, <2>3, <2>4 DEF Typed
<1>6. InPrelude'
  BY <1>1 DEF InPrelude
<1>7. StillJudges'
  BY <1>1, <1>2, <1>4 DEF IInv, StillJudges, Judging, Touches, Logs, Resting
<1>8. StillKeeps'
  BY <1>1, <1>2, <1>4 DEF IInv, StillKeeps, Keeping, HasOp, Resting
<1>9. Born'
  BY <1>1, <1>2, <1>3, <1>4 DEF IInv, Born, OnRecord, Logs, Resting
<1>10. Follows'
  BY <1>1, <1>2, <1>3, <1>4 DEF Follows, Mended, Held, HasOp, Logs, Resting
<1>11. Evidence'
  BY <1>1, <1>2, <1>4 DEF Evidence, Good, Backed, HasOp, Resting
<1>12. Committing'
  BY <1>1, <1>2, <1>3, <1>4
     DEF Committing, Good, Backed, HasOp, Logs, Touches, Decisions, Resting
<1>13. Reviewed'
  BY <1>1, <1>2, <1>3, <1>4 DEF Reviewed, Passed, Logs, Resting
<1>14. InSight'
  BY <1>1, <1>2, <1>3, <1>4 DEF InSight, HasOp, Touches, Resting
<1> QED BY <1>5, <1>6, <1>7, <1>8, <1>9, <1>10, <1>11, <1>12, <1>13, <1>14 DEF IInv

LEMMA RevertKeeps == IInv /\ SkepticKills /\ slot.kind = "counter" => IInv'
<1> SUFFICES ASSUME IInv, SkepticKills /\ slot.kind = "counter" PROVE IInv'
  OBVIOUS
<1>1. /\ todo = <<>>
      /\ Judging /\ slot.kind = "counter"
      /\ turn # "prelude" /\ trigger # Absent /\ trigger' = Absent /\ by' \in {"none", "pass"}
      /\ UNCHANGED <<hist, torn, file, slot, saved, hwm, turn, seen, latched, faults,
                     passed, edited, hurt, glued, decided, owed>>
      /\ todo' = KillWrites
  BY DEF SkepticKills, Judging, IInv, Answered, Free, Left, ghosts
<1>2. Resting
  BY <1>1, AtRest
<1>3. /\ trigger.slot = slot /\ slot # Absent /\ slot.status = "awaiting_skeptic"
      /\ trigger.old = hist.adopt
  BY <1>1, PassIs
<1> DEFINE a == LogEvent("kill", slot.text)
           s == RevertToFallback(slot)
           b == Save(s)
<1>4. /\ todo' \in Seq(Writes) /\ Rising(todo') /\ Ops' = {a, b}
      /\ a.op = "log" /\ a.kind = "kill" /\ b.op = "slot" /\ b.slot = s /\ ~b.new
      /\ Sound(s) /\ s.status = "awaiting_doll" /\ s.text = slot.fallback.text
      /\ s.hwm = slot.hwm /\ s.fallback = Absent /\ slot.fallback # Absent
  <2>1. a \in Writes /\ a.op = "log" /\ a.kind = "kill"
    BY <1>2, <1>3, EventIs DEF Events, Resting
  <2>2. slot.fallback # Absent
    BY <1>1, <1>2, <1>3 DEF Sound, Resting
  <2>3. /\ Sound(s) /\ s.status = "awaiting_doll" /\ s.text = slot.fallback.text
        /\ s.hwm = slot.hwm /\ s.fallback = Absent
    BY <1>2, <1>3, <2>2, RevertIs DEF Resting
  <2>4. b \in Writes /\ b.op = "slot" /\ b.slot = s /\ ~b.new
    BY <2>3, SlotIs DEF Sound
  <2>5. todo' = <<a>> \o <<b>>
    BY <1>1, <1>3 DEF KillWrites
  <2> HIDE DEF a, b, s
  <2>6. <<a>> \in Seq(Writes) /\ Rising(<<a>>) /\ Elems(<<a>>) = {a}
    BY <2>1, OneIs
  <2>7. todo' \in Seq(Writes) /\ Rising(todo') /\ Ops' = {a, b}
    BY <2>1, <2>4, <2>5, <2>6, AppendIs DEF Place, Ops
  <2> QED BY <2>1, <2>2, <2>3, <2>4, <2>7
<1> HIDE DEF a, b, s
<1>5. Typed'
  <2>1. EvolutionTypeOK'
    BY <1>1, <1>2 DEF Typed, EvolutionTypeOK, Resting
  <2>2. TidyList'
    BY <1>4 DEF TidyList
  <2>3. SoundSlots'
    BY <1>1, <1>2, <1>4 DEF SoundSlots, Resting
  <2>4. TypedRest'
    BY <1>1, <1>2, <1>3, <1>4 DEF Typed, TypedRest, Logs, Resting
  <2> QED BY <2>1, <2>2, <2>3, <2>4 DEF Typed
<1>6. InPrelude'
  BY <1>1 DEF InPrelude
<1>7. StillJudges'
  BY <1>1, <1>2, <1>4 DEF IInv, StillJudges, Judging, Touches, Logs, Resting
<1>8. StillKeeps'
  BY <1>1, <1>2, <1>4 DEF IInv, StillKeeps, Keeping, HasOp, Resting
<1>9. Born'
  BY <1>1, <1>2, <1>3, <1>4 DEF IInv, Born, OnRecord, Logs, Resting
<1>10. Follows'
  BY <1>1, <1>2, <1>3, <1>4 DEF Follows, Mended, Held, HasOp, Logs, Resting
<1>11. Evidence'
  BY <1>1, <1>2, <1>3, <1>4 DEF Evidence, Good, Backed, HasOp, Resting
<1>12. Committing'
  BY <1>1, <1>2, <1>3, <1>4
     DEF Committing, Good, Backed, HasOp, Logs, Touches, Decisions, Resting
<1>13. Reviewed'
  BY <1>1, <1>2, <1>3, <1>4 DEF Reviewed, Passed, Logs, Resting
<1>14. InSight'
  BY <1>1, <1>2, <1>3, <1>4 DEF InSight, HasOp, Touches, Resting
<1> QED BY <1>5, <1>6, <1>7, <1>8, <1>9, <1>10, <1>11, <1>12, <1>13, <1>14 DEF IInv

LEMMA KillKeeps == IInv /\ SkepticKills /\ slot.kind # "counter" => IInv'
<1> SUFFICES ASSUME IInv, SkepticKills /\ slot.kind # "counter" PROVE IInv'
  OBVIOUS
<1>1. /\ todo = <<>>
      /\ Judging /\ slot.kind # "counter"
      /\ turn # "prelude" /\ trigger # Absent /\ trigger' = Absent /\ by' \in {"none", "pass"}
      /\ UNCHANGED <<hist, torn, file, slot, saved, hwm, turn, seen, latched, faults,
                     passed, edited, hurt, glued, decided, owed>>
      /\ todo' = KillWrites
  BY DEF SkepticKills, Judging, IInv, Answered, Free, Left, ghosts
<1>2. Resting
  BY <1>1, AtRest
<1>3. /\ trigger.slot = slot /\ slot # Absent /\ slot.status = "awaiting_skeptic"
      /\ trigger.old = hist.adopt
  BY <1>1, PassIs
<1> DEFINE a == LogEvent("kill", slot.text)
           b == Clear
           c == Restore(hist.adopt)
<1>4. /\ todo' \in Seq(Writes) /\ Rising(todo') /\ Ops' = {a, b, c}
      /\ a.op = "log" /\ a.kind = "kill" /\ b.op = "clear" /\ ~b.owes
      /\ c.op = "restore" /\ c.text = hist.adopt /\ slot.hwm = Absent
  <2>1. a \in Writes /\ a.op = "log" /\ a.kind = "kill"
    BY <1>2, <1>3, EventIs DEF Events, Resting
  <2>2. b \in Writes /\ b.op = "clear" /\ ~b.owes
    BY ClearIs
  <2>3. c \in Writes /\ c.op = "restore" /\ c.text = hist.adopt
    BY <1>2, TextIs DEF Resting
  <2>4. slot.hwm = Absent
    BY <1>1, <1>2, <1>3 DEF Sound, Resting
  <2>5. todo' = <<a>> \o <<b, c>>
    BY <1>1, <1>3 DEF KillWrites
  <2> HIDE DEF a, b, c
  <2>6. <<b, c>> \in Seq(Writes) /\ Rising(<<b, c>>) /\ Elems(<<b, c>>) = {b, c}
    BY <2>2, <2>3, TwoIs DEF Place
  <2>7. todo' \in Seq(Writes) /\ Rising(todo') /\ Ops' = {a, b, c}
    <3>1. \A x \in Elems(<<b, c>>) : Place(a.op) < Place(x.op)
      BY <2>1, <2>2, <2>3, <2>6 DEF Place
    <3> QED BY <2>1, <2>5, <2>6, <3>1, ConsIs DEF Ops
  <2> QED BY <2>1, <2>2, <2>3, <2>4, <2>7
<1> HIDE DEF a, b, c
<1>5. Typed'
  <2>1. EvolutionTypeOK'
    BY <1>1, <1>2 DEF Typed, EvolutionTypeOK, Resting
  <2>2. TidyList'
    BY <1>4 DEF TidyList
  <2>3. SoundSlots'
    BY <1>1, <1>2, <1>4 DEF SoundSlots, Resting
  <2>4. TypedRest'
    BY <1>1, <1>2, <1>3, <1>4 DEF Typed, TypedRest, Logs, Resting
  <2> QED BY <2>1, <2>2, <2>3, <2>4 DEF Typed
<1>6. InPrelude'
  BY <1>1 DEF InPrelude
<1>7. StillJudges'
  BY <1>1, <1>2, <1>4 DEF IInv, StillJudges, Judging, Touches, Logs, Resting
<1>8. StillKeeps'
  BY <1>1, <1>2, <1>4 DEF IInv, StillKeeps, Keeping, HasOp, Resting
<1>9. Born'
  BY <1>1, <1>2, <1>3, <1>4 DEF IInv, Born, OnRecord, Logs, Resting
<1>10. Follows'
  BY <1>1, <1>2, <1>3, <1>4 DEF Follows, Mended, Held, HasOp, Logs, Resting
<1>11. Evidence'
  BY <1>1, <1>2, <1>3, <1>4 DEF Evidence, Good, Backed, HasOp, Resting
<1>12. Committing'
  BY <1>1, <1>2, <1>3, <1>4
     DEF Committing, Good, Backed, HasOp, Logs, Touches, Decisions, Resting
<1>13. Reviewed'
  BY <1>1, <1>2, <1>3, <1>4 DEF Reviewed, Passed, Logs, Resting
<1>14. InSight'
  BY <1>1, <1>2, <1>3, <1>4 DEF InSight, HasOp, Touches, Resting
<1> QED BY <1>5, <1>6, <1>7, <1>8, <1>9, <1>10, <1>11, <1>12, <1>13, <1>14 DEF IInv

LEMMA ErrsOutKeeps == IInv /\ SkepticErrs /\ trigger.slot.errors + 1 = ErrorBound => IInv'
<1> SUFFICES ASSUME IInv, SkepticErrs /\ trigger.slot.errors + 1 = ErrorBound PROVE IInv'
  OBVIOUS
<1>1. /\ todo = <<>>
      /\ Judging /\ trigger.slot.errors + 1 = ErrorBound
      /\ turn # "prelude" /\ trigger # Absent /\ trigger' = Absent /\ by' \in {"none", "pass"}
      /\ UNCHANGED <<hist, torn, file, slot, saved, hwm, turn, seen, latched, faults,
                     passed, edited, hurt, glued, decided, owed>>
      /\ todo' = ErrorWrites
  BY DEF SkepticErrs, Judging, IInv, Answered, Free, Left, ghosts
<1>2. Resting
  BY <1>1, AtRest
<1>3. /\ trigger.slot = slot /\ slot # Absent /\ slot.status = "awaiting_skeptic"
      /\ trigger.old = hist.adopt
  BY <1>1, PassIs
<1> DEFINE s == [slot EXCEPT !.errors = @ + 1]
           a == LogEvent("expire", s.text)
           b == ClearExpired(s)
           c == Restore(hist.adopt)
           d == Hwm(s.hwm, FALSE)
           e == SaveState
<1>4. /\ todo' \in Seq(Writes) /\ Rising(todo')
      /\ Ops' = {a, b, c} \union (IF slot.hwm = Absent THEN {} ELSE {d}) \union {e}
      /\ a.op = "log" /\ a.kind = "expire" /\ b.op = "clear" /\ (b.owes <=> slot.hwm # Absent)
      /\ c.op = "restore" /\ c.text = hist.adopt
      /\ slot.hwm # Absent => d.op = "hwm" /\ ~d.final /\ d.to = slot.hwm
      /\ e.op = "save"
  <2>1. s.text = slot.text /\ s.hwm = slot.hwm /\ s.errors = ErrorBound
    BY <1>1, <1>2, <1>3, ErredIs DEF Sound, Slots, Resting
  <2>2. todo' = Expire(s, hist.adopt) \o <<e>>
    BY <1>1, <1>3, <2>1 DEF ErrorWrites
  <2> HIDE DEF s
  <2>3. /\ todo' \in Seq(Writes) /\ Rising(todo')
        /\ Ops' = {a, b, c} \union (IF slot.hwm = Absent THEN {} ELSE {d}) \union {e}
    BY <1>2, <1>3, <2>1, <2>2, ExpireIs DEF Ops, Resting
  <2>4. a.op = "log" /\ a.kind = "expire"
    BY <1>2, <1>3, <2>1, EventIs DEF Events, Resting
  <2>5. b.op = "clear" /\ (b.owes <=> slot.hwm # Absent)
    BY <2>1, ClearIs
  <2>6. c.op = "restore" /\ c.text = hist.adopt
    BY <1>2, TextIs DEF Resting
  <2>7. e.op = "save" /\ (slot.hwm # Absent => d.op = "hwm" /\ ~d.final /\ d.to = slot.hwm)
    BY <1>2, <1>3, <2>1, MarkIs, ZenonT(60) DEF Resting
  <2> QED BY <2>3, <2>4, <2>5, <2>6, <2>7
<1> HIDE DEF a, b, c, d, e, s
<1>5. Typed'
  <2>1. EvolutionTypeOK'
    BY <1>1, <1>2 DEF Typed, EvolutionTypeOK, Resting
  <2>2. TidyList'
    BY <1>4 DEF TidyList
  <2>3. SoundSlots'
    BY <1>1, <1>2, <1>4 DEF SoundSlots, Resting
  <2>4. TypedRest'
    BY <1>1, <1>2, <1>3, <1>4 DEF Typed, TypedRest, Logs, Resting
  <2> QED BY <2>1, <2>2, <2>3, <2>4 DEF Typed
<1>6. InPrelude'
  BY <1>1 DEF InPrelude
<1>7. StillJudges'
  BY <1>1, <1>2, <1>4 DEF IInv, StillJudges, Judging, Touches, Logs, Resting
<1>8. StillKeeps'
  BY <1>1, <1>2, <1>4 DEF IInv, StillKeeps, Keeping, HasOp, Resting
<1>9. Born'
  BY <1>1, <1>2, <1>3, <1>4 DEF IInv, Born, OnRecord, Logs, Resting
<1>10. Follows'
  BY <1>1, <1>2, <1>3, <1>4 DEF Follows, Mended, Held, HasOp, Logs, Resting
<1>11. Evidence'
  BY <1>1, <1>2, <1>3, <1>4 DEF Evidence, Good, Backed, HasOp, Resting
<1>12. Committing'
  BY <1>1, <1>2, <1>3, <1>4
     DEF Committing, Good, Backed, HasOp, Logs, Touches, Decisions, Resting
<1>13. Reviewed'
  BY <1>1, <1>2, <1>3, <1>4 DEF Reviewed, Passed, Logs, Resting
<1>14. InSight'
  BY <1>1, <1>2, <1>3, <1>4 DEF InSight, HasOp, Touches, Resting
<1> QED BY <1>5, <1>6, <1>7, <1>8, <1>9, <1>10, <1>11, <1>12, <1>13, <1>14 DEF IInv

LEMMA ErrsKeeps == IInv /\ SkepticErrs /\ trigger.slot.errors + 1 # ErrorBound => IInv'
<1> SUFFICES ASSUME IInv, SkepticErrs /\ trigger.slot.errors + 1 # ErrorBound PROVE IInv'
  OBVIOUS
<1>1. /\ todo = <<>>
      /\ Judging /\ trigger.slot.errors + 1 # ErrorBound
      /\ turn # "prelude" /\ trigger # Absent /\ trigger' = Absent /\ by' \in {"none", "pass"}
      /\ UNCHANGED <<hist, torn, file, slot, saved, hwm, turn, seen, latched, faults,
                     passed, edited, hurt, glued, decided, owed>>
      /\ todo' = ErrorWrites
  BY DEF SkepticErrs, Judging, IInv, Answered, Free, Left, ghosts
<1>2. Resting
  BY <1>1, AtRest
<1>3. /\ trigger.slot = slot /\ slot # Absent /\ slot.status = "awaiting_skeptic"
      /\ trigger.old = hist.adopt
  BY <1>1, PassIs
<1> DEFINE s == [slot EXCEPT !.errors = @ + 1]
           a == LogEvent("error", Absent)
           b == Save(s)
<1>4. /\ todo' \in Seq(Writes) /\ Rising(todo') /\ Ops' = {a, b}
      /\ a.op = "log" /\ a.kind = "error" /\ b.op = "slot" /\ b.slot = s /\ ~b.new
      /\ Sound(s) /\ s.status = slot.status /\ s.text = slot.text
      /\ s.hwm = slot.hwm /\ s.fallback = slot.fallback
  <2>1. slot \in Slots
    BY <1>2, <1>3 DEF Sound, Resting
  <2>2. s.errors = slot.errors + 1
    BY <2>1 DEF Slots
  <2>3. /\ Sound(s) /\ s.status = slot.status /\ s.text = slot.text
        /\ s.hwm = slot.hwm /\ s.fallback = slot.fallback
    BY <1>1, <1>2, <1>3, <2>2, ErredIs DEF Resting
  <2>4. todo' = <<a, b>>
    BY <1>1, <1>3, <2>2 DEF ErrorWrites
  <2>5. a \in Writes /\ a.op = "log" /\ a.kind = "error"
    BY EventIs DEF Events
  <2>6. b \in Writes /\ b.op = "slot" /\ b.slot = s /\ ~b.new
    BY <2>3, SlotIs DEF Sound
  <2> HIDE DEF a, b, s
  <2> QED BY <2>3, <2>4, <2>5, <2>6, TwoIs DEF Place, Ops
<1> HIDE DEF a, b, s
<1>5. Typed'
  <2>1. EvolutionTypeOK'
    BY <1>1, <1>2 DEF Typed, EvolutionTypeOK, Resting
  <2>2. TidyList'
    BY <1>4 DEF TidyList
  <2>3. SoundSlots'
    BY <1>1, <1>2, <1>4 DEF SoundSlots, Resting
  <2>4. TypedRest'
    BY <1>1, <1>2, <1>3, <1>4 DEF Typed, TypedRest, Logs, Resting
  <2> QED BY <2>1, <2>2, <2>3, <2>4 DEF Typed
<1>6. InPrelude'
  BY <1>1 DEF InPrelude
<1>7. StillJudges'
  BY <1>1, <1>2, <1>4 DEF IInv, StillJudges, Judging, Touches, Logs, Resting
<1>8. StillKeeps'
  BY <1>1, <1>2, <1>4 DEF IInv, StillKeeps, Keeping, HasOp, Resting
<1>9. Born'
  BY <1>1, <1>2, <1>3, <1>4 DEF IInv, Born, OnRecord, Logs, Resting
<1>10. Follows'
  BY <1>1, <1>2, <1>3, <1>4 DEF Follows, Mended, Held, HasOp, Logs, Resting
<1>11. Evidence'
  BY <1>1, <1>2, <1>3, <1>4 DEF Evidence, Good, Backed, HasOp, Resting
<1>12. Committing'
  BY <1>1, <1>2, <1>3, <1>4
     DEF Committing, Good, Backed, HasOp, Logs, Touches, Decisions, Resting
<1>13. Reviewed'
  BY <1>1, <1>2, <1>3, <1>4 DEF Reviewed, Passed, Logs, Resting
<1>14. InSight'
  BY <1>1, <1>2, <1>3, <1>4 DEF InSight, HasOp, Touches, Resting
<1> QED BY <1>5, <1>6, <1>7, <1>8, <1>9, <1>10, <1>11, <1>12, <1>13, <1>14 DEF IInv

\* What the tripwire writes: events of an edit or a repair, a restore of the text
\* in force, and a slot for an edit on record when none is pending.
LEMMA TripwireIs ==
  ASSUME IInv, todo = <<>>
  PROVE  LET q == TripwireWrites IN
         /\ q \in Seq(Writes) /\ Rising(q)
         /\ \A x \in Elems(q) :
              \/ Logs(x, {"edit", "repair"})
              \/ x.op = "restore" /\ x.text = hist.adopt
              \/ /\ x.op = "slot" /\ x.new /\ slot = Absent
                 /\ file \in Fit /\ x.slot = ExternalSlot(file)
                 /\ \/ file \in hist.born
                    \/ \E y \in Elems(q) : Logs(y, {"edit"}) /\ y.text = file
         /\ \/ file = hist.adopt \/ slot # Absent
            \/ \E x \in Elems(q) : x.op \in {"restore", "slot"}
<1> DEFINE q == TripwireWrites
           b == Birth(ExternalSlot(file))
           c == Restore(hist.adopt)
<1>1. /\ Typed /\ hist.adopt \in Fit \union {Absent} /\ hist.edit \in Fit \union {Absent}
  BY AtRest DEF Resting
<1>2. c \in Writes /\ c.op = "restore" /\ c.text = hist.adopt
  BY <1>1, TextIs
<1>3. file \in Fit => /\ b \in Writes /\ b.op = "slot" /\ b.new /\ b.slot = ExternalSlot(file)
  BY ExternalIs, SlotIs DEF Sound
<1>4. ASSUME NEW k \in {"edit", "repair"}, NEW t \in Fit \union {Absent}
      PROVE  /\ LogEvent(k, t) \in Writes /\ Logs(LogEvent(k, t), {k})
             /\ LogEvent(k, t).text = t
  <2>1. k \in Events
    BY DEF Events
  <2> QED BY <2>1, EventIs DEF Logs
<1>5. CASE Classified = "in_sync"
  <2>1. q = <<>> /\ file = hist.adopt
    BY <1>5 DEF TripwireWrites, Classified
  <2> QED BY <2>1, EmptyIs
<1>6. CASE \/ Classified = "crash_repair"
           \/ Classified = "new_edit" /\ file \notin Fit
  <2>1. PICK k \in {"edit", "repair"}, t \in Fit \union {Absent} :
          q = <<LogEvent(k, t), Restore(hist.adopt)>>
    BY <1>1, <1>6 DEF TripwireWrites
  <2> DEFINE a == LogEvent(k, t)
  <2>2. a \in Writes /\ Logs(a, {"edit", "repair"})
    BY <1>4 DEF Logs
  <2>3. q = <<a, c>>
    BY <2>1
  <2> HIDE DEF a, c, q
  <2>4. q \in Seq(Writes) /\ Rising(q) /\ Elems(q) = {a, c}
    BY <1>2, <2>2, <2>3, TwoIs DEF Place, Logs
  <2> QED BY <1>2, <2>2, <2>4 DEF q
<1>7. CASE Classified = "already_logged"
  <2>1. file = hist.edit /\ file \in Fit /\ file \in hist.born
    BY <1>1, <1>7 DEF Classified, IInv, Born
  <2>2. CASE slot = Absent
    <3>1. q = <<b>>
      BY <1>7, <2>2 DEF TripwireWrites
    <3> HIDE DEF b, q
    <3>2. q \in Seq(Writes) /\ Rising(q) /\ Elems(q) = {b}
      BY <1>3, <2>1, <3>1, OneIs
    <3> QED BY <1>3, <2>1, <2>2, <3>2 DEF q
  <2>3. CASE slot # Absent
    <3>1. q = <<>>
      BY <1>7, <2>3 DEF TripwireWrites
    <3> QED BY <2>3, <3>1, EmptyIs
  <2> QED BY <2>2, <2>3
<1>8. CASE Classified = "new_edit" /\ file \in Fit
  <2> DEFINE a == LogEvent("edit", file)
  <2>1. a \in Writes /\ Logs(a, {"edit"}) /\ a.text = file /\ a.op = "log"
    BY <1>4, <1>8 DEF Logs
  <2>2. CASE slot = Absent
    <3>1. q = <<a>> \o <<b>>
      BY <1>8, <2>2 DEF TripwireWrites
    <3> HIDE DEF a, b, q
    <3>2. <<a>> \in Seq(Writes) /\ Rising(<<a>>) /\ Elems(<<a>>) = {a}
      BY <2>1, OneIs
    <3>3. b \in Writes /\ \A x \in Elems(<<a>>) : Place(x.op) < Place(b.op)
      BY <1>3, <1>8, <2>1, <3>2 DEF Place
    <3>4. q \in Seq(Writes) /\ Rising(q) /\ Elems(q) = {a, b}
      BY <2>1, <3>1, <3>2, <3>3, AppendIs
    <3> QED BY <1>3, <1>8, <2>1, <2>2, <3>4 DEF q, Logs
  <2>3. CASE slot # Absent
    <3>1. q = <<a>>
      BY <1>8, <2>3 DEF TripwireWrites
    <3> HIDE DEF a, q
    <3>2. q \in Seq(Writes) /\ Rising(q) /\ Elems(q) = {a}
      BY <2>1, <3>1, OneIs
    <3> QED BY <2>1, <2>3, <3>2 DEF q, Logs
  <2> QED BY <2>2, <2>3
<1> QED BY <1>5, <1>6, <1>7, <1>8 DEF Classified

LEMMA BeginKeeps == IInv /\ BeginTurn => IInv'
<1> SUFFICES ASSUME IInv, BeginTurn PROVE IInv'
  OBVIOUS
<1>1. /\ todo = <<>>
      /\ turn' = "prelude" /\ seen' = Absent /\ latched' = FALSE /\ edited' = FALSE
      /\ UNCHANGED <<hist, torn, file, slot, saved, hwm, trigger, faults, passed,
                     hurt, glued, decided, owed>>
      /\ todo' = TripwireWrites
      /\ by' = IF TripwireWrites = <<>> THEN "none" ELSE "turn"
  BY DEF BeginTurn, IInv, Free, Left
<1>2. Resting
  BY <1>1, AtRest
<1>3. /\ todo' \in Seq(Writes) /\ Rising(todo')
      /\ \A x \in Ops' :
           \/ Logs(x, {"edit", "repair"})
           \/ x.op = "restore" /\ x.text = hist.adopt
           \/ /\ x.op = "slot" /\ x.new /\ slot = Absent
              /\ file \in Fit /\ x.slot = ExternalSlot(file)
              /\ \/ file \in hist.born
                 \/ \E y \in Ops' : Logs(y, {"edit"}) /\ y.text = file
      /\ \/ file = hist.adopt \/ slot # Absent
         \/ \E x \in Ops' : x.op \in {"restore", "slot"}
      /\ Ops' = {} \/ by' = "turn"
  <2>1. todo' = <<>> => Ops' = {}
    BY EmptyIs DEF Ops
  <2> QED BY <1>1, <2>1, TripwireIs DEF Ops
<1>4. \A x \in Ops' : x.op = "slot" =>
        /\ Sound(x.slot) /\ x.slot.kind = "external" /\ x.slot.status = "awaiting_skeptic"
        /\ x.slot.text = file /\ x.slot.fallback = Absent /\ x.slot.hwm = Absent
  BY <1>3, ExternalIs DEF Logs
<1>5. Typed'
  <2>1. EvolutionTypeOK'
    BY <1>1, <1>2 DEF Typed, EvolutionTypeOK, Resting
  <2>2. TidyList'
    BY <1>3 DEF TidyList
  <2>3. SoundSlots'
    BY <1>1, <1>2, <1>4 DEF SoundSlots, Resting
  <2>4. TypedRest'
    BY <1>1, <1>2, <1>3 DEF Typed, TypedRest, Logs, Resting
  <2> QED BY <2>1, <2>2, <2>3, <2>4 DEF Typed
<1>6. InPrelude'
  BY <1>1, <1>3 DEF InPrelude, Logs
<1>7. StillJudges'
  <2>1. Judging => slot # Absent /\ slot = trigger.slot /\ slot.status = "awaiting_skeptic"
                   /\ trigger.old = hist.adopt
    BY PassIs DEF Judging
  <2> QED BY <1>1, <1>3, <2>1 DEF StillJudges, Judging, Touches, Logs
<1>8. StillKeeps'
  BY <1>1, <1>2, <1>3, <1>4 DEF IInv, StillKeeps, Keeping, HasOp, Logs, Resting
<1>9. Born'
  BY <1>1, <1>2, <1>3, <1>4 DEF IInv, Born, OnRecord, Logs, Resting
<1>10. Follows'
  BY <1>1, <1>2, <1>3 DEF Follows, Mended, Held, HasOp, Logs, Resting
<1>11. Evidence'
  BY <1>1, <1>2 DEF Evidence, Good, Backed, Resting
<1>12. Committing'
  BY <1>1, <1>2, <1>3, <1>4
     DEF Committing, Good, Backed, HasOp, Logs, Touches, Decisions, Resting
<1>13. Reviewed'
  BY <1>1, <1>2, <1>3, <1>4 DEF Reviewed, Passed, Logs, Resting
<1>14. InSight'
  BY <1>1, <1>3 DEF InSight, Logs
<1> QED BY <1>5, <1>6, <1>7, <1>8, <1>9, <1>10, <1>11, <1>12, <1>13, <1>14 DEF IInv

LEMMA PassByKeeps == 
  ASSUME NEW reflects \in BOOLEAN, NEW old \in BOOLEAN
  PROVE  IInv /\ Render(reflects, old)
     /\ (reflects => ~Pending("awaiting_doll")) => IInv'
<1> SUFFICES ASSUME IInv, Render(reflects, old)
     /\ (reflects => ~Pending("awaiting_doll")) PROVE IInv'
  OBVIOUS
<1>1. /\ todo = <<>>
      /\ turn = "prelude" /\ turn' = "talk" /\ by' \in {"none", "turn"}
      /\ hurt' = (hurt /\ slot # Absent)
      /\ UNCHANGED <<hist, torn, file, slot, saved, hwm, seen, latched, trigger,
                     faults, passed, edited, glued, decided, owed>>
      /\ todo' = <<>>
  BY DEF Render, IInv, Left, SurfaceWrites, Pending
<1>2. Resting
  BY <1>1, AtRest
<1>3. todo' \in Seq(Writes) /\ Rising(todo') /\ Ops' = {}
  BY <1>1, EmptyIs DEF Ops
<1>4. Typed'
  <2>1. EvolutionTypeOK'
    BY <1>1, <1>2 DEF Typed, EvolutionTypeOK, Resting
  <2>2. TidyList'
    BY <1>3 DEF TidyList
  <2>3. SoundSlots'
    BY <1>1, <1>2, <1>3 DEF SoundSlots, Resting
  <2>4. TypedRest'
    BY <1>1, <1>2, <1>3 DEF Typed, TypedRest, Logs, Resting
  <2> QED BY <2>1, <2>2, <2>3, <2>4 DEF Typed
<1>5. InPrelude'
  BY <1>1 DEF InPrelude
<1>6. StillJudges'
  BY <1>1, <1>2, <1>3 DEF IInv, StillJudges, Judging, Touches, Logs, Resting
<1>7. StillKeeps'
  BY <1>1, <1>2, <1>3 DEF IInv, StillKeeps, Keeping, HasOp, Resting
<1>8. Born'
  BY <1>1, <1>2, <1>3 DEF IInv, Born, OnRecord, Logs, Resting
<1>9. Follows'
  BY <1>1, <1>2, <1>3 DEF Follows, Mended, Held, HasOp, Logs, Resting
<1>10. Evidence'
  BY <1>1, <1>2, <1>3 DEF Evidence, Good, Backed, HasOp, Resting
<1>11. Committing'
  BY <1>1, <1>2, <1>3
     DEF Committing, Good, Backed, HasOp, Logs, Touches, Decisions, Resting
<1>12. Reviewed'
  BY <1>1, <1>2, <1>3 DEF Reviewed, Passed, Logs, Resting
<1>13. InSight'
  <2>1. seen = Absent
    BY <1>1 DEF IInv, InPrelude
  <2> QED BY <1>1, <1>2, <1>3, <2>1 DEF InSight, HasOp, Touches, Resting
<1> QED BY <1>4, <1>5, <1>6, <1>7, <1>8, <1>9, <1>10, <1>11, <1>12, <1>13 DEF IInv

LEMMA AdoptedKeeps == 
  ASSUME NEW reflects \in BOOLEAN, NEW old \in BOOLEAN
  PROVE  IInv /\ Render(reflects, old) /\ reflects /\ Pending("awaiting_doll")
     /\ hist.adopt = slot.text => IInv'
<1> SUFFICES ASSUME IInv, Render(reflects, old) /\ reflects /\ Pending("awaiting_doll")
     /\ hist.adopt = slot.text PROVE IInv'
  OBVIOUS
<1>1. /\ todo = <<>>
      /\ slot # Absent /\ slot.status = "awaiting_doll"
      /\ turn = "prelude" /\ turn' = "talk" /\ by' \in {"none", "turn"}
      /\ hurt' = (hurt /\ slot # Absent)
      /\ UNCHANGED <<hist, torn, file, slot, saved, hwm, seen, latched, trigger,
                     faults, passed, edited, glued, decided, owed>>
      /\ todo' = <<LogEvent("slot_after_adopt", hist.adopt), Clear>>
  BY DEF Render, IInv, Left, SurfaceWrites, Pending
<1>2. Resting
  BY <1>1, AtRest
<1> DEFINE a == LogEvent("slot_after_adopt", hist.adopt)
           b == Clear
<1>3. /\ todo' \in Seq(Writes) /\ Rising(todo') /\ Ops' = {a, b}
      /\ a.op = "log" /\ a.kind = "slot_after_adopt" /\ b.op = "clear" /\ ~b.owes
  <2>1. a \in Writes /\ a.op = "log" /\ a.kind = "slot_after_adopt"
    BY <1>2, EventIs DEF Events, Resting
  <2>2. b \in Writes /\ b.op = "clear" /\ ~b.owes
    BY ClearIs
  <2>3. todo' = <<a, b>>
    BY <1>1
  <2> HIDE DEF a, b
  <2> QED BY <2>1, <2>2, <2>3, TwoIs DEF Place, Ops
<1> HIDE DEF a, b
<1>4. Typed'
  <2>1. EvolutionTypeOK'
    BY <1>1, <1>2 DEF Typed, EvolutionTypeOK, Resting
  <2>2. TidyList'
    BY <1>3 DEF TidyList
  <2>3. SoundSlots'
    BY <1>1, <1>2, <1>3 DEF SoundSlots, Resting
  <2>4. TypedRest'
    BY <1>1, <1>2, <1>3 DEF Typed, TypedRest, Logs, Resting
  <2> QED BY <2>1, <2>2, <2>3, <2>4 DEF Typed
<1>5. InPrelude'
  BY <1>1 DEF InPrelude
<1>6. StillJudges'
  BY <1>1, <1>2, <1>3 DEF IInv, StillJudges, Judging, Touches, Logs, Resting
<1>7. StillKeeps'
  BY <1>1, <1>2, <1>3 DEF IInv, StillKeeps, Keeping, HasOp, Resting
<1>8. Born'
  BY <1>1, <1>2, <1>3 DEF IInv, Born, OnRecord, Logs, Resting
<1>9. Follows'
  BY <1>1, <1>2, <1>3 DEF Follows, Mended, Held, HasOp, Logs, Resting
<1>10. Evidence'
  BY <1>1, <1>2, <1>3 DEF Evidence, Good, Backed, HasOp, Resting
<1>11. Committing'
  BY <1>1, <1>2, <1>3
     DEF Committing, Good, Backed, HasOp, Logs, Touches, Decisions, Resting
<1>12. Reviewed'
  BY <1>1, <1>2, <1>3 DEF Reviewed, Passed, Logs, Resting
<1>13. InSight'
  <2>1. seen = Absent
    BY <1>1 DEF IInv, InPrelude
  <2> QED BY <1>1, <1>2, <1>3, <2>1 DEF InSight, HasOp, Touches, Resting
<1> QED BY <1>4, <1>5, <1>6, <1>7, <1>8, <1>9, <1>10, <1>11, <1>12, <1>13 DEF IInv

LEMMA ExpiryKeeps == 
  ASSUME NEW reflects \in BOOLEAN, NEW old \in BOOLEAN
  PROVE  IInv /\ Render(reflects, old) /\ reflects /\ Pending("awaiting_doll")
     /\ hist.adopt # slot.text /\ slot.shown = MaxSurfacings /\ old => IInv'
<1> SUFFICES ASSUME IInv, Render(reflects, old) /\ reflects /\ Pending("awaiting_doll")
     /\ hist.adopt # slot.text /\ slot.shown = MaxSurfacings /\ old PROVE IInv'
  OBVIOUS
<1>1. /\ todo = <<>>
      /\ slot # Absent /\ slot.status = "awaiting_doll"
      /\ turn = "prelude" /\ turn' = "talk" /\ by' \in {"none", "turn"}
      /\ hurt' = (hurt /\ slot # Absent)
      /\ UNCHANGED <<hist, torn, file, slot, saved, hwm, seen, latched, trigger,
                     faults, passed, edited, glued, decided, owed>>
      /\ todo' = Expire(slot, hist.adopt)
  BY DEF Render, IInv, Left, SurfaceWrites, Pending
<1>2. Resting
  BY <1>1, AtRest
<1> DEFINE a == LogEvent("expire", slot.text)
           b == ClearExpired(slot)
           c == Restore(hist.adopt)
           d == Hwm(slot.hwm, FALSE)
<1>3. /\ todo' \in Seq(Writes) /\ Rising(todo')
      /\ Ops' = {a, b, c} \union IF slot.hwm = Absent THEN {} ELSE {d}
      /\ a.op = "log" /\ a.kind = "expire" /\ b.op = "clear" /\ (b.owes <=> slot.hwm # Absent)
      /\ c.op = "restore" /\ c.text = hist.adopt
      /\ slot.hwm # Absent => d.op = "hwm" /\ ~d.final /\ d.to = slot.hwm
  <2>1. /\ todo' \in Seq(Writes) /\ Rising(todo')
        /\ Ops' = {a, b, c} \union IF slot.hwm = Absent THEN {} ELSE {d}
    BY <1>1, <1>2, ExpireIs DEF Ops, Resting
  <2>2. a.op = "log" /\ a.kind = "expire"
    BY <1>1, <1>2, EventIs DEF Events, Resting
  <2>3. b.op = "clear" /\ (b.owes <=> slot.hwm # Absent)
    BY ClearIs
  <2>4. c.op = "restore" /\ c.text = hist.adopt
    BY <1>2, TextIs DEF Resting
  <2>5. slot.hwm # Absent => d.op = "hwm" /\ ~d.final /\ d.to = slot.hwm
    BY <1>1, <1>2, MarkIs DEF Resting
  <2> QED BY <2>1, <2>2, <2>3, <2>4, <2>5
<1> HIDE DEF a, b, c, d
<1>4. Typed'
  <2>1. EvolutionTypeOK'
    BY <1>1, <1>2 DEF Typed, EvolutionTypeOK, Resting
  <2>2. TidyList'
    BY <1>3 DEF TidyList
  <2>3. SoundSlots'
    BY <1>1, <1>2, <1>3 DEF SoundSlots, Resting
  <2>4. TypedRest'
    BY <1>1, <1>2, <1>3 DEF Typed, TypedRest, Logs, Resting
  <2> QED BY <2>1, <2>2, <2>3, <2>4 DEF Typed
<1>5. InPrelude'
  BY <1>1 DEF InPrelude
<1>6. StillJudges'
  BY <1>1, <1>2, <1>3 DEF IInv, StillJudges, Judging, Touches, Logs, Resting
<1>7. StillKeeps'
  BY <1>1, <1>2, <1>3 DEF IInv, StillKeeps, Keeping, HasOp, Resting
<1>8. Born'
  BY <1>1, <1>2, <1>3 DEF IInv, Born, OnRecord, Logs, Resting
<1>9. Follows'
  BY <1>1, <1>2, <1>3 DEF Follows, Mended, Held, HasOp, Logs, Resting
<1>10. Evidence'
  BY <1>1, <1>2, <1>3 DEF Evidence, Good, Backed, HasOp, Resting
<1>11. Committing'
  BY <1>1, <1>2, <1>3
     DEF Committing, Good, Backed, HasOp, Logs, Touches, Decisions, Resting
<1>12. Reviewed'
  BY <1>1, <1>2, <1>3 DEF Reviewed, Passed, Logs, Resting
<1>13. InSight'
  <2>1. seen = Absent
    BY <1>1 DEF IInv, InPrelude
  <2> QED BY <1>1, <1>2, <1>3, <2>1 DEF InSight, HasOp, Touches, Resting
<1> QED BY <1>4, <1>5, <1>6, <1>7, <1>8, <1>9, <1>10, <1>11, <1>12, <1>13 DEF IInv

LEMMA ShowKeeps == 
  ASSUME NEW reflects \in BOOLEAN, NEW old \in BOOLEAN
  PROVE  IInv /\ Render(reflects, old) /\ reflects /\ Pending("awaiting_doll")
     /\ hist.adopt # slot.text /\ ~(slot.shown = MaxSurfacings /\ old) => IInv'
<1> SUFFICES ASSUME IInv, Render(reflects, old) /\ reflects /\ Pending("awaiting_doll")
     /\ hist.adopt # slot.text /\ ~(slot.shown = MaxSurfacings /\ old) PROVE IInv'
  OBVIOUS
<1>1. /\ todo = <<>>
      /\ slot # Absent /\ slot.status = "awaiting_doll"
      /\ turn = "prelude" /\ turn' = "talk" /\ by' \in {"none", "turn"}
      /\ hurt' = (hurt /\ slot # Absent)
      /\ UNCHANGED <<hist, torn, file, slot, saved, hwm, seen, latched, trigger,
                     faults, passed, edited, glued, decided, owed>>
      /\ todo' = <<Save(IF slot.shown = MaxSurfacings THEN slot
                        ELSE [slot EXCEPT !.shown = @ + 1]), Show(slot.text)>>
  BY DEF Render, IInv, Left, SurfaceWrites, Pending
<1>2. Resting
  BY <1>1, AtRest
<1> DEFINE s == IF slot.shown = MaxSurfacings THEN slot ELSE [slot EXCEPT !.shown = @ + 1]
           a == Save(s)
           b == Show(slot.text)
<1>3. /\ todo' \in Seq(Writes) /\ Rising(todo') /\ Ops' = {a, b}
      /\ a.op = "slot" /\ a.slot = s /\ ~a.new /\ b.op = "show" /\ b.text = slot.text
      /\ Sound(s) /\ s.status = slot.status /\ s.text = slot.text
      /\ s.hwm = slot.hwm /\ s.fallback = slot.fallback
  <2>1. /\ Sound(s) /\ s.status = slot.status /\ s.text = slot.text
        /\ s.hwm = slot.hwm /\ s.fallback = slot.fallback
    BY <1>1, <1>2, ShownIs DEF Resting
  <2>2. a \in Writes /\ a.op = "slot" /\ a.slot = s /\ ~a.new
    BY <2>1, SlotIs DEF Sound
  <2>3. b \in Writes /\ b.op = "show" /\ b.text = slot.text
    BY <1>1, <1>2, TextIs DEF Resting
  <2>4. todo' = <<a, b>>
    BY <1>1
  <2> HIDE DEF a, b, s
  <2> QED BY <2>1, <2>2, <2>3, <2>4, TwoIs DEF Place, Ops
<1> HIDE DEF a, b, s
<1>4. Typed'
  <2>1. EvolutionTypeOK'
    BY <1>1, <1>2 DEF Typed, EvolutionTypeOK, Resting
  <2>2. TidyList'
    BY <1>3 DEF TidyList
  <2>3. SoundSlots'
    BY <1>1, <1>2, <1>3 DEF SoundSlots, Resting
  <2>4. TypedRest'
    BY <1>1, <1>2, <1>3 DEF Typed, TypedRest, Logs, Resting
  <2> QED BY <2>1, <2>2, <2>3, <2>4 DEF Typed
<1>5. InPrelude'
  BY <1>1 DEF InPrelude
<1>6. StillJudges'
  BY <1>1, <1>2, <1>3 DEF IInv, StillJudges, Judging, Touches, Logs, Resting
<1>7. StillKeeps'
  BY <1>1, <1>2, <1>3 DEF IInv, StillKeeps, Keeping, HasOp, Resting
<1>8. Born'
  BY <1>1, <1>2, <1>3 DEF IInv, Born, OnRecord, Logs, Resting
<1>9. Follows'
  BY <1>1, <1>2, <1>3 DEF Follows, Mended, Held, HasOp, Logs, Resting
<1>10. Evidence'
  BY <1>1, <1>2, <1>3 DEF Evidence, Good, Backed, HasOp, Resting
<1>11. Committing'
  BY <1>1, <1>2, <1>3
     DEF Committing, Good, Backed, HasOp, Logs, Touches, Decisions, Resting
<1>12. Reviewed'
  BY <1>1, <1>2, <1>3 DEF Reviewed, Passed, Logs, Resting
<1>13. InSight'
  <2>1. seen = Absent
    BY <1>1 DEF IInv, InPrelude
  <2> QED BY <1>1, <1>2, <1>3, <2>1 DEF InSight, HasOp, Touches, Resting
<1> QED BY <1>4, <1>5, <1>6, <1>7, <1>8, <1>9, <1>10, <1>11, <1>12, <1>13 DEF IInv

-----------------------------------------------------------------------------
\* The inductive invariant holds: the first state has no slot, no write to make
\* and no evidence; every step keeps it.
LEMMA EvolutionStarts == EvolutionInit => IInv
<1> SUFFICES ASSUME EvolutionInit PROVE IInv
  OBVIOUS
<1>1. Ops = {} /\ TidyList
  BY EmptyIs DEF EvolutionInit, Ops, TidyList
<1>2. EvolutionTypeOK
  <2>1. /\ hist \in [adopt : Fit \union {Absent}, old : Fit \union {Absent},
                    edit : Fit \union {Absent}, born : SUBSET Fit, pins : 0..MaxPins]
        /\ hist.pins = 0
    BY EvolutionAssumption DEF EvolutionInit
  <2>2. 0 \in 0..MaxFaults /\ 0 \in 0..0
    BY EvolutionAssumption
  <2> QED BY <2>1, <2>2 DEF EvolutionInit, EvolutionTypeOK
<1>3. Typed
  BY <1>1, <1>2 DEF EvolutionInit, Typed, SoundSlots, TypedRest
<1>4. InPrelude /\ StillJudges /\ StillKeeps
  BY DEF EvolutionInit, InPrelude, StillJudges, StillKeeps, Judging, Keeping
<1>5. Born /\ Follows
  BY <1>1 DEF EvolutionInit, Born, Follows
<1>6. Evidence /\ Committing
  BY <1>1 DEF EvolutionInit, Evidence, Committing, Backed, Good
<1>7. Reviewed /\ InSight
  BY <1>1 DEF EvolutionInit, Reviewed, InSight
<1> QED BY <1>3, <1>4, <1>5, <1>6, <1>7 DEF IInv

LEMMA EvolutionKeeps == IInv /\ [EvolutionNext]_evolutionVars => IInv'
<1> SUFFICES ASSUME IInv, [EvolutionNext]_evolutionVars PROVE IInv'
  OBVIOUS
<1>1. CASE AWrite
  BY <1>1, LogKeeps, SlotKeeps, ClearKeeps, FileKeeps, MarkKeeps, StateKeeps, FlagKeeps
     DEF AWrite
<1>2. CASE \E partial \in BOOLEAN : WriteFails(partial)
  BY <1>2, FailKeeps
<1>3. CASE Crash
  BY <1>3, CrashKeeps
<1>4. CASE \E text \in Texts \union {Absent} : Edit(text)
  BY <1>4, EditKeeps
<1>5. CASE \E written, partial \in BOOLEAN : PinEvent(written, partial)
  BY <1>5, PinKeeps
<1>6. CASE BeginTurn
  BY <1>6, BeginKeeps
<1>7. CASE \E reflects, old \in BOOLEAN : Render(reflects, old)
  <2>1. PICK reflects \in BOOLEAN, old \in BOOLEAN : Render(reflects, old)
    BY <1>7
  <2>2. CASE reflects => ~Pending("awaiting_doll")
    BY <2>1, <2>2, PassByKeeps
  <2>3. CASE reflects /\ Pending("awaiting_doll")
    <3>1. CASE hist.adopt = slot.text
      BY <2>1, <2>3, <3>1, AdoptedKeeps
    <3>2. CASE hist.adopt # slot.text /\ slot.shown = MaxSurfacings /\ old
      BY <2>1, <2>3, <3>2, ExpiryKeeps
    <3>3. CASE hist.adopt # slot.text /\ ~(slot.shown = MaxSurfacings /\ old)
      BY <2>1, <2>3, <3>3, ShowKeeps
    <3> QED BY <3>1, <3>2, <3>3
  <2> QED BY <2>2, <2>3
<1>8. CASE \E ok \in BOOLEAN : EndTurn(ok)
  BY <1>8, EndKeeps
<1>9. CASE Reject \/ Adopt \/ \E text \in Texts : Counter(text)
  BY <1>9, RejectKeeps, AdoptKeeps, CounterKeeps
<1>10. CASE StartSkeptic \/ StartKeeper \/ CancelPass
  BY <1>10, SkepticStartKeeps, KeeperStartKeeps, CancelKeeps
<1>11. CASE PassEnds
  <2>1. SkepticPasses \/ KeeperErrs => IInv'
    BY PassesKeeps, KeeperErrsKeeps
  <2>2. SkepticKills => IInv'
    BY RevertKeeps, KillKeeps
  <2>3. SkepticErrs => IInv'
    BY ErrsOutKeeps, ErrsKeeps
  <2>4. ASSUME NEW kind \in {"no_change", "kill"}, KeeperFindsNothing(kind) PROVE IInv'
    BY <2>4, NothingKeeps
  <2>5. ASSUME NEW text \in Texts, KeeperProposes(text) PROVE IInv'
    BY <2>5, YieldKeeps, ProposeKeeps
  <2> QED BY <1>11, <2>1, <2>2, <2>3, <2>4, <2>5 DEF PassEnds
<1>12. CASE UNCHANGED evolutionVars
  BY <1>12, StutterKeeps
<1> QED BY <1>1, <1>2, <1>3, <1>4, <1>5, <1>6, <1>7, <1>8, <1>9, <1>10, <1>11, <1>12
        DEF EvolutionNext

\* What a step keeps of the writes still to make, of the slot, of the log and of
\* the marks (self_revision.py, evolution_trigger.py): the invariant behind the
\* two theorems below.
THEOREM EvolutionInvariant == EvolutionSpec => []IInv
<1> QED BY EvolutionStarts, EvolutionKeeps, PTL DEF EvolutionSpec

\* Log, slot, file and high-water mark of her self evolution tell one story
\* (self_revision.py, evolution_trigger.py): wherever a pass, a turn or the
\* process stops half-way, a pending proposal has its birth line, with none
\* pending the file is the text in force, and evidence without a verdict is
\* still ahead of the mark or comes back with the slot.
THEOREM HistoryTellsAllAlways == EvolutionSpec => []HistoryTellsAll
<1>1. IInv => HistoryTellsAll
  <2> SUFFICES ASSUME IInv PROVE HistoryTellsAll
    OBVIOUS
  <2>1. EvolutionTypeOK
    BY DEF IInv, Typed
  <2>2. EverySlotHasItsBirthLine
    BY DEF IInv, Born, OnRecord, EverySlotHasItsBirthLine
  <2>3. FileFollowsTheLog
    BY AtRest DEF FileFollowsTheLog, Resting
  <2>4. EvidenceGivenBack
    BY AtRest DEF EvidenceGivenBack, Good, Backed, Resting
  <2> QED BY <2>1, <2>2, <2>3, <2>4 DEF HistoryTellsAll
<1> QED BY <1>1, EvolutionInvariant, PTL

\* No text comes into force but by her call (tools.py, SelfRevision), in a turn
\* that surfaced a proposal to her and after a skeptic passed that text, and it is
\* the text she saw unless a write was lost.
THEOREM SheAdoptsWhatSheSaw == EvolutionSpec => AdoptsWhatSheSaw
<1> DEFINE Saw == /\ hist'.adopt \in passed /\ seen # Absent
                  /\ hist'.adopt = seen \/ hurt
<1>1. ASSUME IInv, EvolutionNext, hist'.adopt # hist.adopt PROVE Saw
  <2>1. ASSUME WriteLog PROVE Saw
    <3> DEFINE h == Head(todo)
    <3>1. /\ Typed /\ todo # <<>> /\ Done /\ h.op = "log"
          /\ hist' = IF torn THEN hist ELSE Recorded(h.kind, h.text)
      BY <1>1, <2>1 DEF WriteLog, IInv, Doing
    <3>2. h \in Ops /\ h \in Writes
      BY <3>1, DoneIs
    <3>3. /\ h.kind \in Events /\ h.text \in Fit \union {Absent}
          /\ h.kind \in {"candidate", "counter"} => h.text # Absent
      BY <3>1, <3>2, WriteIs DEF Typed, TypedRest, Logs
    <3> HIDE DEF h
    <3>4. hist' = Recorded(h.kind, h.text)
      BY <1>1, <3>1
    <3>5. h.kind = "adopt" /\ hist'.adopt = h.text
      BY <1>1, <3>1, <3>3, <3>4, RecordedIs
    <3> QED BY <1>1, <3>1, <3>2, <3>5 DEF IInv, Reviewed, Logs
  <2>2. ASSUME NEW written \in BOOLEAN, NEW partial \in BOOLEAN, PinEvent(written, partial)
        PROVE  hist'.adopt = hist.adopt
    <3>1. hist' \in {hist, [hist EXCEPT !.pins = @ + 1]}
      BY <2>2 DEF PinEvent
    <3> QED BY <1>1, <3>1 DEF IInv, Typed, EvolutionTypeOK
  <2>3. WriteSlot \/ ClearSlot \/ WriteFile \/ MoveHwm \/ WriteState \/ SetFlag => hist' = hist
    BY DEF WriteSlot, ClearSlot, WriteFile, MoveHwm, WriteState, SetFlag
  <2>4. /\ Crash => hist' = hist
        /\ \A partial \in BOOLEAN : WriteFails(partial) => hist' = hist
        /\ \A text \in Texts \union {Absent} : Edit(text) => hist' = hist
    BY DEF Crash, WriteFails, Edit
  <2>5. /\ BeginTurn => hist' = hist
        /\ \A reflects, old \in BOOLEAN : Render(reflects, old) => hist' = hist
        /\ \A ok \in BOOLEAN : EndTurn(ok) => hist' = hist
    BY DEF BeginTurn, Render, EndTurn
  <2>6. /\ Reject \/ Adopt => hist' = hist
        /\ \A text \in Texts : Counter(text) => hist' = hist
    BY DEF Reject, Adopt, Counter, Revise
  <2>7. StartSkeptic \/ StartKeeper \/ CancelPass => hist' = hist
    BY DEF StartSkeptic, StartKeeper, Start, CancelPass
  <2>8. PassEnds => hist' = hist
    BY DEF PassEnds, SkepticPasses, SkepticKills, SkepticErrs, KeeperErrs,
           KeeperFindsNothing, KeeperProposes, Answered
  <2> QED BY <1>1, <2>1, <2>2, <2>3, <2>4, <2>5, <2>6, <2>7, <2>8
     DEF EvolutionNext, AWrite
<1>2. IInv /\ [EvolutionNext]_evolutionVars =>
          [hist'.adopt # hist.adopt =>
               /\ hist'.adopt \in passed /\ seen # Absent
               /\ hist'.adopt = seen \/ hurt]_evolutionVars
  BY <1>1
<1> QED BY <1>2, EvolutionInvariant, PTL DEF EvolutionSpec, AdoptsWhatSheSaw

-----------------------------------------------------------------------------
(* What becomes of a pending proposal: the layer upon IInv about the write   *)
(* of the slot among those still to be made.                                 *)

\* A write of the slot fills an empty one, or takes the pending proposal on.
TakesOn(x) ==
    x.op = "slot" =>
        IF x.new THEN slot = Absent
        ELSE slot # Absent /\ (x.slot = slot \/ MovesOn(slot, x.slot))

Onward == \A x \in Ops : TakesOn(x)

SlotStep == slot # Absent /\ slot' # Absent /\ slot' # slot => MovesOn(slot, slot')

\* Each way a slot is written over takes the proposal on.
LEMMA RewriteMoves ==
  ASSUME NEW s, Sound(s), s.status = "awaiting_doll", s.round < RoundCap, NEW t \in Fit
  PROVE  MovesOn(s, ToCounter(s, t))
<1>1. s \in Slots
  BY DEF Sound
<1>2. ToCounter(s, t).round = s.round + 1
  BY <1>1 DEF ToCounter, Slots
<1> QED BY <1>2, CounterIs DEF MovesOn

LEMMA VerdictMoves ==
  ASSUME NEW s, Sound(s), s.status = "awaiting_skeptic"
  PROVE  /\ MovesOn(s, MarkAwaitingDoll(s))
         /\ s.fallback # Absent => MovesOn(s, RevertToFallback(s))
<1>1. s \in Slots
  BY DEF Sound
<1>2. MarkAwaitingDoll(s).round = s.round
  BY <1>1 DEF MarkAwaitingDoll, Slots
<1>3. RevertToFallback(s).round = s.round
  BY <1>1 DEF RevertToFallback, Slots
<1>4. MovesOn(s, MarkAwaitingDoll(s))
  BY <1>2, MarkedIs DEF MovesOn
<1>5. s.fallback # Absent => MovesOn(s, RevertToFallback(s))
  BY <1>3, RevertIs DEF MovesOn
<1> QED BY <1>4, <1>5

LEMMA CountMoves ==
  ASSUME NEW s, Sound(s)
  PROVE  /\ MovesOn(s, [s EXCEPT !.shown = @ + 1])
         /\ MovesOn(s, [s EXCEPT !.errors = @ + 1])
BY DEF MovesOn, Sound, Slots

\* A write that is made leaves the slot, and what is still to be written, as it
\* was, or is the one write of the slot.
LEMMA WriteGoesOn ==
  ASSUME IInv, Onward, AWrite
  PROVE  Onward' /\ SlotStep
<1> DEFINE h == Head(todo)
<1>1. /\ todo # <<>> /\ Done /\ Typed
      /\ WriteSlot \/ ClearSlot \/ UNCHANGED slot
  BY DEF AWrite, WriteLog, WriteSlot, ClearSlot, WriteFile, MoveHwm, WriteState, SetFlag,
         Doing, IInv
<1>2. h \in Ops /\ \A x \in Ops' : x \in Ops /\ Place(h.op) < Place(x.op)
  BY <1>1, DoneIs
<1> HIDE DEF h
<1>3. CASE UNCHANGED slot
  BY <1>2, <1>3 DEF Onward, TakesOn, SlotStep
<1>4. CASE WriteSlot
  <2>1. h.op = "slot" /\ slot' = h.slot
    BY <1>4 DEF WriteSlot, Doing, h
  <2>2. \A x \in Ops' : x.op # "slot"
    BY <1>2, <2>1 DEF Place
  <2> QED BY <1>2, <2>1, <2>2 DEF Onward, TakesOn, SlotStep
<1>5. CASE ClearSlot
  <2>1. h.op = "clear" /\ slot' = Absent
    BY <1>5 DEF ClearSlot, Doing, h
  <2>2. \A x \in Ops' : x.op # "slot"
    BY <1>2, <2>1 DEF Place
  <2> QED BY <2>1, <2>2 DEF Onward, TakesOn, SlotStep
<1> QED BY <1>1, <1>3, <1>4, <1>5

\* A fault takes the list back, or puts a line about itself before its rest.
LEMMA FaultGoesOn ==
  ASSUME IInv, Onward, Crash \/ \E partial \in BOOLEAN : WriteFails(partial)
  PROVE  Onward' /\ SlotStep
<1>1. slot' = slot
  BY DEF Crash, WriteFails
<1>2. CASE todo' = <<>>
  BY <1>1, <1>2, EmptyIs DEF Onward, Ops, SlotStep
<1>3. CASE todo # <<>> /\ todo' = <<LogEvent("error", Absent)>> \o Tail(todo)
  <2> DEFINE e == LogEvent("error", Absent)
  <2>1. /\ Tail(todo) \in Seq(Writes) /\ Rising(Tail(todo))
        /\ \A x \in Elems(Tail(todo)) : x \in Ops
    BY <1>3, TailIs DEF IInv, Typed, TidyList, Ops
  <2>2. e.op = "log"
    BY DEF LogEvent
  <2> HIDE DEF e
  <2>3. \A x \in Ops' : x = e \/ x \in Ops
    <3>1. \A i \in DOMAIN todo' : todo'[i] = e \/ todo'[i] \in Elems(Tail(todo))
      BY <1>3, <2>1 DEF e, Elems
    <3> QED BY <2>1, <3>1 DEF Ops, Elems
  <2> QED BY <1>1, <2>2, <2>3 DEF Onward, TakesOn, SlotStep
<1> QED BY <1>2, <1>3 DEF Crash, WriteFails, Left

\* Nor does a step that makes no write touch what is written.
LEMMA QuietGoesOn ==
  ASSUME Onward,
         \/ \E text \in Texts \union {Absent} : Edit(text)
         \/ \E written, partial \in BOOLEAN : PinEvent(written, partial)
         \/ \E ok \in BOOLEAN : EndTurn(ok)
         \/ StartSkeptic \/ StartKeeper \/ CancelPass
         \/ UNCHANGED evolutionVars
  PROVE  Onward' /\ SlotStep
<1>1. UNCHANGED <<slot, todo>>
  BY DEF Edit, PinEvent, EndTurn, StartSkeptic, StartKeeper, Start, CancelPass,
         evolutionVars
<1> QED BY <1>1 DEF Onward, TakesOn, Ops, SlotStep

\* What an operation is about to write, by its list.
LEMMA ListGoesOn ==
  ASSUME UNCHANGED slot, \A x \in Ops' : TakesOn(x)
  PROVE  Onward' /\ SlotStep
BY DEF Onward, TakesOn, SlotStep

\* A list of writes of a given length, as a set.
LEMMA ElemsAre ==
  ASSUME NEW a, NEW b, NEW c, NEW d
  PROVE  /\ todo' = <<a>> => Ops' = {a}
         /\ todo' = <<a, b>> => Ops' = {a, b}
         /\ todo' = <<a, b, c>> => Ops' = {a, b, c}
         /\ todo' = <<a, b, c, d>> => Ops' = {a, b, c, d}
<1>1. Elems(<<a>>) = {a} /\ Elems(<<a, b>>) = {a, b}
      /\ Elems(<<a, b, c>>) = {a, b, c} /\ Elems(<<a, b, c, d>>) = {a, b, c, d}
  BY DEF Elems
<1>2. Ops' = Elems(todo')
  BY DEF Ops
<1>3. ASSUME NEW q, todo' = q PROVE Ops' = Elems(q)
  BY <1>2, <1>3
<1>4. todo' = <<a>> => Ops' = {a}
  BY <1>1, <1>3, Zenon
<1>5. todo' = <<a, b>> => Ops' = {a, b}
  BY <1>1, <1>3, Zenon
<1>6. todo' = <<a, b, c>> => Ops' = {a, b, c}
  BY <1>1, <1>3, Zenon
<1>7. todo' = <<a, b, c, d>> => Ops' = {a, b, c, d}
  BY <1>1, <1>3, Zenon
<1> QED BY <1>4, <1>5, <1>6, <1>7, Zenon

LEMMA JoinIs ==
  ASSUME NEW a, NEW b, NEW c
  PROVE  /\ todo' = <<a>> \o <<b>> => Ops' = {a, b}
         /\ todo' = <<a>> \o <<b, c>> => Ops' = {a, b, c}
<1> DEFINE S == {a, b, c}
           p == <<a>> \o <<b>>
           q == <<a>> \o <<b, c>>
<1>1. <<a>> \in Seq(S) /\ <<b>> \in Seq(S) /\ <<b, c>> \in Seq(S)
  OBVIOUS
<1>2. DOMAIN p = {1, 2} /\ p[1] = a /\ p[2] = b
  BY <1>1
<1>3. DOMAIN q = {1, 2, 3} /\ q[1] = a /\ q[2] = b /\ q[3] = c
  BY <1>1
<1> HIDE DEF p, q
<1>4. Elems(p) = {a, b}
  BY <1>2 DEF Elems
<1>5. Elems(q) = {a, b, c}
  BY <1>3 DEF Elems
<1>6. todo' = p => Ops' = {a, b}
  BY <1>4 DEF Ops
<1>7. todo' = q => Ops' = {a, b, c}
  BY <1>5 DEF Ops
<1> QED BY <1>6, <1>7 DEF p, q

\* A turn's tripwire files an edit only in an empty slot; its surfacing counts.
LEMMA TurnGoesOn ==
  ASSUME IInv, BeginTurn \/ \E reflects, old \in BOOLEAN : Render(reflects, old)
  PROVE  Onward' /\ SlotStep
<1>1. CASE BeginTurn
  <2>1. todo = <<>> /\ UNCHANGED slot /\ Ops' = Elems(TripwireWrites)
    BY <1>1 DEF BeginTurn, Free, Left, Ops
  <2>2. \A x \in Elems(TripwireWrites) : x.op = "slot" => x.new /\ slot = Absent
    BY <2>1, TripwireIs DEF Logs
  <2>3. \A x \in Ops' : TakesOn(x)
    BY <2>1, <2>2 DEF TakesOn
  <2> QED BY <2>1, <2>3, ListGoesOn
<1>2. ASSUME NEW reflects \in BOOLEAN, NEW old \in BOOLEAN, Render(reflects, old)
      PROVE  Onward' /\ SlotStep
  <2>1. /\ todo = <<>> /\ UNCHANGED slot /\ Resting
        /\ todo' = IF reflects THEN SurfaceWrites(old) ELSE <<>>
    BY <1>2, AtRest DEF Render, Left
  <2>2. CASE todo' = <<>>
    BY <2>1, <2>2, EmptyIs DEF Onward, Ops, SlotStep
  <2>3. CASE todo' = <<LogEvent("slot_after_adopt", hist.adopt), Clear>>
    <3>1. Ops' = {LogEvent("slot_after_adopt", hist.adopt), Clear}
      BY <2>3, ElemsAre
    <3>2. \A x \in Ops' : TakesOn(x)
      BY <3>1 DEF TakesOn, LogEvent, Clear
    <3> QED BY <2>1, <3>2, ListGoesOn
  <2>4. CASE slot # Absent /\ todo' = Expire(slot, hist.adopt)
    <3>1. Ops' = {LogEvent("expire", slot.text), ClearExpired(slot), Restore(hist.adopt)}
                 \union IF slot.hwm = Absent THEN {} ELSE {Hwm(slot.hwm, FALSE)}
      BY <2>1, <2>4, ExpireIs DEF Ops, Resting
    <3>2. \A x \in Ops' : TakesOn(x)
      BY <3>1 DEF TakesOn, LogEvent, ClearExpired, Restore, Hwm
    <3> QED BY <2>1, <3>2, ListGoesOn
  <2>5. ASSUME slot # Absent,
               NEW s, s = IF slot.shown = MaxSurfacings THEN slot
                          ELSE [slot EXCEPT !.shown = @ + 1],
               todo' = <<Save(s), Show(slot.text)>>
        PROVE  Onward' /\ SlotStep
    <3>1. Ops' = {Save(s), Show(slot.text)}
      BY <2>5, ElemsAre
    <3>2. s = slot \/ MovesOn(slot, s)
      BY <2>1, <2>5, CountMoves DEF Resting
    <3>3. \A x \in Ops' : TakesOn(x)
      BY <2>5, <3>1, <3>2 DEF TakesOn, Save, Show
    <3> QED BY <2>1, <3>3, ListGoesOn
  <2> QED BY <2>1, <2>2, <2>3, <2>4, <2>5 DEF SurfaceWrites, Pending
<1> QED BY <1>1, <1>2

\* She decides on the slot as it is, no await lies between.
LEMMA CallGoesOn ==
  ASSUME IInv, Reject \/ Adopt \/ \E text \in Texts : Counter(text)
  PROVE  Onward' /\ SlotStep
<1>1. /\ todo = <<>> /\ UNCHANGED slot /\ Resting
      /\ slot # Absent /\ slot.status = "awaiting_doll"
  BY AtRest DEF Reject, Adopt, Counter, Revise, Revisable, Pending
<1>2. CASE Reject
  <2>1. Ops' = {LogEvent("reject", slot.text), Clear, Restore(hist.adopt), Latch}
    <3>1. todo' = <<LogEvent("reject", slot.text), Clear, Restore(hist.adopt), Latch>>
      BY <1>2 DEF Reject, RejectWrites, Revise, Left
    <3> QED BY <3>1, ElemsAre
  <2>2. \A x \in Ops' : TakesOn(x)
    BY <2>1 DEF TakesOn, LogEvent, Clear, Restore, Latch
  <2> QED BY <1>1, <2>2, ListGoesOn
<1>3. CASE Adopt
  <2>1. Ops' = {LogEvent("adopt", slot.text), Write(slot.text), Clear, Latch}
    <3>1. todo' = <<LogEvent("adopt", slot.text), Write(slot.text), Clear, Latch>>
      BY <1>3 DEF Adopt, AdoptWrites, Revise, Left
    <3> QED BY <3>1, ElemsAre
  <2>2. \A x \in Ops' : TakesOn(x)
    BY <2>1 DEF TakesOn, LogEvent, Clear, Write, Latch
  <2> QED BY <1>1, <2>2, ListGoesOn
<1>4. ASSUME NEW text \in Texts, Counter(text) PROVE Onward' /\ SlotStep
  <2>1. text \in Fit /\ slot.round < RoundCap
    BY <1>4 DEF Counter
  <2>2. Ops' = {LogEvent("counter", text), Save(ToCounter(slot, text)), Latch}
    <3>1. todo' = <<LogEvent("counter", text), Save(ToCounter(slot, text)), Latch>>
      BY <1>4 DEF Counter, CounterWrites, Revise, Left
    <3> QED BY <3>1, ElemsAre
  <2>3. MovesOn(slot, ToCounter(slot, text))
    BY <1>1, <2>1, RewriteMoves DEF Resting
  <2>4. \A x \in Ops' : TakesOn(x)
    BY <1>1, <2>2, <2>3 DEF TakesOn, LogEvent, Save, Latch
  <2> QED BY <1>1, <2>4, ListGoesOn
<1> QED BY <1>2, <1>3, <1>4

\* A skeptic's pass writes back the slot it read, which is the pending one still.
LEMMA SkepticGoesOn ==
  ASSUME IInv, SkepticPasses \/ SkepticKills \/ SkepticErrs
  PROVE  Onward' /\ SlotStep
<1>1. /\ Judging /\ trigger # Absent /\ todo = <<>> /\ UNCHANGED slot
  BY DEF SkepticPasses, SkepticKills, SkepticErrs, Judging, Answered, Free
<1>2. /\ Resting /\ slot = trigger.slot /\ slot # Absent
      /\ slot.status = "awaiting_skeptic" /\ trigger.old = hist.adopt
  BY <1>1, AtRest, PassIs
<1>3. Sound(slot)
  BY <1>2 DEF Resting
<1>4. CASE SkepticPasses
  <2>1. Ops' = {Save(MarkAwaitingDoll(slot))}
    BY <1>2, <1>4, ElemsAre DEF SkepticPasses, Answered, Left, Ops
  <2>2. MovesOn(slot, MarkAwaitingDoll(slot))
    BY <1>2, <1>3, VerdictMoves
  <2>3. \A x \in Ops' : TakesOn(x)
    BY <1>2, <2>1, <2>2 DEF TakesOn, Save
  <2> QED BY <1>1, <2>3, ListGoesOn
<1>5. CASE SkepticKills /\ slot.kind = "counter"
  <2>1. todo' = <<LogEvent("kill", slot.text)>> \o <<Save(RevertToFallback(slot))>>
    BY <1>2, <1>5 DEF SkepticKills, Answered, KillWrites, Left
  <2>2. Ops' = {LogEvent("kill", slot.text), Save(RevertToFallback(slot))}
    BY <2>1, JoinIs
  <2>3. slot.fallback # Absent
    BY <1>2, <1>3, <1>5 DEF Sound
  <2>4. MovesOn(slot, RevertToFallback(slot))
    BY <1>2, <1>3, <2>3, VerdictMoves
  <2>5. \A x \in Ops' : TakesOn(x)
    BY <1>2, <2>2, <2>4 DEF TakesOn, Save, LogEvent
  <2> QED BY <1>1, <2>5, ListGoesOn
<1>6. CASE SkepticKills /\ slot.kind # "counter"
  <2>1. todo' = <<LogEvent("kill", slot.text)>> \o <<Clear, Restore(hist.adopt)>>
    BY <1>2, <1>6 DEF SkepticKills, Answered, KillWrites, Left
  <2>2. Ops' = {LogEvent("kill", slot.text), Clear, Restore(hist.adopt)}
    BY <2>1, JoinIs
  <2>3. \A x \in Ops' : TakesOn(x)
    BY <2>2 DEF TakesOn, Clear, Restore, LogEvent
  <2> QED BY <1>1, <2>3, ListGoesOn
<1>7. ASSUME SkepticErrs PROVE Onward' /\ SlotStep
  <2> DEFINE s == [slot EXCEPT !.errors = @ + 1]
  <2>1. \/ todo' = Expire(s, hist.adopt) \o <<SaveState>>
        \/ todo' = <<LogEvent("error", Absent), Save(s)>>
    BY <1>2, <1>7 DEF SkepticErrs, Answered, ErrorWrites, Left
  <2>2. CASE todo' = Expire(s, hist.adopt) \o <<SaveState>>
    <3>1. s.text = slot.text /\ s.hwm = slot.hwm
      BY <1>3, ErredIs
    <3> HIDE DEF s
    <3>2. Ops' = {LogEvent("expire", s.text), ClearExpired(s), Restore(hist.adopt)}
                 \union (IF s.hwm = Absent THEN {} ELSE {Hwm(s.hwm, FALSE)})
                 \union {SaveState}
      BY <1>2, <2>2, <3>1, ExpireIs DEF Ops, Resting
    <3>3. \A x \in Ops' : TakesOn(x)
      BY <3>2 DEF TakesOn, LogEvent, ClearExpired, Restore, Hwm, SaveState
    <3> QED BY <1>1, <3>3, ListGoesOn
  <2>3. CASE todo' = <<LogEvent("error", Absent), Save(s)>>
    <3>1. MovesOn(slot, s)
      BY <1>3, CountMoves
    <3> HIDE DEF s
    <3>2. Ops' = {LogEvent("error", Absent), Save(s)}
      BY <2>3, ElemsAre
    <3>3. \A x \in Ops' : TakesOn(x)
      BY <1>2, <3>1, <3>2 DEF TakesOn, LogEvent, Save
    <3> QED BY <1>1, <3>3, ListGoesOn
  <2> QED BY <2>1, <2>2, <2>3
<1> QED BY <1>4, <1>5, <1>6, <1>7

\* A keeper's candidate is filed only where no slot has come up.
LEMMA KeeperGoesOn ==
  ASSUME IInv,
         \/ KeeperErrs \/ \E kind \in {"no_change", "kill"} : KeeperFindsNothing(kind)
         \/ \E text \in Texts : KeeperProposes(text)
  PROVE  Onward' /\ SlotStep
<1>1. UNCHANGED slot
  BY DEF KeeperErrs, KeeperFindsNothing, KeeperProposes, Answered
<1> DEFINE h == Hwm(trigger.upto, TRUE)
           k == Hwm(trigger.upto, FALSE)
<1>2. CASE KeeperErrs
  <2> DEFINE e == LogEvent("error", Absent)
             f == SaveState
  <2>0. todo' = <<e, f>>
    BY <1>2 DEF KeeperErrs, Answered, Left
  <2>1. Ops' = {e, f}
    <3> HIDE DEF e, f
    <3> QED BY <2>0, ElemsAre
  <2>2. \A x \in Ops' : TakesOn(x)
    BY <2>1 DEF TakesOn, LogEvent, SaveState
  <2> QED BY <1>1, <2>2, ListGoesOn
<1>3. ASSUME NEW kind, NEW text, todo' = <<LogEvent(kind, text)>> \o Verdicted
      PROVE  Onward' /\ SlotStep
  <2>1. todo' = <<LogEvent(kind, text)>> \o <<h, SaveState>>
    BY <1>3 DEF Verdicted
  <2>2. Ops' = {LogEvent(kind, text), h, SaveState}
    BY <2>1, JoinIs
  <2>3. \A x \in Ops' : TakesOn(x)
    BY <2>2 DEF TakesOn, LogEvent, Hwm, SaveState
  <2> QED BY <1>1, <2>3, ListGoesOn
<1>4. ASSUME NEW text, slot = Absent,
             todo' = <<LogEvent("candidate", text), Birth(KeeperSlot(text, trigger.hwm)),
                       k, SaveState>>
      PROVE  Onward' /\ SlotStep
  <2> DEFINE a == LogEvent("candidate", text)
             b == Birth(KeeperSlot(text, trigger.hwm))
  <2>0. todo' = <<a, b, k, SaveState>>
    BY <1>4
  <2>1. Ops' = {a, b, k, SaveState}
    <3> HIDE DEF a, b, k
    <3> QED BY <2>0, ElemsAre
  <2>2. \A x \in Ops' : TakesOn(x)
    BY <1>4, <2>1 DEF TakesOn, LogEvent, Birth, Hwm, SaveState
  <2> QED BY <1>1, <2>2, ListGoesOn
<1> QED BY <1>2, <1>3, <1>4
        DEF KeeperFindsNothing, KeeperProposes, KeeperWrites, Answered, Left

LEMMA StepMovesOn ==
  ASSUME IInv, Onward, [EvolutionNext]_evolutionVars
  PROVE  Onward' /\ SlotStep
<1>1. CASE \/ \E text \in Texts \union {Absent} : Edit(text)
           \/ \E written, partial \in BOOLEAN : PinEvent(written, partial)
           \/ \E ok \in BOOLEAN : EndTurn(ok)
           \/ StartSkeptic \/ StartKeeper \/ CancelPass
           \/ UNCHANGED evolutionVars
  BY <1>1, QuietGoesOn
<1>2. CASE PassEnds
  BY <1>2, SkepticGoesOn, KeeperGoesOn DEF PassEnds
<1> QED BY <1>1, <1>2, WriteGoesOn, FaultGoesOn, TurnGoesOn, CallGoesOn DEF EvolutionNext

\* A pending proposal only moves on (evolution_trigger.py, self_revision.py, tools.py):
\* no pass and no turn puts another over it, or an earlier form of it back.
THEOREM ProposalsOnlyMoveOn == EvolutionSpec => ProposalsMoveOn
<1>1. EvolutionInit => Onward
  BY EmptyIs DEF EvolutionInit, Onward, Ops
<1>2. IInv /\ Onward /\ [EvolutionNext]_evolutionVars => Onward'
  BY StepMovesOn
<1>3. IInv /\ Onward /\ [EvolutionNext]_evolutionVars =>
        [slot # Absent /\ slot' # Absent /\ slot' # slot => MovesOn(slot, slot')]_evolutionVars
  BY StepMovesOn DEF SlotStep
<1> QED BY <1>1, <1>2, <1>3, EvolutionInvariant, PTL DEF EvolutionSpec, ProposalsMoveOn

\* Her decision, like every other write, meets the proposal as it now is.
THEOREM MeetsWhatIsPending == EvolutionSpec => MeetsTheProposal
BY SheAdoptsWhatSheSaw, ProposalsOnlyMoveOn DEF MeetsTheProposal
=============================================================================
