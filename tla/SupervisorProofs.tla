-------------------------- MODULE SupervisorProofs --------------------------
(***************************************************************************)
(* Proofs about Supervisor, for any set of process numbers, any cap on     *)
(* restarts and any number of daemons' deaths; and, in the second part,    *)
(* about Voice, for any number of sentences, workers and messages.         *)
(***************************************************************************)
EXTENDS Supervisor, Voice, FiniteSetTheorems, TLAPS

\* A process that this daemon started and has not waited for.
Mine(p) == child[p] \in {"up", "signalled"} \union Exits

\* The coroutine holds the one process there is: it is being prepared, or it
\* is waited for.
Held ==
  /\ (making # None) <=> (task = "forking")
  /\ making # None => making # proc /\ child[making] # "orphan"
  /\ proc # None => child[proc] # "orphan"
  /\ task = "waiting" => proc # None
  /\ \A p \in Pids : Mine(p) => p = making \/ (p = proc /\ task = "waiting")

\* A coroutine that goes on has not reached the cap.
BelowTheCap == task # "done" => failures <= MaxConsecutive

\* Once stop() is called there is nothing in preparation.
Ending ==
  /\ stopping <=> (stop # "no")
  /\ stop = "grace" => task \in {"waiting", "done"}
  /\ stop = "returned" => task \in Idle
  /\ daemon = "down" => task = "none"

IInv == TypeOK /\ Held /\ BelowTheCap /\ Ending

USE PidsAssumption, BoundsAssumption

LEMMA InitIInv == Init => IInv
<1> SUFFICES ASSUME Init PROVE IInv
  OBVIOUS
<1> USE DEF Init
<1>1. TypeOK
  <2>1. child \in [Pids -> {"free"} \union Living \union Exits]
    OBVIOUS
  <2>2. failures \in 0..(MaxConsecutive + 1) /\ deaths \in 0..MaxDeaths
    OBVIOUS
  <2> QED BY <2>1, <2>2 DEF TypeOK, Phases
<1>2. Held
  BY DEF Held, Mine, Exits
<1>3. BelowTheCap /\ Ending
  BY DEF BelowTheCap, Ending, Idle
<1> QED BY <1>1, <1>2, <1>3 DEF IInv

-----------------------------------------------------------------------------
(* The steps of the supervise loop.                                         *)

LEMMA LoopKeeps ==
  ASSUME IInv, Start \/ LoopStep \/ GrowsOld PROVE IInv'
<1> USE DEF IInv, Held, BelowTheCap, Ending, Idle, state
<1>1. CASE Start
  BY <1>1 DEF Start, TypeOK, Mine
<1>2. CASE Fork
  BY <1>2 DEF Fork, TypeOK, Mine, Living, Exits
<1>3. CASE Spawned
  BY <1>3 DEF Spawned, TypeOK, Mine, Phases
<1>4. CASE ForkFails
  BY <1>4 DEF ForkFails, Crash, Count, TypeOK, Mine, Phases
<1>5. CASE EndSeen
  BY <1>5 DEF EndSeen, ExitSeen, Freed, TypeOK, Mine, Living, Exits
<1>6. CASE CrashSeen
  BY <1>6 DEF CrashSeen, ExitSeen, Freed, Crash, Count, TypeOK, Mine, Phases, Living, Exits
<1>7. CASE BackoffEnds
  BY <1>7 DEF BackoffEnds, TypeOK, Mine
<1>8. CASE GrowsOld
  BY <1>8 DEF GrowsOld, TypeOK, Mine
<1> QED BY <1>1, <1>2, <1>3, <1>4, <1>5, <1>6, <1>7, <1>8 DEF LoopStep

-----------------------------------------------------------------------------
(* The steps of stop().                                                     *)

LEMMA StopKeeps ==
  ASSUME IInv, StopIdle \/ StopAsks \/ StopStep PROVE IInv'
<1> USE DEF IInv, Held, BelowTheCap, Ending, Idle, state, Alive, Living
<1>1. CASE StopIdle
  BY <1>1 DEF StopIdle, CancelTask, TypeOK, Mine, Phases, Exits
<1>2. CASE StopAsks
  BY <1>2 DEF StopAsks, TypeOK, Mine, Exits
<1>3. CASE GraceOver
  BY <1>3 DEF GraceOver, TypeOK, Mine, Exits
<1>4. CASE StopReturns
  BY <1>4 DEF StopReturns, CancelTask, Freed, TypeOK, Mine, Phases, Exits
<1> QED BY <1>1, <1>2, <1>3, <1>4 DEF StopStep

-----------------------------------------------------------------------------
(* Processes that end, daemons that die and boot.                           *)

LEMMA DaemonEndsKeeps ==
  ASSUME IInv, DaemonEnds, child' = Orphaned, deaths' \in 0..MaxDeaths
  PROVE  IInv'
<1>1. child' \in [Pids -> {"free", "orphan"}]
  BY DEF Orphaned, IInv, TypeOK, Living, Exits
<1>2. TypeOK'
  <2>1. child' \in [Pids -> {"free"} \union Living \union Exits]
    BY <1>1 DEF Living
  <2>2. failures' \in 0..(MaxConsecutive + 1)
    BY DEF DaemonEnds
  <2> QED BY <2>1, <2>2 DEF DaemonEnds, TypeOK, Phases
<1>3. Held'
  BY <1>1 DEF DaemonEnds, Held, Mine, Exits
<1>4. BelowTheCap' /\ Ending'
  BY DEF DaemonEnds, BelowTheCap, Ending, Idle
<1> QED BY <1>2, <1>3, <1>4 DEF IInv

LEMMA WorldKeeps ==
  ASSUME IInv,
         \/ \E p \in Pids : ChildEnds(p) \/ OrphanEnds(p)
         \/ DaemonKilled \/ DaemonExits \/ Boot
  PROVE  IInv'
<1> USE DEF IInv, Held, BelowTheCap, Ending, Idle, state
<1>1. ASSUME NEW p \in Pids, ChildEnds(p) PROVE IInv'
  BY <1>1 DEF ChildEnds, TypeOK, Mine, Living, Exits
<1>2. ASSUME NEW p \in Pids, OrphanEnds(p) PROVE IInv'
  BY <1>2 DEF OrphanEnds, Freed, TypeOK, Mine, Living, Exits
<1>3. CASE DaemonKilled
  <2>1. DaemonEnds /\ child' = Orphaned
    BY <1>3 DEF DaemonKilled
  <2>2. deaths' \in 0..MaxDeaths
    BY <1>3 DEF DaemonKilled, TypeOK
  <2> QED BY <2>1, <2>2, DaemonEndsKeeps
<1>4. CASE DaemonExits
  BY <1>4, DaemonEndsKeeps DEF DaemonExits, TypeOK
<1>5. CASE Boot
  BY <1>5 DEF Boot, TypeOK, Mine
<1> QED BY <1>1, <1>2, <1>3, <1>4, <1>5

LEMMA NextIInv == IInv /\ [Next]_vars => IInv'
<1> SUFFICES ASSUME IInv, [Next]_vars PROVE IInv'
  OBVIOUS
<1>1. CASE Start \/ LoopStep \/ GrowsOld
  BY <1>1, LoopKeeps
<1>2. CASE StopIdle \/ StopAsks \/ StopStep
  BY <1>2, StopKeeps
<1>3. CASE \/ \E p \in Pids : ChildEnds(p) \/ OrphanEnds(p)
           \/ DaemonKilled \/ DaemonExits \/ Boot
  BY <1>3, WorldKeeps
<1>4. CASE UNCHANGED vars
  BY <1>4 DEF vars, state, IInv, TypeOK, Held, BelowTheCap, Ending, Mine
<1> QED BY <1>1, <1>2, <1>3, <1>4 DEF Next

\* The inductive invariant: the one process of a service is in the hands of
\* its coroutine, whose place in the code says in which way.
THEOREM Inductive == Spec => []IInv
BY InitIInv, NextIInv, PTL DEF Spec

-----------------------------------------------------------------------------
\* The type invariant: among others, the count of crashes keeps to its cap.
THEOREM TypeCorrect == Spec => []TypeOK
<1>1. IInv => TypeOK
  BY DEF IInv
<1> QED BY <1>1, Inductive, PTL

\* After stop() has returned no child of this daemon runs, and nothing is left
\* that could start one, wherever stop() found the coroutine.
THEOREM StoppedIsGone == Spec => []StoppedMeansGone
<1>1. IInv => StoppedMeansGone
  BY DEF IInv, Held, Ending, Idle, Mine, StoppedMeansGone
<1> QED BY <1>1, Inductive, PTL

LEMMA AtMostOne ==
  ASSUME NEW S, \A p, q \in S : p = q PROVE Cardinality(S) <= 1
<1>1. CASE S = {}
  BY <1>1, FS_EmptySet
<1>2. CASE S # {}
  <2>1. PICK p \in S : TRUE
    BY <1>2
  <2>2. S = {p}
    BY <2>1
  <2> QED BY <2>2, FS_Singleton
<1> QED BY <1>1, <1>2

\* A daemon never has two children of one service.
THEOREM NeverTwoChildren == Spec => []OneChild
<1>1. IInv => OneChild
  <2> SUFFICES ASSUME IInv PROVE OneChild
    OBVIOUS
  <2>1. \A p, q \in {r \in Pids : child[r] \in {"up", "signalled"}} : p = q
    BY DEF IInv, TypeOK, Held, Mine
  <2> QED BY <2>1, AtMostOne DEF OneChild
<1> QED BY <1>1, Inductive, PTL

-----------------------------------------------------------------------------
(* Voice, for any number of sentences, workers and messages of the client:  *)
(* as a service has one child, a line has one worker that speaks, and none   *)
(* once it is closed.                                                        *)


\* What was said, what is queued and what is on its way follow each other.
InLine ==
    /\ \A i, j \in DOMAIN spoken : i < j => spoken[i] < spoken[j]
    /\ \A i, j \in DOMAIN queue : i < j /\ queue[i] # Stop /\ queue[j] # Stop => queue[i] < queue[j]
    /\ \A i, j \in DOMAIN tasks : i < j => tasks[i] < tasks[j]
    /\ \A i \in DOMAIN spoken, j \in DOMAIN queue : queue[j] # Stop => spoken[i] < queue[j]
    /\ \A i \in DOMAIN spoken, j \in DOMAIN tasks : spoken[i] < tasks[j]
    /\ \A i \in DOMAIN queue, j \in DOMAIN tasks : queue[i] < tasks[j]
    /\ \A i \in DOMAIN spoken : spoken[i] <= said
    /\ \A i \in DOMAIN queue : queue[i] <= said
    /\ \A i \in DOMAIN tasks : tasks[i] <= said

\* Nothing aborted is queued or on its way.
Gone ==
    /\ \A i \in DOMAIN tasks : tasks[i] > silenced
    /\ \A i \in DOMAIN queue : queue[i] # Stop => queue[i] > silenced

\* The session knows its worker, and the handler that waits for one waits for
\* that, unless a worker was started behind its back.
Known ==
    /\ current # 0 => worker[current] # "none"
    /\ ~crossed => Working \subseteq {current}
    /\ handler = "aborting" /\ ~crossed => current = awaits
    /\ handler = "stopping" /\ ~crossed /\ ~late => current = awaits
    /\ handler \in {"closing", "gone"} /\ ~crossed /\ ~late => Working = {}
    /\ isOpen <=> handler \in {"free", "aborting", "transcribing"}

VInv == VoiceTypeOK /\ InLine /\ Gone /\ Known

USE VoiceAssumption

LEMMA AppendIs ==
  ASSUME NEW S, NEW s \in Seq(S), NEW e \in S
  PROVE  /\ Append(s, e) \in Seq(S) /\ DOMAIN Append(s, e) = 1..(Len(s) + 1)
         /\ DOMAIN s = 1..Len(s) /\ Len(s) \in Nat
         /\ \A i \in DOMAIN s : Append(s, e)[i] = s[i]
         /\ Append(s, e)[Len(s) + 1] = e
OBVIOUS

LEMMA TailIs ==
  ASSUME NEW S, NEW s \in Seq(S), s # <<>>
  PROVE  /\ Tail(s) \in Seq(S) /\ Head(s) \in S /\ Head(s) = s[1] /\ 1 \in DOMAIN s
         /\ DOMAIN s \subseteq Nat
         /\ \A i \in DOMAIN Tail(s) : i + 1 \in DOMAIN s /\ i + 1 > 1 /\ Tail(s)[i] = s[i + 1]
         /\ DOMAIN Tail(s) \subseteq Nat
OBVIOUS

LEMMA InitHolds == ASSUME VoiceInit PROVE VInv
<1>1. VoiceTypeOK
  <2>1. /\ tasks \in Seq(Sentences) /\ queue \in Seq(Sentences \union {Stop})
        /\ wire \in Seq({"interrupt", "end"}) /\ spoken \in Seq(Sentences)
    BY DEF VoiceInit
  <2>2. worker \in [Workers -> {"none", "waiting", "speaking", "ended"}] /\ axed \subseteq Working
    BY DEF VoiceInit
  <2>3. /\ turn = "idle" /\ cancelled = FALSE /\ said = 0 /\ current = 0 /\ isOpen = TRUE
        /\ handler = "free" /\ sent = 0 /\ awaits = 0 /\ stopAt = 0 /\ dropped = {}
        /\ silenced = 0 /\ crossed = FALSE /\ late = FALSE
    BY DEF VoiceInit
  <2>4. /\ said \in 0..MaxSentences /\ sent \in 0..MaxMessages /\ stopAt \in 0..said
        /\ silenced \in 0..said
    BY <2>3
  <2>5. /\ handler \in {"free", "aborting", "transcribing", "stopping", "closing", "gone"}
        /\ handler \in {"aborting", "stopping"} <=> awaits # 0
    BY <2>3
  <2> QED BY <2>1, <2>2, <2>3, <2>4, <2>5 DEF VoiceTypeOK
<1>2. InLine /\ Gone
  BY DEF VoiceInit, InLine, Gone
<1>3. Known
  BY DEF VoiceInit, Known, Working
<1> QED BY <1>1, <1>2, <1>3 DEF VInv

\* The numbers of what is on the road.
LEMMA Types ==
  ASSUME VoiceTypeOK
  PROVE  /\ tasks \in Seq(Nat) /\ queue \in Seq(Nat) /\ spoken \in Seq(Nat)
         /\ said \in Nat /\ silenced \in Nat /\ stopAt \in Nat
         /\ \A i \in DOMAIN tasks : tasks[i] \in Nat /\ tasks[i] # Stop
         /\ \A i \in DOMAIN queue : queue[i] \in Nat
         /\ \A i \in DOMAIN spoken : spoken[i] \in Nat
         /\ DOMAIN tasks \subseteq Nat /\ DOMAIN queue \subseteq Nat /\ DOMAIN spoken \subseteq Nat
BY SMTT(30) DEF VoiceTypeOK, Sentences, Stop

\* What moves no sentence.
LEMMA LineSame ==
  ASSUME InLine, UNCHANGED <<tasks, queue, spoken, said>>
  PROVE  InLine'
BY DEF InLine
LEMMA GoneSame ==
  ASSUME Gone, UNCHANGED <<tasks, queue, silenced>>
  PROVE  Gone'
BY DEF Gone

LEMMA MindKeeps ==
  ASSUME VInv, TurnBegins \/ CascadeBegins \/ TurnEnds \/ PreemptsElsewhere
  PROVE  VInv'
<1>1. /\ UNCHANGED <<said, tasks, speech, axed, isOpen, handler, client, awaits, stopAt,
                     spoken, ghosts>>
      /\ turn' \in {"idle", "searching", "speaking"} /\ cancelled' \in BOOLEAN
  BY DEF TurnBegins, CascadeBegins, TurnEnds, PreemptsElsewhere, VInv, VoiceTypeOK
<1>2. VoiceTypeOK'
  BY <1>1 DEF VInv, VoiceTypeOK, speech, client, ghosts, Working
<1>3. InLine' /\ Gone'
  BY <1>1, LineSame, GoneSame DEF VInv, speech, ghosts
<1>4. Known'
  BY <1>1 DEF VInv, Known, speech, ghosts, Working
<1> QED BY <1>2, <1>3, <1>4 DEF VInv

LEMMA EmitKeeps ==
  ASSUME VInv, Emit
  PROVE  VInv'
<1>0. /\ said' = said + 1 /\ said' \in 0..MaxSentences /\ said + 1 \in Sentences
      /\ tasks' \in {tasks, Append(tasks, said + 1)}
      /\ UNCHANGED <<turn, cancelled, speech, axed, isOpen, handler, client, awaits, stopAt,
                     spoken, ghosts>>
  BY DEF Emit, VInv, VoiceTypeOK, Sentences
<1>a. /\ tasks \in Seq(Sentences)
      /\ tasks \in Seq(Nat) /\ queue \in Seq(Nat) /\ spoken \in Seq(Nat) /\ said \in Nat
      /\ silenced \in Nat /\ silenced <= said
  BY Types DEF VInv, VoiceTypeOK
<1>b. /\ Append(tasks, said + 1) \in Seq(Sentences)
      /\ DOMAIN Append(tasks, said + 1) = 1..(Len(tasks) + 1)
      /\ DOMAIN tasks = 1..Len(tasks) /\ Len(tasks) \in Nat
      /\ \A i \in DOMAIN tasks : Append(tasks, said + 1)[i] = tasks[i]
      /\ Append(tasks, said + 1)[Len(tasks) + 1] = said + 1
  BY <1>0, <1>a, AppendIs
<1>1. VoiceTypeOK'
  <2>1. tasks' \in Seq(Sentences) /\ axed' \subseteq Working'
    BY <1>0, <1>a, <1>b DEF VInv, VoiceTypeOK, speech, Working
  <2>2. stopAt' \in 0..said' /\ silenced' \in 0..said'
    BY <1>0, <1>a DEF VInv, VoiceTypeOK, ghosts
  <2> QED BY <1>0, <2>1, <2>2 DEF VInv, VoiceTypeOK, speech, client, ghosts
<1>2. InLine'
  <2>1. CASE tasks' = tasks
    BY <1>0, <1>a, <2>1, Types DEF VInv, InLine, speech
  <2>2. CASE tasks' = Append(tasks, said + 1)
    <3>1. /\ \A i \in DOMAIN spoken : spoken[i] \in Nat /\ spoken[i] <= said
          /\ \A i \in DOMAIN queue : queue[i] \in Nat /\ queue[i] <= said
          /\ \A i \in DOMAIN tasks : tasks[i] \in Nat /\ tasks[i] <= said
      BY Types DEF VInv, InLine
    <3>2. \A i, j \in DOMAIN tasks' : i < j => tasks'[i] < tasks'[j]
      BY <1>a, <1>b, <2>2, <3>1 DEF VInv, InLine
    <3>3. /\ \A i \in DOMAIN spoken, j \in DOMAIN tasks' : spoken[i] < tasks'[j]
          /\ \A i \in DOMAIN queue, j \in DOMAIN tasks' : queue[i] < tasks'[j]
          /\ \A i \in DOMAIN tasks' : tasks'[i] <= said + 1
      BY <1>a, <1>b, <2>2, <3>1, SMTT(30) DEF VInv, InLine
    <3>4. /\ \A i \in DOMAIN spoken : spoken[i] <= said + 1
          /\ \A i \in DOMAIN queue : queue[i] <= said + 1
      BY <1>a, <3>1
    <3> QED BY <1>0, <3>2, <3>3, <3>4 DEF VInv, InLine, speech
  <2> QED BY <1>0, <2>1, <2>2
<1>3. Gone'
  <2>1. \A i \in DOMAIN tasks' : tasks'[i] > silenced
    <3>1. CASE tasks' = tasks
      BY <3>1 DEF VInv, Gone
    <3>2. CASE tasks' = Append(tasks, said + 1)
      BY <1>a, <1>b, <3>2, SMTT(30) DEF VInv, Gone
    <3> QED BY <1>0, <3>1, <3>2
  <2> QED BY <1>0, <2>1 DEF VInv, Gone, speech, ghosts
<1>4. Known'
  BY <1>0 DEF VInv, Known, speech, ghosts, Working
<1> QED BY <1>1, <1>2, <1>3, <1>4 DEF VInv

LEMMA EnqueueKeeps ==
  ASSUME VInv, Enqueue
  PROVE  VInv'
<1>0. /\ tasks # <<>> /\ tasks' = Tail(tasks) /\ queue' = Append(queue, Head(tasks))
      /\ late' = (late \/ ~isOpen)
      /\ UNCHANGED <<mind, axed, isOpen, handler, client, awaits, stopAt, spoken, dropped, silenced>>
  BY DEF Enqueue
<1>a. /\ tasks \in Seq(Sentences) /\ queue \in Seq(Sentences \union {Stop})
      /\ worker \in [Workers -> {"none", "waiting", "speaking", "ended"}]
  BY DEF VInv, VoiceTypeOK
<1>b. /\ Tail(tasks) \in Seq(Sentences) /\ Head(tasks) \in Sentences /\ Head(tasks) = tasks[1]
      /\ 1 \in DOMAIN tasks
      /\ \A i \in DOMAIN Tail(tasks) : i + 1 \in DOMAIN tasks /\ i + 1 > 1
                                        /\ Tail(tasks)[i] = tasks[i + 1]
      /\ DOMAIN Tail(tasks) \subseteq Nat
  BY <1>0, <1>a, TailIs
<1>c. /\ Append(queue, Head(tasks)) \in Seq(Sentences \union {Stop})
      /\ DOMAIN Append(queue, Head(tasks)) = 1..(Len(queue) + 1)
      /\ DOMAIN queue = 1..Len(queue) /\ Len(queue) \in Nat
      /\ \A i \in DOMAIN queue : Append(queue, Head(tasks))[i] = queue[i]
      /\ Append(queue, Head(tasks))[Len(queue) + 1] = Head(tasks)
  BY <1>a, <1>b, AppendIs
<1>1. /\ current' \in Workers \union {0}
      /\ worker' \in [Workers -> {"none", "waiting", "speaking", "ended"}]
      /\ Working \subseteq Working' /\ crossed' \in BOOLEAN
      /\ current' # 0 => worker'[current'] # "none"
      /\ \/ UNCHANGED <<worker, current, crossed>>
         \/ ~Running /\ crossed' = (crossed \/ handler = "aborting") /\ current' # 0
                     /\ Working' = Working \union {current'}
  <2>1. CASE Running
    BY <1>a, <2>1 DEF Enqueue, VInv, VoiceTypeOK, Known, Running, Working
  <2>2. CASE ~Running
    <3>1. PICK w \in Unused : /\ worker' = [worker EXCEPT ![w] = "waiting"] /\ current' = w
                              /\ crossed' = (crossed \/ handler = "aborting")
      BY <2>2 DEF Enqueue
    <3>2. w \in Workers /\ w # 0 /\ worker[w] = "none"
      BY <3>1 DEF Unused, Workers
    <3>3. Working' = Working \union {w}
      BY <1>a, <3>1, <3>2 DEF Working
    <3> QED BY <1>a, <2>2, <3>1, <3>2, <3>3 DEF VInv, VoiceTypeOK
  <2> QED BY <2>1, <2>2
<1>2. VoiceTypeOK'
  BY <1>0, <1>a, <1>b, <1>c, <1>1 DEF VInv, VoiceTypeOK, mind, client
<1>3. InLine'
  <2>1. /\ \A i \in DOMAIN queue : queue[i] \in Nat /\ queue[i] < tasks[1]
        /\ \A i \in DOMAIN spoken : spoken[i] \in Nat /\ spoken[i] < tasks[1]
        /\ \A i \in DOMAIN tasks : tasks[i] \in Nat /\ (i > 1 => tasks[1] < tasks[i])
        /\ DOMAIN tasks \subseteq Nat
    BY <1>b, Types DEF VInv, InLine
  <2>2. /\ \A i, j \in DOMAIN tasks' : i < j => tasks'[i] < tasks'[j]
        /\ \A i \in DOMAIN spoken, j \in DOMAIN tasks' : spoken[i] < tasks'[j]
        /\ \A i \in DOMAIN tasks' : tasks'[i] <= said
    BY <1>0, <1>b DEF VInv, InLine
  <2>3. /\ \A i, j \in DOMAIN queue' : i < j /\ queue'[i] # Stop /\ queue'[j] # Stop
                                          => queue'[i] < queue'[j]
        /\ \A i \in DOMAIN spoken, j \in DOMAIN queue' : queue'[j] # Stop => spoken[i] < queue'[j]
        /\ \A i \in DOMAIN queue' : queue'[i] <= said
    BY <1>0, <1>b, <1>c, <2>1 DEF VInv, InLine
  <2>4. \A i \in DOMAIN queue', j \in DOMAIN tasks' : queue'[i] < tasks'[j]
    BY <1>0, <1>b, <1>c, <2>1, SMTT(30) DEF VInv, InLine
  <2> QED BY <1>0, <2>2, <2>3, <2>4 DEF VInv, InLine, mind
<1>4. Gone'
  BY <1>0, <1>b, <1>c DEF VInv, Gone
<1>5. Known'
  <2>1. ~Running => current = 0 \/ current \notin Working
    BY DEF Running, Working
  <2>2. CASE UNCHANGED <<worker, current, crossed>>
    BY <1>0, <2>2 DEF VInv, Known, Working
  <2>3. CASE /\ ~Running /\ crossed' = (crossed \/ handler = "aborting") /\ current' # 0
             /\ Working' = Working \union {current'}
    <3>1. crossed' \/ Working' \subseteq {current'}
      <4>1. Working \subseteq Workers /\ 0 \notin Workers
        BY DEF Working, Workers
      <4>2. ~crossed => Working = {}
        BY <2>1, <2>3, <4>1 DEF VInv, Known
      <4> QED BY <2>3, <4>2
    <3>2. handler = "aborting" => crossed'
      BY <2>3
    <3>3. handler \in {"stopping", "closing", "gone"} => late'
      BY <1>0 DEF VInv, Known
    <3> QED BY <1>0, <1>1, <3>1, <3>2, <3>3 DEF VInv, Known
  <2> QED BY <1>1, <2>2, <2>3
<1> QED BY <1>2, <1>3, <1>4, <1>5 DEF VInv

LEMMA WorkerKeeps ==
  ASSUME VInv, NEW w \in Workers, Takes(w) \/ Speaks(w) \/ EndsAxed(w)
  PROVE  VInv'
<1>0. /\ worker \in [Workers -> {"none", "waiting", "speaking", "ended"}] /\ w \in Working
      /\ \E x \in {"waiting", "speaking", "ended"} : worker' = [worker EXCEPT ![w] = x]
      /\ axed' \subseteq Working'
      /\ UNCHANGED <<mind, tasks, current, isOpen, handler, client, awaits, stopAt, ghosts>>
  <2>1. worker \in [Workers -> {"none", "waiting", "speaking", "ended"}] /\ axed \subseteq Working
    BY DEF VInv, VoiceTypeOK
  <2>2. CASE Takes(w)
    BY <2>1, <2>2 DEF Takes, Working
  <2>3. CASE Speaks(w)
    BY <2>1, <2>3 DEF Speaks, Working
  <2>4. CASE EndsAxed(w)
    BY <2>1, <2>4 DEF EndsAxed, Working
  <2> QED BY <2>2, <2>3, <2>4
<1>1. Known'
  <2>1. Working' \subseteq Working /\ \A v \in Workers : worker'[v] = "none" <=> worker[v] = "none"
    BY <1>0 DEF Working
  <2>2. current \in Workers \union {0} /\ (current # 0 => current \in Workers)
    BY DEF VInv, VoiceTypeOK
  <2> QED BY <1>0, <2>1, <2>2 DEF VInv, Known, ghosts
<1>2. CASE UNCHANGED <<queue, spoken>>
  <2>1. VoiceTypeOK'
    BY <1>0, <1>2 DEF VInv, VoiceTypeOK, mind, client, ghosts
  <2>2. InLine' /\ Gone'
    BY <1>0, <1>2, LineSame, GoneSame DEF VInv, mind, ghosts
  <2> QED BY <1>1, <2>1, <2>2 DEF VInv
<1>3. CASE queue # <<>> /\ queue' = Tail(queue)
            /\ spoken' = IF Head(queue) = Stop THEN spoken ELSE Append(spoken, Head(queue))
  <2>a. queue \in Seq(Sentences \union {Stop}) /\ spoken \in Seq(Sentences)
    BY DEF VInv, VoiceTypeOK
  <2>b. /\ Tail(queue) \in Seq(Sentences \union {Stop}) /\ Head(queue) \in Sentences \union {Stop}
        /\ Head(queue) = queue[1] /\ 1 \in DOMAIN queue
        /\ \A i \in DOMAIN Tail(queue) : i + 1 \in DOMAIN queue /\ i + 1 > 1
                                          /\ Tail(queue)[i] = queue[i + 1]
        /\ DOMAIN Tail(queue) \subseteq Nat
    BY <1>3, <2>a, TailIs
  <2>c. ASSUME Head(queue) # Stop
        PROVE  /\ spoken' \in Seq(Sentences) /\ spoken' = Append(spoken, queue[1])
               /\ DOMAIN spoken' = 1..(Len(spoken) + 1)
               /\ DOMAIN spoken = 1..Len(spoken) /\ Len(spoken) \in Nat
               /\ \A i \in DOMAIN spoken : spoken'[i] = spoken[i]
               /\ spoken'[Len(spoken) + 1] = queue[1]
    BY <1>3, <2>a, <2>b, <2>c, AppendIs
  <2>1. VoiceTypeOK'
    BY <1>0, <1>3, <2>a, <2>b, <2>c DEF VInv, VoiceTypeOK, mind, client, ghosts
  <2>2. Gone'
    BY <1>0, <1>3, <2>b DEF VInv, Gone, ghosts
  <2>3. InLine'
    <3>1. /\ \A i, j \in DOMAIN queue' : i < j /\ queue'[i] # Stop /\ queue'[j] # Stop
                                          => queue'[i] < queue'[j]
          /\ \A i \in DOMAIN queue', j \in DOMAIN tasks : queue'[i] < tasks[j]
          /\ \A i \in DOMAIN queue' : queue'[i] <= said
      BY <1>3, <2>b DEF VInv, InLine
    <3>2. CASE Head(queue) = Stop
      <4>1. \A i \in DOMAIN spoken, j \in DOMAIN queue' : queue'[j] # Stop => spoken[i] < queue'[j]
        BY <1>3, <2>b DEF VInv, InLine
      <4> QED BY <1>0, <1>3, <3>1, <3>2, <4>1 DEF VInv, InLine, mind
    <3>3. CASE Head(queue) # Stop
      <4>1. /\ \A i \in DOMAIN spoken : spoken[i] \in Nat /\ spoken[i] < queue[1]
            /\ queue[1] \in Nat /\ queue[1] <= said
            /\ \A j \in DOMAIN tasks : queue[1] < tasks[j]
            /\ \A j \in DOMAIN queue : j > 1 /\ queue[j] # Stop => queue[1] < queue[j]
            /\ DOMAIN queue \subseteq Nat
        BY <2>b, <3>3, Types DEF VInv, InLine
      <4>2. \A i, j \in DOMAIN spoken' : i < j => spoken'[i] < spoken'[j]
        BY <2>c, <3>3, <4>1 DEF VInv, InLine
      <4>3. \A i \in DOMAIN spoken', j \in DOMAIN queue' : queue'[j] # Stop => spoken'[i] < queue'[j]
        BY <1>3, <2>b, <2>c, <3>3, <4>1 DEF VInv, InLine
      <4>4. \A i \in DOMAIN spoken', j \in DOMAIN tasks : spoken'[i] < tasks[j]
        BY <2>c, <3>3, <4>1 DEF VInv, InLine
      <4>5. \A i \in DOMAIN spoken' : spoken'[i] <= said
        BY <2>c, <3>3, <4>1 DEF VInv, InLine
      <4> QED BY <1>0, <3>1, <4>2, <4>3, <4>4, <4>5 DEF VInv, InLine, mind
    <3> QED BY <3>2, <3>3
  <2> QED BY <1>1, <2>1, <2>2, <2>3 DEF VInv
<1> QED BY <1>2, <1>3 DEF Takes, Speaks, EndsAxed

LEMMA WireKeeps ==
  ASSUME VInv,
         \/ \E m \in {"interrupt", "end"} : Sends(m)
         \/ FindsNothing \/ Transcribes \/ Transcribed \/ Closed \/ StopTimesOut \/ Stopped
  PROVE  VInv'
<1>1. /\ UNCHANGED <<mind, tasks, speech, isOpen, stopAt, spoken, ghosts>>
      /\ axed' \subseteq Working
      /\ wire' \in Seq({"interrupt", "end"}) /\ sent' \in 0..MaxMessages
      /\ \/ handler' = handler /\ awaits' = awaits
         \/ handler = "free" /\ handler' = "transcribing" /\ awaits' = awaits
         \/ handler = "transcribing" /\ handler' = "free" /\ awaits' = awaits
         \/ handler = "closing" /\ handler' = "gone" /\ awaits' = awaits
         \/ handler = "stopping" /\ handler' = "closing" /\ awaits' = 0 /\ worker[awaits] = "ended"
  <2>1. wire \in Seq({"interrupt", "end"}) /\ sent \in 0..MaxMessages /\ axed \subseteq Working
    BY DEF VInv, VoiceTypeOK
  <2>2. ASSUME NEW m \in {"interrupt", "end"}, Sends(m)
        PROVE  /\ UNCHANGED <<mind, tasks, speech, axed, isOpen, handler, awaits, stopAt,
                              spoken, ghosts>>
               /\ wire' \in Seq({"interrupt", "end"}) /\ sent' \in 0..MaxMessages
    BY <2>1, <2>2, AppendIs DEF Sends
  <2>3. ASSUME NEW m \in {"interrupt", "end"}, Reads(m)
        PROVE  wire' \in Seq({"interrupt", "end"}) /\ sent' = sent /\ handler = "free"
    BY <2>1, <2>3, TailIs DEF Reads
  <2>4. CASE FindsNothing
    BY <2>1, <2>3, <2>4 DEF FindsNothing
  <2>5. CASE Transcribes
    BY <2>1, <2>3, <2>5 DEF Transcribes
  <2>6. CASE Transcribed
    BY <2>1, <2>6 DEF Transcribed, client
  <2>7. CASE Closed
    BY <2>1, <2>7 DEF Closed
  <2>8. CASE StopTimesOut
    BY <2>1, <2>8 DEF StopTimesOut, client
  <2>9. CASE Stopped
    BY <2>1, <2>9 DEF Stopped, client
  <2> QED BY <2>1, <2>2, <2>4, <2>5, <2>6, <2>7, <2>8, <2>9
<1>2. VoiceTypeOK'
  BY <1>1 DEF VInv, VoiceTypeOK, mind, speech, ghosts, Working
<1>3. InLine' /\ Gone'
  BY <1>1, LineSame, GoneSame DEF VInv, mind, speech, ghosts
<1>4. Known'
  <2>1. worker[current] = "ended" => current \notin Working
    BY DEF Working
  <2> QED BY <1>1, <2>1 DEF VInv, Known, speech, ghosts, Working
<1> QED BY <1>2, <1>3, <1>4 DEF VInv

LEMMA PreemptsKeeps ==
  ASSUME VInv, Preempts
  PROVE  VInv'
<1>1. /\ handler = "free" /\ wire' \in Seq({"interrupt", "end"}) /\ sent' = sent
      /\ cancelled' = TRUE
      /\ UNCHANGED <<turn, said, tasks, worker, isOpen, spoken, silenced, crossed, late>>
  BY TailIs DEF Preempts, Reads, VInv, VoiceTypeOK
<1>2. CASE Running
  <2>1. /\ handler' = "aborting" /\ axed' = axed \union {current} /\ awaits' = current
        /\ stopAt' = said /\ UNCHANGED <<current, queue, dropped>>
    BY <1>2 DEF Preempts
  <2>2. current \in Working /\ current \in Workers /\ current # 0
    BY <1>2 DEF Running, VInv, Known, VoiceTypeOK, Working
  <2>3. VoiceTypeOK'
    BY <1>1, <2>1, <2>2 DEF VInv, VoiceTypeOK, Working
  <2>4. InLine' /\ Gone'
    BY <1>1, <2>1, LineSame, GoneSame DEF VInv
  <2>5. Known'
    BY <1>1, <2>1 DEF VInv, Known, Working
  <2> QED BY <2>3, <2>4, <2>5 DEF VInv
<1>3. CASE ~Running
  <2>1. /\ current' = 0 /\ queue' = <<>> /\ dropped' = dropped \union InQueue
        /\ UNCHANGED <<handler, axed, awaits, stopAt>>
    BY <1>3 DEF Preempts
  <2>2. InQueue \subseteq Sentences \union {Stop}
    BY DEF InQueue, VInv, VoiceTypeOK
  <2>3. VoiceTypeOK'
    BY <1>1, <2>1, <2>2 DEF VInv, VoiceTypeOK, Working
  <2>4. InLine' /\ Gone'
    BY <1>1, <2>1 DEF VInv, InLine, Gone
  <2>5. current = 0 \/ current \notin Working
    BY <1>3 DEF Running, Working
  <2>6. 0 \notin Workers
    BY DEF Workers
  <2>7. Known'
    BY <1>1, <2>1, <2>5, <2>6 DEF VInv, Known, Working
  <2> QED BY <2>3, <2>4, <2>7 DEF VInv
<1> QED BY <1>2, <1>3

LEMMA AbortedKeeps ==
  ASSUME VInv, Aborted
  PROVE  VInv'
<1>1. /\ handler = "aborting" /\ worker[awaits] = "ended" /\ \A i \in DOMAIN tasks : tasks[i] > stopAt
      /\ handler' = "free" /\ current' = 0 /\ queue' = <<>> /\ dropped' = dropped \union InQueue
      /\ silenced' = stopAt /\ stopAt' = 0 /\ awaits' = 0
      /\ UNCHANGED <<mind, tasks, worker, axed, isOpen, client, spoken, crossed, late>>
  BY DEF Aborted
<1>2. InQueue \subseteq Sentences \union {Stop}
  BY DEF InQueue, VInv, VoiceTypeOK
<1>3. VoiceTypeOK'
  BY <1>1, <1>2 DEF VInv, VoiceTypeOK, mind, client, Working
<1>4. InLine' /\ Gone'
  BY <1>1 DEF VInv, InLine, Gone, mind
<1>5. Known'
  BY <1>1 DEF VInv, Known, Working
<1> QED BY <1>3, <1>4, <1>5 DEF VInv

LEMMA CloseKeeps ==
  ASSUME VInv, Close
  PROVE  VInv'
<1>1. /\ handler \in {"free", "transcribing"} /\ isOpen' = FALSE
      /\ UNCHANGED <<mind, tasks, worker, current, axed, client, stopAt, spoken, ghosts>>
  BY DEF Close
<1>2. CASE Running
  <2>1. handler' = "stopping" /\ awaits' = current /\ queue' = Append(queue, Stop)
    BY <1>2 DEF Close
  <2>2. current \in Workers /\ current # 0 /\ queue \in Seq(Sentences \union {Stop})
    BY <1>2 DEF Running, VInv, VoiceTypeOK
  <2>3. /\ Append(queue, Stop) \in Seq(Sentences \union {Stop})
        /\ DOMAIN Append(queue, Stop) = 1..(Len(queue) + 1)
        /\ DOMAIN queue = 1..Len(queue) /\ Len(queue) \in Nat
        /\ \A i \in DOMAIN queue : Append(queue, Stop)[i] = queue[i]
        /\ Append(queue, Stop)[Len(queue) + 1] = Stop
    BY <2>2, AppendIs
  <2>4. VoiceTypeOK'
    BY <1>1, <2>1, <2>2, <2>3 DEF VInv, VoiceTypeOK, mind, client, ghosts, Working
  <2>5. \A j \in DOMAIN tasks : tasks[j] \in Nat /\ tasks[j] # 0 /\ said \in Nat
    BY Types DEF VInv, Stop
  <2>6. InLine'
    BY <1>1, <2>1, <2>3, <2>5, Types, SMTT(30) DEF VInv, InLine, mind, Stop
  <2>7. Gone'
    BY <1>1, <2>1, <2>3 DEF VInv, Gone, ghosts
  <2>8. Known'
    BY <1>1, <2>1 DEF VInv, Known, ghosts, Working
  <2> QED BY <2>4, <2>6, <2>7, <2>8 DEF VInv
<1>3. CASE ~Running
  <2>1. handler' = "closing" /\ awaits' = 0 /\ queue' = queue
    BY <1>3 DEF Close
  <2>2. VoiceTypeOK'
    BY <1>1, <2>1 DEF VInv, VoiceTypeOK, mind, client, ghosts, Working
  <2>3. InLine' /\ Gone'
    BY <1>1, <2>1, LineSame, GoneSame DEF VInv, mind, ghosts
  <2>4. Working \subseteq {current} => Working = {}
    BY <1>3 DEF Running, Working, Workers
  <2>5. Known'
    BY <1>1, <2>1, <2>4 DEF VInv, Known, ghosts, Working
  <2> QED BY <2>2, <2>3, <2>5 DEF VInv
<1> QED BY <1>2, <1>3

LEMMA StutterKeeps == ASSUME VInv, UNCHANGED voiceVars PROVE VInv'
BY DEF VInv, VoiceTypeOK, InLine, Gone, Known, voiceVars, mind, speech, client, ghosts, Working

LEMMA NextHolds == ASSUME VInv, [VoiceNext]_voiceVars PROVE VInv'
BY MindKeeps, EmitKeeps, EnqueueKeeps, WorkerKeeps, WireKeeps, PreemptsKeeps, AbortedKeeps,
   CloseKeeps, StutterKeeps DEF VoiceNext

\* Everything a sentence meets on its road.
THEOREM Road == VoiceSpec => []VInv
BY InitHolds, NextHolds, PTL DEF VoiceSpec

\* Her sentences are said in order and once, by one worker, and by none when the
\* connection has gone, but for the two races the property names.
THEOREM OneVoiceOnly == VoiceSpec => []OneVoiceOnALine
<1>1. VInv => OneVoiceOnALine
  <2> SUFFICES ASSUME VInv PROVE OneVoiceOnALine
    OBVIOUS
  <2>1. crossed \/ \A v, w \in Working : v = w
    BY DEF VInv, Known
  <2> QED BY <2>1 DEF VInv, OneVoiceOnALine, OneVoice, ClosedIsSilent, InLine, Known
<1> QED BY <1>1, Road, PTL

\* After an abort nothing emitted before it is said.
THEOREM AbortIsHeard == VoiceSpec => AbortSilences
<1>1. ASSUME VInv, VoiceNext, Len(spoken') > Len(spoken)
      PROVE  spoken'[Len(spoken')] > silenced
  <2>0. spoken \in Seq(Sentences) /\ Len(spoken) \in Nat
    BY <1>1 DEF VInv, VoiceTypeOK
  <2>1. PICK w \in Workers : Takes(w)
    BY <1>1, <2>0 DEF VoiceNext, TurnBegins, CascadeBegins, Emit, TurnEnds, Enqueue, Speaks,
       EndsAxed, Sends, Preempts, PreemptsElsewhere, FindsNothing, Aborted, Transcribes,
       Transcribed, Close, StopTimesOut, Stopped, Closed
  <2>2. Head(queue) # Stop /\ spoken' = Append(spoken, Head(queue)) /\ queue # <<>>
    BY <1>1, <2>0, <2>1 DEF Takes
  <2>3. queue \in Seq(Sentences \union {Stop})
    BY <1>1 DEF VInv, VoiceTypeOK
  <2>4. Head(queue) = queue[1] /\ 1 \in DOMAIN queue /\ Head(queue) \in Sentences
    BY <2>2, <2>3, TailIs
  <2>5. spoken'[Len(spoken')] = Head(queue)
    BY <2>0, <2>2, <2>4
  <2> QED BY <1>1, <2>2, <2>4, <2>5 DEF VInv, Gone
<1>2. ASSUME UNCHANGED voiceVars
      PROVE  ~(Len(spoken') > Len(spoken)) \/ spoken'[Len(spoken')] > silenced
  BY <1>2 DEF voiceVars
<1> QED BY <1>1, Road, PTL DEF VoiceSpec, AbortSilences

\* What the voice is given to say is said in turns of Cascade: none is begun
\* but uncancelled, and no cancelled one says another sentence.
THEOREM SpeaksTurnByTurn == VoiceSpec => SpeaksInCascades
<1> DEFINE open == IF turn = "speaking" THEN "speaking" ELSE "idle"
<1>1. VoiceInit => CascadesHeard!Init
  BY DEF VoiceInit, CascadesHeard!Init
<1>2. ASSUME VInv, [VoiceNext]_voiceVars
      PROVE  CascadesHeard!Next \/ UNCHANGED <<open, cancelled, said>>
  <2>1. cancelled \in BOOLEAN
    BY <1>2 DEF VInv, VoiceTypeOK
  <2>2. CASE UNCHANGED mind
    BY <2>2 DEF mind
  <2>3. CASE TurnBegins
    BY <2>3 DEF TurnBegins
  <2>4. CASE CascadeBegins
    BY <2>4 DEF CascadeBegins, CascadesHeard!Next, CascadesHeard!Begin
  <2>5. CASE Emit
    BY <2>5 DEF Emit, CascadesHeard!Next, CascadesHeard!Utter
  <2>6. CASE TurnEnds
    BY <2>6 DEF TurnEnds, CascadesHeard!Next, CascadesHeard!End
  <2>7. CASE Preempts \/ PreemptsElsewhere
    <3>1. turn = "speaking" /\ cancelled' = TRUE /\ UNCHANGED <<turn, said>>
      BY <2>7 DEF Preempts, PreemptsElsewhere
    <3>2. CASE cancelled
      BY <2>1, <3>1, <3>2
    <3>3. CASE ~cancelled
      BY <3>1, <3>3 DEF CascadesHeard!Next, CascadesHeard!Cancel
    <3> QED BY <3>2, <3>3
  <2>8. ASSUME NEW w \in Workers, Takes(w) \/ Speaks(w) \/ EndsAxed(w)
        PROVE  UNCHANGED mind
    BY <2>8 DEF Takes, Speaks, EndsAxed
  <2>9. ASSUME NEW m \in {"interrupt", "end"}, Sends(m) PROVE UNCHANGED mind
    BY <2>9 DEF Sends
  <2>10. CASE Enqueue \/ FindsNothing \/ Aborted \/ Transcribes \/ Transcribed
              \/ Close \/ StopTimesOut \/ Stopped \/ Closed
    BY <2>2, <2>10 DEF Enqueue, FindsNothing, Aborted, Transcribes, Transcribed, Close,
       StopTimesOut, Stopped, Closed
  <2>11. CASE UNCHANGED voiceVars
    BY <2>2, <2>11 DEF voiceVars
  <2> QED BY <1>2, <2>2, <2>3, <2>4, <2>5, <2>6, <2>7, <2>8, <2>9, <2>10, <2>11 DEF VoiceNext
<1> QED BY <1>1, <1>2, Road, PTL DEF VoiceSpec, SpeaksInCascades, CascadesHeard!Spec

\* She is heard turn by turn (voice/session.py, voice/sink.py): what she says is of
\* turns of Cascade, and nothing emitted before an abort is said after it.
THEOREM HeardInTurns == VoiceSpec => HeardTurnByTurn
BY AbortIsHeard, SpeaksTurnByTurn DEF HeardTurnByTurn
=============================================================================
