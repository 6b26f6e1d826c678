--------------------------------- MODULE Voice ---------------------------------
(***************************************************************************)
(* Doll's voice on one connection: the sink that hands her sentences to    *)
(* the session, VoiceSession's speech queue and its worker, the kernel's   *)
(* preemption that aborts them, and the connection's handler, which takes  *)
(* one message of the client's after the other and closes the session.     *)
(*                                                                         *)
(* Abstractions.  Sentences are numbered as the mind loop emits them.  Of  *)
(* an utterance, only the transcription its end waits for.  The session is *)
(* open at the start and no second offer is made.  Synthesis is a span;    *)
(* what has reached the outbound track plays on, whatever is aborted.      *)
(*                                                                         *)
(* A step is what a task does between two awaits.  asyncio runs what is    *)
(* ready in order: Abort relies on it once, see Aborted.                   *)
(***************************************************************************)
EXTENDS Naturals, Sequences

CONSTANTS
    MaxSentences,   \* bound: sentences emitted
    MaxMessages,    \* bound: messages of the client
    MaxWorkers      \* bound: speak workers started

ASSUME VoiceAssumption == MaxSentences \in Nat /\ MaxMessages \in Nat /\ MaxWorkers \in Nat

Sentences == 1..MaxSentences
Workers   == 1..MaxWorkers
Stop      == 0      \* the None that ends a worker

VARIABLES
    turn,       \* the mind loop: idle, searching its memory, speaking
    cancelled,  \* the cancel event of its cascade
    said,       \* sentences emitted
    tasks,      \* enqueue_speak tasks created and not run, in order
    queue,      \* _speak_queue
    worker,     \* each worker's stage: none, waiting, speaking, ended
    current,    \* _speak_worker_task, 0 for None
    axed,       \* workers cancelled and not ended
    isOpen,     \* _is_open
    handler,    \* the connection's handler: free, aborting, transcribing,
                \* stopping, closing, gone
    wire,       \* messages of the client, unread
    sent,       \* how many there were
    awaits,     \* the worker the handler waits for, aborting or stopping
    stopAt,     \* what had been said when the abort under way began
    spoken,     \* ghost: sentences synthesised, in the order they began
    dropped,    \* ghost: sentences an abort took out of the queue
    silenced,   \* ghost: a sentence up to here was aborted, worker and all
    crossed,    \* ghost: a worker was started behind an abort's back
    late        \* ghost: a sentence was queued after the session had closed

mind   == <<turn, cancelled, said>>
speech == <<queue, worker, current>>
client == <<wire, sent>>
ghosts == <<dropped, silenced, crossed, late>>
voiceVars ==
    <<mind, tasks, speech, axed, isOpen, handler, client, awaits, stopAt, spoken, ghosts>>

Working   == {w \in Workers : worker[w] \in {"waiting", "speaking"}}
Running   == current # 0 /\ worker[current] # "ended"
Unused    == {w \in Workers : worker[w] = "none"}
InQueue   == {queue[i] : i \in DOMAIN queue}

-----------------------------------------------------------------------------
(* The mind loop, and TTSObservingSink                                      *)

TurnBegins ==
    /\ turn = "idle" /\ turn' = "searching"
    /\ UNCHANGED <<cancelled, said, tasks, speech, axed, isOpen, handler, client, awaits, stopAt, spoken, ghosts>>

\* Only now is there a cascade to cancel.
CascadeBegins ==
    /\ turn = "searching" /\ turn' = "speaking" /\ cancelled' = FALSE
    /\ UNCHANGED <<said, tasks, speech, axed, isOpen, handler, client, awaits, stopAt, spoken, ghosts>>

\* Mutant: whether the turn was cancelled is not looked at again.
EmitRegardless ==
    /\ turn = "speaking" /\ said < MaxSentences
    /\ said' = said + 1
    /\ tasks' = IF isOpen THEN Append(tasks, said + 1) ELSE tasks
    /\ UNCHANGED <<turn, cancelled, speech, axed, isOpen, handler, client, awaits, stopAt, spoken, ghosts>>

\* put_nowait: a task of its own queues the sentence, if the session is open.
Emit ==
    /\ turn = "speaking" /\ ~cancelled /\ said < MaxSentences
    /\ said' = said + 1
    /\ tasks' = IF isOpen THEN Append(tasks, said + 1) ELSE tasks
    /\ UNCHANGED <<turn, cancelled, speech, axed, isOpen, handler, client, awaits, stopAt, spoken, ghosts>>

TurnEnds ==
    /\ turn = "speaking" /\ turn' = "idle"
    /\ UNCHANGED <<cancelled, said, tasks, speech, axed, isOpen, handler, client, awaits, stopAt, spoken, ghosts>>

-----------------------------------------------------------------------------
(* VoiceSession's queue and worker                                          *)

\* Mutant: a worker is started once and for all.
EnqueueFirst ==
    /\ tasks # <<>> /\ (Working = {} => Unused # {})
    /\ tasks' = Tail(tasks)
    /\ queue' = Append(queue, Head(tasks))
    /\ IF Running \/ Unused # Workers THEN UNCHANGED <<worker, current, crossed>>
       ELSE worker' = [worker EXCEPT ![1] = "waiting"] /\ current' = 1 /\ UNCHANGED crossed
    /\ late' = (late \/ ~isOpen)
    /\ UNCHANGED <<mind, axed, isOpen, handler, client, awaits, stopAt, spoken, dropped, silenced>>

\* enqueue_speak: starts a worker unless one runs.
Enqueue ==
    /\ tasks # <<>> /\ (~Running => Unused # {})
    /\ tasks' = Tail(tasks)
    /\ queue' = Append(queue, Head(tasks))
    /\ IF Running THEN UNCHANGED <<worker, current, crossed>>
       ELSE /\ \E w \in Unused : /\ \A v \in Unused : w <= v
                                 /\ worker' = [worker EXCEPT ![w] = "waiting"]
                                 /\ current' = w
            /\ crossed' = (crossed \/ handler = "aborting")
    /\ late' = (late \/ ~isOpen)
    /\ UNCHANGED <<mind, axed, isOpen, handler, client, awaits, stopAt, spoken, dropped, silenced>>

Takes(w) ==
    /\ worker[w] = "waiting" /\ w \notin axed /\ queue # <<>>
    /\ queue' = Tail(queue)
    /\ IF Head(queue) = Stop
       THEN worker' = [worker EXCEPT ![w] = "ended"] /\ UNCHANGED spoken
       ELSE /\ worker' = [worker EXCEPT ![w] = "speaking"]
            /\ spoken' = Append(spoken, Head(queue))
    /\ UNCHANGED <<mind, tasks, current, axed, isOpen, handler, client, awaits, stopAt, ghosts>>

\* Mutant: a sentence whose synthesis raised gets another try.
SpeaksOrRetries(w) ==
    /\ worker[w] = "speaking" /\ w \notin axed
    /\ worker' = [worker EXCEPT ![w] = "waiting"]
    /\ queue' \in {queue, Append(queue, spoken[Len(spoken)])}
    /\ UNCHANGED <<mind, tasks, current, axed, isOpen, handler, client, awaits, stopAt, spoken, ghosts>>

\* Synthesised, or its engine raised.
Speaks(w) ==
    /\ worker[w] = "speaking" /\ w \notin axed
    /\ worker' = [worker EXCEPT ![w] = "waiting"]
    /\ UNCHANGED <<mind, tasks, queue, current, axed, isOpen, handler, client, awaits, stopAt, spoken, ghosts>>

\* The CancelledError reaches the worker, out of the queue or the engine.
EndsAxed(w) ==
    /\ w \in axed
    /\ worker' = [worker EXCEPT ![w] = "ended"]
    /\ axed' = axed \ {w}
    /\ UNCHANGED <<mind, tasks, queue, current, isOpen, handler, client, awaits, stopAt, spoken, ghosts>>

-----------------------------------------------------------------------------
(* The connection's handler                                                 *)

Sends(m) ==
    /\ handler # "gone" /\ sent < MaxMessages
    /\ sent' = sent + 1 /\ wire' = Append(wire, m)
    /\ UNCHANGED <<mind, tasks, speech, axed, isOpen, handler, awaits, stopAt, spoken, ghosts>>

Reads(m) ==
    /\ handler = "free" /\ wire # <<>> /\ Head(wire) = m
    /\ wire' = Tail(wire)
    /\ UNCHANGED sent

\* A cascade is in flight from its first pass to its last, cancelled or not.
Preempts ==
    /\ Reads("interrupt") /\ turn = "speaking"
    /\ cancelled' = TRUE
    /\ IF Running
       THEN /\ handler' = "aborting" /\ axed' = axed \union {current}
            /\ awaits' = current /\ stopAt' = said
            /\ UNCHANGED <<current, queue, dropped>>
       ELSE /\ current' = 0 /\ queue' = <<>> /\ dropped' = dropped \union InQueue
            /\ UNCHANGED <<handler, axed, awaits, stopAt>>
    /\ UNCHANGED <<turn, said, tasks, worker, isOpen, spoken, silenced, crossed, late>>

\* Idle, or still searching: nothing to preempt, though the worker may speak.
FindsNothing ==
    /\ Reads("interrupt") /\ turn # "speaking"
    /\ UNCHANGED <<mind, tasks, speech, axed, isOpen, handler, awaits, stopAt, spoken, ghosts>>

\* The owner writes on Discord: the cascade is cancelled, and the connection
\* that wrote has no voice to abort.
PreemptsElsewhere ==
    /\ turn = "speaking" /\ ~cancelled
    /\ cancelled' = TRUE
    /\ UNCHANGED <<turn, said, tasks, speech, axed, isOpen, handler, client, awaits, stopAt, spoken, ghosts>>

\* Mutant: let go of the worker, and leave what was queued meanwhile.
AbortedUndrained ==
    /\ handler = "aborting" /\ worker[awaits] = "ended"
    /\ \A i \in DOMAIN tasks : tasks[i] > stopAt
    /\ handler' = "free" /\ current' = 0
    /\ silenced' = stopAt /\ stopAt' = 0 /\ awaits' = 0
    /\ UNCHANGED <<mind, tasks, queue, worker, axed, isOpen, client, spoken, dropped, crossed, late>>

\* The abort goes on once its worker has ended; the tasks that were ready when
\* it cancelled the worker have run by then.
Aborted ==
    /\ handler = "aborting" /\ worker[awaits] = "ended"
    /\ \A i \in DOMAIN tasks : tasks[i] > stopAt
    /\ handler' = "free" /\ current' = 0
    /\ queue' = <<>> /\ dropped' = dropped \union InQueue
    /\ silenced' = stopAt /\ stopAt' = 0 /\ awaits' = 0
    /\ UNCHANGED <<mind, tasks, worker, axed, isOpen, client, spoken, crossed, late>>

\* UtteranceEnd: the handler itself waits for the transcription.
Transcribes ==
    /\ Reads("end") /\ handler' = "transcribing"
    /\ UNCHANGED <<mind, tasks, speech, axed, isOpen, awaits, stopAt, spoken, ghosts>>

Transcribed ==
    /\ handler = "transcribing" /\ handler' = "free"
    /\ UNCHANGED <<mind, tasks, speech, axed, isOpen, client, awaits, stopAt, spoken, ghosts>>

\* Mutant: close without waiting for the worker.
CloseAtOnce ==
    /\ handler \in {"free", "transcribing"}
    /\ isOpen' = FALSE /\ handler' = "closing"
    /\ queue' = IF Running THEN Append(queue, Stop) ELSE queue
    /\ UNCHANGED <<mind, tasks, worker, current, axed, client, awaits, stopAt, spoken, ghosts>>

\* The client has gone, or a message raised: the worker gets its Stop.
Close ==
    /\ handler \in {"free", "transcribing"}
    /\ isOpen' = FALSE
    /\ handler' = IF Running THEN "stopping" ELSE "closing"
    /\ awaits' = IF Running THEN current ELSE 0
    /\ queue' = IF Running THEN Append(queue, Stop) ELSE queue
    /\ UNCHANGED <<mind, tasks, worker, current, axed, client, stopAt, spoken, ghosts>>

\* It has 5 s to say what it has.
StopTimesOut ==
    /\ handler = "stopping" /\ awaits \in Working \ axed
    /\ axed' = axed \union {awaits}
    /\ UNCHANGED <<mind, tasks, speech, isOpen, handler, client, awaits, stopAt, spoken, ghosts>>

Stopped ==
    /\ handler = "stopping" /\ worker[awaits] = "ended"
    /\ handler' = "closing" /\ awaits' = 0
    /\ UNCHANGED <<mind, tasks, speech, axed, isOpen, client, stopAt, spoken, ghosts>>

\* The inbound audio, the peer and the engines follow.
Closed ==
    /\ handler = "closing" /\ handler' = "gone"
    /\ wire' = <<>>
    /\ UNCHANGED <<mind, tasks, speech, axed, isOpen, sent, awaits, stopAt, spoken, ghosts>>

-----------------------------------------------------------------------------
VoiceInit ==
    /\ turn = "idle" /\ cancelled = FALSE /\ said = 0
    /\ tasks = <<>> /\ queue = <<>> /\ worker = [w \in Workers |-> "none"]
    /\ current = 0 /\ axed = {} /\ isOpen = TRUE /\ handler = "free"
    /\ wire = <<>> /\ sent = 0 /\ awaits = 0 /\ stopAt = 0
    /\ spoken = <<>> /\ dropped = {} /\ silenced = 0
    /\ crossed = FALSE /\ late = FALSE

VoiceNext ==
    \/ TurnBegins \/ CascadeBegins \/ Emit \/ TurnEnds
    \/ Enqueue
    \/ \E w \in Workers : Takes(w) \/ Speaks(w) \/ EndsAxed(w)
    \/ \E m \in {"interrupt", "end"} : Sends(m)
    \/ Preempts \/ PreemptsElsewhere \/ FindsNothing \/ Aborted \/ Transcribes \/ Transcribed
    \/ Close \/ StopTimesOut \/ Stopped \/ Closed

VoiceSpec == VoiceInit /\ [][VoiceNext]_voiceVars

\* Fairness: a task that is ready runs, and an engine answers.
FairVoiceSpec ==
    /\ VoiceSpec
    /\ WF_voiceVars(Enqueue) /\ WF_voiceVars(Aborted) /\ WF_voiceVars(Transcribed)
    /\ WF_voiceVars(Preempts \/ FindsNothing \/ Transcribes)
    /\ WF_voiceVars(Stopped) /\ WF_voiceVars(Closed)
    /\ \A w \in Workers : WF_voiceVars(Takes(w)) /\ WF_voiceVars(Speaks(w)) /\ WF_voiceVars(EndsAxed(w))

-----------------------------------------------------------------------------
\* Types; what the handler waits for is a worker, and only a running worker has
\* been told to end.
VoiceTypeOK ==
    /\ turn \in {"idle", "searching", "speaking"} /\ cancelled \in BOOLEAN
    /\ said \in 0..MaxSentences
    /\ tasks \in Seq(Sentences) /\ queue \in Seq(Sentences \union {Stop})
    /\ worker \in [Workers -> {"none", "waiting", "speaking", "ended"}]
    /\ current \in Workers \union {0} /\ axed \subseteq Working
    /\ isOpen \in BOOLEAN
    /\ handler \in {"free", "aborting", "transcribing", "stopping", "closing", "gone"}
    /\ awaits \in Workers \union {0}
    /\ handler \in {"aborting", "stopping"} <=> awaits # 0
    /\ wire \in Seq({"interrupt", "end"}) /\ sent \in 0..MaxMessages
    /\ stopAt \in 0..said /\ silenced \in 0..said
    /\ spoken \in Seq(Sentences) /\ dropped \subseteq Sentences \union {Stop}
    /\ crossed \in BOOLEAN /\ late \in BOOLEAN

\* Her sentences are said in the order she said them, none twice, and by one
\* worker at a time over every abort and restart, unless a sentence was queued
\* just between the end of an aborted worker and the abort's next step: that
\* starts a worker which the abort then forgets.
OneVoice ==
    /\ VoiceTypeOK
    /\ \A i, j \in DOMAIN spoken : i < j => spoken[i] < spoken[j]
    /\ crossed \/ \A v, w \in Working : v = w

\* After an abort that had a worker to cancel, nothing emitted before the
\* interrupt is said: not what was queued, nor what was on its way there.
AbortSilences ==
    [][Len(spoken') > Len(spoken) => spoken'[Len(spoken')] > silenced]_voiceVars

\* With the connection gone no worker is left to use its closed engine,
\* unless one was started behind an abort, or behind the closing session, by a
\* sentence on its way when it closed.
ClosedIsSilent == handler = "gone" => Working = {} \/ crossed \/ late

\* One voice, and none without a connection.
OneVoiceOnALine == OneVoice /\ ClosedIsSilent

\* A sentence on its way to an open session is said, or an abort takes it, or
\* the connection goes: over every abort there is a worker again.
SentencesSettle ==
    \A s \in Sentences :
        (\E i \in DOMAIN tasks : tasks[i] = s)
            ~> (\/ \E i \in DOMAIN spoken : spoken[i] = s
                \/ s \in dropped \/ handler \in {"stopping", "closing", "gone"})

CascadesHeard == INSTANCE Cascade WITH
    turn <- IF turn = "speaking" THEN "speaking" ELSE "idle"

\* Her turns are what TurnRunner makes of one, each uncancelled when it begins:
\* who cancels it, and when, the voice leaves to the kernel.
SpeaksInCascades == CascadesHeard!Spec

\* She is heard turn by turn, and an abort ends what is left of one.
HeardTurnByTurn == AbortSilences /\ SpeaksInCascades
=============================================================================
