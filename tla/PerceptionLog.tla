---------------------------- MODULE PerceptionLog ----------------------------
(***************************************************************************)
(* The road of a perception from PerceptionQueue.put to a finished turn:   *)
(* the in-memory queue, the write-ahead log beside it, the drain that      *)
(* groups what is queued by channel, one turn per channel, the save of     *)
(* MindState after each turn, and the one truncation of the log after the  *)
(* whole drain.  The process may crash between any two steps, a step may   *)
(* fail (a turn that raises, a save or a log rewrite the disk refuses, an  *)
(* append that stops in the middle of its line), and the daemon may be     *)
(* stopped and started again.                                              *)
(*                                                                         *)
(* Abstractions.  A perception is its arrival number and the channel of    *)
(* its origin; the log holds the lines that parse (lines that do not are   *)
(* skipped by every reader and dropped by the next rewrite), plus the flag *)
(* torn: the file does not end in a newline.  A turn is one step, since    *)
(* what else happens while it waits for the model (Put, RequestStop,       *)
(* Crash) is interleaved before it.                                        *)
(***************************************************************************)
EXTENDS Integers, Sequences

CONSTANTS
    Channels,       \* origins of perceptions, the origin-less one included
    MaxArrivals,    \* bound: perceptions accepted over all runs
    MaxCrashes,     \* bound: crashes
    MaxFaults       \* bound: failing steps (raise, save, rewrite, append)

ASSUME BoundsAssumption ==
    /\ MaxArrivals \in Nat
    /\ MaxCrashes \in Nat
    /\ MaxFaults \in Nat

VARIABLES
    log,        \* data/wal/perceptions.jsonl: its readable lines, in order
    torn,       \* the file ends in the middle of a line
    disk,       \* ids whose finished turn the saved state file includes
    nextSeq,    \* PerceptionWAL._next_seq
    queue,      \* PerceptionQueue._queue
    batch,      \* what the current iterate() drained
    done,       \* the positions of batch whose turn is over
    allSaved,   \* iterate()'s all_saved
    mem,        \* ids whose finished turn the in-memory MindState includes
    loop,       \* where MindLoop.run stands
    alive,      \* the daemon process runs
    stopping,   \* MindLoop.shutdown() was called
    arrivals,   \* perceptions accepted so far
    ran,        \* entries whose turn finished in this process
    stranded,   \* ids of a drain that a raising turn cut short
    exposed,    \* ids accepted onto a torn line: no reader can see them
    tidy,       \* nothing failed in this process, which found no line to redo
    crashes, faults

file    == <<log, torn, disk>>
process == <<nextSeq, queue, batch, done, allSaved, mem, loop, alive, stopping>>
history == <<arrivals, ran, stranded, exposed, tidy>>
budget  == <<crashes, faults>>
vars    == <<log, torn, disk, nextSeq, queue, batch, done, allSaved, mem, loop,
             alive, stopping, arrivals, ran, stranded, exposed, tidy,
             crashes, faults>>

Ids   == 1..MaxArrivals
Entry == [id : Ids, seq : Nat, ch : Channels]

Elems(s)  == {s[i] : i \in DOMAIN s}
IdsOf(S)  == {e.id : e \in S}
Logged    == IdsOf(Elems(log))

-----------------------------------------------------------------------------
(* The drained batch, bucket by bucket. drain_grouped orders the buckets by *)
(* first arrival and keeps the arrival order inside each, so the bucket in  *)
(* turn is everything of the first waiting entry's channel.                 *)

Waiting == DOMAIN batch \ done

\* Mutant: the last entry first.
BucketFromTheBack == {i \in Waiting : \A j \in Waiting : j <= i}

Bucket == {i \in Waiting :
              \E first \in Waiting :
                 /\ \A j \in Waiting : first <= j
                 /\ batch[i].ch = batch[first].ch}

BucketIds == {batch[i].id : i \in Bucket}
Unserved  == Elems(queue) \union {batch[i] : i \in Waiting}

\* MindLoop.run: after an iteration, the while condition decides.
NextLoop   == IF stopping THEN "ended" ELSE "drain"

-----------------------------------------------------------------------------
Init ==
    /\ log = <<>> /\ torn = FALSE /\ disk = {}
    /\ nextSeq = 1 /\ queue = <<>> /\ batch = <<>> /\ done = {}
    /\ allSaved = TRUE /\ mem = {} /\ loop = "drain"
    /\ alive = TRUE /\ stopping = FALSE
    /\ arrivals = 0 /\ ran = {} /\ stranded = {} /\ exposed = {} /\ tidy = TRUE
    /\ crashes = 0 /\ faults = 0

\* Between the last save and the truncation iterate() never awaits.
MayInterleave == alive /\ loop # "commit"

\* PerceptionQueue.put: append to the log, then enqueue. On a torn file the
\* new line continues the broken one, and the two are one unreadable line.
Put(c) ==
    /\ MayInterleave
    /\ arrivals < MaxArrivals
    /\ LET e == [id |-> arrivals + 1, seq |-> nextSeq, ch |-> c] IN
         /\ log' = IF torn THEN log ELSE Append(log, e)
         /\ exposed' = IF torn THEN exposed \union {e.id} ELSE exposed
         /\ queue' = Append(queue, e)
    /\ torn' = FALSE
    /\ nextSeq' = nextSeq + 1
    /\ arrivals' = arrivals + 1
    /\ UNCHANGED <<disk, batch, done, allSaved, mem, loop, alive, stopping,
                   ran, stranded, tidy, budget>>

Fault == faults < MaxFaults /\ faults' = faults + 1 /\ UNCHANGED crashes

\* An append that raises (a full disk): the sequence number is spent, nothing
\* is enqueued, and part of the line may have reached the file.
PutFails(partial) ==
    /\ MayInterleave
    /\ Fault
    /\ nextSeq' = nextSeq + 1
    /\ torn' = (torn \/ partial)
    /\ tidy' = FALSE
    /\ UNCHANGED <<log, disk, queue, batch, done, allSaved, mem, loop, alive,
                   stopping, arrivals, ran, stranded, exposed>>

\* drain(): the first perception and everything queued behind it.
Drain ==
    /\ alive /\ loop = "drain" /\ queue # <<>>
    /\ batch' = queue /\ done' = {} /\ queue' = <<>>
    /\ allSaved' = TRUE
    /\ loop' = "turns"
    /\ UNCHANGED <<file, nextSeq, mem, alive, stopping, history, budget>>

\* drain() woken by shutdown(): a get() that finished in the same round has
\* already taken its perception out of the queue, and it is dropped.
DrainStops ==
    /\ alive /\ loop = "drain" /\ stopping
    /\ queue' \in {queue} \union (IF queue = <<>> THEN {} ELSE {Tail(queue)})
    /\ loop' = "ended"
    /\ UNCHANGED <<file, nextSeq, batch, done, allSaved, mem, alive, stopping,
                   history, budget>>

\* truncate_through(m): every line with seq <= m goes, with every unreadable
\* one. Lines are in seq order, so what is kept is a suffix of the file.
TruncateThrough(m) ==
    \E k \in 0..Len(log) :
        /\ \A i \in 1..k : log[i].seq <= m
        /\ \A i \in (k+1)..Len(log) : log[i].seq > m
        /\ log' = SubSeq(log, k + 1, Len(log))
        /\ torn' = FALSE

InTurn == alive /\ loop = "turns"

\* Mutant: iterate() looks at the stop flag between buckets.
EndTurnAndLook ==
    /\ done' = done \union Bucket
    /\ mem' = mem \union BucketIds
    /\ ran' = ran \union {batch[i] : i \in Bucket}
    /\ loop' = CASE done' = DOMAIN batch -> "commit"
                 [] stopping -> "ended"
                 [] OTHER -> "turns"

\* The bucket's turn is over in memory; iterate() goes on to the next bucket.
EndTurn ==
    /\ done' = done \union Bucket
    /\ mem' = mem \union BucketIds
    /\ ran' = ran \union {batch[i] : i \in Bucket}
    /\ loop' = IF done' = DOMAIN batch THEN "commit" ELSE "turns"

\* Mutant: each turn truncates through its own bucket's highest seq.
TurnSavedAndTruncated ==
    /\ InTurn
    /\ EndTurn
    /\ disk' = mem'
    /\ \E last \in Bucket : /\ \A i \in Bucket : i <= last
                             /\ TruncateThrough(batch[last].seq)
    /\ UNCHANGED <<nextSeq, queue, batch, allSaved, alive, stopping,
                   arrivals, stranded, exposed, tidy, budget>>

\* _run_one_turn ends with a durable save of the whole MindState.
TurnSaved ==
    /\ InTurn
    /\ EndTurn
    /\ disk' = mem'
    /\ UNCHANGED <<log, torn, nextSeq, queue, batch, allSaved, alive, stopping,
                   arrivals, stranded, exposed, tidy, budget>>

\* save_state returns False: the turn stands in memory only.
TurnSaveFails ==
    /\ InTurn
    /\ Fault
    /\ EndTurn
    /\ allSaved' = FALSE
    /\ tidy' = FALSE
    /\ UNCHANGED <<file, nextSeq, queue, batch, alive, stopping,
                   arrivals, stranded, exposed>>

\* Mutant: the batch goes back to the queue, the buckets that ran included.
TurnRaisesAndRequeues ==
    /\ InTurn
    /\ Fault
    /\ queue' = batch \o queue
    /\ batch' = <<>> /\ done' = {}
    /\ loop' = NextLoop
    /\ tidy' = FALSE
    /\ UNCHANGED <<file, nextSeq, allSaved, mem, alive, stopping,
                   arrivals, ran, stranded, exposed>>

\* Mutant: run() has no except around iterate().
TurnRaisesOutOfRun ==
    /\ InTurn
    /\ Fault
    /\ stranded' = stranded \union {batch[i].id : i \in Waiting}
    /\ batch' = <<>> /\ done' = {}
    /\ loop' = "ended"
    /\ tidy' = FALSE
    /\ UNCHANGED <<file, nextSeq, queue, allSaved, mem, alive, stopping,
                   arrivals, ran, exposed>>

\* The turn raises (the model server is down, a tripwire write fails). run()
\* logs it and goes on; the buckets not yet run are out of the queue.
TurnRaises ==
    /\ InTurn
    /\ Fault
    /\ stranded' = stranded \union {batch[i].id : i \in Waiting}
    /\ batch' = <<>> /\ done' = {}
    /\ loop' = NextLoop
    /\ tidy' = FALSE
    /\ UNCHANGED <<file, nextSeq, queue, allSaved, mem, alive, stopping,
                   arrivals, ran, exposed>>

\* Mutant: the next drain finds the finished positions of this one.
IteratedWithoutReset ==
    /\ batch' = <<>> /\ done' = done
    /\ loop' = NextLoop

Iterated ==
    /\ batch' = <<>> /\ done' = {}
    /\ loop' = NextLoop

\* Mutant: the outcome of the saves is ignored.
CommitRegardless ==
    /\ alive /\ loop = "commit"
    /\ \E last \in DOMAIN batch :
          /\ \A i \in DOMAIN batch : batch[i].seq <= batch[last].seq
          /\ TruncateThrough(batch[last].seq)
    /\ Iterated
    /\ UNCHANGED <<disk, nextSeq, queue, allSaved, mem, alive, stopping,
                   history, budget>>

\* Every bucket ran: one truncation through the drain's highest seq, unless
\* some save failed.
Commit ==
    /\ alive /\ loop = "commit"
    /\ IF allSaved
       THEN \E last \in DOMAIN batch :
              /\ \A i \in DOMAIN batch : batch[i].seq <= batch[last].seq
              /\ TruncateThrough(batch[last].seq)
       ELSE UNCHANGED <<log, torn>>
    /\ Iterated
    /\ UNCHANGED <<disk, nextSeq, queue, allSaved, mem, alive, stopping,
                   history, budget>>

\* The rewrite of the log raises before os.replace: the old file stands.
CommitFails ==
    /\ alive /\ loop = "commit" /\ allSaved
    /\ Fault
    /\ Iterated
    /\ tidy' = FALSE
    /\ UNCHANGED <<file, nextSeq, queue, allSaved, mem, alive, stopping,
                   arrivals, ran, stranded, exposed>>

RequestStop ==
    /\ MayInterleave /\ ~stopping
    /\ stopping' = TRUE
    /\ UNCHANGED <<file, nextSeq, queue, batch, done, allSaved, mem, loop,
                   alive, history, budget>>

\* Kernel.run returns once the MindLoop task has ended.
Exit ==
    /\ alive /\ loop = "ended"
    /\ alive' = FALSE
    /\ UNCHANGED <<file, nextSeq, queue, batch, done, allSaved, mem, loop,
                   stopping, history, budget>>

Crash ==
    /\ alive /\ crashes < MaxCrashes
    /\ alive' = FALSE
    /\ crashes' = crashes + 1
    /\ tidy' = FALSE
    /\ UNCHANGED <<file, nextSeq, queue, batch, done, allSaved, mem, loop,
                   stopping, arrivals, ran, stranded, exposed, faults>>

\* A new process: load_state, the next sequence number from the log's lines,
\* _replay_wal into a fresh queue, then MindLoop.run.
Boot ==
    /\ ~alive
    /\ alive' = TRUE /\ stopping' = FALSE
    /\ mem' = disk
    /\ queue' = log /\ batch' = <<>> /\ done' = {} /\ loop' = "drain"
    /\ allSaved' = TRUE
    /\ \/ log = <<>> /\ nextSeq' = 1
       \/ \E i \in DOMAIN log : /\ \A j \in DOMAIN log : log[j].seq <= log[i].seq
                                /\ nextSeq' = log[i].seq + 1
    /\ ran' = {}
    /\ stranded' = stranded \ Logged
    /\ tidy' = (Logged \intersect disk = {})
    /\ UNCHANGED <<file, arrivals, exposed, budget>>

Next ==
    \/ \E c \in Channels : Put(c)
    \/ \E partial \in BOOLEAN : PutFails(partial)
    \/ Drain \/ DrainStops
    \/ TurnSaved \/ TurnSaveFails \/ TurnRaises
    \/ Commit \/ CommitFails
    \/ RequestStop \/ Exit \/ Crash \/ Boot

Spec == Init /\ [][Next]_vars

\* The event loop runs a ready coroutine, and a turn always ends: every model
\* call and tool has a timeout. Nothing obliges anyone to speak, to stop the
\* daemon or to start it again.
LoopProgress == Drain \/ TurnSaved \/ TurnSaveFails \/ TurnRaises
                \/ Commit \/ CommitFails

FairSpec == Spec /\ WF_vars(LoopProgress)

-----------------------------------------------------------------------------
TypeOK ==
    /\ log \in Seq(Entry) /\ torn \in BOOLEAN /\ disk \subseteq Ids
    /\ nextSeq \in Nat /\ queue \in Seq(Entry) /\ batch \in Seq(Entry)
    /\ done \subseteq DOMAIN batch /\ allSaved \in BOOLEAN /\ mem \subseteq Ids
    /\ loop \in {"drain", "turns", "commit", "ended"}
    /\ alive \in BOOLEAN /\ stopping \in BOOLEAN
    /\ arrivals \in 0..MaxArrivals /\ ran \subseteq Entry
    /\ stranded \subseteq Ids /\ exposed \subseteq Ids /\ tidy \in BOOLEAN
    /\ crashes \in Nat /\ faults \in Nat

\* No accepted perception is forgotten: it is part of the saved state, or it
\* has a readable line in the log to be replayed from, or its drain was cut
\* short by a raising turn, or its line was glued to a torn one.
NothingForgotten ==
    \A p \in 1..arrivals :
        p \in disk \/ p \in Logged \/ p \in stranded \/ p \in exposed

\* A perception not yet served in a running process is still covered by the
\* log, so a crash now replays it: a truncation never reaches what is queued
\* behind the batch or waits in a later bucket of it.
UnservedIsLogged ==
    alive => \A e \in Unserved : e \in Elems(log) \/ e.id \in exposed

\* One process never runs two turns on the same perception: neither replay,
\* nor a failed save, nor a failed truncation puts it back in the queue.
ServedOncePerRun ==
    (alive /\ loop # "ended") =>
        /\ \A i, j \in DOMAIN queue : i # j => queue[i].id # queue[j].id
        /\ \A i, j \in Waiting : i # j => batch[i].id # batch[j].id
        /\ IdsOf(Elems(queue)) \intersect {batch[i].id : i \in Waiting} = {}
        /\ IdsOf(Unserved) \intersect IdsOf(ran) = {}

\* Stopping the daemon in order never costs a repeated turn: after a process
\* in which nothing failed, no line is left whose turn the saved state has.
OrderlyStopLeavesNoRepeat ==
    (~alive /\ tidy) => Logged \intersect disk = {}

\* A turn is not run twice on one perception: never in one process, and over
\* processes only after something failed or the process died.
ServedOnce == ServedOncePerRun /\ OrderlyStopLeavesNoRepeat

\* In one process the turns of one channel come in the order its perceptions
\* arrived, over drains, buckets, raising turns and replayed lines.
ChannelOrder ==
    [][\A e \in ran' \ ran, f \in ran : e.ch = f.ch => f.id < e.id]_vars

\* A perception queued in a running process gets its turn, or its drain is
\* cut short by a raising one, unless the daemon is stopped or dies.
QueuedIsServed ==
    \A p \in Ids :
        (alive /\ p \in IdsOf(Elems(queue))) ~>
            (p \in mem \/ p \in stranded \/ stopping \/ ~alive)

\* Delivery's view of a perception: saved, on record and still owed a turn, on
\* record though its drain was cut short, only in the process, or gone.
InProcess(p) == alive /\ \/ p \in IdsOf(Elems(queue)) \union mem
                         \/ loop \in {"turns", "commit"}
                               /\ p \in {batch[i].id : i \in Waiting}

Stage(p) ==
    IF p > arrivals THEN "new"
    ELSE IF p \in disk THEN "settled"
    ELSE IF p \in Logged THEN IF p \in stranded THEN "cut" ELSE "owed"
    ELSE IF InProcess(p) THEN "volatile" ELSE "lost"

status == [p \in Ids |-> Stage(p)]

Promise == INSTANCE Delivery WITH Ids <- Ids, status <- status

\* The queue, the log and the loop implement the promise of Delivery: only a
\* cut short drain or a line no reader can see ever costs a perception, and
\* what the saved state includes stays included.
KeepsThePromise == Promise!Spec
=============================================================================
