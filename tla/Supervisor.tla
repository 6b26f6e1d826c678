----------------------------- MODULE Supervisor -----------------------------
(***************************************************************************)
(* The service supervisor (dollos/service_supervisor.py): one coroutine    *)
(* keeps a child process (the Discord bridge, the MCP server) alive, with  *)
(* a back-off and a cap on consecutive quick crashes; stop() asks with     *)
(* SIGINT, then kills.  The daemon around it may be killed and started     *)
(* again, and then its child is only sent SIGINT by the operating system.  *)
(* Services share nothing, so one is modelled.                             *)
(***************************************************************************)
EXTENDS Naturals, FiniteSets

CONSTANTS
  Pids,             \* processes that may exist at once
  None,
  MaxConsecutive,   \* _MAX_CONSECUTIVE
  MaxDeaths         \* bound: how often the daemon is killed

ASSUME PidsAssumption == None \notin Pids /\ IsFiniteSet(Pids)
ASSUME BoundsAssumption == MaxConsecutive \in Nat /\ MaxDeaths \in Nat

VARIABLES
  task,       \* where the supervise coroutine is
  stop,       \* where stop() is
  stopping, proc, phase, failures,   \* _ServiceState
  longRun,    \* whether _HEALTHY_UPTIME_S went by since started_at
  making,     \* the process create_subprocess_exec is preparing
  child,      \* what the operating system knows of each process
  daemon, deaths

state == <<stopping, proc, phase, failures>>
vars  == <<task, stop, state, longRun, making, child, daemon, deaths>>

Phases == {"idle", "running", "restarting", "gave_up", "stopped"}

\* a daemon has its child up or has sent it SIGINT; an orphan is the child of
\* a daemon that was killed, and has SIGINT from the operating system
Living == {"up", "signalled", "orphan"}
Exits  == {"clean", "crashed"}

Alive(p) == p # None /\ child[p] \in Living

\* a process that was waited for: its number may be used again
Freed(p) == [q \in Pids |-> IF q = p THEN "free" ELSE child[q]]

Init ==
  /\ task = "none" /\ stop = "no" /\ making = None
  /\ stopping = FALSE /\ proc = None /\ phase = "idle" /\ failures = 0
  /\ longRun = FALSE
  /\ child = [p \in Pids |-> "free"]
  /\ daemon = "up" /\ deaths = 0

-----------------------------------------------------------------------------
(* The supervise loop.                                                      *)

StartAgain ==     \* mutant: no look at whether a coroutine is there already
  /\ daemon = "up" /\ stop = "no"
  /\ task' = "loop"
  /\ UNCHANGED <<longRun, stop, state, making, child, daemon, deaths>>

Start ==
  /\ daemon = "up" /\ task = "none" /\ stop = "no"
  /\ task' = "loop"
  /\ UNCHANGED <<longRun, stop, state, making, child, daemon, deaths>>

\* the child exists as soon as create_subprocess_exec has forked; _spawn gets
\* to see it only after a few turns of the event loop
Fork ==
  /\ task = "loop" /\ ~stopping
  /\ \E p \in Pids \ {proc} :
       /\ child[p] = "free"
       /\ making' = p
       /\ child' = [child EXCEPT ![p] = "up"]
  /\ task' = "forking"
  /\ UNCHANGED <<longRun, stop, state, daemon, deaths>>

\* stop() cancels a coroutine that is forking in the step that raises the
\* flag (StopIdle), so the flag is never up here and _SpawnAborted is not
\* raised
Spawned ==
  /\ task = "forking" /\ ~stopping
  /\ proc' = making
  /\ making' = None
  /\ phase' = "running"
  /\ task' = "waiting"
  /\ UNCHANGED <<longRun, stop, stopping, failures, child, daemon, deaths>>

CountFromOne == 1     \* mutant: every run passes for a healthy one

Count == (IF longRun THEN 0 ELSE failures) + 1

CrashGoesOn ==     \* mutant: the loop is not left after giving up
  /\ failures' = Count
  /\ phase' = IF failures' > MaxConsecutive THEN "gave_up" ELSE "restarting"
  /\ task' = "backoff"
  /\ UNCHANGED <<longRun, stop, stopping, proc, making, daemon, deaths>>

\* a crash: counted, then the service is given up or tried again later
Crash ==
  /\ failures' = Count
  /\ IF failures' > MaxConsecutive
     THEN phase' = "gave_up" /\ task' = "done"
     ELSE phase' = "restarting" /\ task' = "backoff"
  /\ UNCHANGED <<longRun, stop, stopping, proc, making, daemon, deaths>>

\* create_subprocess_exec raised: no child
ForkFails ==
  /\ task = "loop" /\ ~stopping
  /\ Crash
  /\ UNCHANGED child

ExitSeen ==
  /\ task = "waiting" /\ child[proc] \in Exits
  /\ child' = Freed(proc)

\* it ended because it was told to, or of itself with 0: not started again
EndSeen ==
  /\ ExitSeen
  /\ stopping \/ child[proc] = "clean"
  /\ task' = "done"
  /\ UNCHANGED <<longRun, stop, state, making, daemon, deaths>>

CrashSeen ==
  /\ ExitSeen
  /\ ~stopping /\ child[proc] = "crashed"
  /\ Crash

GrowsOld ==
  /\ task \in {"forking", "waiting"}
  /\ longRun' = TRUE
  /\ UNCHANGED <<task, stop, state, making, child, daemon, deaths>>

BackoffEnds ==
  /\ task = "backoff"
  /\ task' = "loop"
  /\ longRun' = FALSE
  /\ UNCHANGED <<stop, state, making, child, daemon, deaths>>

-----------------------------------------------------------------------------
(* stop(), called when the daemon shuts down and once more behind it.       *)

Idle == {"none", "done"}

CancelRunning ==     \* mutant: a coroutine between two children is left be
  /\ task' = IF task = "waiting" THEN "done" ELSE task
  /\ UNCHANGED making

\* the coroutine is cancelled and awaited; asyncio kills and reaps a child it
\* was still preparing
CancelTask ==
  /\ task' = IF task = "none" THEN "none" ELSE "done"
  /\ making' = None

\* no process: cancel and return at once, with no await on the way
StopIdle ==
  /\ daemon = "up" /\ stop \in {"no", "returned"}
  /\ ~Alive(proc)
  /\ CancelTask
  /\ child' = [p \in Pids |-> IF p \in {proc, making} THEN "free" ELSE child[p]]
  /\ stopping' = TRUE /\ phase' = "stopped" /\ stop' = "returned"
  /\ UNCHANGED <<longRun, proc, failures, daemon, deaths>>

StopAsks ==
  /\ daemon = "up" /\ stop = "no"
  /\ Alive(proc)
  /\ child' = [child EXCEPT ![proc] = "signalled"]
  /\ stopping' = TRUE /\ stop' = "grace"
  /\ UNCHANGED <<longRun, task, proc, phase, failures, making, daemon, deaths>>

GraceOverAsksAgain ==     \* mutant: SIGINT once more
  /\ stop = "grace" /\ Alive(proc)
  /\ child' = [child EXCEPT ![proc] = "signalled"]
  /\ UNCHANGED <<longRun, task, stop, state, making, daemon, deaths>>

\* _GRACE_S went by: SIGKILL cannot be ignored
GraceOver ==
  /\ stop = "grace" /\ Alive(proc)
  /\ child' = [child EXCEPT ![proc] = "crashed"]
  /\ UNCHANGED <<longRun, task, stop, state, making, daemon, deaths>>

\* reaped; st.proc cannot have moved since, so nothing is late to kill
StopReturns ==
  /\ stop = "grace" /\ ~Alive(proc)
  /\ CancelTask
  /\ child' = Freed(proc)
  /\ phase' = "stopped" /\ stop' = "returned"
  /\ UNCHANGED <<longRun, stopping, proc, failures, daemon, deaths>>

-----------------------------------------------------------------------------
(* The processes and the operating system.                                  *)

\* a child may end at any time and with any status, told to or not
ChildEnds(p) ==
  /\ child[p] \in {"up", "signalled"}
  /\ \E e \in Exits : child' = [child EXCEPT ![p] = e]
  /\ UNCHANGED <<longRun, task, stop, state, making, daemon, deaths>>

OrphanEnds(p) ==
  /\ child[p] = "orphan"
  /\ child' = Freed(p)
  /\ UNCHANGED <<longRun, task, stop, state, making, daemon, deaths>>

OrphanedUntold ==     \* mutant: as with no PR_SET_PDEATHSIG
  child

\* PR_SET_PDEATHSIG: SIGINT for the child; nothing runs in the daemon, so
\* nothing of its _ServiceState matters any more
Orphaned ==
  [p \in Pids |-> IF child[p] \in {"up", "signalled"} THEN "orphan"
                  ELSE IF child[p] \in Exits THEN "free" ELSE child[p]]

DaemonEnds ==
  /\ task' = "none" /\ stop' = "no" /\ making' = None /\ longRun' = FALSE
  /\ stopping' = FALSE /\ proc' = None /\ phase' = "idle" /\ failures' = 0
  /\ daemon' = "down"

DaemonKilled ==
  /\ daemon = "up" /\ deaths < MaxDeaths
  /\ DaemonEnds
  /\ child' = Orphaned
  /\ deaths' = deaths + 1

\* after stop() has returned the daemon exits
DaemonExits ==
  /\ daemon = "up" /\ stop = "returned"
  /\ DaemonEnds
  /\ child' = Orphaned
  /\ UNCHANGED deaths

Boot ==
  /\ daemon = "down"
  /\ daemon' = "up"
  /\ UNCHANGED <<longRun, task, stop, state, making, child, deaths>>

-----------------------------------------------------------------------------
LoopStep == Fork \/ Spawned \/ ForkFails \/ EndSeen \/ CrashSeen \/ BackoffEnds

StopStep == GraceOver \/ StopReturns

Next ==
  \/ Start \/ LoopStep \/ GrowsOld
  \/ StopIdle \/ StopAsks \/ StopStep
  \/ \E p \in Pids : ChildEnds(p) \/ OrphanEnds(p)
  \/ DaemonKilled \/ DaemonExits \/ Boot

Spec == Init /\ [][Next]_vars

\* the event loop runs what is ready, a timer fires, SIGINT reaches an orphan
\* (the bridge ends on KeyboardInterrupt); no fairness for a child that is up,
\* for a child that was asked, or for a shutdown
FairSpec ==
  /\ Spec
  /\ WF_vars(LoopStep) /\ WF_vars(StopStep)
  /\ \A p \in Pids : WF_vars(OrphanEnds(p))

-----------------------------------------------------------------------------
TypeOK ==
  /\ task \in {"none", "loop", "forking", "waiting", "backoff", "done"}
  /\ stop \in {"no", "grace", "returned"}
  /\ stopping \in BOOLEAN /\ longRun \in BOOLEAN
  /\ proc \in Pids \union {None} /\ making \in Pids \union {None}
  /\ phase \in Phases
  /\ failures \in 0..(MaxConsecutive + 1)
  /\ child \in [Pids -> {"free"} \union Living \union Exits]
  /\ daemon \in {"up", "down"}
  /\ deaths \in 0..MaxDeaths

\* When stop() has returned nothing of the service is left: no child of this
\* daemon, whether running or being forked when it was called, and no
\* coroutine that could start another (I3 in service_supervisor.py).
StoppedMeansGone ==
  stop = "returned" =>
    /\ task \in Idle
    /\ \A p \in Pids : child[p] \notin {"up", "signalled"}

\* A daemon never has two children of one service, whatever crashes, fork
\* failures and back-offs it went through.
OneChild == Cardinality({p \in Pids : child[p] \in {"up", "signalled"}}) <= 1

\* A service that is restarted over and over is one that keeps running long
\* enough in between: a crash loop is given up, it does not go on for ever.
Respawn == task = "loop" /\ task' = "forking"
CrashLoopEnds == []<><<Respawn>>_vars => []<>(longRun \/ daemon = "down")

\* stop() comes to an end even when the child ignores SIGINT.
StopEnds == (stop = "grace") ~> (stop # "grace")

\* A child that outlives its daemon, killed with no chance to run stop(), does
\* not live on for ever beside the next daemon's.
OrphansEnd ==
  \A p \in Pids : (daemon = "down" /\ Alive(p)) ~> ~Alive(p)

\* Nothing goes on for ever: no crash loop, no stop() and no orphan.
ComesToAnEnd == CrashLoopEnds /\ StopEnds /\ OrphansEnd
=============================================================================
