------------------------------- MODULE Workflow -------------------------------
(***************************************************************************)
(* Work in the background: WorkflowRunner fans tasks out to worker agents  *)
(* under a semaphore, ShellRunner runs the commands of Doll and of the     *)
(* workers, and Kernel.run stops both before it stops the mind loop.       *)
(*                                                                         *)
(* Abstractions.  One workflow and one dispatched command of Doll's, next  *)
(* to any number of commands she waits for.  An agent's turn (run_agent)   *)
(* is a span in which it may run commands, and ends in some report: its    *)
(* inside is TurnRunner's.  A time limit may strike at any moment.  The    *)
(* semaphore is taken in any order.  Of a report, only its status; a turn  *)
(* that raised ("error") counts as one without a report.  What a skeptic   *)
(* reports goes into the text of the result alone, and is left out.  A     *)
(* command is its leader and at most one child, which stays in its group   *)
(* (no setsid): "piped" holds the output, "quiet" is redirected and run    *)
(* in the background; a fork that fails is a command that ends at once.    *)
(*                                                                         *)
(* A cancelled asyncio task hears of it at its next step, and what it      *)
(* awaits hears first: cut says who has been cancelled and not unwound.    *)
(***************************************************************************)
EXTENDS Naturals, FiniteSets

CONSTANTS
    Tasks,      \* the tasks of the workflow
    Permits,    \* MAX_WORKFLOW_CONCURRENCY
    MaxCommands, \* bound: commands at a time
    MaxFaults,  \* bound: results that could not be stored or queued
    None

ASSUME WorkflowAssumption ==
    /\ IsFiniteSet(Tasks) /\ Tasks # {}
    /\ Tasks \intersect {"synthesis", "inline", "dispatched"} = {}
    /\ Permits \in Nat \ {0} /\ MaxCommands \in Nat \ {0} /\ MaxFaults \in Nat
    /\ None \notin {"timeout", "stop", "late", "gone",
                    "ok", "incomplete", "no_report", "error", "lost"}

Agents  == Tasks \union {"synthesis"}
Mine    == {"inline", "dispatched"}     \* Doll's own commands
Jobs    == Agents \union Mine           \* whose command it is

Degraded == {"timeout", "no_report"}
Plans    == [mode : {"map_reduce", "verify"}, synthesis : BOOLEAN]
Reports  == {"ok", "incomplete"} \union Degraded

VARIABLES
    flow,       \* the workflow: idle, fanout, synthesis or ended
    plan,       \* its mode and whether a synthesis was asked for
    thrown,     \* what was thrown into it: None, "timeout" or "stop"
    agent,      \* each agent's stage
    report,     \* the report of each agent that worked on its task
    free,       \* permits left in the semaphore
    job,        \* each command's _execute: none, starting (until it has its
                \*   proc), running or killed
    group,      \* its processes that are alive, until nobody waits for it
    cut,        \* cancelled and not unwound: "late" (its own limit) or "gone"
    inbox,      \* ToolResultArrived statuses, by request
    asked,      \* requests Doll has made
    doll,       \* the mind loop: free, inShell or dead
    stop,       \* how far Kernel.run's shutdown is
    faults

work  == <<agent, report, free>>
shell == <<job, group>>
vars  == <<flow, plan, thrown, agent, report, free, job, group, cut,
           inbox, asked, doll, stop, faults>>

Active  == flow \in {"fanout", "synthesis"}
Working == {a \in Agents : agent[a] \in {"task", "verify"}}    \* hold a permit
Waiting == {a \in Agents : agent[a] \in {"waiting", "toVerify"}}
Alive   == Working \union Waiting
Fanned  == \A t \in Tasks : agent[t] = "done"

-----------------------------------------------------------------------------
(* ShellRunner                                                              *)

Processes == {"leader", "piped", "quiet", "orphan"}

Commands == {{}, {"leader"}, {"leader", "piped"}, {"leader", "quiet"}}

\* The task is made; create_subprocess_shell forks when it first runs.
Start(j) ==
    /\ Cardinality({i \in Jobs : job[i] # "none"}) < MaxCommands
    /\ job' = [job EXCEPT ![j] = "starting"]
    /\ group' = [group EXCEPT ![j] = {}]

\* create_subprocess_shell returns: from here on _execute has its proc.
Made(j) ==
    /\ job[j] = "starting" /\ cut[j] = None
    /\ job' = [job EXCEPT ![j] = "running"]
    /\ \E g \in Commands : group' = [group EXCEPT ![j] = g]
    /\ UNCHANGED <<flow, plan, thrown, work, cut, inbox, asked, doll, stop, faults>>

\* Mutant: look the group up by its leader, which may have been reaped.
KillGroupOfLeader(j) == [group EXCEPT ![j] = IF "leader" \in @ THEN {} ELSE @]

\* start_new_session makes the command the leader of a group, which outlives it.
KillGroup(j) == [group EXCEPT ![j] = {}]

\* A process ends. The child may outlive the leader, and hold the pipe.
Exits(j) ==
    /\ \E p \in group[j] : group' = [group EXCEPT ![j] = @ \ {p}]
    /\ UNCHANGED <<flow, plan, thrown, work, job, cut, inbox, asked, doll, stop, faults>>

\* communicate returns: the leader has ended and nobody holds the output. The
\* group is not looked at.
Communicated(j) == job[j] = "running" /\ group[j] \subseteq {"quiet"}
Finished(j) == job[j] = "killed" \/ Communicated(j)

TimesOut(j) ==
    /\ job[j] = "running" /\ ~Communicated(j) /\ cut[j] = None
    /\ job' = [job EXCEPT ![j] = "killed"]
    /\ group' = KillGroup(j)
    /\ UNCHANGED <<flow, plan, thrown, work, cut, inbox, asked, doll, stop, faults>>

\* A cancel kills the group, waits for it and goes on to whoever waits.
Killed(j) ==
    /\ job[j] = "running" /\ cut[j] # None
    /\ job' = [job EXCEPT ![j] = "killed"]
    /\ group' = KillGroup(j)
    /\ UNCHANGED <<flow, plan, thrown, work, cut, inbox, asked, doll, stop, faults>>

\* Before that there is no proc to kill the group of: if there is a process,
\* asyncio kills it, the leader, and a child it has by then is nobody's.
Unmade(j) ==
    /\ job[j] = "starting" /\ cut[j] # None
    /\ job' = [job EXCEPT ![j] = "killed"]
    /\ \E g \in SUBSET {"orphan"} : group' = [group EXCEPT ![j] = g]
    /\ UNCHANGED <<flow, plan, thrown, work, cut, inbox, asked, doll, stop, faults>>

\* Nobody waits for the command any more. What is alive of it stays alive, and
\* is not followed further.
Leave(j) ==
    /\ job' = [job EXCEPT ![j] = "none"]
    /\ group' = [group EXCEPT ![j] = {}]

\* A put that raises is logged, and the result is gone.
Put(r, status) ==
    \/ inbox' = [inbox EXCEPT ![r] = status] /\ UNCHANGED faults
    \/ /\ faults < MaxFaults /\ faults' = faults + 1
       /\ inbox' = [inbox EXCEPT ![r] = "lost"]

\* Doll's long command: the result is a perception of its own.
Returns ==
    /\ Finished("dispatched") /\ cut["dispatched"] = None
    /\ Leave("dispatched")
    /\ Put("dispatched", IF job["dispatched"] = "killed" THEN "timeout" ELSE "ok")
    /\ UNCHANGED <<flow, plan, thrown, work, cut, asked, doll, stop>>

\* A worker's command, or Doll's short one: the result is the call's answer.
ReturnsInline(j) ==
    /\ j # "dispatched" /\ Finished(j) /\ cut[j] = None
    /\ Leave(j)
    /\ doll' = IF j = "inline" THEN "free" ELSE doll
    /\ UNCHANGED <<flow, plan, thrown, work, cut, inbox, asked, stop, faults>>

\* The CancelledError of a killed command: nothing in a turn of Doll's catches
\* it, and it ends the mind loop's task.
Unwinds(j) ==
    /\ job[j] = "killed" /\ cut[j] # None
    /\ Leave(j)
    /\ cut' = IF j \in Agents THEN cut ELSE [cut EXCEPT ![j] = None]
    /\ doll' = IF j = "inline" THEN "dead" ELSE doll
    /\ inbox' = IF j = "dispatched" THEN [inbox EXCEPT ![j] = "lost"] ELSE inbox
    /\ UNCHANGED <<flow, plan, thrown, work, asked, stop, faults>>

-----------------------------------------------------------------------------
(* One agent: run_agent inside _run_capped, _run_one_task around it         *)

Acquire(t) ==
    /\ agent[t] \in {"waiting", "toVerify"} /\ cut[t] = None /\ free > 0
    /\ agent' = [agent EXCEPT ![t] = IF @ = "waiting" THEN "task" ELSE "verify"]
    /\ free' = free - 1
    /\ UNCHANGED <<flow, plan, thrown, report, shell, cut, inbox, asked, doll, stop, faults>>

\* A worker waits for its command.  Once the runner stops nothing runs.
RunsShell(a) ==
    /\ a \in Working /\ cut[a] = None /\ job[a] = "none"
    /\ stop \in {"up", "workflows"}
    /\ Start(a)
    /\ UNCHANGED <<flow, plan, thrown, work, cut, inbox, asked, doll, stop, faults>>

\* Mutant: keep the permit over the verification, and take another for it.
DoneHolding(a, r) ==
    LET toVerify == /\ a \in Tasks /\ agent[a] = "task"
                    /\ plan.mode = "verify" /\ r \notin Degraded IN
    /\ report' = IF agent[a] = "verify" THEN report ELSE [report EXCEPT ![a] = r]
    /\ agent' = [agent EXCEPT ![a] = IF toVerify THEN "toVerify" ELSE "done"]
    /\ free' = IF a \in Tasks /\ ~toVerify THEN free + 1 ELSE free

\* The semaphore is given back between a task and its verification.
Done(a, r) ==
    /\ report' = IF agent[a] = "verify" THEN report ELSE [report EXCEPT ![a] = r]
    /\ agent' = [agent EXCEPT ![a] =
                    IF /\ a \in Tasks /\ @ = "task"
                       /\ plan.mode = "verify" /\ r \notin Degraded
                    THEN "toVerify" ELSE "done"]
    /\ free' = IF a \in Tasks THEN free + 1 ELSE free

\* Report was called, never was, or the turn raised (the brain was down).
Ends(a) ==
    /\ a \in Working /\ cut[a] = None /\ job[a] = "none"
    /\ \E r \in Reports \ {"timeout"} : Done(a, r)
    /\ UNCHANGED <<flow, plan, thrown, shell, cut, inbox, asked, doll, stop, faults>>

AgentTimesOut(a) ==
    /\ a \in Working /\ cut[a] = None
    /\ cut' = [cut EXCEPT ![a] = "late"]
    /\ UNCHANGED <<flow, plan, thrown, work, shell, inbox, asked, doll, stop, faults>>

\* A cancel from outside is stronger than the agent's own limit.
AgentUnwinds(a) ==
    /\ a \in Alive /\ cut[a] # None /\ job[a] = "none"
    /\ cut' = [cut EXCEPT ![a] = None]
    /\ IF cut[a] = "late" THEN Done(a, "timeout")
       ELSE /\ agent' = [agent EXCEPT ![a] = "gone"]
            /\ free' = IF a \in Working \intersect Tasks THEN free + 1 ELSE free
            /\ UNCHANGED report
    /\ UNCHANGED <<flow, plan, thrown, shell, inbox, asked, doll, stop, faults>>

-----------------------------------------------------------------------------
(* The workflow                                                             *)

\* Mutant: the synthesis speaks for the tasks.
RollupStatusOfSynthesis(synthesis) ==
    IF synthesis \in {"ok", "incomplete"} THEN synthesis
    ELSE IF \A t \in Tasks : report[t] = "ok" THEN "ok" ELSE "incomplete"

RollupStatus(synthesis) ==
    IF \E t \in Tasks : report[t] \in Degraded THEN "incomplete"
    ELSE IF synthesis # None
         THEN IF synthesis \in Degraded THEN "incomplete" ELSE synthesis
    ELSE IF \A t \in Tasks : report[t] = "ok" THEN "ok" ELSE "incomplete"

\* One task, no skeptic and no synthesis: its report is the result, as it is.
Combined ==
    IF Cardinality(Tasks) = 1 /\ plan.mode # "verify"
    THEN report[CHOOSE t \in Tasks : TRUE]
    ELSE RollupStatus(None)

\* The whole output is stored before the result is queued.
Emit(status) == flow' = "ended" /\ Put("workflow", status)

\* SpawnWorkflow: once the runner is stopping, spawn ignores it.
Spawn ==
    /\ doll = "free" /\ stop = "up" /\ flow = "idle"
    /\ plan' \in Plans
    /\ flow' = "fanout" /\ asked' = asked \union {"workflow"}
    /\ agent' = [a \in Agents |-> IF a \in Tasks THEN "waiting" ELSE agent[a]]
    /\ UNCHANGED <<thrown, report, free, shell, cut, inbox, doll, stop, faults>>

Gathered ==
    /\ flow = "fanout" /\ thrown = None /\ Fanned
    /\ IF plan.synthesis
       THEN \/ /\ flow' = "synthesis"
               /\ agent' = [agent EXCEPT !["synthesis"] = "task"]
               /\ UNCHANGED <<inbox, faults>>
            \* A report for the synthesis could not be stored.
            \/ /\ faults < MaxFaults /\ faults' = faults + 1
               /\ flow' = "ended" /\ inbox' = [inbox EXCEPT !["workflow"] = "error"]
               /\ UNCHANGED agent
       ELSE Emit(Combined) /\ UNCHANGED agent
    /\ UNCHANGED <<plan, thrown, report, free, shell, cut, asked, doll, stop>>

Synthesised ==
    /\ flow = "synthesis" /\ thrown = None /\ agent["synthesis"] = "done"
    /\ Emit(RollupStatus(report["synthesis"]))
    /\ UNCHANGED <<plan, thrown, work, shell, cut, asked, doll, stop>>

\* Mutant: cancel the tasks that work, and leave those that wait their turn.
CancelFlowAtWork(why) ==
    /\ thrown' = why
    /\ cut' = [j \in Jobs |-> IF j \in Working THEN "gone" ELSE cut[j]]

\* Cancelling the workflow's task cancels what it gathers, and their commands.
CancelFlow(why) ==
    /\ thrown' = why
    /\ cut' = [j \in Jobs |-> IF j \in Alive THEN "gone" ELSE cut[j]]

FlowTimesOut ==
    /\ Active /\ thrown = None
    /\ CancelFlow("timeout")
    /\ UNCHANGED <<flow, plan, work, shell, inbox, asked, doll, stop, faults>>

\* Mutant: the time limit's cancel taken for the shutdown's, and nothing said.
FlowUnwindsSilently ==
    /\ Active /\ thrown # None
    /\ IF flow = "fanout" THEN Fanned \/ \E t \in Tasks : agent[t] = "gone"
                          ELSE agent["synthesis"] \in {"done", "gone"}
    /\ flow' = "ended"
    /\ inbox' = IF thrown = "timeout" THEN inbox ELSE [inbox EXCEPT !["workflow"] = "lost"]
    /\ UNCHANGED <<plan, thrown, work, shell, cut, asked, doll, stop, faults>>

\* gather ends with the first of its tasks that is cancelled: the result may
\* be out while others still unwind.
FlowUnwinds ==
    /\ Active /\ thrown # None
    /\ IF flow = "fanout" THEN Fanned \/ \E t \in Tasks : agent[t] = "gone"
                          ELSE agent["synthesis"] \in {"done", "gone"}
    /\ IF thrown = "timeout" THEN Emit("timeout")
       ELSE /\ flow' = "ended" /\ inbox' = [inbox EXCEPT !["workflow"] = "lost"]
            /\ UNCHANGED faults
    /\ UNCHANGED <<plan, thrown, work, shell, cut, asked, doll, stop>>

-----------------------------------------------------------------------------
(* Doll's own commands, and the shutdown                                    *)

ShellDispatched ==
    /\ doll = "free" /\ stop \in {"up", "workflows"} /\ "dispatched" \notin asked
    /\ Start("dispatched") /\ asked' = asked \union {"dispatched"}
    /\ UNCHANGED <<flow, plan, thrown, work, cut, inbox, doll, stop, faults>>

ShellInline ==
    /\ doll = "free" /\ stop \in {"up", "workflows"}
    /\ Start("inline") /\ doll' = "inShell"
    /\ UNCHANGED <<flow, plan, thrown, work, cut, inbox, asked, stop, faults>>

StopWorkflows ==
    /\ stop = "up" /\ stop' = "workflows"
    /\ IF Active THEN CancelFlow("stop") ELSE UNCHANGED <<thrown, cut>>
    /\ UNCHANGED <<flow, plan, work, shell, inbox, asked, doll, faults>>

StopShells ==
    /\ stop = "workflows" /\ ~Active /\ stop' = "shells"
    /\ cut' = [j \in Jobs |-> IF job[j] # "none" /\ cut[j] = None THEN "gone" ELSE cut[j]]
    /\ UNCHANGED <<flow, plan, thrown, work, shell, inbox, asked, doll, faults>>

StopLoop ==
    /\ stop = "shells" /\ \A j \in Jobs : job[j] = "none"
    /\ stop' = "loop"
    /\ UNCHANGED <<flow, plan, thrown, work, shell, cut, inbox, asked, doll, faults>>

\* The mind loop's task is over, by itself or by the cancel; the store goes.
Down ==
    /\ stop = "loop" /\ doll # "inShell"
    /\ stop' = "down" /\ doll' = "dead"
    /\ UNCHANGED <<flow, plan, thrown, work, shell, cut, inbox, asked, faults>>

-----------------------------------------------------------------------------
Init ==
    /\ flow = "idle" /\ thrown = None
    /\ plan = [mode |-> "map_reduce", synthesis |-> FALSE]
    /\ agent = [a \in Agents |-> "none"] /\ free = Permits
    /\ report = [a \in Agents |-> None]
    /\ job = [j \in Jobs |-> "none"] /\ group = [j \in Jobs |-> {}]
    /\ cut = [j \in Jobs |-> None]
    /\ inbox = [r \in {"workflow", "dispatched"} |-> None] /\ asked = {}
    /\ doll = "free" /\ stop = "up" /\ faults = 0

Next ==
    \/ \E j \in Jobs : Made(j) \/ Exits(j) \/ Unmade(j)
    \/ \E j \in Jobs : TimesOut(j) \/ Killed(j) \/ ReturnsInline(j) \/ Unwinds(j)
    \/ \E t \in Tasks : Acquire(t)
    \/ \E a \in Agents : RunsShell(a) \/ Ends(a) \/ AgentTimesOut(a) \/ AgentUnwinds(a)
    \/ Returns \/ Spawn \/ Gathered \/ Synthesised \/ FlowTimesOut \/ FlowUnwinds
    \/ ShellDispatched \/ ShellInline
    \/ StopWorkflows \/ StopShells \/ StopLoop \/ Down

Spec == Init /\ [][Next]_vars

\* Fairness: the agents' and the commands' time limits run out, and an asyncio
\* task that can go on does.  The workflow's own limit is left out: without it
\* a workflow must still end.
FairSpec ==
    /\ Spec
    /\ \A j \in Jobs : WF_vars(Made(j)) /\ WF_vars(Unmade(j))
    /\ \A j \in Jobs : WF_vars(TimesOut(j)) /\ WF_vars(Killed(j))
                     /\ WF_vars(ReturnsInline(j)) /\ WF_vars(Unwinds(j))
    /\ \A t \in Tasks : WF_vars(Acquire(t))
    /\ \A a \in Agents : WF_vars(AgentTimesOut(a)) /\ WF_vars(AgentUnwinds(a))
    /\ WF_vars(Returns) /\ WF_vars(Gathered) /\ WF_vars(Synthesised) /\ WF_vars(FlowUnwinds)

-----------------------------------------------------------------------------
\* Types, and a semaphore that counts the task agents at work.
TypeOK ==
    /\ flow \in {"idle", "fanout", "synthesis", "ended"}
    /\ plan \in Plans
    /\ thrown \in {None, "timeout", "stop"}
    /\ agent \in [Agents -> {"none", "waiting", "task", "toVerify", "verify", "done", "gone"}]
    /\ report \in [Agents -> Reports \union {None}]
    /\ free \in 0..Permits
    /\ free + Cardinality(Working \intersect Tasks) = Permits
    /\ job \in [Jobs -> {"none", "starting", "running", "killed"}]
    /\ group \in [Jobs -> SUBSET Processes]
    /\ cut \in [Jobs -> {None, "late", "gone"}]
    /\ inbox \in [{"workflow", "dispatched"} -> Reports \union {None, "error", "lost"}]
    /\ asked \subseteq {"workflow", "dispatched"}
    /\ doll \in {"free", "inShell", "dead"}
    /\ stop \in {"up", "workflows", "shells", "loop", "down"}
    /\ faults \in 0..MaxFaults

\* When the wait for a command ends, its leader and whoever holds its output are
\* gone. If a limit or a cancel ended it, its own, the agent's, the workflow's or
\* the shutdown's, nothing of it is left, with the leader reaped or not; but for
\* a child it had before _execute had its proc. If it ended by itself, what it
\* put in the background, redirected, stays. When the runners have stopped no
\* command is waited for or begun. And once a workflow's result is out, an
\* agent of it that has not unwound has been cancelled: none goes on working or
\* comes to its turn at the semaphore later.
NothingOutlivesItsCaller ==
    /\ TypeOK
    /\ \A j \in Jobs : job[j] = "killed" => group[j] \subseteq {"orphan"}
    /\ \A j \in Jobs : Finished(j) => group[j] \subseteq {"quiet", "orphan"}
    /\ stop \in {"loop", "down"} => \A j \in Jobs : job[j] = "none" /\ group[j] = {}
    /\ flow = "ended" => \A a \in Alive : cut[a] = "gone"

\* Doll is told "ok" only if every task's agent reported, and the synthesis, or
\* without one every task, reported ok; she is told "timeout" only if a limit
\* ran out, never for a shutdown.
ResultIsHonest ==
    /\ inbox["workflow"] = "ok" =>
        /\ \A t \in Tasks : report[t] \in {"ok", "incomplete"}
        /\ IF plan.synthesis THEN report["synthesis"] = "ok"
                             ELSE \A t \in Tasks : report[t] = "ok"
    /\ inbox["workflow"] = "timeout" =>
        thrown = "timeout" \/ \E t \in Tasks : report[t] = "timeout"

\* The abstract promise of Dispatch, with its liveness: a workflow and a
\* dispatched command are answered at most once, never after the runners have
\* stopped, and always unless the shutdown or a failed write took the answer.
\* Agents that wait for one another's permits for ever would break it.
Stand(r) ==
    IF r \notin asked THEN "unasked"
    ELSE IF inbox[r] = None THEN "out"
    ELSE IF inbox[r] = "lost" THEN "dropped" ELSE "answered"

Promise == INSTANCE Dispatch WITH
    Requests <- {"workflow", "dispatched"},
    request  <- [r \in {"workflow", "dispatched"} |-> Stand(r)],
    open     <- stop \notin {"loop", "down"}

KeepsItsWord == Promise!Spec
=============================================================================
