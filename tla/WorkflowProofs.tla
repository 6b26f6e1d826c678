----------------------------- MODULE WorkflowProofs -----------------------------
(***************************************************************************)
(* Proofs about Workflow, for any number of tasks, permits and lost        *)
(* results.                                                                *)
(***************************************************************************)
EXTENDS Workflow, FiniteSetTheorems, TLAPS

Holders == Working \intersect Tasks

\* Processes belong to a command that runs; the kill leaves none of them, but
\* the child of a command cancelled before it had its proc.
Reaped == \A j \in Jobs : /\ job[j] \in {"none", "starting"} => group[j] = {}
                          /\ job[j] = "running" => group[j] \subseteq {"leader", "piped", "quiet"}
                          /\ job[j] = "killed" => group[j] \subseteq {"orphan"}

\* The same of one command, and the types of all.
Stands(st, g) == /\ st \in {"none", "starting"} => g = {}
                 /\ st = "running" => g \subseteq {"leader", "piped", "quiet"}
                 /\ st = "killed" => g \subseteq {"orphan"}
Commanded == /\ job \in [Jobs -> {"none", "starting", "running", "killed"}]
             /\ group \in [Jobs -> SUBSET Processes]

\* Whoever is alive in a cancelled workflow has been cancelled.
Thrown == thrown # None => \A a \in Alive : cut[a] = "gone"

\* A limit strikes an agent at work only.
Limited == \A a \in Agents : cut[a] = "late" => a \in Working

\* Where the workflow is says which of its agents can be alive.
Stages ==
  /\ flow = "idle" => thrown = None /\ Alive = {}
  /\ flow \in {"idle", "fanout"} => agent["synthesis"] = "none"
  /\ flow = "synthesis" => Fanned
  /\ flow = "ended" /\ thrown = None => Alive = {}

IInv == TypeOK /\ Reaped /\ Thrown /\ Limited /\ Stages

USE WorkflowAssumption

LEMMA HoldersFinite == IsFiniteSet(Holders)
BY FS_Subset DEF Holders

LEMMA PermitsAdd ==
  ASSUME TypeOK PROVE free \in 0..Permits /\ free + Cardinality(Holders) = Permits
BY DEF TypeOK, Holders

\* The semaphore's two moves.
LEMMA Taken ==
  ASSUME NEW H, IsFiniteSet(H), NEW t, t \notin H,
         NEW f \in 0..Permits, f > 0, f + Cardinality(H) = Permits
  PROVE  f - 1 \in 0..Permits /\ (f - 1) + Cardinality(H \union {t}) = Permits
<1>1. Cardinality(H) \in Nat /\ Cardinality(H \union {t}) = Cardinality(H) + 1
  BY FS_CardinalityType, FS_AddElement
<1> QED BY <1>1

LEMMA Given ==
  ASSUME NEW H, IsFiniteSet(H), NEW t \in H,
         NEW f \in 0..Permits, f + Cardinality(H) = Permits
  PROVE  f + 1 \in 0..Permits /\ (f + 1) + Cardinality(H \ {t}) = Permits
<1>1. Cardinality(H \ {t}) \in Nat /\ Cardinality(H \ {t}) = Cardinality(H) - 1
  BY FS_CardinalityType, FS_RemoveElement
<1>2. Cardinality(H) \in Nat
  BY FS_CardinalityType
<1> QED BY <1>1, <1>2

-----------------------------------------------------------------------------
LEMMA InitIInv == Init => IInv
<1> SUFFICES ASSUME Init PROVE IInv
  OBVIOUS
<1> USE DEF Init
<1>1. Holders = {} /\ Alive = {}
  BY DEF Holders, Alive, Working, Waiting
<1>2. free + Cardinality(Holders) = Permits
  BY <1>1, FS_EmptySet
<1>3. TypeOK
  BY <1>2 DEF TypeOK, Holders, Plans, Agents
<1>4. Reaped /\ Thrown /\ Limited /\ Stages
  BY <1>1 DEF Reaped, Thrown, Limited, Stages, Agents, Jobs
<1> QED BY <1>3, <1>4 DEF IInv

-----------------------------------------------------------------------------
(* Commands.  None of their steps moves an agent or a permit.               *)

LEMMA SameHolders ==
  ASSUME IInv, UNCHANGED <<agent, free>>
  PROVE  /\ free' + Cardinality(Working' \intersect Tasks) = Permits
         /\ Alive' = Alive /\ Working' = Working /\ (Fanned' <=> Fanned)
BY DEF IInv, TypeOK, Alive, Working, Waiting, Fanned

LEMMA PutKeeps ==
  ASSUME IInv, NEW r \in {"workflow", "dispatched"},
         NEW status \in Reports \union {None, "error", "lost"}, Put(r, status)
  PROVE  /\ inbox' \in [{"workflow", "dispatched"} -> Reports \union {None, "error", "lost"}]
         /\ faults' \in 0..MaxFaults
BY DEF IInv, TypeOK, Put

LEMMA CommandKeeps ==
  ASSUME IInv, NEW j \in Jobs,
         \/ Made(j) \/ Unmade(j) \/ Exits(j) \/ TimesOut(j) \/ Killed(j) \/ ReturnsInline(j) \/ Unwinds(j)
         \/ Returns \/ ShellDispatched \/ ShellInline
  PROVE  IInv'
<1>1. UNCHANGED <<flow, plan, thrown, agent, report, free>>
  BY DEF Made, Unmade, Exits, TimesOut, Killed, ReturnsInline, Leave, Unwinds, Returns, ShellDispatched,
         ShellInline, work
<1>2. Reaped' /\ Commanded'
  <2>1. \E i \in Jobs, st \in {"none", "starting", "running", "killed"}, g \in SUBSET Processes :
           Stands(st, g) /\ job' = [job EXCEPT ![i] = st] /\ group' = [group EXCEPT ![i] = g]
    <3>1. {"inline", "dispatched"} \subseteq Jobs
      BY DEF Jobs, Mine
    <3>2. CASE Made(j)
      <4>1. \A g \in Commands : g \in SUBSET Processes /\ Stands("running", g)
        BY DEF Commands, Processes, Stands
      <4> QED BY <3>2, <4>1 DEF Made
    <3>3. CASE Unmade(j)
      <4>1. \A g \in SUBSET {"orphan"} : g \in SUBSET Processes /\ Stands("killed", g)
        BY DEF Processes, Stands
      <4> QED BY <3>3, <4>1 DEF Unmade
    <3>4. CASE Exits(j)
      <4>1. PICK p \in group[j] : group' = [group EXCEPT ![j] = group[j] \ {p}]
        BY <3>4 DEF Exits
      <4>2. /\ job' = job /\ job[j] \in {"none", "starting", "running", "killed"}
            /\ group[j] \ {p} \in SUBSET Processes /\ Stands(job[j], group[j] \ {p})
        BY <3>4 DEF Exits, IInv, TypeOK, Reaped, Stands
      <4>3. job' = [job EXCEPT ![j] = job[j]]
        BY <4>2 DEF IInv, TypeOK
      <4> QED BY <4>1, <4>2, <4>3
    <3>5. CASE TimesOut(j) \/ Killed(j)
      BY <3>5 DEF TimesOut, Killed, KillGroup, Stands
    <3>6. CASE ReturnsInline(j) \/ Unwinds(j) \/ Returns
      BY <3>1, <3>6 DEF ReturnsInline, Unwinds, Returns, Leave, Stands
    <3>7. CASE ShellDispatched \/ ShellInline
      BY <3>1, <3>7 DEF ShellDispatched, ShellInline, Start, Stands
    <3> QED BY <3>2, <3>3, <3>4, <3>5, <3>6, <3>7
  <2>2. PICK i \in Jobs, st \in {"none", "starting", "running", "killed"}, g \in SUBSET Processes :
           Stands(st, g) /\ job' = [job EXCEPT ![i] = st] /\ group' = [group EXCEPT ![i] = g]
    BY <2>1
  <2>3. \A q \in Jobs : Stands(job[q], group[q])
    BY DEF IInv, Reaped, Stands
  <2>4. \A q \in Jobs : Stands(job'[q], group'[q])
    BY <2>2, <2>3 DEF IInv, TypeOK
  <2> QED BY <2>2, <2>4 DEF IInv, TypeOK, Reaped, Stands, Commanded
<1>3. \A a \in Agents : cut'[a] = cut[a]
  BY DEF IInv, TypeOK, Jobs, Mine, Agents, Made, Unmade, Exits, TimesOut, Killed, ReturnsInline, Leave, Unwinds,
         Returns, ShellDispatched, ShellInline
<1>4. Thrown' /\ Limited' /\ Stages'
  BY <1>1, <1>3, SameHolders DEF IInv, Thrown, Limited, Stages, Alive, Working, Waiting, Fanned
<1>5. inbox' \in [{"workflow", "dispatched"} -> Reports \union {None, "error", "lost"}]
      /\ faults' \in 0..MaxFaults
  <2>1. CASE Returns
    BY <2>1, PutKeeps DEF Returns, Reports, Degraded
  <2>2. CASE ~Returns
    BY <2>2 DEF IInv, TypeOK, Made, Unmade, Exits, TimesOut, Killed, ReturnsInline, Leave, Unwinds, ShellDispatched,
                ShellInline
  <2> QED BY <2>1, <2>2
<1>6. Commanded' /\ cut' \in [Jobs -> {None, "late", "gone"}]
  BY <1>2 DEF IInv, TypeOK, Jobs, Mine, Made, Unmade, Exits, TimesOut, Killed, ReturnsInline,
         Unwinds, Returns, ShellDispatched, ShellInline
<1>7. /\ doll' \in {"free", "inShell", "dead"} /\ asked' \subseteq {"workflow", "dispatched"}
      /\ stop' = stop
  BY DEF IInv, TypeOK, Made, Unmade, Exits, TimesOut, Killed, ReturnsInline, Leave, Unwinds,
         Returns, ShellDispatched, ShellInline
<1>8. TypeOK'
  BY <1>1, <1>5, <1>6, <1>7, SameHolders DEF IInv, TypeOK, Commanded
<1> QED BY <1>2, <1>4, <1>8 DEF IInv

-----------------------------------------------------------------------------
(* One agent's steps.                                                       *)

\* What an agent's step may touch of the rest of TypeOK: nothing.
AgentsOnly == UNCHANGED <<flow, plan, thrown, job, group, inbox, asked, doll, stop, faults>>

\* An agent that is done with its task or its verification gives its permit
\* back, the synthesis has none.
LEMMA DoneKeeps ==
  ASSUME IInv, NEW a \in Working, NEW r \in Reports, Done(a, r)
  PROVE  /\ agent' \in [Agents -> {"none", "waiting", "task", "toVerify", "verify", "done", "gone"}]
         /\ report' \in [Agents -> Reports \union {None}]
         /\ free' \in 0..Permits
         /\ free' + Cardinality(Holders') = Permits
<1>1. /\ agent' \in [Agents -> {"none", "waiting", "task", "toVerify", "verify", "done", "gone"}]
      /\ report' \in [Agents -> Reports \union {None}]
  BY DEF Done, IInv, TypeOK, Working
<1>2. Holders' = Holders \ {a}
  BY DEF Done, IInv, TypeOK, Holders, Working, Agents
<1>3. free \in 0..Permits /\ free + Cardinality(Holders) = Permits
  BY PermitsAdd DEF IInv
<1>4. CASE a \in Tasks
  <2>1. a \in Holders
    BY <1>4 DEF Holders
  <2>2. free' = free + 1
    BY <1>4 DEF Done
  <2>3. free + 1 \in 0..Permits /\ (free + 1) + Cardinality(Holders \ {a}) = Permits
    BY <1>3, <2>1, HoldersFinite, Given
  <2> QED BY <2>2, <2>3, <1>1, <1>2
<1>5. CASE a \notin Tasks
  <2>1. Holders' = Holders /\ free' = free
    BY <1>2, <1>5 DEF Holders, Done
  <2> QED BY <2>1, <1>1, <1>3
<1> QED BY <1>4, <1>5

LEMMA AcquireKeeps ==
  ASSUME IInv, NEW t \in Tasks, Acquire(t) PROVE IInv'
<1> USE DEF IInv
<1>1. /\ t \notin Holders /\ Holders' = Holders \union {t}
      /\ Alive' = Alive
  BY DEF Acquire, TypeOK, Holders, Alive, Working, Waiting, Agents
<1>2. free' \in 0..Permits /\ free' + Cardinality(Holders') = Permits
  BY <1>1, HoldersFinite, PermitsAdd, Taken DEF Acquire
<1>3. TypeOK'
  BY <1>2 DEF Acquire, TypeOK, Holders, shell
<1>4. Reaped' /\ Thrown' /\ Limited'
  BY <1>1 DEF Acquire, TypeOK, Reaped, Thrown, Limited, Working, Agents, shell
<1>5. t \in Alive /\ agent'["synthesis"] = agent["synthesis"] /\ ~Fanned
  BY DEF Acquire, TypeOK, Agents, Alive, Waiting, Fanned
<1>6. Stages'
  BY <1>1, <1>5 DEF Acquire, Stages
<1> QED BY <1>3, <1>4, <1>6

LEMMA RunsShellKeeps ==
  ASSUME IInv, NEW a \in Agents, RunsShell(a) PROVE IInv'
<1> USE DEF IInv
<1>1. TypeOK'
  BY SameHolders DEF RunsShell, Start, TypeOK, work, Jobs
<1>2. Reaped' /\ Thrown' /\ Limited' /\ Stages'
  BY SameHolders DEF RunsShell, Start, TypeOK, Reaped, Thrown, Limited, Stages, work, Jobs
<1> QED BY <1>1, <1>2

LEMMA TimesOutKeeps ==
  ASSUME IInv, NEW a \in Agents, AgentTimesOut(a) PROVE IInv'
<1> USE DEF IInv
<1>1. TypeOK'
  BY SameHolders DEF AgentTimesOut, TypeOK, work, shell, Jobs
<1>2. Thrown' /\ Limited'
  BY SameHolders DEF AgentTimesOut, TypeOK, Thrown, Limited, Alive, work, shell, Jobs
<1>3. Reaped' /\ Stages'
  BY SameHolders DEF AgentTimesOut, TypeOK, Reaped, Stages, work, shell
<1> QED BY <1>1, <1>2, <1>3

\* A task that was not cancelled ends, or goes on to its verification.
LEMMA EndsKeeps ==
  ASSUME IInv, NEW a \in Agents, Ends(a) PROVE IInv'
<1> USE DEF IInv
<1>1. PICK r \in Reports \ {"timeout"} : Done(a, r)
  BY DEF Ends
<1>2. TypeOK'
  BY <1>1, DoneKeeps DEF Ends, TypeOK, Holders, shell
<1>3. thrown = None
  BY DEF Ends, Thrown, Alive
<1>4. Alive' \subseteq Alive /\ a \in Alive
  BY <1>1 DEF Ends, Done, TypeOK, Alive, Working, Waiting, Agents
<1>5. flow # "idle" /\ flow # "ended"
  BY <1>3, <1>4 DEF Stages
<1>6. flow = "fanout" => agent'["synthesis"] = "none"
  BY <1>1 DEF Ends, Done, TypeOK, Stages, Working, Agents
<1>7. Fanned => Fanned'
  BY <1>1 DEF Ends, Done, TypeOK, Fanned, Working, Agents
<1>8. Limited'
  BY <1>1 DEF Ends, Done, TypeOK, Limited, Working, Agents
<1>9. Reaped' /\ Thrown' /\ Stages'
  BY <1>3, <1>5, <1>6, <1>7 DEF Ends, Reaped, Thrown, Stages, shell
<1> QED BY <1>2, <1>8, <1>9

\* The two ways a cancelled agent unwinds: with a report of its time-out, or
\* with none.
LEMMA UnwindsKeeps ==
  ASSUME IInv, NEW a \in Agents, AgentUnwinds(a) PROVE IInv'
<1> USE DEF IInv
<1>1. a \in Alive /\ cut[a] # None /\ cut' = [cut EXCEPT ![a] = None]
  BY DEF AgentUnwinds
<1>2. AgentsOnly
  BY DEF AgentUnwinds, AgentsOnly, shell
<1>3. /\ agent' \in [Agents -> {"none", "waiting", "task", "toVerify", "verify", "done", "gone"}]
      /\ report' \in [Agents -> Reports \union {None}]
      /\ free' \in 0..Permits /\ free' + Cardinality(Holders') = Permits
      /\ agent'[a] \in {"done", "gone"}
      /\ \A b \in Agents \ {a} : agent'[b] = agent[b]
  <2>1. CASE cut[a] = "late" /\ a \in Working
    <3>1. Done(a, "timeout")
      BY <2>1 DEF AgentUnwinds
    <3>2. agent'[a] = "done" /\ \A b \in Agents \ {a} : agent'[b] = agent[b]
      BY <3>1 DEF Done, TypeOK, Degraded
    <3> QED BY <2>1, <3>1, <3>2, DoneKeeps DEF Reports, Degraded, Holders
  <2>2. CASE cut[a] # "late"
    <3>1. /\ agent' = [agent EXCEPT ![a] = "gone"] /\ report' = report
          /\ free' = IF a \in Working \intersect Tasks THEN free + 1 ELSE free
      BY <2>2 DEF AgentUnwinds
    <3>2. Holders' = Holders \ {a}
      BY <3>1 DEF TypeOK, Holders, Working
    <3>3. CASE a \in Holders
      <4>1. free' = free + 1
        BY <3>1, <3>3 DEF Holders
      <4>2. free \in 0..Permits /\ free + Cardinality(Holders) = Permits
        BY PermitsAdd
      <4>3. free + 1 \in 0..Permits /\ (free + 1) + Cardinality(Holders \ {a}) = Permits
        BY <3>3, <4>2, HoldersFinite, Given
      <4>4. free' \in 0..Permits /\ free' + Cardinality(Holders') = Permits
        BY <3>2, <4>1, <4>3
      <4>5. /\ agent' \in [Agents -> {"none", "waiting", "task", "toVerify", "verify", "done", "gone"}]
            /\ report' \in [Agents -> Reports \union {None}]
            /\ agent'[a] = "gone" /\ \A b \in Agents \ {a} : agent'[b] = agent[b]
        BY <3>1 DEF TypeOK
      <4> QED BY <4>4, <4>5
    <3>4. CASE a \notin Holders
      <4>1. Holders' = Holders
        BY <3>2, <3>4
      <4> QED BY <3>1, <3>4, <4>1 DEF TypeOK, Holders
    <3> QED BY <3>3, <3>4
  <2> QED BY <2>1, <2>2 DEF Limited
<1>4. TypeOK'
  BY <1>1, <1>2, <1>3 DEF AgentsOnly, TypeOK, Holders, Jobs
<1>5. Alive' \subseteq Alive \ {a} /\ (Fanned => Fanned')
  <2>1. \A b \in Agents : b \in Alive' => b \in Alive \ {a}
    BY <1>3 DEF Alive, Working, Waiting
  <2>2. Fanned => a \notin Tasks
    BY <1>1 DEF Alive, Working, Waiting, Fanned
  <2>3. Fanned => Fanned'
    BY <1>3, <2>2 DEF Fanned, Agents
  <2> QED BY <2>1, <2>3 DEF Alive, Working, Waiting
<1>6. Reaped' /\ Thrown' /\ Limited'
  <2>1. cut'[a] = None /\ \A b \in Agents \ {a} : cut'[b] = cut[b]
    BY <1>1 DEF TypeOK, Jobs
  <2>2. Limited'
    BY <1>3, <2>1 DEF Limited, Working
  <2>3. Thrown'
    BY <1>2, <1>5, <2>1 DEF AgentsOnly, Thrown, Alive, Working, Waiting
  <2>4. Reaped'
    BY <1>2 DEF AgentsOnly, Reaped
  <2> QED BY <2>2, <2>3, <2>4
<1>7. a = "synthesis" => flow \notin {"idle", "fanout"}
  BY <1>1 DEF Stages, Alive, Working, Waiting
<1>8. Stages'
  BY <1>1, <1>2, <1>3, <1>5, <1>7 DEF AgentsOnly, Stages, Agents
<1> QED BY <1>4, <1>6, <1>8

-----------------------------------------------------------------------------
(* The workflow's steps and the shutdown's.                                 *)

LEMMA SpawnKeeps == ASSUME IInv, Spawn PROVE IInv'
<1> USE DEF IInv
<1>1. /\ agent' \in [Agents -> {"none", "waiting", "task", "toVerify", "verify", "done", "gone"}]
      /\ Working' = {} /\ Working = {} /\ agent'["synthesis"] = "none"
  BY DEF Spawn, TypeOK, Stages, Alive, Working, Waiting, Agents
<1>2. TypeOK'
  BY <1>1 DEF Spawn, TypeOK, shell
<1>3. Reaped' /\ Thrown' /\ Limited' /\ Stages'
  BY <1>1 DEF Spawn, Reaped, Thrown, Limited, Stages, shell
<1> QED BY <1>2, <1>3

LEMMA StatusType ==
  ASSUME TypeOK, NEW s \in Reports \union {None}
  PROVE  RollupStatus(s) \in Reports \union {None} /\ Combined \in Reports \union {None}
BY DEF TypeOK, RollupStatus, Combined, Reports, Agents

LEMMA GatheredKeeps == ASSUME IInv, Gathered PROVE IInv'
<1> USE DEF IInv
<1>1. /\ thrown = None /\ flow = "fanout" /\ Fanned
      /\ UNCHANGED <<plan, thrown, report, free, shell, cut, asked, doll, stop>>
      /\ \/ flow' = "synthesis" /\ agent' = [agent EXCEPT !["synthesis"] = "task"]
            /\ UNCHANGED <<inbox, faults>>
         \/ flow' = "ended" /\ agent' = agent
  BY DEF Gathered, Emit
<1>2. /\ inbox' \in [{"workflow", "dispatched"} -> Reports \union {None, "error", "lost"}]
      /\ faults' \in 0..MaxFaults
  <2>1. CASE Emit(Combined)
    BY <2>1, StatusType, PutKeeps DEF Emit
  <2>2. CASE ~Emit(Combined)
    BY <2>2 DEF Gathered, TypeOK
  <2> QED BY <2>1, <2>2
<1>3. /\ agent' \in [Agents -> {"none", "waiting", "task", "toVerify", "verify", "done", "gone"}]
      /\ Holders' = Holders /\ Fanned' /\ Working \subseteq Working'
  BY <1>1 DEF TypeOK, Holders, Fanned, Working, Agents
<1>4. TypeOK'
  BY <1>1, <1>2, <1>3 DEF TypeOK, Holders, shell
<1>5. flow' = "ended" => Alive' = {}
  BY <1>1 DEF Stages, Fanned, Alive, Working, Waiting, Agents
<1>6. Reaped' /\ Thrown' /\ Limited' /\ Stages'
  BY <1>1, <1>3, <1>5 DEF Reaped, Thrown, Limited, Stages, shell
<1> QED BY <1>4, <1>6

LEMMA SynthesisedKeeps == ASSUME IInv, Synthesised PROVE IInv'
<1> USE DEF IInv
<1>1. /\ thrown = None /\ flow = "synthesis" /\ flow' = "ended"
      /\ agent["synthesis"] = "done" /\ UNCHANGED <<plan, thrown, work, shell, cut, asked, doll, stop>>
  BY DEF Synthesised, Emit
<1>2. /\ inbox' \in [{"workflow", "dispatched"} -> Reports \union {None, "error", "lost"}]
      /\ faults' \in 0..MaxFaults
  BY StatusType, PutKeeps DEF Synthesised, Emit, TypeOK, Agents
<1>3. Alive' = {} /\ Working' = Working
  BY <1>1 DEF Stages, Fanned, Alive, Working, Waiting, Agents, work
<1>4. TypeOK'
  BY <1>1, <1>2, <1>3 DEF TypeOK, work, shell
<1>5. Reaped' /\ Thrown' /\ Limited' /\ Stages'
  BY <1>1, <1>3 DEF Reaped, Thrown, Limited, Stages, work, shell
<1> QED BY <1>4, <1>5

\* A time-out, or the stop: everyone alive hears of it.
LEMMA CancelKeeps ==
  ASSUME IInv, Active, NEW why \in {"timeout", "stop"}, CancelFlow(why),
         UNCHANGED <<flow, plan, work, shell, inbox, asked, doll, faults>>,
         stop' \in {"up", "workflows", "shells", "loop", "down"}
  PROVE  IInv'
<1> USE DEF IInv
<1>1. Alive' = Alive /\ Working' = Working /\ (Fanned' <=> Fanned)
  BY SameHolders DEF work
<1>2. TypeOK'
  BY <1>1 DEF CancelFlow, TypeOK, work, shell
<1>3. Thrown' /\ Limited'
  <2>1. \A j \in Jobs : cut'[j] = IF j \in Alive THEN "gone" ELSE cut[j]
    BY DEF CancelFlow
  <2>2. Alive \subseteq Agents /\ Agents \subseteq Jobs
    BY DEF Alive, Working, Waiting, Jobs
  <2>3. Thrown'
    BY <1>1, <2>1, <2>2 DEF Thrown
  <2>4. Limited'
    BY <1>1, <2>1, <2>2 DEF Limited
  <2> QED BY <2>3, <2>4
<1>4. Reaped' /\ Stages'
  BY <1>1 DEF CancelFlow, Active, Reaped, Stages, work, shell
<1> QED BY <1>2, <1>3, <1>4

LEMMA FlowUnwindsKeeps == ASSUME IInv, FlowUnwinds PROVE IInv'
<1> USE DEF IInv
<1>1. /\ thrown # None /\ flow' = "ended"
      /\ UNCHANGED <<plan, thrown, work, shell, cut, asked, doll, stop>>
  BY DEF FlowUnwinds, Emit
<1>2. /\ inbox' \in [{"workflow", "dispatched"} -> Reports \union {None, "error", "lost"}]
      /\ faults' \in 0..MaxFaults
  BY PutKeeps DEF FlowUnwinds, Emit, TypeOK, Reports, Degraded
<1>3. Alive' = Alive /\ Working' = Working
  BY <1>1, SameHolders DEF work
<1>4. TypeOK'
  BY <1>1, <1>2, <1>3 DEF TypeOK, work, shell
<1>5. Reaped' /\ Thrown' /\ Limited' /\ Stages'
  BY <1>1, <1>3 DEF Reaped, Thrown, Limited, Stages, work, shell
<1> QED BY <1>4, <1>5

\* The rest of the shutdown: commands are cancelled, and what waits is over.
LEMMA StopKeeps ==
  ASSUME IInv, StopShells \/ StopLoop \/ Down PROVE IInv'
<1> USE DEF IInv
<1>1. UNCHANGED <<flow, plan, thrown, work, shell, inbox, asked, faults>>
  BY DEF StopShells, StopLoop, Down
<1>2. /\ cut' \in [Jobs -> {None, "late", "gone"}]
      /\ \A j \in Jobs : cut'[j] = cut[j] \/ cut'[j] = "gone"
  BY DEF StopShells, StopLoop, Down, TypeOK
<1>3. Alive' = Alive /\ Working' = Working /\ (Fanned' <=> Fanned)
  BY <1>1, SameHolders DEF work
<1>4. TypeOK'
  BY <1>1, <1>2, <1>3 DEF StopShells, StopLoop, Down, TypeOK, work, shell
<1>5. Reaped' /\ Thrown' /\ Limited' /\ Stages'
  BY <1>1, <1>2, <1>3 DEF Reaped, Thrown, Limited, Stages, Alive, Working, Waiting, Jobs, work, shell
<1> QED BY <1>4, <1>5

LEMMA NextIInv == IInv /\ [Next]_vars => IInv'
<1> SUFFICES ASSUME IInv, [Next]_vars PROVE IInv'
  OBVIOUS
<1>1. CASE \/ \E j \in Jobs : Made(j) \/ Unmade(j) \/ Exits(j) \/ TimesOut(j) \/ Killed(j) \/ ReturnsInline(j) \/ Unwinds(j)
           \/ Returns \/ ShellDispatched \/ ShellInline
  <2>1. "inline" \in Jobs
    BY DEF Jobs, Mine
  <2> QED BY <1>1, <2>1, CommandKeeps
<1>2. CASE \/ \E t \in Tasks : Acquire(t)
           \/ \E a \in Agents : RunsShell(a) \/ Ends(a) \/ AgentTimesOut(a) \/ AgentUnwinds(a)
  BY <1>2, AcquireKeeps, RunsShellKeeps, EndsKeeps, TimesOutKeeps, UnwindsKeeps
<1>3. CASE Spawn \/ Gathered \/ Synthesised \/ FlowUnwinds
  BY <1>3, SpawnKeeps, GatheredKeeps, SynthesisedKeeps, FlowUnwindsKeeps
<1>4. CASE FlowTimesOut
  BY <1>4, CancelKeeps DEF FlowTimesOut, IInv, TypeOK
<1>5. CASE StopWorkflows /\ Active
  BY <1>5, CancelKeeps DEF StopWorkflows
<1>6. CASE StopWorkflows /\ ~Active
  BY <1>6, SameHolders DEF StopWorkflows, IInv, TypeOK, Reaped, Thrown, Limited, Stages, work, shell
<1>7. CASE StopShells \/ StopLoop \/ Down
  BY <1>7, StopKeeps
<1>8. CASE UNCHANGED vars
  BY <1>8, SameHolders DEF vars, IInv, TypeOK, Reaped, Thrown, Limited, Stages, work, shell
<1> QED BY <1>1, <1>2, <1>3, <1>4, <1>5, <1>6, <1>7, <1>8 DEF Next

\* The inductive invariant: permits count the agents at work, a command that
\* was killed has left none of its processes but a child it had before it had
\* its proc, and whoever lives on in a cancelled workflow has been cancelled.
THEOREM Inductive == Spec => []IInv
BY InitIInv, NextIInv, PTL DEF Spec

-----------------------------------------------------------------------------
(* What Doll is told, and that she is told it once.                        *)

\* A request is out until something is in the inbox for it.
Answers ==
  /\ flow = "idle" <=> "workflow" \notin asked
  /\ flow # "ended" <=> inbox["workflow"] = None
  /\ "dispatched" \notin asked =>
        inbox["dispatched"] = None /\ job["dispatched"] = "none"
  /\ "dispatched" \in asked =>
        (inbox["dispatched"] = None <=> job["dispatched"] # "none")

\* The shutdown waits for the workflow, and then for every command.
Stopped ==
  /\ stop \in {"shells", "loop", "down"} => ~Active
  /\ stop \in {"loop", "down"} => \A j \in Jobs : job[j] = "none"

\* Who is through with the task has a report.
Reported ==
  /\ \A a \in Agents : agent[a] \in {"done", "toVerify", "verify"} => report[a] \in Reports
  /\ flow = "synthesis" => plan.synthesis

HInv == IInv /\ Answers /\ Stopped /\ Reported /\ ResultIsHonest

LEMMA InitHInv == Init => HInv
<1> SUFFICES ASSUME Init PROVE HInv
  OBVIOUS
<1>1. IInv
  BY InitIInv
<1>2. Answers /\ Stopped /\ Reported
  BY DEF Init, Answers, Stopped, Reported, Active, Jobs, Mine
<1>3. ResultIsHonest
  BY DEF Init, ResultIsHonest
<1> QED BY <1>1, <1>2, <1>3 DEF HInv

\* A command of Doll's is answered as it ends, and runs until then.
LEMMA CommandAnswers ==
  ASSUME HInv, NEW j \in Jobs,
         \/ Made(j) \/ Unmade(j) \/ Exits(j) \/ TimesOut(j) \/ Killed(j) \/ ReturnsInline(j) \/ Unwinds(j)
         \/ Returns \/ ShellDispatched \/ ShellInline
  PROVE  Answers' /\ Stopped' /\ Reported'
<1> USE DEF HInv, IInv, TypeOK
<1>1. UNCHANGED <<flow, plan, thrown, agent, report, free, stop>>
  BY DEF Made, Unmade, Exits, TimesOut, Killed, ReturnsInline, Leave, Unwinds, Returns, ShellDispatched,
         ShellInline, work
<1>2. /\ inbox'["workflow"] = inbox["workflow"]
      /\ "workflow" \in asked' <=> "workflow" \in asked
  BY DEF Made, Unmade, Exits, TimesOut, Killed, ReturnsInline, Leave, Unwinds, Returns, Put, ShellDispatched,
         ShellInline, shell
<1>3. /\ "dispatched" \notin asked' =>
            inbox'["dispatched"] = None /\ job'["dispatched"] = "none"
      /\ "dispatched" \in asked' =>
            (inbox'["dispatched"] = None <=> job'["dispatched"] # "none")
  <2>1. CASE Made(j) \/ Unmade(j) \/ Exits(j) \/ TimesOut(j) \/ Killed(j) \/ ReturnsInline(j) \/ ShellInline
    BY <2>1 DEF Answers, Made, Unmade, Exits, TimesOut, Killed, KillGroup, ReturnsInline, Leave, ShellInline, Start, Jobs, Mine
  <2>2. CASE Unwinds(j)
    BY <2>2 DEF Answers, Unwinds, Leave, Jobs, Mine
  <2>3. CASE Returns
    BY <2>3 DEF Answers, Returns, Leave, Put, Finished, Communicated, Jobs, Mine
  <2>4. CASE ShellDispatched
    BY <2>4 DEF Answers, ShellDispatched, Start, Jobs, Mine
  <2> QED BY <2>1, <2>2, <2>3, <2>4
<1>4. Answers'
  BY <1>1, <1>2, <1>3 DEF Answers
<1>5. Stopped'
  BY <1>1 DEF Stopped, Active, Made, Unmade, Exits, TimesOut, Killed, ReturnsInline, Leave, Unwinds, Returns,
              Finished, ShellDispatched, ShellInline, Jobs, Mine
<1>6. Reported'
  BY <1>1 DEF Reported
<1> QED BY <1>4, <1>5, <1>6

\* An agent works while the workflow does, and reports as it ends.
LEMMA AgentAnswers ==
  ASSUME HInv, NEW a \in Agents,
         \/ a \in Tasks /\ Acquire(a)
         \/ RunsShell(a) \/ Ends(a) \/ AgentTimesOut(a) \/ AgentUnwinds(a)
  PROVE  Answers' /\ Stopped' /\ Reported'
<1> USE DEF HInv, IInv, TypeOK
<1>1. /\ UNCHANGED <<flow, plan, thrown, inbox, asked, stop>>
      /\ job'["dispatched"] = job["dispatched"]
      /\ job' = job \/ stop \in {"up", "workflows"}
  BY DEF Acquire, RunsShell, Start, Ends, AgentTimesOut, AgentUnwinds, shell, Agents, Jobs, Mine
<1>2. Answers' /\ Stopped'
  BY <1>1 DEF Answers, Stopped, Active
<1>3. Reported'
  <2>1. CASE RunsShell(a) \/ AgentTimesOut(a)
    BY <2>1 DEF Reported, RunsShell, AgentTimesOut, work
  <2>2. CASE a \in Tasks /\ Acquire(a)
    BY <2>2 DEF Reported, Acquire
  <2>3. ASSUME NEW r \in Reports, a \in Working, Done(a, r), UNCHANGED <<flow, plan>>
        PROVE  Reported'
    BY <2>3 DEF Reported, Done, Working
  <2>4. CASE Ends(a)
    BY <2>3, <2>4 DEF Ends
  <2>5. CASE AgentUnwinds(a) /\ cut[a] = "late"
    BY <2>3, <2>5 DEF AgentUnwinds, Limited, Reports, Degraded
  <2>6. CASE AgentUnwinds(a) /\ cut[a] # "late"
    BY <2>6 DEF Reported, AgentUnwinds
  <2> QED BY <2>1, <2>2, <2>4, <2>5, <2>6
<1> QED BY <1>2, <1>3

\* The status of a roll-up is a report: everybody it is made of has one.
LEMMA RolledUp ==
  ASSUME HInv, Fanned, NEW s \in Reports \union {None}
  PROVE  RollupStatus(s) \in Reports /\ Combined \in Reports
BY DEF HInv, IInv, Reported, Fanned, RollupStatus, Combined, Reports, Degraded, Agents

LEMMA FlowAnswers ==
  ASSUME HInv, Spawn \/ Gathered \/ Synthesised \/ FlowUnwinds
  PROVE  Answers' /\ Stopped' /\ Reported'
<1> USE DEF HInv, IInv, TypeOK
<1>1. /\ UNCHANGED <<job, stop, report>> /\ inbox'["dispatched"] = inbox["dispatched"]
      /\ "dispatched" \in asked' <=> "dispatched" \in asked
  BY DEF Spawn, Gathered, Synthesised, FlowUnwinds, Emit, Put, shell, work
<1>2. /\ flow' = "idle" <=> "workflow" \notin asked'
      /\ flow' # "ended" <=> inbox'["workflow"] = None
  <2>1. CASE Spawn
    BY <2>1 DEF Spawn, Answers
  <2>2. CASE Gathered
    <3>1. Combined \in Reports /\ None \notin Reports
      BY <2>2, RolledUp DEF Gathered, Reports, Degraded
    <3> QED BY <2>2, <3>1 DEF Gathered, Emit, Put, Answers
  <2>3. CASE Synthesised
    <3>1. RollupStatus(report["synthesis"]) \in Reports /\ None \notin Reports
      BY <2>3, RolledUp DEF Synthesised, Stages, Reports, Degraded, Agents
    <3> QED BY <2>3, <3>1 DEF Synthesised, Emit, Put, Answers
  <2>4. CASE FlowUnwinds
    BY <2>4 DEF FlowUnwinds, Active, Emit, Put, Answers
  <2> QED BY <2>1, <2>2, <2>3, <2>4
<1>3. Answers'
  BY <1>1, <1>2 DEF Answers
<1>4. Stopped'
  BY <1>1 DEF Stopped, Active, Spawn, Gathered, Synthesised, FlowUnwinds, Emit
<1>5. Reported'
  BY <1>1 DEF Reported, Spawn, Gathered, Synthesised, FlowUnwinds, Emit, work, Agents
<1> QED BY <1>3, <1>4, <1>5

LEMMA StopAnswers ==
  ASSUME HInv, FlowTimesOut \/ StopWorkflows \/ StopShells \/ StopLoop \/ Down \/ UNCHANGED vars
  PROVE  Answers' /\ Stopped' /\ Reported'
<1>1. UNCHANGED <<flow, plan, agent, report, job, inbox, asked>>
  BY DEF FlowTimesOut, StopWorkflows, StopShells, StopLoop, Down, vars, work, shell
<1>2. Answers' /\ Reported'
  BY <1>1 DEF HInv, Answers, Reported
<1>3. Stopped'
  BY <1>1 DEF HInv, Stopped, Active, FlowTimesOut, StopWorkflows, StopShells, StopLoop, Down, vars
<1> QED BY <1>2, <1>3

\* Once the result is out nothing it was made of changes: who is alive then was
\* cancelled, and leaves no report.
LEMMA EndedIsFinal ==
  ASSUME IInv, [Next]_vars, flow = "ended"
  PROVE  /\ UNCHANGED <<flow, plan, thrown, report>>
         /\ inbox'["workflow"] = inbox["workflow"]
<1>1. \A a \in Alive : cut[a] = "gone"
  BY DEF IInv, Stages, Thrown
<1>2. CASE \/ \E j \in Jobs : Made(j) \/ Unmade(j) \/ Exits(j) \/ TimesOut(j) \/ Killed(j) \/ ReturnsInline(j) \/ Unwinds(j)
           \/ Returns \/ ShellDispatched \/ ShellInline
  BY <1>2 DEF IInv, TypeOK, Made, Unmade, Exits, TimesOut, Killed, ReturnsInline, Leave, Unwinds, Returns, Put,
              ShellDispatched, ShellInline, work
<1>3. CASE \/ \E t \in Tasks : Acquire(t)
           \/ \E a \in Agents : RunsShell(a) \/ Ends(a) \/ AgentTimesOut(a) \/ AgentUnwinds(a)
  BY <1>1, <1>3 DEF Acquire, RunsShell, Ends, AgentTimesOut, AgentUnwinds, Alive, Working,
                    Waiting, work, Agents
<1>4. CASE \/ Spawn \/ Gathered \/ Synthesised \/ FlowUnwinds \/ FlowTimesOut
           \/ StopWorkflows \/ StopShells \/ StopLoop \/ Down \/ UNCHANGED vars
  BY <1>4 DEF Spawn, Gathered, Synthesised, FlowUnwinds, FlowTimesOut, Active,
              StopWorkflows, StopShells, StopLoop, Down, vars, work
<1> QED BY <1>2, <1>3, <1>4 DEF Next

\* What a roll-up says is true of the reports.
LEMMA RollupIsHonest ==
  ASSUME HInv, Fanned, NEW s \in Reports \union {None}
  PROVE  /\ RollupStatus(s) = "ok" =>
              /\ \A t \in Tasks : report[t] \in {"ok", "incomplete"}
              /\ IF s # None THEN s = "ok" ELSE \A t \in Tasks : report[t] = "ok"
         /\ RollupStatus(s) # "timeout"
<1>1. \A t \in Tasks : report[t] \in Reports
  BY DEF HInv, Reported, Fanned, Agents
<1> QED BY <1>1 DEF RollupStatus, Reports, Degraded

LEMMA CombinedIsHonest ==
  ASSUME HInv, Fanned
  PROVE  /\ Combined = "ok" => \A t \in Tasks : report[t] = "ok"
         /\ Combined = "timeout" => \E t \in Tasks : report[t] = "timeout"
<1>1. CASE Cardinality(Tasks) = 1 /\ plan.mode # "verify"
  <2>1. PICK t : Tasks = {t}
    BY <1>1, FS_Singleton
  <2> QED BY <1>1, <2>1 DEF Combined
<1>2. CASE ~(Cardinality(Tasks) = 1 /\ plan.mode # "verify")
  BY <1>2, RollupIsHonest DEF Combined
<1> QED BY <1>1, <1>2

LEMMA HonestKept ==
  ASSUME HInv, [Next]_vars, IInv', Answers' PROVE ResultIsHonest'
<1> USE DEF HInv
<1>1. CASE flow = "ended"
  BY <1>1, EndedIsFinal DEF ResultIsHonest
<1>2. CASE flow' # "ended"
  BY <1>2 DEF Answers, ResultIsHonest
<1>3. CASE flow # "ended" /\ flow' = "ended"
  <2>1. Gathered \/ Synthesised \/ FlowUnwinds
    BY <1>3 DEF Next, vars, Made, Unmade, Exits, TimesOut, Killed, ReturnsInline, Leave, Unwinds, Acquire, RunsShell,
       Ends, AgentTimesOut, AgentUnwinds, Returns, Spawn, FlowTimesOut, ShellDispatched,
       ShellInline, StopWorkflows, StopShells, StopLoop, Down
  <2>2. CASE Gathered
    <3>1. /\ UNCHANGED <<plan, thrown, report>> /\ Fanned
          /\ \/ inbox'["workflow"] \in {Combined, "lost"} /\ ~plan.synthesis
             \/ inbox'["workflow"] = "error"
      BY <1>3, <2>2 DEF Gathered, Emit, Put, IInv, TypeOK
    <3> QED BY <3>1, CombinedIsHonest DEF ResultIsHonest
  <2>3. CASE Synthesised
    <3>1. /\ UNCHANGED <<plan, thrown, report>> /\ Fanned /\ plan.synthesis
          /\ report["synthesis"] \in Reports
          /\ inbox'["workflow"] \in {RollupStatus(report["synthesis"]), "lost"}
      BY <2>3 DEF Synthesised, Emit, Put, IInv, TypeOK, Reported, Stages, work, Agents
    <3> QED BY <3>1, RollupIsHonest DEF ResultIsHonest, Reports, Degraded
  <2>4. CASE FlowUnwinds
    BY <2>4 DEF FlowUnwinds, Emit, Put, IInv, TypeOK, ResultIsHonest
  <2> QED BY <2>1, <2>2, <2>3, <2>4
<1> QED BY <1>1, <1>2, <1>3

LEMMA NextHInv == HInv /\ [Next]_vars => HInv'
<1> SUFFICES ASSUME HInv, [Next]_vars PROVE HInv'
  OBVIOUS
<1>1. IInv'
  BY NextIInv DEF HInv
<1>2. Answers' /\ Stopped' /\ Reported'
  <2>1. CASE \/ \E j \in Jobs : Made(j) \/ Unmade(j) \/ Exits(j) \/ TimesOut(j) \/ Killed(j) \/ ReturnsInline(j) \/ Unwinds(j)
             \/ Returns \/ ShellDispatched \/ ShellInline
    <3>1. "inline" \in Jobs
      BY DEF Jobs, Mine
    <3> QED BY <2>1, <3>1, CommandAnswers
  <2>2. CASE \/ \E t \in Tasks : Acquire(t)
             \/ \E a \in Agents : RunsShell(a) \/ Ends(a) \/ AgentTimesOut(a) \/ AgentUnwinds(a)
    BY <2>2, AgentAnswers DEF Agents
  <2>3. CASE Spawn \/ Gathered \/ Synthesised \/ FlowUnwinds
    BY <2>3, FlowAnswers
  <2>4. CASE \/ FlowTimesOut \/ StopWorkflows \/ StopShells \/ StopLoop \/ Down
             \/ UNCHANGED vars
    BY <2>4, StopAnswers
  <2> QED BY <2>1, <2>2, <2>3, <2>4 DEF Next
<1>3. ResultIsHonest'
  BY <1>1, <1>2, HonestKept
<1> QED BY <1>1, <1>2, <1>3 DEF HInv

\* The invariant behind the answers: which requests are answered where each
\* runner stands, what a report in hand is worth, and what a stop has waited for.
THEOREM Telling == Spec => []HInv
BY InitHInv, NextHInv, PTL DEF Spec

\* What _execute, the runners' stop and Kernel.run's order leave behind, for any
\* number of tasks and permits: of a command that was ended nothing, but a child
\* it had while it was being made, of one that ended by itself what it put in
\* the background; once the runners have stopped no command at all; and no agent
\* at work once the result is out.
THEOREM NothingIsLeft == Spec => []NothingOutlivesItsCaller
<1>1. HInv => NothingOutlivesItsCaller
  <2> SUFFICES ASSUME HInv PROVE NothingOutlivesItsCaller
    OBVIOUS
  <2>1. \A j \in Jobs : Finished(j) => group[j] \subseteq {"quiet", "orphan"}
    BY DEF HInv, IInv, Reaped, Finished, Communicated
  <2>2. stop \in {"loop", "down"} => \A j \in Jobs : job[j] = "none" /\ group[j] = {}
    BY DEF HInv, IInv, Reaped, Stopped
  <2>3. flow = "ended" => \A a \in Alive : cut[a] = "gone"
    BY DEF HInv, IInv, Thrown, Stages
  <2> QED BY <2>1, <2>2, <2>3 DEF HInv, IInv, Reaped, NothingOutlivesItsCaller
<1> QED BY <1>1, Telling, PTL

\* Doll hears "ok" only of work whose every report is in and good, and of a
\* time-out only if one struck, for any number of tasks.
THEOREM ToldTheTruth == Spec => []ResultIsHonest
BY Telling, PTL DEF HInv

-----------------------------------------------------------------------------
(* Dispatch's promise, but for its liveness.                                *)

Names == {"workflow", "dispatched"}

\* A step that leaves asked and inbox alone and closes nothing is a stutter.
LEMMA SameStands ==
  ASSUME UNCHANGED <<asked, inbox>>
  PROVE  \A r \in Names : Stand(r)' = Stand(r)
BY DEF Stand

\* A step that moves one request at most, and how.
LEMMA OneMoves ==
  ASSUME NEW r \in Names, \A q \in Names : q # r => Stand(q)' = Stand(q),
         stop \notin {"loop", "down"}, stop' = stop,
         \/ Stand(r)' = Stand(r)
         \/ Stand(r) = "unasked" /\ Stand(r)' = "out"
         \/ Stand(r) = "out" /\ Stand(r)' \in {"answered", "dropped"}
  PROVE  [Promise!Next]_(Promise!vars)
<1> DEFINE req == [q \in Names |-> Stand(q)]
<1>1. CASE Stand(r)' = Stand(r)
  BY <1>1 DEF Promise!vars, Names
<1>2. CASE Stand(r) = "unasked" /\ Stand(r)' = "out"
  BY <1>2 DEF Promise!Next, Promise!Ask, Names
<1>3. CASE Stand(r) = "out" /\ Stand(r)' \in {"answered", "dropped"}
  BY <1>3 DEF Promise!Next, Promise!Answer, Promise!Drop, Promise!Settle, Names
<1> QED BY <1>1, <1>2, <1>3

\* A step that asks or answers nothing, and leaves the runners as they are.
LEMMA NoneMoves ==
  ASSUME \A r \in Names : Stand(r)' = Stand(r),
         stop \in {"loop", "down"} <=> stop' \in {"loop", "down"}
  PROVE  UNCHANGED Promise!vars
BY DEF Promise!vars, Names

LEMMA CommandIsPromised ==
  ASSUME HInv, NEW j \in Jobs,
         \/ Made(j) \/ Unmade(j) \/ Exits(j) \/ TimesOut(j) \/ Killed(j) \/ ReturnsInline(j) \/ Unwinds(j)
         \/ Returns \/ ShellDispatched \/ ShellInline
  PROVE  [Promise!Next]_(Promise!vars)
<1> USE DEF HInv, IInv, TypeOK
<1>1. stop' = stop
  BY DEF Made, Unmade, Exits, TimesOut, Killed, ReturnsInline, Leave, Unwinds, Returns, ShellDispatched, ShellInline
<1>2. CASE UNCHANGED <<asked, inbox>>
  BY <1>1, <1>2, SameStands, NoneMoves
<1>3. CASE Unwinds(j) /\ j = "dispatched"
  <2>1. /\ "dispatched" \in asked /\ inbox["dispatched"] = None /\ asked' = asked
        /\ inbox' = [inbox EXCEPT !["dispatched"] = "lost"] /\ stop \notin {"loop", "down"}
    BY <1>3 DEF Unwinds, Leave, Answers, Stopped
  <2> QED BY <1>1, <2>1, OneMoves DEF Stand, Names
<1>4. CASE Returns
  <2>1. /\ "dispatched" \in asked /\ inbox["dispatched"] = None /\ asked' = asked
        /\ \E s \in {"ok", "timeout", "lost"} : inbox' = [inbox EXCEPT !["dispatched"] = s]
        /\ stop \notin {"loop", "down"}
    BY <1>4 DEF Returns, Leave, Put, Finished, Communicated, Answers, Stopped, Jobs, Mine
  <2> QED BY <1>1, <2>1, OneMoves DEF Stand, Names
<1>5. CASE ShellDispatched
  <2>1. /\ "dispatched" \notin asked /\ inbox["dispatched"] = None /\ inbox' = inbox
        /\ asked' = asked \union {"dispatched"} /\ stop \notin {"loop", "down"}
    BY <1>5 DEF ShellDispatched, Answers
  <2> QED BY <1>1, <2>1, OneMoves DEF Stand, Names
<1>6. \/ UNCHANGED <<asked, inbox>> \/ (Unwinds(j) /\ j = "dispatched")
      \/ Returns \/ ShellDispatched
  BY DEF Made, Unmade, Exits, TimesOut, Killed, ReturnsInline, Leave, Unwinds, ShellInline
<1> QED BY <1>2, <1>3, <1>4, <1>5, <1>6

LEMMA FlowIsPromised ==
  ASSUME HInv, IInv', Answers', Spawn \/ Gathered \/ Synthesised \/ FlowUnwinds
  PROVE  [Promise!Next]_(Promise!vars)
<1> USE DEF HInv, IInv
<1>1. stop' = stop /\ stop \notin {"loop", "down"}
  BY DEF Spawn, Gathered, Synthesised, FlowUnwinds, Stopped, Active
<1>2. /\ inbox'["dispatched"] = inbox["dispatched"]
      /\ "dispatched" \in asked' <=> "dispatched" \in asked
  BY DEF Spawn, Gathered, Synthesised, FlowUnwinds, Emit, Put, TypeOK
<1>3. Stand("dispatched")' = Stand("dispatched")
  BY <1>2 DEF Stand
<1>4. CASE Spawn
  <2>1. Stand("workflow") = "unasked" /\ Stand("workflow")' = "out"
    BY <1>4 DEF Spawn, Answers, Stand
  <2> QED BY <1>1, <1>3, <2>1, OneMoves DEF Names
<1>5. CASE ~Spawn
  <2>1. flow \in {"fanout", "synthesis"} /\ asked' = asked
    BY <1>5 DEF Gathered, Synthesised, FlowUnwinds, Active
  <2>2. "workflow" \in asked /\ inbox["workflow"] = None
    BY <2>1 DEF Answers
  <2>3. Stand("workflow") = "out" /\ Stand("workflow")' \in {"out", "answered", "dropped"}
    BY <2>1, <2>2 DEF Stand
  <2> QED BY <1>1, <1>3, <2>3, OneMoves DEF Names
<1> QED BY <1>4, <1>5

LEMMA StopIsPromised ==
  ASSUME HInv, FlowTimesOut \/ StopWorkflows \/ StopShells \/ StopLoop \/ Down \/ UNCHANGED vars
  PROVE  [Promise!Next]_(Promise!vars)
<1>1. \A r \in Names : Stand(r)' = Stand(r)
  BY SameStands DEF FlowTimesOut, StopWorkflows, StopShells, StopLoop, Down, vars
<1>2. CASE StopLoop
  <2>1. ~Active /\ \A j \in Jobs : job[j] = "none"
    BY <1>2 DEF StopLoop, HInv, Stopped
  <2>2. \A r \in Names : Stand(r) # "out"
    <3>1. Stand("workflow") # "out"
      BY <2>1 DEF HInv, IInv, TypeOK, Answers, Stand, Active
    <3>2. Stand("dispatched") # "out"
      BY <2>1 DEF HInv, Answers, Stand, Jobs, Mine
    <3> QED BY <3>1, <3>2 DEF Names
  <2>3. stop' = "loop"
    BY <1>2 DEF StopLoop
  <2>4. Promise!Close
    BY <1>1, <2>2, <2>3 DEF Promise!Close, Names
  <2> QED BY <2>4 DEF Promise!Next
<1>3. CASE ~StopLoop
  BY <1>1, <1>3, NoneMoves DEF FlowTimesOut, StopWorkflows, StopShells, Down, vars
<1> QED BY <1>2, <1>3

LEMMA StepIsPromised == HInv /\ [Next]_vars => [Promise!Next]_(Promise!vars)
<1> SUFFICES ASSUME HInv, [Next]_vars PROVE [Promise!Next]_(Promise!vars)
  OBVIOUS
<1>1. CASE \/ \E j \in Jobs : Made(j) \/ Unmade(j) \/ Exits(j) \/ TimesOut(j) \/ Killed(j) \/ ReturnsInline(j) \/ Unwinds(j)
           \/ Returns \/ ShellDispatched \/ ShellInline
  <2>1. "inline" \in Jobs
    BY DEF Jobs, Mine
  <2> QED BY <1>1, <2>1, CommandIsPromised
<1>2. CASE \/ \E t \in Tasks : Acquire(t)
           \/ \E a \in Agents : RunsShell(a) \/ Ends(a) \/ AgentTimesOut(a) \/ AgentUnwinds(a)
  <2>1. UNCHANGED <<asked, inbox, stop>>
    BY <1>2 DEF Acquire, RunsShell, Ends, AgentTimesOut, AgentUnwinds
  <2> QED BY <2>1, SameStands, NoneMoves
<1>3. CASE Spawn \/ Gathered \/ Synthesised \/ FlowUnwinds
  BY <1>3, FlowIsPromised, NextHInv DEF HInv
<1>4. CASE \/ FlowTimesOut \/ StopWorkflows \/ StopShells \/ StopLoop \/ Down
           \/ UNCHANGED vars
  BY <1>4, StopIsPromised
<1> QED BY <1>1, <1>2, <1>3, <1>4 DEF Next

\* Workflow and Shell keep the safety of Dispatch's promise: one answer at
\* most, none after the runners have stopped, and they stop with nothing out.
THEOREM OneAnswer == Spec => Promise!Safety
<1>1. Init => Promise!Init
  BY DEF Init, Promise!Init, Stand
<1> QED BY <1>1, Telling, StepIsPromised, PTL DEF Spec, Promise!Safety

=============================================================================
