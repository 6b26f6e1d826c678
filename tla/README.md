# DollOS in TLA+

DollOS is a daemon around a language model: one long-lived "mind" that is told
what happens (perceptions), answers in turns, uses tools, speaks to clients over
IPC, and writes its own memory. Its logic is asyncio Python in
`src/src/dollos/`. This directory holds TLA+ models of the parts whose
correctness depends on order, failure and restarts, the TLC configurations that
check them, and TLAPS proofs.

    tlc  -config <run>.cfg <Module>     # runs are listed in PROJECT.json
    tlapm PerceptionLogProofs.tla       # and the other *Proofs modules

## The system and its parts

| part (source) | state | what happens to it | what makes it correct |
|---|---|---|---|
| perception queue and log (`mind/perception_queue.py`, `wal/perception_log.py`) | asyncio queue, `perceptions.jsonl`, next sequence number | put, drain, truncate, replay | nothing accepted is forgotten; nothing is served twice in one process; order per channel |
| mind loop (`mind/mind_loop.py`, `mind_ctx.py`, `context_builder.py`) | pages (threads) per place, taint, safe mode, diary date, MindState | a turn per bucket, saved at its end | foreign text narrows what a turn may do; safe mode holds; a missed diary is noticed |
| turn runner and executor (`harness/runner.py`, `executor.py`) | thread, counters, interrupt flag | streaming, tool rounds, limits | the thread stays well formed; a turn ends, and for the right reason |
| permissions and policies (`harness/permissions.py`, `turn_policy.py`, `registry.py`) | none (tables) | who is offered and may run what | owner's tools need the owner |
| routing (`sink_resolver.py`, `ipc/*`, `kernel.py` handlers) | sinks, channels, connections | connect, register, disconnect | words reach the channel they answer |
| attention and batching (`attention.py`, `ipc/batch_accumulator.py`) | sessions, batches, timers | admit, note_reply, flush | bystanders are not answered; the reply cap holds; nothing waits at shutdown |
| service supervisor (`service_supervisor.py`) | one child per service | spawn, back-off, stop | one child; stopped means gone |
| self evolution (`mind/evolution*.py`, `self_history.py`, `current_self.py`) | slot, history, file, high-water mark | keeper, skeptic, surfacing, decisions, expiry, tripwire | she adopts only what was reviewed and shown to her; file and log agree over crashes; evidence is given back; no proposal stays for ever |
| workflows, agents, shell (`workflow.py`, `agent_engine.py`, `shell_runner.py`) | tasks under a semaphore, process groups | fan out, verify, synthesise, time out, stop | nothing outlives its caller; the status is earned; each request is answered once |
| consolidation, profile keeper (`mind/consolidation.py`, `profile_keeper.py`, `self_profile.py`, `memory_writer.py`) | day last done, notes, profile entries by id | poll, run, save, edit; cancelled by the owner | a day is done once, when it is over; the oldest open day gets done; her own section is hers |
| observers, body, schedule (`pulse_observer.py`, `reflection_observer.py`, `agenda_observer.py`, `schedule.py`, `perception/`) | armed rules, throttles, energy, fired entries | sample, tick, poll, put | once per episode, never dropped; a reserve of energy; entries fire once |
| voice (`voice/session.py`, `voice/sink.py`) | queue of sentences, worker, session | enqueue, speak, abort, close | in order, by one worker; nothing is said after its abort |
| Discord bridge (`discord_bridge/`) | seen ids and their file, registrations, gate cache | reconnect, capture, replay, forward | each message at most once, no gap, on a registered channel; it comes back, and from what it does not |
| MCP server and client (`mcp_server/`, `harness/mcp_client.py`) | collectors, connections, a call in flight | talk, collect, time out, reconnect, die | what a caller gets is what happened; no dead server holds a turn |
| text, audio, telemetry, configuration | | | not a matter of order: not modelled |

They meet in few places. Everything that happens becomes a perception and goes
through the queue and its log to the mind loop, which serves one bucket at a
time; a turn reaches the tools through the executor and the outside through the
sink resolver; the kernel owns the connections, the supervisor owns the child
processes. All of it is one event loop, so a step of a model is what runs
between two awaits, or a larger step where nothing else can see the difference
(each module says which).

PROJECT.json lists under `hazards` the places where this can go wrong in a way a
unit test hardly reaches, with the properties that watch them.

## Modules

| module | models | used by |
|---|---|---|
| `PerceptionLog` | the road of a perception: put, log line, drain, buckets, save, truncation, crash, replay | its own run, `PerceptionLogProofs` |
| `Delivery` | what a producer of perceptions may rely on, without queue, log or loop | refined by `PerceptionLog` |
| `PerceptionLogProofs`, `TurnRunnerProofs`, `MindTurnsProofs`, `RoutingProofs`, `SupervisorProofs`, `WorkflowProofs`, `McpProofs`, `NightsProofs` | theorems about the module each is named after; `NightsProofs` has those about `Moments` too, `SupervisorProofs` about `Voice`, `McpProofs` about `Bridge`, `TurnRunnerProofs` about `Evolution`; each of these extends both of its models, so these four call their specification `MomentsSpec`, `VoiceSpec`, `BridgeSpec`, `EvolutionSpec` and so on | |
| `TurnRunner` | `TurnRunner.run` and the executor, for a live turn and for an agent's | `MCTurnRunner` |
| `Cascade` | what the rest of DollOS takes a turn of hers to be: a span that speaks, and that a cancel silences | refined by `TurnRunner` and by `Voice` |
| `ToolBinding` | principals, the tool matrix, turn kinds; no state | `MindTurns` |
| `MindTurns` | turns one after another: pages, taint, safe mode, diary, notes that return as memory | `MCMindTurns` |
| `Routing` | connections, sinks, channels, attention, batches, a turn's words, shutdown order | `MCRouting` |
| `Supervisor` | one supervised service under a daemon that may be killed | its own run |
| `Evolution` | the proposal slot, the history, the file, and who writes them | `MCEvolution` |
| `Dispatch` | what Doll may rely on when she sends work to the background | refined by `Workflow` |
| `Workflow` | `WorkflowRunner`, `ShellRunner`, and the order in which the kernel stops them | `MCWorkflow` |
| `Bridge` | the Discord bridge process, Discord and its socket to the daemon | its own run |
| `Voice` | the road of a sentence to the speaker, and the aborts on it | its own run |
| `Mcp` | the connector other agents use, the turn they get, and a tool server of Doll's | its own run |
| `Nights` | the consolidation trigger and the profile keeper beside her turns | its own run |
| `Moments` | the pulse, reflection and agenda observers and the schedule runner | its own run |

The models meet at named joints, each exact on one side and free on the other.
`PerceptionLog` takes a turn as one step that is saved, not saved, or raises;
`MindTurns` says what such a turn does and takes any part of what is pending as
its batch (more than `drain_grouped` allows, so what holds there holds here);
`TurnRunner` says when a turn stops, and `MindTurns` lets it make any calls;
`Routing` follows where the words of a turn go and lets it speak at any time;
`Bridge` is the other side of one of its connections. `Voice` takes over where a
turn's sentence leaves the sink; both sides of this joint refine `Cascade`, so a
turn of `Voice`, with its sentences and its preemption, is what a run of
`TurnRunner` looks like from outside.
`Moments` and `Nights` produce arrivals of `PerceptionLog` and see its turns as
spans; `Workflow` sees a turn of an agent (`TurnRunner` with an agent's policy)
as a span.

### PerceptionLog

`log`, `torn`, `disk` are what a crash leaves; `queue`, `batch`, `done`, `mem`,
`loop` are the process. `Put` is `PerceptionQueue.put`: the append and the
enqueue are one step since `put` is synchronous. `PutFails(partial)` is the
append that raises, with part of its line written or not: then `torn` holds and
the next line is glued to it. The log holds the lines a reader can parse;
`truncate_through` drops those it cannot. `Drain`, `TurnSaved`,
`TurnSaveFails`, `TurnRaises`, `Commit`, `CommitFails` are `MindLoop.run` and
`iterate`. `DrainStops` is the shutdown that wins against a `get()` which has
already taken its item. `Boot` is `load_state` and `_replay_wal`. A crash is a
crash of the process: what was written is on the disk. Losing power, where
written pages may be lost, is not modelled.

### TurnRunner

One pass: `Send`, stream (`Think`, `Say`, `StreamBreaks`, `StreamEnds`),
`Flush`, the calls (`RunCall`, `SkipCalls`), `EndPass` with `Verdict`. `Cancel`
may come between any two steps. Parallel calls are modelled by their results in
the reply's order, which is the order the code appends and counts them in;
nothing reads a counter before the pass ends, so counting per result is
equivalent to counting per pass. `policy`, chosen at the start from `Policies`,
says whether the turn is a live one or an agent's, and how long it may get.

That a turn ends is said twice: what a pass may still do is a number of steps
(`StepsLeft`), and every step lowers it or uses up one of the passes
(`EveryStepCounts`). No way back to the top of the loop, after a refusal, a
failure or parallel calls, goes by the counter. `IsACascade` maps a run to
`Cascade`: it is `speaking` until it is `over`, and `said` is what was put into
the sink.

### ToolBinding and MindTurns

`ToolBinding` is the tables. `MindTurns` adds the pages with their LRU order,
the taint and its write-back in `_llm_iterate`'s `finally`, safe mode and its
copy in the state file, the diary check, and the directories notes go to. The
ghost `foreign` follows where a stranger's words actually are; the properties
compare the code's `tainted` with it. What she says herself and the transcripts
of it are not followed.

A page also carries what the code believes is on it (`Seen`, `hit_key`, the
signatures of the body's two organs last told: the host's pulse and her
cognition, which has no sample from midnight to the day's first call): `FreshPage` is `render_epoch_start`, `Delta` is
`render_turn_delta`, `PageOf` is `begin_turn`'s choice between them, and `Begin`
adds the hits of the memory search that are not there yet. `PageIsTrue` compares
this with the blocks and facts the turns really put on the page.

`scope`, chosen at the start from `Scopes`, says which places, moments and tools
a history is about, so that one run asks several questions without multiplying
them.

### Routing

A connection's number is its sink. `Connect` registers it as internal, as
`_handle_connect` does with every connection; `Register` adds a channel. A
connector may open a connection while its old one is still open, whose
disconnect then comes late, and may register a channel again and again: `held`
is `_channel_sink_handles`, which remembers the last handle only, and `stray`
records the handles that were overwritten there. `sinks`
is by handle, which the code never uses again: `None` where one is unregistered.
A message comes in while some connection has registered its channel (`Heard`):
the kernel does not check that, `Bridge` shows it (`SinkBeforeEvent`). A turn
resolves its sink at `Begin` and again at `EndTurn`, as the code does. Attention
windows end, and batch timers fire, at any time: this covers every setting of
them. Messages replayed at start are not followed here.

### Supervisor

`task` is the supervise coroutine, `stop` the progress of `stop()`, `child` what
the operating system knows of each process number, `making` a process that is
forked but not yet in `st.proc`. `DaemonKilled` sends SIGINT to the child
through the parent-death signal; a new daemon may boot while it is still there.
`_SpawnAborted` and the late second kill at the end of `_stop_one` are not
actions: the flag they test is raised in the step that cancels the coroutine,
so no execution reaches them. The moment between `fork` and `prctl` is left out
(the code's `getppid` check covers it).

### Evolution

`hist` is what the readers of `self_history.jsonl` find in it, `file` is
`current_self.md`, `slot` is `pending.json`, `saved` and `hwm` are
`evolution_hwm` on disk and in memory. An operation of the code is synchronous
between two awaits, but it writes several files: so an action of the model (the
tripwire in `BeginTurn`, `surface_or_expire` in `Render`, `SelfRevision` in
`Reject`, `Adopt` and `Counter`, the ends of the skeptic's and the keeper's
passes) only puts its list of writes into `todo`, and `WriteLog`, `WriteSlot`,
`ClearSlot`, `WriteFile`, `MoveHwm`, `WriteState` and `SetFlag` make them one by
one. `Crash` may come, and `WriteFails` may give the rest of the list up, between
any two of them, and no other operation may. The passes have a start, which
reads, and an end, which writes: turns, tool calls and `CancelPass` lie between.
`passed`, `edited`, `hurt`, `glued`, `decided` and `owed` only record what
happened, for the properties. An adopted text's file that cannot be written is
one step, the failed retry included.

`MovesOn` says what may become of a pending proposal short of being resolved: her
rewrite with the old text as its fallback, a verdict, one more surfacing, one more
failed verdict. A pass or a turn that had read the slot before an await could
undo one of these; `ProposalsMoveOn` says that none does.

`Absent` is the empty file, and no slot, text or mark elsewhere. `Fit` are the
texts that pass the mechanical checks; in the run they are all, and the empty file
takes the road of one that fails.

### Workflow and Dispatch

One workflow of `Tasks` (`_run_capped`, `_run_one_task`, the gather, the
synthesis) and Doll's own commands. `agent` is the stage of each agent, `job`
and `group` are a command's `_execute` and the processes behind it, the leader
and at most one child in its group: `piped` holds the output, `quiet` does not,
and either may live on when the leader has gone (`Exits`). `Communicated` is the
return of `communicate`, which looks at the output and the leader alone; `Leave`
is where nobody waits any more, and what is alive then is not followed further.
`Made` is the return of `create_subprocess_shell`; a cancel before it (`Unmade`)
has no process to kill the group of. Cancelling is not
one step in asyncio: `cut` names who has been cancelled and has not unwound, a
task's command hears of it before the task (`Killed`, `Unwinds`,
`AgentUnwinds`), and `FlowUnwinds` may put the result out while others unwind,
since `gather` ends with the first of its tasks that is cancelled.
`StopWorkflows`, `StopShells`, `StopLoop`, `Down` are `Kernel.run`'s shutdown.
A result that cannot be stored or queued is `lost`; faults are bounded.

`Dispatch` is the promise Doll is made when a tool answers "dispatched": one
answer at most, none after the runners are closed, and always one unless it was
dropped. `KeepsItsWord` is `Dispatch`'s specification, its fairness included,
under the mapping `Stand`.

### Bridge

`Post` is Discord. `due` and `awaiting` are the handlers py-cord starts, which
nothing cancels: a handler is one step up to its first await (`Begin`, which
logs the message), then waits at the member gate or in the registration; one that
finds its message logged returns and leaves whoever logged it where he is. A
handler of a connection that has ended is "stale". `Connect`, `Ready`, `Fetch`,
`Fill`, `Filled`, `Serve`, `Closed`, `Teardown` are `_connect_and_run`;
`reconnect_backfill` replays history newest first through the same capture. The
file of `AmbientLog` survives a `Crash`, which may leave half a line; `Relaunch`
reads the ids back.

### Voice

`Emit` is `put_nowait` of the sink: a task of its own per sentence (`tasks`),
which `Enqueue` runs. `Takes` and `Speaks` are the worker's loop. `Preempts`,
`Aborted` are `_maybe_preempt_for_new_input` and `abort_speak` in the handler of
the connection, which is busy while it waits; `Close`, `Stopped`, `StopTimesOut`,
`Closed` are the session's end. Between the end of a cancelled worker and the
abort's next step another task may run: a worker started then is the one the
abort forgets (`crossed`), and the properties name this case. The turns that
speak here are those of `Cascade` (`SpeaksInCascades`); the search before a
cascade counts as idle, as it does for the code's preemption.

### Mcp

`Sends`, `Returns`, `Expires` are `talk` and the queries with their collectors;
`upward` and `downward` are the frames of the one WebSocket, lost with it.
`Handle` and `Disconnected` are the daemon's side, which learns of a lost
connection at another time than the connector. `TurnBegins`, `Says`, `TurnEnds`,
`TurnIsCut` are the turn a call gets; in it Doll may call a tool of an MCP
server, whose process may die before, during or after it (`ServerDies`,
`CallMisses`: the wait on `_gone` beside the call).

### Nights

`Poll` is `ConsolidationTrigger.run`'s look at the clock, `Reports`, `Indexed`,
`CycleOn`, `KeeperEdits`, `CycleEnds` the stages of `_cycle` with an await
between them, `CancelCurrent` what an owner's message does to it, `Unwinds` the
cancelled task. `Poll` is a round that begins nothing, which the system pulse may
make of any (somebody is at the computer), `Begins` one that does. A transcript
is its speakers; the agent is given the last `TailLines` of it (`GivenOf`), and a
day may consist of her own lines (`me`) or of action-log lines alone (`acted`):
such a day has a file too, and may fail for ever (`Fails`). Notes are identified
with what their writer was given.

`PinAdd`, `PinEdit`, `KeeperEdits` edit `self_profile.md`. A target may resolve to
any entry: the id, the words and the overlap that `_find` tries are left open.
`Write` is serializing and `Reread` the parsing of the next read: a text of one
line is one entry, and one of several may also be an entry more, after
a heading that puts it, and all of the section that follows, somewhere else.
`page` is what a turn has been shown of her own section.

### Moments

`Sample`, `PulseTick` and `AlertState` are `SystemPulse` and `PulseObserver`
with `evaluate_alerts`; `ReflectionFires` and `AgendaFires` the two others, with
the energy `TurnReturns` takes and `Rests` gives back; `SchedulePolls`,
`WriteSchedule`, `NewDay` the schedule runner. `ok` (or `failed`) says whether
the put worked. `PulseTick(FALSE)` has committed its state by then, and the two
other observers end with a put that raises: the code has no handler there.

## Runs

PROJECT.json says in a sentence what each run shows. Bounds, and why they are
enough:

* `PerceptionLog`: two channels (one bucket may wait behind another), three
  arrivals (one served, one in the same drain, one queued behind it), two
  crashes, two faults (one to leave something behind, one to happen upon it).
* `TurnRunner`: two tools beside `Report`, replies of up to two calls. A turn of
  two passes and two sentences, so that one may be said and one not when the
  interrupt comes; a live and an agent's turn of three passes, since a streak of
  three failures needs three results over at least two passes.
* `MindTurns`: room for one channel page and two channels, so pages are
  dropped. Seven scopes: `Taints` and `OneOffs` (what is read, noted and
  remembered over places, with and without one-off diary turns), `Guards` (safe
  mode and owner tools over a restart), `Diaries` (two days), `Contents` (two
  facts of which a turn is given one, and a block that changes), `Bodies` and
  `Abroad` (a body that shifts and shifts back over midnight, beside one-off
  diaries and beside channel turns). The tools are the ones a question is about,
  with their real matrix rows.
* `Routing`: one bridge with one channel, three connections (a client, the
  bridge, the bridge again before or after its old connection is noticed to be
  gone), five handles (one of each connection and two registers, on one
  connection or on two), two authors, a cap of two replies.
* `Supervisor`: three process numbers (child, orphan, and one more), a cap of
  two restarts (the code's is five) and two deaths of the daemon.
* `Evolution`: two texts (what is in force and what is proposed, each in either
  role), one surfacing before a proposal may expire, two rewrites (the code's
  cap: a rewrite of a rewrite falls back to a rewrite), two errors of the
  skeptic (the code's bound is three; the first is not the last), one event of
  evidence, one fault. With one fault a failure meets every state of fault-free
  running; what faults that meet do to its safety is proved.
* `Workflow`: two tasks and one permit, so that one waits behind the other's
  verification; two commands at a time, of Doll's or of agents; one lost result.
* `Bridge`: three messages and a history limit of two, so that the history may
  be shorter than the gap; one crash and one failure of a connection, which may
  fall into each other.
* `Voice`: four sentences and four workers (two turns of two sentences with an
  abort between, and a worker started behind an abort's back), two messages of
  the client (an interrupt and the end of an utterance, or two interrupts).
* `Mcp`: two calls and a query over two connections (a call may outlive its
  connection beside one of the new), one sentence per turn.
* `Nights`: three days (two in the backlog of the third), two lines of a
  transcript given to the agent, a profile of three entries. Of the owner's
  messages, turns of her own, edits, failures and crashes there are three in
  all, in any mixture: two edits within a turn, a cancel and a crash beside a
  failure, a day with more lines than are given.
* `Moments`: every age is cut off above what a comparison asks for. Two changes
  of the vitals (bad, and good again), one late poll, one fault, one restart;
  the day has four half minutes and a window of two.

Fairness is asked only of what the code must do: that the event loop runs a
ready coroutine (`LoopProgress` in `PerceptionLog`, the steps named in each
`FairSpec`), that timers and time limits run out, that an orphan ends on its
SIGINT. In particular:

* `Evolution`: the process moves (a turn's model and tool calls have time-outs
  and observers keep starting turns), again and again a turn is a reflection
  late enough for a proposal to expire (the pulse and the clock), the trigger's
  poll finds the slot some time when it could run, and a pass which may end does
  so unless it is cancelled again and again. The last three are strong, since
  the user's words cancel a pass, and keep it from running, while he speaks.
* `Workflow`: the workflow's own time limit is not fair; agents' and commands'
  limits are. So an answer comes before the last resort.
* `Bridge`: the reconnect loop and the handlers go on; neither connection is
  promised to stay, but failures are bounded.
* `Mcp`: neither `talk`'s time-out nor the tool's is fair. A server that was
  asked answers or dies.
* `Nights`: agents and clocks go on, and a process that died is
  started again; nobody has to speak. That the pulse does not hold back every
  round is a premise of `OldestDayGetsDone`, not an assumption of the model.
* `Moments`: the loops wake up and time goes on.

Nobody has to speak, to stop the daemon or to start it (but for the restarts
named above), no child has to obey SIGINT, and she need not decide anything.

Where the system really is at its end, an action says so (`TurnRunner`'s `Over`,
`Routing`'s `Stopped`) and deadlock is checked; `Workflow`, `Bridge`, `Voice`,
`Mcp`, `Nights` and `Moments` may stop (after the shutdown, a refused token, the
closed connection, the last call, and where a bound is used up), and their cfgs
do not check it. What must not stop there is stated as liveness.

## Where code and words differ

No run expects a violation: every property states what the code does keep, and
names the exceptions. What the modules showed to differ from a comment, a
docstring or a design is kept here.

Perceptions, turns and routing:

* A raising turn's drain promises to be replayed (`mind_loop.py:390-393`), but
  the next successful drain's truncation (`:394`) takes its lines along. And a
  perception appended after a torn line is queued but not readable in the log
  (`perception_log.py:68` against `perception_queue.py:20-21`).
  `NothingForgotten` says that these two are the only ways to lose one.
* A diary turn that raises leaves no diary, no marker and no retry
  (`mind_loop.py:1029` against `250-251`); a `WriteDiary` call that fails counts
  as a written diary (`:1709`).
* A bridge that connects last gets the output that has no origin
  (`kernel.py:1016` against `sink_resolver.py:23-25`).
* The sink is resolved again at the end of a turn (`mind_loop.py:902`): a client
  that connects in the middle of it gets the end, and the one that got the words
  waits for it.
* The comment on repeat streaks (`mind_loop.py:1051-1055`) does not hold for a
  new streak that reaches exactly the old count: it is not told of.

Self evolution, and others of the first modules:

* Torn lines in `self_history.jsonl`: an `evo_adopt` that
  is glued to one is flushed and not readable, so the log does not hold the text
  in force although `tools.py:1412-1413` relies on it; the next turn's tripwire
  takes the written file for an external edit. `HistoryTellsAll` names
  the case (`glued`).
* The repair of a slot that holds the text in force (`evolution.py:315-323`,
  reached after a crash, and without one when the keeper proposes that text)
  clears the slot without restoring the file, so an edit that was only logged
  meanwhile is turned into a proposal by the next tripwire, though the tripwire's
  docstring says that external edits are not auto-promoted. `HistoryTellsAll`
  names the case.
* `latest_external_edit_text` takes an `evo_kill` of a counter, or of a keeper's
  superseded candidate, for the end of an unrelated logged edit, and the
  unchanged file is logged as an edit a second time.
* A `SelfRevision` call that fails after it cleared or replaced the slot does not
  set the latch, and a later call of the same turn may decide on a proposal she
  has not been shown (`AdoptsWhatSheSaw` names the case).
* An expiry whose `restore_file` raises, or that dies before the state is saved,
  loses the evidence, though `evolution_trigger.py:260-261` promises it back on
  every path (`HistoryTellsAll` names the case).
* The day of the last diary retry is in memory only (`mind_loop.py:257-261`,
  `1041`): after a restart a day's missed diary is asked for a second time.
* `_register_external_sink` "tracks the handle so disconnect can unregister"
  (`kernel.py:892-895`): of two registers of a channel on one connection only the
  second is tracked, and the first's sink outlives the connection. The bridge can
  send two (see below). `NothingOutlivesItsConnection` names these sinks
  (`stray`): a channel in the registry is always answered on another.
* "the connection's sink must be addressable by this channel_id"
  (`kernel.py:769-771`): when an older connection of the connector is noticed to
  be gone only after the new one has registered, its disconnect takes the channel
  out of the registry and forgets its session (`:1040-1045`).
  `SteadyReplyArrives` does not count a turn in which that happens as steady.
* `CognitionWorker.current_block` counts its block as sent (`cognition.py:264-268`),
  and gives none where today has no records: a page begun after midnight, before
  the day's first call, has no [Cognition] block, and the first sample with
  yesterday's signature is not sent. `BodyIsNotLost` names the case.
* When a bridge registers its channel again during a turn, words addressed to
  the channel go into the stream that the turn resolved at its start
  (`mind_loop.py:1369`, `mind_ctx.py:110-116`).
* `status()` goes on saying "running" of a service that left with 0
  (`service_supervisor.py:136`).
* Between the boot of a new daemon and the end of the killed one's child there
  are two bridges, although the bridge-internalization design
  (`2026-07-06-bridge-internalization-design.md:589-590`) speaks of one.

Workflows and commands:

* `store.write` in `_emit` is not guarded (`workflow.py:203`): a full disk loses
  the result of a workflow, and Doll is told nothing (`Dispatch`'s "dropped").
* The comment at `workflow.py:261` has a verification folded into the status;
  `_rollup_status` does not look at verdicts.
* `stop()` of the shell runner cancels a command Doll is waiting for, and the
  `CancelledError` ends the mind loop's task (`shell_runner.py:145`).
* `Shell` and `SpawnWorkflow` say "dispatched" also while their runner stops.
* "A cancel kills the process group" (`shell_runner.py:155-156`): a cancel while
  `create_subprocess_shell` has not returned finds no process to kill the group
  of; asyncio kills the leader it has, and a child of it stays. And a command
  that ends by itself leaves what it put in the background with its output
  elsewhere. `NothingOutlivesItsCaller` names both (`orphan`, `quiet`). What
  leaves the group with `setsid` is not followed.

The Discord bridge:

* "always backfills the gap before serving live traffic again"
  (`__main__.py:149-150`): live messages are forwarded while the replay runs.
* "any dropped connection ... re-enters" (`__main__.py:20-23`): a Discord client
  that dies after READY is noticed by nobody (`:278` waits for the daemon's
  socket alone). In the model it may die so, the bridge is then `deaf`, and
  `ComesBack` promises no more than that it reads the daemon's open socket with
  nothing left half done: a deaf bridge may stay so for ever.
* A message logged while the daemon's socket dies is never forwarded: the replay
  takes it for known (`controller.py:244`, `285`).
* "one register per channel per session" (`controller.py:276`): two handlers may
  both register while the send suspends.
* A line appended to a torn one is not read back, so its message is forwarded a
  second time after a restart (`ambient_log.py:63`); `NoGapNoRepeat` names it.
* Nothing calls `AmbientLog.prune`.

Voice:

* An owner's Discord message cancels the turn but aborts no voice
  (`kernel.py:950`): what is queued is still said.
* A sentence queued between the end of an aborted worker and the next step of
  `abort_speak` (`session.py:196`) starts a worker that is then forgotten: two
  may speak, against `sink.py:8-11`; `OneVoiceOnALine` names it.
* "a task racing session.close() cannot spawn a new speak-worker"
  (`sink.py:46`): the check is made before the task runs; likewise named.
* The 2 s of `abort_speak` are no cap: `wait_for` waits for the cancelled task.

The MCP link:

* "no_response: read, chose silence" (`daemon_link.py:110`) is also the answer
  when her turn was preempted or raised before she said a word.
* A call's time-out (60 s) is shorter than that of a tool her turn may call
  (120 s). Channels of finished calls stay registered while the connection lasts.

Nights and moments:

* "CancelledError ... no write" (`consolidation.py:52`): cancelled while it
  indexes, the notes are written. They are written again by the next attempt.
* The keeper of a day is not started again after a cancel or a crash, and a
  backlog shrinks by at most one day for each turn of the owner's.
* The agent is given the last 40 000 characters of a day's conversation
  (`consolidation.py:61`), and the watermark passes the day for good: of a longer
  one the earlier part is in no notes. `PassedDaysAreNoted` says what is.
* A day of which the agent makes nothing, such as one of action-log lines alone,
  fails each time (`consolidation.py:80-82`), stays the oldest, and no later day
  is ever tried (`:219-232`). `OldestDayGetsDone` has to ask for a line of the
  owner's, and for a pulse that does not veto every round (`:213-216`).
* "The self section is only revised during reflection" (`tools.py:1129`), and the
  keeper's edits are of the owner's sections (`tools.py:1192-1196`): the texts may
  have several lines, which are written as they come (`self_profile.py:79`) and
  read back line by line (`:55-67`), so a heading in them puts entries into her
  own section, and one with no known title makes those after it vanish. An entry
  replaced by an empty text is removed. `SelfIsForReflection` names the texts of
  several lines (`mangled`) as the only exception.
* A freed id "causes no confusion" (`self_profile.py:85-87`): with two editors,
  an edit in the owner's sections may hit another entry than the one shown.
  `SelfIsForReflection` says that her own section is safe from that.
* "delayed, never dropped" (`pulse_observer.py:71`) holds of the throttle; an
  alert whose `put` raises is dropped, since the state was taken over before.
  One failed reading counts as a recovery and arms the rule again.
* A `put` that raises ends the reflection and the agenda observer for the rest
  of the process; the schedule runner marks the entry as fired before its `put`
  (`kernel.py:1140`).
* Entries of the last minute of a day may be missed; after a restart within its
  minute an entry comes again.

Seen in code that is not modelled: a cancelled `index_file` gives the lock back
while its thread still uses the database (`fts_store.py:164-166`); `flush` of
the batch accumulator takes the batch out before it is enqueued
(`batch_accumulator.py:45`); `release()` of the pid file removes it whoever
wrote it; messages replayed at start are answered before the bridge is back
(`kernel.py:1175`).

## Proved

Each module of proofs has an inductive invariant, `IInv` or a layer upon it,
which TLC checked on the run's instance or a smaller one before it was proved;
its parts are named, and the lemma of an action says which parts the action
disturbs. The assumptions are the named ones of the model: names that are
different, bounds that are numbers, and what is said below.

**PerceptionLog**, for every set of channels and every bound: `TypeCorrect`,
`NeverForgotten` (`NothingForgotten`), `UnservedStaysLogged` (a truncation never
reaches what is queued or in a later bucket), `NeverServedTwice` (`ServedOnce`),
`ChannelsInOrder` (`ChannelOrder`), `PromiseKept` (`KeepsThePromise`: every step
is one of `Delivery` or a stutter).
`NothingForgotten` is not inductive: that a truncation forgets nothing depends
on every line it removes being of the drained batch or older, on all of the
batch having been served by then, and on what was served having been saved.
`IInv` adds these: the sequence numbers of log, batch and queue increase in
that order (`Order`), the batch is empty outside a drain (`Shape`), every line
is unserved, finished or stranded (`Accounted`), and at the truncation what is
finished is saved (`SavedAtCommit`, `SavedIsKnown`). The layer upon it,
`InOrder`, is about one process: a number names one entry (`Numbered`), what ran
is of the finished part of the batch or older than all of batch and queue
(`RanBefore`), a turn takes all its channel has in the batch (`WholeBuckets`),
what the state knows beyond the disk was served by this process (`Known`), and where
nothing failed a line whose turn is saved is of the current drain (`Tidy`).

**Supervisor**, for every set of process numbers, every cap and any number of
killed daemons: `TypeCorrect`, `StoppedIsGone` (`StoppedMeansGone`),
`NeverTwoChildren` (`OneChild`). Neither safety property is inductive: a step of
the coroutine is safe because of where it is and what it holds. `IInv` says that
(`Held`): a process of this daemon that nobody has waited for is the one being
forked, exactly while the coroutine is forking, or the one in `st.proc` while it
is waiting; the two are never the same, and neither is an orphan of an earlier
daemon. `Ending` adds where `stop()` can find the coroutine, `BelowTheCap` that
it goes on only below the cap.

**Workflow**, for any number of tasks, permits and lost results: `NothingIsLeft`
(`NothingOutlivesItsCaller`), `ToldTheTruth` (`ResultIsHonest`), and `OneAnswer`,
the safety of `Dispatch` under the mapping `Stand`: the initial state maps to
its initial state and every step to a step of it or a stutter.
That every permit is free or held by an agent at work is part of `TypeOK`, and
inductive once the agents' stages are known. What may be left behind is not:
`IInv` adds which processes a command can have at each stage of its `_execute`,
none before it has its process and none but an orphan after a kill (`Reaped`), that
in a workflow into which something was thrown everybody alive has been cancelled
(`Thrown`), that a limit strikes only who is at work (`Limited`), and who can be
alive at each stage (`Stages`). `Telling` adds that a request is out until
something is in the inbox for it (`Answers`), what the shutdown has waited for
(`Stopped`), and that who is through with a task has a report (`Reported`).
Assumed: finitely many tasks, at least one, a permit and a command.

**TurnRunner**, for any tools, policies and lengths: `ThreadIsTrue`
(`ThreadTellsTheTurn`), `InterruptStops` (`NothingStartsAfterCancel`),
`EndsRightly` (`EndingIsRight`). The first needs to know the thread's shape at
every point of a pass: the results in hand answer the first calls of the reply
(`Shaped`), so that what an interrupt adds fits; between passes the thread holds
what was said, and within one what it lacks is of this pass's reply (`Heard`).
The second layer, `Ending`, relates the counters to the results in the thread,
over every order in which calls are run and skipped: they are the lengths of the
streaks at its end (`Counted`), a turn that goes on has no streak that would end
it (`GoesOn`), a report is made in a pass with calls and that pass is the last
(`Reporting`), and the rule that ended the turn was the counters' (`Warranted`).
`InterruptStops` and the next two make up `OneRunOneTurn` (`RunIsOneTurn`).
`EveryTurnIsBounded` (`EveryStepCounts`) is the safety half of "a turn ends",
which needs no fairness: a run of `n` passes has a bounded number of steps,
whatever policy, tools, calls and sentences. It rests on `Paced`: a
streaming reply has at most its sentences, numbered as they came, and a live turn
has said them all but for an unterminated last one. `RunIsACascade` (`IsACascade`) maps the
initial states and every step to `Cascade`: what was said only grows, by one
sentence a step and by none in a cancelled turn, and an ended turn stays so.

**MindTurns**, for any places, servers, tools of theirs, pages, switches and
days, over crashes and restarts: `TaintIsCarried` (`TaintGoverns`), `Guard`
(`GuardsHold`), `PageIsRight` (`PageIsTrue`, with its exception after midnight). The taint of a page is right only
if the turn that leaves it carried what it found there: `IInv` says that
a page is tainted exactly where it holds foreign text, and a public one never
(`Pages`), that a turn on a page has at least its taint (`InTurn`), that safe
mode holds from where it was entered and the state file has it (`Remembered`),
and that the order of use names no page twice, so that storing one drops
the one the order says. Assumed: `None` is no page.

**Routing**, for any connectors, channels they serve, connections, registers,
authors and replies: `NothingIsLeft`
(`NothingOutlivesItsConnection`), `ReplyArrives` (`SteadyReplyArrives`),
`BystandersWait` (`NoBystander`), `QuietAfter` (`QuietAfterTheCap`). Registry,
sessions, queues and turn have a part each in `IInv`. No guard keeps connections
or registers apart, so the registry's part is about handles: one that a
connection remembers is that of its sink, and the connection is open and carries
the channel (`HeldServe`); a sink that is not remembered is the internal one of
an open connection or was registered over (`SinksServe`); of a channel in the
registry the newest sink is a remembered one (`Answered`), since a later register
is newer than all and a disconnect of any holder takes the channel out. So a
turn whose channel has stayed registered has a connection that carries it
(`SteadyTurn`); a session counts the replies since the last tag
(`Counted`), and no connection is open once the server has stopped (`Closed`).

**Mcp**, for any calls, connections and sentences: `Honest` (`WhatItReturns`).
Connector, wire and daemon learn of things at different times; `Agreement` says
what they agree on all the same: a call is on its way once and has left no trace
before it arrives (`OneTurn`), frames travel on the connection the call is
registered on and the end of its turn is the last of them (`InOrder`), and what
has arrived and what is on the wire is all that was said, while the call waits
on a connection that lives (`NoneMissing`). `Ends` is the state of the two ends.

**Nights**, for any number of days, failures and crashes, and any profile:
`DoneOnce` (`DaysAreDoneOnce`), `HerOwn` (`SelfIsForReflection`). `Ledger` says
that the saved watermark is the one in memory and below today, nothing is
written of a day to come, and notes are of all that is given of a day that is
over (`Sealed`); that the day at work is the first one over and not done
(`NextInLine`), that what is read and noted is all that is given of it
(`Faithful`), and that the keeper has gone over no other day than one done
(`KeptBelow`). For the profile: as long as every text was read back as it was
written, what is in her own section was shown to the turn (`SelfShown`); that only
a reflection or a text of several lines changes it needs no invariant beyond the
types.

**Moments** (in `NightsProofs`), for any windows, throttles, levels of
energy, entries, faults and restarts: `WakesEarned` (`WakesAreEarned`),
`EntriesCome` (`EntriesFire`). `Earned` says that no rule of the body is armed
while its alert has been told of (`Vitals`), that what waits for a turn counts
with what has begun, so that two agenda turns are all that can be on their way
when the reserve is touched (`Reserve`), and that an entry kept on file and not
yet handled has its time after the last good poll (`OnTime`).

**Voice** (in `SupervisorProofs`), for any number of sentences, workers and
messages of the client: `OneVoiceOnly` (`OneVoiceOnALine`), `AbortIsHeard`
(`AbortSilences`). `Road` follows a sentence: what was said, what is queued and
what is on its way rise in this order (`InLine`), nothing silenced is among the
last two (`Gone`), and the session knows the one worker there is, except after
the two races that `crossed` and `late` name (`Known`). `SpeaksTurnByTurn`
(`SpeaksInCascades`) is the other side of `RunIsACascade`; `HeardInTurns`
(`HeardTurnByTurn`) is both action properties together.

**Bridge** (in `McpProofs`), for any number of messages, replays,
crashes and lost connections: `NeitherGapNorRepeat` (`NoGapNoRepeat`),
`NeverUnheard` (`SinkBeforeEvent`). Whoever awaits has logged his message
(`Tracked`); what was forwarded is on record and nobody awaits to forward it
again, and what the next process will not know was appended to a torn line
(`Once`); what was fetched is on record or still to be replayed (`Replayed`).
The steps of a handler are many and their outcomes few: `Outcome` states them
once, and every handler's step is shown to have one of them.

**Evolution** (in `TurnRunnerProofs`), for any texts, bounds, pins and number of
crashes and failed writes: `HistoryTellsAllAlways` (`HistoryTellsAll`),
`SheAdoptsWhatSheSaw` (`AdoptsWhatSheSaw`), `ProposalsOnlyMoveOn`
(`ProposalsMoveOn`), and the two together `MeetsWhatIsPending`
(`MeetsTheProposal`). An operation is a list of writes and
may stop after any of them, so `IInv` speaks of `Ops`, the set of writes still to
make: the kinds of writes come in one order (`Rising`), hence what is left when
one has been made is known from its kind. The parts say what each rest owes: the
birth line of a text on its way into the slot (`Born`), the file or the slot that
makes up for a difference between file and log (`Follows`), where the marks are
and what the slot still has behind it (`Evidence`, `Committing`), that what is on
its way into force was passed and shown (`Reviewed`, `InSight`). A pass is away
from its start to its end: what it has read stays true meanwhile
(`StillJudges`, `StillKeeps`), since the slot under review and a keeper's mark
are changed by no other operation. With no write to make this comes to
`Resting`, from which each operation starts. `Onward` is a layer upon it: a
write of the slot still to be made fills an empty slot or takes the pending
proposal on. `ProposalsOnlyMoveOn` is the safety half of `SlotIsResolved`: rounds,
verdicts, surfacings and failed verdicts are bounded, so while it is pending a
proposal takes boundedly many forms, and fairness is needed only for the steps to
come. Assumed: the fit texts are texts,
and `Absent` is none of them, no number, slot or pass.

Only model-checked is liveness: what must happen in the end, for each run that
asks, and the fairness in `KeepsItsWord`. Out of the prover's reach are liveness under fairness, `ENABLED`, and induction over data;
no module declares a `RECURSIVE` operator, so every module can be proved about.

## Not modelled

`components` in PROJECT.json gives the reason for each part. Text (wording,
rendering, ranking), audio, telemetry and configuration have no order to check.
Left out of modelled parts:

* messages replayed at start, as the routing sees them (`kernel.py:1175`): it
  needs `PerceptionLog` and `Routing` together, which is too large to check;
* the second offer of a voice client (`kernel.py:1006` replaces the session
  without closing it), and the local voice bridge, whose states are its devices';
* `stop()` of an MCP server, a caller cancelled in a call, and list_changed;
* the diary scheduler and the day's plan at the first connect;
* quarantining an unreadable state file, and `AmbientLog`'s change of day;
* losing power: what was written is taken to be on the disk.

## Plan

Every invariant and action property of the runs has a theorem. What is left is
between the modules: the joint of `TurnRunner` and `Voice` is stated by `Cascade`
and proved from both sides; the others named under Modules are argued in prose, and
two of them could be stated the same way, that what `PerceptionLog` takes for a turn is what
`MindTurns` makes of one, and that an agent's turn in `Workflow` ends as
`TurnRunner` with an agent's policy does.
