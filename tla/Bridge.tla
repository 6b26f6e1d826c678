-------------------------------- MODULE Bridge --------------------------------
(***************************************************************************)
(* The Discord bridge: the reconnect loop of run() and _connect_and_run,   *)
(* BridgeController's capture, gates, registration and forwarding, its     *)
(* replay of history after a reconnect, and AmbientLog, whose file decides *)
(* what has been seen, over crashes of the process.                        *)
(*                                                                         *)
(* Abstractions.  One guild channel, whose history is replayed, and the    *)
(* owner's DM, whose history is not.  Messages are numbered as Discord     *)
(* posts them.  Doll's own messages and a stranger's DM are one kind       *)
(* ("filtered"): logged and never forwarded.  AmbientLog's sets of seen    *)
(* ids are read when the process starts instead of at their first use:     *)
(* only this process writes the file.  All happens within one day's file.  *)
(*                                                                         *)
(* A handler of a message py-cord delivered is a task of its own, which    *)
(* nothing cancels.  One that begins after its connection has ended is     *)
(* "stale": it still logs the message.  One that awaits when it ends can   *)
(* only fail, and is dropped there and then.                               *)
(***************************************************************************)
EXTENDS Naturals, Sequences, FiniteSets

CONSTANTS
    MaxMessages,    \* bound: messages posted
    HistoryLimit,   \* reconnect_backfill's limit
    MaxCrashes,     \* bound: crashes of the process
    MaxFaults,      \* bound: failures of the two connections
    Unset

ASSUME BridgeAssumption ==
    /\ MaxMessages \in Nat /\ HistoryLimit \in Nat \ {0}
    /\ MaxCrashes \in Nat /\ MaxFaults \in Nat
    /\ Unset \notin {"live", "fill", "yes", "no"}

Messages == 1..MaxMessages
Channels == {"guild", "dm"}
Posts    == {"guild", "ownerDm", "filtered"}

VARIABLES
    kind,       \* what was posted, in order
    phase,      \* of the process and its _connect_and_run; "broken": unwinding
    link,       \* the daemon still has its end of the WebSocket
    deaf,       \* the Discord client's task has died
    due,        \* delivered and its handler not begun: "no", "live", "stale"
    awaiting,   \* captured, and its handler awaits: the "gate", "registering"
    whose,      \* which caller awaits it: Unset, "live" or "fill"
    lines,      \* messages with a readable line of their own in the file
    torn,       \* channels whose file ends in a torn line
    seen,       \* AmbientLog's ids in memory
    registered, \* BridgeController._registered
    member,     \* _owner_guild_cache of the guild: Unset, "yes" or "no"
    todo,       \* fetched history still to replay, the newest of it next
    reply,      \* an AddressedText in the socket: "none", "waiting", "limited"
    forwarded,  \* ChannelEvents that reached the daemon, by message
    sinks,      \* channels registered with it over this connection
    fetched,    \* ghost: the history fetched over this connection
    glued,      \* ghost: messages whose line was appended to a torn one
    crashes, faults

file       == <<lines, torn, seen, glued>>
session    == <<registered, member, todo, reply, sinks, fetched>>
budget     == <<crashes, faults>>
bridgeVars == <<kind, phase, link, deaf, due, awaiting, whose, file, session, forwarded, budget>>

Posted    == 1..Len(kind)
Chan(m)   == IF kind[m] = "ownerDm" THEN "dm" ELSE "guild"
Connected == phase \in {"login", "fetching", "filling", "serving"}
Listening == phase \in {"fetching", "filling", "serving"} /\ ~deaf
Fault     == faults < MaxFaults /\ faults' = faults + 1

-----------------------------------------------------------------------------
(* Discord                                                                  *)

\* Delivered to the client that listens; otherwise there is only its history.
Post(k) ==
    /\ Len(kind) < MaxMessages
    /\ kind' = Append(kind, k)
    /\ due' = IF Listening THEN [due EXCEPT ![Len(kind) + 1] = "live"] ELSE due
    /\ UNCHANGED <<phase, link, deaf, awaiting, whose, file, session, forwarded, budget>>

-----------------------------------------------------------------------------
(* The end of a connection                                                  *)

Abandon ==
    /\ awaiting' = [m \in Messages |-> "none"]
    /\ whose' = [m \in Messages |-> Unset]

\* Mutant: the registrations outlive the connection they were made over.
ForgetSessionButSinks ==
    /\ UNCHANGED registered
    /\ member' = Unset /\ todo' = {} /\ reply' = "none" /\ sinks' = {} /\ fetched' = {}

\* A fresh BridgeController is built for every connection.
ForgetSession ==
    /\ registered' = {} /\ member' = Unset /\ todo' = {}
    /\ reply' = "none" /\ sinks' = {} /\ fetched' = {}

\* Mutant: forget who awaits, and leave their messages at the gate.
TeardownLeavingStages ==
    /\ phase = "broken" /\ phase' = "down" /\ link' = FALSE /\ deaf' = FALSE
    /\ due' = [m \in Messages |-> IF due[m] = "live" THEN "stale" ELSE due[m]]
    /\ whose' = [m \in Messages |-> Unset]
    /\ ForgetSession
    /\ UNCHANGED <<kind, awaiting, file, forwarded, budget>>

\* The finally clause has waited for the Discord client; its handlers stay.
Teardown ==
    /\ phase = "broken" /\ phase' = "down" /\ link' = FALSE /\ deaf' = FALSE
    /\ due' = [m \in Messages |-> IF due[m] = "live" THEN "stale" ELSE due[m]]
    /\ Abandon /\ ForgetSession
    /\ UNCHANGED <<kind, file, forwarded, budget>>

-----------------------------------------------------------------------------
(* AmbientLog.append, and _capture_and_forward                              *)

\* A line appended to a torn one cannot be read again.
Logged(m) ==
    /\ seen' = seen \union {m}
    /\ torn' = torn \ {Chan(m)}
    /\ IF Chan(m) \in torn THEN glued' = glued \union {m} /\ UNCHANGED lines
                           ELSE lines' = lines \union {m} /\ UNCHANGED glued

\* A handler has begun, or the replay goes on to its next message.
Done(m, who) ==
    /\ todo' = IF who = "fill" THEN todo \ {m} ELSE todo
    /\ due' = IF who = "fill" THEN due ELSE [due EXCEPT ![m] = "no"]

\* The caller of m awaits at s; at "none" it has returned.
Await(m, who, s) ==
    /\ awaiting' = [awaiting EXCEPT ![m] = s]
    /\ whose' = [whose EXCEPT ![m] = IF s = "none" THEN Unset ELSE who]
    /\ IF who = "fill" /\ s # "none" THEN UNCHANGED <<todo, due>> ELSE Done(m, who)
    /\ UNCHANGED <<phase, link, deaf>>

Return(m, who) == Await(m, who, "none") /\ UNCHANGED <<registered, sinks, forwarded>>

\* daemon_send over a closed socket: a handler dies of it, and a replay takes
\* the connection with it.
SendRaises(m, who) ==
    IF who # "fill" THEN Return(m, who)
    ELSE /\ phase' = "broken" /\ awaiting' = [awaiting EXCEPT ![m] = "none"]
         /\ whose' = [whose EXCEPT ![m] = Unset]
         /\ UNCHANGED <<link, deaf, due, todo, registered, sinks, forwarded>>

Open(who) == link /\ who # "stale"

Forward(m, who) ==
    /\ forwarded' = [forwarded EXCEPT ![m] = @ + 1]
    /\ Await(m, who, "none")
    /\ UNCHANGED sinks

\* Register-on-first-forward: _registered is looked at before the await, and
\* grows after it.
Cleared(m, who) ==
    IF ~Open(who) THEN SendRaises(m, who)
    ELSE IF Chan(m) \in registered THEN Forward(m, who) /\ UNCHANGED registered
    ELSE /\ sinks' = sinks \union {Chan(m)}
         /\ Await(m, who, "registering")
         /\ UNCHANGED <<registered, forwarded>>

\* From the append to the first await; a stale caller gets no further.  One that
\* finds m logged returns, whoever logged it and may be awaiting still.
Capture(m, who) ==
    IF m \in seen
    THEN /\ Done(m, who)
         /\ UNCHANGED <<phase, link, deaf, awaiting, whose, registered, sinks, forwarded, file>>
    ELSE /\ Logged(m)
         /\ \/ kind[m] = "filtered" /\ Return(m, who)
            \/ kind[m] = "ownerDm" /\ Cleared(m, who)
            \/ kind[m] = "guild" /\ (who = "stale" \/ member = "no") /\ Return(m, who)
            \/ kind[m] = "guild" /\ who # "stale" /\ member = "yes" /\ Cleared(m, who)
            \/ /\ kind[m] = "guild" /\ who # "stale" /\ member = Unset
               /\ Await(m, who, "gate") /\ UNCHANGED <<registered, sinks, forwarded>>

Begin(m) ==
    /\ phase # "dead" /\ due[m] # "no"
    /\ Capture(m, due[m])
    /\ UNCHANGED <<kind, member, reply, fetched, budget>>

\* The lookup's answer is cached either way; one that failed is a refusal.
GateAnswers(m, answer) ==
    /\ awaiting[m] = "gate"
    /\ IF answer = "yes" THEN Cleared(m, whose[m]) ELSE Return(m, whose[m])
    /\ member' = answer
    /\ UNCHANGED <<kind, file, reply, fetched, budget>>

GateExpires ==
    /\ member # Unset /\ member' = Unset
    /\ UNCHANGED <<kind, phase, link, deaf, due, awaiting, whose, file, registered,
                   todo, reply, sinks, fetched, forwarded, budget>>

Registered(m) ==
    /\ awaiting[m] = "registering"
    /\ IF Open(whose[m])
       THEN Forward(m, whose[m]) /\ registered' = registered \union {Chan(m)}
       ELSE SendRaises(m, whose[m])
    /\ UNCHANGED <<kind, file, member, reply, fetched, budget>>

-----------------------------------------------------------------------------
(* The connection: run and _connect_and_run                                 *)

\* After its 5 s.
Connect ==
    /\ phase = "down"
    /\ phase' = "login" /\ link' = TRUE
    /\ UNCHANGED <<kind, deaf, due, awaiting, whose, file, session, forwarded, budget>>

Ready ==
    /\ phase = "login" /\ ~deaf
    /\ phase' = "fetching"
    /\ UNCHANGED <<kind, link, deaf, due, awaiting, whose, file, session, forwarded, budget>>

\* A refused token ends the process for good; main returns 2.
LoginFails ==
    /\ phase = "login" /\ Fault
    /\ phase' = "exited" /\ due' = [m \in Messages |-> "no"]
    /\ link' = FALSE /\ Abandon /\ ForgetSession
    /\ UNCHANGED <<kind, deaf, file, forwarded, crashes>>

\* Mutant: wait for READY alone, which a dead client never reaches.
ClientDiesUnraced ==
    /\ Connected /\ ~deaf /\ Fault
    /\ deaf' = TRUE
    /\ UNCHANGED <<kind, phase, link, due, awaiting, whose, file, session, forwarded, crashes>>

\* The client's task dies: raced against READY, and looked at by nobody after.
ClientDies ==
    /\ Connected /\ ~deaf /\ Fault
    /\ deaf' = TRUE
    /\ phase' = IF phase = "login" THEN "broken" ELSE phase
    /\ UNCHANGED <<kind, link, due, awaiting, whose, file, session, forwarded, crashes>>

DaemonGoes ==
    /\ Connected /\ link /\ Fault
    /\ link' = FALSE
    /\ UNCHANGED <<kind, phase, deaf, due, awaiting, whose, file, session, forwarded, crashes>>

\* The newest of the guild channel.
History ==
    LET guild == {m \in Posted : Chan(m) = "guild"}
    IN {m \in guild : Cardinality({n \in guild : n > m}) < HistoryLimit}

Fetch ==
    /\ phase = "fetching"
    /\ \/ phase' = "filling" /\ todo' = History /\ fetched' = History /\ UNCHANGED faults
       \/ Fault /\ phase' = "broken" /\ UNCHANGED <<todo, fetched>>
    /\ UNCHANGED <<kind, link, deaf, due, awaiting, whose, file, registered, member,
                   reply, sinks, forwarded, crashes>>

\* Newest first, and not while it awaits an earlier call of its own.
Replays(m) == phase = "filling" /\ m \in todo /\ (\A n \in todo : n <= m) /\ whose[m] # "fill"

\* Mutant: newest first, so the first one known is the end of the gap.
FillToFirstKnown(m) ==
    /\ Replays(m)
    /\ IF m \in seen
       THEN /\ todo' = {}
            /\ UNCHANGED <<phase, link, deaf, due, awaiting, whose, file, registered, sinks, forwarded>>
       ELSE Capture(m, "fill")
    /\ UNCHANGED <<kind, member, reply, fetched, budget>>

Fill(m) ==
    /\ Replays(m)
    /\ Capture(m, "fill")
    /\ UNCHANGED <<kind, member, reply, fetched, budget>>

Filled ==
    /\ phase = "filling" /\ todo = {}
    /\ phase' = "serving"
    /\ UNCHANGED <<kind, link, deaf, due, awaiting, whose, file, session, forwarded, budget>>

\* Doll answers over a channel the daemon has a sink for.
DollReplies ==
    /\ Connected /\ link /\ reply = "none" /\ sinks # {}
    /\ reply' = "waiting"
    /\ UNCHANGED <<kind, phase, link, deaf, due, awaiting, whose, file, registered,
                   member, todo, sinks, fetched, forwarded, budget>>

\* Sent, or refused and dropped; at a 429 once more after its delay; anything
\* else takes the connection with it.
Serve ==
    /\ phase = "serving" /\ reply # "none"
    /\ \/ /\ reply' \in {"none"} \union IF reply = "waiting" THEN {"limited"} ELSE {}
          /\ UNCHANGED <<phase, faults>>
       \/ Fault /\ phase' = "broken" /\ UNCHANGED reply
    /\ UNCHANGED <<kind, link, deaf, due, awaiting, whose, file, registered, member,
                   todo, sinks, fetched, forwarded, crashes>>

\* The socket is read dry before its end is noticed.
Closed ==
    /\ phase = "serving" /\ ~link /\ reply = "none"
    /\ phase' = "broken"
    /\ UNCHANGED <<kind, link, deaf, due, awaiting, whose, file, session, forwarded, budget>>

-----------------------------------------------------------------------------
(* The process                                                              *)

\* An append under way may leave half a line.
Crash ==
    /\ phase \notin {"dead", "exited"} /\ crashes < MaxCrashes
    /\ crashes' = crashes + 1
    /\ phase' = "dead" /\ link' = FALSE /\ deaf' = FALSE
    /\ due' = [m \in Messages |-> "no"]
    /\ Abandon /\ ForgetSession
    /\ torn' \in {torn} \union
        {torn \union {Chan(m)} : m \in {d \in Posted : due[d] # "no" /\ d \notin seen}}
    /\ UNCHANGED <<kind, lines, seen, glued, forwarded, faults>>

\* Mutant: start with nothing seen.
RelaunchBlank ==
    /\ phase = "dead" /\ phase' = "down"
    /\ seen' = {}
    /\ UNCHANGED <<kind, link, deaf, due, awaiting, whose, lines, torn, glued,
                   session, forwarded, budget>>

\* The ids are read back from the file, line by line.
Relaunch ==
    /\ phase = "dead" /\ phase' = "down"
    /\ seen' = lines
    /\ UNCHANGED <<kind, link, deaf, due, awaiting, whose, lines, torn, glued,
                   session, forwarded, budget>>

-----------------------------------------------------------------------------
BridgeInit ==
    /\ kind = <<>> /\ phase = "down" /\ link = FALSE /\ deaf = FALSE
    /\ due = [m \in Messages |-> "no"]
    /\ awaiting = [m \in Messages |-> "none"] /\ whose = [m \in Messages |-> Unset]
    /\ lines = {} /\ torn = {} /\ seen = {} /\ glued = {}
    /\ registered = {} /\ member = Unset /\ todo = {} /\ reply = "none"
    /\ sinks = {} /\ fetched = {}
    /\ forwarded = [m \in Messages |-> 0]
    /\ crashes = 0 /\ faults = 0

BridgeNext ==
    \/ \E k \in Posts : Post(k)
    \/ \E m \in Messages :
        Begin(m) \/ Fill(m) \/ Registered(m) \/ \E a \in {"yes", "no"} : GateAnswers(m, a)
    \/ GateExpires
    \/ Teardown \/ Connect \/ Ready \/ LoginFails \/ ClientDies \/ DaemonGoes
    \/ Fetch \/ Filled \/ DollReplies \/ Serve \/ Closed
    \/ Crash \/ Relaunch

BridgeSpec == BridgeInit /\ [][BridgeNext]_bridgeVars

\* Fairness: a handler that can go on does and lookups are answered; the bridge
\* reconnects and reads its socket, and its supervisor starts it again.
FairBridgeSpec ==
    /\ BridgeSpec
    /\ \A m \in Messages : WF_bridgeVars(Begin(m)) /\ WF_bridgeVars(Fill(m)) /\ WF_bridgeVars(Registered(m))
                         /\ WF_bridgeVars(\E a \in {"yes", "no"} : GateAnswers(m, a))
    /\ WF_bridgeVars(Teardown) /\ WF_bridgeVars(Connect) /\ WF_bridgeVars(Ready) /\ WF_bridgeVars(Fetch)
    /\ WF_bridgeVars(Filled) /\ WF_bridgeVars(Serve) /\ WF_bridgeVars(Closed) /\ WF_bridgeVars(Relaunch)

-----------------------------------------------------------------------------
\* Types; whoever awaits is known, and what is logged or replayed was posted.
BridgeTypeOK ==
    /\ kind \in Seq(Posts) /\ Len(kind) <= MaxMessages
    /\ phase \in {"down", "login", "fetching", "filling", "serving", "broken", "exited", "dead"}
    /\ link \in BOOLEAN /\ deaf \in BOOLEAN
    /\ due \in [Messages -> {"no", "live", "stale"}]
    /\ awaiting \in [Messages -> {"none", "gate", "registering"}]
    /\ whose \in [Messages -> {Unset, "live", "fill"}]
    /\ \A m \in Messages : awaiting[m] = "none" <=> whose[m] = Unset
    /\ lines \subseteq Posted /\ seen \subseteq Posted /\ glued \subseteq Posted
    /\ torn \subseteq Channels /\ registered \subseteq Channels
    /\ member \in {Unset, "yes", "no"}
    /\ todo \subseteq Posted
    /\ reply \in {"none", "waiting", "limited"}
    /\ forwarded \in [Messages -> Nat] /\ sinks \subseteq Channels
    /\ fetched \subseteq Posted
    /\ crashes \in 0..MaxCrashes /\ faults \in 0..MaxFaults

\* Over live delivery, replay of the same history after every reconnect and
\* crashes at any moment, a message reaches the daemon at most once, unless
\* its line was appended to one a crash had torn; and never one of Doll's own.
ForwardedOnce ==
    \A m \in Posted :
        /\ m \notin glued => forwarded[m] <= 1
        /\ kind[m] = "filtered" => forwarded[m] = 0

\* When the bridge begins to read Doll's answers, every message of the history
\* it fetched is on record, whatever was delivered, cut off or logged twice
\* meanwhile: the replay leaves no gap below the first message it knows.
GapIsFilled == phase = "serving" => fetched \subseteq seen

\* Live delivery and replay together: no message of the history twice, none
\* left out.
NoGapNoRepeat == BridgeTypeOK /\ ForwardedOnce /\ GapIsFilled

\* An event reaches the daemon over a connection that has registered its
\* channel, however the handlers of one channel interleave and whatever was
\* registered before a reconnect: Doll's answer always has a sink.
SinkBeforeEvent ==
    [][\A m \in Messages : forwarded'[m] > forwarded[m] => Chan(m) \in sinks]_bridgeVars

\* The two connections fail boundedly often: in the end the bridge reads the
\* daemon's open socket, with nothing delivered and left half done, or its token
\* was refused. This is not all its docstring promises: a Discord client that
\* dies before READY is replaced on the way, one that dies later only when the
\* socket has ended, for nothing else is waited on then; until that, if need be
\* for ever, the bridge serves and hears nothing (deaf).
ComesBack ==
    <>[](\/ phase = "exited"
         \/ /\ phase = "serving" /\ link
            /\ \A m \in Messages : due[m] = "no" /\ awaiting[m] = "none")
=============================================================================
