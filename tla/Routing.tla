------------------------------- MODULE Routing -------------------------------
(***************************************************************************)
(* Who is connected, whose messages get through and where a turn's words   *)
(* go: the kernel's handlers of the IPC server's connections, SinkResolver,*)
(* ChannelRegistry, AttentionGate, BatchAccumulator, and the two places    *)
(* where MindLoop writes to a sink.                                        *)
(*                                                                         *)
(* A connection is local (a client at the keyboard) or one of Links (the   *)
(* Discord bridge, the MCP connector), which register the channels they    *)
(* serve, any number of times; a connector may open a new connection while *)
(* the kernel has yet to notice that its old one is gone.  A connection's  *)
(* number is its sink.                                                     *)
(*                                                                         *)
(* Abstractions.  A window running out and a debounce timer firing may     *)
(* happen at any time; a message is its author and whether it carries one  *)
(* of the tags that always get through; of what waits, only whether there  *)
(* is any.  The bound on replies without a tag is the code's.              *)
(***************************************************************************)
EXTENDS Naturals, Sequences, FiniteSets

CONSTANTS
    Links,              \* connectors to channels outside
    Serves,             \* the channels of each
    Authors,
    MaxSessionTurns,    \* AttentionSettings.max_session_turns
    MaxConnections,     \* bound: connections over the run
    MaxHandles,         \* bound: handles SinkResolver gives out
    None

Chats == UNION {Serves[l] : l \in Links}
Conns == 1..MaxConnections
Handles == 1..MaxHandles
Origins == Chats \union {None}

\* What a sink is registered for: None for the internal one of a connection.
Registration == [conn : Conns, channel : Origins]

ASSUME RoutingAssumption ==
    /\ "local" \notin Links
    /\ None \notin Links \union {"local"} \union Chats /\ None \notin Registration
    /\ MaxSessionTurns \in Nat \ {0} /\ MaxConnections \in Nat
    /\ MaxHandles \in Nat

VARIABLES
    link,       \* what each connection is, None when it is not open
    opened,     \* connections so far
    sinks,      \* SinkResolver: by handle, the registration or None once it is gone
    held,       \* _channel_sink_handles: by connection and channel, the handle, or NoHandle
    external,   \* ChannelRegistry: the channels of locus "external"
    session,    \* AttentionGate._sessions
    waiting,    \* channels with an open batch in BatchAccumulator
    queued,     \* origins with something in the PerceptionQueue
    turn,       \* the turn being spoken or settled, None between turns
    stage,      \* where Kernel.run's shutdown stands
    tagged,     \* ghost: authors who tagged her, by channel and connection
    stray,      \* ghost: handles overwritten in held by a second register
    replies,    \* ghost: replies counted since the last tag
    out         \* ghost: what the last step wrote to a sink

connections == <<link, opened, sinks, held, stray, external>>
attention   == <<session, tagged, replies>>
vars        == <<link, opened, sinks, held, stray, external, session, waiting, queued,
                 turn, stage, tagged, replies, out>>

NoHandle == 0

Open == {c \in Conns : link[c] # None}

\* The connections that registered a channel.
Holders(ch) == {c \in Conns : held[c][ch] # NoHandle}

-----------------------------------------------------------------------------
(* SinkResolver: the newest sink of the origin's channel, else the newest   *)
(* internal one, else nobody's.                                             *)

Nobody == 0

\* The handles whose sink is still registered, and those of a channel; the
\* internal sinks' channel is None.
Live        == {h \in DOMAIN sinks : sinks[h] # None}
SinksOf(ch) == {h \in Live : sinks[h].channel = ch}
Newest(S)   == CHOOSE h \in S : \A j \in S : j <= h

\* Mutant: the newest sink of all, whatever it was registered for.
ResolveNewest(origin) ==
    IF Live = {} THEN Nobody ELSE sinks[Newest(Live)].conn

Resolve(origin) ==
    IF origin # None /\ SinksOf(origin) # {} THEN sinks[Newest(SinksOf(origin))].conn
    ELSE IF SinksOf(None) # {} THEN sinks[Newest(SinksOf(None))].conn
    ELSE Nobody

-----------------------------------------------------------------------------
Init ==
    /\ link = [c \in Conns |-> None] /\ opened = 0
    /\ sinks = <<>> /\ external = {}
    /\ held = [c \in Conns |-> [ch \in Chats |-> NoHandle]] /\ stray = {}
    /\ session = [ch \in Chats |-> None]
    /\ waiting = {} /\ queued = {} /\ turn = None /\ stage = "serving"
    /\ tagged = [ch \in Chats |-> {}] /\ replies = [ch \in Chats |-> 0]
    /\ out = None

\* _handle_connect: every connection's sink is registered as an internal one.
Connect(l) ==
    /\ stage = "serving" /\ opened < MaxConnections /\ Len(sinks) < MaxHandles
    /\ opened' = opened + 1
    /\ link' = [link EXCEPT ![opened + 1] = l]
    /\ sinks' = Append(sinks, [conn |-> opened + 1, channel |-> None])
    /\ out' = None
    /\ UNCHANGED <<held, stray, external, attention, waiting, queued, turn, stage>>

\* _register_external_sink: the connection's sink once more, for the channel.
\* Only the last handle of a channel is remembered for the disconnect.
RegisterSink(c, ch) ==
    /\ Len(sinks) < MaxHandles
    /\ sinks' = Append(sinks, [conn |-> c, channel |-> ch])
    /\ held' = [held EXCEPT ![c][ch] = Len(sinks) + 1]
    /\ stray' = stray \union ({held[c][ch]} \ {NoHandle})

\* ChannelRegister, with locus external.
Register(c, ch) ==
    /\ c \in Open /\ link[c] \in Links /\ ch \in Serves[link[c]]
    /\ RegisterSink(c, ch)
    /\ external' = external \union {ch}
    /\ out' = None
    /\ UNCHANGED <<link, opened, attention, waiting, queued, turn, stage>>

\* The channels some connections registered, and the sinks they take with
\* them: their internal ones, and those whose handle is still remembered.
ChannelsOf(S)   == {ch \in Chats : Holders(ch) \intersect S # {}}
Kept(h, S)      == /\ sinks[h].channel = None => sinks[h].conn \notin S
                   /\ \A c \in S, ch \in Chats : held[c][ch] # h
Unregistered(S) ==
    /\ sinks' = [h \in DOMAIN sinks |-> IF h \in Live /\ Kept(h, S) THEN sinks[h] ELSE None]
    /\ held' = [c \in Conns |-> IF c \in S THEN [ch \in Chats |-> NoHandle] ELSE held[c]]

\* Mutant: the attention session of a channel outlives its connection.
DisconnectKeepingSessions(S) ==
    LET gone == ChannelsOf(S) IN
    /\ link' = [c \in Conns |-> IF c \in S THEN None ELSE link[c]]
    /\ Unregistered(S)
    /\ external' = external \ gone
    /\ UNCHANGED <<attention, stray>>
    /\ turn' = IF turn # None /\ turn.origin \in gone THEN [turn EXCEPT !.steady = FALSE] ELSE turn
    /\ out' = None

\* AttentionGate.forget, for each channel; the tags of it are nobody's any more.
Forget(gone) ==
    /\ session' = [ch \in Chats |-> IF ch \in gone THEN None ELSE session[ch]]
    /\ tagged' = [ch \in Chats |-> IF ch \in gone THEN {} ELSE tagged[ch]]
    /\ UNCHANGED replies

\* _handle_disconnect: the sinks, the channels and their sessions go, also of
\* a channel that a newer connection has registered meanwhile.
Disconnected(S) ==
    LET gone == ChannelsOf(S) IN
    /\ link' = [c \in Conns |-> IF c \in S THEN None ELSE link[c]]
    /\ Unregistered(S)
    /\ external' = external \ gone
    /\ Forget(gone)
    /\ UNCHANGED stray
    /\ turn' = IF turn # None /\ turn.origin \in gone THEN [turn EXCEPT !.steady = FALSE] ELSE turn
    /\ out' = None

Disconnect(c) ==
    /\ c \in Open
    /\ Disconnected({c})
    /\ UNCHANGED <<opened, waiting, queued, stage>>

\* A TextInput.
Type(c) ==
    /\ c \in Open /\ link[c] = "local"
    /\ queued' = queued \union {None}
    /\ out' = None
    /\ UNCHANGED <<connections, attention, waiting, turn, stage>>

\* Doll's own perceptions: a schedule, a finished shell job, an observer.
Stir ==
    /\ stage # "ended"
    /\ queued' = queued \union {None}
    /\ out' = None
    /\ UNCHANGED <<connections, attention, waiting, turn, stage>>

-----------------------------------------------------------------------------
(* AttentionGate.admit, and what the kernel does with what it admits.       *)

Admitted(ch) ==
    /\ waiting' = waiting \union {ch}
    /\ out' = None
    /\ UNCHANGED <<connections, queued, turn, stage>>

\* A message of a channel arrives on a connection that registered it. The
\* kernel does not ask for that: a connector registers a channel on its
\* connection before the channel's first event (Bridge's SinkBeforeEvent).
Heard(ch) == Holders(ch) # {}

\* A tag gets through, and opens the session or starts it over.
Tagged(ch, a) ==
    /\ Heard(ch)
    /\ session' = [session EXCEPT ![ch] =
         [with |-> {a} \union (IF @ = None THEN {} ELSE @.with), turns |-> 0, cold |-> FALSE]]
    /\ tagged' = [tagged EXCEPT ![ch] = @ \union {a}]
    /\ replies' = [replies EXCEPT ![ch] = 0]
    /\ Admitted(ch)

Engaged(s) == s # None /\ ~s.cold /\ s.turns < MaxSessionTurns

\* Mutant: a bystander's message is taken for a continuation and joins.
ContinuesWithAnyone(ch, a) ==
    /\ Heard(ch) /\ session[ch] # None
    /\ Engaged(session[ch])
    /\ session' = [session EXCEPT ![ch].cold = FALSE, ![ch].with = @ \union {a}]
    /\ Admitted(ch)
    /\ UNCHANGED <<tagged, replies>>

\* Mutant: a continuation starts the count of replies over.
ContinuesAfresh(ch, a) ==
    /\ Heard(ch) /\ session[ch] # None
    /\ Engaged(session[ch]) /\ a \in session[ch].with
    /\ session' = [session EXCEPT ![ch].cold = FALSE, ![ch].turns = 0]
    /\ Admitted(ch)
    /\ UNCHANGED <<tagged, replies>>

\* No tag, from one she is talking with: the window starts over.
Continues(ch, a) ==
    /\ Heard(ch) /\ session[ch] # None
    /\ Engaged(session[ch]) /\ a \in session[ch].with
    /\ session' = [session EXCEPT ![ch].cold = FALSE]
    /\ Admitted(ch)
    /\ UNCHANGED <<tagged, replies>>

\* No tag and not admitted. A session that is over is closed by it.
Ignored(ch, a) ==
    /\ Heard(ch)
    /\ session[ch] # None => ~(Engaged(session[ch]) /\ a \in session[ch].with)
    /\ session' = IF session[ch] # None /\ ~Engaged(session[ch])
                  THEN [session EXCEPT ![ch] = None] ELSE session
    /\ out' = None
    /\ UNCHANGED <<connections, waiting, queued, turn, stage, tagged, replies>>

WindowRunsOut(ch) ==
    /\ session[ch] # None /\ ~session[ch].cold
    /\ session' = [session EXCEPT ![ch].cold = TRUE]
    /\ out' = None
    /\ UNCHANGED <<connections, waiting, queued, turn, stage, tagged, replies>>

\* _enqueue_channel_batch: a batch goes into the queue, a channel's at a time.
Flushed(batches) == waiting' = waiting \ batches /\ queued' = queued \union batches

\* BatchAccumulator._fire_after.
TimerFires(ch) ==
    /\ ch \in waiting
    /\ Flushed({ch})
    /\ out' = None
    /\ UNCHANGED <<connections, attention, turn, stage>>

-----------------------------------------------------------------------------
(* A turn. Its sink is looked up when the model is called, and again when  *)
(* the turn ends; what is written depends on the registry at that moment.  *)

Begin(origin) ==
    /\ turn = None /\ origin \in queued /\ stage # "ended"
    /\ queued' = queued \ {origin}
    /\ turn' = [origin |-> origin, sink |-> Resolve(origin), spoke |-> FALSE, over |-> FALSE,
                steady |-> origin \in external]
    /\ out' = None
    /\ UNCHANGED <<connections, attention, waiting, stage>>

Speaking == turn # None /\ ~turn.over

Writes(what, to) ==
    out' = [what |-> what, to |-> to, origin |-> turn.origin, steady |-> turn.steady,
            addressed |-> turn.origin \in external]

\* _emit_sentence.
Speak ==
    /\ Speaking
    /\ Writes("sentence", turn.sink)
    /\ turn' = [turn EXCEPT !.spoke = TRUE]
    /\ UNCHANGED <<connections, attention, waiting, queued, stage>>

\* _run_one_turn's finally. A turn that raised is done with.
EndTurn(raises) ==
    /\ Speaking
    /\ Writes("end", Resolve(turn.origin))
    /\ turn' = IF raises THEN None ELSE [turn EXCEPT !.over = TRUE]
    /\ UNCHANGED <<connections, attention, waiting, queued, stage>>

\* AttentionGate.note_reply: the session's last reply closes it.
NoteReply(ch) ==
    LET s == session[ch] IN
    IF s = None THEN UNCHANGED <<session, replies>>
    ELSE /\ session' = [session EXCEPT ![ch] =
               IF s.turns + 1 >= MaxSessionTurns THEN None ELSE [s EXCEPT !.turns = s.turns + 1]]
         /\ replies' = [replies EXCEPT ![ch] = @ + 1]

\* The turn is saved, and _on_turn_complete is called.
Settle ==
    /\ turn # None /\ turn.over
    /\ IF turn.spoke /\ turn.origin # None THEN NoteReply(turn.origin)
                                          ELSE UNCHANGED <<session, replies>>
    /\ turn' = None
    /\ out' = None
    /\ UNCHANGED <<connections, waiting, queued, stage, tagged>>

-----------------------------------------------------------------------------
(* Kernel.run's shutdown, in its order.                                     *)

\* server.stop() closes every connection and waits for their handlers.
ServerStops ==
    /\ stage = "serving" /\ stage' = "closed"
    /\ Disconnected(Open)
    /\ UNCHANGED <<opened, waiting, queued>>

\* Mutant: MindLoop is stopped with batches still open.
LoopStopsUnflushed ==
    /\ stage = "closed" /\ stage' = "ended"
    /\ out' = None
    /\ UNCHANGED <<connections, attention, waiting, queued, turn>>

\* flush_all(), then MindLoop.shutdown(), with nothing in between.
LoopStops ==
    /\ stage = "closed" /\ stage' = "ended"
    /\ Flushed(waiting)
    /\ out' = None
    /\ UNCHANGED <<connections, attention, turn>>

\* Nothing more is drained; a turn under way is finished.
Stopped == stage = "ended" /\ turn = None /\ UNCHANGED vars

Next ==
    \/ \E l \in Links \union {"local"} : Connect(l)
    \/ \E c \in Conns : \/ Disconnect(c) \/ Type(c)
                        \/ \E ch \in Chats : Register(c, ch)
    \/ \E ch \in Chats : \/ \E a \in Authors : Tagged(ch, a) \/ Continues(ch, a) \/ Ignored(ch, a)
                         \/ WindowRunsOut(ch) \/ TimerFires(ch)
    \/ Stir
    \/ \E origin \in Origins : Begin(origin)
    \/ Speak \/ Settle
    \/ \E raises \in BOOLEAN : EndTurn(raises)
    \/ ServerStops \/ LoopStops \/ Stopped

Spec == Init /\ [][Next]_vars

-----------------------------------------------------------------------------
Session == [with : SUBSET Authors, turns : 0..(MaxSessionTurns - 1), cold : BOOLEAN]
Turn    == [origin : Origins, sink : Conns \union {Nobody}, spoke : BOOLEAN,
            over : BOOLEAN, steady : BOOLEAN]
Written == [what : {"sentence", "end"}, to : Conns \union {Nobody}, origin : Origins,
            steady : BOOLEAN, addressed : BOOLEAN]

TypeOK ==
    /\ link \in [Conns -> Links \union {"local", None}] /\ opened \in 0..MaxConnections
    /\ sinks \in Seq(Registration \union {None}) /\ external \subseteq Chats
    /\ held \in [Conns -> [Chats -> Handles \union {NoHandle}]] /\ stray \subseteq Handles
    /\ session \in [Chats -> Session \union {None}]
    /\ waiting \subseteq Chats /\ queued \subseteq Origins
    /\ turn \in Turn \union {None} /\ stage \in {"serving", "closed", "ended"}
    /\ tagged \in [Chats -> SUBSET Authors] /\ replies \in [Chats -> Nat]
    /\ out \in Written \union {None}

\* What a connection brought goes with it, over reconnections that overlap,
\* repeated registers and turns under way: a sink of a closed connection is
\* left only if a second register of its channel took the place of its handle;
\* a channel in the ChannelRegistry is answered, of all the sinks registered
\* for it, on one of an open connection; an attention session is of a channel
\* that an open connection registered; and no message admitted just before a
\* shutdown still waits when MindLoop has been told to stop (Kernel.run).
NothingOutlivesItsConnection ==
    /\ TypeOK
    /\ \A h \in Live : sinks[h].conn \notin Open => h \in stray
    /\ \A ch \in external : Resolve(ch) \in Open \intersect Holders(ch)
    /\ \A ch \in Chats : session[ch] # None => Open \intersect Holders(ch) # {}
    /\ stage = "ended" => waiting = {}

\* A turn is steady as long as no connection that registered its channel has
\* closed since it began: not the one its message came through, and no older
\* one of that connector whose end is noticed late, since that takes the
\* channel out of the registry under the newer one. Everything a steady turn
\* says and its end go to an open connection that serves the channel,
\* addressed, whoever else connects, registers again or leaves meanwhile.
SteadyReplyArrives ==
    (out # None /\ out.origin # None) =>
        (out.steady => /\ out.addressed
                       /\ out.to \in Open /\ link[out.to] \in Links
                       /\ out.origin \in Serves[link[out.to]])

\* Nobody gets through untagged who has not tagged her in that channel since
\* its connection registered it.
NoBystander == \A ch \in Chats : session[ch] # None => session[ch].with \subseteq tagged[ch]

\* She does not go on for ever: after MaxSessionTurns counted replies nothing
\* untagged gets through before the next tag, whatever was waiting, queued or
\* being answered when the limit was reached.
QuietAfterTheCap ==
    [][\A ch \in Chats : (replies[ch] >= MaxSessionTurns /\ replies'[ch] # 0)
                            => (ch \in waiting' => ch \in waiting)]_vars
=============================================================================
