---------------------------------- MODULE Mcp ----------------------------------
(***************************************************************************)
(* Doll and the Model Context Protocol, both ways: the connector through   *)
(* which other agents talk to her (mcp_server), the turn the daemon gives  *)
(* to each of their messages, and the MCP server whose tools she calls in  *)
(* such a turn (harness/mcp_client).                                       *)
(*                                                                         *)
(* A call of talk() has a channel of its own, so a call is its channel.    *)
(* Frames of a lost connection are lost, and the two ends learn of it at   *)
(* different times.  Attention, batching and the log are the business of   *)
(* Routing and PerceptionLog: here an event waits in pending.  Of what a   *)
(* turn says, the number of sentences.  A turn calls a tool of the server  *)
(* at most once; a peer does not withdraw its call.                        *)
(***************************************************************************)
EXTENDS Naturals, Sequences

CONSTANTS
    Calls,      \* calls of talk(), and their channels
    Queries,    \* calls of get_state() and get_recent()
    MaxSaid,    \* bound: sentences of one turn
    MaxConns,   \* bound: connections of the connector to the daemon
    None        \* no turn

ASSUME McpAssumption ==
    /\ Calls \cap Queries = {} /\ None \notin Calls
    /\ MaxSaid \in Nat /\ MaxConns \in Nat \ {0}

Requests == Calls \cup Queries
Outcomes == {"reply", "no_response", "timeout", "error"}
Answers  == {"payload", "rejected", "timeout", "error", "refused"}

VARIABLES
    stage,      \* of a request: new, waiting, or what it returned
    collectors, \* requests with a collector
    got,        \* sentences collected for each call
    over,       \* requests whose done event is set
    granted,    \* queries whose result says ok
    conn,       \* number of the connector's connection, the last one if it is down
    up,         \* it is open
    upward,     \* frames for the daemon: the request they come from
    downward,   \* frames for the connector, in order
    reg,        \* connection each channel is registered on, 0 for none
    pending,    \* calls whose event waits for a turn
    turn,       \* the call served now, or None
    doing,      \* thinking, calling (a tool), told (its result)
    said,       \* sentences said in each call's turn
    ended,      \* calls whose turn is over
    server,     \* the MCP server's process: booting, running, dead
    holder,     \* McpServer._task: starting, holding, ended
    offered,    \* its tools are registered
    gone,       \* McpServer._gone is set
    request     \* the call in flight: none, sent, answered, closed

peer   == <<stage, collectors, got, over, granted>>
wires  == <<conn, up, upward, downward>>
mind   == <<pending, turn, doing, said, ended>>
client == <<server, holder, offered, gone, request>>
vars   == <<peer, wires, reg, mind, client>>

Frame(c, kind) == [of |-> c, kind |-> kind]
Kinds == {"text", "end", "granted", "denied"}

-----------------------------------------------------------------------------
(* The connector                                                            *)

\* talk() and the two queries: without a daemon they fail, and so does a send
\* on a connection that is gone.
Sends(r) ==
    /\ stage[r] = "new"
    /\ IF up
       THEN /\ stage' = [stage EXCEPT ![r] = "waiting"]
            /\ collectors' = collectors \cup {r}
            /\ upward' = Append(upward, r)
       ELSE stage' = [stage EXCEPT ![r] = "error"] /\ UNCHANGED <<collectors, upward>>
    /\ UNCHANGED <<got, over, granted, conn, up, downward, reg, mind, client>>

\* _require_debug: the query's session has not presented the secret.
Refused(q) ==
    /\ stage[q] = "new" /\ stage' = [stage EXCEPT ![q] = "refused"]
    /\ UNCHANGED <<collectors, got, over, granted, wires, reg, mind, client>>

\* DaemonLink.dispatch: a frame nobody waits for is ignored.
Dispatch ==
    /\ up /\ downward # <<>>
    /\ downward' = Tail(downward)
    /\ LET f == Head(downward)
           waited == f.of \in collectors IN
       /\ got' = IF waited /\ f.kind = "text" THEN [got EXCEPT ![f.of] = @ + 1] ELSE got
       /\ over' = IF waited /\ f.kind # "text" THEN over \cup {f.of} ELSE over
       /\ granted' = IF waited /\ f.kind = "granted" THEN granted \cup {f.of} ELSE granted
    /\ UNCHANGED <<stage, collectors, conn, up, upward, reg, mind, client>>

Verdict(r) ==
    CASE r \in Queries -> IF r \in granted THEN "payload" ELSE "rejected"
      [] r \in Calls   -> IF got[r] = 0 THEN "no_response" ELSE "reply"

\* finally: the collector goes, and with it what it collected.
Popped(r) ==
    collectors' = collectors \ {r} /\ over' = over \ {r} /\ granted' = granted \ {r}

\* Mutant: silence is what came first.
ReturnsAtOnce(r) ==
    /\ stage[r] = "waiting" /\ (r \in over \/ (r \in Calls /\ got[r] > 0))
    /\ stage' = [stage EXCEPT ![r] = Verdict(r)]
    /\ Popped(r)
    /\ UNCHANGED <<got, wires, reg, mind, client>>

Returns(r) ==
    /\ stage[r] = "waiting" /\ r \in over
    /\ stage' = [stage EXCEPT ![r] = Verdict(r)]
    /\ Popped(r)
    /\ UNCHANGED <<got, wires, reg, mind, client>>

\* Mutant: the collector of a call that timed out stays.
ExpiresCollecting(r) ==
    /\ stage[r] = "waiting"
    /\ stage' = [stage EXCEPT ![r] = "timeout"]
    /\ UNCHANGED <<collectors, got, over, granted, wires, reg, mind, client>>

\* The wait may expire in the very pass of the loop in which it is answered.
Expires(r) ==
    /\ stage[r] = "waiting"
    /\ stage' = [stage EXCEPT ![r] = "timeout"]
    /\ Popped(r)
    /\ got' = [c \in Calls |-> IF c = r THEN 0 ELSE got[c]]
    /\ UNCHANGED <<wires, reg, mind, client>>

\* The connection ends; a call that waits is not told.
Drops ==
    /\ up /\ up' = FALSE /\ upward' = <<>> /\ downward' = <<>>
    /\ UNCHANGED <<peer, conn, reg, mind, client>>

Reconnects ==
    /\ ~up /\ conn < MaxConns /\ holder # "starting"
    /\ up' = TRUE /\ conn' = conn + 1
    /\ UNCHANGED <<peer, upward, downward, reg, mind, client>>

-----------------------------------------------------------------------------
(* The daemon                                                               *)

\* Mutant: the newest connection gets what is said on any external channel.
DeliverToNewest(f) ==
    IF up /\ reg[f.of] # 0 THEN Append(downward, f) ELSE downward

\* SinkResolver: the connection that registered the channel, open or not.
Deliver(f) ==
    IF up /\ reg[f.of] = conn THEN Append(downward, f) ELSE downward

\* _handle_message: a call registers its channel and brings its event; a query
\* is answered on its connection, by the token it carries.
Handle ==
    /\ up /\ upward # <<>>
    /\ upward' = Tail(upward)
    /\ LET r == Head(upward) IN
       IF r \in Calls
       THEN /\ reg' = [reg EXCEPT ![r] = conn] /\ pending' = pending \cup {r}
            /\ UNCHANGED downward
       ELSE /\ \E kind \in {"granted", "denied"} : downward' = Append(downward, Frame(r, kind))
            /\ UNCHANGED <<reg, pending>>
    /\ UNCHANGED <<peer, conn, up, turn, doing, said, ended, client>>

\* _handle_disconnect, sooner or later, of a connection that has ended.
Disconnected(k) ==
    /\ k < conn \/ ~up
    /\ \E c \in Calls : reg[c] = k
    /\ reg' = [c \in Calls |-> IF reg[c] = k THEN 0 ELSE reg[c]]
    /\ UNCHANGED <<peer, wires, mind, client>>

TurnBegins(c) ==
    /\ turn = None /\ c \in pending
    /\ turn' = c /\ pending' = pending \ {c} /\ doing' = "thinking"
    /\ UNCHANGED <<peer, wires, reg, said, ended, client>>

Says ==
    /\ turn # None /\ doing # "calling" /\ said[turn] < MaxSaid
    /\ said' = [said EXCEPT ![turn] = @ + 1]
    /\ downward' = Deliver(Frame(turn, "text"))
    /\ UNCHANGED <<peer, conn, up, upward, reg, pending, turn, doing, ended, client>>

\* McpServer.call: a server known or found to be gone fails the call at once.
CallsTool ==
    /\ turn # None /\ doing = "thinking" /\ offered
    /\ IF gone \/ holder = "ended"
       THEN gone' = TRUE /\ doing' = "told" /\ UNCHANGED request
       ELSE request' = "sent" /\ doing' = "calling" /\ UNCHANGED gone
    /\ UNCHANGED <<peer, wires, reg, pending, turn, said, ended, server, holder, offered>>

\* Mutant: only the answer is awaited.
ToolReturnsAnswered ==
    /\ doing = "calling"
    /\ request \in {"answered", "closed"}
    /\ gone' = (gone \/ request # "answered")
    /\ request' = "none" /\ doing' = "told"
    /\ UNCHANGED <<peer, wires, reg, pending, turn, said, ended, server, holder, offered>>

\* The answer, the closed connection, or the end of the holder's task.
ToolReturns ==
    /\ doing = "calling"
    /\ request \in {"answered", "closed"} \/ holder = "ended"
    /\ gone' = (gone \/ request # "answered")
    /\ request' = "none" /\ doing' = "told"
    /\ UNCHANGED <<peer, wires, reg, pending, turn, said, ended, server, holder, offered>>

\* CALL_TIMEOUT_S: the call is cancelled, the server is not held to be gone.
ToolTimesOut ==
    /\ doing = "calling" /\ request = "sent" /\ holder # "ended"
    /\ request' = "none" /\ doing' = "told"
    /\ UNCHANGED <<peer, wires, reg, pending, turn, said, ended, server, holder, offered, gone>>

\* The turn's end is said on its channel however it ended.
TurnOver(c) ==
    /\ turn' = None /\ doing' = "thinking" /\ ended' = ended \cup {c}
    /\ request' = "none"
    /\ downward' = Deliver(Frame(c, "end"))
    /\ UNCHANGED <<peer, conn, up, upward, reg, pending, said, server, holder, offered, gone>>

TurnEnds ==
    /\ turn # None /\ doing # "calling"
    /\ TurnOver(turn)

\* The owner speaks, or the turn raises: at any point.
TurnIsCut ==
    /\ turn # None
    /\ TurnOver(turn)

-----------------------------------------------------------------------------
(* The MCP server and its holder                                            *)

\* McpServer.start, McpClients.start: before the daemon listens.  A server that
\* does not answer in time, or dies, is left out for the daemon's run.
Boots ==
    /\ holder = "starting"
    /\ \/ server = "booting" /\ server' = "running" /\ holder' = "holding" /\ offered' = TRUE
       \/ server' = "dead" /\ holder' = "ended" /\ offered' = FALSE
    /\ UNCHANGED <<peer, wires, reg, mind, gone, request>>

ServerAnswers ==
    /\ server = "running" /\ request = "sent" /\ request' = "answered"
    /\ UNCHANGED <<peer, wires, reg, mind, server, holder, offered, gone>>

ServerDies ==
    /\ server = "running" /\ server' = "dead"
    /\ UNCHANGED <<peer, wires, reg, mind, holder, offered, gone, request>>

\* A call to a dead server: the session finds its stream closed and says so, or
\* the write to the dead child ends the holder and the call stays unanswered.
CallMisses ==
    /\ server = "dead" /\ request = "sent" /\ holder = "holding"
    /\ \/ request' = "closed" /\ UNCHANGED holder
       \/ holder' = "ended" /\ UNCHANGED request
    /\ UNCHANGED <<peer, wires, reg, mind, server, offered, gone>>

-----------------------------------------------------------------------------
Init ==
    /\ stage = [r \in Requests |-> "new"] /\ collectors = {}
    /\ got = [c \in Calls |-> 0] /\ over = {} /\ granted = {}
    /\ conn = 0 /\ up = FALSE /\ upward = <<>> /\ downward = <<>>
    /\ reg = [c \in Calls |-> 0]
    /\ pending = {} /\ turn = None /\ doing = "thinking"
    /\ said = [c \in Calls |-> 0] /\ ended = {}
    /\ server = "booting" /\ holder = "starting" /\ offered = FALSE
    /\ gone = FALSE /\ request = "none"

Turns == \/ \E c \in Calls : TurnBegins(c)
         \/ CallsTool \/ ToolReturns \/ TurnEnds

Next ==
    \/ \E r \in Requests : Sends(r) \/ Returns(r) \/ Expires(r)
    \/ \E q \in Queries : Refused(q)
    \/ Dispatch \/ Drops \/ Reconnects \/ Handle
    \/ \E k \in 1..MaxConns : Disconnected(k)
    \/ Turns \/ Says \/ ToolTimesOut \/ TurnIsCut
    \/ Boots \/ ServerAnswers \/ ServerDies \/ CallMisses

Spec == Init /\ [][Next]_vars

(* Tasks that can run do; a server that is asked answers or dies.  Neither  *)
(* talk()'s timeout nor the tool's is fair: what is shown does without.     *)
FairSpec ==
    /\ Spec
    /\ WF_vars(Turns) /\ WF_vars(Handle) /\ WF_vars(Dispatch) /\ WF_vars(Boots)
    /\ \A r \in Requests : WF_vars(Returns(r))
    /\ WF_vars(ServerAnswers \/ ServerDies) /\ WF_vars(CallMisses)

-----------------------------------------------------------------------------
(* Types, and two books that must agree: a request has a collector exactly  *)
(* while it waits, however it stops waiting, and a tool call is in flight   *)
(* exactly while the turn waits for it.                                     *)
TypeOK ==
    /\ \A c \in Calls : stage[c] \in {"new", "waiting"} \cup Outcomes
    /\ \A q \in Queries : stage[q] \in {"new", "waiting"} \cup Answers
    /\ collectors = {r \in Requests : stage[r] = "waiting"}
    /\ got \in [Calls -> 0..MaxSaid] /\ said \in [Calls -> 0..MaxSaid]
    /\ over \subseteq collectors /\ granted \subseteq over
    /\ conn \in 0..MaxConns /\ reg \in [Calls -> 0..conn]
    /\ upward \in Seq(Requests)
    /\ downward \in Seq([of : Requests, kind : Kinds])
    /\ turn \in Calls \cup {None} /\ pending \subseteq Calls
    /\ doing \in {"thinking", "calling", "told"} /\ (doing = "calling" <=> request # "none")
    /\ server \in {"booting", "running", "dead"} /\ holder \in {"starting", "holding", "ended"}
    /\ (gone => server = "dead")

(* What talk() returns is what happened in her turn: a reply is all she     *)
(* said in it and comes when it is over, and no_response means a turn that  *)
(* is over in which she said nothing.  A connection lost and made again in  *)
(* the middle of her turn must not turn half a reply into a whole one: its  *)
(* call times out.                                                          *)
WhatItReturns ==
    TypeOK /\ \A c \in Calls :
        /\ stage[c] = "reply" => c \in ended /\ got[c] = said[c] /\ got[c] > 0
        /\ stage[c] = "no_response" => c \in ended /\ said[c] = 0

(* A call whose channel stays registered on a live connection returns: her  *)
(* turn comes, the tool it calls does not hold it although the server may   *)
(* die without an answer, its end is said although it may be preempted, and *)
(* the end finds its collector.  No timeout is needed for it.               *)
Reachable(c) == stage[c] = "waiting" /\ up /\ reg[c] = conn
AnsweredWithoutTimeouts ==
    \A c \in Calls : Reachable(c) ~> ~Reachable(c)
================================================================================
