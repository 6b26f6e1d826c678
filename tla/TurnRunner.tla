------------------------------ MODULE TurnRunner ------------------------------
(***************************************************************************)
(* TurnRunner.run: the tool loop behind every model turn.  A pass streams  *)
(* one reply on the turn's thread, runs its tool calls in order and        *)
(* appends the reply with one answer per call; the turn ends by the first  *)
(* rule that fires.  An interrupt may be set at any time, a call of the    *)
(* model may fail, and a call of a tool may succeed, fail or be refused.   *)
(*                                                                         *)
(* policy is the turn's TurnPolicy: live for a MindLoop turn (it speaks,   *)
(* can be interrupted, and has the safe_mode failure rule), and for an     *)
(* agent's not (none of these, the stuck_tool rule, and it ends with       *)
(* Report).                                                                *)
(*                                                                         *)
(* Abstractions.  A sentence is <<pass, number>>; the thinking of a reply  *)
(* is whether there was any; of a tool's answer only its status counts.    *)
(* The thread starts at the turn's own user message.                       *)
(***************************************************************************)
EXTENDS Naturals, Sequences, FiniteSets

CONSTANTS
    Tools,          \* names the model calls
    Report,         \* the tool that ends an agent's turn; no live turn has it
    Policies,       \* TurnPolicy: live, max_passes; bound: sentences of one reply
    FailLimit,      \* SAFE_MODE_FAIL_THRESHOLD, and the 3 of stuck()
    UnboundLimit,   \* UNBOUND_REJECT_LIMIT
    MaxCalls,       \* bound: tool calls of one reply
    None            \* no tool

\* TurnResult.ended_by: the rules, and the kinds of a ModelError.
Endings == {"cancel", "max_tokens", "report", "no_tool_calls", "safe_mode",
            "stuck_tool", "unbound_limit", "max_passes", "transport", "server"}

ASSUME RunnerAssumption ==
    /\ None \notin Tools \union Endings /\ MaxCalls \in Nat
    /\ Policies \subseteq [live : BOOLEAN, passes : Nat \ {0}, sentences : Nat]
    /\ FailLimit \in Nat \ {0} /\ UnboundLimit \in Nat \ {0}

VARIABLES
    policy,     \* turn.policy, the same for the whole turn
    thread,     \* turn.thread.messages from the turn's own message on
    phase,      \* where run() stands
    pass,       \* the pass being made, 1 for index 0
    cancelled,  \* turn.cancel.cancelled
    thought,    \* the reply has thinking
    speech,     \* the reply's sentences so far
    said,       \* sentences handed to speak, over the whole turn
    calls,      \* the finished reply's tool calls
    length,     \* it was cut by max_tokens
    results,    \* answers of the calls so far
    reported,   \* ctx.agent_report is set
    perTool, lastFailed, failRun,   \* _Failures._per_tool, _last_failed, _run
    unbound, refused,               \* _Failures.unbound; refused in this pass
    endedBy     \* TurnResult.ended_by, None while the turn runs

reply   == <<thought, speech, calls, length, results>>
counts  == <<perTool, lastFailed, failRun, unbound, refused>>
vars    == <<policy, thread, phase, pass, cancelled, thought, speech, said, calls,
             length, results, reported, perTool, lastFailed, failRun,
             unbound, refused, endedBy>>

User            == [role |-> "user"]
Assistant(c, t) == [role |-> "assistant", calls |-> c, content |-> t]
Answer(t, s)    == [role |-> "tool", tool |-> t, status |-> s]

Live         == policy.live
MaxPasses    == policy.passes
MaxSentences == policy.sentences

\* Report is an agent's tool: a live turn that calls it calls an unknown one,
\* as it may call any other.
Callable  == IF Live THEN Tools \ {Report} ELSE Tools
CallLists == UNION {[1..n -> Callable] : n \in 0..MaxCalls}
Sentences == (1..MaxPasses) \X (1..MaxSentences)
Spoken    == {s \in said : s[1] = pass}

-----------------------------------------------------------------------------
Init ==
    /\ policy \in Policies
    /\ thread = <<User>> /\ phase = "boundary" /\ pass = 0
    /\ cancelled = FALSE /\ endedBy = None /\ reported = FALSE
    /\ thought = FALSE /\ speech = {} /\ said = {}
    /\ calls = <<>> /\ length = FALSE /\ results = <<>>
    /\ perTool = [t \in Tools |-> 0] /\ lastFailed = None /\ failRun = 0
    /\ unbound = [t \in Tools |-> 0] /\ refused = {}

Finish(rule) == phase' = "over" /\ endedBy' = rule

\* CascadeCtx.cancel, from the kernel; an agent's turn has no handle.
Cancel ==
    /\ Live /\ phase # "over" /\ ~cancelled
    /\ cancelled' = TRUE
    /\ UNCHANGED <<thread, phase, pass, reply, said, reported, counts, endedBy>>

BoundaryCancelled ==
    /\ phase = "boundary" /\ pass < MaxPasses /\ cancelled
    /\ Finish("cancel")
    /\ UNCHANGED <<thread, pass, cancelled, reply, said, reported, counts>>

\* Mutant: a pass starts with the answers of the last one.
SendKeepingResults ==
    /\ phase = "boundary" /\ pass < MaxPasses /\ ~cancelled
    /\ phase' = "streaming" /\ pass' = pass + 1
    /\ thought' = FALSE /\ speech' = {} /\ calls' = <<>> /\ length' = FALSE
    /\ refused' = {}
    /\ UNCHANGED <<thread, cancelled, said, results, reported, perTool,
                   lastFailed, failRun, unbound, endedBy>>

\* Mutant: a pass whose calls were all refused does not count.
SendUncounted ==
    /\ phase = "boundary" /\ pass < MaxPasses /\ ~cancelled
    /\ phase' = "streaming"
    /\ pass' = IF calls # <<>> /\ \A i \in DOMAIN calls : calls[i] \in refused
               THEN pass ELSE pass + 1
    /\ thought' = FALSE /\ speech' = {} /\ calls' = <<>> /\ length' = FALSE
    /\ results' = <<>> /\ refused' = {}
    /\ UNCHANGED <<thread, cancelled, said, reported, perTool, lastFailed,
                   failRun, unbound, endedBy>>

Send ==
    /\ phase = "boundary" /\ pass < MaxPasses /\ ~cancelled
    /\ phase' = "streaming" /\ pass' = pass + 1
    /\ thought' = FALSE /\ speech' = {} /\ calls' = <<>> /\ length' = FALSE
    /\ results' = <<>> /\ refused' = {}
    /\ UNCHANGED <<thread, cancelled, said, reported, perTool, lastFailed,
                   failRun, unbound, endedBy>>

Exhausted ==
    /\ phase = "boundary" /\ pass = MaxPasses
    /\ Finish("max_passes")
    /\ UNCHANGED <<thread, pass, cancelled, reply, said, reported, counts>>

\* A ThinkDelta.
Think ==
    /\ phase = "streaming" /\ ~cancelled /\ ~thought
    /\ thought' = TRUE
    /\ UNCHANGED <<thread, phase, pass, cancelled, speech, said, calls, length,
                   results, reported, counts, endedBy>>

\* A SpeechDelta that completes a sentence.
Say ==
    /\ phase = "streaming" /\ ~cancelled
    /\ Cardinality(speech) < MaxSentences
    /\ LET s == <<pass, Cardinality(speech) + 1>> IN
         /\ speech' = speech \union {s}
         /\ said' = IF Live THEN said \union {s} ELSE said
    /\ UNCHANGED <<thread, phase, pass, cancelled, thought, calls, length,
                   results, reported, counts, endedBy>>

\* partial_reply: what was said and thought of a reply cut short, if anything.
PartialReply ==
    IF thought \/ Spoken # {} THEN Append(thread, Assistant(<<>>, Spoken)) ELSE thread

\* The next event of the stream finds the interrupt.
CutMidStream ==
    /\ phase = "streaming" /\ cancelled
    /\ thread' = PartialReply
    /\ Finish("cancel")
    /\ UNCHANGED <<pass, cancelled, reply, said, reported, counts>>

\* A ModelError. A transport error keeps what was said, a server error
\* nothing: the message itself may be what the server rejects.
StreamBreaks(kind) ==
    /\ phase = "streaming"
    /\ thread' = IF kind = "transport" THEN PartialReply ELSE thread
    /\ Finish(kind)
    /\ UNCHANGED <<pass, cancelled, reply, said, reported, counts>>

\* The stream ends. An unterminated sentence is in the reply and not spoken
\* yet; a reply cut by max_tokens lost its calls in the adapter.
StreamEnds(c, tail, cut) ==
    /\ phase = "streaming"
    /\ cut => c = <<>>
    /\ tail => Cardinality(speech) < MaxSentences
    /\ phase' = "replied"
    /\ calls' = c /\ length' = cut
    /\ speech' = IF tail THEN speech \union {<<pass, Cardinality(speech) + 1>>}
                         ELSE speech
    /\ UNCHANGED <<thread, pass, cancelled, thought, said, results, reported,
                   counts, endedBy>>

\* Mutant: a call that never ran has no answer.
NoAnswer(cs) == <<>>

NotRun(cs) == [i \in DOMAIN cs |-> Answer(cs[i], "not_run")]

\* Mutant: a turn interrupted after its reply keeps the reply as it came.
KeepVerbatim ==
    /\ phase = "replied" /\ cancelled
    /\ thread' = Append(thread, Assistant(calls, speech)) \o NotRun(calls)
    /\ Finish("cancel")
    /\ UNCHANGED <<pass, cancelled, reply, said, reported, counts>>

\* Interrupted right after the reply: no call runs, each is answered, and
\* the reply says only what was said.
RepliedCancelled ==
    /\ phase = "replied" /\ cancelled
    /\ thread' = Append(thread, Assistant(calls, Spoken)) \o NotRun(calls)
    /\ Finish("cancel")
    /\ UNCHANGED <<pass, cancelled, reply, said, reported, counts>>

\* Mutant: the chunker is flushed before the interrupt is looked at.
FlushAnyway ==
    /\ phase = "replied"
    /\ phase' = "tools"
    /\ said' = IF Live THEN said \union speech ELSE said
    /\ UNCHANGED <<thread, pass, cancelled, reply, reported, counts, endedBy>>

\* The chunker is flushed before any tool runs.
Flush ==
    /\ phase = "replied" /\ ~cancelled
    /\ phase' = "tools"
    /\ said' = IF Live THEN said \union speech ELSE said
    /\ UNCHANGED <<thread, pass, cancelled, reply, reported, counts, endedBy>>

-----------------------------------------------------------------------------
(* The tool calls of a reply and _Failures.add. The code adds a pass's     *)
(* results at its end; nothing reads the counters before.                  *)

CurrentCall == calls[Len(results) + 1]

\* Mutant: a refusal starts the streak of failures over.
CountRefusalResetting(t) ==
    /\ refused' = refused \union {t}
    /\ unbound' = IF t \in refused THEN unbound ELSE [unbound EXCEPT ![t] = @ + 1]
    /\ perTool' = [u \in Tools |-> 0] /\ lastFailed' = None /\ failRun' = 0

\* Mutant: every refusal of a pass counts.
CountEveryRefusal(t) ==
    /\ refused' = refused \union {t}
    /\ unbound' = [unbound EXCEPT ![t] = @ + 1]
    /\ UNCHANGED <<perTool, lastFailed, failRun>>

\* Parallel refusals of one tool count once per pass, and toward no rule of
\* failure.
CountRefusal(t) ==
    /\ refused' = refused \union {t}
    /\ unbound' = IF t \in refused THEN unbound ELSE [unbound EXCEPT ![t] = @ + 1]
    /\ UNCHANGED <<perTool, lastFailed, failRun>>

CountSuccess ==
    /\ perTool' = [t \in Tools |-> 0] /\ lastFailed' = None /\ failRun' = 0
    /\ UNCHANGED <<unbound, refused>>

\* Mutant: a failure of another tool does not start the count of this one over.
CountFailureAcrossTools(t) ==
    /\ IF Live
       THEN /\ failRun' = failRun + 1 /\ lastFailed' = t
            /\ perTool' = [perTool EXCEPT ![t] = @ + 1]
       ELSE /\ perTool' = [perTool EXCEPT ![t] = @ + 1]
            /\ UNCHANGED <<lastFailed, failRun>>
    /\ UNCHANGED <<unbound, refused>>

\* safe_mode: another tool's failure starts the tool's own count over;
\* stuck_tool: the counts add up across tools.
CountFailure(t) ==
    /\ IF Live
       THEN /\ failRun' = failRun + 1 /\ lastFailed' = t
            /\ perTool' = IF t = lastFailed THEN [perTool EXCEPT ![t] = @ + 1]
                          ELSE [u \in Tools |-> IF u = t THEN 1 ELSE 0]
       ELSE /\ perTool' = [perTool EXCEPT ![t] = @ + 1]
            /\ UNCHANGED <<lastFailed, failRun>>
    /\ UNCHANGED <<unbound, refused>>

\* One call, in the reply's order, run to its end.
RunCall(status) ==
    /\ phase = "tools" /\ Len(results) < Len(calls) /\ ~cancelled
    /\ results' = Append(results, Answer(CurrentCall, status))
    /\ CASE status = "ok"       -> CountSuccess
         [] status = "failed"   -> CountFailure(CurrentCall)
         [] status = "unbound"  -> CountRefusal(CurrentCall)
    /\ reported' = (reported \/ (CurrentCall = Report /\ status = "ok"))
    /\ UNCHANGED <<thread, phase, pass, cancelled, thought, speech, said, calls,
                   length, endedBy>>

\* Once interrupted, the call and the rest are answered and not run.
SkipCalls ==
    /\ phase = "tools" /\ Len(results) < Len(calls) /\ cancelled
    /\ results' = results \o
         NotRun(SubSeq(calls, Len(results) + 1, Len(calls)))
    /\ UNCHANGED <<thread, phase, pass, cancelled, thought, speech, said, calls,
                   length, reported, counts, endedBy>>

-----------------------------------------------------------------------------
Stuck(t) == perTool[t] >= FailLimit

\* Mutant: the limits are looked at before the report.
VerdictOfLimitsFirst ==
    IF cancelled THEN "cancel"
    ELSE IF length THEN "max_tokens"
    ELSE IF \E t \in Tools : Stuck(t) THEN "stuck_tool"
    ELSE IF \E t \in Tools : unbound[t] >= UnboundLimit THEN "unbound_limit"
    ELSE IF ~Live /\ reported THEN "report"
    ELSE IF calls = <<>> THEN "no_tool_calls"
    ELSE None

\* Why the pass just appended ends the turn: the rules in run()'s order.
Verdict ==
    IF cancelled THEN "cancel"
    ELSE IF length THEN "max_tokens"
    ELSE IF ~Live /\ reported THEN "report"
    ELSE IF calls = <<>> THEN "no_tool_calls"
    ELSE IF Live /\ (failRun >= FailLimit \/ \E t \in Tools : Stuck(t)) THEN "safe_mode"
    ELSE IF ~Live /\ \E t \in Tools : Stuck(t) THEN "stuck_tool"
    ELSE IF \E t \in Tools : unbound[t] >= UnboundLimit THEN "unbound_limit"
    ELSE None

EndPass ==
    /\ phase = "tools" /\ Len(results) = Len(calls)
    /\ thread' = Append(thread, Assistant(calls, speech)) \o results
    /\ IF Verdict = None
       THEN phase' = "boundary" /\ UNCHANGED endedBy
       ELSE Finish(Verdict)
    /\ UNCHANGED <<pass, cancelled, reply, said, reported, counts>>

\* The turn's result goes back to its caller.
Over == phase = "over" /\ UNCHANGED vars

Next ==
    /\ UNCHANGED policy
    /\ \/ Cancel
       \/ BoundaryCancelled \/ Send \/ Exhausted
       \/ Think \/ Say \/ CutMidStream
       \/ \E kind \in {"transport", "server"} : StreamBreaks(kind)
       \/ \E c \in CallLists, tail, cut \in BOOLEAN : StreamEnds(c, tail, cut)
       \/ RepliedCancelled \/ Flush
       \/ \E status \in {"ok", "failed", "unbound"} : RunCall(status)
       \/ SkipCalls \/ EndPass
       \/ Over

Spec == Init /\ [][Next]_vars

-----------------------------------------------------------------------------
Messages == {User} \union [role : {"assistant"}, calls : CallLists, content : SUBSET Sentences]
            \union [role : {"tool"}, tool : Tools,
                    status : {"ok", "failed", "unbound", "not_run"}]

TypeOK ==
    /\ policy \in Policies
    /\ \A i \in DOMAIN thread : thread[i] \in Messages
    /\ phase \in {"boundary", "streaming", "replied", "tools", "over"}
    /\ pass \in 0..MaxPasses
    /\ cancelled \in BOOLEAN /\ thought \in BOOLEAN /\ length \in BOOLEAN
    /\ speech \subseteq Sentences /\ said \subseteq Sentences
    /\ calls \in CallLists /\ Len(results) <= Len(calls)
    /\ reported \in BOOLEAN
    /\ perTool \in [Tools -> Nat] /\ lastFailed \in Tools \union {None}
    /\ failRun \in Nat /\ unbound \in [Tools -> Nat] /\ refused \subseteq Tools
    /\ endedBy \in Endings \union {None} /\ (endedBy # None <=> phase = "over")

At(role) == {i \in DOMAIN thread : thread[i].role = role}

\* Every call in the thread has its one answer, right behind its reply and in
\* the order of the calls, however the turn was interrupted: the server's
\* template pairs results with calls by order only.
EveryCallAnswered ==
    /\ TypeOK
    /\ \A i \in At("assistant") :
         /\ i + Len(thread[i].calls) <= Len(thread)
         /\ \A k \in DOMAIN thread[i].calls :
               /\ thread[i + k].role = "tool"
               /\ thread[i + k].tool = thread[i].calls[k]
    /\ \A i \in At("tool") :
         \E j \in At("assistant") : i \in (j + 1)..(j + Len(thread[j].calls))

Kept == UNION {thread[i].content : i \in At("assistant")}

\* What she remembers saying is what was heard: the thread of a live turn
\* holds no sentence that was not handed to speak, and when the turn is over
\* every spoken one, unless a server error dropped the last reply.
RemembersWhatWasHeard ==
    Live => /\ Kept \subseteq said
            /\ (phase \in {"boundary", "over"} /\ endedBy # "server") => said \subseteq Kept

\* What the turn leaves behind is well-formed and true, however it ended.
ThreadTellsTheTurn == EveryCallAnswered /\ RemembersWhatWasHeard

\* An interrupt stops the turn where it is: after it no request is sent, no
\* sentence is spoken and no tool runs.
NothingStartsAfterCancel ==
    [][cancelled => /\ said' = said /\ pass' = pass
                    /\ \A i \in DOMAIN results' \ DOMAIN results :
                          results'[i].status = "not_run"]_vars

\* The streaks as the thread shows them: failures with no success behind them,
\* and the replies with a refused call.
Failing    == {i \in At("tool") :
                 /\ thread[i].status = "failed"
                 /\ \A j \in At("tool") : j > i => thread[j].status # "ok"}
FailingOf(t) == {i \in Failing : thread[i].tool = t}
RefusedReplies(t) ==
    {i \in At("assistant") :
        \E k \in DOMAIN thread[i].calls : thread[i + k] = Answer(t, "unbound")}

Tripped ==
    \/ Live /\ Cardinality(Failing) >= FailLimit
    \/ ~Live /\ \E t \in Tools : Cardinality(FailingOf(t)) >= FailLimit
Overrefused == \E t \in Tools : Cardinality(RefusedReplies(t)) >= UnboundLimit

\* The counters agree with the thread: no request is sent on a streak or on
\* refusals that end the turn, and no turn is ended for one it does not have,
\* over refusals, parallel calls and successes in any order.
EndsForTheRightReason ==
    /\ phase = "streaming" => ~Tripped /\ ~Overrefused
    /\ endedBy \in {"safe_mode", "stuck_tool"} => Tripped
    /\ endedBy = "unbound_limit" => Overrefused /\ ~Tripped

\* The announced reason is true: when a live turn says one tool failed three
\* times in a row, the last three failures are that tool's.
StuckToolIsTheLastToFail ==
    (Live /\ phase = "over" /\ endedBy = "safe_mode") =>
        \A t \in Tools : Stuck(t) =>
            \E i \in Failing : /\ Cardinality({j \in Failing : j >= i}) = FailLimit
                               /\ \A j \in Failing : j >= i => thread[j].tool = t

\* An agent that reported is done: no further reply is asked for, and its turn
\* counts as reported whatever the calls next to Report did.
ReportEndsTheTurn ==
    (~Live /\ reported) => /\ phase # "streaming"
                           /\ phase = "over" => endedBy = "report"

\* A turn goes on or ends, and says why, as its thread warrants.
EndingIsRight == EndsForTheRightReason /\ StuckToolIsTheLastToFail /\ ReportEndsTheTurn

\* What a pass has still to do at most: sentences, thinking, calls, and its ends.
StepsLeft ==
    (IF cancelled THEN 0 ELSE 1) +
    CASE phase = "streaming" -> (MaxSentences - Cardinality(speech))
                                 + (IF thought THEN 0 ELSE 1) + MaxCalls + 4
      [] phase = "replied"   -> MaxCalls + 3
      [] phase = "tools"     -> (Len(calls) - Len(results)) + 2
      [] phase = "boundary"  -> 1
      [] phase = "over"      -> 0

\* Every step brings the turn nearer to its end: it begins one more of the
\* passes it may make, or leaves less to do in this one.  Interrupts, refusals
\* and failures in any order never buy a turn more than its policy gives it.
EveryStepCounts ==
    [][\/ pass' = pass + 1 /\ pass' <= MaxPasses
       \/ pass' = pass /\ StepsLeft' \in Nat /\ StepsLeft' < StepsLeft]_vars

CascadeOfRun == INSTANCE Cascade WITH
    turn <- IF phase = "over" THEN "idle" ELSE "speaking", said <- Cardinality(said)

\* A run of the loop is one turn as the rest of DollOS takes it: sentences go out
\* one at a time, and none after a cancel, the unfinished last one included.
IsACascade == CascadeOfRun!Spec

\* One run, one turn: stopped where it is interrupted, bounded, and to the rest of
\* DollOS a cascade.
RunIsOneTurn == NothingStartsAfterCancel /\ EveryStepCounts /\ IsACascade
=============================================================================
