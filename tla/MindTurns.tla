------------------------------ MODULE MindTurns ------------------------------
(***************************************************************************)
(* MindLoop's turns, one after another: the batch decides who the turn     *)
(* acts for and what kind it is, ContextBuilder gives it the page of its   *)
(* place and adds what is new to it, every tool call goes through          *)
(* ToolExecutor, and the turn ends by returning or by raising.  What       *)
(* carries over from turn to turn is the pages, what each has been told    *)
(* and its taint, what her body last reported, safe mode, the day's diary  *)
(* retry and what tools wrote into memory.                                 *)
(*                                                                         *)
(* Abstractions.  Which perceptions queue together is free here and in     *)
(* PerceptionLog exact, so a turn takes any part of what is pending for    *)
(* its place; when the tool loop stops is TurnRunner's, so a turn makes    *)
(* any calls; a turn that returns is saved (PerceptionLog has the failing  *)
(* save).  foreign is a ghost: the thread has a stranger's words on it or  *)
(* a call on it asked for untrusted content.  What is followed is what     *)
(* tools read and write; her own speech, in the transcripts, is not.  The  *)
(* snapshot blocks are two versions, of what every place may see and of    *)
(* what only the owner's may; [Self pulse] and [Cognition] are the blocks  *)
(* of her body's two organs, by the signature of the latest sample of each *)
(* (that a new error repeats a block of the same signature is left out).   *)
(***************************************************************************)
EXTENDS ToolBinding, Sequences, FiniteSets, FiniteSetsExt

CONSTANTS
    OwnerDms, Publics,  \* channels: the owner's DMs, everyone else's
    MaxChannels,        \* MAX_CHANNEL_CONVERSATIONS
    Scopes,             \* bound: what may happen; each behaviour is in one of them
    MaxDays, MaxBoots,  \* bounds
    Facts,              \* chunks memory searches come up with
    HitsPerTurn,        \* MEMORY_HITS_PER_TURN
    MaxChanges,         \* bound: versions of a block, signatures of the body
    None

Private  == "private"
Channels == OwnerDms \union Publics
Places   == {Private} \union Channels

\* SystemPulse and CognitionWorker; a signature of each, 0 for none.
Organs    == {"pulse", "cognition"}
Signature == [Organs -> 0..MaxChanges]
Unsampled == [o \in Organs |-> 0]

\* A scope: the places something arrives at, the kinds of its origin-less
\* perceptions, whether it is the owner who writes in a public channel, the
\* names the model calls, the days and the processes, the facts searches find
\* and the versions of the blocks and the signatures of the body there are.
Scope == [places : SUBSET Places, moments : SUBSET STRING, authors : SUBSET BOOLEAN,
          called : SUBSET STRING, days : 1..MaxDays, boots : 1..MaxBoots,
          facts : SUBSET Facts, changes : 0..MaxChanges, samples : 0..MaxChanges]

\* A page in memory (see FreshPage).
Snapshots == UNION {[1..n -> 0..MaxChanges] : n \in 1..2}

Page == [tainted : BOOLEAN, due : BOOLEAN, blocks : Snapshots, hits : SUBSET Facts, told : BOOLEAN,
         foreign : BOOLEAN, holds : SUBSET Facts, shows : Snapshots, body : Signature]

ASSUME TurnsAssumption ==
    /\ OwnerDms \intersect Publics = {} /\ Private \notin Channels
    /\ None \notin Places /\ None \notin Page
    /\ MaxChannels \in Nat \ {0} /\ MaxDays \in Nat \ {0} /\ MaxBoots \in Nat \ {0}
    /\ HitsPerTurn \in Nat \ {0} /\ MaxChanges \in Nat
    /\ Scopes \subseteq Scope
    /\ \A s \in Scopes : None \notin s.called /\ "ChannelMessage" \notin s.moments

VARIABLES
    scope,      \* the scope of this behaviour, which never changes
    pending,    \* perceptions waiting, by place
    page,       \* ContextBuilder: the page of a place in memory
    recency,    \* the channels of its OrderedDict, least recently used first
    place,      \* where the current turn is, None between turns
    batch,      \* its perceptions
    tainted,    \* ctx.tainted
    foreign,    \* ghost: see above, of the current turn's thread
    wrote,      \* _turn_wrote_diary
    sources,    \* ctx.turn_memory_sources
    common,     \* the version of the blocks every place sees
    owners,     \* ... of those only the owner's places see
    body,       \* the signature of each organ's latest sample
    bodySent,   \* _last_emitted_sig
    safeMode,   \* state.safe_mode
    saved,      \* safe_mode in the state file
    retryDate,  \* _diary_retry_date, 0 for ""
    today, boots,
    unverified, \* ghost: memory directories that hold foreign text
    tripped,    \* ghost: safe mode entered, no UserSpoke turn since
    last        \* ghost: the tool that has just run

turn    == <<place, batch, tainted, foreign, wrote, sources>>
world   == <<common, owners, body>>
senses  == <<common, owners, body, bodySent>>
context == <<page, recency>>
safety  == <<safeMode, saved, tripped>>
clock   == <<today, boots>>
vars    == <<scope, pending, page, recency, place, batch, tainted, foreign, wrote, sources, senses,
             safeMode, saved, retryDate, today, boots, unverified, tripped,
             last>>

-----------------------------------------------------------------------------
Moment(k)      == [kind |-> k, owner |-> FALSE, dm |-> FALSE]
Message(o, d)  == [kind |-> "ChannelMessage", owner |-> o, dm |-> d]

\* What can arrive at a place. The owner in a public channel is no DM.
Inbox(pl) ==
    IF pl = Private THEN {Moment(k) : k \in scope.moments}
    ELSE IF pl \in OwnerDms THEN {Message(TRUE, TRUE)}
    ELSE {Message(o, FALSE) : o \in scope.authors}

Has(kind, b) == \E p \in b : p.kind = kind
SomeBatch(pl) == {b \in SUBSET pending[pl] : b # {}}

Principal == PrincipalOf(batch)
Stranger  == Principal = "external_public"
Kind      == EffectiveKind(MomentOf(batch), safeMode)
OneOff(b) == MomentOf(b) = "diary"

\* What the snapshot blocks of a place say.
Snapshot(pl) == IF pl \in Publics THEN <<common>> ELSE <<common, owners>>

\* A page: its taint, whether the next turn is to open a new one, its Seen
\* (blocks, hits, safe mode last heard) and, as ghosts, the foreign text, the
\* facts and the blocks that are on it and the blocks of the body it last carried.
NoPage    == None
FreshPage(pl) ==
    [tainted |-> FALSE, due |-> FALSE, blocks |-> Snapshot(pl), hits |-> {}, told |-> FALSE,
     foreign |-> FALSE, holds |-> {}, shows |-> Snapshot(pl),
     body |-> Unsampled]

\* tools._ORIGIN_DIR, _TAINTED_DIR and EXTERNAL_MEMORY_DIRS.
TierDir == [internal |-> "shared", external_dm |-> "external_dm",
            external_public |-> "external_public"]
Dirs         == {"shared", "external_dm", "external_public", "external_owner"}
ExternalDirs == {"external_public", "external_owner"}

\* Memory a turn that is no stranger's is given or recalls unasked.
Surfaces == unverified \ ExternalDirs

Init ==
    /\ scope \in Scopes
    /\ pending = [pl \in Places |-> {}]
    /\ page = [pl \in Places |-> NoPage] /\ recency = <<>>
    /\ place = None /\ batch = {} /\ tainted = FALSE /\ foreign = FALSE
    /\ wrote = FALSE /\ sources = {} /\ safeMode = FALSE /\ saved = FALSE
    /\ common = 0 /\ owners = 0 /\ body = Unsampled /\ bodySent = Unsampled
    /\ retryDate = 0 /\ today = 1 /\ boots = 1
    /\ unverified = {} /\ tripped = FALSE
    /\ last = None

Arrive(pl, p) ==
    /\ p \notin pending[pl]
    /\ pending' = [pending EXCEPT ![pl] = @ \union {p}]
    /\ last' = None
    /\ UNCHANGED <<turn, context, senses, safety, retryDate, clock, unverified>>

\* Tools, an observer, the clock or another turn change what a block says.
Changes ==
    /\ \/ common < scope.changes /\ common' = common + 1 /\ UNCHANGED owners
       \/ owners < scope.changes /\ owners' = owners + 1 /\ UNCHANGED common
    /\ last' = None
    /\ UNCHANGED <<pending, turn, context, body, bodySent, safety, retryDate, clock, unverified>>

\* The poll of the host, or a model call recorded: another signature, or one
\* it had before.
Samples ==
    /\ \E o \in Organs, sig \in 1..scope.samples : body' = [body EXCEPT ![o] = sig]
    /\ last' = None
    /\ UNCHANGED <<pending, turn, context, common, owners, bodySent, safety, retryDate, clock,
                   unverified>>

\* Midnight may pass at any time, in a turn too. CognitionWorker reads today's
\* calls only, and there are none yet.
NewDay ==
    /\ today < scope.days
    /\ today' = today + 1
    /\ body' = [body EXCEPT !["cognition"] = 0]
    /\ last' = None
    /\ UNCHANGED <<pending, turn, context, common, owners, bodySent, safety, retryDate, boots,
                   unverified>>

-----------------------------------------------------------------------------
(* The turn's start. *)

\* OrderedDict.move_to_end: what was behind c moves up, a new key is put last.
MovedToEnd(order, c) ==
    LET at == CHOOSE i \in DOMAIN order : order[i] = c IN
    IF \A i \in DOMAIN order : order[i] # c THEN Append(order, c)
    ELSE [i \in DOMAIN order |-> IF i < at THEN order[i]
                                ELSE IF i < Len(order) THEN order[i + 1] ELSE c]

\* Mutant: nothing is dropped.
StoreAll(pl, pg) ==
    /\ recency' = IF pl = Private THEN recency ELSE MovedToEnd(recency, pl)
    /\ page' = [page EXCEPT ![pl] = pg]

\* _touch and _store: the place's page is now the most recently used; past
\* the limit the least recently used channel's is dropped.
Store(pl, pg) ==
    LET used    == MovedToEnd(recency, pl)
        dropped == IF Len(used) > MaxChannels THEN {Head(used)} ELSE {}
    IN IF pl = Private
       THEN page' = [page EXCEPT ![pl] = pg] /\ UNCHANGED recency
       ELSE /\ recency' = IF dropped = {} THEN used ELSE Tail(used)
            /\ page' = [q \in Places |-> IF q \in dropped THEN NoPage
                                         ELSE IF q = pl THEN pg ELSE page[q]]

\* begin_turn's page: kept, or a new one (not in memory, another system
\* message or tool list, over budget, after a server error).
NewPage(pl, changed) == IF page[pl] = NoPage THEN TRUE ELSE changed \/ page[pl].due

\* Mutant: a new page is taken to hold what the last one did.
PageKeepingSeen(pl, changed) ==
    IF ~NewPage(pl, changed) THEN page[pl]
    ELSE IF page[pl] = NoPage THEN FreshPage(pl)
    ELSE [FreshPage(pl) EXCEPT !.hits = page[pl].hits]

PageOf(pl, changed) == IF NewPage(pl, changed) THEN FreshPage(pl) ELSE page[pl]

\* Mutant: a one-off diary is told about the body, too.
ReadsBodyInDiary(pl, b) == pl = Private

ReadsBody(pl, b) == pl = Private /\ ~OneOff(b)

\* An organ with a sample gives its block to a new page (current_block), and
\* to an old one if it has another signature than the one last sent (snapshot).
Given(o, pl, b, fresh) ==
    ReadsBody(pl, b) /\ body[o] # 0 /\ (fresh \/ body[o] # bodySent[o])

\* What was sent, of the page or of all, with what is given now.
BodySignal(pl, b, fresh, sent) ==
    [o \in Organs |-> IF Given(o, pl, b, fresh) THEN body[o] ELSE sent[o]]

\* The facts a memory search may find: none for a stranger's turn, and for the
\* others any; a search that fails finds none.
Found(pl) == IF pl \in Publics THEN {{}} ELSE SUBSET scope.facts

\* May retrieval bring up foreign text, from a directory it does not leave out?
MayHit == IF Surfaces = {} THEN {FALSE} ELSE BOOLEAN

\* The hits among those found that are not on the page, so many at most.
NewHits(pg, found) ==
    kSubset(Min({HitsPerTurn, Cardinality(found \ pg.hits)}), found \ pg.hits)

\* render_turn_delta: the changed blocks, the body if it shifted, safe mode if
\* this page heard otherwise, and the new hits.
Delta(pl, pg, b, fresh, new) ==
    [pg EXCEPT !.blocks = Snapshot(pl),
               !.shows  = IF pg.blocks # Snapshot(pl) THEN Snapshot(pl) ELSE @,
               !.told   = safeMode',
               !.hits   = @ \union new, !.holds = @ \union new,
               !.body   = BodySignal(pl, b, fresh, @)]

\* Only the owner at the keyboard ends safe mode.
LeavesSafeMode(b) ==
    /\ safeMode' = (safeMode /\ ~Has("UserSpoke", b))
    /\ tripped' = (tripped /\ ~Has("UserSpoke", b))

Drained(pl, b) ==
    /\ place = None
    /\ pending' = [pending EXCEPT ![pl] = @ \ b]
    /\ LeavesSafeMode(b)
    /\ wrote' = FALSE
    /\ UNCHANGED world
    /\ last' = None

\* A pure diary is a one-off request on no page.
OneOffRequest ==
    /\ tainted' = FALSE /\ foreign' = FALSE /\ sources' = {}
    /\ UNCHANGED context

\* changed: the system message or the tools are others now, or the page is
\* over budget; hit: retrieval brings up foreign text; found: what it finds.
Begin(pl, b, changed, hit, found) ==
    /\ Drained(pl, b)
    /\ place' = pl /\ batch' = b
    /\ bodySent' = BodySignal(pl, b, NewPage(pl, changed), bodySent)
    /\ LET pg       == PageOf(pl, changed)
           stranger == PrincipalOf(b) = "external_public"
       IN IF OneOff(b)
          THEN OneOffRequest
          ELSE /\ tainted' = (pg.tainted /\ ~stranger)
               /\ foreign' = (pg.foreign \/ stranger \/ hit)
               /\ \E new \in NewHits(pg, found) :
                     LET next == Delta(pl, [pg EXCEPT !.foreign = foreign'], b, NewPage(pl, changed), new)
                     IN
                     sources' = found \intersect next.hits /\ Store(pl, next)
    /\ UNCHANGED <<saved, retryDate, clock, unverified>>

\* Before the page is opened the turn may raise (the tripwire's disk write):
\* the batch is gone from the queue, safe mode is left in memory only.
Aborts(pl, b) ==
    /\ Drained(pl, b)
    /\ UNCHANGED <<place, batch, tainted, foreign, sources, context, bodySent, saved, retryDate, clock,
                   unverified>>

-----------------------------------------------------------------------------
(* ToolExecutor.run, for one call. *)

\* Mutant: the taint a page brings along narrows nothing.
EffectiveBoundThisTurn ==
    BoundTools[Kind][Principal]
    \intersect IF tainted /\ (page[place] = NoPage \/ ~page[place].tainted)
               THEN TaintedTools ELSE OfferedTools[Principal]

EffectiveBound ==
    (BoundTools[Kind][Principal] \intersect OfferedTools[Principal])
    \intersect IF tainted /\ ~Stranger THEN TaintedTools ELSE OfferedTools[Principal]

\* Mutant: a note goes where its tier's notes go.
NoteDirByTier == TierDir[OriginTier[Principal]]

NoteDir == IF tainted THEN "external_owner" ELSE TierDir[OriginTier[Principal]]

WritesTo(tool) == CASE tool = "NoteMemory" -> {NoteDir}
                    [] tool = "WriteDiary" -> {TierDir[OriginTier[Principal]]}
                    [] OTHER               -> {}

\* Recall leaves the external directories out unless it is asked for them,
\* which CallTaints tells; what it reads in the others may be foreign unseen.
RecallsForeign(tool) == tool = "Recall" /\ Surfaces # {}

\* Bound: validated and run, failed or not.
Runs(tool, external, ok) ==
    /\ place # None /\ tool \in EffectiveBound
    /\ tainted' = (tainted \/ (~Stranger /\ CallTaints(tool, external)))
    /\ foreign' = (foreign \/ CallTaints(tool, external) \/ RecallsForeign(tool))
    /\ unverified' = IF ok /\ foreign THEN unverified \union WritesTo(tool) ELSE unverified
    /\ wrote' = (wrote \/ tool = "WriteDiary")
    /\ last' = [tool |-> tool, foreign |-> foreign, tripped |-> tripped]
    /\ UNCHANGED <<pending, place, batch, sources, context, senses, safety, retryDate, clock>>

\* Offered and not bound: refused, nothing runs.
Refused(tool) ==
    /\ place # None /\ tool \in OfferedTools[Principal] \ EffectiveBound
    /\ last' = None
    /\ UNCHANGED <<pending, turn, context, senses, safety, retryDate, clock, unverified>>

\* Not offered: an unknown tool, a failure; the diary flag goes by the name.
Denied(tool) ==
    /\ place # None /\ tool \notin OfferedTools[Principal]
    /\ wrote' = (wrote \/ tool = "WriteDiary")
    /\ last' = None
    /\ UNCHANGED <<pending, place, batch, tainted, foreign, sources, context, senses, safety, retryDate,
                   clock, unverified>>

-----------------------------------------------------------------------------
(* The turn's end. *)

\* Mutant: the taint is written back by the turns that return.
LeaveThreadClean(due) ==
    /\ page' = IF OneOff(batch) THEN page
               ELSE [page EXCEPT ![place] = [@ EXCEPT !.foreign = foreign, !.due = due]]
    /\ place' = None /\ batch' = {} /\ tainted' = FALSE /\ foreign' = FALSE
    /\ sources' = {} /\ last' = None

\* _llm_iterate's finally, and what the turn's messages left on the page.
LeaveThread(due) ==
    /\ page' = IF OneOff(batch) THEN page
               ELSE [page EXCEPT ![place] =
                       [@ EXCEPT !.tainted = page[place].tainted \/ tainted,
                                  !.foreign = foreign, !.due = due]]
    /\ place' = None /\ batch' = {} /\ tainted' = FALSE /\ foreign' = FALSE
    /\ sources' = {} /\ last' = None

Missed == Has("DiaryMoment", batch) /\ ~wrote

\* A missed diary is asked for again, once a day.
RetryOnce == retryDate' = IF Missed THEN today ELSE retryDate

\* _enter_safe_mode, when the runner says so: saved, and told once.
SafeModeEntered(trips) ==
    /\ safeMode' = (safeMode \/ trips)
    /\ tripped' = (tripped \/ trips)

\* The turn returns: trips is the runner's safe_mode verdict, due whether the
\* page reached its budget.
Returns(trips, due) ==
    /\ place # None
    /\ SafeModeEntered(trips) /\ saved' = safeMode'
    /\ RetryOnce
    /\ pending' = [pending EXCEPT ![Private] = @
         \union (IF trips /\ ~safeMode THEN {Moment("SafeModeEntered")} ELSE {})
         \union (IF retryDate' # retryDate THEN {Moment("DiaryMoment")} ELSE {})]
    /\ LeaveThread(due)
    /\ UNCHANGED <<recency, wrote, senses, clock, unverified>>

\* The model failed: the error is raised through the turn, and nothing after
\* the finally runs. A server error makes the page due.
BrainDown(server) ==
    /\ place # None
    /\ LeaveThread(server)
    /\ UNCHANGED <<pending, recency, wrote, senses, safety, retryDate, clock, unverified>>

\* Mutant: safe mode is not in the state file.
RestartForgets ==
    /\ boots < scope.boots /\ boots' = boots + 1
    /\ pending' = IF place = None THEN pending ELSE [pending EXCEPT ![place] = @ \union batch]
    /\ page' = [pl \in Places |-> NoPage] /\ recency' = <<>>
    /\ place' = None /\ batch' = {} /\ tainted' = FALSE /\ foreign' = FALSE
    /\ wrote' = FALSE /\ retryDate' = 0 /\ safeMode' = FALSE
    /\ body' = [body EXCEPT !["pulse"] = 0] /\ bodySent' = Unsampled /\ sources' = {}
    /\ last' = None
    /\ UNCHANGED <<common, owners, saved, tripped, today, unverified>>

\* The process dies or is stopped, and a new one starts: pages, the host's
\* sample and the retry date are gone, today's calls are read from the disk,
\* an unfinished turn's batch comes back from the log.
Restart ==
    /\ boots < scope.boots /\ boots' = boots + 1
    /\ pending' = IF place = None THEN pending ELSE [pending EXCEPT ![place] = @ \union batch]
    /\ page' = [pl \in Places |-> NoPage] /\ recency' = <<>>
    /\ place' = None /\ batch' = {} /\ tainted' = FALSE /\ foreign' = FALSE
    /\ wrote' = FALSE /\ retryDate' = 0 /\ safeMode' = saved
    /\ body' = [body EXCEPT !["pulse"] = 0] /\ bodySent' = Unsampled /\ sources' = {}
    /\ last' = None
    /\ UNCHANGED <<common, owners, saved, tripped, today, unverified>>

Next ==
    /\ UNCHANGED scope
    /\ \/ \E pl \in scope.places : \E p \in Inbox(pl) : Arrive(pl, p)
       \/ \E pl \in Places : \E b \in SomeBatch(pl) :
             \/ \E changed \in BOOLEAN : \E hit \in MayHit : \E found \in Found(pl) :
                   Begin(pl, b, changed, hit, found)
             \/ Aborts(pl, b)
       \/ \E tool \in scope.called : \/ \E external, ok \in BOOLEAN : Runs(tool, external, ok)
                                     \/ Refused(tool)
                                     \/ Denied(tool)
       \/ \E trips, due \in BOOLEAN : Returns(trips, due)
       \/ \E server \in BOOLEAN : BrainDown(server)
       \/ Changes \/ Samples \/ NewDay \/ Restart

Spec == Init /\ [][Next]_vars

-----------------------------------------------------------------------------
Perceptions(pl) ==
    Inbox(pl) \union (IF pl = Private THEN {Moment("SafeModeEntered"), Moment("DiaryMoment")}
                      ELSE {})

TypeOK ==
    /\ scope \in Scopes
    /\ pending \in [Places -> SUBSET UNION {Perceptions(pl) : pl \in Places}]
    /\ \A pl \in Places : pending[pl] \subseteq Perceptions(pl)
    /\ page \in [Places -> Page \union {NoPage}]
    /\ recency \in Seq(Channels) /\ Len(recency) <= MaxChannels
    /\ \A c \in Channels : page[c] # NoPage <=> \E i \in DOMAIN recency : recency[i] = c
    /\ place \in Places \union {None}
    /\ IF place = None THEN batch = {} ELSE batch # {} /\ batch \subseteq Perceptions(place)
    /\ tainted \in BOOLEAN /\ foreign \in BOOLEAN /\ wrote \in BOOLEAN /\ sources \subseteq Facts
    /\ {common, owners} \subseteq 0..MaxChanges /\ {body, bodySent} \subseteq Signature
    /\ safeMode \in BOOLEAN /\ saved \in BOOLEAN /\ tripped \in BOOLEAN
    /\ retryDate \in 0..MaxDays /\ today \in 1..MaxDays /\ boots \in 1..MaxBoots
    /\ unverified \subseteq Dirs
    /\ last \in {None} \union [tool : scope.called, foreign : BOOLEAN, tripped : BOOLEAN]

\* A turn that is not a stranger's is tainted exactly when its thread carries
\* foreign text: over turns on one page, turns that raise, pages that are
\* dropped or replaced, one-off diaries and notes that come back as memory.
TaintMatchesThread == TypeOK /\ ((place # None /\ ~Stranger) => (tainted <=> foreign))

\* A thread of hers with foreign text on it: nothing but a stranger's tools
\* runs there, no diary is written on it, and what is written while it is
\* there never reaches a directory her own turns are given unasked.
ForeignTextStaysApart ==
    /\ (last # None /\ ~Stranger) => (last.foreign => last.tool \in TaintedTools)
    /\ unverified \subseteq ExternalDirs

\* Taint is neither forgotten nor ignored.
TaintGoverns == TaintMatchesThread /\ ForeignTextStaysApart

\* From the turn that entered it until the owner speaks at the keyboard, safe
\* mode lets nothing run but the two reads: in every kind of turn, at every
\* place, over restarts.
SafeModeHolds == (last # None /\ last.tripped) => last.tool \in {"Recall", "ReadToolOutput"}

\* The tools that take the owner's word run only on a turn that has it.
OwnerToolsNeedTheOwner ==
    last # None => /\ last.tool = "LearnName" =>
                        \E p \in batch : p.kind = "UserSpoke" \/ (p.owner /\ p.dm)
                   /\ last.tool = "PinSelf" =>
                        \/ Has("ReflectionMoment", batch)
                        \/ \E p \in batch : p.kind = "UserSpoke" \/ (p.owner /\ p.dm)

\* Both guards, whatever is batched with what and whatever has happened since.
GuardsHold == SafeModeHolds /\ OwnerToolsNeedTheOwner

\* Whatever a page is taken to hold is on it, new page or old, and a turn's
\* provenance names only facts its page holds (hits_in_context, PursueGoal);
\* in a turn the page has heard whether safe mode is on, however many turns of
\* other places came between.
PageHoldsWhatItSaw ==
    /\ \A pl \in Places : page[pl] # NoPage =>
          page[pl].hits = page[pl].holds /\ page[pl].blocks = page[pl].shows
    /\ place # None /\ ~OneOff(batch) =>
          sources \subseteq page[place].holds /\ page[place].told = safeMode

\* What an organ counts as sent is what the private page carries: a shift is
\* never used up by a channel's turn, a diary or a turn that raised, and so
\* never hidden from her (SystemPulse and CognitionWorker, snapshot). The one
\* exception is a page opened after midnight before the day's first call: it
\* has no [Cognition] block, and the one yesterday's page had stays counted.
BodyIsNotLost ==
    page[Private] # NoPage =>
        \A o \in Organs : \/ page[Private].body[o] = bodySent[o]
                         \/ (o = "cognition" /\ page[Private].body[o] = 0 /\ today > 1)

\* What the code takes to be on a page is on it, and it is the latest that was
\* read for it.
PageIsTrue == PageHoldsWhatItSaw /\ BodyIsNotLost
=============================================================================
