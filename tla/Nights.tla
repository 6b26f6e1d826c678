-------------------------------- MODULE Nights --------------------------------
(***************************************************************************)
(* What Doll does with her days while nobody talks to her: the            *)
(* consolidation trigger turns the oldest sealed transcript into notes and *)
(* has the profile keeper go over the same day, and both share the state   *)
(* of the mind and the self profile with the turns of the mind loop.       *)
(*                                                                         *)
(* Abstractions.  A day's transcript is the speakers of its conversation   *)
(* and whether there are action-log lines in it; a day's notes are what    *)
(* they were written from.  Of time only what the trigger asks: has the    *)
(* conversation been idle long enough, is the last attempt too recent.     *)
(* The relationship and user sections behave alike and are one, "owner".   *)
(* The profile is what its file is parsed to; an entry is the number of    *)
(* its text, in the order texts were written.  The size limit of the       *)
(* profile is a number of entries.                                         *)
(*                                                                         *)
(* A step is what a task does between two awaits; a tool call that edits   *)
(* the profile reads and writes the file in one.                           *)
(***************************************************************************)
EXTENDS Naturals, Sequences, FiniteSets, FiniteSetsExt

CONSTANTS
    LastDay,        \* bound: days the calendar reaches
    MaxEvents,      \* bound: the owner's messages, turns of her own, edits of the
                    \* profile, failures and crashes there are in all
    MaxEntries,     \* self_profile.max_chars, in entries
    TailLines       \* transcript_tail_chars, in lines

ASSUME NightsAssumption ==
    /\ LastDay \in Nat /\ LastDay >= 2 /\ {MaxEntries, TailLines} \subseteq Nat \ {0}
    /\ MaxEvents \in Nat

Days     == 1..LastDay
Sections == {"self", "owner"}   \* in the order of the file
Nobody   == 0       \* no day under way
Kinds    == {"owner", "reflection", "other"}

VARIABLES
    today,      \* the date
    lines,      \* transcripts/: the speakers of each day's conversation
    acted,      \* transcripts/: the days with action-log lines
    notes,      \* consolidated/: what a day's notes came from, if there are notes
    mem,        \* MindState: owner turns, turns and day last consolidated, and
                \* whether the last attempt is too recent for another
    disk,       \* its saved copy
    up,         \* the process runs
    idle,       \* the conversation has been idle for idle_threshold_s
    inbox,      \* the owner's messages no turn has served (write-ahead log)
    turn,       \* the mind loop's turn, "none" between two
    page,       \* the entries of her own section that turn was shown
    night,      \* the trigger: sleep, reading, indexing, keeping; and ended or
                \* failed when its task has finished and it has not yet resumed
    target,     \* the day it works on
    heard,      \* the transcript its agent was given
    axed,       \* its current task was cancelled and has not noticed
    profile,    \* self_profile.md: the entries of each section
    texts,      \* texts ever written to it
    mangled,    \* those of them that were not read back as one entry
    events,     \* how many of what is bounded there was
    kept,       \* ghost: keeper runs begun for each day
    mistaken    \* ghost: an edit of her own section hit an entry its turn was not shown

calendar == <<today, lines, acted>>
state    == <<mem, disk>>
mind     == <<turn, page>>
trigger  == <<night, target, heard, axed>>
store    == <<profile, texts, mangled, mistaken>>
vars     == <<calendar, notes, state, up, idle, inbox, mind, trigger, store, events, kept>>

Working == {"reading", "indexing", "keeping"}

\* The second day of her life: he talked to her on the first.
Init ==
    /\ today = 2 /\ lines = [d \in Days |-> IF d = 1 THEN <<"owner">> ELSE << >>]
    /\ acted = {} /\ notes = [d \in Days |-> {}]
    /\ mem = [turns |-> 1, last |-> 0, upto |-> 0, hot |-> FALSE] /\ disk = mem
    /\ up = TRUE /\ idle = FALSE /\ inbox = 0
    /\ turn = "none" /\ page = {}
    /\ night = "sleep" /\ target = Nobody /\ heard = << >> /\ axed = FALSE
    /\ profile = [s \in Sections |-> IF s = "self" THEN <<1>> ELSE <<2>>]
    /\ texts = 2 /\ mangled = 0 /\ mistaken = FALSE
    /\ events = 0
    /\ kept = [d \in Days |-> 0]

\* One of the things the model has a bounded number of.
Happens == events < MaxEvents /\ events' = events + 1

(***************************************************************************)
(* Time                                                                    *)
(***************************************************************************)
Midnight ==
    /\ today < LastDay
    /\ today' = today + 1
    /\ UNCHANGED <<lines, acted, notes, state, up, idle, inbox, mind, trigger, store, events, kept>>

\* Nobody has spoken and no turn has ended for the idle threshold.
Quiet ==
    /\ ~idle
    /\ idle' = TRUE
    /\ UNCHANGED <<calendar, notes, state, up, inbox, mind, trigger, store, events, kept>>

\* The minimal interval since the last attempt is over.
Cool ==
    /\ mem.hot \/ disk.hot
    /\ mem' = [mem EXCEPT !.hot = FALSE]
    /\ disk' = [disk EXCEPT !.hot = FALSE]
    /\ UNCHANGED <<calendar, notes, up, idle, inbox, mind, trigger, store, events, kept>>

(***************************************************************************)
(* The self profile                                                        *)
(***************************************************************************)
AllOf(seq)   == {seq[i] : i \in DOMAIN seq}
Before(s, i) == SubSeq(profile[s], 1, i - 1)
After(s, i)  == SubSeq(profile[s], i + 1, Len(profile[s]))

Fits(n) == Len(profile["self"]) + Len(profile["owner"]) + n <= MaxEntries

\* Section s as it is read back with a heading of section z in the middle: what
\* comes after stands in z, or nowhere if no section has that title.
Reread(s, head, z, rest) ==
    [p \in Sections |-> IF p = s THEN IF z = s THEN head \o rest ELSE head
                        ELSE IF p # z THEN profile[p]
                        ELSE IF p = "self" THEN profile[p] \o rest ELSE rest \o profile[p]]

\* A text is written as it comes and read back line by line, as one entry if it
\* is one line.  A further line that looks like an entry is one (bound: one such);
\* before it, one that looks like a heading opens a section; any other is dropped.
Write(s, i, added) ==
    LET new == texts + 1 IN
    /\ texts' = new
    /\ \/ /\ Fits(added)
          /\ profile' = Reread(s, Before(s, i) \o <<new>>, s, After(s, i))
          /\ UNCHANGED mangled
       \/ /\ mangled' = mangled + 1
          /\ Fits(added + 1)
          /\ \E z \in Sections \union {"nowhere"} :
                profile' = Reread(s, Before(s, i) \o <<new>>, z, <<new>> \o After(s, i))

\* Adding what the section has already, or an empty text, changes nothing.
AddEntry(s) == Write(s, Len(profile[s]) + 1, 1)

\* An entry replaced by an empty text is not read back: it is removed.
RemoveEntry(s, i) ==
    profile' = [profile EXCEPT ![s] = Before(s, i) \o After(s, i)] /\ UNCHANGED <<texts, mangled>>

ReplaceEntry(s, i) == Write(s, i, 0)

\* A target is resolved in all sections: by an id anywhere in it, else by its
\* words, else by the only entry it overlaps with.  Of ids and words nothing is
\* kept here: it may resolve to any entry, or to none.
Hits(s, i) == mistaken' = (mistaken \/ (s = "self" /\ profile[s][i] \notin page))

\* An edit is answered with the id it touched.
Learn == page' = page \union (AllOf(profile'["self"]) \ AllOf(profile["self"]))

(***************************************************************************)
(* The owner and the mind loop                                             *)
(***************************************************************************)
\* UserSpoke at its ingress: whatever the trigger has running is cancelled.
\* A task that has finished is left alone, resumed or not.
CancelCurrent == axed' = (axed \/ night \in Working)

OwnerSpeaks ==
    /\ up /\ Happens
    /\ inbox' = inbox + 1
    /\ CancelCurrent
    /\ UNCHANGED <<calendar, notes, state, up, idle, mind, night, target, heard, store, kept>>

\* append_transcript: onto the file of the day the line is written on.  A write
\* that fails is logged, and the turn goes on.
Transcribed(speaker) == {lines, [lines EXCEPT ![today] = Append(@, speaker)]}

StartTurn(kind) ==
    /\ up /\ turn = "none"
    /\ turn' = kind /\ page' = AllOf(profile["self"])
    /\ IF kind = "owner"
       THEN /\ inbox > 0
            /\ mem' = [mem EXCEPT !.turns = @ + 1]
            /\ idle' = FALSE
            /\ lines' \in Transcribed("owner")
            /\ UNCHANGED events
       ELSE /\ Happens
            /\ UNCHANGED <<mem, idle, lines>>
    /\ UNCHANGED <<today, acted, notes, disk, up, inbox, trigger, store, kept>>

Revisable == IF turn = "reflection" THEN Sections ELSE {"owner"}

\* Mutant: only the section a call names is checked.
MayPinByName(s, located) == {s} \subseteq Revisable

\* PinSelf: the section it names and, for an entry that is there, the section
\* the entry is in must both be the turn's to write.
MayPin(s, located) == {s} \cup located \subseteq Revisable

PinAdd(s) == MayPin(s, {}) /\ AddEntry(s) /\ UNCHANGED mistaken

PinEdit(named, s, i) ==
    /\ MayPin(named, {s})
    /\ Hits(s, i)
    /\ ReplaceEntry(s, i) \/ RemoveEntry(s, i)

PinSelf ==
    /\ turn # "none" /\ Happens
    /\ \/ \E s \in Sections : PinAdd(s)
       \/ \E named, s \in Sections : \E i \in DOMAIN profile[s] : PinEdit(named, s, i)
    /\ Learn
    /\ UNCHANGED <<calendar, notes, state, up, idle, inbox, turn, trigger, kept>>

\* What she said is a line of the day's conversation, in the turns the owner may
\* read, and what she did a line of its action log, which tells of nothing on a
\* day with a conversation.  The turn saves the state; its message is served.
EndTurn ==
    /\ turn # "none"
    /\ \/ lines' \in Transcribed("me") /\ UNCHANGED acted
       \/ acted' = acted \union {today} /\ UNCHANGED lines
    /\ idle' = FALSE
    /\ disk' = mem
    /\ inbox' = IF turn = "owner" THEN inbox - 1 ELSE inbox
    /\ turn' = "none" /\ page' = {}
    /\ UNCHANGED <<today, notes, mem, up, trigger, store, events, kept>>

(***************************************************************************)
(* The trigger                                                             *)
(***************************************************************************)
\* The gates, but for the system pulse's (see Poll).
ShouldConsolidate == idle /\ mem.turns > mem.last /\ ~mem.hot

HasFile(d) == lines[d] # << >> \/ d \in acted

\* Mutant: today counts as sealed.
CandidatesWithToday == {d \in Days : d <= today /\ d > mem.upto /\ HasFile(d)}

Candidates == {d \in Days : d < today /\ d > mem.upto /\ HasFile(d)}

PickTarget == IF Candidates = {} THEN Nobody ELSE Min(Candidates)

\* Restoring her energy, when that is due, saves the state, all of it.
MaybeRestored == {disk, mem}

\* What the agent is given of a day: the action-log lines are left out, and of
\* the conversation only the end is kept.
GivenOf(seq) == SubSeq(seq, IF Len(seq) > TailLines THEN Len(seq) - TailLines + 1 ELSE 1, Len(seq))

\* A round of the loop that begins nothing: it is not time, or the system pulse
\* has it that somebody is at the computer, which it may whenever it reads.
Poll ==
    /\ up /\ night = "sleep"
    /\ disk' \in MaybeRestored
    /\ UNCHANGED <<calendar, notes, mem, up, idle, inbox, mind, trigger, store, events, kept>>

Begins ==
    /\ up /\ night = "sleep" /\ ShouldConsolidate
    /\ mem' = [mem EXCEPT !.hot = TRUE]
    /\ IF PickTarget = Nobody
       THEN disk' = mem' /\ UNCHANGED <<night, target, heard>>
       ELSE /\ disk' \in MaybeRestored
            /\ night' = "reading" /\ target' = PickTarget
            /\ heard' = GivenOf(lines[PickTarget])
    /\ UNCHANGED <<calendar, notes, up, idle, inbox, mind, axed, store, events, kept>>

\* The agent reports and the notes are written, to be indexed.
Reports ==
    /\ night = "reading" /\ ~axed
    /\ notes' = [notes EXCEPT ![target] = {heard}]
    /\ night' = "indexing"
    /\ UNCHANGED <<calendar, state, up, idle, inbox, mind, target, heard, axed, store, events, kept>>

Indexed ==
    /\ night = "indexing" /\ ~axed
    /\ night' = "ended"
    /\ UNCHANGED <<calendar, notes, state, up, idle, inbox, mind, target, heard, axed, store, events, kept>>

Telling(seq) == "owner" \in AllOf(seq)

\* No report, one without details, a timeout, or an error on the way.  Of a
\* transcript without a line of the owner's the agent may never make anything;
\* the failures that are bounded are the others.
Fails ==
    /\ night \in {"reading", "indexing"} /\ ~axed
    /\ IF night = "reading" /\ ~Telling(heard)
       THEN UNCHANGED events
       ELSE Happens
    /\ night' = "failed"
    /\ UNCHANGED <<calendar, notes, state, up, idle, inbox, mind, target, heard, axed, store, kept>>

Rest == night' = "sleep" /\ target' = Nobody /\ heard' = << >>

\* Mutant: the state is saved when the keeper is through, with everything else.
CycleOnUnsaved ==
    /\ night = "ended"
    /\ mem' = [mem EXCEPT !.last = mem.turns, !.upto = target]
    /\ night' = "keeping"
    /\ kept' = [kept EXCEPT ![target] = @ + 1]
    /\ UNCHANGED <<calendar, notes, disk, up, idle, inbox, mind, target, heard, axed, store, events>>

\* The trigger resumes after a success: it saves how far it got, then starts
\* the keeper, which reads the profile.
CycleOn ==
    /\ night = "ended"
    /\ mem' = [mem EXCEPT !.last = mem.turns, !.upto = target]
    /\ disk' = mem'
    /\ night' = "keeping"
    /\ kept' = [kept EXCEPT ![target] = @ + 1]
    /\ UNCHANGED <<calendar, notes, up, idle, inbox, mind, target, heard, axed, store, events>>

\* Mutant: a failed attempt uses up the turns that called for it, too.
CycleEndsSpent ==
    /\ night = "failed"
    /\ mem' = [mem EXCEPT !.last = mem.turns] /\ disk' = mem'
    /\ Rest
    /\ UNCHANGED <<calendar, notes, up, idle, inbox, mind, axed, store, events, kept>>

CycleEnds ==
    /\ night = "failed"
    /\ disk' = mem
    /\ Rest
    /\ UNCHANGED <<calendar, notes, mem, up, idle, inbox, mind, axed, store, events, kept>>

\* EditOwnerProfile: a target in another section is refused, and so is an edit
\* no line of the owner that day, given or not, can be quoted for.
KeeperEdits ==
    /\ night = "keeping" /\ ~axed /\ Telling(lines[target]) /\ Happens
    /\ \/ AddEntry("owner")
       \/ \E i \in DOMAIN profile["owner"] : ReplaceEntry("owner", i) \/ RemoveEntry("owner", i)
    /\ UNCHANGED <<calendar, notes, state, up, idle, inbox, mind, trigger, mistaken, kept>>

\* It reports, times out or fails; nothing of that is looked at.
KeeperEnds ==
    /\ night = "keeping" /\ ~axed
    /\ Rest
    /\ UNCHANGED <<calendar, notes, state, up, idle, inbox, mind, axed, store, events, kept>>

\* The cancelled task unwinds into the loop, which saves the cooldown.
Unwinds ==
    /\ axed
    /\ axed' = FALSE
    /\ Rest
    /\ disk' = mem
    /\ UNCHANGED <<calendar, notes, mem, up, idle, inbox, mind, store, events, kept>>

(***************************************************************************)
(* Crash and restart                                                       *)
(***************************************************************************)
Crash ==
    /\ up /\ Happens
    /\ up' = FALSE
    /\ turn' = "none" /\ page' = {}
    /\ Rest /\ axed' = FALSE
    /\ UNCHANGED <<calendar, notes, state, idle, inbox, store, kept>>

Boot ==
    /\ ~up
    /\ up' = TRUE /\ mem' = disk
    /\ UNCHANGED <<calendar, notes, disk, idle, inbox, mind, trigger, store, events, kept>>

Next ==
    \/ Midnight \/ Quiet \/ Cool
    \/ OwnerSpeaks \/ (\E kind \in Kinds : StartTurn(kind)) \/ PinSelf \/ EndTurn
    \/ Poll \/ Begins \/ Reports \/ Indexed \/ Fails \/ CycleOn \/ CycleEnds
    \/ KeeperEdits \/ KeeperEnds \/ Unwinds
    \/ Crash \/ Boot

Spec == Init /\ [][Next]_vars

\* The trigger's task goes on, to an agent's report or its limit;
\* the mind loop goes on; clocks move, and a process that died is started again.
\* Nothing is assumed of who speaks.
FairSpec ==
    /\ Spec
    /\ WF_vars(Quiet) /\ WF_vars(Cool) /\ WF_vars(Boot)
    /\ WF_vars(Reports \/ Indexed \/ Fails \/ CycleOn \/ CycleEnds \/ KeeperEnds \/ Unwinds)
    /\ WF_vars(StartTurn("owner") \/ EndTurn)

--------------------------------------------------------------------------------
States == [turns : Nat, last : Nat, upto : 0..LastDay, hot : BOOLEAN]

Transcripts == Seq({"owner", "me"})

\* Type invariant of the trigger, the state it shares with the mind loop and
\* the profile: a target exactly while there is work, a pending cancel only of
\* a running task.
TypeOK ==
    /\ today \in Days /\ lines \in [Days -> Transcripts] /\ acted \subseteq Days
    /\ notes \in [Days -> SUBSET Transcripts]
    /\ mem \in States /\ disk \in States
    /\ up \in BOOLEAN /\ idle \in BOOLEAN /\ inbox \in Nat
    /\ turn \in Kinds \cup {"none"} /\ page \subseteq Nat
    /\ night \in Working \cup {"sleep", "ended", "failed"}
    /\ target \in 0..LastDay /\ (target = Nobody <=> night = "sleep")
    /\ heard \in Transcripts
    /\ axed \in BOOLEAN /\ (axed => night \in Working)
    /\ profile \in [Sections -> Seq(Nat)] /\ texts \in Nat /\ mangled \in Nat
    /\ mistaken \in BOOLEAN
    /\ kept \in [Days -> Nat]

NotedFrom(d) == {GivenOf(lines[d])}

\* What the watermark has passed is done for good: there are notes of every such
\* day with a file, and they were written from all the agent is given of it,
\* the end of the conversation, with no line that came later, whatever turns,
\* failures, cancels and crashes came between (consolidation.py,
\* _pick_target_date and _cycle; no later attempt ever looks at the day again).
PassedDaysAreNoted ==
    \A d \in Days : HasFile(d) /\ (d <= disk.upto \/ d <= mem.upto) => notes[d] = NotedFrom(d)

\* The keeper goes over a day once at most, and only over one whose notes are
\* written: the state is saved before it starts, so that a crash in the middle
\* of its edits does not bring it back for the same corrections (_cycle).
KeptOnce == \A d \in Days : kept[d] <= 1 /\ (kept[d] = 1 => notes[d] = NotedFrom(d))

\* A day is consolidated once it is over, and gone over once.
DaysAreDoneOnce == TypeOK /\ PassedDaysAreNoted /\ KeptOnce

\* Her own section of the profile changes in reflection turns only, whichever
\* section a call names and whatever its target resolves to (PinSelf.run,
\* EditOwnerProfile.run: the entry found decides) - but for a text of several
\* lines, which may put entries under any heading when it is read back.  So it
\* is there, and there only, that an edit is sure to hit an entry its caller was
\* shown: the keeper adds and removes in the owner's sections while a turn still
\* has the old page, and the id it was shown may be another entry's (_next_id).
SelfIsForReflection ==
    /\ [][profile'["self"] # profile["self"] => turn = "reflection" \/ mangled' > mangled]_vars
    /\ [](mangled = 0 => ~mistaken)

OldestPending(d) ==
    /\ HasFile(d) /\ d < today /\ d > mem.upto
    /\ \A e \in Days : e < d => e <= mem.upto \/ ~HasFile(e)

\* The oldest sealed day not yet consolidated is, once there has been a turn of
\* the owner's since the last one was: failed attempts, his coming back, and a
\* crash only delay it (ConsolidationTrigger.run, with finitely many of each).
\* That is, if the pulse does not hold every round back, and if there is
\* something to tell in what the agent is given of that day: a day of which it
\* makes nothing stays the oldest and is tried for ever, and no later one ever is.
OldestDayGetsDone ==
    WF_vars(Begins) =>
        \A d \in Days : (OldestPending(d) /\ Telling(GivenOf(lines[d])) /\ mem.turns > mem.last)
                           ~> (disk.upto >= d)

================================================================================
