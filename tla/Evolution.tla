------------------------------ MODULE Evolution ------------------------------
(***************************************************************************)
(* Self evolution: how the text of "Who I am now" changes.  A proposal     *)
(* lives in one slot (pending.json): the keeper's, from a background pass  *)
(* over her history; a counter, her rewrite of a proposal; or an external  *)
(* edit of current_self.md that the tripwire found.  A skeptic passes or   *)
(* kills it, a reflection turn shows it to her, and she adopts, rewrites   *)
(* or rejects it, or it expires.  The text in force is the last evo_adopt  *)
(* of self_history.jsonl; the file follows it.                             *)
(*                                                                         *)
(* Every operation is a list of writes made with no await between them:    *)
(* its action puts them in todo, and they are made one at a time, so that  *)
(* the process may die, or a write may fail, after any of them.  Nothing   *)
(* else of the process runs meanwhile.  (The trigger books a keeper's pass *)
(* one tick after its slot; nothing that fits in a tick reads or writes    *)
(* what it books.)                                                         *)
(*                                                                         *)
(* Abstractions.  A text stands for what echo_equivalent takes for the     *)
(* same; the history is what is read back of it; what an agent answers is  *)
(* free; time passes freely, so idleness, cool-downs and intervals are not *)
(* guards, and last_evolution_attempt_at and the interval are not state.   *)
(* The file is edited between lists of writes, not inside one.  A corrupt  *)
(* slot file and an unreadable file are left out.                          *)
(***************************************************************************)
EXTENDS Naturals, Sequences, FiniteSets

CONSTANTS
    Texts,          \* contents of current_self.md and of proposals
    Fit,            \* those that pass mechanical_checks
    MaxSurfacings,  \* evolution.pending_max_surfacings
    RoundCap,       \* COUNTER_ROUND_CAP
    ErrorBound,     \* VERDICT_ERRORS_BOUND
    MaxPins,        \* bound: pin events of the history
    MaxFaults,      \* bound: crashes and failed writes
    Absent          \* no text, no slot, no evidence

Fallbacks == [text : Fit, kind : {"keeper", "counter", "external"}]

Slots ==
    [kind : {"keeper", "counter", "external"},
     status : {"awaiting_skeptic", "awaiting_doll"},
     text : Fit, fallback : Fallbacks \union {Absent},
     round : 0..RoundCap, shown : 0..MaxSurfacings, errors : 0..(ErrorBound - 1),
     hwm : 0..MaxPins \union {Absent}]

\* What a background pass has read when it waits for the model.
Passes ==
    [job : {"skeptic"}, slot : Slots, old : Fit \union {Absent}]
    \union [job : {"keeper"}, hwm : 0..MaxPins, upto : 0..MaxPins]

ASSUME EvolutionAssumption ==
    /\ Fit \subseteq Texts
    /\ Absent \notin Texts \union Nat \union Fallbacks \union Slots \union Passes
    /\ MaxSurfacings \in Nat \ {0} /\ ErrorBound \in Nat \ {0}
    /\ RoundCap \in Nat /\ MaxPins \in Nat /\ MaxFaults \in Nat

VARIABLES
    hist,       \* read back of the log: the last evo_adopt's text and old_text,
                \* the unresolved external edit, texts with a birth line, pins
    torn,       \* the log ends in the middle of a line
    file,       \* current_self.md, Absent when empty or absent
    slot,       \* pending.json
    saved, hwm, \* evolution_hwm: in the state file, in MindState
    turn,       \* "none", "prelude" up to the surfacing, "talk" from there on
    seen,       \* the text surfaced this turn (evolution_candidate_surfaced)
    latched,    \* evolution_latched
    trigger,    \* EvolutionTrigger.current_task, and what it read at its start
    todo, by,   \* the writes still to make, and for whom: "turn", "tool", "pass"
    faults,
    \* history variables
    passed,     \* texts a skeptic passed since the slot was empty
    edited,     \* the file was edited since the tripwire last read it
    hurt,       \* since a tripwire last found no slot: a crash, a lost write, or
                \* a slot repaired away (which does not restore the file)
    glued,      \* an event went onto a torn line and cannot be read
    decided,    \* the evidence that met a verdict or her decision
    owed        \* an expiry's evidence: "no" (all given back), "owed", "lost"

memory == <<hwm, turn, seen, latched, trigger>>
ghosts == <<passed, edited, hurt, glued, decided, owed>>
evolutionVars ==
    <<hist, torn, file, slot, saved, memory, todo, by, faults, ghosts>>

Pending(status) == slot # Absent /\ slot.status = status

\* The process is at an await: no list of writes is under way.
Free == todo = <<>> /\ turn # "prelude"

-----------------------------------------------------------------------------
(* Slots and writes. *)

Slot(kind, status, text, evidence) ==
    [kind |-> kind, status |-> status, text |-> text, fallback |-> Absent,
     round |-> 0, shown |-> 0, errors |-> 0, hwm |-> evidence]

KeeperSlot(text, evidence) == Slot("keeper", "awaiting_doll", text, evidence)
ExternalSlot(text)         == Slot("external", "awaiting_skeptic", text, Absent)

\* Mutant: her rewrite forgets the evidence behind what it replaces.
ToCounterWithoutEvidence(s, text) ==
    [s EXCEPT !.kind = "counter", !.status = "awaiting_skeptic", !.text = text,
              !.fallback = [text |-> s.text, kind |-> s.kind],
              !.round = s.round + 1, !.shown = 0, !.errors = 0, !.hwm = Absent]

ToCounter(s, text) ==
    [s EXCEPT !.kind = "counter", !.status = "awaiting_skeptic", !.text = text,
              !.fallback = [text |-> s.text, kind |-> s.kind],
              !.round = s.round + 1, !.shown = 0, !.errors = 0]

RevertToFallback(s) ==
    [s EXCEPT !.kind = s.fallback.kind, !.status = "awaiting_doll",
              !.text = s.fallback.text, !.fallback = Absent, !.shown = 0, !.errors = 0]

LogEvent(kind, text) == [op |-> "log", kind |-> kind, text |-> text]
Save(s)         == [op |-> "slot", slot |-> s, new |-> FALSE]
Birth(s)        == [op |-> "slot", slot |-> s, new |-> TRUE]
Clear           == [op |-> "clear", owes |-> FALSE]
ClearExpired(s) == [op |-> "clear", owes |-> s.hwm # Absent]
Restore(text)   == [op |-> "restore", text |-> text]
Write(text)     == [op |-> "write", text |-> text]
Hwm(to, final)  == [op |-> "hwm", to |-> to, final |-> final]
SaveState       == [op |-> "save"]
Show(text)      == [op |-> "show", text |-> text]
Latch           == [op |-> "latch"]

Expire(s, text) ==
    <<LogEvent("expire", s.text), ClearExpired(s), Restore(text)>>
    \o IF s.hwm = Absent THEN <<>> ELSE <<Hwm(s.hwm, FALSE)>>

\* What the readers of the log find after an event: latest_adopt,
\* latest_external_edit_text, and for the properties the birth lines.
Recorded(kind, text) ==
    CASE kind = "adopt" ->
             [hist EXCEPT !.adopt = text, !.old = hist.adopt, !.edit = Absent]
      [] kind \in {"reject", "kill", "expire"} -> [hist EXCEPT !.edit = Absent]
      [] kind = "edit" /\ text # Absent ->
             [hist EXCEPT !.edit = text, !.born = @ \union {text}]
      [] kind \in {"candidate", "counter"} -> [hist EXCEPT !.born = @ \union {text}]
      [] OTHER -> hist

-----------------------------------------------------------------------------
EvolutionInit ==
    /\ hist = [adopt |-> Absent, old |-> Absent, edit |-> Absent, born |-> {}, pins |-> 0]
    /\ torn = FALSE /\ file = Absent /\ slot = Absent
    /\ saved = 0 /\ hwm = 0
    /\ turn = "none" /\ seen = Absent /\ latched = FALSE /\ trigger = Absent
    /\ todo = <<>> /\ by = "none" /\ faults = 0
    /\ passed = {} /\ edited = FALSE /\ hurt = FALSE /\ glued = FALSE
    /\ decided = 0 /\ owed = "no"

(* One write of the list. *)

Doing(op) == todo # <<>> /\ Head(todo).op = op
Left(writes, who) == todo' = writes /\ by' = IF writes = <<>> THEN "none" ELSE who
Done      == Left(Tail(todo), by) /\ UNCHANGED faults

\* The evidence up to a mark met a verdict or a decision; with it an expiry's is
\* made good, unless the file or the slot still has a mark beyond it.
Settle(mark, whole) ==
    /\ decided' = IF mark > decided THEN mark ELSE decided
    /\ owed' = IF whole /\ (slot = Absent \/ slot.hwm = Absent \/ slot.hwm <= decided')
               THEN "no" ELSE owed

\* An event that is a decision settles the evidence behind the proposal.
WriteLog ==
    /\ Doing("log") /\ Done
    /\ torn' = FALSE /\ glued' = (glued \/ torn)
    /\ hurt' = (hurt \/ torn \/ Head(todo).kind = "slot_after_adopt")
    /\ hist' = IF torn THEN hist ELSE Recorded(Head(todo).kind, Head(todo).text)
    /\ IF Head(todo).kind \in {"adopt", "reject", "slot_after_adopt"}
       THEN Settle(hwm, saved <= hwm) ELSE UNCHANGED <<decided, owed>>
    /\ UNCHANGED <<file, slot, saved, memory, passed, edited>>

WriteSlot ==
    /\ Doing("slot") /\ Done
    /\ slot' = Head(todo).slot
    /\ IF Head(todo).new
       THEN passed' = IF slot'.kind = "keeper" THEN {slot'.text} ELSE {}
       ELSE UNCHANGED passed
    /\ UNCHANGED <<hist, torn, file, saved, memory, edited, hurt, glued, decided, owed>>

ClearSlot ==
    /\ Doing("clear") /\ Done
    /\ slot' = Absent /\ passed' = {}
    /\ owed' = IF Head(todo).owes /\ owed = "no" THEN "owed" ELSE owed
    /\ UNCHANGED <<hist, torn, file, saved, memory, edited, hurt, glued, decided>>

WriteFile ==
    /\ (Doing("restore") \/ Doing("write")) /\ Done
    /\ file' = Head(todo).text
    /\ UNCHANGED <<hist, torn, slot, saved, memory, ghosts>>

\* evolution_hwm in memory: committed, with the evidence judged (final) or
\* still behind a candidate, or given back.
MoveHwm ==
    /\ Doing("hwm") /\ Done
    /\ hwm' = Head(todo).to
    /\ IF Head(todo).final THEN Settle(hwm', TRUE) ELSE UNCHANGED <<decided, owed>>
    /\ UNCHANGED <<hist, torn, file, slot, saved, turn, seen, latched, trigger,
                   passed, edited, hurt, glued>>

GivenBack == IF owed = "owed" THEN "no" ELSE owed

WriteState ==
    /\ Doing("save") /\ Done
    /\ saved' = hwm /\ owed' = GivenBack
    /\ UNCHANGED <<hist, torn, file, slot, memory, passed, edited, hurt, glued,
                   decided>>

\* The turn's two flags.
SetFlag ==
    /\ (Doing("show") \/ Doing("latch")) /\ Done
    /\ IF Doing("show") THEN seen' = Head(todo).text /\ UNCHANGED latched
       ELSE latched' = TRUE /\ UNCHANGED seen
    /\ UNCHANGED <<hist, torn, file, slot, saved, hwm, turn, trigger, ghosts>>

\* A write raises OSError: in the turn's prelude the turn is given up, in
\* SelfRevision the call fails, in the trigger the pass does.  An append may
\* leave part of its line.  The write of an adopted text is tried once more;
\* when that fails too, the failure is logged and the rest goes on.
WriteFails(partial) ==
    /\ todo # <<>> /\ faults < MaxFaults /\ faults' = faults + 1
    /\ Head(todo).op \in {"log", "slot", "clear", "restore", "write", "save"}
    /\ partial => Doing("log")
    /\ torn' = (torn \/ partial) /\ hurt' = TRUE
    /\ Left(IF Doing("write") THEN <<LogEvent("error", Absent)>> \o Tail(todo) ELSE <<>>, by)
    /\ turn' = IF by = "turn" THEN "none" ELSE turn
    /\ owed' = IF owed = "owed" /\ \E i \in DOMAIN todo : todo[i].op = "hwm"
               THEN "lost" ELSE owed
    /\ UNCHANGED <<hist, file, slot, saved, hwm, seen, latched, trigger,
                   passed, edited, glued, decided>>

\* The daemon dies and boots from what is on disk.
Crash ==
    /\ faults < MaxFaults /\ faults' = faults + 1
    /\ Left(<<>>, by) /\ turn' = "none" /\ seen' = Absent /\ latched' = FALSE
    /\ trigger' = Absent /\ hwm' = saved
    /\ hurt' = TRUE /\ owed' = IF owed = "owed" THEN "lost" ELSE owed
    /\ UNCHANGED <<hist, torn, file, slot, saved, passed, edited, glued, decided>>

\* The file is edited, by its owner's hand or her Shell.
Edit(text) ==
    /\ todo = <<>> /\ text # file
    /\ file' = text /\ edited' = TRUE
    /\ UNCHANGED <<hist, torn, slot, saved, memory, todo, by, faults, passed,
                   hurt, glued, decided, owed>>

\* PinSelf in a turn and the profile keeper in the background log to the same
\* file: evidence for the keeper.  A failed append is swallowed.
PinEvent(written, partial) ==
    /\ Free /\ hist.pins < MaxPins
    /\ IF written
       THEN /\ hist' = IF torn THEN hist ELSE [hist EXCEPT !.pins = @ + 1]
            /\ torn' = FALSE /\ ~partial /\ UNCHANGED faults
       ELSE /\ faults < MaxFaults /\ faults' = faults + 1
            /\ torn' = (torn \/ partial) /\ UNCHANGED hist
    /\ UNCHANGED <<file, slot, saved, memory, todo, by, ghosts>>

-----------------------------------------------------------------------------
(* A turn: the tripwire, on a reflection turn the surfacing, her calls.      *)

Classified ==
    IF file = hist.adopt THEN "in_sync"
    ELSE IF hist.adopt # Absent /\ file = hist.old THEN "crash_repair"
    ELSE IF file # Absent /\ file = hist.edit THEN "already_logged"
    ELSE "new_edit"

\* A logged edit was fit, so completing its slot checks nothing again.
TripwireWrites ==
    LET proposed == IF slot = Absent THEN <<Birth(ExternalSlot(file))>> ELSE <<>> IN
    CASE Classified = "in_sync" -> <<>>
      [] Classified = "crash_repair" ->
             <<LogEvent("repair", hist.adopt), Restore(hist.adopt)>>
      [] Classified = "already_logged" -> proposed
      [] Classified = "new_edit" /\ file \notin Fit ->
             <<LogEvent("edit", Absent), Restore(hist.adopt)>>
      [] Classified = "new_edit" /\ file \in Fit -> <<LogEvent("edit", file)>> \o proposed

BeginTurn ==
    /\ Free /\ turn = "none"
    /\ turn' = "prelude" /\ latched' = FALSE /\ seen' = Absent
    /\ Left(TripwireWrites, "turn") /\ edited' = FALSE
    /\ UNCHANGED <<hist, torn, file, slot, saved, hwm, trigger, faults, passed,
                   hurt, glued, decided, owed>>

\* Mutant: the surfacing is not counted in the slot.
SurfaceWritesUncounted(old) ==
    IF ~Pending("awaiting_doll") THEN <<>>
    ELSE IF hist.adopt = slot.text THEN <<LogEvent("slot_after_adopt", hist.adopt), Clear>>
    ELSE IF slot.shown = MaxSurfacings /\ old THEN Expire(slot, hist.adopt)
    ELSE <<Save(slot), Show(slot.text)>>

\* surface_or_expire; old: created_ts is pending_min_age_days ago.
\* surfaced_count stops at the limit, above it nothing tells counts apart.
SurfaceWrites(old) ==
    IF ~Pending("awaiting_doll") THEN <<>>
    ELSE IF hist.adopt = slot.text THEN <<LogEvent("slot_after_adopt", hist.adopt), Clear>>
    ELSE IF slot.shown = MaxSurfacings /\ old THEN Expire(slot, hist.adopt)
    ELSE <<Save(IF slot.shown = MaxSurfacings THEN slot
                ELSE [slot EXCEPT !.shown = @ + 1]), Show(slot.text)>>

\* The rest of the prelude, on a reflection turn outside safe mode or another.
Render(reflects, old) ==
    /\ turn = "prelude" /\ todo = <<>>
    /\ turn' = "talk" /\ Left(IF reflects THEN SurfaceWrites(old) ELSE <<>>, "turn")
    /\ hurt' = (hurt /\ slot # Absent)
    /\ UNCHANGED <<hist, torn, file, slot, saved, hwm, seen, latched, trigger,
                   faults, passed, edited, glued, decided, owed>>

\* The turn returns and its state is saved, or it raises or the save fails.
\* Its flags are read in a turn only.
EndTurn(ok) ==
    /\ turn = "talk" /\ todo = <<>> /\ turn' = "none"
    /\ seen' = Absent /\ latched' = FALSE
    /\ IF ok THEN saved' = hwm /\ owed' = GivenBack ELSE UNCHANGED <<saved, owed>>
    /\ UNCHANGED <<hist, torn, file, slot, hwm, trigger, todo, by, faults, passed,
                   edited, hurt, glued, decided>>

\* Mutant: no surfaced-this-turn gate.
RevisableUnseen == ~latched /\ Pending("awaiting_doll")

\* What SelfRevision asks before it changes anything.
Revisable == ~latched /\ Pending("awaiting_doll") /\ seen # Absent

Revise(writes) ==
    /\ turn = "talk" /\ todo = <<>> /\ Revisable
    /\ Left(writes, "tool")
    /\ UNCHANGED <<hist, torn, file, slot, saved, memory, faults, ghosts>>

\* Mutant: the file is left as it is.
RejectWritesUnrestored == <<LogEvent("reject", slot.text), Clear, Latch>>

RejectWrites == <<LogEvent("reject", slot.text), Clear, Restore(hist.adopt), Latch>>

AdoptWrites  == <<LogEvent("adopt", slot.text), Write(slot.text), Clear, Latch>>

\* Mutant: the slot before its birth line.
CounterWritesLoggedLast(text) ==
    <<Save(ToCounter(slot, text)), LogEvent("counter", text), Latch>>

CounterWrites(text) ==
    <<LogEvent("counter", text), Save(ToCounter(slot, text)), Latch>>

Reject == Revise(RejectWrites)
Adopt  == slot # Absent /\ slot.text # hist.adopt /\ Revise(AdoptWrites)

\* Mutant: one round too many.
CounterAtTheCap(text) ==
    /\ slot # Absent /\ text \notin {slot.text, hist.adopt}
    /\ slot.round <= RoundCap /\ text \in Fit
    /\ Revise(CounterWrites(text))

Counter(text) ==
    /\ slot # Absent /\ text \notin {slot.text, hist.adopt}
    /\ slot.round < RoundCap /\ text \in Fit
    /\ Revise(CounterWrites(text))

-----------------------------------------------------------------------------
(* The background passes, one at a time.  Each reads what it needs, waits    *)
(* for the model, and writes.                                                *)

Start(begun) ==
    /\ Free /\ trigger = Absent /\ trigger' = begun
    /\ UNCHANGED <<hist, torn, file, slot, saved, hwm, turn, seen, latched, todo,
                   by, faults, ghosts>>

Answered(writes) ==
    /\ Free /\ trigger' = Absent
    /\ Left(writes, "pass")
    /\ UNCHANGED <<hist, torn, file, slot, saved, hwm, turn, seen, latched, faults>>

\* Mode B: the skeptic reads a counter or an external edit.
StartSkeptic ==
    /\ Pending("awaiting_skeptic")
    /\ Start([job |-> "skeptic", slot |-> slot, old |-> hist.adopt])

Judging == trigger # Absent /\ trigger.job = "skeptic"

\* Errors and fallback are read under review only: they stay in the file, and
\* leave the model.
MarkAwaitingDoll(s) ==
    [s EXCEPT !.status = "awaiting_doll", !.errors = 0, !.fallback = Absent]

SkepticPasses ==
    /\ Judging /\ passed' = passed \union {trigger.slot.text}
    /\ Answered(<<Save(MarkAwaitingDoll(trigger.slot))>>)
    /\ UNCHANGED <<edited, hurt, glued, decided, owed>>

KillWrites ==
    LET s == trigger.slot IN
    <<LogEvent("kill", s.text)>>
    \o IF s.kind = "counter" THEN <<Save(RevertToFallback(s))>>
       ELSE <<Clear, Restore(trigger.old)>>

SkepticKills == Judging /\ Answered(KillWrites) /\ UNCHANGED ghosts

\* An error, or no answer in time.
ErrorWrites ==
    LET s == [trigger.slot EXCEPT !.errors = @ + 1] IN
    IF s.errors = ErrorBound THEN Expire(s, trigger.old) \o <<SaveState>>
    ELSE <<LogEvent("error", Absent), Save(s)>>

SkepticErrs == Judging /\ Answered(ErrorWrites) /\ UNCHANGED ghosts

\* assemble_bundle: the history from the mark on, as far as it goes now.
Bundle(from) == [job |-> "keeper", hwm |-> from, upto |-> hist.pins]

\* Mode A: the keeper reads what is new since the high-water mark.
StartKeeper == slot = Absent /\ Start(Bundle(hwm))

Keeping == trigger # Absent /\ trigger.job = "keeper"

\* Nothing of the evidence is used up, and the state is saved all the same.
KeeperErrs ==
    /\ Keeping /\ Answered(<<LogEvent("error", Absent), SaveState>>)
    /\ UNCHANGED ghosts

Verdicted == <<Hwm(trigger.upto, TRUE), SaveState>>

\* No change, or a candidate that the checks or the full skeptic kill.
KeeperFindsNothing(kind) ==
    /\ Keeping /\ Answered(<<LogEvent(kind, Absent)>> \o Verdicted)
    /\ UNCHANGED ghosts

\* Mutant: a candidate that passed is filed, whatever came up meanwhile.
KeeperWritesAnyway(text) ==
    <<LogEvent("candidate", text), Birth(KeeperSlot(text, trigger.hwm)),
      Hwm(trigger.upto, FALSE), SaveState>>

\* The candidate passed; it yields to a slot that came up meanwhile.
KeeperWrites(text) ==
    IF slot # Absent THEN <<LogEvent("kill", text)>> \o Verdicted
    ELSE <<LogEvent("candidate", text), Birth(KeeperSlot(text, trigger.hwm)),
           Hwm(trigger.upto, FALSE), SaveState>>

KeeperProposes(text) ==
    Keeping /\ text \in Fit /\ Answered(KeeperWrites(text)) /\ UNCHANGED ghosts

\* UserSpoke: cancel_current, while the pass waits for the model.
CancelPass ==
    /\ Free /\ trigger # Absent /\ trigger' = Absent
    /\ UNCHANGED <<hist, torn, file, slot, saved, hwm, turn, seen, latched, todo,
                   by, faults, ghosts>>

-----------------------------------------------------------------------------
AWrite == WriteLog \/ WriteSlot \/ ClearSlot \/ WriteFile \/ MoveHwm \/ WriteState
          \/ SetFlag
PassEnds ==
    \/ SkepticPasses \/ SkepticKills \/ SkepticErrs \/ KeeperErrs
    \/ \E kind \in {"no_change", "kill"} : KeeperFindsNothing(kind)
    \/ \E text \in Texts : KeeperProposes(text)

EvolutionNext ==
    \/ AWrite
    \/ \E partial \in BOOLEAN : WriteFails(partial)
    \/ Crash
    \/ \E text \in Texts \union {Absent} : Edit(text)
    \/ \E written, partial \in BOOLEAN : PinEvent(written, partial)
    \/ BeginTurn \/ (\E reflects, old \in BOOLEAN : Render(reflects, old))
    \/ \E ok \in BOOLEAN : EndTurn(ok)
    \/ Reject \/ Adopt \/ (\E text \in Texts : Counter(text))
    \/ StartSkeptic \/ StartKeeper \/ PassEnds \/ CancelPass

EvolutionSpec == EvolutionInit /\ [][EvolutionNext]_evolutionVars

\* The process is never stuck: a write, a turn's end or the next turn comes.
\* Now and then a turn is a reflection, the trigger polls, and an agent that
\* is not cancelled for ever answers or runs into its time limit.  She need
\* not decide anything.
Moves == AWrite \/ BeginTurn \/ Render(FALSE, FALSE) \/ EndTurn(TRUE)
FairEvolutionSpec ==
    /\ EvolutionSpec
    /\ WF_evolutionVars(Moves)
    /\ SF_evolutionVars(Render(TRUE, TRUE))
    /\ SF_evolutionVars(StartSkeptic) /\ SF_evolutionVars(PassEnds)

-----------------------------------------------------------------------------
\* Slots keep to their bounds, a rewrite under review has a fallback, and only
\* evidence that was read is behind them.
EvolutionTypeOK ==
    /\ hist \in [adopt : Fit \union {Absent}, old : Fit \union {Absent},
                 edit : Fit \union {Absent}, born : SUBSET Fit, pins : 0..MaxPins]
    /\ torn \in BOOLEAN /\ file \in Texts \union {Absent}
    /\ slot \in Slots \union {Absent}
    /\ slot # Absent =>
         /\ slot.fallback # Absent => slot.kind = "counter"
         /\ slot.status = "awaiting_skeptic" =>
                slot.kind = "external" \/ slot.fallback # Absent
    /\ saved \in 0..hist.pins /\ hwm \in 0..hist.pins
    /\ turn \in {"none", "prelude", "talk"} /\ by \in {"none", "turn", "tool", "pass"}
    /\ seen \in Fit \union {Absent} /\ latched \in BOOLEAN
    /\ faults \in 0..MaxFaults

\* A text comes into force only by her call in a turn that showed it to her,
\* after a skeptic passed it: whatever the slot became while an agent or a
\* turn was waiting for the model (tools.py, "she must not adopt (or reject)
\* text that never reached her eyes").  After a call that failed half-way the
\* latch is not set, and she may have seen an earlier proposal only.
AdoptsWhatSheSaw ==
    [][hist'.adopt # hist.adopt =>
           /\ hist'.adopt \in passed /\ seen # Absent
           /\ hist'.adopt = seen \/ hurt]_evolutionVars

\* What becomes of a pending proposal before it is resolved: a round of her
\* rewriting it, which it is the fallback of; a verdict, for it or for its
\* fallback; one more surfacing, or one more failed verdict.
MovesOn(s, r) ==
    /\ r.hwm = s.hwm
    /\ \/ /\ s.status = "awaiting_doll" /\ r.status = "awaiting_skeptic"
          /\ r.round = s.round + 1
          /\ r.fallback # Absent /\ r.fallback.text = s.text
       \/ /\ s.status = "awaiting_skeptic" /\ r.status = "awaiting_doll"
          /\ r.round = s.round
          /\ r.text = s.text \/ (s.fallback # Absent /\ r.text = s.fallback.text)
       \/ /\ r.status = s.status /\ r.round = s.round
          /\ r.text = s.text /\ r.fallback = s.fallback
          /\ \/ r.shown = s.shown + 1 /\ r.errors = s.errors
             \/ r.shown = s.shown /\ r.errors = s.errors + 1

\* No write puts another proposal over a pending one, or an earlier form of it
\* back: whatever a pass or a turn read before it waited for the model, its write
\* takes the slot on from where it is.  So the forms it can take before it is
\* resolved are bounded, and its evidence stays with it through all of them.
ProposalsMoveOn ==
    [][slot # Absent /\ slot' # Absent /\ slot' # slot => MovesOn(slot, slot')]_evolutionVars

\* Her decision, like every other write, meets the proposal as it now is.
MeetsTheProposal == AdoptsWhatSheSaw /\ ProposalsMoveOn

\* "Every slot has a birth line": wherever the process died, a pending
\* proposal is in the audit log, unless the line went onto a torn one.
EverySlotHasItsBirthLine ==
    (slot # Absent /\ ~glued) => slot.text \in hist.born

\* Slot-resolution invariant and log-before-mutate: with no slot pending the
\* file is the text in force, over every way a slot is resolved, unless it was
\* just edited, or a crash, a lost write or the repair of a slot that holds the
\* text in force came in between, and no tripwire since has found the slot gone.
FileFollowsTheLog ==
    (slot = Absent /\ todo = <<>> /\ ~edited /\ ~hurt) => file = hist.adopt

\* Evidence that no verdict and no decision of hers used up is still ahead of
\* the high-water mark or comes back with the pending slot.  Only an expiry
\* that failed or died half-way loses any.
EvidenceGivenBack ==
    (owed = "no" /\ todo = <<>>) =>
        hwm <= decided \/ (slot # Absent /\ slot.hwm # Absent /\ slot.hwm <= decided)

\* Log, slot, file and high-water mark tell one story, wherever a pass, a turn
\* or the process stopped half-way.
HistoryTellsAll ==
    EvolutionTypeOK /\ EverySlotHasItsBirthLine /\ FileFollowsTheLog /\ EvidenceGivenBack

\* No proposal stays pending for ever, and with it every later one: not while
\* agents fail or are cancelled, she never decides, or rewrites and is
\* refused again and again.
SlotIsResolved == []<>(slot = Absent)
=============================================================================
