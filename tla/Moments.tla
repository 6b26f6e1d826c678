------------------------------- MODULE Moments -------------------------------
(***************************************************************************)
(* What wakes Doll when nobody speaks to her: PulseObserver over the       *)
(* samples of SystemPulse, ReflectionObserver, AgendaObserver with the     *)
(* energy its turns cost, and the kernel's schedule runner.  Each is a     *)
(* task of its own that sleeps, looks at shared state and puts a           *)
(* perception into the queue; a put writes to the log first and may raise. *)
(*                                                                         *)
(* Abstractions.  The unit of time is the poll of the source: ages of what *)
(* happened last, cut off where they make no further difference, stand for *)
(* the clock.  The three sources share nothing but the queue, whose        *)
(* draining only matters to the agenda, so a behaviour follows one of them *)
(* (scope).  A vital is good or bad, an absent reading is good; energy has *)
(* a few levels.                                                           *)
(***************************************************************************)
EXTENDS Naturals, FiniteSets

CONSTANTS
    Windows,        \* titles of windows
    Throttle,       \* alert_throttle_s, in polls
    StuckFor,       \* window_stuck_s, in polls
    Threshold,      \* ReflectionObserver's
    AgendaGap,      \* _AGENDA_MIN_INTERVAL_S, in polls
    Full, Floor,    \* energy levels: 0..Full, and _AGENDA_ENERGY_FLOOR
    MaxDrain,       \* bound: what a turn may cost
    Window,         \* due_entries' minute, in polls of the schedule runner
    DayEnd,         \* bound: the last moment of a day
    MaxFlips,       \* bound: changes of the battery and the GPU
    MaxStalls,      \* bound: polls that come late
    MaxFaults,      \* bound: puts and readers that fail, polls that raise, files
                    \* made unreadable, turns that raise or are not saved
    MaxRestarts,    \* bound
    None

Rules  == {"battery", "gpu", "window"}
Times  == 0..DayEnd
Wakes  == {"user", "dm", "reflection", "agenda"}

ASSUME MomentsAssumption ==
    /\ Throttle \in Nat \ {0} /\ StuckFor \in Nat \ {0} /\ Threshold \in Nat \ {0}
    /\ AgendaGap \in Nat \ {0} /\ Window \in Nat \ {0} /\ DayEnd \in Nat
    /\ Full \in Nat /\ Floor \in 0..Full /\ MaxDrain \in 0..Full
    /\ MaxFlips \in Nat /\ MaxStalls \in Nat /\ MaxFaults \in Nat /\ MaxRestarts \in Nat
    /\ None \notin Windows \union Rules \union Nat

VARIABLES
    scope,
    host,       \* the machine: which vitals are bad, the window, the owner there
    sample,     \* SystemPulse._last_sample
    age,        \* its age, 3 for all above 2
    armed,      \* AlertState: the armed rules
    stuck,      \* ... the window watched, and how long
    quiet,      \* ... the time since last_fire_at
    told,       \* ghost: rules whose alert was put, or failed to be, since they were seen good
    repeated,   \* ghost: a rule told of twice
    due,        \* the loops that have slept their interval
    flips, stalls, faults, restarts,
    energy, goals,          \* MindState: the level, is there a self-directed loop
    stored,     \* both in the state file
    away,       \* is last_user_at longer ago than the threshold
    passed,     \* iter_count since _last_fire_at_iter
    rested,     \* AgendaObserver: the time since _last_fire_at
    alive,      \* the observers whose task has not ended
    incoming, held, serving,    \* in the queue, drained, in the current turn
    low,        \* ghost: agenda turns begun on the floor or below
    now,        \* the time of the day
    file, broken,           \* the day's schedule, and whether it can be read
    fired,      \* _fired_today
    gap,        \* ghost: the time since the last good poll
    steady,     \* ghost: it never exceeded Window
    scheduled,  \* ghost: entries on file since before their time
    count       \* ghost: how often an entry came

vitals   == <<host, sample, age, armed, stuck, quiet, told, repeated, flips>>
rhythm   == <<energy, goals, stored, away, passed, rested, alive, incoming, held, serving, low>>
schedule == <<now, file, broken, fired, gap, steady, scheduled, count>>
bounds   == <<stalls, faults, restarts>>
momentsVars == <<scope, vitals, rhythm, schedule, due, bounds>>

Upto(n, cap) == IF n < cap THEN n + 1 ELSE cap

MomentsInit ==
    /\ scope \in {"vitals", "rhythm", "schedule"}
    /\ host = [bad |-> {}, window |-> None, here |-> FALSE]
    /\ sample = None /\ age = 0 /\ armed = Rules /\ stuck = [window |-> None, since |-> None]
    /\ quiet = 0 /\ told = {} /\ repeated = FALSE
    /\ due = {} /\ flips = 0 /\ stalls = 0 /\ faults = 0 /\ restarts = 0
    /\ energy = Full /\ goals = FALSE /\ stored = [energy |-> Full, goals |-> FALSE]
    /\ away = FALSE /\ passed = 0 /\ rested = 0 /\ alive = {"reflection", "agenda"}
    /\ incoming = {} /\ held = {} /\ serving = {} /\ low = 0
    /\ now = 0 /\ file \in SUBSET Times /\ (scope # "schedule" => file = {}) /\ broken = FALSE
    /\ fired = {} /\ gap = 0 /\ steady = TRUE /\ scheduled = file /\ count = [t \in Times |-> 0]

\* A put appends to the log first; when that fails it raises.
PutFails == faults < MaxFaults /\ faults' = faults + 1
PutWorks == UNCHANGED faults

\* A poll that should have come before this step comes late.
Stall(late) == IF late THEN stalls < MaxStalls /\ stalls' = stalls + 1 ELSE UNCHANGED stalls

-----------------------------------------------------------------------------
(* SystemPulse and PulseObserver. *)

\* The battery is critical and discharging or not; the hottest GPU is hot or
\* not; another window; the owner there or away.
HostChanges ==
    /\ scope = "vitals"
    /\ \/ /\ flips < MaxFlips /\ flips' = flips + 1
          /\ \E r \in {"battery", "gpu"} :
                host' = [host EXCEPT !.bad = IF r \in @ THEN @ \ {r} ELSE @ \union {r}]
       \/ /\ \E w \in Windows \union {None} : \E here \in BOOLEAN :
                host' = [host EXCEPT !.window = w, !.here = here]
          /\ UNCHANGED flips
    /\ UNCHANGED <<sample, age, armed, stuck, quiet, told, repeated, due, rhythm, schedule,
                   bounds>>

Minute ==
    /\ scope = "vitals"
    /\ Stall(due # {})
    /\ due' = {"sample", "tick"}
    /\ age' = Upto(age, 3) /\ quiet' = Upto(quiet, Throttle)
    /\ stuck' = [stuck EXCEPT !.since = IF @ = None THEN None ELSE Upto(@, StuckFor)]
    /\ UNCHANGED <<host, sample, armed, told, repeated, flips, rhythm, schedule, faults, restarts>>

\* What the readers find of the host: one that fails or times out finds
\* nothing, and a vital that was not read counts as good.
Reading(failed) ==
    [host EXCEPT !.bad = @ \ failed, !.window = IF "window" \in failed THEN None ELSE @]

\* _poll_once, and now and then a reader fails in it.
Sample(failed) ==
    /\ scope = "vitals" /\ "sample" \in due /\ due' = due \ {"sample"}
    /\ sample' = Reading(failed) /\ age' = 0
    /\ IF failed = {} THEN UNCHANGED faults ELSE faults < MaxFaults /\ faults' = faults + 1
    /\ UNCHANGED <<host, armed, stuck, quiet, told, repeated, flips, rhythm, schedule,
                   stalls, restarts>>

\* A poll that raises leaves the last sample where it is.
SampleRaises ==
    /\ scope = "vitals" /\ "sample" \in due /\ due' = due \ {"sample"}
    /\ faults < MaxFaults /\ faults' = faults + 1
    /\ UNCHANGED <<host, sample, age, armed, stuck, quiet, told, repeated, flips, rhythm, schedule,
                   stalls, restarts>>

\* latest_sample: none older than two polls.
LatestSample == IF age <= 2 THEN sample ELSE None

\* The watched window: another one or the owner's leaving starts over.
Watched(s) ==
    IF s.window = None THEN [window |-> None, since |-> None]
    ELSE IF s.window # stuck.window
    THEN [window |-> s.window, since |-> IF s.here THEN 0 ELSE None]
    ELSE [stuck EXCEPT !.since = IF ~s.here THEN None
                                 ELSE IF stuck.since = None THEN 0 ELSE stuck.since]

\* The rules that are bad in a sample.
BadIn(s) ==
    s.bad \union (IF Watched(s).since = StuckFor THEN {"window"} ELSE {})

\* Mutant: a candidate held back by the throttle loses its arm.
AlertStateThrottled(s, alert) ==
    /\ armed' = (armed \union (Rules \ BadIn(s))) \ BadIn(s)
    /\ stuck' = Watched(s)
    /\ quiet' = IF alert = None THEN quiet ELSE 0

\* Mutant: an alert does not use up its arm.
AlertStateArmed(s, alert) ==
    /\ armed' = armed \union (Rules \ BadIn(s))
    /\ stuck' = Watched(s)
    /\ quiet' = IF alert = None THEN quiet ELSE 0

\* A good rule is armed again, and only the rule that is told of is disarmed.
AlertState(s, alert) ==
    /\ armed' = (armed \union (Rules \ BadIn(s))) \ {alert}
    /\ stuck' = Watched(s)
    /\ quiet' = IF alert = None THEN quiet ELSE 0

\* The most important candidate, unless throttled; being told starts the
\* throttle, so one look tells of one at most.
Alert(s) ==
    LET candidates == BadIn(s) \intersect armed IN
    IF quiet < Throttle \/ candidates = {} THEN None
    ELSE IF "battery" \in candidates THEN "battery"
    ELSE IF "gpu" \in candidates THEN "gpu"
    ELSE "window"

\* PulseObserver._tick: the new state is kept before the put is tried.
PulseTick(ok) ==
    /\ scope = "vitals" /\ "tick" \in due /\ due' = due \ {"tick"}
    /\ LET s == LatestSample IN
       IF s = None
       THEN /\ ok /\ PutWorks
            /\ UNCHANGED <<armed, stuck, quiet, told, repeated>>
       ELSE LET alert == Alert(s) IN
            /\ IF ok THEN PutWorks ELSE alert # None /\ PutFails
            /\ AlertState(s, alert)
            /\ told' = (told \intersect BadIn(s)) \union ({alert} \ {None})
            /\ repeated' = (repeated \/ alert \in told \intersect BadIn(s))
    /\ UNCHANGED <<host, sample, age, flips, rhythm, schedule, stalls, restarts>>

-----------------------------------------------------------------------------
(* ReflectionObserver, AgendaObserver, energy, and MindLoop's drains. *)

OwnerWrites(kind) ==
    /\ scope = "rhythm" /\ kind \in {"user", "dm"}
    /\ incoming' = incoming \union {kind}
    /\ UNCHANGED <<energy, goals, stored, away, passed, rested, alive, held, serving, low>>
    /\ UNCHANGED <<vitals, schedule, due, bounds>>

\* Time passes: the owner has been silent for long enough, and as long as he
\* is, the consolidation's loop gives some energy back.
Rests ==
    /\ scope = "rhythm"
    /\ rested' = Upto(rested, AgendaGap)
    /\ away' = TRUE
    /\ IF away
       THEN /\ energy' = Upto(energy, Full)
            /\ stored' = [energy |-> energy', goals |-> goals]
            /\ low' = IF energy' > Floor THEN 0 ELSE low
       ELSE UNCHANGED <<energy, stored, low>>
    /\ UNCHANGED <<goals, passed, alive, incoming, held, serving, vitals, schedule, due, bounds>>

\* A put that raises ends the observer's task: nothing in it catches it.
Fires(kind, ok) ==
    IF ok THEN PutWorks /\ incoming' = incoming \union {kind} /\ UNCHANGED alive
          ELSE PutFails /\ alive' = alive \ {kind} /\ UNCHANGED incoming

ReflectionFires(ok) ==
    /\ scope = "rhythm" /\ "reflection" \in alive /\ passed >= Threshold
    /\ Fires("reflection", ok)
    /\ passed' = IF ok THEN 0 ELSE passed
    /\ UNCHANGED <<energy, goals, stored, away, rested, held, serving, low, vitals, schedule, due,
                   stalls, restarts>>

\* Mutant: the floor itself is enough.
AgendaFiresTired(ok) ==
    /\ scope = "rhythm" /\ "agenda" \in alive
    /\ away /\ energy >= Floor /\ goals /\ rested >= AgendaGap
    /\ Fires("agenda", ok)
    /\ rested' = IF ok THEN 0 ELSE rested
    /\ UNCHANGED <<energy, goals, stored, away, passed, held, serving, low, vitals, schedule, due,
                   stalls, restarts>>

AgendaFires(ok) ==
    /\ scope = "rhythm" /\ "agenda" \in alive
    /\ away /\ energy > Floor /\ goals /\ rested >= AgendaGap
    /\ Fires("agenda", ok)
    /\ rested' = IF ok THEN 0 ELSE rested
    /\ UNCHANGED <<energy, goals, stored, away, passed, held, serving, low, vitals, schedule, due,
                   stalls, restarts>>

\* drain_grouped: all that waits.
Drain == held' = incoming /\ incoming' = {}

Drains ==
    /\ scope = "rhythm" /\ serving = {} /\ held = {} /\ incoming # {}
    /\ Drain
    /\ UNCHANGED <<energy, goals, stored, away, passed, rested, alive, serving, low, vitals, schedule,
                   due, bounds>>

\* One turn per origin. Her own moments share the private one.
Buckets == {held \intersect {"dm"}, held \ {"dm"}} \ {{}}

TurnBegins ==
    /\ scope = "rhythm" /\ serving = {}
    /\ serving' \in Buckets /\ held' = held \ serving'
    /\ away' = (away /\ serving' \intersect {"user", "dm"} = {})
    /\ low' = IF serving' = {"agenda"} /\ energy <= Floor THEN low + 1 ELSE low
    /\ UNCHANGED <<energy, goals, stored, passed, rested, alive, incoming, vitals, schedule, due, bounds>>

\* PursueGoal and CloseLoop: a turn takes up goals and closes them; PursueGoal
\* is not for an agenda turn.
GoalsAfter == IF serving = {"agenda"} THEN {goals, FALSE} ELSE BOOLEAN

\* The turn returns: it costs something or nothing, and it is saved or not.
TurnReturns(drain, saves) ==
    /\ scope = "rhythm" /\ serving # {} /\ serving' = {}
    /\ energy' = IF drain < energy THEN energy - drain ELSE 0
    /\ goals' \in GoalsAfter
    /\ passed' = Upto(passed, Threshold)
    /\ IF saves THEN stored' = [energy |-> energy', goals |-> goals'] /\ UNCHANGED faults
                ELSE faults < MaxFaults /\ faults' = faults + 1 /\ UNCHANGED stored
    /\ UNCHANGED <<away, rested, alive, incoming, held, low, vitals, schedule, due, stalls, restarts>>

\* A turn that raises takes the rest of its drain along, and costs nothing.
TurnRaises ==
    /\ scope = "rhythm" /\ serving # {}
    /\ faults < MaxFaults /\ faults' = faults + 1
    /\ serving' = {} /\ held' = {}
    /\ UNCHANGED <<energy, goals, stored, away, passed, rested, alive, incoming, low, vitals, schedule,
                   due, stalls, restarts>>

-----------------------------------------------------------------------------
(* The kernel's _schedule_runner, and schedule.py. *)

HalfMinute ==
    /\ scope = "schedule" /\ now < DayEnd
    /\ now' = now + 1 /\ due' = {"poll"}
    /\ gap' = Upto(gap, Window + 1) /\ steady' = (steady /\ gap' <= Window)
    /\ Stall(due # {})
    /\ UNCHANGED <<file, broken, fired, scheduled, count, vitals, rhythm, faults, restarts>>

\* Midnight: another file, usually none yet, and another key of _fired_today.
NewDay ==
    /\ scope = "schedule" /\ now = DayEnd
    /\ now' = 0 /\ due' = {"poll"}
    /\ gap' = Upto(gap, Window + 1) /\ steady' = (steady /\ gap' <= Window)
    /\ Stall(due # {})
    /\ file' = {} /\ broken' = FALSE /\ fired' = {} /\ scheduled' = {}
    /\ count' = [t \in Times |-> 0]
    /\ UNCHANGED <<vitals, rhythm, faults, restarts>>

\* WriteSchedule edits the day's file, and refuses one it cannot read.
WriteSchedule(add, remove) ==
    /\ scope = "schedule" /\ ~broken
    /\ file' = (file \ remove) \union add
    /\ scheduled' = (scheduled \intersect file') \union {t \in add : t > now}
    /\ UNCHANGED <<now, broken, fired, gap, steady, count, vitals, rhythm, due, bounds>>

\* The owner edits it by hand and leaves it unreadable, or mends it.
HandEdit ==
    /\ scope = "schedule" /\ broken' = ~broken
    /\ IF broken THEN UNCHANGED faults ELSE faults < MaxFaults /\ faults' = faults + 1
    /\ UNCHANGED <<now, file, fired, gap, steady, scheduled, count, vitals, rhythm, due, stalls, restarts>>

\* Mutant: half a minute is enough.
DueEntriesShort == {t \in file \ fired : t <= now /\ now <= t + Window - 1}

\* due_entries: its moment has come, a minute ago at most.
DueEntries == {t \in file \ fired : t <= now /\ now <= t + Window}

\* Every due entry is put and counts as fired; it counts before the put, and
\* the first put that raises ends the poll.
SchedulePolls(fires, failed) ==
    /\ scope = "schedule" /\ due # {} /\ due' = {}
    /\ IF broken
       THEN fires = {} /\ failed = {} /\ UNCHANGED <<fired, gap, scheduled, count, faults>>
       ELSE /\ fires \union failed \subseteq DueEntries /\ fires \intersect failed = {}
            /\ IF failed = {} THEN fires = DueEntries /\ PutWorks ELSE PutFails
            /\ fired' = fired \union fires \union failed
            /\ scheduled' = scheduled \ failed
            /\ count' = [t \in Times |-> IF t \in fires THEN count[t] + 1 ELSE count[t]]
            /\ gap' = IF failed = {} THEN 0 ELSE gap
    /\ UNCHANGED <<now, file, broken, steady, vitals, rhythm, stalls, restarts>>

-----------------------------------------------------------------------------
\* The daemon stops or dies and starts again. Unserved moments come back from
\* the log; what the observers remember begins anew, the throttles included.
Restart ==
    /\ restarts < MaxRestarts /\ restarts' = restarts + 1
    /\ due' = {}
    /\ sample' = None /\ age' = 0 /\ armed' = Rules
    /\ stuck' = [window |-> None, since |-> None] /\ quiet' = 0
    /\ told' = {}
    /\ energy' = stored.energy /\ goals' = stored.goals
    /\ passed' = 0 /\ rested' = 0 /\ alive' = {"reflection", "agenda"}
    /\ incoming' = incoming \union held \union serving /\ held' = {} /\ serving' = {} /\ low' = 0
    /\ fired' = {} /\ gap' = 0 /\ steady' = TRUE
    /\ scheduled' = {t \in file : t > now} /\ count' = [t \in Times |-> 0]
    /\ UNCHANGED <<host, repeated, flips, stored, away, now, file, broken, stalls, faults>>

MomentsNext ==
    /\ UNCHANGED scope
    /\ \/ HostChanges \/ Minute \/ SampleRaises
       \/ \E failed \in {{}} \union {{r} : r \in Rules} : Sample(failed)
       \/ \E ok \in BOOLEAN : PulseTick(ok) \/ ReflectionFires(ok) \/ AgendaFires(ok)
       \/ \E kind \in Wakes : OwnerWrites(kind)
       \/ Rests \/ Drains \/ TurnBegins \/ TurnRaises
       \/ \E drain \in 0..MaxDrain : \E saves \in BOOLEAN : TurnReturns(drain, saves)
       \/ HalfMinute \/ NewDay \/ HandEdit
       \/ \E t \in Times : WriteSchedule({t}, {}) \/ WriteSchedule({}, {t})
       \/ \E fires \in SUBSET Times : \E failed \in {{}} \union {{t} : t \in Times} :
             SchedulePolls(fires, failed)
       \/ Restart

MomentsSpec == MomentsInit /\ [][MomentsNext]_momentsVars

\* The loops wake up again, and time goes on.
FairMomentsSpec ==
    /\ MomentsSpec
    /\ WF_momentsVars(UNCHANGED scope /\ Minute)
    /\ WF_momentsVars(UNCHANGED scope /\ Sample({}))
    /\ WF_momentsVars(UNCHANGED scope /\ \E ok \in BOOLEAN : PulseTick(ok))
    /\ WF_momentsVars(UNCHANGED scope /\ \E ok \in BOOLEAN : ReflectionFires(ok))

-----------------------------------------------------------------------------
Host == [bad : SUBSET {"battery", "gpu"}, window : Windows \union {None}, here : BOOLEAN]

MomentsTypeOK ==
    /\ host \in Host /\ sample \in Host \union {None} /\ age \in 0..3
    /\ armed \subseteq Rules /\ told \subseteq Rules
    /\ stuck \in [window : Windows \union {None}, since : 0..StuckFor \union {None}]
    /\ quiet \in 0..Throttle /\ due \subseteq {"sample", "tick", "poll"}
    /\ energy \in 0..Full /\ stored \in [energy : 0..Full, goals : BOOLEAN]
    /\ passed \in 0..Threshold /\ rested \in 0..AgendaGap
    /\ alive \subseteq {"reflection", "agenda"}
    /\ incoming \subseteq Wakes /\ held \subseteq Wakes /\ serving \subseteq Wakes
    /\ now \in Times /\ file \subseteq Times /\ fired \subseteq Times /\ scheduled \subseteq file
    /\ gap \in 0..(Window + 1) /\ count \in [Times -> Nat]

\* A bad vital is told of once until it was seen good again, whatever other
\* alerts, throttles, stale samples and leaves of the owner came between.
OncePerEpisode == ~repeated

\* "Autonomous pursuit must never be able to run her down": energy is looked at
\* when a moment is decided, and spent when turns end.  However long turns take
\* and whatever waits meanwhile, at most two agenda turns begin with the
\* reserve touched before it is back, or the process starts anew.
ReserveIsKept == low <= 2

\* What wakes her is earned.
WakesAreEarned == MomentsTypeOK /\ OncePerEpisode /\ ReserveIsKept

\* As long as the process lives and reads the schedule at least once a minute,
\* each entry that was on it before its time comes, and comes once, whatever is
\* added, removed and moved meanwhile; in the last minute of the day it may be
\* missed.
EntriesFire ==
    \A t \in Times :
        /\ count[t] <= 1
        /\ (steady /\ t \in scheduled /\ now > t + Window) => count[t] = 1

\* "Delayed, never dropped": what is bad and stays bad is told of, behind the
\* throttle and every more important rule, unless its put failed; so is a
\* window the owner stays at.  Reflection comes after enough turns unless its
\* observer has ended.
Owed(r) == scope = "vitals" /\ sample # None /\ r \in sample.bad /\ r \notin told
Stays(w) == /\ scope = "vitals" /\ sample # None /\ sample.window = w /\ sample.here
            /\ "window" \notin told

NothingIsDropped ==
    /\ \A r \in {"battery", "gpu"} : Owed(r) ~> ~Owed(r)
    /\ \A w \in Windows : Stays(w) ~> ~Stays(w)
    /\ (passed >= Threshold) ~> (passed = 0 \/ "reflection" \notin alive)
=============================================================================
