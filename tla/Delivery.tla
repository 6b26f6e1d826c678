------------------------------- MODULE Delivery -------------------------------
(***************************************************************************)
(* What DollOS promises about the perceptions it accepts, without the      *)
(* queue, the log, the drain and the files that keep the promise.          *)
(***************************************************************************)
EXTENDS Naturals

CONSTANT Ids        \* perceptions, by arrival

VARIABLE status     \* where each perception stands

Stages == {"new",       \* not accepted yet
           "owed",      \* on record: a crash now replays it
           "volatile",  \* accepted, but only the running process knows it
           "cut",       \* on record, its drain cut short by a failing turn
           "settled",   \* part of the saved state
           "lost"}      \* neither saved nor on record, nor in a process

Init == status = [p \in Ids |-> "new"]

Move(S, to) == status' = [p \in Ids |-> IF p \in S THEN to ELSE status[p]]
At(stage)   == {p \in Ids : status[p] = stage}

Accept(p) ==
    /\ status[p] = "new"
    /\ \A q \in Ids : q < p => status[q] # "new"
    /\ Move({p}, "owed") \/ Move({p}, "volatile")

\* One save settles every turn finished since the last.
Settle(S) == S \subseteq At("owed") \union At("volatile") /\ Move(S, "settled")

\* A failing turn cuts a drain short: what is on record may come back.
CutShort(S) ==
    /\ S \subseteq At("owed") \union At("volatile")
    /\ status' = [p \in Ids |-> IF p \notin S THEN status[p]
                               ELSE IF status[p] = "owed" THEN "cut" ELSE "lost"]

\* A later truncation takes the record of a cut drain with it.
Forget(S) == S \subseteq At("cut") /\ Move(S, "lost")

\* The process ends, or drops a perception on its way out.
Vanish(S) == S \subseteq At("volatile") /\ Move(S, "lost")

\* A restart owes every recorded perception again.
Restart == Move(At("cut"), "owed")

Next ==
    \/ \E p \in Ids : Accept(p)
    \/ \E S \in SUBSET Ids : Settle(S) \/ CutShort(S) \/ Forget(S) \/ Vanish(S)
    \/ Restart

Spec == Init /\ [][Next]_status
=============================================================================
