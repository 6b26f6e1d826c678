-------------------------------- MODULE Cascade --------------------------------
(***************************************************************************)
(* What the mind loop, the kernel and the voice take a turn of hers to be, *)
(* whatever model, tools and connection do: a span in which she says one   *)
(* sentence after the other, and which a cancel from outside silences for  *)
(* good.  The next turn begins uncancelled.                                *)
(***************************************************************************)
EXTENDS Naturals

VARIABLES
    turn,       \* idle or speaking
    cancelled,  \* the cancel event of the turn, or of the last one
    said        \* how many sentences she has said

Init == turn \in {"idle", "speaking"} /\ cancelled = FALSE /\ said = 0

Begin ==
    /\ turn = "idle" /\ turn' = "speaking"
    /\ cancelled' = FALSE
    /\ UNCHANGED said

Utter ==
    /\ turn = "speaking" /\ ~cancelled
    /\ said' = said + 1
    /\ UNCHANGED <<turn, cancelled>>

Cancel ==
    /\ turn = "speaking" /\ ~cancelled
    /\ cancelled' = TRUE
    /\ UNCHANGED <<turn, said>>

End ==
    /\ turn = "speaking" /\ turn' = "idle"
    /\ UNCHANGED <<cancelled, said>>

Next == Begin \/ Utter \/ Cancel \/ End

Spec == Init /\ [][Next]_<<turn, cancelled, said>>
=============================================================================
