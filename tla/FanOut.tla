------------------------------- MODULE FanOut -------------------------------
(***************************************************************************)
(* What a fan-out client promises, whatever the protocol behind it: it     *)
(* asks once, gathers what comes, and then either says that it is complete *)
(* - every minion it had to account for is accounted for, or its result    *)
(* got lost before the client could read it - or gives up.  After that its *)
(* report does not change.                                                 *)
(***************************************************************************)
CONSTANTS
    Everyone,   \* all the minions a report can name
    Wanted      \* the minions a complete report must name

VARIABLES
    status,     \* "idle", "waiting", "complete" or "partial"
    accounted,  \* the minions the report names, with a result or as missed
    missing     \* the minions a result of whom got lost on its way

vars == <<status, accounted, missing>>

Init == status = "idle" /\ accounted = {} /\ missing = {}

\* results may get lost at any time, in a step of the client or not
Lose == \E S \in SUBSET Everyone : missing' = missing \cup S

Stray == Lose /\ UNCHANGED <<status, accounted>>

Ask == status = "idle" /\ status' = "waiting" /\ Lose /\ UNCHANGED accounted

Collect == Lose /\ \E S \in SUBSET Everyone : accounted' = accounted \cup S

Gather == status = "waiting" /\ Collect /\ UNCHANGED status

\* the end may come with the last thing that is gathered
Complete ==
    /\ status = "waiting"
    /\ Collect
    /\ Wanted \subseteq accounted' \cup missing'
    /\ status' = "complete"

\* it gives up on what it waits for, or because it cannot even ask
GiveUp ==
    /\ \/ status = "waiting" /\ Collect
       \/ status = "idle" /\ Lose /\ UNCHANGED accounted
    /\ status' = "partial"

Next == Stray \/ Ask \/ Gather \/ Complete \/ GiveUp

Spec == Init /\ [][Next]_vars

\* the client does not wait forever
FairSpec == Spec /\ WF_vars(Ask) /\ WF_vars(Complete \/ GiveUp)
=============================================================================
