-------------------------------- MODULE Races --------------------------------
(***************************************************************************)
(* Calls that begin beside another: how many have so far, which a bound    *)
(* keeps and properties of what comes one at a time ask for.               *)
(***************************************************************************)
EXTENDS CallFrames, Naturals

CONSTANT MaxRaces   \* bound: calls begun beside another, and failures

VARIABLE raced      \* history: calls begun beside another, and failures

Quiet == \A c \in Calls : At(c, "idle")
CountRace == IF Quiet THEN UNCHANGED raced ELSE raced < MaxRaces /\ raced' = raced + 1
=============================================================================
