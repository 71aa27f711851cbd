--------------------------- MODULE ProfileRegistry ---------------------------
(***************************************************************************)
(* What a registry of profiles promises, without saying how it is kept: a  *)
(* list, newest first, and the position of the one active profile (0 when  *)
(* none is).  That there is at most one is built into the state.           *)
(***************************************************************************)
EXTENDS Integers, Sequences

VARIABLES list, active

Init == list = <<>> /\ active = 0

\* A new profile comes first and is not active.
Add ==
    /\ list' # <<>> /\ Tail(list') = list
    /\ active' = IF active = 0 THEN 0 ELSE active + 1

Activate(i) == active' = i /\ UNCHANGED list

Deactivate == active' = 0 /\ UNCHANGED list

\* Only a profile that is not active can be removed.
Remove(i) ==
    /\ i # active
    /\ list' = [j \in 1 .. Len(list) - 1 |-> IF j < i THEN list[j] ELSE list[j + 1]]
    /\ active' = IF i < active THEN active - 1 ELSE active

Clear == list' = <<>> /\ active' = 0

Next ==
    \/ Add
    \/ \E i \in 1 .. Len(list) : Activate(i) \/ Remove(i)
    \/ Deactivate
    \/ Clear

Spec == Init /\ [][Next]_<<list, active>>

=============================================================================
