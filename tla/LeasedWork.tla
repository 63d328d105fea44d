----------------------------- MODULE LeasedWork -----------------------------
(***************************************************************************)
(* What a queue with leases promises of every item, whoever asks and       *)
(* however late: it is taken a bounded number of times, each time by a     *)
(* bounded number of takers of whom a later one supersedes an earlier, and *)
(* once settled it is never taken again.                                   *)
(***************************************************************************)
EXTENDS Naturals

CONSTANTS
    Item,
    MaxTakes,   \* how often an item may be taken
    MaxTakers   \* to how many it may be given each time

VARIABLES
    place,  \* absent, free, held or settled
    takes,  \* how often the item was taken
    takers  \* to how many it was given the last time

vars == <<place, takes, takers>>

Init ==
    /\ place = [i \in Item |-> "absent"]
    /\ takes = [i \in Item |-> 0]
    /\ takers = [i \in Item |-> 0]

Goes(i, from, to) == place[i] = from /\ place'[i] = to

Kept(i) == takes'[i] = takes[i] /\ takers'[i] = takers[i]

Add(i)  == Goes(i, "absent", "free") /\ Kept(i)
Take(i) ==
    /\ Goes(i, "free", "held")
    /\ takes[i] < MaxTakes /\ takes'[i] = takes[i] + 1
    /\ takers'[i] = 1
Supersede(i) ==
    /\ Goes(i, "held", "held")
    /\ takes'[i] = takes[i]
    /\ takers[i] < MaxTakers /\ takers'[i] = takers[i] + 1
PutBack(i) == Goes(i, "held", "free") /\ takes[i] < MaxTakes /\ Kept(i)
Settle(i)  == Goes(i, "held", "settled") /\ Kept(i)
Stay(i)    == place'[i] = place[i] /\ Kept(i)

\* A sweep may put several items back at once.
Next ==
    \A i \in Item : \/ Add(i) \/ Take(i) \/ Supersede(i) \/ PutBack(i)
                   \/ Settle(i) \/ Stay(i)

Spec == Init /\ [][Next]_vars
=============================================================================
