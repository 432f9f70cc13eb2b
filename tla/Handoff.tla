------------------------------ MODULE Handoff -------------------------------
(***************************************************************************)
(* What a stage of the pipeline promises about each item it is given: the  *)
(* item is offered once, handed on at most once, and an item that was lost *)
(* stays lost.  Losing is always allowed: every stage prefers a lost       *)
(* signal to a repeated one.                                               *)
(***************************************************************************)
CONSTANT Items
VARIABLE place    \* place[i]: where item i is

vars == <<place>>

Places == {"new", "offered", "passed", "lost"}

TypeOK == place \in [Items -> Places]

Init == place = [i \in Items |-> "new"]

Moves ==
    { <<"new", "offered">>, <<"offered", "passed">>, <<"offered", "lost">>, <<"new", "lost">> }

\* One step may lose several items at once: a trimmed stream, a group created
\* after they were added, a process that dies with one in hand.
Next ==
    /\ place' \in [Items -> Places]
    /\ \A i \in Items : place'[i] = place[i] \/ <<place[i], place'[i]>> \in Moves

Spec == Init /\ [][Next]_vars
=============================================================================
