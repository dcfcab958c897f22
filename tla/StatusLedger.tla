------------------------------ MODULE StatusLedger ------------------------------
(***************************************************************************)
(* What the status handling of one paper promises, without extractions,    *)
(* pages and snapshots: the status climbs, a climb may be owed to the      *)
(* feed, and an owed climb is told at most once.  This is the invariant of *)
(* docs/superpowers/specs/2026-06-11-status-event-flapping-design.md:      *)
(* the rank never decreases, and a status_change event stands for one      *)
(* increase of it.                                                         *)
(***************************************************************************)
EXTENDS Integers, Sequences

CONSTANT Levels   \* ranks of the statuses, and one for "no status"

VARIABLES
  level,   \* the paper's effective status
  owed,    \* climbs <<from, to>> some run is about to tell
  told     \* climbs in the feed, in the order they were inserted

vars == <<level, owed, told>>

Init ==
  /\ level \in Levels
  /\ owed = {}
  /\ told = <<>>

(* Not every climb is news: it may stay untold.                            *)
Climb ==
  \E l \in Levels :
    /\ l > level
    /\ level' = l
    /\ owed' \in {owed, owed \cup {<<level, l>>}}
    /\ UNCHANGED told

Tell ==
  \E c \in owed :
    /\ owed' = owed \ {c}
    /\ told' = Append(told, c)
    /\ UNCHANGED level

(* The run dies, or its insert fails.                                      *)
Forget ==
  \E c \in owed :
    /\ owed' = owed \ {c}
    /\ UNCHANGED <<level, told>>

Next == Climb \/ Tell \/ Forget

Spec == Init /\ [][Next]_vars
===============================================================================
