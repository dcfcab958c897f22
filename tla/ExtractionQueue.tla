---------------------------- MODULE ExtractionQueue ----------------------------
(***************************************************************************)
(* What the html_content hash columns promise, for one page: a queue of at  *)
(* most one item.  Storing a version puts it in the queue; a reader may     *)
(* look at the stored version at any time; a reader acknowledges a version  *)
(* it has looked at, and only the acknowledgement of the stored version     *)
(* empties the queue.  PageExtraction implements it.                       *)
(***************************************************************************)
CONSTANTS Versions, None

VARIABLES
  stored,    \* the version the row holds
  looked,    \* versions some reader has looked at
  acked      \* the version last acknowledged

vars == <<stored, looked, acked>>

Pending == stored # None /\ stored # acked

Init == /\ stored \in Versions \cup {None}
        /\ acked \in {None, stored}
        /\ looked = {acked} \ {None}

Store(v) == /\ stored' = v
            /\ UNCHANGED <<looked, acked>>

Look == /\ stored # None
        /\ looked' = looked \cup {stored}
        /\ UNCHANGED <<stored, acked>>

Acknowledge(v) == /\ v \in looked
                  /\ acked' = v
                  /\ UNCHANGED <<stored, looked>>

Next == \/ \E v \in Versions : Store(v) \/ Acknowledge(v)
        \/ Look

Spec == Init /\ [][Next]_vars
===============================================================================
