----------------------------- MODULE WorkList -----------------------------
(***************************************************************************)
(* What the mining queue promises: an item is added once, stays open until *)
(* it is decided, and a decision stands.  Only a recurring item that       *)
(* nobody holds is opened again; people may decide whatever they like.     *)
(***************************************************************************)
CONSTANTS Items, Recurring

VARIABLES item,   \* item[i]: "absent", "open" or a decision
          held    \* items on which a person put a hold

listVars == <<item, held>>

Decisions == {"review", "approved", "rejected"}

ListInit == item = [i \in Items |-> "absent"] /\ held = {}

Add(i) ==
  /\ item[i] = "absent"
  /\ item' = [item EXCEPT ![i] = "open"]
  /\ UNCHANGED held

Decide(i) ==
  /\ item[i] = "open"
  /\ \E d \in Decisions : item' = [item EXCEPT ![i] = d]
  /\ UNCHANGED held

Reopen(i) ==
  /\ i \in Recurring \ held
  /\ item[i] \in {"review", "approved"}
  /\ item' = [item EXCEPT ![i] = "open"]
  /\ UNCHANGED held

Overrule(i) ==
  /\ item[i] # "absent"
  /\ \E d \in {"review", "rejected"} : item' = [item EXCEPT ![i] = d]
  /\ held' = held \cup {i}

ListNext == \E i \in Items : Add(i) \/ Decide(i) \/ Reopen(i) \/ Overrule(i)

ListSpec == ListInit /\ [][ListNext]_listVars
===========================================================================
