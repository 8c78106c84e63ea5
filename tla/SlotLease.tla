------------------------------ MODULE SlotLease ------------------------------
(***************************************************************************)
(* What a PtrEnvelope promises (native/ptrEnvelope.hpp: "permits to use a  *)
(* unique_ptr in a thread save way"): whoever uses the item has it on      *)
(* lease, and it is neither put in nor taken out while anybody does.       *)
(***************************************************************************)
CONSTANTS Accessor, Item, NoItem

VARIABLES
  item,  \* the item, or NoItem
  users  \* who has it on lease

vars == <<item, users>>

Init == item = NoItem /\ users = {}

Begin(a) == a \notin users /\ users' = users \cup {a} /\ UNCHANGED item

Finish(a) == a \in users /\ users' = users \ {a} /\ UNCHANGED item

\* The item is exchanged for another one, or for nothing.
Exchange ==
  /\ users = {}
  /\ item' \in Item \cup {NoItem}
  /\ item = NoItem \/ item' = NoItem
  /\ UNCHANGED users

Next == (\E a \in Accessor : Begin(a) \/ Finish(a)) \/ Exchange

Spec == Init /\ [][Next]_vars

==============================================================================
