----------------------------- MODULE PtrEnvelope -----------------------------
(***************************************************************************)
(* One slot of the port chain (native/ptrEnvelope.hpp).  The walks of the  *)
(* Java worker and of the process thread look at the port in the slot      *)
(* through Accessors, which are counted; the administrator, who holds the  *)
(* chain's stateMutex and is therefore alone, puts a port in or takes it   *)
(* out and waits, for a limited time, until the count is zero.             *)
(***************************************************************************)
EXTENDS Integers, FiniteSets

CONSTANTS
  Accessor,  \* accessors, of any threads
  Item,      \* ports
  NoItem     \* the null pointer

ASSUME EnvelopeAssumption == IsFiniteSet(Accessor) /\ NoItem \notin Item

VARIABLES
  item,      \* the enveloped pointer
  useCount,  \* how many accessors there are, as the envelope counts them
  alive,     \* the accessors that there are
  seen,      \* history: the pointer that a living accessor has handed out last
  mutator,   \* what the administrator is doing
  newItem,   \* the port it is about to put in
  asleep     \* is it waiting on onUseCountChanged?

vars == <<item, useCount, alive, seen, mutator, newItem, asleep>>

Notify == asleep' = FALSE

----------------------------------------------------------------------------
(* The accessors. *)

makeAccessor(a) ==
  /\ a \notin alive
  /\ alive' = alive \cup {a}
  /\ useCount' = useCount + 1
  /\ Notify
  /\ UNCHANGED <<item, seen, mutator, newItem>>

\* get, hasItem or isEmpty.
get(a) ==
  /\ a \in alive
  /\ seen' = [seen EXCEPT ![a] = item]
  /\ UNCHANGED <<item, useCount, alive, mutator, newItem, asleep>>

\* Mutant: the administrator is not told.
MutDecrementUseCount(a) ==
  /\ a \in alive
  /\ alive' = alive \ {a}
  /\ useCount' = useCount - 1
  /\ seen' = [seen EXCEPT ![a] = NoItem]
  /\ UNCHANGED <<item, mutator, newItem, asleep>>

\* The end of an accessor.
decrementUseCount(a) ==
  /\ a \in alive
  /\ alive' = alive \ {a}
  /\ useCount' = useCount - 1
  /\ seen' = [seen EXCEPT ![a] = NoItem]
  /\ Notify
  /\ UNCHANGED <<item, mutator, newItem>>

----------------------------------------------------------------------------
(* The administrator. *)

\* Mutant: one accessor is let pass, as if it were the administrator's own.
MutFree == useCount <= 1

Free == useCount = 0

Done == mutator' = "idle" /\ newItem' = NoItem /\ asleep' = FALSE

Wait(what, p) == mutator' = what /\ newItem' = p /\ asleep' = TRUE /\ UNCHANGED item

\* It is called with an empty envelope only; otherwise it throws at once.
setItemWait(p) ==
  /\ mutator = "idle" /\ item = NoItem
  /\ \/ Free /\ item' = p /\ Done
     \/ ~Free /\ Wait("setting", p)
  /\ UNCHANGED <<useCount, alive, seen>>

SetWakes ==
  /\ mutator = "setting" /\ ~asleep
  /\ \/ Free /\ item' = newItem /\ Done
     \/ ~Free /\ Wait("setting", newItem)
  /\ UNCHANGED <<useCount, alive, seen>>

\* It throws at once when the envelope is empty.
removeItemWait ==
  /\ mutator = "idle" /\ item # NoItem
  /\ \/ Free /\ item' = NoItem /\ Done
     \/ ~Free /\ Wait("removing", NoItem)
  /\ UNCHANGED <<useCount, alive, seen>>

RemoveWakes ==
  /\ mutator = "removing" /\ ~asleep
  /\ \/ Free /\ item' = NoItem /\ Done
     \/ ~Free /\ Wait("removing", NoItem)
  /\ UNCHANGED <<useCount, alive, seen>>

\* wait_for expires and the call throws; the use count is not looked at again, so
\* this may happen although a notification has come meanwhile.
Timeout == mutator # "idle" /\ Done /\ UNCHANGED <<item, useCount, alive, seen>>

\* A wait ends without a reason.
SpuriousWakeup == asleep /\ asleep' = FALSE
                  /\ UNCHANGED <<item, useCount, alive, seen, mutator, newItem>>

----------------------------------------------------------------------------

Init ==
  /\ item = NoItem /\ newItem = NoItem
  /\ useCount = 0 /\ alive = {}
  /\ seen = [a \in Accessor |-> NoItem]
  /\ mutator = "idle" /\ asleep = FALSE

Next ==
  \/ \E a \in Accessor : makeAccessor(a) \/ get(a) \/ decrementUseCount(a)
  \/ \E p \in Item : setItemWait(p)
  \/ removeItemWait \/ SetWakes \/ RemoveWakes \/ Timeout \/ SpuriousWakeup

Spec == Init /\ [][Next]_vars

----------------------------------------------------------------------------

\* The variables have their types, and a call under way fits the pointer.
TypeOK ==
  /\ item \in Item \cup {NoItem}
  /\ useCount \in Nat
  /\ alive \subseteq Accessor
  /\ seen \in [Accessor -> Item \cup {NoItem}]
  /\ mutator \in {"idle", "setting", "removing"}
  /\ mutator = "setting" => newItem \in Item /\ item = NoItem
  /\ mutator # "setting" => newItem = NoItem
  /\ asleep \in BOOLEAN
  /\ asleep => mutator # "idle"

\* A port that an accessor has handed out stays in its slot, and so alive, until
\* that accessor is gone: the walks may use it without holding any mutex.
NoDanglingPort == \A a \in alive : seen[a] # NoItem => seen[a] = item

\* The administrator does not sleep on when nobody is left to wait for.
NoLostWakeup == asleep => alive # {}

\* The counting and waiting implement the lease.
Lease == INSTANCE SlotLease WITH users <- alive

KeepsLease == Lease!Spec

----------------------------------------------------------------------------

\* The inductive invariant: the count is right, whatever sequence of accessors
\* comes and goes, and an accessor that is gone has left nothing behind.
EnvelopeInv ==
  /\ TypeOK
  /\ useCount = Cardinality(alive)
  /\ \A a \in Accessor \ alive : seen[a] = NoItem
  /\ NoDanglingPort
  /\ NoLostWakeup

==============================================================================
