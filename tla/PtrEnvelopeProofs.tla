-------------------------- MODULE PtrEnvelopeProofs --------------------------
(***************************************************************************)
(* What PtrEnvelope's run checks for three accessors and two ports, proved *)
(* for every finite set of accessors and every set of ports.               *)
(***************************************************************************)
EXTENDS PtrEnvelope, FiniteSetTheorems, TLAPS

\* The accessors that there are can be counted.
LEMMA AliveIsFinite == ASSUME TypeOK PROVE IsFiniteSet(alive)
  BY EnvelopeAssumption, FS_Subset DEF TypeOK

\* When the count is zero there is no accessor, and the other way round.
LEMMA FreeMeansAlone == ASSUME EnvelopeInv PROVE Free <=> alive = {}
  BY AliveIsFinite, FS_EmptySet DEF EnvelopeInv, Free

\* The inductive invariant holds at the beginning.
LEMMA InitEnvelope == ASSUME Init PROVE EnvelopeInv
<1>1. TypeOK
  BY DEF Init, TypeOK
<1>2. useCount = Cardinality(alive)
  BY FS_EmptySet DEF Init
<1>3. \A a \in Accessor \ alive : seen[a] = NoItem
  BY DEF Init
<1>4. QED
  BY <1>1, <1>2, <1>3 DEF Init, EnvelopeInv, NoDanglingPort, NoLostWakeup

\* A step that leaves the accessors alone changes nothing about the count.
LEMMA SameAccessors ==
  ASSUME EnvelopeInv, TypeOK', UNCHANGED <<useCount, alive, seen>>,
         item' = item \/ Free, asleep' => ~Free \/ asleep
  PROVE  EnvelopeInv'
<1>1. NoDanglingPort'
  BY FreeMeansAlone DEF EnvelopeInv, NoDanglingPort
<1>2. NoLostWakeup'
  BY FreeMeansAlone DEF EnvelopeInv, NoLostWakeup
<1>3. QED
  BY <1>1, <1>2 DEF EnvelopeInv

\* Every step keeps the inductive invariant.
LEMMA NextEnvelope == ASSUME EnvelopeInv, [Next]_vars PROVE EnvelopeInv'
<1>1. ASSUME NEW a \in Accessor, makeAccessor(a) PROVE EnvelopeInv'
  <2>1. useCount' = Cardinality(alive')
    BY <1>1, AliveIsFinite, FS_AddElement DEF makeAccessor, EnvelopeInv, TypeOK
  <2>2. TypeOK'
    <3>1. useCount' \in Nat
      BY <1>1 DEF makeAccessor, EnvelopeInv, TypeOK
    <3>2. alive' \subseteq Accessor
      BY <1>1 DEF makeAccessor, EnvelopeInv, TypeOK
    <3>3. QED
      BY <1>1, <3>1, <3>2 DEF makeAccessor, Notify, EnvelopeInv, TypeOK
  <2>3. NoDanglingPort' /\ NoLostWakeup' /\ \A b \in Accessor \ alive' : seen'[b] = NoItem
    BY <1>1 DEF makeAccessor, Notify, EnvelopeInv, NoDanglingPort, NoLostWakeup
  <2>4. QED
    BY <2>1, <2>2, <2>3 DEF EnvelopeInv
<1>2. ASSUME NEW a \in Accessor, get(a) PROVE EnvelopeInv'
  <2>1. seen' = [seen EXCEPT ![a] = item] /\ seen \in [Accessor -> Item \cup {NoItem}]
    BY <1>2 DEF get, EnvelopeInv, TypeOK
  <2>2. TypeOK'
    BY <1>2 DEF get, EnvelopeInv, TypeOK
  <2>3. NoDanglingPort' /\ NoLostWakeup' /\ \A b \in Accessor \ alive' : seen'[b] = NoItem
    BY <1>2, <2>1 DEF get, EnvelopeInv, TypeOK, NoDanglingPort, NoLostWakeup
  <2>4. QED
    BY <1>2, <2>2, <2>3 DEF get, EnvelopeInv
<1>3. ASSUME NEW a \in Accessor, decrementUseCount(a) PROVE EnvelopeInv'
  <2>1. useCount' = Cardinality(alive')
    BY <1>3, AliveIsFinite, FS_RemoveElement DEF decrementUseCount, EnvelopeInv, TypeOK
  <2>2. useCount' \in Nat
    BY <1>3, <2>1, AliveIsFinite, FS_RemoveElement, FS_CardinalityType DEF decrementUseCount, EnvelopeInv
  <2>3. TypeOK'
    BY <1>3, <2>2 DEF decrementUseCount, Notify, EnvelopeInv, TypeOK
  <2>4. NoDanglingPort' /\ NoLostWakeup' /\ \A b \in Accessor \ alive' : seen'[b] = NoItem
    BY <1>3 DEF decrementUseCount, Notify, EnvelopeInv, TypeOK, NoDanglingPort, NoLostWakeup
  <2>5. QED
    BY <2>1, <2>3, <2>4 DEF EnvelopeInv
<1>4. ASSUME NEW p \in Item, setItemWait(p) PROVE EnvelopeInv'
  <2>1. TypeOK'
    BY <1>4 DEF setItemWait, Done, Wait, EnvelopeInv, TypeOK
  <2>2. QED
    BY <1>4, <2>1, SameAccessors DEF setItemWait, Done, Wait
<1>5. ASSUME SetWakes PROVE EnvelopeInv'
  <2>1. TypeOK'
    BY <1>5 DEF SetWakes, Done, Wait, EnvelopeInv, TypeOK
  <2>2. QED
    BY <1>5, <2>1, SameAccessors DEF SetWakes, Done, Wait
<1>6. ASSUME removeItemWait PROVE EnvelopeInv'
  <2>1. TypeOK'
    BY <1>6 DEF removeItemWait, Done, Wait, EnvelopeInv, TypeOK
  <2>2. QED
    BY <1>6, <2>1, SameAccessors DEF removeItemWait, Done, Wait
<1>7. ASSUME RemoveWakes PROVE EnvelopeInv'
  <2>1. TypeOK'
    BY <1>7 DEF RemoveWakes, Done, Wait, EnvelopeInv, TypeOK
  <2>2. QED
    BY <1>7, <2>1, SameAccessors DEF RemoveWakes, Done, Wait
<1>8. ASSUME Timeout \/ SpuriousWakeup PROVE EnvelopeInv'
  <2>1. TypeOK'
    BY <1>8 DEF Timeout, SpuriousWakeup, Done, EnvelopeInv, TypeOK
  <2>2. QED
    BY <1>8, <2>1, SameAccessors DEF Timeout, SpuriousWakeup, Done
<1>9. CASE UNCHANGED vars
  BY <1>9 DEF vars, EnvelopeInv, TypeOK, NoDanglingPort, NoLostWakeup
<1>10. QED
  BY <1>1, <1>2, <1>3, <1>4, <1>5, <1>6, <1>7, <1>8, <1>9 DEF Next

\* The count that the envelope keeps is the number of accessors, and what follows
\* from that, in every reachable state (decrementUseCount, makeAccessor and the
\* waiting loops of setItemWait and removeItemWait).
THEOREM EnvelopeInvariant == Spec => []EnvelopeInv
  BY InitEnvelope, NextEnvelope, PTL DEF Spec

\* The envelope's fields have their types; a call under way fits the pointer.
THEOREM EnvelopeTypeCorrect == Spec => []TypeOK
<1>1. EnvelopeInv => TypeOK
  BY DEF EnvelopeInv
<1>2. QED
  BY <1>1, EnvelopeInvariant, PTL

\* A port handed out by a living accessor is still in its slot: the walks may use
\* the reference that Accessor::get returns without holding any mutex.
THEOREM EnvelopeNoDanglingPort == Spec => []NoDanglingPort
<1>1. EnvelopeInv => NoDanglingPort
  BY DEF EnvelopeInv
<1>2. QED
  BY <1>1, EnvelopeInvariant, PTL

\* The administrator never sleeps on in setItemWait or removeItemWait when no
\* accessor is left.
THEOREM EnvelopeNoLostWakeup == Spec => []NoLostWakeup
<1>1. EnvelopeInv => NoLostWakeup
  BY DEF EnvelopeInv
<1>2. QED
  BY <1>1, EnvelopeInvariant, PTL

\* An envelope starts as a lease nobody holds.
LEMMA InitLease == Init => Lease!Init
  BY DEF Init, Lease!Init

\* Every step of an envelope is a step of the lease, or does not concern it.
LEMMA NextLease == ASSUME EnvelopeInv, [Next]_vars PROVE [Lease!Next]_(Lease!vars)
<1> USE DEF Lease!Next, Lease!vars
<1>1. ASSUME NEW a \in Accessor, makeAccessor(a) PROVE Lease!Next
  BY <1>1 DEF makeAccessor, Lease!Begin
<1>2. ASSUME NEW a \in Accessor, get(a) PROVE UNCHANGED Lease!vars
  BY <1>2 DEF get
<1>3. ASSUME NEW a \in Accessor, decrementUseCount(a) PROVE Lease!Next
  BY <1>3 DEF decrementUseCount, Lease!Finish
<1>4. ASSUME item' = item, UNCHANGED alive PROVE UNCHANGED Lease!vars
  BY <1>4
<1>5. ASSUME Free, UNCHANGED alive, item' \in Item \cup {NoItem}, item = NoItem \/ item' = NoItem
      PROVE Lease!Next
  BY <1>5, FreeMeansAlone DEF Lease!Exchange
<1>6. ASSUME NEW p \in Item, setItemWait(p) PROVE [Lease!Next]_(Lease!vars)
  BY <1>4, <1>5, <1>6 DEF setItemWait, Wait
<1>7. ASSUME SetWakes PROVE [Lease!Next]_(Lease!vars)
  BY <1>4, <1>5, <1>7 DEF SetWakes, Wait, EnvelopeInv, TypeOK
<1>8. ASSUME removeItemWait \/ RemoveWakes PROVE [Lease!Next]_(Lease!vars)
  BY <1>4, <1>5, <1>8 DEF removeItemWait, RemoveWakes, Wait
<1>9. ASSUME Timeout \/ SpuriousWakeup \/ UNCHANGED vars PROVE UNCHANGED Lease!vars
  BY <1>9 DEF Timeout, SpuriousWakeup, vars
<1>10. QED
  BY <1>1, <1>2, <1>3, <1>6, <1>7, <1>8, <1>9 DEF Next

\* Counting accessors and waiting for the count to become zero implements the
\* lease: a port is neither put into its slot nor taken out while anybody uses it.
THEOREM EnvelopeKeepsLease == Spec => KeepsLease
<1>1. Spec => Lease!Spec
  BY InitLease, NextLease, EnvelopeInvariant, PTL DEF Spec, Lease!Spec
<1>2. QED
  BY <1>1 DEF KeepsLease

==============================================================================
