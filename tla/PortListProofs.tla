--------------------------- MODULE PortListProofs ---------------------------
(***************************************************************************)
(* Proofs about PortList, for an array of any length.                      *)
(***************************************************************************)
EXTENDS PortList, TLAPS, WellFoundedInduction

Item == {"empty", "startControl", "input", "output", "endControl"}

USE MaxPortsAssumption DEF Slot, IsInput, IsOutput, Empty

\* An output port is put between the control ports, or, into an empty array's
\* first slot, in front of other output ports.
LEMMA SlotForOutput ==
  ASSUME TypeOK, NEW i \in Slot, findSlotForOutputPort(i)
  PROVE  /\ Empty(i)
         /\ i \in 0 .. MAX_PORTS - 2
         /\ i = MAX_PORTS - 2 \/ IsOutput(portList[i + 1])
  BY DEF findSlotForOutputPort, CandidatesForOutput

\* An input port goes to the first slot or right behind another input port.
LEMMA SlotForInput ==
  ASSUME TypeOK, NEW i \in Slot, findSlotForInputPort(i)
  PROVE  /\ Empty(i)
         /\ i \in 1 .. MAX_PORTS - 1
         /\ i = 1 \/ IsInput(portList[i - 1])
  BY DEF findSlotForInputPort, CandidatesForInput

\* The empty array.
LEMMA InitOK == Init => ListInv
  BY DEF Init, ListInv, TypeOK, Ordered

\* A new output port lies behind every input port.
LEMMA AddOutputOK ==
  ASSUME ListInv, NEW i \in Slot, findSlotForOutputPort(i), UNCHANGED state,
         portList' = [portList EXCEPT ![i] = "output"]
  PROVE  ListInv'
  <1>1. TypeOK
    BY DEF ListInv
  <1>2. /\ Empty(i)
        /\ i \in 0 .. MAX_PORTS - 2
        /\ i = MAX_PORTS - 2 \/ IsOutput(portList[i + 1])
    BY <1>1, SlotForOutput
  <1>3. TypeOK'
    BY <1>1 DEF TypeOK
  <1>4. Ordered(1 .. MAX_PORTS - 2)'
    <2> SUFFICES ASSUME NEW o \in 1 .. MAX_PORTS - 2, NEW j \in 1 .. MAX_PORTS - 2,
                        IsOutput(portList'[o]), IsInput(portList'[j])
                 PROVE  j < o
      BY DEF Ordered
    <2>1. j # i /\ IsInput(portList[j])
      BY <1>1 DEF TypeOK
    <2>2. CASE o # i
      BY <1>1, <2>1, <2>2 DEF TypeOK, ListInv, Ordered
    <2>3. CASE o = i /\ i # MAX_PORTS - 2
      <3>1. i + 1 \in 1 .. MAX_PORTS - 2 /\ IsOutput(portList[i + 1])
        BY <1>2, <2>3
      <3>2. j < i + 1
        BY <2>1, <3>1 DEF ListInv, Ordered
      <3> QED
        BY <2>1, <2>3, <3>2
    <2>4. CASE o = i /\ i = MAX_PORTS - 2
      BY <2>1, <2>4
    <2> QED
      BY <2>2, <2>3, <2>4
  <1> QED
    BY <1>1, <1>2, <1>3, <1>4 DEF ListInv, TypeOK

\* A new input port lies in front of every output port.
LEMMA AddInputOK ==
  ASSUME ListInv, NEW i \in Slot, findSlotForInputPort(i), UNCHANGED state,
         portList' = [portList EXCEPT ![i] = "input"]
  PROVE  ListInv'
  <1>1. TypeOK
    BY DEF ListInv
  <1>2. /\ Empty(i)
        /\ i \in 1 .. MAX_PORTS - 1
        /\ i = 1 \/ IsInput(portList[i - 1])
    BY <1>1, SlotForInput
  <1>3. TypeOK'
    BY <1>1 DEF TypeOK
  <1>4. Ordered(1 .. MAX_PORTS - 2)'
    <2> SUFFICES ASSUME NEW o \in 1 .. MAX_PORTS - 2, NEW j \in 1 .. MAX_PORTS - 2,
                        IsOutput(portList'[o]), IsInput(portList'[j])
                 PROVE  j < o
      BY DEF Ordered
    <2>1. o # i /\ IsOutput(portList[o])
      BY <1>1 DEF TypeOK
    <2>2. CASE j # i
      BY <1>1, <2>1, <2>2 DEF TypeOK, ListInv, Ordered
    <2>3. CASE j = i /\ i # 1
      <3>1. i - 1 \in 1 .. MAX_PORTS - 2 /\ IsInput(portList[i - 1])
        BY <1>2, <2>3
      <3>2. i - 1 < o
        BY <2>1, <3>1 DEF ListInv, Ordered
      <3> QED
        BY <2>1, <2>3, <3>2
    <2>4. CASE j = i /\ i = 1
      BY <2>1, <2>4
    <2> QED
      BY <2>2, <2>3, <2>4
  <1> QED
    BY <1>1, <1>2, <1>3, <1>4 DEF ListInv, TypeOK

\* Every operation keeps the inputs in front.
LEMMA StepOK == ListInv /\ [Next]_vars => ListInv'
  <1> SUFFICES ASSUME ListInv, [Next]_vars PROVE ListInv'
    OBVIOUS
  <1>1. CASE Initialize
    BY <1>1 DEF Initialize, ListInv, TypeOK, Ordered
  <1>2. CASE AddPort
    BY <1>2, AddOutputOK, AddInputOK DEF AddPort
  <1>3. CASE RemovePort
    BY <1>3 DEF RemovePort, ListInv, TypeOK, Ordered
  <1>4. CASE Stop
    BY <1>4 DEF Stop, ListInv, TypeOK, Ordered
  <1>5. CASE UNCHANGED vars
    BY <1>5 DEF vars, ListInv, TypeOK, Ordered
  <1> QED
    BY <1>1, <1>2, <1>3, <1>4, <1>5 DEF Next

\* ListInv is an invariant.
THEOREM ListInvariant == Spec => []ListInv
  BY InitOK, StepOK, PTL DEF Spec

\* The variables have their types.
THEOREM ListTypeCorrect == Spec => []TypeOK
  <1>1. ListInv => TypeOK
    BY DEF ListInv
  <1> QED
    BY ListInvariant, <1>1, PTL

\* In an initialized chain of any length, after any additions and removals, all
\* input ports precede all output ports, between the two control ports.
THEOREM ListInputsFirst == Spec => []InputsFirst
  <1>1. ListInv => InputsFirst
    <2> SUFFICES ASSUME ListInv, state = "initialized", NEW i \in Slot, NEW j \in Slot,
                        IsOutput(portList[i]), IsInput(portList[j])
                 PROVE  j < i
      BY DEF InputsFirst, Ordered
    <2>1. portList[0] = "startControl" /\ portList[MAX_PORTS - 1] = "endControl"
      BY DEF ListInv
    <2>2. i # 0 /\ j # MAX_PORTS - 1
      BY <2>1
    <2>3. CASE j = 0 \/ i = MAX_PORTS - 1
      BY <2>2, <2>3
    <2>4. CASE j # 0 /\ i # MAX_PORTS - 1
      BY <2>2, <2>4 DEF ListInv, Ordered
    <2> QED
      BY <2>3, <2>4
  <1> QED
    BY ListInvariant, <1>1, PTL

----------------------------------------------------------------------------
(* No hole within reach is left over. *)

\* A set of slots has a first one and a last one.
LEMMA FirstSlot == ASSUME NEW T \in SUBSET Slot, T # {} PROVE \E x \in T : \A y \in T : x <= y
  <1>1. T \subseteq Nat
    OBVIOUS
  <1>2. PICK x \in T : \A y \in T : ~(<<y, x>> \in OpToRel(<, Nat))
    BY <1>1, NatLessThanWellFounded, WFMin
  <1>3. \A y \in Nat : y < x => <<y, x>> \in OpToRel(<, Nat)
    BY <1>1 DEF OpToRel
  <1>4. \A y \in T : y \in Nat /\ ~(y < x)
    BY <1>1, <1>2, <1>3
  <1> QED
    BY <1>1, <1>4

LEMMA LastSlot == ASSUME NEW T \in SUBSET Slot, T # {} PROVE \E x \in T : \A y \in T : y <= x
  <1> DEFINE U == {MAX_PORTS - 1 - i : i \in T}
  <1>1. U \in SUBSET Slot
    <2>1. ASSUME NEW v \in U PROVE v \in Slot
      <3>1. PICK i \in T : v = MAX_PORTS - 1 - i
        BY <2>1
      <3>2. i \in Slot
        OBVIOUS
      <3> HIDE DEF U
      <3> QED
        BY <3>1, <3>2 DEF Slot
    <2> HIDE DEF U
    <2> QED
      BY <2>1
  <1>2. PICK u \in U : \A v \in U : u <= v
    <2>1. U # {}
      OBVIOUS
    <2> HIDE DEF U
    <2> QED
      BY <1>1, <2>1, FirstSlot
  <1>3. PICK x \in T : u = MAX_PORTS - 1 - x
    BY <1>2
  <1>4. \A y \in T : MAX_PORTS - 1 - y \in U
    OBVIOUS
  <1>5. ASSUME NEW y \in T PROVE y <= x
    <2>1. u <= MAX_PORTS - 1 - y
      BY <1>2, <1>4
    <2>2. x \in Nat /\ y \in Nat
      BY DEF Slot
    <2> HIDE DEF U
    <2> QED
      BY <1>3, <2>1, <2>2
  <1> HIDE DEF U
  <1> QED
    BY <1>5

\* If an output port finds no room, every hole lies before an input port.
LEMMA OutputsUseHoles ==
  ASSUME ListInv, NEW hole \in 1 .. MAX_PORTS - 2, Empty(hole), \A i \in Slot : ~findSlotForOutputPort(i)
  PROVE  \E j \in hole .. MAX_PORTS - 1 : IsInput(portList[j])
  <1>1. ~Empty(MAX_PORTS - 2)
    BY DEF findSlotForOutputPort
  <1>2. CandidatesForOutput = {}
    <2>1. SUFFICES ASSUME CandidatesForOutput # {} PROVE FALSE
      OBVIOUS
    <2>2. CandidatesForOutput \in SUBSET Slot
      BY DEF CandidatesForOutput
    <2>3. PICK x \in CandidatesForOutput : \A y \in CandidatesForOutput : y <= x
      BY <2>1, <2>2, LastSlot
    <2> QED
      BY <1>1, <2>2, <2>3 DEF findSlotForOutputPort
  <1>3. PICK x \in {i \in hole .. MAX_PORTS - 2 : Empty(i)} :
          \A y \in {i \in hole .. MAX_PORTS - 2 : Empty(i)} : y <= x
    <2> DEFINE T == {i \in hole .. MAX_PORTS - 2 : Empty(i)}
    <2>1. T \in SUBSET Slot /\ T # {}
      OBVIOUS
    <2> HIDE DEF T
    <2>2. \E x \in T : \A y \in T : y <= x
      BY <2>1, LastSlot
    <2> QED
      BY <2>2 DEF T
  <1>4. x + 1 \in hole .. MAX_PORTS - 2 /\ ~Empty(x + 1)
    BY <1>1, <1>3
  <1>5. portList[x + 1] \in {"input", "output"}
    BY <1>4 DEF ListInv, TypeOK
  <1>6. ~IsOutput(portList[x + 1])
    <2>1. x \in 0 .. MAX_PORTS - 3 /\ Empty(x)
      BY <1>3, <1>4
    <2>2. IsOutput(portList[x + 1]) => x \in CandidatesForOutput
      BY <2>1 DEF CandidatesForOutput
    <2> QED
      BY <1>2, <2>2
  <1> QED
    BY <1>4, <1>5, <1>6

\* If an input port finds no room, every hole lies behind an output port.
LEMMA InputsUseHoles ==
  ASSUME ListInv, NEW hole \in 1 .. MAX_PORTS - 2, Empty(hole), \A i \in Slot : ~findSlotForInputPort(i)
  PROVE  \E j \in 0 .. hole : IsOutput(portList[j])
  <1>1. ~Empty(1)
    BY DEF findSlotForInputPort
  <1>2. CandidatesForInput = {}
    <2>1. SUFFICES ASSUME CandidatesForInput # {} PROVE FALSE
      OBVIOUS
    <2>2. CandidatesForInput \in SUBSET Slot
      BY DEF CandidatesForInput
    <2>3. PICK x \in CandidatesForInput : \A y \in CandidatesForInput : x <= y
      BY <2>1, <2>2, FirstSlot
    <2> QED
      BY <1>1, <2>2, <2>3 DEF findSlotForInputPort
  <1>3. PICK x \in {i \in 1 .. hole : Empty(i)} : \A y \in {i \in 1 .. hole : Empty(i)} : x <= y
    <2> DEFINE T == {i \in 1 .. hole : Empty(i)}
    <2>1. T \in SUBSET Slot /\ T # {}
      OBVIOUS
    <2> HIDE DEF T
    <2>2. \E x \in T : \A y \in T : x <= y
      BY <2>1, FirstSlot
    <2> QED
      BY <2>2 DEF T
  <1>4. x - 1 \in 1 .. hole /\ ~Empty(x - 1)
    BY <1>1, <1>3
  <1>5. portList[x - 1] \in {"input", "output"}
    BY <1>4 DEF ListInv, TypeOK
  <1>6. ~IsInput(portList[x - 1])
    <2>1. x \in 1 .. MAX_PORTS - 1 /\ Empty(x)
      BY <1>3, <1>4
    <2>2. IsInput(portList[x - 1]) => x \in CandidatesForInput
      BY <2>1 DEF CandidatesForInput
    <2> QED
      BY <1>2, <2>2
  <1> QED
    BY <1>4, <1>5, <1>6

\* Adding fails only for want of room: no hole is left within the range of the port's own side.
THEOREM ListHolesAreReused == Spec => []HolesAreReused
  <1>1. ListInv => HolesAreReused
    BY OutputsUseHoles, InputsUseHoles DEF HolesAreReused
  <1> QED
    BY <1>1, ListInvariant, PTL

==============================================================================
