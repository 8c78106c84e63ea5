------------------------------ MODULE PortList ------------------------------
(***************************************************************************)
(* Where a PortChain keeps its ports (native/portchain.hpp): an array with *)
(* the input ports at its front and the output ports at its end, so that a *)
(* walk over the array processes input before output.  The first and the   *)
(* last slot are meant for the control ports that open and close a cycle.  *)
(*                                                                         *)
(* Only the direction of a port matters here.  Every action runs under the *)
(* chain's stateMutex.                                                     *)
(***************************************************************************)
EXTENDS Integers

CONSTANT MAX_PORTS

ASSUME MaxPortsAssumption == MAX_PORTS \in Nat /\ MAX_PORTS >= 4

VARIABLES
  portList,  \* what each slot holds
  state      \* the chain's state, as far as adding ports depends on it

vars == <<portList, state>>

Slot == 0 .. MAX_PORTS - 1

IsInput(item) == item \in {"startControl", "input"}

IsOutput(item) == item \in {"endControl", "output"}

Empty(i) == portList[i] = "empty"

----------------------------------------------------------------------------
(* The search for a slot. *)

\* Holes that are followed by an output port.
CandidatesForOutput == {i \in 0 .. MAX_PORTS - 3 : Empty(i) /\ IsOutput(portList[i + 1])}

\* Mutant: any hole will do.
MutFindSlotForOutputPort(i) ==
  /\ i \in Slot /\ Empty(i)
  /\ \A j \in Slot : Empty(j) => j <= i

\* Is i the slot that findSlotForOutputPort returns?
findSlotForOutputPort(i) ==
  \/ i = MAX_PORTS - 2 /\ Empty(i)
  \/ /\ ~Empty(MAX_PORTS - 2)
     /\ i \in CandidatesForOutput
     /\ \A j \in CandidatesForOutput : j <= i

\* Holes that are preceded by an input port.
CandidatesForInput == {i \in 1 .. MAX_PORTS - 1 : Empty(i) /\ IsInput(portList[i - 1])}

\* Mutant: once the first slot is taken, holes are not looked for.
MutFindSlotForInputPort(i) == i = 1 /\ Empty(i)

\* Is i the slot that findSlotForInputPort returns?
findSlotForInputPort(i) ==
  \/ i = 1 /\ Empty(i)
  \/ /\ ~Empty(1)
     /\ i \in CandidatesForInput
     /\ \A j \in CandidatesForInput : i <= j

----------------------------------------------------------------------------
(* The operations that put ports into the array or take them out. *)

Init ==
  /\ portList = [i \in Slot |-> "empty"]
  /\ state = "created"

\* initialize puts the control ports in place.  It throws if their slots are
\* taken; by then the start control may be there already.
Initialize ==
  /\ state = "created"
  /\ Empty(0)
  /\ IF Empty(MAX_PORTS - 1)
     THEN /\ portList' = [portList EXCEPT ![0] = "startControl", ![MAX_PORTS - 1] = "endControl"]
          /\ state' = "initialized"
     ELSE /\ portList' = [portList EXCEPT ![0] = "startControl"]
          /\ UNCHANGED state

\* Mutant: the two searches are mixed up.
MutAddPort ==
  /\ state \in {"created", "initialized"}
  /\ \E i \in Slot :
       \/ findSlotForOutputPort(i) /\ portList' = [portList EXCEPT ![i] = "input"]
       \/ findSlotForInputPort(i) /\ portList' = [portList EXCEPT ![i] = "output"]
  /\ UNCHANGED state

\* addPort; it throws when no slot is found, and then the port is lost.
AddPort ==
  /\ state \in {"created", "initialized"}
  /\ \E i \in Slot :
       \/ findSlotForOutputPort(i) /\ portList' = [portList EXCEPT ![i] = "output"]
       \/ findSlotForInputPort(i) /\ portList' = [portList EXCEPT ![i] = "input"]
  /\ UNCHANGED state

\* removePort, called with the identifier of a port that is not a control port.
RemovePort ==
  /\ \E i \in Slot :
       /\ portList[i] \in {"input", "output"}
       /\ portList' = [portList EXCEPT ![i] = "empty"]
  /\ UNCHANGED state

\* stop or shutdown: no more ports are added.  (Until then "registered" and
\* "running" are like "initialized" here.)
Stop ==
  /\ state # "stopped"
  /\ state' = "stopped"
  /\ UNCHANGED portList

Next == Initialize \/ AddPort \/ RemovePort \/ Stop

Spec == Init /\ [][Next]_vars

----------------------------------------------------------------------------

\* The variables have their types.
TypeOK ==
  /\ portList \in [Slot -> {"empty", "startControl", "input", "output", "endControl"}]
  /\ state \in {"created", "initialized", "stopped"}

Ordered(slots) ==
  \A i, j \in slots : IsOutput(portList[i]) /\ IsInput(portList[j]) => j < i

\* Whatever has been added and removed, a walk over the array of an initialized
\* chain meets every input port before any output port, the start control first
\* and the end control last (contract of portList).
InputsFirst == state = "initialized" => Ordered(Slot)

\* "The first slot and the last slot are reserved for the control ports"
\* (findSlotForNewPort).  Before initialize has put these in place, and after it has
\* failed to, the two searches give the reserved slots away.
ControlSlotsReserved ==
  /\ portList[0] \in {"empty", "startControl"}
  /\ portList[MAX_PORTS - 1] \in {"empty", "endControl"}

\* A port is refused only if there is no room on its side: every hole that is
\* left lies beyond a port of the other direction (findSlotForNewPort reuses
\* holes within the range of the input ports and of the output ports).
HolesAreReused ==
  \A hole \in 1 .. MAX_PORTS - 2 : Empty(hole) =>
    /\ (\A i \in Slot : ~findSlotForOutputPort(i)) => \E j \in hole .. MAX_PORTS - 1 : IsInput(portList[j])
    /\ (\A i \in Slot : ~findSlotForInputPort(i)) => \E j \in 0 .. hole : IsOutput(portList[j])

----------------------------------------------------------------------------

\* Between the control ports, inputs come first in every state: what InputsFirst
\* rests on.
ListInv ==
  /\ TypeOK
  /\ Ordered(1 .. MAX_PORTS - 2)
  /\ \A i \in Slot : /\ portList[i] = "startControl" => i = 0
                     /\ portList[i] = "endControl" => i = MAX_PORTS - 1
  /\ state = "initialized" => portList[0] = "startControl" /\ portList[MAX_PORTS - 1] = "endControl"

==============================================================================
