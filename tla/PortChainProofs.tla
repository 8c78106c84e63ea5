--------------------------- MODULE PortChainProofs ---------------------------
(***************************************************************************)
(* What PortChain guarantees for every length of the array and any number  *)
(* of ports: the types, that a new round never meets an unfinished one     *)
(* (NoXrun), that the chain keeps the promise (ChainLife) on which         *)
(* JackClient is built, that its array is a PortList and that its slots    *)
(* are used as their envelopes promise (SlotLease).  Nothing is assumed    *)
(* about failures, timeouts and refused registrations.                     *)
(***************************************************************************)
EXTENDS PortChain, PortOpsProofs

\* The places of the administrator inside stop, and inside removePort.
AdminInv ==
  /\ admin.at \in {"awaitEnd", "stop", "stopWaits"} => state = "running" /\ lastCycle
  /\ admin.at \in {"removeWaits", "take"} => Kind(admin.slot) \in {"input", "output"}

\* From initialize to stop the start control is in its slot, and it does not terminate
\* before stop has announced the last cycle.
StartInv ==
  /\ state \in {"initialized", "registered", "running"} => Start \in hasItem /\ ~portList[Start].output
  /\ ~lastCycle /\ Start \in hasItem => Quiet(portList[Start])

\* A worker in runJava is in a running chain, or the last cycle has been announced.
WorkerInv ==
  /\ java.last => lastCycle
  /\ java.at \notin {"out", "done"} => lastCycle \/ state = "running"

\* From initialize to stop the end control is in its slot, and no other port runs there.
\* When the process thread is out, or has not yet passed the end control, no cycle of the
\* end control is unfinished.
EndInv ==
  /\ state \in {"initialized", "registered", "running"} => End \in hasItem /\ portList[End].output
  /\ Running(portList[End]) => End \in hasItem /\ portList[End].output
  /\ native.at \in {"idle", "init"} => ~Xrun

\* A blocked worker is blocked in a port, which is still there.
LeaseInv ==
  /\ java.at = "blocked" => java.slot \in hasItem
  /\ native.at = "blocked" => native.slot \in hasItem

\* The inductive invariant.
ChainInv == TypeOK /\ AdminInv /\ StartInv /\ WorkerInv /\ EndInv /\ LeaseInv

\* The two ends of the array are two slots.
LEMMA Ends == 0 \in Slot /\ Start \in Slot /\ End \in Slot /\ Start # End
  BY ChainAssumption DEF Slot, Start, End

\* The ports stay where they are, and the start control quiet, unless it is time.
Moved ==
  /\ portList' \in [Slot -> PortType]
  /\ \A i \in Slot : portList'[i].output = portList[i].output
  /\ ~lastCycle /\ Quiet(portList[Start]) => Quiet(portList'[Start])

----------------------------------------------------------------------------
(* The steps that change ports. *)

\* If every port is kept, nothing has moved.
LEMMA KeepsMoves ==
  ASSUME portList \in [Slot -> PortType],
         DOMAIN portList' = Slot, portList' = [i \in Slot |-> portList'[i]],
         \A i \in Slot : \E last \in BOOLEAN :
           Keeps(portList[i], portList'[i], last) /\ (i = Start /\ last => lastCycle)
  PROVE  Moved
  <1>1. \A i \in Slot : portList'[i] \in PortType /\ portList'[i].output = portList[i].output
    BY DEF Keeps
  <1>2. Start \in Slot
    BY ChainAssumption DEF Start, Slot
  <1>3. ~lastCycle /\ Quiet(portList[Start]) => Quiet(portList'[Start])
    BY <1>2 DEF Keeps
  <1>4. portList' \in [Slot -> PortType]
    BY <1>1
  <1> QED
    BY <1>1, <1>3, <1>4 DEF Moved

\* One port is replaced by what an operator has made of it.
LEMMA PutMoves ==
  ASSUME portList \in [Slot -> PortType],
         NEW i \in Slot, NEW q, NEW last \in BOOLEAN,
         Put(i, q), Keeps(portList[i], q, last),
         i = Start /\ last => lastCycle \/ portList[i].output
  PROVE  Moved
  <1>1. portList' = [portList EXCEPT ![i] = q]
    BY DEF Put
  <1>2. q \in PortType /\ q.output = portList[i].output
    BY DEF Keeps
  <1>3. portList' \in [Slot -> PortType]
    BY <1>1, <1>2
  <1>4. \A j \in Slot : portList'[j].output = portList[j].output
    BY <1>1, <1>2
  <1>5. ~lastCycle /\ Quiet(portList[Start]) => Quiet(portList'[Start])
    <2>1. CASE i = Start
      BY <1>1, <1>2, <2>1 DEF Keeps, Quiet
    <2>2. CASE i # Start
      <3>1. Start \in Slot
        BY ChainAssumption DEF Start, Slot
      <3>2. portList'[Start] = portList[Start]
        BY <1>1, <2>2, <3>1
      <3> QED
        BY <3>2
    <2> QED
      BY <2>1, <2>2
  <1> QED
    BY <1>3, <1>4, <1>5 DEF Moved

\* A step that leaves the ports alone.
LEMMA UnchangedMoves == portList \in [Slot -> PortType] /\ UNCHANGED portList => Moved
  BY DEF Moved

\* A walk of the Java worker.
LEMMA JavaMoves ==
  ASSUME TypeOK, WorkerInv, JavaVisits \/ JavaResumes
  PROVE  Moved
  <1>1. /\ portList \in [Slot -> PortType] /\ java.slot \in Slot /\ java.last \in BOOLEAN
        /\ portList[java.slot] \in PortType
    BY DEF TypeOK
  <1>2. CASE JavaCalls
    <2> DEFINE p == portList[java.slot]
    <2>1. PICK q \in {JavaEnds(JavaBegins(p, java.last)), emergencyStop(JavaBegins(p, java.last), "java")} :
            Put(java.slot, q)
      BY <1>2 DEF JavaCalls
    <2>2. Keeps(p, q, java.last)
      BY <1>1, <2>1, JavaKeeps DEF Cause
    <2>3. java.slot = Start /\ java.last => lastCycle
      BY DEF WorkerInv
    <2> QED
      BY <1>1, <2>1, <2>2, <2>3, PutMoves
  <1>3. JavaCalls \/ UNCHANGED portList
    BY DEF JavaVisits, JavaResumes, JavaSkips
  <1> QED
    BY <1>1, <1>2, <1>3, UnchangedMoves

\* A round of the process thread.
LEMMA NativeMoves ==
  ASSUME TypeOK, NativeNext
  PROVE  Moved
  <1>1. /\ portList \in [Slot -> PortType] /\ native.slot \in Slot
        /\ portList[native.slot] \in PortType
    BY DEF TypeOK
  <1> DEFINE p == portList[native.slot]
  <1>2. \/ UNCHANGED portList
        \/ Put(native.slot, execNativeCycleInit(p))
        \/ Put(native.slot, NativeEnds(p))
        \/ \E c \in {"illegal", "native"} : Put(native.slot, emergencyStop(p, c))
    BY DEF NativeNext, NativeBegins, NativeInits, NativeVisits, NativeResumes, NativeSkips,
       NativeWorks
  <1>3. CASE Put(native.slot, execNativeCycleInit(p))
    BY <1>1, <1>3, ExecNativeCycleInitKeeps, PutMoves
  <1>4. CASE Put(native.slot, NativeEnds(p))
    BY <1>1, <1>4, NativeEndsKeeps, PutMoves
  <1>5. ASSUME NEW c \in {"illegal", "native"}, Put(native.slot, emergencyStop(p, c)) PROVE Moved
    <2>1. Keeps(p, emergencyStop(p, c), FALSE)
      BY <1>1, <1>5, EmergencyStopKeeps DEF Cause
    <2> QED
      BY <1>1, <1>5, <2>1, PutMoves
  <1> QED
    BY <1>1, <1>2, <1>3, <1>4, <1>5, UnchangedMoves

\* The administrator's operations on one port, or on all of them.
LEMMA StopMoves ==
  ASSUME TypeOK, AdminInv, StopPort \/ StopResumes
  PROVE  Moved
  <1>1. /\ portList \in [Slot -> PortType] /\ admin.slot \in Slot
        /\ portList[admin.slot] \in PortType
        /\ lastCycle
    BY DEF TypeOK, AdminInv, StopPort, StopResumes
  <1> DEFINE p == portList[admin.slot]
  <1>2. /\ Keeps(p, RequestLast(p), TRUE) /\ Keeps(p, StopAfterError(p), FALSE)
        /\ Keeps(p, StopEnds(p), FALSE)
    BY <1>1, LifecycleKeeps
  <1>3. Keeps(p, StopEnds(RequestLast(p)), TRUE)
    BY <1>1, <1>2, LifecycleKeeps, KeepsTwice DEF Keeps
  <1>4. \/ UNCHANGED portList
        \/ Put(admin.slot, RequestLast(p)) \/ Put(admin.slot, StopAfterError(p))
        \/ Put(admin.slot, StopEnds(p)) \/ Put(admin.slot, StopEnds(RequestLast(p)))
    BY DEF StopPort, StopResumes
  <1> HIDE DEF p
  <1> QED
    BY <1>1, <1>2, <1>3, <1>4, PutMoves, UnchangedMoves DEF p

\* removePort announces the end to its port, or makes it deletable at once.
LEMMA RemoveMoves ==
  ASSUME TypeOK, AdminInv, RemoveResumes \/ \E i \in Slot : RemovePort(i)
  PROVE  Moved
  <1>1. portList \in [Slot -> PortType]
    BY DEF TypeOK
  <1>2. CASE RemoveResumes
    <2>1. admin.slot \in Slot /\ portList[admin.slot] \in PortType
      BY DEF TypeOK
    <2> QED
      BY <1>1, <1>2, <2>1, LifecycleKeeps, PutMoves DEF RemoveResumes
  <1>3. ASSUME NEW i \in Slot, RemovePort(i) PROVE Moved
    <2> DEFINE p == portList[i]
    <2>1. p \in PortType
      BY <1>1
    <2>2. i = Start => p.output
      BY <1>3, <2>1 DEF RemovePort, Kind
    <2>3. Keeps(p, RequestLast(p), TRUE)
      BY <2>1, LifecycleKeeps
    <2>4. Keeps(p, Deletable(RequestLast(p)), TRUE)
      BY <2>1, <2>3, LifecycleKeeps, KeepsTwice DEF Keeps
    <2>5. Put(i, RequestLast(p)) \/ Put(i, Deletable(RequestLast(p)))
      BY <1>3 DEF RemovePort
    <2> HIDE DEF p
    <2> QED
      BY <1>1, <2>2, <2>3, <2>4, <2>5, PutMoves DEF p
  <1> QED
    BY <1>2, <1>3

\* The operations that reach all the ports.
LEMMA AllMove ==
  ASSUME TypeOK, RegisterAtServer \/ StartAndRun \/ Shutdown
  PROVE  Moved
  <1>1. portList \in [Slot -> PortType]
    BY DEF TypeOK
  <1>2. CASE RegisterAtServer
    <2>1. PICK limit \in Refusal :
            portList' = [i \in Slot |-> IF i \in Reached(portList, {"initialized"}, limit)
                                       THEN Registered(portList[i]) ELSE portList[i]]
      BY <1>2 DEF RegisterAtServer
    <2>2. ASSUME NEW i \in Slot PROVE Keeps(portList[i], portList'[i], FALSE)
      BY <1>1, <2>1, LifecycleKeeps, KeepsSelf
    <2> QED
      BY <1>1, <2>1, <2>2, KeepsMoves
  <1>3. CASE StartAndRun
    <2>1. portList' = [i \in Slot |-> IF i \in hasItem THEN Started(portList[i]) ELSE portList[i]]
      BY <1>3 DEF StartAndRun
    <2>2. ASSUME NEW i \in Slot PROVE Keeps(portList[i], portList'[i], FALSE)
      BY <1>1, <2>1, LifecycleKeeps, KeepsSelf
    <2> QED
      BY <1>1, <2>1, <2>2, KeepsMoves
  <1>4. CASE Shutdown
    <2>1. PICK limit \in Refusal :
       LET registered == state \in {"registered", "stopped"}
           list == [i \in Slot |->
                      IF registered /\ i \in Reached(portList, {"registered", "stopped"}, limit)
                      THEN Unregistered(portList[i]) ELSE portList[i]]
           last == Reached(list, {"initialized", "unregistered"}, MAX_PORTS) IN
       \/ portList' = list
       \/ portList' = [i \in Slot |-> IF i \in last THEN Uninitialized(list[i]) ELSE list[i]]
      BY <1>4 DEF Shutdown
    <2> DEFINE registered == state \in {"registered", "stopped"}
               list == [i \in Slot |->
                          IF registered /\ i \in Reached(portList, {"registered", "stopped"}, limit)
                          THEN Unregistered(portList[i]) ELSE portList[i]]
               last == Reached(list, {"initialized", "unregistered"}, MAX_PORTS)
    <2>2. ASSUME NEW i \in Slot PROVE Keeps(portList[i], list[i], FALSE)
      BY <1>1, LifecycleKeeps, KeepsSelf
    <2>3. ASSUME NEW i \in Slot PROVE Keeps(portList[i], Uninitialized(list[i]), FALSE)
      BY <1>1, <2>2, LifecycleKeeps, KeepsTwice DEF Keeps
    <2>4. \/ portList' = list
          \/ portList' = [i \in Slot |-> IF i \in last THEN Uninitialized(list[i]) ELSE list[i]]
      BY <2>1
    <2>5. list = [i \in Slot |-> list[i]]
      OBVIOUS
    <2> HIDE DEF list, last, registered
    <2> QED
      BY <1>1, <2>2, <2>3, <2>4, <2>5, KeepsMoves
  <1> QED
    BY <1>2, <1>3, <1>4

\* A port that addPort puts into the chain is quiet.
LEMMA NewPortIsKept ==
  ASSUME NEW output \in BOOLEAN
  PROVE  LET p == registerAndStart(Initialized(NewPort(output))) IN
         p \in PortType /\ p.output = output /\ Quiet(p)
  <1> DEFINE p == Initialized(NewPort(output))
  <1>1. p \in PortType /\ p.output = output /\ Quiet(p)
    <2>1. /\ NewPort(output) \in PortType /\ NewPort(output).output = output
          /\ NewPort(output).lastCycle = FALSE /\ NewPort(output).substate = "none"
      BY NewPortFields DEF Fields
    <2>2. /\ p \in PortType /\ p.output = NewPort(output).output
          /\ p.lastCycle = NewPort(output).lastCycle /\ p.substate = NewPort(output).substate
      BY <2>1, InitializedFields DEF Fields
    <2> HIDE DEF p
    <2> QED
      BY <2>1, <2>2 DEF Quiet
  <1> HIDE DEF p
  <1>2. Keeps(p, Registered(p), FALSE)
    BY <1>1, LifecycleKeeps
  <1>3. Keeps(p, Started(Registered(p)), FALSE)
    BY <1>1, <1>2, LifecycleKeeps, KeepsTwice DEF Keeps
  <1>4. Keeps(p, registerAndStart(p), FALSE)
    BY <1>1, <1>2, <1>3, KeepsSelf DEF registerAndStart
  <1> QED
    BY <1>1, <1>4 DEF Keeps, p

----------------------------------------------------------------------------
(* What the steps preserve. *)

\* The places of the three threads, as TypeOK gives them.
JavaPlace == [at : {"out", "wait", "loop", "walk", "blocked", "done"}, slot : Slot, last : BOOLEAN]

NativePlace == [at : {"idle", "init", "process", "blocked"}, slot : Slot]

AdminPlace == [at : {"idle", "awaitEnd", "stop", "stopWaits", "join", "removeWaits", "take"},
               slot : Slot, force : BOOLEAN]

\* No walk of the Java worker leaves the array.
LEMMA JavaNextSlotType ==
  ASSUME java \in JavaPlace, JavaNextSlot PROVE java' \in JavaPlace
  <1> USE DEF JavaPlace
  <1>1. CASE java.slot = End
    <2>1. java' = [at |-> "loop", slot |-> 0, last |-> FALSE]
      BY <1>1 DEF JavaNextSlot, JavaAt
    <2> QED
      BY <2>1, Ends
  <1>2. CASE java.slot # End
    <2>1. java.slot + 1 \in Slot
      BY <1>2, ChainAssumption DEF Slot, End
    <2> QED
      BY <1>2, <2>1 DEF JavaNextSlot, JavaAt
  <1> QED
    BY <1>1, <1>2

\* No round of the process thread leaves the array.
LEMMA NativeMovesOn ==
  ASSUME native \in NativePlace,
         \/ NativeNextSlot
         \/ NativeAt("blocked", native.slot)
         \/ native.slot = End /\ NativeAt("process", 0)
         \/ native.slot # End /\ NativeAt("init", native.slot + 1)
  PROVE  native' \in NativePlace
  <1> USE DEF NativePlace
  <1>1. native.slot # End => native.slot + 1 \in Slot
    BY ChainAssumption DEF Slot, End
  <1>2. native.slot \in Slot /\ 0 \in Slot
    BY Ends
  <1>3. \/ native' \in {[at |-> "blocked", slot |-> native.slot], [at |-> "process", slot |-> 0],
                       [at |-> "idle", slot |-> 0]}
        \/ /\ native.slot # End
           /\ native' \in {[at |-> "init", slot |-> native.slot + 1],
                          [at |-> "process", slot |-> native.slot + 1]}
    BY DEF NativeNextSlot, NativeAt
  <1> QED
    BY <1>1, <1>2, <1>3

\* Neither does stop, which ends with the last slot.
LEMMA NextToStopType ==
  ASSUME NEW i \in Slot, NEW force \in BOOLEAN, NextToStop(i, force)
  PROVE  admin' \in AdminPlace /\ (state' = "stopped" \/ state' = state)
  <1> USE DEF AdminPlace
  <1>1. CASE i = End
    <2>1. admin' = [at |-> "join", slot |-> 0, force |-> FALSE] /\ state' = "stopped"
      BY <1>1 DEF NextToStop, AdminAt
    <2> QED
      BY <2>1, Ends
  <1>2. CASE i # End
    <2>1. i + 1 \in Slot
      BY <1>2, ChainAssumption DEF Slot, End
    <2> QED
      BY <1>2, <2>1 DEF NextToStop, AdminAt
  <1> QED
    BY <1>1, <1>2

\* TypeOK is preserved: one step per action.
LEMMA TypeStep == TypeOK /\ AdminInv /\ WorkerInv /\ [Next]_vars => TypeOK'
  <1> SUFFICES ASSUME TypeOK, AdminInv, WorkerInv, [Next]_vars PROVE TypeOK'
    OBVIOUS
  <1> USE ChainAssumption, Ends DEF TypeOK
  <1>1. CASE JavaWaits
    BY <1>1 DEF JavaWaits, JavaAt
  <1>2. CASE JavaLoops
    <2>1. \/ java' = [at |-> "done", slot |-> 0, last |-> FALSE]
          \/ java' = [at |-> "walk", slot |-> 0, last |-> lastCycle]
      BY <1>2 DEF JavaLoops, JavaAt
    <2>2. java' \in JavaPlace
      <3>1. CASE java' = [at |-> "done", slot |-> 0, last |-> FALSE]
        BY <3>1 DEF JavaPlace
      <3>2. CASE java' = [at |-> "walk", slot |-> 0, last |-> lastCycle]
        BY <3>2 DEF JavaPlace
      <3> QED
        BY <2>1, <3>1, <3>2
    <2> QED
      BY <1>2, <2>2 DEF JavaLoops, JavaPlace
  <1>3. CASE JavaVisits
    <2>1. portList' \in [Slot -> PortType]
      BY <1>3, JavaMoves DEF Moved
    <2>2. java \in JavaPlace
      BY DEF JavaPlace
    <2>3. JavaNextSlot \/ JavaAt("blocked", java.slot, java.last)
      BY <1>3 DEF JavaVisits, JavaSkips, JavaCalls
    <2>4. java' \in JavaPlace
      <3>1. CASE JavaNextSlot
        BY <2>2, <3>1, JavaNextSlotType
      <3>2. CASE JavaAt("blocked", java.slot, java.last)
        BY <2>2, <3>2 DEF JavaAt, JavaPlace
      <3> QED
        BY <2>3, <3>1, <3>2
    <2> QED
      BY <1>3, <2>1, <2>4 DEF JavaVisits, JavaPlace
  <1>4. CASE JavaResumes
    <2>1. portList' \in [Slot -> PortType]
      BY <1>4, JavaMoves DEF Moved
    <2>2. java \in JavaPlace
      BY DEF JavaPlace
    <2>3. JavaNextSlot \/ JavaAt("blocked", java.slot, java.last)
      BY <1>4 DEF JavaResumes, JavaSkips, JavaCalls
    <2>4. java' \in JavaPlace
      <3>1. CASE JavaNextSlot
        BY <2>2, <3>1, JavaNextSlotType
      <3>2. CASE JavaAt("blocked", java.slot, java.last)
        BY <2>2, <3>2 DEF JavaAt, JavaPlace
      <3> QED
        BY <2>3, <3>1, <3>2
    <2> QED
      BY <1>4, <2>1, <2>4 DEF JavaResumes, JavaPlace
  <1>5. CASE NativeBegins
    <2>1. portList' \in [Slot -> PortType]
      BY <1>5, NativeMoves DEF Moved, NativeNext
    <2> QED
      BY <1>5, <2>1 DEF NativeBegins, NativeAt
  <1>6. CASE NativeInits
    <2>1. portList' \in [Slot -> PortType]
      BY <1>6, NativeMoves DEF Moved, NativeNext
    <2>2. native' \in NativePlace
      BY <1>6, NativeMovesOn DEF NativePlace, NativeInits
    <2> QED
      BY <1>6, <2>1, <2>2 DEF NativeInits, NativePlace
  <1>7. CASE NativeVisits
    <2>1. portList' \in [Slot -> PortType]
      BY <1>7, NativeMoves DEF Moved, NativeNext
    <2>2. native' \in NativePlace
      BY <1>7, NativeMovesOn DEF NativePlace, NativeVisits, NativeSkips, NativeWorks
    <2> QED
      BY <1>7, <2>1, <2>2 DEF NativeVisits, NativePlace
  <1>8. CASE NativeResumes
    <2>1. portList' \in [Slot -> PortType]
      BY <1>8, NativeMoves DEF Moved, NativeNext
    <2>2. native' \in NativePlace
      BY <1>8, NativeMovesOn DEF NativePlace, NativeResumes, NativeSkips, NativeWorks
    <2> QED
      BY <1>8, <2>1, <2>2 DEF NativeResumes, NativePlace
  <1>9. CASE RemoveResumes
    <2>1. portList' \in [Slot -> PortType]
      BY <1>9, RemoveMoves DEF Moved
    <2> QED
      BY <1>9, <2>1 DEF RemoveResumes, AdminAt
  <1>10. CASE Take
    <2>1. NoItem \in PortType
      BY NewPortFields DEF NoItem, Fields
    <2>2. portList' \in [Slot -> PortType] /\ hasItem' \subseteq Slot
      <3>1. CASE UNCHANGED <<portList, hasItem>>
        BY <3>1
      <3>2. CASE Put(admin.slot, NoItem) /\ hasItem' = hasItem \ {admin.slot}
        BY <2>1, <3>2 DEF Put
      <3> QED
        BY <1>10, <3>1, <3>2 DEF Take
    <2>3. admin' \in AdminPlace
      BY <1>10 DEF Take, Home, AdminAt, AdminPlace
    <2> QED
      BY <1>10, <2>2, <2>3 DEF Take, AdminPlace
  <1>11. CASE EndAwaited
    <2>1. admin' \in AdminPlace
      <3>1. CASE AdminAt("stop", 0, FALSE)
        BY <3>1 DEF AdminAt, AdminPlace
      <3>2. CASE AdminAt("stop", 0, TRUE)
        BY <3>2 DEF AdminAt, AdminPlace
      <3> QED
        BY <1>11, <3>1, <3>2 DEF EndAwaited
    <2> QED
      BY <1>11, <2>1 DEF EndAwaited, AdminPlace
  <1>12. CASE StopPort
    <2>1. portList' \in [Slot -> PortType]
      BY <1>12, StopMoves DEF Moved
    <2>2. /\ admin.slot \in Slot /\ admin.force \in BOOLEAN
          /\ \/ NextToStop(admin.slot, admin.force)
             \/ AdminAt("stopWaits", admin.slot, admin.force) /\ UNCHANGED state
             \/ Home /\ UNCHANGED state
      BY <1>12 DEF StopPort
    <2>3. admin' \in AdminPlace /\ (state' = "stopped" \/ state' = state)
      <3>1. CASE NextToStop(admin.slot, admin.force)
        BY <2>2, <3>1, NextToStopType
      <3>2. CASE AdminAt("stopWaits", admin.slot, admin.force) /\ UNCHANGED state
        BY <2>2, <3>2 DEF AdminAt, AdminPlace
      <3>3. CASE Home /\ UNCHANGED state
        BY <3>3 DEF Home, AdminAt, AdminPlace
      <3> QED
        BY <2>2, <3>1, <3>2, <3>3
    <2> QED
      BY <1>12, <2>1, <2>3 DEF StopPort, AdminPlace
  <1>13. CASE StopResumes
    <2>1. portList' \in [Slot -> PortType]
      BY <1>13, StopMoves DEF Moved
    <2>2. admin.slot \in Slot /\ admin.force \in BOOLEAN /\ NextToStop(admin.slot, admin.force)
      BY <1>13 DEF StopResumes
    <2>3. admin' \in AdminPlace /\ (state' = "stopped" \/ state' = state)
      BY <2>2, NextToStopType
    <2> QED
      BY <1>13, <2>1, <2>3 DEF StopResumes, AdminPlace
  <1>14. CASE Join
    BY <1>14 DEF Join, Home, AdminAt
  <1>15. CASE Initialize
    <2>1. Initialized(NewPort(FALSE)) \in PortType /\ Initialized(NewPort(TRUE)) \in PortType
      BY NewPortFields, InitializedFields DEF Fields
    <2>2. portList' \in [Slot -> PortType]
      BY <1>15, <2>1 DEF Put, Initialize
    <2>3. hasItem' \subseteq Slot
      BY <1>15 DEF Initialize
    <2>4. state' \in {"initialized", state}
      BY <1>15 DEF Initialize
    <2> QED
      BY <1>15, <2>2, <2>3, <2>4 DEF Initialize
  <1>16. CASE RegisterAtServer
    <2>1. portList' \in [Slot -> PortType]
      BY <1>16, AllMove DEF Moved
    <2> QED
      BY <1>16, <2>1 DEF RegisterAtServer
  <1>17. CASE StartAndRun
    <2>1. portList' \in [Slot -> PortType]
      BY <1>17, AllMove DEF Moved
    <2> QED
      BY <1>17, <2>1 DEF StartAndRun, JavaAt
  <1>18. CASE Stop
    BY <1>18 DEF Stop, AdminAt
  <1>19. CASE Deactivate
    BY <1>19 DEF Deactivate
  <1>20. CASE Shutdown
    <2>1. portList' \in [Slot -> PortType]
      BY <1>20, AllMove DEF Moved
    <2> QED
      BY <1>20, <2>1 DEF Shutdown
  <1>21. ASSUME NEW output \in BOOLEAN, AddPort(output) PROVE TypeOK'
    <2>1. registerAndStart(Initialized(NewPort(output))) \in PortType
      BY NewPortIsKept
    <2> QED
      BY <1>21, <2>1 DEF Put, AddPort
  <1>22. ASSUME NEW i \in Slot, RemovePort(i) PROVE TypeOK'
    <2>1. portList' \in [Slot -> PortType]
      BY <1>22, RemoveMoves DEF Moved
    <2>2. AdminAt("take", i, FALSE) \/ AdminAt("removeWaits", i, FALSE)
      BY <1>22 DEF RemovePort
    <2>3. admin' \in AdminPlace
      <3>1. CASE AdminAt("take", i, FALSE)
        BY <3>1 DEF AdminAt, AdminPlace
      <3>2. CASE AdminAt("removeWaits", i, FALSE)
        BY <3>2 DEF AdminAt, AdminPlace
      <3> QED
        BY <2>2, <3>1, <3>2
    <2> QED
      BY <1>22, <2>1, <2>3 DEF RemovePort, AdminPlace
  <1>23. CASE UNCHANGED vars
    BY <1>23 DEF vars
  <1> QED
    BY <1>1, <1>2, <1>3, <1>4, <1>5, <1>6, <1>7, <1>8, <1>9, <1>10, <1>11, <1>12, <1>13, <1>14,
       <1>15, <1>16, <1>17, <1>18, <1>19, <1>20, <1>21, <1>22, <1>23 DEF Next, JavaNext,
       NativeNext, AdminContinues, AdminBegins


\* Ports that stay where they are stay of their kind.
LEMMA KindKept == Moved /\ hasItem' = hasItem => \A i \in Slot : Kind(i)' = Kind(i)
  BY DEF Moved, Kind

\* The walks leave the administrator's parts of the invariant alone.
LEMMA WalksKeep ==
  ASSUME TypeOK, AdminInv, StartInv, Moved, UNCHANGED <<hasItem, state, lastCycle, admin>>
  PROVE  AdminInv' /\ StartInv'
  <1>1. admin.slot \in Slot => Kind(admin.slot)' = Kind(admin.slot)
    BY KindKept
  <1>2. AdminInv'
    BY <1>1 DEF AdminInv, TypeOK
  <1>3. StartInv'
    BY Ends DEF StartInv, Moved
  <1> QED
    BY <1>2, <1>3

\* stop and removePort find what they have left.
LEMMA AdminStep == TypeOK /\ AdminInv /\ StartInv /\ WorkerInv /\ [Next]_vars => AdminInv'
  <1> SUFFICES ASSUME TypeOK, AdminInv, StartInv, WorkerInv, [Next]_vars PROVE AdminInv'
    OBVIOUS
  <1>1. CASE JavaNext \/ NativeNext
    <2>1. Moved
      <3>1. CASE JavaVisits \/ JavaResumes
        BY <3>1, JavaMoves
      <3>2. CASE JavaWaits \/ JavaLoops
        BY <3>2, UnchangedMoves DEF JavaWaits, JavaLoops, TypeOK
      <3>3. CASE NativeNext
        BY <3>3, NativeMoves
      <3> QED
        BY <1>1, <3>1, <3>2, <3>3 DEF JavaNext
    <2>2. UNCHANGED <<hasItem, state, lastCycle, admin>>
      BY <1>1 DEF JavaNext, JavaWaits, JavaLoops, JavaVisits, JavaResumes,
                  NativeNext, NativeBegins, NativeInits, NativeVisits, NativeResumes
    <2> QED
      BY <2>1, <2>2, WalksKeep
  <1>2. CASE RemoveResumes
    <2>1. Moved /\ hasItem' = hasItem
      BY <1>2, RemoveMoves DEF RemoveResumes
    <2>2. admin'.at \in {"take"} /\ admin'.slot = admin.slot /\ admin.slot \in Slot
      BY <1>2 DEF RemoveResumes, AdminAt, TypeOK
    <2>3. Kind(admin.slot) \in {"input", "output"}
      BY <1>2 DEF RemoveResumes, AdminInv
    <2>4. Kind(admin.slot)' \in {"input", "output"}
      BY <2>1, <2>2, <2>3, KindKept
    <2> QED
      BY <2>2, <2>4 DEF AdminInv
  <1>3. CASE Take
    <2>1. admin'.at = "idle"
      BY <1>3 DEF Take, Home, AdminAt
    <2> QED
      BY <2>1 DEF AdminInv
  <1>4. CASE EndAwaited
    <2>1. admin'.at \in {"stop"}
      BY <1>4 DEF EndAwaited, AdminAt
    <2>2. state' = "running" /\ lastCycle'
      BY <1>4 DEF EndAwaited, AdminInv
    <2> QED
      BY <2>1, <2>2 DEF AdminInv
  <1>5. CASE StopPort
    <2>1. \/ admin'.at = "join"
          \/ admin'.at = "idle"
          \/ admin'.at \in {"stop", "stopWaits"} /\ state' = state
      BY <1>5 DEF StopPort, NextToStop, Home, AdminAt
    <2>2. state = "running" /\ lastCycle /\ lastCycle' = lastCycle
      BY <1>5 DEF StopPort, AdminInv
    <2> QED
      BY <2>1, <2>2 DEF AdminInv
  <1>6. CASE StopResumes
    <2>1. \/ admin'.at = "join"
          \/ admin'.at = "idle"
          \/ admin'.at \in {"stop", "stopWaits"} /\ state' = state
      BY <1>6 DEF StopResumes, NextToStop, AdminAt
    <2>2. state = "running" /\ lastCycle /\ lastCycle' = lastCycle
      BY <1>6 DEF StopResumes, AdminInv
    <2> QED
      BY <2>1, <2>2 DEF AdminInv
  <1>7. CASE Join
    <2>1. admin'.at = "idle"
      BY <1>7 DEF Join, Home, AdminAt
    <2> QED
      BY <2>1 DEF AdminInv
  <1>8. CASE Initialize
    BY <1>8 DEF Initialize, Idle, AdminInv
  <1>9. CASE RegisterAtServer
    BY <1>9 DEF RegisterAtServer, Idle, AdminInv
  <1>10. CASE StartAndRun
    BY <1>10 DEF StartAndRun, Idle, AdminInv
  <1>11. CASE Stop
    <2>1. admin'.at \in {"awaitEnd"}
      BY <1>11 DEF Stop, AdminAt
    <2>2. state' = "running" /\ lastCycle'
      BY <1>11 DEF Stop, AdminInv
    <2> QED
      BY <2>1, <2>2 DEF AdminInv
  <1>12. CASE Deactivate
    BY <1>12 DEF Deactivate, Idle, AdminInv
  <1>13. CASE Shutdown
    BY <1>13 DEF Shutdown, Idle, AdminInv
  <1>14. ASSUME NEW output \in BOOLEAN, AddPort(output) PROVE AdminInv'
    BY <1>14 DEF AddPort, Idle, AdminInv
  <1>15. ASSUME NEW i \in Slot, RemovePort(i) PROVE AdminInv'
    <2>1. Moved /\ hasItem' = hasItem
      BY <1>15, RemoveMoves DEF RemovePort
    <2>2. admin'.at \in {"take", "removeWaits"} /\ admin'.slot = i /\ i \in Slot
      BY <1>15 DEF RemovePort, AdminAt, TypeOK
    <2>3. Kind(i) \in {"input", "output"}
      BY <1>15 DEF RemovePort, AdminInv
    <2>4. Kind(i)' \in {"input", "output"}
      BY <2>1, <2>2, <2>3, KindKept
    <2> QED
      BY <2>2, <2>4 DEF AdminInv
  <1>16. CASE UNCHANGED vars
    BY <1>16 DEF vars, Kind, AdminInv, StartInv
  <1> QED
    BY <1>1, <1>2, <1>3, <1>4, <1>5, <1>6, <1>7, <1>8, <1>9, <1>10, <1>11, <1>12, <1>13, <1>14,
       <1>15, <1>16 DEF Next, AdminContinues, AdminBegins

\* The start control stays, and does not terminate too early.
LEMMA StartStep == TypeOK /\ AdminInv /\ StartInv /\ WorkerInv /\ [Next]_vars => StartInv'
  <1> SUFFICES ASSUME TypeOK, AdminInv, StartInv, WorkerInv, [Next]_vars PROVE StartInv'
    OBVIOUS
  <1>1. CASE JavaNext \/ NativeNext
    <2>1. Moved
      <3>1. CASE JavaVisits \/ JavaResumes
        BY <3>1, JavaMoves
      <3>2. CASE JavaWaits \/ JavaLoops
        BY <3>2, UnchangedMoves DEF JavaWaits, JavaLoops, TypeOK
      <3>3. CASE NativeNext
        BY <3>3, NativeMoves
      <3> QED
        BY <1>1, <3>1, <3>2, <3>3 DEF JavaNext
    <2>2. UNCHANGED <<hasItem, state, lastCycle, admin>>
      BY <1>1 DEF JavaNext, JavaWaits, JavaLoops, JavaVisits, JavaResumes,
                  NativeNext, NativeBegins, NativeInits, NativeVisits, NativeResumes
    <2> QED
      BY <2>1, <2>2, WalksKeep
  <1>2. CASE RemoveResumes
    <2>1. Moved /\ UNCHANGED <<hasItem, lastCycle>>
      BY <1>2, RemoveMoves DEF RemoveResumes
    <2>2. state' = state
      BY <1>2 DEF RemoveResumes
    <2> QED
      BY <2>1, <2>2, Ends DEF Moved, StartInv
  <1>3. CASE Take
    <2>1. CASE admin.slot = Start
      <3>1. Kind(Start) \in {"input", "output"}
        BY <1>3, <2>1 DEF Take, AdminInv
      <3>2. state \notin {"initialized", "registered", "running"}
        BY <3>1 DEF Kind, StartInv
      <3>3. \/ Start \notin hasItem' /\ UNCHANGED <<state, lastCycle>>
            \/ UNCHANGED <<portList, hasItem, state, lastCycle>>
        BY <1>3, <2>1 DEF Take
      <3> QED
        BY <3>2, <3>3 DEF StartInv
    <2>2. CASE admin.slot # Start
      <3>1. portList'[Start] = portList[Start] /\ (Start \in hasItem' <=> Start \in hasItem)
        BY <1>3, <2>2, Ends DEF Take, Put, TypeOK
      <3> QED
        BY <1>3, <3>1 DEF Take, StartInv
    <2> QED
      BY <2>1, <2>2
  <1>4. CASE EndAwaited
    BY <1>4 DEF EndAwaited, StartInv
  <1>5. CASE StopPort
    <2>1. lastCycle /\ lastCycle' = lastCycle /\ state = "running"
      BY <1>5 DEF StopPort, AdminInv
    <2>2. Moved /\ hasItem' = hasItem /\ (state' = "stopped" \/ state' = state)
      BY <1>5, StopMoves DEF StopPort, NextToStop
    <2> QED
      BY <2>1, <2>2, Ends DEF Moved, StartInv
  <1>6. CASE StopResumes
    <2>1. lastCycle /\ lastCycle' = lastCycle /\ state = "running"
      BY <1>6 DEF StopResumes, AdminInv
    <2>2. Moved /\ hasItem' = hasItem /\ (state' = "stopped" \/ state' = state)
      BY <1>6, StopMoves DEF StopResumes, NextToStop
    <2> QED
      BY <2>1, <2>2, Ends DEF Moved, StartInv
  <1>7. CASE Join
    BY <1>7 DEF Join, StartInv
  <1>8. CASE Initialize
    <2>1. Fields(Initialized(NewPort(FALSE)), FALSE, "initialized", "none", FALSE, "nothing")
      BY NewPortFields, InitializedFields DEF Fields
    <2>2. /\ portList'[Start] = Initialized(NewPort(FALSE)) /\ Start \in hasItem'
          /\ state' \in {"created", "initialized"}
      BY <1>8, Ends DEF Initialize, Put, TypeOK
    <2> QED
      BY <2>1, <2>2 DEF StartInv, Quiet, Fields
  <1>9. CASE RegisterAtServer
    <2>1. Moved /\ UNCHANGED <<hasItem, lastCycle>>
      BY <1>9, AllMove DEF RegisterAtServer
    <2>2. state = "initialized" /\ state' \in {"initialized", "registered"}
      BY <1>9 DEF RegisterAtServer
    <2> QED
      BY <2>1, <2>2, Ends DEF Moved, StartInv
  <1>10. CASE StartAndRun
    <2>1. Moved /\ UNCHANGED <<hasItem, lastCycle>>
      BY <1>10, AllMove DEF StartAndRun
    <2>2. state = "registered" /\ state' = "running"
      BY <1>10 DEF StartAndRun
    <2> QED
      BY <2>1, <2>2, Ends DEF Moved, StartInv
  <1>11. CASE Stop
    BY <1>11 DEF Stop, StartInv
  <1>12. CASE Deactivate
    BY <1>12 DEF Deactivate, StartInv
  <1>13. CASE Shutdown
    <2>1. Moved /\ UNCHANGED <<hasItem, lastCycle>>
      BY <1>13, AllMove DEF Shutdown
    <2>2. state' \in {state, "unregistered", "deletable"}
      BY <1>13 DEF Shutdown
    <2> QED
      BY <2>1, <2>2, Ends DEF Moved, StartInv
  <1>14. ASSUME NEW output \in BOOLEAN, AddPort(output) PROVE StartInv'
    <2> DEFINE q == registerAndStart(Initialized(NewPort(output)))
    <2>1. Quiet(q)
      BY NewPortIsKept
    <2>2. PICK j \in Slot : Put(j, q) /\ hasItem' = hasItem \cup {j} /\ UNCHANGED <<state, lastCycle>>
                           /\ (IF output THEN List!findSlotForOutputPort(j) ELSE List!findSlotForInputPort(j))
      BY <1>14 DEF AddPort
    <2> HIDE DEF q
    <2>3. j \notin hasItem
      BY <2>2 DEF List!findSlotForOutputPort, List!findSlotForInputPort, List!CandidatesForOutput,
                  List!CandidatesForInput, List!Empty, Kind
    <2>4. portList' = [portList EXCEPT ![j] = q] /\ portList \in [Slot -> PortType]
      BY <2>2 DEF Put, TypeOK
    <2>5. CASE j = Start
      BY <2>1, <2>2, <2>3, <2>4, <2>5, Ends DEF StartInv
    <2>6. CASE j # Start
      BY <2>2, <2>4, <2>6, Ends DEF StartInv
    <2> QED
      BY <2>5, <2>6
  <1>15. ASSUME NEW i \in Slot, RemovePort(i) PROVE StartInv'
    <2>1. Moved /\ UNCHANGED <<hasItem, lastCycle>>
      BY <1>15, RemoveMoves DEF RemovePort
    <2>2. state' = state
      BY <1>15 DEF RemovePort
    <2> QED
      BY <2>1, <2>2, Ends DEF Moved, StartInv
  <1>16. CASE UNCHANGED vars
    BY <1>16 DEF vars, Kind, AdminInv, StartInv
  <1> QED
    BY <1>1, <1>2, <1>3, <1>4, <1>5, <1>6, <1>7, <1>8, <1>9, <1>10, <1>11, <1>12, <1>13, <1>14,
       <1>15, <1>16 DEF Next, AdminContinues, AdminBegins


\* A worker in runJava stays there as long as the chain runs and no end is announced.
LEMMA WorkerStep == TypeOK /\ AdminInv /\ StartInv /\ WorkerInv /\ [Next]_vars => WorkerInv'
  <1> SUFFICES ASSUME TypeOK, AdminInv, StartInv, WorkerInv, [Next]_vars PROVE WorkerInv'
    OBVIOUS
  <1>1. CASE JavaNext
    <2>1. UNCHANGED <<state, lastCycle>>
      BY <1>1 DEF JavaNext, JavaWaits, JavaLoops, JavaVisits, JavaResumes
    <2>2. java.at \notin {"out", "done"}
      BY <1>1 DEF JavaNext, JavaWaits, JavaLoops, JavaVisits, JavaResumes
    <2>3. ASSUME JavaNextSlot PROVE java'.last => lastCycle
      <3>1. CASE java.slot = End
        BY <2>3, <3>1 DEF JavaNextSlot, JavaAt
      <3>2. CASE java.slot # End
        BY <2>3, <3>2 DEF JavaNextSlot, JavaAt, WorkerInv
      <3> QED
        BY <3>1, <3>2
    <2>4. java'.last => lastCycle
      <3>1. CASE JavaWaits
        BY <3>1 DEF JavaWaits, JavaAt
      <3>2. CASE JavaLoops
        <4>1. JavaAt("done", 0, FALSE) \/ JavaAt("walk", 0, lastCycle)
          BY <3>2 DEF JavaLoops
        <4>2. CASE JavaAt("done", 0, FALSE)
          BY <4>2 DEF JavaAt
        <4>3. CASE JavaAt("walk", 0, lastCycle)
          <5>1. java'.last = lastCycle
            BY <4>3 DEF JavaAt
          <5> QED
            BY <3>2, <5>1, Zenon DEF JavaLoops
        <4> QED
          BY <4>1, <4>2, <4>3
      <3>3. CASE JavaVisits
        <4>1. JavaNextSlot \/ JavaAt("blocked", java.slot, java.last)
          BY <3>3 DEF JavaVisits, JavaSkips, JavaCalls
        <4> QED
          BY <4>1, <2>3 DEF JavaAt, WorkerInv
      <3>4. CASE JavaResumes
        BY <3>4, <2>3 DEF JavaResumes, JavaSkips, JavaCalls
      <3> QED
        BY <1>1, <3>1, <3>2, <3>3, <3>4 DEF JavaNext
    <2> QED
      BY <2>1, <2>2, <2>4 DEF WorkerInv
  <1>2. CASE StartAndRun
    BY <1>2 DEF StartAndRun, JavaAt, WorkerInv
  <1>3. CASE StopPort \/ StopResumes
    <2>1. lastCycle /\ lastCycle' = lastCycle
      BY <1>3 DEF StopPort, StopResumes, AdminInv
    <2> QED
      BY <2>1 DEF WorkerInv
  <1>4. CASE UNCHANGED java /\ state # "running" /\ (lastCycle => lastCycle')
    BY <1>4 DEF WorkerInv
  <1>5. CASE UNCHANGED <<java, state>> /\ (lastCycle => lastCycle')
    BY <1>5 DEF WorkerInv
  <1>6. \/ JavaNext \/ StartAndRun \/ StopPort \/ StopResumes
        \/ UNCHANGED java /\ state # "running" /\ (lastCycle => lastCycle')
        \/ UNCHANGED <<java, state>> /\ (lastCycle => lastCycle')
    BY DEF Next, NativeNext, AdminContinues, AdminBegins, NativeBegins, NativeInits, NativeVisits,
           NativeResumes, RemoveResumes, Take, EndAwaited, Join, Initialize, RegisterAtServer, Stop,
           Deactivate, Shutdown, AddPort, RemovePort, vars
  <1> QED
    BY <1>1, <1>2, <1>3, <1>4, <1>5, <1>6

----------------------------------------------------------------------------
(* The end control, which NoXrun is about. *)

\* What the step does to the end control leaves it where it is; and if it runs afterwards, it
\* did so before.
EndStays ==
  /\ portList'[End].output = portList[End].output
  /\ Running(portList'[End]) => Running(portList[End])
  /\ UNCHANGED <<hasItem, state>>

\* Then only the last part of EndInv is left to show.
LEMMA EndStaysInv ==
  ASSUME EndInv, EndStays, native'.at \in {"idle", "init"} => ~Xrun'
  PROVE  EndInv'
  BY DEF EndInv, EndStays, Running

\* A step of the administrator that does not disturb the end control.
LEMMA EndCalmInv ==
  ASSUME EndInv, Calm(portList[End], portList'[End]), UNCHANGED <<hasItem, native>>,
         state' = state \/ state' \notin {"initialized", "registered", "running"}
            \/ state \in {"initialized", "registered", "running"}
  PROVE  EndInv'
  BY DEF EndInv, Calm, Running, Xrun

\* A port is changed: the end control by what does not disturb it, or another one.
LEMMA PutCalm ==
  ASSUME portList \in [Slot -> PortType], NEW i \in Slot, NEW q, Put(i, q), Calm(portList[i], q)
  PROVE  Calm(portList[End], portList'[End])
  <1>1. portList' = [portList EXCEPT ![i] = q] /\ End \in Slot
    BY Ends DEF Put
  <1>2. CASE i = End
    <2>1. portList'[End] = q
      BY <1>1, <1>2
    <2> QED
      BY <1>2, <2>1
  <1>3. CASE i # End
    <2>1. portList'[End] = portList[End]
      BY <1>1, <1>3
    <2> QED
      BY <2>1 DEF Calm
  <1> QED
    BY <1>2, <1>3

\* The Java worker comes to the end control only while a round is under way.
LEMMA EndJava == TypeOK /\ EndInv /\ JavaNext => EndInv'
  <1> SUFFICES ASSUME TypeOK, EndInv, JavaNext PROVE EndInv'
    OBVIOUS
  <1>1. /\ portList \in [Slot -> PortType] /\ java.slot \in Slot /\ java.last \in BOOLEAN
        /\ portList[java.slot] \in PortType
    BY DEF TypeOK
  <1>2. UNCHANGED <<hasItem, state, native>>
    BY DEF JavaNext, JavaWaits, JavaLoops, JavaVisits, JavaResumes
  <1> DEFINE p == portList[java.slot]
  <1>3. \/ UNCHANGED portList
        \/ JavaReady(p) /\ JavaCalls
    BY DEF JavaNext, JavaWaits, JavaLoops, JavaVisits, JavaResumes, JavaSkips
  <1>4. CASE UNCHANGED portList
    BY <1>2, <1>4, EndStaysInv DEF EndStays, EndInv, Xrun, Running
  <1>5. CASE JavaReady(p) /\ JavaCalls
    <2>1. PICK q \in {JavaEnds(JavaBegins(p, java.last)), emergencyStop(JavaBegins(p, java.last), "java")} :
            Put(java.slot, q)
      BY <1>5 DEF JavaCalls
    <2>2. q.output = p.output
      <3>1. Keeps(p, q, java.last)
        BY <1>1, <2>1, JavaKeeps DEF Cause
      <3> QED
        BY <3>1 DEF Keeps
    <2>3. Running(q) => Running(p)
      BY <1>1, <2>1, WorkersStartNothing DEF Cause
    <2>4. portList' = [portList EXCEPT ![java.slot] = q]
      BY <2>1 DEF Put
    <2>5. CASE java.slot = End
      <3>1. portList'[End] = q /\ portList[End] = p
        BY <1>1, <2>4, <2>5
      <3>2. Xrun
        BY <1>5, <2>5 DEF Xrun, JavaReady
      <3>3. native'.at \notin {"idle", "init"}
        BY <1>2, <3>2 DEF EndInv
      <3>4. EndStays
        BY <1>2, <2>2, <2>3, <3>1 DEF EndStays
      <3> QED
        BY <3>3, <3>4, EndStaysInv
    <2>6. CASE java.slot # End
      <3>1. portList'[End] = portList[End]
        BY <1>1, <2>4, <2>6, Ends
      <3> QED
        BY <1>2, <3>1, EndStaysInv DEF EndStays, EndInv, Xrun
    <2> QED
      BY <2>5, <2>6
  <1> QED
    BY <1>3, <1>4, <1>5

\* The process thread returns after it has dealt with the end control.
LEMMA EndNative == TypeOK /\ EndInv /\ NativeNext => EndInv'
  <1> SUFFICES ASSUME TypeOK, EndInv, NativeNext PROVE EndInv'
    OBVIOUS
  <1>1. /\ portList \in [Slot -> PortType] /\ native.slot \in Slot
        /\ portList[native.slot] \in PortType /\ portList[End] \in PortType
    BY Ends DEF TypeOK
  <1>2. UNCHANGED <<hasItem, state>>
    BY DEF NativeNext, NativeBegins, NativeInits, NativeVisits, NativeResumes
  <1> DEFINE i == native.slot
             p == portList[i]
  <1>3. CASE NativeBegins
    BY <1>2, <1>3, EndStaysInv DEF NativeBegins, EndStays, Xrun
  <1>4. CASE NativeInits
    <2>1. CASE i = End
      <3>1. native'.at \notin {"idle", "init"}
        BY <1>4, <2>1 DEF NativeInits, NativeAt
      <3>2. portList'[End] = portList[End] \/ portList'[End] = execNativeCycleInit(portList[End])
        BY <1>1, <1>4, <2>1 DEF NativeInits, Put
      <3>3. EndStays
        BY <1>1, <1>2, <3>2, WorkersStartNothing, ExecNativeCycleInitKeeps DEF EndStays, Keeps
      <3> QED
        BY <3>1, <3>3, EndStaysInv
    <2>2. CASE i # End
      <3>1. portList'[End] = portList[End]
        BY <1>1, <1>4, <2>2, Ends DEF NativeInits, Put
      <3>2. native.at = "init"
        BY <1>4 DEF NativeInits
      <3> QED
        BY <1>2, <3>1, <3>2, EndStaysInv DEF EndStays, EndInv, Xrun
    <2> QED
      BY <2>1, <2>2
  <1>5. CASE NativeVisits \/ NativeResumes
    <2>1. \/ UNCHANGED portList /\ native'.at = "blocked"
          \/ NativeSkips /\ (i \notin hasItem \/ ~Running(p) \/ p.substate \in {"started", "terminated"})
          \/ NativeReady(p) /\ NativeNextSlot /\ Put(i, NativeEnds(p))
          \/ NativeNextSlot /\ \E c \in {"illegal", "native"} : Put(i, emergencyStop(p, c))
      BY <1>5 DEF NativeVisits, NativeResumes, NativeWorks, NativeIgnores, NativeAt
    <2>2. ASSUME i # End, NativeNextSlot PROVE native'.at \notin {"idle", "init"}
      BY <2>2 DEF NativeNextSlot, NativeAt
    <2>3. CASE UNCHANGED portList /\ native'.at = "blocked"
      BY <1>2, <2>3, EndStaysInv DEF EndStays
    <2>4. CASE NativeSkips /\ (i \notin hasItem \/ ~Running(p) \/ p.substate \in {"started", "terminated"})
      <3>1. i = End => ~Xrun
        BY <2>4 DEF Xrun, EndInv
      <3>2. UNCHANGED portList /\ NativeNextSlot
        BY <2>4 DEF NativeSkips
      <3>3. Xrun' = Xrun /\ EndStays
        BY <1>2, <3>2 DEF Xrun, EndStays
      <3> QED
        BY <2>2, <3>1, <3>2, <3>3, EndStaysInv
    <2>5. CASE NativeReady(p) /\ NativeNextSlot /\ Put(i, NativeEnds(p))
      <3>1. CASE i = End
        <4>1. portList'[End] = NativeEnds(portList[End]) /\ portList[End].output
          BY <1>1, <2>5, <3>1 DEF Put, NativeReady, EndInv
        <4>2. portList'[End].substate \in {"terminated", "cycleDone"}
          BY <1>1, <4>1, NativeEndsFields DEF Fields
        <4>3. EndStays
          BY <1>1, <1>2, <4>1, WorkersStartNothing, NativeEndsKeeps DEF EndStays, Keeps
        <4> QED
          BY <4>2, <4>3, EndStaysInv DEF Xrun
      <3>2. CASE i # End
        <4>1. portList'[End] = portList[End]
          BY <1>1, <2>5, <3>2, Ends DEF Put
        <4> QED
          BY <1>2, <2>2, <2>5, <3>2, <4>1, EndStaysInv DEF EndStays
      <3> QED
        BY <3>1, <3>2
    <2>6. ASSUME NativeNextSlot, NEW c \in {"illegal", "native"}, Put(i, emergencyStop(p, c)) PROVE EndInv'
      <3>1. CASE i = End
        <4>1. portList'[End] = emergencyStop(portList[End], c) /\ c \in Cause
          BY <1>1, <2>6, <3>1 DEF Put, Cause
        <4>2. ~Running(portList'[End])
          BY <1>1, <4>1, EmergencyStopFields DEF Fields, Running
        <4>3. portList'[End].output = portList[End].output
          BY <1>1, <4>1, EmergencyStopFields DEF Fields
        <4> QED
          BY <1>2, <4>2, <4>3, EndStaysInv DEF Xrun, EndStays
      <3>2. CASE i # End
        <4>1. portList'[End] = portList[End]
          BY <1>1, <2>6, <3>2, Ends DEF Put
        <4> QED
          BY <1>2, <2>2, <2>6, <3>2, <4>1, EndStaysInv DEF EndStays
      <3> QED
        BY <3>1, <3>2
    <2> QED
      BY <2>1, <2>3, <2>4, <2>5, <2>6
  <1> QED
    BY <1>3, <1>4, <1>5 DEF NativeNext

\* The end control is registered and started with its chain, and is nothing but an end control.
LEMMA EndAll ==
  ASSUME TypeOK, EndInv, RegisterAtServer \/ StartAndRun \/ Shutdown
  PROVE  EndInv'
  <1>1. /\ portList \in [Slot -> PortType] /\ End \in Slot /\ portList[End] \in PortType
        /\ UNCHANGED <<hasItem, native>>
    BY Ends DEF TypeOK, RegisterAtServer, StartAndRun, Shutdown
  <1>2. CASE RegisterAtServer
    <2>1. portList'[End] \in {portList[End], Registered(portList[End])}
      BY <1>1, <1>2 DEF RegisterAtServer
    <2>2. Calm(portList[End], portList'[End])
      BY <1>1, <2>1, LifecycleCalm DEF Calm
    <2>3. state \in {"initialized", "registered", "running"}
      BY <1>2 DEF RegisterAtServer
    <2> QED
      BY <1>1, <2>2, <2>3, EndCalmInv
  <1>3. CASE StartAndRun
    <2>1. End \in hasItem /\ portList[End].output
      BY <1>3 DEF StartAndRun, EndInv
    <2>2. portList'[End] = Started(portList[End])
      BY <1>1, <1>3, <2>1 DEF StartAndRun
    <2>3. portList'[End].output /\ portList'[End].substate = "started"
      BY <1>1, <2>1, <2>2, StartedFields DEF Fields
    <2> QED
      BY <1>1, <2>1, <2>3 DEF EndInv, Xrun
  <1>4. CASE Shutdown
    <2>1. PICK limit \in Refusal :
       LET registered == state \in {"registered", "stopped"}
           list == [i \in Slot |->
                      IF registered /\ i \in Reached(portList, {"registered", "stopped"}, limit)
                      THEN Unregistered(portList[i]) ELSE portList[i]]
           last == Reached(list, {"initialized", "unregistered"}, MAX_PORTS) IN
       \/ portList' = list
       \/ portList' = [i \in Slot |-> IF i \in last THEN Uninitialized(list[i]) ELSE list[i]]
      BY <1>4 DEF Shutdown
    <2> DEFINE registered == state \in {"registered", "stopped"}
               list == [i \in Slot |->
                          IF registered /\ i \in Reached(portList, {"registered", "stopped"}, limit)
                          THEN Unregistered(portList[i]) ELSE portList[i]]
               last == Reached(list, {"initialized", "unregistered"}, MAX_PORTS)
    <2>2. list[End] \in {portList[End], Unregistered(portList[End])}
      BY <1>1
    <2>3. \/ portList' = list
          \/ portList' = [i \in Slot |-> IF i \in last THEN Uninitialized(list[i]) ELSE list[i]]
      BY <2>1
    <2> HIDE DEF list, last, registered
    <2>4. portList'[End] \in {list[End], Uninitialized(list[End])}
      BY <1>1, <2>3
    <2>5. list[End] \in PortType /\ Calm(portList[End], list[End])
      BY <1>1, <2>2, LifecycleCalm, UnregisteredFields DEF Calm, Fields
    <2>6. Calm(portList[End], portList'[End])
      BY <2>4, <2>5, LifecycleCalm, CalmTwice
    <2>7. state' = state \/ state' \in {"unregistered", "deletable"}
      BY <1>4 DEF Shutdown
    <2> QED
      BY <1>1, <2>6, <2>7, EndCalmInv
  <1> QED
    BY <1>2, <1>3, <1>4

\* Stopping or removing a port does not disturb the end control, but for ending it.
LEMMA EndOne ==
  ASSUME TypeOK, EndInv, AdminInv,
         StopPort \/ StopResumes \/ RemoveResumes \/ \E i \in Slot : RemovePort(i)
  PROVE  EndInv'
  <1>1. portList \in [Slot -> PortType] /\ UNCHANGED <<hasItem, native>>
    BY DEF TypeOK, StopPort, StopResumes, RemoveResumes, RemovePort
  <1>2. state' = state \/ state' = "stopped"
    BY DEF StopPort, StopResumes, RemoveResumes, RemovePort, NextToStop
  <1>3. \/ UNCHANGED portList
        \/ \E i \in Slot : \E q \in {RequestLast(portList[i]), StopAfterError(portList[i]),
              StopEnds(portList[i]), StopEnds(RequestLast(portList[i])), Deletable(portList[i]),
              Deletable(RequestLast(portList[i]))} : Put(i, q)
    <2>1. admin.slot \in Slot
      BY DEF TypeOK
    <2> QED
      BY <2>1 DEF StopPort, StopResumes, RemoveResumes, RemovePort
  <1>4. Calm(portList[End], portList'[End])
    <2>1. CASE UNCHANGED portList
      BY <2>1 DEF Calm
    <2>2. ASSUME NEW i \in Slot,
                 NEW q \in {RequestLast(portList[i]), StopAfterError(portList[i]),
                   StopEnds(portList[i]), StopEnds(RequestLast(portList[i])), Deletable(portList[i]),
                   Deletable(RequestLast(portList[i]))},
                 Put(i, q)
          PROVE  Calm(portList[End], portList'[End])
      <3> DEFINE p == portList[i]
                 r == RequestLast(p)
      <3>1. p \in PortType /\ r \in PortType
        BY <1>1, RequestLastFields DEF Fields
      <3>2. Calm(p, r)
        BY <3>1, LifecycleCalm
      <3> HIDE DEF r
      <3>3. Calm(p, StopEnds(r)) /\ Calm(p, Deletable(r))
        BY <3>1, <3>2, LifecycleCalm, CalmTwice
      <3>4. q \in {r, StopAfterError(p), StopEnds(p), StopEnds(r), Deletable(p), Deletable(r)}
        BY DEF r
      <3>5. Calm(p, q)
        BY <3>1, <3>2, <3>3, <3>4, LifecycleCalm
      <3> QED
        BY <1>1, <2>2, <3>5, PutCalm
    <2> QED
      BY <1>3, <2>1, <2>2
  <1> QED
    BY <1>1, <1>2, <1>4, EndCalmInv

\* The end control is the last of each round and of each cycle: one step per action.
LEMMA EndStep == TypeOK /\ AdminInv /\ EndInv /\ [Next]_vars => EndInv'
  <1> SUFFICES ASSUME TypeOK, AdminInv, EndInv, [Next]_vars PROVE EndInv'
    OBVIOUS
  <1>1. CASE JavaNext \/ NativeNext
    BY <1>1, EndJava, EndNative
  <1>2. CASE StopPort \/ StopResumes \/ RemoveResumes \/ \E i \in Slot : RemovePort(i)
    BY <1>2, EndOne
  <1>3. CASE RegisterAtServer \/ StartAndRun \/ Shutdown
    BY <1>3, EndAll
  <1>4. CASE Take
    <2>1. UNCHANGED <<state, native>>
      BY <1>4 DEF Take
    <2>2. CASE admin.slot = End
      <3>1. Kind(End) \in {"input", "output"}
        BY <1>4, <2>2 DEF Take, AdminInv
      <3>2. ~portList[End].output
        BY <3>1 DEF Kind
      <3>3. \/ UNCHANGED <<portList, hasItem>>
            \/ portList'[End] = NoItem
        BY <1>4, <2>2, Ends DEF Take, Put, TypeOK
      <3>4. ~Running(NoItem)
        BY DEF NoItem, NewPort, Running
      <3>5. ~Running(portList[End])
        BY <3>2 DEF EndInv
      <3>6. ~Running(portList'[End])
        BY <3>3, <3>4, <3>5
      <3>7. state \notin {"initialized", "registered", "running"}
        BY <3>2 DEF EndInv
      <3> QED
        BY <2>1, <3>6, <3>7 DEF EndInv, Xrun
    <2>3. CASE admin.slot # End
      <3>1. portList'[End] = portList[End] /\ (End \in hasItem' <=> End \in hasItem)
        BY <1>4, <2>3, Ends DEF Take, Put, TypeOK
      <3> QED
        BY <2>1, <3>1 DEF EndInv, Xrun
    <2> QED
      BY <2>2, <2>3
  <1>5. CASE Initialize
    <2>1. /\ ~Running(Initialized(NewPort(TRUE))) /\ Initialized(NewPort(TRUE)).output
          /\ native' = native
      BY <1>5, NewPortFields, InitializedFields DEF Initialize, Fields, Running
    <2>2. CASE End \notin hasItem
      <3>1. portList'[End] = Initialized(NewPort(TRUE)) /\ End \in hasItem'
        BY <1>5, <2>2, Ends DEF Initialize, TypeOK
      <3> QED
        BY <2>1, <3>1 DEF EndInv, Xrun
    <2>3. CASE End \in hasItem
      <3>1. portList'[End] = portList[End] /\ End \in hasItem' /\ state' = state
        BY <1>5, <2>3, Ends DEF Initialize, Put, TypeOK
      <3> QED
        BY <2>1, <2>3, <3>1 DEF EndInv, Xrun
    <2> QED
      BY <2>2, <2>3
  <1>6. ASSUME NEW output \in BOOLEAN, AddPort(output) PROVE EndInv'
    <2> DEFINE n == Initialized(NewPort(output))
    <2>1. PICK j \in Slot : /\ Put(j, registerAndStart(n)) /\ hasItem' = hasItem \cup {j}
                           /\ UNCHANGED <<state, native>>
                           /\ (IF output THEN List!findSlotForOutputPort(j) ELSE List!findSlotForInputPort(j))
      BY <1>6 DEF AddPort
    <2>2. state \in {"created", "initialized", "registered", "running"}
      BY <1>6 DEF AddPort
    <2>3. j \notin hasItem
      BY <2>1 DEF List!findSlotForOutputPort, List!findSlotForInputPort, List!CandidatesForOutput,
                  List!CandidatesForInput, List!Empty, Kind
    <2>4. ~Running(n)
      <3>1. NewPort(output) \in PortType
        BY NewPortFields DEF Fields
      <3> QED
        BY <3>1, InitializedFields DEF Fields, Running
    <2> HIDE DEF n
    <2>5. CASE j = End
      <3>1. state = "created"
        BY <2>2, <2>3, <2>5 DEF EndInv
      <3>2. portList'[End] = n
        BY <2>1, <2>5, <3>1, Ends DEF Put, TypeOK, registerAndStart
      <3> QED
        BY <2>1, <2>4, <3>1, <3>2 DEF EndInv, Xrun
    <2>6. CASE j # End
      <3>1. portList'[End] = portList[End] /\ (End \in hasItem' <=> End \in hasItem)
        BY <2>1, <2>6, Ends DEF Put, TypeOK
      <3> QED
        BY <2>1, <3>1 DEF EndInv, Xrun
    <2> QED
      BY <2>5, <2>6
  <1>7. CASE UNCHANGED <<portList, hasItem, state, native>>
    BY <1>7 DEF EndInv, Xrun
  <1>8. EndAwaited \/ Join \/ Stop \/ Deactivate \/ UNCHANGED vars =>
          UNCHANGED <<portList, hasItem, state, native>>
    BY DEF EndAwaited, Join, Stop, Deactivate, vars
  <1> QED
    BY <1>1, <1>2, <1>3, <1>4, <1>5, <1>6, <1>7, <1>8 DEF Next, AdminContinues, AdminBegins

----------------------------------------------------------------------------
(* Refinement: a step of the chain is a step of PortList, or changes nothing there. *)

\* The array and the chain's state as PortList sees them.
Items == [i \in Slot |-> Kind(i)]

ListState ==
  CASE state = "created" -> "created"
    [] state \in {"initialized", "registered", "running"} -> "initialized"
    [] OTHER -> "stopped"

\* What PortList does not see.
LEMMA ListStutters ==
  ASSUME Moved, hasItem' = hasItem, ListState' = ListState
  PROVE  [List!Next]_(List!vars)
  <1>1. Items' = Items
    BY KindKept DEF Items
  <1> QED
    BY <1>1 DEF List!vars, Items, ListState

\* The end of adding.
LEMMA ListStops ==
  ASSUME Moved, hasItem' = hasItem, ListState' = "stopped"
  PROVE  [List!Next]_(List!vars)
  <1>1. Items' = Items
    BY KindKept DEF Items
  <1>2. CASE ListState = "stopped"
    BY <1>2, ListStutters
  <1>3. CASE ListState # "stopped"
    BY <1>1, <1>3 DEF List!Next, List!Stop, Items, ListState
  <1> QED
    BY <1>2, <1>3

\* initialize.
LEMMA ListInitialize ==
  ASSUME TypeOK, Initialize
  PROVE  List!Initialize
  <1>1. /\ portList \in [Slot -> PortType] /\ hasItem \subseteq Slot
        /\ state = "created" /\ Start \notin hasItem
        /\ Start = 0 /\ End = MAX_PORTS - 1
    BY DEF TypeOK, Initialize, Start, End
  <1>2. ListState = "created" /\ Items[0] = "empty"
    BY <1>1, Ends DEF ListState, Items, Kind
  <1>3. ~Initialized(NewPort(FALSE)).output /\ Initialized(NewPort(TRUE)).output
    BY NewPortFields, InitializedFields DEF Fields
  <1>4. CASE End \notin hasItem
    <2>1. /\ portList' = [portList EXCEPT ![Start] = Initialized(NewPort(FALSE)),
                                        ![End] = Initialized(NewPort(TRUE))]
          /\ hasItem' = hasItem \cup {Start, End} /\ state' = "initialized"
      BY <1>4 DEF Initialize
    <2>2. Items[End] = "empty"
      BY <1>4, Ends DEF Items, Kind
    <2>3. ASSUME NEW i \in Slot
          PROVE  Kind(i)' = IF i = 0 THEN "startControl" ELSE IF i = MAX_PORTS - 1 THEN "endControl"
                           ELSE Kind(i)
      BY <1>1, <1>3, <2>1, Ends DEF Kind
    <2>4. Items' = [Items EXCEPT ![0] = "startControl", ![MAX_PORTS - 1] = "endControl"]
      BY <1>1, <2>3, Ends DEF Items
    <2>5. ListState' = "initialized"
      BY <2>1 DEF ListState
    <2> QED
      BY <1>1, <1>2, <2>2, <2>4, <2>5 DEF List!Initialize, List!Empty, Items, ListState
  <1>5. CASE End \in hasItem
    <2>1. /\ portList' = [portList EXCEPT ![Start] = Initialized(NewPort(FALSE))]
          /\ hasItem' = hasItem \cup {Start} /\ state' = state
      BY <1>5 DEF Initialize, Put
    <2>2. Items[End] # "empty"
      BY <1>5, Ends DEF Items, Kind
    <2>3. ASSUME NEW i \in Slot
          PROVE  Kind(i)' = IF i = 0 THEN "startControl" ELSE Kind(i)
      BY <1>1, <1>3, <2>1, Ends DEF Kind
    <2>4. Items' = [Items EXCEPT ![0] = "startControl"]
      BY <1>1, <2>3, Ends DEF Items
    <2>5. ListState' = ListState
      BY <2>1 DEF ListState
    <2> QED
      BY <1>1, <1>2, <2>2, <2>4, <2>5 DEF List!Initialize, List!Empty, Items, ListState
  <1> QED
    BY <1>4, <1>5

\* addPort.
LEMMA ListAdd ==
  ASSUME TypeOK, NEW output \in BOOLEAN, AddPort(output)
  PROVE  List!AddPort
  <1> DEFINE q == registerAndStart(Initialized(NewPort(output)))
             kind == IF output THEN "output" ELSE "input"
  <1>1. PICK j \in Slot : /\ Put(j, q) /\ hasItem' = hasItem \cup {j} /\ UNCHANGED state
                         /\ (IF output THEN List!findSlotForOutputPort(j) ELSE List!findSlotForInputPort(j))
    BY DEF AddPort
  <1>2. q.output = output
    BY NewPortIsKept
  <1> HIDE DEF q
  <1>3. portList \in [Slot -> PortType] /\ portList' = [portList EXCEPT ![j] = q]
    BY <1>1 DEF TypeOK, Put
  <1>4. j \notin {Start, End} \/ (j = Start /\ output) \/ (j = End /\ ~output)
    BY <1>1, ChainAssumption DEF List!findSlotForOutputPort, List!findSlotForInputPort,
       List!CandidatesForOutput, List!CandidatesForInput, Start, End, Slot
  <1>5. Kind(j)' = kind
    BY <1>1, <1>2, <1>3, <1>4, Ends DEF Kind
  <1>6. ASSUME NEW i \in Slot, i # j PROVE Kind(i)' = Kind(i)
    BY <1>1, <1>3, <1>6 DEF Kind
  <1>7. Items' = [Items EXCEPT ![j] = kind]
    BY <1>1, <1>5, <1>6 DEF Items
  <1>8. ListState \in {"created", "initialized"} /\ ListState' = ListState
    BY <1>1 DEF AddPort, ListState
  <1> QED
    BY <1>1, <1>7, <1>8 DEF List!AddPort, Items, ListState, Slot, List!Slot

\* removePort, when it takes its port out at last.
LEMMA ListTake ==
  ASSUME TypeOK, AdminInv, Take
  PROVE  [List!Next]_(List!vars)
  <1>1. /\ portList \in [Slot -> PortType] /\ admin.slot \in Slot /\ UNCHANGED state
        /\ Kind(admin.slot) \in {"input", "output"}
    BY DEF TypeOK, Take, AdminInv
  <1>2. CASE UNCHANGED <<portList, hasItem>>
    BY <1>1, <1>2, UnchangedMoves, ListStutters DEF ListState
  <1>3. CASE Put(admin.slot, NoItem) /\ hasItem' = hasItem \ {admin.slot}
    <2>1. ASSUME NEW i \in Slot
          PROVE  Kind(i)' = IF i = admin.slot THEN "empty" ELSE Kind(i)
      BY <1>1, <1>3 DEF Kind, Put
    <2>2. Items' = [Items EXCEPT ![admin.slot] = "empty"]
      BY <1>1, <2>1 DEF Items
    <2>3. ListState' = ListState
      BY <1>1 DEF ListState
    <2>4. Items[admin.slot] \in {"input", "output"}
      BY <1>1 DEF Items
    <2>5. List!RemovePort
      BY <1>1, <2>2, <2>3, <2>4 DEF List!RemovePort, Items, ListState, Slot, List!Slot
    <2> QED
      BY <2>5 DEF List!Next
  <1> QED
    BY <1>2, <1>3 DEF Take

\* Every step of the chain is one of PortList, or changes nothing there.
LEMMA ListStep == TypeOK /\ AdminInv /\ WorkerInv /\ [Next]_vars => [List!Next]_(List!vars)
  <1> SUFFICES ASSUME TypeOK, AdminInv, WorkerInv, [Next]_vars PROVE [List!Next]_(List!vars)
    OBVIOUS
  <1>1. CASE JavaNext \/ NativeNext
    <2>1. Moved
      <3>1. CASE JavaVisits \/ JavaResumes
        BY <3>1, JavaMoves
      <3>2. CASE JavaWaits \/ JavaLoops
        BY <3>2, UnchangedMoves DEF JavaWaits, JavaLoops, TypeOK
      <3>3. CASE NativeNext
        BY <3>3, NativeMoves
      <3> QED
        BY <1>1, <3>1, <3>2, <3>3 DEF JavaNext
    <2>2. UNCHANGED <<hasItem, state>>
      BY <1>1 DEF JavaNext, JavaWaits, JavaLoops, JavaVisits, JavaResumes,
                  NativeNext, NativeBegins, NativeInits, NativeVisits, NativeResumes
    <2> QED
      BY <2>1, <2>2, ListStutters DEF ListState
  <1>2. CASE StopPort \/ StopResumes
    <2>1. Moved /\ hasItem' = hasItem /\ (state' = "stopped" \/ state' = state)
      BY <1>2, StopMoves DEF StopPort, StopResumes, NextToStop
    <2> QED
      BY <2>1, ListStutters, ListStops DEF ListState
  <1>3. CASE RemoveResumes \/ \E i \in Slot : RemovePort(i)
    <2>1. Moved /\ UNCHANGED <<hasItem, state>>
      BY <1>3, RemoveMoves DEF RemoveResumes, RemovePort
    <2> QED
      BY <2>1, ListStutters DEF ListState
  <1>4. CASE RegisterAtServer \/ StartAndRun
    <2>1. Moved /\ hasItem' = hasItem
      BY <1>4, AllMove DEF RegisterAtServer, StartAndRun
    <2>2. /\ state \in {"initialized", "registered"}
          /\ state' \in {"initialized", "registered", "running"}
      BY <1>4 DEF RegisterAtServer, StartAndRun
    <2> QED
      BY <2>1, <2>2, ListStutters DEF ListState
  <1>5. CASE Shutdown
    <2>1. Moved /\ hasItem' = hasItem /\ state' \in {state, "unregistered", "deletable"}
      BY <1>5, AllMove DEF Shutdown
    <2> QED
      BY <2>1, ListStutters, ListStops DEF ListState
  <1>6. CASE Initialize
    BY <1>6, ListInitialize DEF List!Next
  <1>7. ASSUME NEW output \in BOOLEAN, AddPort(output) PROVE [List!Next]_(List!vars)
    BY <1>7, ListAdd DEF List!Next
  <1>8. CASE Take
    BY <1>8, ListTake
  <1>9. CASE UNCHANGED <<portList, hasItem, state>>
    BY <1>9, UnchangedMoves, ListStutters DEF TypeOK, ListState
  <1>10. EndAwaited \/ Join \/ Stop \/ Deactivate \/ UNCHANGED vars =>
           UNCHANGED <<portList, hasItem, state>>
    BY DEF EndAwaited, Join, Stop, Deactivate, vars
  <1> QED
    BY <1>1, <1>2, <1>3, <1>4, <1>5, <1>6, <1>7, <1>8, <1>9, <1>10
       DEF Next, AdminContinues, AdminBegins

----------------------------------------------------------------------------
(* Refinement: a step of the chain is a step of ChainLife, or changes nothing there. *)

\* Is the Java worker in runJava?  This is the variable worker of ChainLife.
InRunJava == java.at \notin {"out", "done"}

\* What ChainLife does not see.
LEMMA Stutters ==
  UNCHANGED <<state, lastCycle>> /\ InRunJava' = InRunJava => [Life!Next]_(Life!vars)
  BY DEF InRunJava, Life!vars

\* Every step of the chain is one of ChainLife, or changes nothing there.
LEMMA LifeStep ==
  TypeOK /\ AdminInv /\ StartInv /\ WorkerInv /\ [Next]_vars => [Life!Next]_(Life!vars)
  <1> SUFFICES ASSUME TypeOK, AdminInv, StartInv, WorkerInv, [Next]_vars
               PROVE  [Life!Next]_(Life!vars)
    OBVIOUS
  <1>1. CASE JavaWaits \/ JavaVisits \/ JavaResumes
    <2>1. UNCHANGED <<state, lastCycle>>
      BY <1>1 DEF JavaWaits, JavaVisits, JavaResumes
    <2>2. java'.at \in {"loop", "walk", "blocked"} /\ java.at \in {"wait", "walk", "blocked"}
      <3>1. CASE JavaWaits
        BY <3>1 DEF JavaWaits, JavaAt
      <3>2. CASE JavaVisits
        BY <3>2 DEF JavaVisits, JavaSkips, JavaCalls, JavaNextSlot, JavaAt
      <3>3. CASE JavaResumes
        BY <3>3 DEF JavaResumes, JavaSkips, JavaCalls, JavaNextSlot, JavaAt
      <3> QED
        BY <1>1, <3>1, <3>2, <3>3
    <2> QED
      BY <2>1, <2>2, Stutters DEF InRunJava
  <1>2. CASE JavaLoops
    <2>1. UNCHANGED <<state, lastCycle>> /\ java.at = "loop"
      BY <1>2 DEF JavaLoops
    <2>2. CASE state # "running" \/ portList[Start].substate = "terminated"
      <3>1. lastCycle
        BY <2>1, <2>2 DEF WorkerInv, StartInv, Quiet
      <3>2. InRunJava' = FALSE
        BY <1>2, <2>2 DEF JavaLoops, JavaAt, InRunJava
      <3> QED
        BY <2>1, <3>1, <3>2 DEF InRunJava, Life!Next, Life!Leave
    <2>3. CASE ~(state # "running" \/ portList[Start].substate = "terminated")
      <3>1. java'.at = "walk"
        BY <1>2, <2>3 DEF JavaLoops, JavaAt
      <3> QED
        BY <2>1, <3>1, Stutters DEF InRunJava
    <2> QED
      BY <2>2, <2>3
  <1>3. CASE Initialize
    BY <1>3, Stutters DEF Initialize, InRunJava, Life!Next, Life!Initialize
  <1>4. CASE RegisterAtServer
    <2>1. state = "initialized" /\ state' \in {"initialized", "registered"} /\ UNCHANGED <<lastCycle, java>>
      BY <1>4 DEF RegisterAtServer
    <2> QED
      BY <2>1, Stutters DEF InRunJava, Life!Next, Life!RegisterAtServer
  <1>5. CASE StartAndRun
    <2>1. InRunJava' = TRUE
      BY <1>5 DEF StartAndRun, JavaAt, InRunJava
    <2> QED
      BY <1>5, <2>1 DEF StartAndRun, InRunJava, Life!Next, Life!Start
  <1>6. CASE Stop
    BY <1>6 DEF Stop, InRunJava, Life!Next, Life!Announce
  <1>7. CASE StopPort \/ StopResumes
    <2>1. state = "running" /\ lastCycle /\ UNCHANGED <<lastCycle, java>>
      BY <1>7 DEF StopPort, StopResumes, AdminInv
    <2>2. state' = "stopped" \/ state' = state
      BY <1>7 DEF StopPort, StopResumes, NextToStop
    <2> QED
      BY <2>1, <2>2, Stutters DEF InRunJava, Life!Next, Life!Stop
  <1>8. CASE Shutdown
    <2>1. /\ state # "running" /\ UNCHANGED <<lastCycle, java>>
          /\ \/ state' = state \/ state' = "deletable"
             \/ state \in {"registered", "stopped"} /\ state' = "unregistered"
      BY <1>8 DEF Shutdown
    <2> QED
      BY <2>1, Stutters DEF InRunJava, Life!Next, Life!Shutdown
  <1>9. CASE UNCHANGED <<state, lastCycle, java>>
    BY <1>9, Stutters DEF InRunJava
  <1>10. \/ JavaNext \/ Initialize \/ RegisterAtServer \/ StartAndRun \/ Stop \/ StopPort \/ StopResumes
         \/ Shutdown
         \/ UNCHANGED <<state, lastCycle, java>>
    BY DEF Next, NativeNext, AdminContinues, AdminBegins, NativeBegins, NativeInits, NativeVisits,
           NativeResumes, RemoveResumes, Take, EndAwaited, Join, Deactivate, AddPort, RemovePort, vars
  <1> QED
    BY <1>1, <1>2, <1>3, <1>4, <1>5, <1>6, <1>7, <1>8, <1>9, <1>10 DEF JavaNext

----------------------------------------------------------------------------
(* Who is blocked where, and what happens to the slots meanwhile. *)

\* addPort puts its port into an empty slot.
LEMMA AddedPort ==
  ASSUME NEW output \in BOOLEAN, AddPort(output)
  PROVE  \E j \in Slot \ hasItem :
           /\ Put(j, registerAndStart(Initialized(NewPort(output)))) /\ hasItem' = hasItem \cup {j}
           /\ UNCHANGED <<state, lastCycle, java, native, admin, activated>> /\ admin.at = "idle"
  <1>1. PICK j \in Slot : /\ Put(j, registerAndStart(Initialized(NewPort(output))))
                         /\ hasItem' = hasItem \cup {j}
                         /\ (IF output THEN List!findSlotForOutputPort(j) ELSE List!findSlotForInputPort(j))
    BY DEF AddPort
  <1>2. j \notin hasItem
    BY <1>1 DEF List!findSlotForOutputPort, List!findSlotForInputPort, List!CandidatesForOutput,
                List!CandidatesForInput, List!Empty, Kind
  <1> QED
    BY <1>1, <1>2 DEF AddPort, Idle

\* The array changes only where nobody is blocked.
LEMMA SlotsChange ==
  ASSUME TypeOK, LeaseInv, [Next]_vars, hasItem' # hasItem
  PROVE  /\ UNCHANGED <<java, native>>
         /\ \A i \in Slot : (i \in hasItem') # (i \in hasItem) => ~Accessed(i)
  <1>1. Initialize \/ Take \/ \E output \in BOOLEAN : AddPort(output)
    BY DEF Next, JavaNext, JavaWaits, JavaLoops, JavaVisits, JavaResumes,
       NativeNext, NativeBegins, NativeInits, NativeVisits, NativeResumes,
       AdminContinues, RemoveResumes, EndAwaited, StopPort, StopResumes, Join,
       AdminBegins, RegisterAtServer, StartAndRun, Stop, Deactivate, Shutdown, RemovePort, vars
  <1>2. CASE Take
    <2>1. UNCHANGED <<java, native>> /\ ~Accessed(admin.slot) /\ hasItem' = hasItem \ {admin.slot}
      BY <1>2 DEF Take
    <2> QED
      BY <2>1
  <1>3. CASE Initialize \/ \E output \in BOOLEAN : AddPort(output)
    <2>1. UNCHANGED <<java, native>> /\ hasItem \subseteq hasItem'
      BY <1>3 DEF Initialize, AddPort
    <2>2. \A i \in Slot : i \notin hasItem => ~Accessed(i)
      BY DEF LeaseInv, Accessed
    <2> QED
      BY <2>1, <2>2
  <1> QED
    BY <1>1, <1>2, <1>3

\* Each worker looks after its own place; start puts the Java worker to the beginning of runJava.
LEMMA PlacesChange ==
  ASSUME [Next]_vars
  PROVE  /\ JavaNext => UNCHANGED <<native, hasItem>>
         /\ NativeNext => UNCHANGED <<java, hasItem>>
         /\ ~JavaNext /\ ~NativeNext => UNCHANGED native /\ (UNCHANGED java \/ java'.at = "wait")
  <1>1. JavaNext => UNCHANGED <<native, hasItem>>
    BY DEF JavaNext, JavaWaits, JavaLoops, JavaVisits, JavaResumes
  <1>2. NativeNext => UNCHANGED <<java, hasItem>>
    BY DEF NativeNext, NativeBegins, NativeInits, NativeVisits, NativeResumes
  <1>3. StartAndRun => UNCHANGED native /\ java'.at = "wait"
    BY DEF StartAndRun, JavaAt
  <1>4. AdminContinues => UNCHANGED <<java, native>>
    BY DEF AdminContinues, RemoveResumes, Take, EndAwaited, StopPort, StopResumes, Join
  <1>5. AdminBegins /\ ~StartAndRun => UNCHANGED <<java, native>>
    BY DEF AdminBegins, Initialize, RegisterAtServer, Stop, Deactivate, Shutdown, AddPort, RemovePort
  <1> QED
    BY <1>1, <1>2, <1>3, <1>4, <1>5 DEF Next, vars

LEMMA LeaseStep == TypeOK /\ LeaseInv /\ [Next]_vars => LeaseInv'
  <1> SUFFICES ASSUME TypeOK, LeaseInv, [Next]_vars PROVE LeaseInv'
    OBVIOUS
  <1>1. CASE JavaNext
    <2>1. UNCHANGED <<native, hasItem>>
      BY <1>1, PlacesChange
    <2>2. java'.at = "blocked" => java'.slot \in hasItem
      BY <1>1 DEF JavaNext, JavaWaits, JavaLoops, JavaVisits, JavaResumes, JavaSkips, JavaCalls,
         JavaNextSlot, JavaAt
    <2> QED
      BY <2>1, <2>2 DEF LeaseInv
  <1>2. CASE NativeNext
    <2>1. UNCHANGED <<java, hasItem>>
      BY <1>2, PlacesChange
    <2>2. native'.at = "blocked" => native'.slot \in hasItem
      BY <1>2 DEF NativeNext, NativeBegins, NativeInits, NativeVisits, NativeResumes, NativeSkips,
         NativeWorks, NativeNextSlot, NativeAt
    <2> QED
      BY <2>1, <2>2 DEF LeaseInv
  <1>3. CASE ~JavaNext /\ ~NativeNext
    <2>1. UNCHANGED native /\ (UNCHANGED java \/ java'.at = "wait")
      BY <1>3, PlacesChange
    <2>2. \A i \in Slot : i \in hasItem /\ i \notin hasItem' => ~Accessed(i)
      BY SlotsChange
    <2>3. java.slot \in Slot /\ native.slot \in Slot
      BY DEF TypeOK
    <2> QED
      BY <2>1, <2>2, <2>3 DEF LeaseInv, Accessed
  <1> QED
    BY <1>1, <1>2, <1>3

\* A slot as SlotLease sees it: the workers that are blocked in its port have it on lease.
Lease(i) == INSTANCE SlotLease WITH
  Accessor <- {"java", "native"}, Item <- {"port"}, NoItem <- "none",
  item <- IF i \in hasItem THEN "port" ELSE "none",
  users <- (IF java.at = "blocked" /\ java.slot = i THEN {"java"} ELSE {}) \cup
           (IF native.at = "blocked" /\ native.slot = i THEN {"native"} ELSE {})

\* The slots of a chain are used as their envelopes promise (SlotLease): no port is put in or
\* taken out while a worker is blocked in that slot.
KeepsLease ==
  /\ \A i \in Slot : Lease(i)!Init
  /\ [][\A i \in Slot : [Lease(i)!Next]_(Lease(i)!vars)]_vars

\* In the terms of SlotLease: what happens in one slot.
LEMMA LeaseMoves ==
  ASSUME TypeOK, LeaseInv, [Next]_vars, NEW i \in Slot
  PROVE  [Lease(i)!Next]_(Lease(i)!vars)
  <1> DEFINE JavaHas == java.at = "blocked" /\ java.slot = i
             NativeHas == native.at = "blocked" /\ native.slot = i
             Has == i \in hasItem
  <1>1. UNCHANGED java \/ UNCHANGED native
    BY PlacesChange
  <1>2. Has' = Has \/ (UNCHANGED <<java, native>> /\ ~JavaHas /\ ~NativeHas)
    BY SlotsChange DEF Accessed
  <1>3. JavaHas' = JavaHas \/ NativeHas' = NativeHas
    BY <1>1
  <1>4. CASE Has' = Has /\ JavaHas' = JavaHas /\ NativeHas' = NativeHas
    BY <1>4 DEF Lease!vars
  <1>5. CASE Has' = Has /\ JavaHas' # JavaHas /\ NativeHas' = NativeHas
    <2>1. IF JavaHas THEN Lease(i)!Finish("java") ELSE Lease(i)!Begin("java")
      BY <1>5 DEF Lease!Finish, Lease!Begin
    <2> QED
      BY <2>1 DEF Lease!Next
  <1>6. CASE Has' = Has /\ JavaHas' = JavaHas /\ NativeHas' # NativeHas
    <2>1. IF NativeHas THEN Lease(i)!Finish("native") ELSE Lease(i)!Begin("native")
      BY <1>6 DEF Lease!Finish, Lease!Begin
    <2> QED
      BY <2>1 DEF Lease!Next
  <1>7. CASE Has' # Has /\ UNCHANGED <<java, native>> /\ ~JavaHas /\ ~NativeHas
    <2>1. Lease(i)!Exchange
      BY <1>7 DEF Lease!Exchange
    <2> QED
      BY <2>1 DEF Lease!Next
  <1> QED
    BY <1>2, <1>3, <1>4, <1>5, <1>6, <1>7

----------------------------------------------------------------------------

\* A new chain satisfies the inductive invariant.
LEMMA InitInv == Init => ChainInv
  <1> SUFFICES ASSUME Init PROVE ChainInv
    OBVIOUS
  <1>1. NoItem \in PortType
    BY NewPortFields DEF NoItem, Fields
  <1>2. TypeOK
    <2>1. portList \in [Slot -> PortType] /\ hasItem \subseteq Slot
      BY <1>1 DEF Init
    <2>2. state = "created" /\ lastCycle \in BOOLEAN /\ activated \in BOOLEAN
      BY DEF Init
    <2>3. java \in [at : {"out", "wait", "loop", "walk", "blocked", "done"}, slot : Slot,
                    last : BOOLEAN]
      BY Ends DEF Init
    <2>4. native \in [at : {"idle", "init", "process", "blocked"}, slot : Slot]
      BY Ends DEF Init
    <2>5. admin \in [at : {"idle", "awaitEnd", "stop", "stopWaits", "join", "removeWaits", "take"},
                     slot : Slot, force : BOOLEAN]
      BY Ends DEF Init
    <2>6. supply \in 0 .. MaxNew
      BY ChainAssumption DEF Init
    <2> QED
      BY <2>1, <2>2, <2>3, <2>4, <2>5, <2>6 DEF TypeOK
  <1>3. AdminInv /\ StartInv /\ WorkerInv /\ LeaseInv
    BY DEF Init, AdminInv, StartInv, WorkerInv, LeaseInv
  <1>4. EndInv
    <2>1. portList[End] = NoItem /\ state = "created"
      BY Ends DEF Init
    <2> QED
      BY <2>1 DEF EndInv, Xrun, NoItem, NewPort, Running
  <1> QED
    BY <1>2, <1>3, <1>4 DEF ChainInv

\* The inductive invariant holds in every reachable state, for every length of the array
\* and any number of ports.
THEOREM ChainInvariant == Spec => []ChainInv
  <1>1. ChainInv /\ [Next]_vars => ChainInv'
    BY TypeStep, AdminStep, StartStep, WorkerStep, EndStep, LeaseStep DEF ChainInv
  <1> QED
    BY <1>1, InitInv, PTL DEF Spec

\* The variables of the chain have their types: every port stays a port that PortOps
\* knows, and no walk leaves the array.
THEOREM ChainTypeCorrect == Spec => []TypeOK
  <1>1. ChainInv => TypeOK
    BY DEF ChainInv
  <1> QED
    BY <1>1, ChainInvariant, PTL

\* A new round of the process thread never meets an unfinished one: whatever fails or times out,
\* and whatever the administrator does, the end control is done before the thread returns.
THEOREM ChainNoXrun == Spec => []NoXrun
  <1>1. ChainInv => NoXrun
    BY DEF ChainInv, EndInv, NoXrun
  <1> QED
    BY <1>1, ChainInvariant, PTL

\* The chain keeps the promise that its client relies on: its states come in order, and
\* the Java worker is in runJava until stop has announced the last cycle.
THEOREM ChainKeepsLife == Spec => KeepsChainLife
  <1>1. Init => Life!Init
    BY DEF Init, Life!Init
  <1>2. ChainInv /\ [Next]_vars => [Life!Next]_(Life!vars)
    BY LifeStep DEF ChainInv
  <1> QED
    BY <1>1, <1>2, ChainInvariant, PTL DEF Spec, KeepsChainLife, Life!Spec

\* The array of the chain is a PortList: whatever the workers do meanwhile, ports get and
\* leave their slots as PortList says, and no worker moves one.
THEOREM ChainKeepsPortList == Spec => KeepsPortList
  <1>1. Init => List!Init
    BY DEF Init, List!Init, List!Slot, Slot, Kind
  <1>2. ChainInv /\ [Next]_vars => [List!Next]_(List!vars)
    BY ListStep DEF ChainInv
  <1> QED
    BY <1>1, <1>2, ChainInvariant, PTL DEF Spec, KeepsPortList, List!Spec

\* A slot is used as its envelope promises: whatever the administrator does, the port in it stays
\* there while a worker is blocked in it.
THEOREM ChainKeepsLease == Spec => KeepsLease
  <1>1. Init => \A i \in Slot : Lease(i)!Init
    BY DEF Init, Lease!Init
  <1>2. ChainInv /\ [Next]_vars => [\A i \in Slot : [Lease(i)!Next]_(Lease(i)!vars)]_vars
    BY LeaseMoves DEF ChainInv
  <1> QED
    BY <1>1, <1>2, ChainInvariant, PTL DEF Spec, KeepsLease

==============================================================================
