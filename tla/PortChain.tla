------------------------------ MODULE PortChain ------------------------------
(***************************************************************************)
(* The chain of ports (native/portchain.hpp) while Java and the audio      *)
(* server work on it: the Java worker and the audio server's process       *)
(* thread walk over the same array of ports, without the chain's mutex,    *)
(* and an administrator adds, removes, starts and stops ports under it.    *)
(*                                                                         *)
(* A port is a value of PortOps.  A step of a walk is what a worker does   *)
(* with one port under that port's stateMutex; the mutex and the condition *)
(* inside a port are modelled in Port, so waiting is a guard here and a    *)
(* callback is part of its step.  A blocked worker keeps its accessor.     *)
(***************************************************************************)
EXTENDS PortOps, Integers

CONSTANTS
  MAX_PORTS,      \* the length of the array
  MaxNew,         \* bound: how many ports the application creates
  Prompt,         \* no timed wait expires while the workers may still end it
  Failures,       \* callbacks and accesses to the audio server may fail
  RegisterFails   \* registering the ports may fail at any of them

ASSUME ChainAssumption ==
  /\ MAX_PORTS \in Nat /\ MAX_PORTS >= 4 /\ MaxNew \in Nat
  /\ Prompt \in BOOLEAN /\ Failures \in BOOLEAN /\ RegisterFails \in BOOLEAN

VARIABLES
  portList,   \* the port in each slot
  hasItem,    \* the slots that hold a port
  state,      \* the chain's state
  lastCycle,  \* will the next cycle be the last one?
  java,       \* where the Java worker is
  native,     \* where the process thread is
  admin,      \* where the administrator is
  activated,  \* external: does the audio server call nativeProcess?
  supply      \* how many ports the application may still create

vars == <<portList, hasItem, state, lastCycle, java, native, admin, activated, supply>>

Slot == 0 .. MAX_PORTS - 1

Start == 0                \* the start control, an input port

End == MAX_PORTS - 1      \* the end control, an output port

Ordinary == Slot \ {Start, End}

NoItem == NewPort(FALSE)  \* stands in an empty slot

\* Slot i gets the port p.
Put(i, p) == portList' = [portList EXCEPT ![i] = p]

\* The array as PortList sees it.
Kind(i) ==
  IF i \notin hasItem THEN "empty"
  ELSE IF portList[i].output THEN (IF i = End THEN "endControl" ELSE "output")
  ELSE IF i = Start THEN "startControl" ELSE "input"

List == INSTANCE PortList WITH
  portList <- [i \in Slot |-> Kind(i)],
  state <- CASE state = "created" -> "created"
             [] state \in {"initialized", "registered", "running"} -> "initialized"
             [] OTHER -> "stopped"

----------------------------------------------------------------------------
(* The Java worker: runJava and execJavaCycle. *)

JavaAt(place, i, last) == java' = [at |-> place, slot |-> i, last |-> last]

\* On to the next port of this walk, if there is one.
JavaNextSlot ==
  IF java.slot = End THEN JavaAt("loop", 0, FALSE) ELSE JavaAt("walk", java.slot + 1, java.last)

JavaSkips == JavaNextSlot /\ UNCHANGED portList

\* Mutant: the worker does not wait for the first cycle to begin.
MutJavaWaits ==
  /\ java.at = "wait"
  /\ JavaAt(IF portList[Start].substate = "javaToExec" THEN "loop" ELSE "done", 0, FALSE)
  /\ UNCHANGED <<portList, hasItem, state, lastCycle, native, admin, activated, supply>>

\* waitAndExecJavaCycle: until the start control has a cycle for the Java side.
JavaWaits ==
  /\ java.at = "wait"
  /\ \/ state \notin {"created", "initialized", "registered", "running"}
     \/ state = "running" /\ portList[Start].substate = "javaToExec"
  /\ JavaAt("loop", 0, FALSE)
  /\ UNCHANGED <<portList, hasItem, state, lastCycle, native, admin, activated, supply>>

\* Mutant: the worker ends as soon as the last cycle has been requested.
MutJavaLoops ==
  /\ java.at = "loop"
  /\ IF state # "running" \/ lastCycle
     THEN JavaAt("done", 0, FALSE)
     ELSE JavaAt("walk", 0, lastCycle)
  /\ UNCHANGED <<portList, hasItem, state, lastCycle, native, admin, activated, supply>>

\* The loop of runJava.
JavaLoops ==
  /\ java.at = "loop"
  /\ IF state # "running" \/ portList[Start].substate = "terminated"
     THEN JavaAt("done", 0, FALSE)
     ELSE JavaAt("walk", 0, lastCycle)
  /\ UNCHANGED <<portList, hasItem, state, lastCycle, native, admin, activated, supply>>

\* Mutant: the flag is read anew at every port.
MutJavaCalls ==
  LET i == java.slot  p == JavaBegins(portList[i], lastCycle) IN
  /\ Put(i, JavaEnds(p)) \/ (Failures /\ i \in Ordinary /\ Put(i, emergencyStop(p, "java")))
  /\ JavaNextSlot

\* The callback of the port in the Java worker's slot.  An exception of a
\* control port's callback is not noticed.
JavaCalls ==
  LET i == java.slot  p == JavaBegins(portList[i], java.last) IN
  /\ Put(i, JavaEnds(p)) \/ (Failures /\ i \in Ordinary /\ Put(i, emergencyStop(p, "java")))
  /\ JavaNextSlot

\* execJavaProcess on the next slot, and after having waited.
JavaVisits ==
  /\ java.at = "walk"
  /\ LET i == java.slot  p == portList[i] IN
     \/ (i \notin hasItem \/ JavaIgnores(p)) /\ JavaSkips
     \/ i \in hasItem /\ JavaReady(p) /\ JavaCalls
     \/ /\ i \in hasItem /\ ~JavaIgnores(p) /\ ~JavaReady(p)
        /\ JavaAt("blocked", i, java.last)
        /\ UNCHANGED portList
  /\ UNCHANGED <<hasItem, state, lastCycle, native, admin, activated, supply>>

\* Mutant: whatever wakes the worker up, the callback is called.
MutJavaResumes ==
  /\ java.at = "blocked"
  /\ LET p == portList[java.slot] IN
     \/ JavaGivesUp(p) /\ JavaSkips
     \/ ~JavaGivesUp(p) /\ JavaCalls
  /\ UNCHANGED <<hasItem, state, lastCycle, native, admin, activated, supply>>

JavaResumes ==
  /\ java.at = "blocked"
  /\ LET p == portList[java.slot] IN
     \/ JavaGivesUp(p) /\ JavaSkips
     \/ JavaReady(p) /\ JavaCalls
  /\ UNCHANGED <<hasItem, state, lastCycle, native, admin, activated, supply>>

----------------------------------------------------------------------------
(* The process thread: nativeProcess and execNativeCycle. *)

NativeAt(place, i) == native' = [at |-> place, slot |-> i]

\* The end control is not yet done with the previous cycle.
Xrun ==
  Running(portList[End]) /\ portList[End].substate \notin {"started", "cycleDone", "terminated"}

\* A round begins, unless the chain has ended or the previous round has not.
NativeBegins ==
  /\ activated /\ native.at = "idle"
  /\ Running(portList[End]) /\ portList[End].substate # "terminated" /\ ~Xrun
  /\ NativeAt("init", 0)
  /\ UNCHANGED <<portList, hasItem, state, lastCycle, java, admin, activated, supply>>

NativeInits ==
  /\ native.at = "init"
  /\ LET i == native.slot IN
     /\ IF i \in hasItem THEN Put(i, execNativeCycleInit(portList[i])) ELSE UNCHANGED portList
     /\ IF i = End THEN NativeAt("process", 0) ELSE NativeAt("init", i + 1)
  /\ UNCHANGED <<hasItem, state, lastCycle, java, admin, activated, supply>>

\* Mutant: the end control is forgotten.
MutNativeNextSlot ==
  IF native.slot = End - 1 THEN NativeAt("idle", 0) ELSE NativeAt("process", native.slot + 1)

\* On to the next port of this round, if there is one.
NativeNextSlot ==
  IF native.slot = End THEN NativeAt("idle", 0) ELSE NativeAt("process", native.slot + 1)

NativeSkips == NativeNextSlot /\ UNCHANGED portList

\* execNativeProcess_impl of the port in the process thread's slot.
NativeWorks ==
  LET i == native.slot  p == portList[i] IN
  /\ IF NativeIllegal(p)
     THEN Put(i, emergencyStop(p, "illegal"))
     ELSE \/ Put(i, NativeEnds(p))
          \/ Failures /\ i \in Ordinary /\ Put(i, emergencyStop(p, "native"))
  /\ NativeNextSlot

\* execNativeProcess on the next slot, and after having waited.
NativeVisits ==
  /\ native.at = "process"
  /\ LET i == native.slot  p == portList[i] IN
     \/ (i \notin hasItem \/ NativeIgnores(p)) /\ NativeSkips
     \/ i \in hasItem /\ ~NativeIgnores(p) /\ NativeReady(p) /\ NativeWorks
     \/ /\ i \in hasItem /\ ~NativeIgnores(p) /\ ~NativeReady(p)
        /\ NativeAt("blocked", i)
        /\ UNCHANGED portList
  /\ UNCHANGED <<hasItem, state, lastCycle, java, admin, activated, supply>>

NativeResumes ==
  /\ native.at = "blocked"
  /\ LET i == native.slot  p == portList[i] IN
     \/ NativeRejects(p) /\ Put(i, emergencyStop(p, "illegal")) /\ NativeNextSlot
     \/ ~NativeRejects(p) /\ ~Running(p) /\ NativeSkips
     \/ NativeReady(p) /\ NativeWorks
  /\ UNCHANGED <<hasItem, state, lastCycle, java, admin, activated, supply>>

----------------------------------------------------------------------------
(* The administrator: one thread at a time holds the chain's stateMutex.  A   *)
(* call that throws before it has changed anything is not an action.          *)

AdminAt(place, i, force) == admin' = [at |-> place, slot |-> i, force |-> force]

Idle == admin.at = "idle"

Home == AdminAt("idle", 0, FALSE)

\* May a wait of at most maxWaitingTime expire?  When the end control has ended
\* nothing else can be waited for.
MayExpire == ~Prompt \/ HasEnded(portList[End])

\* The slots that an operation on all ports gets to: those before limit, up to the
\* first port that is not in one of the given states, where the operation throws.
Reached(list, states, limit) ==
  {i \in hasItem : i < limit /\ \A j \in hasItem : j <= i => list[j].state \in states}

\* Where the audio server refuses to register or un-register a port, or MAX_PORTS.
\* It does not know the control ports.
Refusal == IF RegisterFails THEN (hasItem \cap Ordinary) \cup {MAX_PORTS} ELSE {MAX_PORTS}

AllIn(list, states) == \A i \in hasItem : list[i].state \in states

\* The slots of the control ports may be taken; the comment in PortList applies.
Initialize ==
  /\ Idle /\ state = "created"
  /\ Start \notin hasItem
  /\ IF End \notin hasItem
     THEN /\ portList' = [portList EXCEPT ![Start] = Initialized(NewPort(FALSE)),
                                          ![End] = Initialized(NewPort(TRUE))]
          /\ hasItem' = hasItem \cup {Start, End}
          /\ state' = "initialized"
     ELSE /\ Put(Start, Initialized(NewPort(FALSE)))
          /\ hasItem' = hasItem \cup {Start}
          /\ UNCHANGED state
  /\ UNCHANGED <<lastCycle, java, native, admin, activated, supply>>

\* The ports register one after the other; when one fails the others stay as
\* they are and so does the chain.
RegisterAtServer ==
  /\ Idle /\ state = "initialized"
  /\ \E limit \in Refusal :
       /\ portList' = [i \in Slot |-> IF i \in Reached(portList, {"initialized"}, limit)
                                      THEN Registered(portList[i]) ELSE portList[i]]
       /\ state' = IF limit = MAX_PORTS /\ AllIn(portList, {"initialized"})
                   THEN "registered" ELSE state
  /\ UNCHANGED <<hasItem, lastCycle, java, native, admin, activated, supply>>

\* _run: start, then jack_activate, then runJava.
StartAndRun ==
  /\ Idle /\ state = "registered" /\ ~activated
  /\ AllIn(portList, {"registered"})
  /\ portList' = [i \in Slot |-> IF i \in hasItem THEN Started(portList[i]) ELSE portList[i]]
  /\ state' = "running"
  /\ activated' = TRUE
  /\ JavaAt("wait", 0, FALSE)
  /\ UNCHANGED <<hasItem, lastCycle, native, admin, supply>>

\* Mutant: a port is put into a running chain without being started.
MutRegisterAndStart(p) == IF state \in {"registered", "running"} THEN Registered(p) ELSE p

registerAndStart(p) ==
  CASE state = "registered" -> Registered(p)
    [] state = "running" -> Started(Registered(p))
    [] OTHER -> p

\* addPort, with a port that the application has initialized.
AddPort(output) ==
  /\ Idle /\ supply > 0
  /\ state \in {"created", "initialized", "registered", "running"}
  /\ \E i \in Slot :
       /\ IF output THEN List!findSlotForOutputPort(i) ELSE List!findSlotForInputPort(i)
       /\ Put(i, registerAndStart(Initialized(NewPort(output))))
       /\ hasItem' = hasItem \cup {i}
  /\ supply' = supply - 1
  /\ UNCHANGED <<state, lastCycle, java, native, admin, activated>>

\* Mutant: the control ports may be removed, too.
MutRemovePort(i) ==
  /\ Idle /\ i \in hasItem
  /\ IF HasEnded(portList[i])
     THEN Put(i, Deletable(RequestLast(portList[i]))) /\ AdminAt("take", i, FALSE)
     ELSE Put(i, RequestLast(portList[i])) /\ AdminAt("removeWaits", i, FALSE)
  /\ UNCHANGED <<hasItem, state, lastCycle, java, native, activated, supply>>

\* removePort of an ordinary port: shutdown of the port, which waits until the
\* port has ended; then the port is taken out when no accessor is left.
RemovePort(i) ==
  /\ Idle /\ i \in hasItem
  /\ Kind(i) \in {"input", "output"}
  /\ IF HasEnded(portList[i])
     THEN Put(i, Deletable(RequestLast(portList[i]))) /\ AdminAt("take", i, FALSE)
     ELSE Put(i, RequestLast(portList[i])) /\ AdminAt("removeWaits", i, FALSE)
  /\ UNCHANGED <<hasItem, state, lastCycle, java, native, activated, supply>>

RemoveResumes ==
  /\ admin.at = "removeWaits"
  /\ HasEnded(portList[admin.slot]) \/ MayExpire
  /\ Put(admin.slot, Deletable(portList[admin.slot]))
  /\ AdminAt("take", admin.slot, FALSE)
  /\ UNCHANGED <<hasItem, state, lastCycle, java, native, activated, supply>>

\* Is there an accessor for slot i?
Accessed(i) ==
  (java.at = "blocked" /\ java.slot = i) \/ (native.at = "blocked" /\ native.slot = i)

\* removeItemWait; it throws if the accessors are not given back in time.
Take ==
  /\ admin.at = "take"
  /\ \/ ~Accessed(admin.slot) /\ Put(admin.slot, NoItem) /\ hasItem' = hasItem \ {admin.slot}
     \/ ~Prompt /\ Accessed(admin.slot) /\ UNCHANGED <<portList, hasItem>>
  /\ Home
  /\ UNCHANGED <<state, lastCycle, java, native, activated, supply>>

\* stop: the last cycle is announced, and the end control shall terminate.
Stop ==
  /\ Idle /\ state = "running" /\ activated
  /\ lastCycle' = TRUE
  /\ AdminAt("awaitEnd", End, FALSE)
  /\ UNCHANGED <<portList, hasItem, state, java, native, activated, supply>>

\* waitForTerminatedSubstate returns or throws.
EndAwaited ==
  /\ admin.at = "awaitEnd"
  /\ \/ HasEnded(portList[End]) /\ AdminAt("stop", 0, FALSE)
     \/ ~HasEnded(portList[End]) /\ MayExpire /\ AdminAt("stop", 0, TRUE)
  /\ UNCHANGED <<portList, hasItem, state, lastCycle, java, native, activated, supply>>

\* Mutant: the chain is not stopped once its ports are.
MutNextToStop(i, force) == IF i = End THEN AdminAt("join", 0, FALSE) /\ UNCHANGED state
                           ELSE AdminAt("stop", i + 1, force) /\ UNCHANGED state

\* On to the next port, or to the Java worker, which shall end.
NextToStop(i, force) ==
  IF i = End THEN AdminAt("join", 0, FALSE) /\ state' = "stopped"
             ELSE AdminAt("stop", i + 1, force) /\ UNCHANGED state

\* stop of the port in slot i.  A port in an unexpected state throws, and the
\* chain remains running.
StopPort ==
  /\ admin.at = "stop"
  /\ LET i == admin.slot  p == portList[i] IN
     \/ i \notin hasItem /\ UNCHANGED portList /\ NextToStop(i, admin.force)
     \/ /\ i \in hasItem /\ p.state = "stoppedOnError"
        /\ Put(i, StopAfterError(p)) /\ NextToStop(i, admin.force)
     \/ /\ i \in hasItem /\ p.state \in {"running", "registered"}
        /\ IF admin.force \/ HasEnded(p)
           THEN Put(i, StopEnds(RequestLast(p))) /\ NextToStop(i, admin.force)
           ELSE /\ Put(i, RequestLast(p))
                /\ AdminAt("stopWaits", i, admin.force)
                /\ UNCHANGED state
     \/ /\ i \in hasItem /\ p.state \notin {"running", "registered", "stoppedOnError"}
        /\ Home /\ UNCHANGED <<portList, state>>
  /\ UNCHANGED <<hasItem, lastCycle, java, native, activated, supply>>

StopResumes ==
  /\ admin.at = "stopWaits"
  /\ LET i == admin.slot IN
     /\ HasEnded(portList[i]) \/ MayExpire
     /\ Put(i, StopEnds(portList[i]))
     /\ NextToStop(i, admin.force)
  /\ UNCHANGED <<hasItem, lastCycle, java, native, activated, supply>>

\* The end of stop: runJava has returned, or it is not waited for any longer.
Join ==
  /\ admin.at = "join"
  /\ ~Prompt \/ java.at = "done"
  /\ Home
  /\ UNCHANGED <<portList, hasItem, state, lastCycle, java, native, activated, supply>>

\* jack_deactivate ends the process thread's rounds.
Deactivate ==
  /\ Idle /\ state = "stopped" /\ activated /\ native.at = "idle"
  /\ activated' = FALSE
  /\ UNCHANGED <<portList, hasItem, state, lastCycle, java, native, admin, supply>>

\* shutdown of the chain: the ports are un-registered, if they have been
\* registered, and un-initialized; a port in an unexpected state, or one that the
\* audio server keeps, makes it throw.
Shutdown ==
  /\ Idle /\ ~activated
  /\ state \in {"created", "initialized", "registered", "stopped", "unregistered"}
  /\ \E limit \in Refusal :
       LET registered == state \in {"registered", "stopped"}
           list == [i \in Slot |->
                      IF registered /\ i \in Reached(portList, {"registered", "stopped"}, limit)
                      THEN Unregistered(portList[i]) ELSE portList[i]]
           last == Reached(list, {"initialized", "unregistered"}, MAX_PORTS) IN
       IF registered /\ (limit # MAX_PORTS \/ ~AllIn(portList, {"registered", "stopped"}))
       THEN portList' = list /\ UNCHANGED state
       ELSE /\ portList' = [i \in Slot |-> IF i \in last THEN Uninitialized(list[i]) ELSE list[i]]
            /\ state' = IF last = hasItem THEN "deletable"
                        ELSE IF registered THEN "unregistered" ELSE state
  /\ UNCHANGED <<hasItem, lastCycle, java, native, admin, activated, supply>>

----------------------------------------------------------------------------

Init ==
  /\ portList = [i \in Slot |-> NoItem]
  /\ hasItem = {}
  /\ state = "created"
  /\ lastCycle = FALSE
  /\ java = [at |-> "out", slot |-> 0, last |-> FALSE]
  /\ native = [at |-> "idle", slot |-> 0]
  /\ admin = [at |-> "idle", slot |-> 0, force |-> FALSE]
  /\ activated = FALSE
  /\ supply = MaxNew

JavaNext == JavaWaits \/ JavaLoops \/ JavaVisits \/ JavaResumes

NativeNext == NativeBegins \/ NativeInits \/ NativeVisits \/ NativeResumes

\* What an administrator's operation does once it has begun.
AdminContinues == RemoveResumes \/ Take \/ EndAwaited \/ StopPort \/ StopResumes \/ Join

AdminBegins ==
  \/ Initialize \/ RegisterAtServer \/ StartAndRun \/ Stop \/ Deactivate \/ Shutdown
  \/ \E output \in BOOLEAN : AddPort(output)
  \/ \E i \in Slot : RemovePort(i)

Next == JavaNext \/ NativeNext \/ AdminContinues \/ AdminBegins

Spec == Init /\ [][Next]_vars

\* The workers' threads go on, the audio server calls nativeProcess again and
\* again while it is activated, and an operation that has begun is continued.
Fairness == WF_vars(JavaNext) /\ WF_vars(NativeNext) /\ WF_vars(AdminContinues)

FairSpec == Spec /\ Fairness

----------------------------------------------------------------------------

\* The variables have their types.
TypeOK ==
  /\ portList \in [Slot -> PortType]
  /\ hasItem \subseteq Slot
  /\ state \in {"created", "initialized", "registered", "running", "stopped", "unregistered",
                "deletable"}
  /\ lastCycle \in BOOLEAN /\ activated \in BOOLEAN
  /\ java \in [at : {"out", "wait", "loop", "walk", "blocked", "done"}, slot : Slot, last : BOOLEAN]
  /\ native \in [at : {"idle", "init", "process", "blocked"}, slot : Slot]
  /\ admin \in [at : {"idle", "awaitEnd", "stop", "stopWaits", "join", "removeWaits", "take"},
                slot : Slot, force : BOOLEAN]
  /\ supply \in 0 .. MaxNew

\* A new round never meets an unfinished one: by the time the process thread is
\* back, the end control is done, has terminated or is stopped.
NoXrun == activated /\ native.at = "idle" => ~Xrun

\* The start control keeps the two walks in step.  Once it has been stopped by
\* force, with the other ports still running, they may overtake one another.
InStep == Running(portList[Start])

\* The walks never bring a port into one of its "Cannot ..." errors, also when
\* ports come and go while the walks are under way.
NoIllegalStep ==
  [][\A i \in Slot : portList'[i].processException = "illegal"
       => portList[i].processException = "illegal" \/ ~InStep]_vars

\* The Java worker is blocked, in a port or before the first cycle, and cannot go on yet.
JavaStuck ==
  \/ java.at = "wait" /\ state = "running" /\ portList[Start].substate # "javaToExec"
  \/ /\ java.at = "blocked"
     /\ ~JavaGivesUp(portList[java.slot]) /\ ~JavaReady(portList[java.slot])

\* The process thread is blocked in a port and cannot go on yet.
NativeStuck ==
  /\ native.at = "blocked"
  /\ LET p == portList[native.slot] IN ~NativeRejects(p) /\ Running(p) /\ ~NativeReady(p)

\* "There is a danger of dead-lock here" (execNativeCycle), but the two walks never wait for
\* one another: while the Java worker cannot go on, the process thread can, with its round
\* or with a new one.
WalksGoOn ==
  InStep /\ JavaStuck =>
    IF native.at = "idle"
    THEN activated /\ Running(portList[End]) /\ portList[End].substate # "terminated" /\ ~Xrun
    ELSE ~NativeStuck

\* The ports end together: when the end control has terminated, every running
\* port has had its last callback too, but for one that was added too late to
\* take part in the last cycle.
EndsTogether ==
  InStep /\ portList[End].substate = "terminated" =>
    \A i \in hasItem : Running(portList[i]) => portList[i].substate \in {"terminated", "started"}

\* Port i still awaits its callback in this cycle.
AwaitsJava(i) ==
  /\ i \in hasItem /\ Running(portList[i])
  /\ \/ portList[i].substate = "javaToExec"
     \/ portList[i].substate = "nativeToExec" /\ ~portList[i].output

\* In this step the callback of port i is called, and returns.
Called(i) == AwaitsJava(i) /\ Running(portList[i])' /\ ~AwaitsJava(i)'

\* The contracts of onCycleStart, which is called before any port is processed,
\* and of onCycleEnd, which is called after all ports have been processed.
CycleIsBracketed ==
  [][\A i \in Slot : InStep /\ Called(i) =>
       /\ i # Start => ~AwaitsJava(Start)
       /\ i = End => \A j \in Slot \ {End} : ~AwaitsJava(j)]_vars

\* The array of a chain is a PortList: whatever the workers do meanwhile, ports
\* get and leave their slots as specified there.
KeepsPortList == List!Spec

Life == INSTANCE ChainLife WITH
  last <- lastCycle, worker <- java.at \notin {"out", "done"}

\* A chain keeps what its owner relies on (ChainLife): it goes through its states in
\* order, and the Java worker is in runJava until the last cycle is announced.
KeepsChainLife == Life!Spec

\* A slot as PortLife sees it: in an empty one there is a port still to come.
PortIn(i) == INSTANCE PortLife WITH
  output <- i \in hasItem /\ portList[i].output,
  state <- IF i \in hasItem THEN portList[i].state ELSE "created",
  substate <- IF i \in hasItem THEN portList[i].substate ELSE "none",
  lastCycle <- i \in hasItem /\ portList[i].lastCycle

\* The ports of a chain are what Port shows a port to be (PortLife), also while they are added,
\* removed and stopped in front of the walks and behind them.
KeepsPortLife ==
  /\ \A i \in Slot : PortIn(i)!Init
  /\ [][\A i \in Slot : [PortIn(i)!Next]_(PortIn(i)!vars)]_vars

\* The contract of portList: between the administrator's operations, every port
\* is in a state compatible with the chain's.
PortsFitChain ==
  Idle => \A i \in hasItem :
    portList[i].state \in
      CASE state \in {"created", "initialized"} -> {"initialized"}
        [] state = "registered" -> {"registered"}
        [] state = "running" -> {"running", "stoppedOnError"}
        [] state = "stopped" -> {"stopped"}
        [] state = "unregistered" -> {"unregistered"}
        [] state = "deletable" -> {"deletable"}

\* A blocked process thread goes on: neither walk waits for the other for ever,
\* although "there is a danger of dead-lock here" (execNativeCycle).
RoundEnds == native.at # "idle" ~> native.at = "idle"

\* Removing a port ends, without the help of a timeout.
RemoveReturns == admin.at \in {"removeWaits", "take"} ~> Idle

\* stop ends, and by then the Java worker has left the chain.
StopReturns == admin.at \in {"awaitEnd", "stop", "stopWaits", "join"} ~> Idle /\ java.at = "done"

\* The claim of the comment in stop_impl: if the workers work correctly, all
\* ports should transit into the terminated state; none has to be forced.
NobodyForced == \A i \in hasItem : portList[i].processException # "forced"

==============================================================================
