---------------------------- MODULE PortOpsProofs ----------------------------
(***************************************************************************)
(* Lemmas about the operators of PortOps: what each of them makes of a     *)
(* port, field by field, and which of them can bring a port to its end.    *)
(***************************************************************************)
EXTENDS PortOps, TLAPS

Fields(p, output, state, substate, lastCycle, exception) ==
  /\ p \in PortType
  /\ p.output = output
  /\ p.state = state
  /\ p.substate = substate
  /\ p.lastCycle = lastCycle
  /\ p.processException = exception

\* The exception that is kept when cause is reported.
FirstOf(p, cause) == IF p.processException = "nothing" THEN cause ELSE p.processException

\* A new port.
LEMMA NewPortFields ==
  ASSUME NEW o \in BOOLEAN PROVE Fields(NewPort(o), o, "created", "none", FALSE, "nothing")
  BY DEF Fields, NewPort, PortType, State, RunningSubState, Cause

\* Only processException can change, and only if it was empty.
LEMMA SetProcessExceptionFields ==
  ASSUME NEW p \in PortType, NEW c \in Cause
  PROVE  Fields(setProcessException(p, c), p.output, p.state, p.substate, p.lastCycle, FirstOf(p, c))
  BY DEF Fields, FirstOf, setProcessException, PortType, State, RunningSubState, Cause

\* emergencyStop leaves the direction, the last-cycle flag and an earlier exception alone.
LEMMA EmergencyStopFields ==
  ASSUME NEW p \in PortType, NEW c \in Cause
  PROVE  Fields(emergencyStop(p, c), p.output, "stoppedOnError", "none", p.lastCycle, FirstOf(p, c))
  BY DEF Fields, FirstOf, emergencyStop, setProcessException, PortType, State, RunningSubState,
     Cause

\* Before the callback only the last-cycle flag is touched.
LEMMA JavaBeginsFields ==
  ASSUME NEW p \in PortType, NEW last \in BOOLEAN
  PROVE  Fields(JavaBegins(p, last), p.output, p.state,
                p.substate,
                p.lastCycle \/ last, p.processException)
  BY DEF Fields, FirstOf, JavaBegins, PortType, State, RunningSubState, Cause

\* After the callback the turn passes on, or the session ends.
LEMMA JavaEndsFields ==
  ASSUME NEW p \in PortType
  PROVE  Fields(JavaEnds(p), p.output, p.state,
                IF p.lastCycle THEN (IF p.output THEN "nativeToTerminate" ELSE "terminated")
                ELSE (IF p.output THEN "nativeToExec" ELSE "cycleDone"),
                p.lastCycle, p.processException)
  BY DEF Fields, FirstOf, JavaEnds, PortType, State, RunningSubState, Cause

\* After the native access the turn passes on, or the cycle or the session ends.
LEMMA NativeEndsFields ==
  ASSUME NEW p \in PortType
  PROVE  Fields(NativeEnds(p), p.output, p.state,
                IF ~p.output THEN "javaToExec"
                ELSE IF p.substate = "nativeToTerminate" THEN "terminated" ELSE "cycleDone",
                p.lastCycle, p.processException)
  BY DEF Fields, FirstOf, NativeEnds, PortType, State, RunningSubState, Cause

\* A cycle that may be opened gives the turn to the right worker.
LEMMA ExecNativeCycleInitFields ==
  ASSUME NEW p \in PortType, Running(p), AcceptsInit(p)
  PROVE  Fields(execNativeCycleInit(p), p.output, p.state,
                IF p.output THEN "javaToExec" ELSE "nativeToExec",
                p.lastCycle, p.processException)
  BY DEF Fields, FirstOf, execNativeCycleInit, AcceptsInit, Running, PortType, State,
     RunningSubState, Cause

\* initialize sets the main state only.
LEMMA InitializedFields ==
  ASSUME NEW p \in PortType
  PROVE  Fields(Initialized(p), p.output, "initialized",
                p.substate,
                p.lastCycle, p.processException)
  BY DEF Fields, FirstOf, Initialized, PortType, State, RunningSubState, Cause

\* registerAtServer sets the main state only.
LEMMA RegisteredFields ==
  ASSUME NEW p \in PortType
  PROVE  Fields(Registered(p), p.output, "registered", p.substate, p.lastCycle, p.processException)
  BY DEF Fields, FirstOf, Registered, PortType, State, RunningSubState, Cause

\* start enters the sub-state started.
LEMMA StartedFields ==
  ASSUME NEW p \in PortType
  PROVE  Fields(Started(p), p.output, "running", "started", p.lastCycle, p.processException)
  BY DEF Fields, FirstOf, Started, PortType, State, RunningSubState, Cause

\* stop and shutdown first announce the last cycle.
LEMMA RequestLastFields ==
  ASSUME NEW p \in PortType
  PROVE  Fields(RequestLast(p), p.output, p.state, p.substate, TRUE, p.processException)
  BY DEF Fields, FirstOf, RequestLast, PortType, State, RunningSubState, Cause

\* stop ends in stopped; it records an exception if the port did not terminate.
LEMMA StopEndsFields ==
  ASSUME NEW p \in PortType
  PROVE  Fields(StopEnds(p), p.output, "stopped",
                "none",
                p.lastCycle, IF p.substate \in {"terminated", "none"}
                THEN p.processException ELSE FirstOf(p, "forced"))
  BY DEF Fields, FirstOf, StopEnds, emergencyStop, setProcessException, PortType, State,
     RunningSubState, Cause

\* stop on a failed port sets the main state only.
LEMMA StopAfterErrorFields ==
  ASSUME NEW p \in PortType
  PROVE  Fields(StopAfterError(p), p.output, "stopped", p.substate, p.lastCycle, p.processException)
  BY DEF Fields, FirstOf, StopAfterError, PortType, State, RunningSubState, Cause

\* unregisterAtServer sets the main state only.
LEMMA UnregisteredFields ==
  ASSUME NEW p \in PortType
  PROVE  Fields(Unregistered(p), p.output, "unregistered",
                p.substate,
                p.lastCycle, p.processException)
  BY DEF Fields, FirstOf, Unregistered, PortType, State, RunningSubState, Cause

\* uninitialize sets the main state only.
LEMMA UninitializedFields ==
  ASSUME NEW p \in PortType
  PROVE  Fields(Uninitialized(p), p.output, "deletable",
                p.substate,
                p.lastCycle, p.processException)
  BY DEF Fields, FirstOf, Uninitialized, PortType, State, RunningSubState, Cause

\* shutdown ends in deletable.
LEMMA DeletableFields ==
  ASSUME NEW p \in PortType
  PROVE  Fields(Deletable(p), p.output, "deletable", "none", p.lastCycle, p.processException)
  BY DEF Fields, FirstOf, Deletable, PortType, State, RunningSubState, Cause

----------------------------------------------------------------------------

\* An input port that has been told nothing of a last cycle, and has not had one.
Quiet(p) == p.output \/ (~p.lastCycle /\ p.substate # "terminated")

\* What an operator makes of a port that is still quiet, unless it announces the end.
Keeps(p, q, last) == q \in PortType /\ q.output = p.output /\ (Quiet(p) /\ ~last => Quiet(q))

\* What does nothing keeps the port.
LEMMA KeepsSelf == ASSUME NEW p \in PortType, NEW last PROVE Keeps(p, p, last)
  BY DEF Keeps

\* Two operators, one after the other.
LEMMA KeepsTwice ==
  ASSUME NEW p \in PortType, NEW q, NEW r, NEW last \in BOOLEAN, Keeps(p, q, last), Keeps(q, r, FALSE)
  PROVE  Keeps(p, r, last)
  BY DEF Keeps

\* The first step of a round, whatever the port's state is.
LEMMA ExecNativeCycleInitKeeps ==
  ASSUME NEW p \in PortType PROVE Keeps(p, execNativeCycleInit(p), FALSE)
  <1>1. CASE ~Running(p) \/ p.substate = "terminated"
    BY <1>1, KeepsSelf DEF execNativeCycleInit
  <1>2. CASE Running(p) /\ p.substate # "terminated" /\ ~AcceptsInit(p)
    BY <1>2, EmergencyStopFields DEF execNativeCycleInit, Keeps, Quiet, Fields, Cause
  <1>3. CASE Running(p) /\ p.substate # "terminated" /\ AcceptsInit(p)
    BY <1>3, ExecNativeCycleInitFields DEF Keeps, Quiet, Fields
  <1> QED
    BY <1>1, <1>2, <1>3

\* An error ends a port without terminating it.
LEMMA EmergencyStopKeeps ==
  ASSUME NEW p \in PortType, NEW c \in Cause PROVE Keeps(p, emergencyStop(p, c), FALSE)
  BY EmergencyStopFields DEF Keeps, Quiet, Fields

\* The Java side of an input port terminates only if the cycle is the last one.
LEMMA JavaKeeps ==
  ASSUME NEW p \in PortType, NEW last \in BOOLEAN
  PROVE  /\ Keeps(p, JavaEnds(JavaBegins(p, last)), last)
         /\ \A c \in Cause : Keeps(p, emergencyStop(JavaBegins(p, last), c), last)
  <1> DEFINE b == JavaBegins(p, last)
  <1>1. Fields(b, p.output, p.state, p.substate, p.lastCycle \/ last, p.processException)
    BY JavaBeginsFields
  <1>2. b \in PortType /\ b.output = p.output /\ (~last /\ ~p.lastCycle => ~b.lastCycle)
    BY <1>1 DEF Fields
  <1> HIDE DEF b
  <1>3. Keeps(p, JavaEnds(b), last)
    BY <1>2, JavaEndsFields DEF Keeps, Quiet, Fields
  <1>4. ASSUME NEW c \in Cause PROVE Keeps(p, emergencyStop(b, c), last)
    BY <1>2, EmergencyStopFields DEF Keeps, Quiet, Fields
  <1> QED
    BY <1>3, <1>4 DEF b

\* The native side never terminates an input port.
LEMMA NativeEndsKeeps == ASSUME NEW p \in PortType PROVE Keeps(p, NativeEnds(p), FALSE)
  BY NativeEndsFields DEF Keeps, Quiet, Fields

\* No step of the administrator terminates a port; stop and shutdown announce the end.
LEMMA LifecycleKeeps ==
  ASSUME NEW p \in PortType
  PROVE  /\ Keeps(p, Initialized(p), FALSE) /\ Keeps(p, Registered(p), FALSE)
         /\ Keeps(p, Started(p), FALSE) /\ Keeps(p, StopAfterError(p), FALSE)
         /\ Keeps(p, Unregistered(p), FALSE) /\ Keeps(p, Uninitialized(p), FALSE)
         /\ Keeps(p, Deletable(p), FALSE) /\ Keeps(p, StopEnds(p), FALSE)
         /\ Keeps(p, RequestLast(p), TRUE)
  <1>1. Keeps(p, Initialized(p), FALSE)
    BY InitializedFields DEF Keeps, Quiet, Fields
  <1>2. Keeps(p, Registered(p), FALSE)
    BY RegisteredFields DEF Keeps, Quiet, Fields
  <1>3. Keeps(p, Started(p), FALSE)
    BY StartedFields DEF Keeps, Quiet, Fields
  <1>4. Keeps(p, StopAfterError(p), FALSE)
    BY StopAfterErrorFields DEF Keeps, Quiet, Fields
  <1>5. Keeps(p, Unregistered(p), FALSE)
    BY UnregisteredFields DEF Keeps, Quiet, Fields
  <1>6. Keeps(p, Uninitialized(p), FALSE)
    BY UninitializedFields DEF Keeps, Quiet, Fields
  <1>7. Keeps(p, Deletable(p), FALSE)
    BY DeletableFields DEF Keeps, Quiet, Fields
  <1>8. Keeps(p, StopEnds(p), FALSE)
    BY StopEndsFields DEF Keeps, Quiet, Fields
  <1>9. Keeps(p, RequestLast(p), TRUE)
    BY RequestLastFields DEF Keeps, Fields
  <1> QED
    BY <1>1, <1>2, <1>3, <1>4, <1>5, <1>6, <1>7, <1>8, <1>9

\* What does not start a port, and leaves it in its sub-state as long as it runs.
Calm(p, q) == q.output = p.output /\ (Running(q) => Running(p) /\ q.substate = p.substate)

\* No step of the administrator but start disturbs a port before it has ended it.
LEMMA LifecycleCalm ==
  ASSUME NEW p \in PortType
  PROVE  /\ Calm(p, Initialized(p)) /\ Calm(p, Registered(p)) /\ Calm(p, RequestLast(p))
         /\ Calm(p, StopAfterError(p)) /\ Calm(p, StopEnds(p)) /\ Calm(p, Unregistered(p))
         /\ Calm(p, Uninitialized(p)) /\ Calm(p, Deletable(p))
         /\ \A c \in Cause : Calm(p, emergencyStop(p, c))
  <1>1. Calm(p, Initialized(p)) /\ Calm(p, Registered(p))
    BY InitializedFields, RegisteredFields DEF Calm, Fields, Running
  <1>2. Calm(p, RequestLast(p)) /\ Calm(p, StopAfterError(p))
    BY RequestLastFields, StopAfterErrorFields DEF Calm, Fields, Running
  <1>3. Calm(p, StopEnds(p)) /\ Calm(p, Deletable(p))
    BY StopEndsFields, DeletableFields DEF Calm, Fields, Running
  <1>4. Calm(p, Unregistered(p)) /\ Calm(p, Uninitialized(p))
    BY UnregisteredFields, UninitializedFields DEF Calm, Fields, Running
  <1>5. \A c \in Cause : Calm(p, emergencyStop(p, c))
    BY EmergencyStopFields DEF Calm, Fields, Running
  <1> QED
    BY <1>1, <1>2, <1>3, <1>4, <1>5

\* Two operators, one after the other.
LEMMA CalmTwice == ASSUME NEW p, NEW q, NEW r, Calm(p, q), Calm(q, r) PROVE Calm(p, r)
  BY DEF Calm

\* Neither worker starts a port.
LEMMA WorkersStartNothing ==
  ASSUME NEW p \in PortType, NEW last \in BOOLEAN
  PROVE  /\ Running(execNativeCycleInit(p)) => Running(p)
         /\ Running(NativeEnds(p)) => Running(p)
         /\ Running(JavaEnds(JavaBegins(p, last))) => Running(p)
         /\ \A c \in Cause : ~Running(emergencyStop(p, c)) /\ ~Running(emergencyStop(JavaBegins(p, last), c))
  <1>1. Running(execNativeCycleInit(p)) => Running(p)
    BY DEF execNativeCycleInit
  <1>2. Running(NativeEnds(p)) => Running(p)
    BY NativeEndsFields DEF Fields, Running
  <1>3. JavaBegins(p, last) \in PortType /\ JavaBegins(p, last).state = p.state
    BY JavaBeginsFields DEF Fields
  <1>4. Running(JavaEnds(JavaBegins(p, last))) => Running(p)
    BY <1>3, JavaEndsFields DEF Fields, Running
  <1>5. \A c \in Cause : ~Running(emergencyStop(p, c)) /\ ~Running(emergencyStop(JavaBegins(p, last), c))
    BY <1>3, EmergencyStopFields DEF Fields, Running
  <1> QED
    BY <1>1, <1>2, <1>4, <1>5
==============================================================================
