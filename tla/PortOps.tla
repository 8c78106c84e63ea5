------------------------------- MODULE PortOps -------------------------------
(***************************************************************************)
(* One Port of native/port.hpp as a value, and what each of its methods    *)
(* does to that value while it holds the port's stateMutex.  There are no  *)
(* variables here: Port lets threads interleave on a single port, and      *)
(* PortChain on an array of them, with these same operators.               *)
(***************************************************************************)

\* The main states of a port, in the order of the enumeration.
State == {"created", "initialized", "registered", "running", "stoppedOnError",
          "stopped", "unregistered", "deletable"}

\* The sub-states of "running"; "none" in every other main state.
RunningSubState == {"started", "javaToExec", "nativeToExec", "cycleDone",
                    "nativeToTerminate", "terminated", "none"}

\* What processException holds: nothing, an exception of the Java callback, of
\* the native access, of throwCannot in a worker thread, "Port did not
\* terminate.", a failed shutdown_impl, or a timed out lock.
Cause == {"nothing", "java", "native", "illegal", "forced", "teardown", "lock"}

PortType == [output : BOOLEAN, state : State, substate : RunningSubState,
             lastCycle : BOOLEAN, processException : Cause]

NewPort(isOutput) ==
  [output |-> isOutput, state |-> "created", substate |-> "none",
   lastCycle |-> FALSE, processException |-> "nothing"]

Running(p) == p.state = "running"

----------------------------------------------------------------------------
(* Failures.  Only the first exception is kept. *)

setProcessException(p, cause) ==
  IF p.processException = "nothing" THEN [p EXCEPT !.processException = cause] ELSE p

\* Mutant: the sub-state is left as it was.
MutEmergencyStop(p, cause) ==
  [setProcessException(p, cause) EXCEPT !.state = "stoppedOnError"]

emergencyStop(p, cause) ==
  [setProcessException(p, cause) EXCEPT !.state = "stoppedOnError", !.substate = "none"]

----------------------------------------------------------------------------
(* The cycle.  The native thread opens it, then the two workers take turns: *)
(* the Java thread first on an output port, the native one first on input.  *)

AcceptsInit(p) == p.substate \in {"cycleDone", "started"}

\* Mutant: the Java thread is first on every port.
MutExecNativeCycleInit(p) ==
  IF ~Running(p) \/ p.substate = "terminated" THEN p
  ELSE IF ~AcceptsInit(p) THEN emergencyStop(p, "illegal")
  ELSE [p EXCEPT !.substate = "javaToExec"]

execNativeCycleInit(p) ==
  IF ~Running(p) \/ p.substate = "terminated" THEN p
  ELSE IF ~AcceptsInit(p) THEN emergencyStop(p, "illegal")
  ELSE [p EXCEPT !.substate = IF p.output THEN "javaToExec" ELSE "nativeToExec"]

\* Mutant: a new cycle is not announced.
MutInitNotifies(p) == FALSE

\* Does execNativeCycleInit reach a notify_all, its own or emergencyStop's?
InitNotifies(p) == Running(p) /\ p.substate # "terminated"

\* Mutant: it also returns at once while the native side is at work.
MutJavaIgnores(p) == ~Running(p) \/ p.substate \notin {"javaToExec", "cycleDone"}

\* Mutant: a port that has been started too late for this cycle is waited for.
MutJavaIgnoresNot(p) == ~Running(p) \/ p.substate \in {"terminated", "nativeToTerminate"}

\* execJavaProcess returns at once.
JavaIgnores(p) == ~Running(p) \/ p.substate \in {"started", "terminated", "nativeToTerminate"}

\* execJavaProcess returns after having waited: "started" is not tested again.
JavaGivesUp(p) == ~Running(p) \/ p.substate \in {"terminated", "nativeToTerminate"}

JavaReady(p) == Running(p) /\ p.substate = "javaToExec"

\* execJavaProcess up to the callback, and from its normal return on.
JavaBegins(p, last) == [p EXCEPT !.lastCycle = @ \/ last]

\* Mutant: the last cycle is like any other.
MutJavaEnds(p) == [p EXCEPT !.substate = IF p.output THEN "nativeToExec" ELSE "cycleDone"]

JavaEnds(p) ==
  [p EXCEPT !.substate =
     IF p.lastCycle THEN (IF p.output THEN "nativeToTerminate" ELSE "terminated")
                    ELSE (IF p.output THEN "nativeToExec" ELSE "cycleDone")]

\* Mutant: a port that has been started too late for this cycle is not passed over.
MutNativeIgnores(p) == ~Running(p) \/ p.substate = "terminated"

\* execNativeProcess returns at once.
NativeIgnores(p) == ~Running(p) \/ p.substate \in {"started", "terminated"}

\* A native thread that wakes up to one of these throws.  The main state is
\* tested later.
NativeRejects(p) == p.substate \in {"terminated", "cycleDone", "started"}

\* Mutant: the native thread does not wait for the Java thread.
MutNativeReady(p) == Running(p)

NativeReady(p) == Running(p) /\ p.substate \in {"nativeToExec", "nativeToTerminate"}

\* An input port is never told to terminate by its native side.
NativeIllegal(p) == ~p.output /\ p.substate = "nativeToTerminate"

NativeEnds(p) ==
  [p EXCEPT !.substate =
     IF ~p.output THEN "javaToExec"
     ELSE IF p.substate = "nativeToTerminate" THEN "terminated" ELSE "cycleDone"]

----------------------------------------------------------------------------
(* Lifecycle, called by the administrating thread. *)

Initialized(p) == [p EXCEPT !.state = "initialized"]

Registered(p) == [p EXCEPT !.state = "registered"]

Started(p) == [p EXCEPT !.state = "running", !.substate = "started"]

RequestLast(p) == [p EXCEPT !.lastCycle = TRUE]

\* The waiting loop of stop and of shutdown is left.
HasEnded(p) == ~Running(p) \/ p.substate \in {"terminated", "none"}

\* Mutant: a port that did not terminate is stopped without a word.
MutStopEnds(p) == [p EXCEPT !.state = "stopped", !.substate = "none"]

\* The end of stop, after its waiting loop.
StopEnds(p) ==
  [(IF p.substate \in {"terminated", "none"} THEN p ELSE emergencyStop(p, "forced"))
     EXCEPT !.state = "stopped", !.substate = "none"]

\* stop on a port which an error has stopped already.
StopAfterError(p) == [p EXCEPT !.state = "stopped"]

Unregistered(p) == [p EXCEPT !.state = "unregistered"]

Uninitialized(p) == [p EXCEPT !.state = "deletable"]

\* The end of shutdown, once shutdown_impl has returned or its exception is
\* recorded.
Deletable(p) == [p EXCEPT !.state = "deletable", !.substate = "none"]

\* Mutant: a registered port that was never started is forgotten.
MutNeedsUnregister(p) == p.state \in {"running", "stoppedOnError", "stopped"}

\* The states in which shutdown_impl un-subscribes the port at the server, and
\* in which it un-initializes it.
NeedsUnregister(p) == p.state \in {"registered", "running", "stoppedOnError", "stopped"}

NeedsUninitialize(p) == NeedsUnregister(p) \/ p.state \in {"initialized", "unregistered"}

==============================================================================
