-------------------------------- MODULE Port --------------------------------
(***************************************************************************)
(* One MIDI port (native/port.hpp) shared by three threads: the Java       *)
(* worker, which runs the listener's process callback; the native worker,  *)
(* which opens each cycle and reads or writes the audio system's buffer;   *)
(* and the administrating thread, which drives the port through its        *)
(* lifecycle.  Every access to the port is under its stateMutex; threads   *)
(* wait for one another on the condition onStateChanged.                   *)
(*                                                                         *)
(* An action is what a thread does between acquiring the mutex and either  *)
(* releasing it or waiting on the condition.  Only the process callback,   *)
(* which may last, is two actions: its thread owns the mutex in between.   *)
(* A call that returns or throws at once without changing the port is a    *)
(* stuttering step and has no action.                                      *)
(***************************************************************************)
EXTENDS PortOps, Integers

CONSTANTS
  Prompt,       \* no timed wait expires before the workers have done their part
  LockTimeouts  \* acquiring the mutex may fail: a callback outlasts waitLimit

ASSUME PortAssumption == Prompt \in BOOLEAN /\ LockTimeouts \in BOOLEAN

VARIABLES
  port,        \* the port's fields
  owner,       \* the thread that holds stateMutex while it is in a callback
  sleepers,    \* the threads waiting on onStateChanged
  pc,          \* where each thread is
  force,       \* the administrator's variable "force" in stop and shutdown
  more,        \* whether the Java worker's owner still wants another cycle
  arg,         \* the argument _lastCycle of the execJavaProcess under way
  listener,    \* the Java listener: what initialize_impl and uninitialize_impl did
  handle,      \* is the port registered at the audio server?
  lead,        \* history: calls of execNativeProcess_impl less those of execJavaProcess_impl
  sawLast      \* history: the callback was called with lastCycle set

vars == <<port, owner, sleepers, pc, force, more, arg, listener, handle, lead, sawLast>>

Thread == {"java", "native", "admin"}

NoThread == "nobody"

\* A waiting thread is at "asleep..." whether or not it has been notified;
\* it is among the sleepers until it is.
Location == {"idle", "asleep", "callback", "init", "process", "await", "asleepAwait",
             "asleepStop", "asleepShutdown", "lockTimedOut"}

Goto(t, l) == pc' = [pc EXCEPT ![t] = l]

Free == owner = NoThread

\* notify_all: every waiting thread will try to re-acquire the mutex.
Notify == sleepers' = {}

\* Thread t waits, at location l.
Sleep(t, l) == sleepers' = sleepers \cup {t} /\ Goto(t, l)

\* Thread t has been woken and can have the mutex.
Awake(t, l) == pc[t] = l /\ t \notin sleepers /\ Free

----------------------------------------------------------------------------
(* The Java worker: PortChain::runJava calls execJavaProcess again and again; *)
(* the flag it passes becomes, and remains, true once the last cycle is due.  *)

JavaEnters(last) ==
  /\ port' = JavaBegins(port, last)
  /\ owner' = "java"
  /\ Goto("java", "callback")
  /\ lead' = lead - 1
  /\ sawLast' = (sawLast \/ port'.lastCycle)
  /\ UNCHANGED <<sleepers, force, more, listener, handle>>

JavaSleeps ==
  /\ Sleep("java", "asleep")
  /\ UNCHANGED <<port, owner, force, more, listener, handle, lead, sawLast>>

\* execJavaProcess(env, ~more), up to its wait or to the callback.
JavaCall ==
  /\ pc["java"] = "idle" /\ Free
  /\ ~JavaIgnores(port)
  /\ arg' = ~more
  /\ IF JavaReady(port) THEN JavaEnters(~more) ELSE JavaSleeps

\* Mutant: "if" instead of "while" around the wait.
MutJavaWakes ==
  /\ Awake("java", "asleep")
  /\ UNCHANGED arg
  /\ JavaEnters(arg)

JavaWakes ==
  /\ Awake("java", "asleep")
  /\ UNCHANGED arg
  /\ \/ /\ JavaGivesUp(port)
        /\ Goto("java", "idle")
        /\ UNCHANGED <<port, owner, sleepers, force, more, listener, handle, lead, sawLast>>
     \/ ~JavaGivesUp(port) /\ JavaReady(port) /\ JavaEnters(arg)
     \/ ~JavaGivesUp(port) /\ ~JavaReady(port) /\ JavaSleeps

\* Mutant: notify_all is missing at the end of execJavaProcess.
MutJavaReturns ==
  /\ owner = "java"
  /\ port' \in {JavaEnds(port), emergencyStop(port, "java")}
  /\ owner' = NoThread
  /\ Goto("java", "idle")
  /\ UNCHANGED <<sleepers, force, more, arg, listener, handle, lead, sawLast>>

\* The callback returns, or throws.
JavaReturns ==
  /\ owner = "java"
  /\ port' \in {JavaEnds(port), emergencyStop(port, "java")}
  /\ owner' = NoThread
  /\ Notify
  /\ Goto("java", "idle")
  /\ UNCHANGED <<force, more, arg, listener, handle, lead, sawLast>>

\* The last cycle is requested of the Java worker: PortChain::lastCycle is set.
WantLast ==
  /\ more
  /\ more' = FALSE
  /\ UNCHANGED <<port, owner, sleepers, pc, force, arg, listener, handle, lead, sawLast>>

----------------------------------------------------------------------------
(* The native worker: while the port is running it opens a cycle, does its    *)
(* part of it and waits until the cycle is done.                              *)

NativeLoop ==
  /\ pc["native"] = "idle" /\ Free
  /\ Running(port)
  /\ Goto("native", "init")
  /\ UNCHANGED <<port, owner, sleepers, force, more, arg, listener, handle, lead, sawLast>>

NativeInit ==
  /\ pc["native"] = "init" /\ Free
  /\ port' = execNativeCycleInit(port)
  /\ IF InitNotifies(port) THEN Notify ELSE UNCHANGED sleepers
  /\ Goto("native", "process")
  /\ UNCHANGED <<owner, force, more, arg, listener, handle, lead, sawLast>>

\* execNativeProcess_impl, which may throw.
NativeRuns ==
  /\ port' \in {NativeEnds(port), emergencyStop(port, "native")}
  /\ lead' = lead + 1

\* What a native worker that holds the mutex does, unless it returns at once:
\* throw, do its work or wait (again).
NativeProceeds ==
  \/ /\ NativeReady(port)
     /\ IF NativeIllegal(port)
        THEN port' = emergencyStop(port, "illegal") /\ UNCHANGED lead
        ELSE NativeRuns
     /\ Notify
     /\ Goto("native", "await")
  \/ /\ ~NativeReady(port)
     /\ Sleep("native", "asleep")
     /\ UNCHANGED <<port, lead>>

NativeReturns == Goto("native", "await") /\ UNCHANGED <<port, sleepers, lead>>

NativeCall ==
  /\ pc["native"] = "process" /\ Free
  /\ IF NativeIgnores(port) THEN NativeReturns ELSE NativeProceeds
  /\ UNCHANGED <<owner, force, more, arg, listener, handle, sawLast>>

NativeWakes ==
  /\ Awake("native", "asleep")
  /\ \/ /\ NativeRejects(port)
        /\ port' = emergencyStop(port, "illegal")
        /\ Notify
        /\ Goto("native", "await")
        /\ UNCHANGED lead
     \/ ~NativeRejects(port) /\ ~Running(port) /\ NativeReturns
     \/ ~NativeRejects(port) /\ Running(port) /\ NativeProceeds
  /\ UNCHANGED <<owner, force, more, arg, listener, handle, sawLast>>

\* waitForCycleDone.
CycleIsOver == ~Running(port) \/ port.substate \in {"cycleDone", "terminated"}

\* Mutant: the next cycle is opened without waiting for the end of this one.
MutNativeAwaits ==
  /\ pc["native"] = "await" /\ Free
  /\ Goto("native", "idle")
  /\ UNCHANGED <<port, owner, sleepers, force, more, arg, listener, handle, lead, sawLast>>

NativeAwaits ==
  /\ (pc["native"] = "await" /\ Free) \/ Awake("native", "asleepAwait")
  /\ IF CycleIsOver
     THEN Goto("native", "idle") /\ UNCHANGED sleepers
     ELSE Sleep("native", "asleepAwait")
  /\ UNCHANGED <<port, owner, force, more, arg, listener, handle, lead, sawLast>>

\* A callback holds the mutex for longer than waitLimit: execNativeProcess
\* throws, and its handler stops the port without owning the mutex.
NativeLockTimeout ==
  /\ LockTimeouts
  /\ pc["native"] = "process" /\ ~Free
  /\ Goto("native", "lockTimedOut")
  /\ UNCHANGED <<port, owner, sleepers, force, more, arg, listener, handle, lead, sawLast>>

NativeStopsUnlocked ==
  /\ pc["native"] = "lockTimedOut"
  /\ port' = emergencyStop(port, "lock")
  /\ Notify
  /\ Goto("native", "await")
  /\ UNCHANGED <<owner, force, more, arg, listener, handle, lead, sawLast>>

----------------------------------------------------------------------------
(* The administrator.  PortChain makes these calls one after the other, under *)
(* its own mutex; a call in any other state throws and changes nothing.       *)

AdminCalls == pc["admin"] = "idle" /\ Free

\* onOpen may throw; the listener stays pinned and the port is given up.
Initialize ==
  /\ AdminCalls
  /\ port.state = "created" /\ listener = "absent"
  /\ \/ port' = Initialized(port) /\ listener' = "open" /\ Notify
     \/ listener' = "pinned" /\ UNCHANGED <<port, sleepers>>
  /\ UNCHANGED <<owner, pc, force, more, arg, handle, lead, sawLast>>

RegisterAtServer ==
  /\ AdminCalls
  /\ port.state = "initialized"
  /\ port' = Registered(port)
  /\ handle' = TRUE
  /\ Notify
  /\ UNCHANGED <<owner, pc, force, more, arg, listener, lead, sawLast>>

Start ==
  /\ AdminCalls
  /\ port.state = "registered"
  /\ port' = Started(port)
  /\ Notify
  /\ UNCHANGED <<owner, pc, force, more, arg, listener, handle, lead, sawLast>>

\* Mutant: stop does not wake the workers.
MutStopFinishes(p) ==
  /\ port' = StopEnds(p)
  /\ Goto("admin", "idle")
  /\ UNCHANGED <<owner, sleepers, more, arg, listener, handle, lead, sawLast>>

\* The end of stop.
StopFinishes(p) ==
  /\ port' = StopEnds(p)
  /\ Notify
  /\ Goto("admin", "idle")
  /\ UNCHANGED <<owner, more, arg, listener, handle, lead, sawLast>>

Stop(forced) ==
  /\ AdminCalls
  /\ force' = forced
  /\ \/ /\ port.state = "stoppedOnError"
        /\ port' = StopAfterError(port)
        /\ Notify
        /\ UNCHANGED <<owner, pc, more, arg, listener, handle, lead, sawLast>>
     \/ /\ port.state \in {"running", "registered"}
        /\ forced \/ HasEnded(port)
        /\ StopFinishes(RequestLast(port))
     \/ /\ port.state \in {"running", "registered"}
        /\ ~forced /\ ~HasEnded(port)
        /\ port' = RequestLast(port)
        /\ Sleep("admin", "asleepStop")
        /\ UNCHANGED <<owner, more, arg, listener, handle, lead, sawLast>>

StopWakes ==
  /\ Awake("admin", "asleepStop")
  /\ UNCHANGED force
  /\ \/ (force \/ HasEnded(port)) /\ StopFinishes(port)
     \/ /\ ~force /\ ~HasEnded(port)
        /\ Sleep("admin", "asleepStop")
        /\ UNCHANGED <<port, owner, more, arg, listener, handle, lead, sawLast>>

UnregisterAtServer ==
  /\ AdminCalls
  /\ port.state \in {"stopped", "registered"}
  /\ port' = Unregistered(port)
  /\ handle' = FALSE
  /\ Notify
  /\ UNCHANGED <<owner, pc, force, more, arg, listener, lead, sawLast>>

Uninitialize ==
  /\ AdminCalls
  /\ port.state \in {"unregistered", "initialized"}
  /\ port' = Uninitialized(port)
  /\ listener' = "closed"
  /\ Notify
  /\ UNCHANGED <<owner, pc, force, more, arg, handle, lead, sawLast>>

\* The end of shutdown: shutdown_impl, of which un-registering may throw; then
\* onClose is not called.
ShutdownFinishes(p) ==
  /\ \/ /\ port' = Deletable(p)
        /\ handle' = (handle /\ ~NeedsUnregister(p))
        /\ listener' = IF NeedsUninitialize(p) THEN "closed" ELSE listener
     \/ /\ NeedsUnregister(p)
        /\ port' = Deletable(setProcessException(p, "teardown"))
        /\ UNCHANGED <<handle, listener>>
  /\ Notify
  /\ Goto("admin", "idle")
  /\ UNCHANGED <<owner, more, arg, lead, sawLast>>

Shutdown(forced) ==
  /\ AdminCalls
  /\ force' = forced
  /\ \/ (forced \/ HasEnded(port)) /\ ShutdownFinishes(RequestLast(port))
     \/ /\ ~forced /\ ~HasEnded(port)
        /\ port' = RequestLast(port)
        /\ Sleep("admin", "asleepShutdown")
        /\ UNCHANGED <<owner, more, arg, listener, handle, lead, sawLast>>

ShutdownWakes ==
  /\ Awake("admin", "asleepShutdown")
  /\ UNCHANGED force
  /\ \/ (force \/ HasEnded(port)) /\ ShutdownFinishes(port)
     \/ /\ ~force /\ ~HasEnded(port)
        /\ Sleep("admin", "asleepShutdown")
        /\ UNCHANGED <<port, owner, more, arg, listener, handle, lead, sawLast>>

\* wait_for expires after maxWaitingTime.
StopTimeout ==
  /\ ~Prompt
  /\ "admin" \in sleepers
  /\ force' = TRUE
  /\ sleepers' = sleepers \ {"admin"}
  /\ UNCHANGED <<port, owner, pc, more, arg, listener, handle, lead, sawLast>>

----------------------------------------------------------------------------

\* Waiting on a condition variable may end without a notification.
SpuriousWakeup(t) ==
  /\ t \in sleepers
  /\ sleepers' = sleepers \ {t}
  /\ UNCHANGED <<port, owner, pc, force, more, arg, listener, handle, lead, sawLast>>

\* The port's life is over and no call is under way.
Finished ==
  /\ port.state = "deletable"
  /\ \A t \in Thread : pc[t] = "idle"
  /\ UNCHANGED vars

Init ==
  /\ port \in {NewPort(o) : o \in BOOLEAN}
  /\ owner = NoThread
  /\ sleepers = {}
  /\ pc = [t \in Thread |-> "idle"]
  /\ force = FALSE
  /\ more = TRUE
  /\ arg = FALSE
  /\ listener = "absent"
  /\ handle = FALSE
  /\ lead = 0
  /\ sawLast = FALSE

JavaNext == JavaCall \/ JavaWakes \/ JavaReturns

NativeNext ==
  \/ NativeLoop \/ NativeInit \/ NativeCall \/ NativeWakes \/ NativeAwaits
  \/ NativeLockTimeout \/ NativeStopsUnlocked

AdminNext ==
  \/ Initialize \/ RegisterAtServer \/ Start \/ UnregisterAtServer \/ Uninitialize
  \/ \E forced \in BOOLEAN : Stop(forced) \/ Shutdown(forced)
  \/ StopWakes \/ ShutdownWakes \/ StopTimeout

Next ==
  \/ JavaNext \/ NativeNext \/ AdminNext \/ WantLast \/ Finished
  \/ \E t \in Thread : SpuriousWakeup(t)

Spec == Init /\ [][Next]_vars

\* Both workers keep running and a callback returns: the workers are threads
\* with loops of their own, and a waiting thread that is notified gets the
\* mutex.  Nobody has to call the administrator's operations, but one that has
\* begun goes on.
Fairness ==
  /\ WF_vars(JavaNext)
  /\ WF_vars(NativeNext)
  /\ WF_vars(StopWakes \/ ShutdownWakes)

FairSpec == Spec /\ Fairness

----------------------------------------------------------------------------
(* What the port promises. *)

\* The sub-state is "none" exactly when the main state is not "running" (comment
\* on the enumerator none), so that waiting threads need not look at both.
SubstateFitsState == port.substate # "none" <=> Running(port)

\* The variables have their types, and state and sub-state go together.
TypeOK ==
  /\ SubstateFitsState
  /\ port \in PortType
  /\ owner \in {"java", NoThread}
  /\ sleepers \subseteq Thread
  /\ pc \in [Thread -> Location]
  /\ force \in BOOLEAN /\ more \in BOOLEAN /\ arg \in BOOLEAN
  /\ listener \in {"absent", "pinned", "open", "closed"}
  /\ handle \in BOOLEAN
  /\ lead \in Int
  /\ sawLast \in BOOLEAN

\* The two workers alternate (portTest.cpp: "the two processes must flip
\* processing. The number of invocations shall not differ by more than one"),
\* the right one is first, and a cycle that is over has had both of them.
FlipFlop ==
  /\ port.output => lead \in {-1, 0}
  /\ ~port.output => lead \in {0, 1}
  /\ port.substate \in {"started", "cycleDone", "terminated"} => lead = 0

\* No thread sleeps through the event it waits for: whatever sequence of calls,
\* failures and wakeups has happened, a thread that is still waiting on
\* onStateChanged has a condition to wait for.
NoLostWakeup ==
  /\ "java" \in sleepers => ~JavaGivesUp(port) /\ ~JavaReady(port)
  /\ "native" \in sleepers =>
       \/ pc["native"] = "asleep" /\ Running(port) /\ port.substate = "javaToExec" /\ port.output
       \/ pc["native"] = "asleepAwait" /\ ~CycleIsOver
  /\ "admin" \in sleepers => ~HasEnded(port)

\* The workers, used as above, never run into one of the port's "Cannot ..."
\* errors: a port fails only by the listener, the audio system or a timeout.
NoIllegalStep == port.processException # "illegal"

\* stop keeps its word: a running port that becomes "stopped" without an
\* exception has had a callback with lastCycle set, and both sides have finished
\* that cycle.  (shutdown makes no such promise: it hides its timeout.)
StopIsClean ==
  [][port.state = "running" /\ port'.state = "stopped" /\ port'.processException = "nothing"
       => sawLast /\ lead = 0]_vars

\* The listener's process callback runs only between the return of onOpen and
\* the call of onClose, on a port in running state (contract of
\* execJavaProcess_impl, port.hpp).
CallbackContract ==
  owner = "java" => listener = "open" /\ handle /\ port.state = "running"

\* When a port may be deleted without an exception to report, its listener has
\* been closed and its registration at the audio server is gone.
NothingLeaks ==
  port.state = "deletable" /\ port.processException = "nothing"
    => listener # "open" /\ ~handle

\* lastCycle announces the last callback: none follows it.
LastIsLast == [][owner # "java" /\ owner' = "java" => ~sawLast]_vars

\* A cycle that the native thread has opened is completed, or the port stops.
CycleCompletes ==
  port.substate \in {"javaToExec", "nativeToExec", "nativeToTerminate"}
    ~> ~Running(port) \/ port.substate \in {"cycleDone", "terminated"}

\* stop and shutdown return, without the help of their timeouts: the workers do
\* reach the terminated sub-state once they are asked to.
StopReturns == pc["admin"] # "idle" ~> pc["admin"] = "idle"

\* Whatever ends a port, its workers do not stay blocked in it.
WorkersReleased == ~Running(port) ~> pc["java"] = "idle" /\ pc["native"] = "idle"

Life == INSTANCE PortLife WITH
  output <- port.output, state <- port.state,
  substate <- port.substate, lastCycle <- port.lastCycle

\* With all its waiting, waking up and callbacks that last, a port keeps what a chain relies
\* on (PortLife): turns are taken one at a time, in their order, and are never torn apart.
KeepsPortLife == Life!Spec

----------------------------------------------------------------------------
(* The inductive invariant behind these properties when no lock times out. *)

\* The callback holds the mutex, and only waiting threads are sleepers.
ControlInv ==
  /\ pc["java"] \in {"idle", "asleep", "callback"}
  /\ pc["native"] \in {"idle", "init", "process", "asleep", "await", "asleepAwait"}
  /\ pc["admin"] \in {"idle", "asleepStop", "asleepShutdown"}
  /\ owner = "java" <=> pc["java"] = "callback"
  /\ "java" \in sleepers => pc["java"] = "asleep"
  /\ "native" \in sleepers => pc["native"] \in {"asleep", "asleepAwait"}
  /\ "admin" \in sleepers => pc["admin"] \in {"asleepStop", "asleepShutdown"}

\* Threads are busy in a port only once it has been started, and it is started
\* once; a port that somebody is stopping is running or has failed meanwhile.
AfterStart ==
  /\ pc["java"] # "idle" \/ pc["native"] # "idle" =>
       port.state \notin {"created", "initialized", "registered"}
  /\ port.state \in {"created", "initialized", "registered"} => lead = 0 /\ ~sawLast
  /\ pc["admin"] # "idle" => port.state \in {"running", "stoppedOnError"}

\* Whose turn it is, in terms of the calls made so far.
TurnInv ==
  /\ port.output => lead \in {-1, 0}
  /\ ~port.output => lead \in {0, 1} /\ port.substate # "nativeToTerminate"
  /\ owner = "java" => port.substate = "javaToExec"
  /\ Running(port) /\ port.output =>
       (lead = -1 <=> owner = "java" \/ port.substate \in {"nativeToExec", "nativeToTerminate"})
  /\ Running(port) /\ ~port.output =>
       (lead = 1 <=> owner # "java" /\ port.substate = "javaToExec")

\* What the native worker may find where it is.
NativeInv ==
  /\ port.processException # "illegal"
  /\ Running(port) =>
       CASE pc["native"] \in {"idle", "init"} ->
              port.substate \in {"started", "cycleDone", "terminated"}
         [] pc["native"] = "process" ->
              port.substate \in IF port.output
                                THEN {"javaToExec", "nativeToExec", "nativeToTerminate", "terminated"}
                                ELSE {"nativeToExec", "terminated"}
         [] pc["native"] = "asleep" ->
              port.output /\ port.substate \in {"javaToExec", "nativeToExec", "nativeToTerminate"}
         [] pc["native"] \in {"await", "asleepAwait"} ->
              port.substate \in IF port.output THEN {"cycleDone", "terminated"}
                                ELSE {"javaToExec", "cycleDone", "terminated"}

\* The last cycle, once announced, is carried through.
LastInv ==
  Running(port) =>
    /\ sawLast => owner = "java" \/ port.substate \in {"nativeToTerminate", "terminated"}
    /\ port.substate \in {"nativeToTerminate", "terminated"} => sawLast
    /\ owner = "java" => (sawLast <=> port.lastCycle)

\* The listener and the registration in each main state.
ResourceInv ==
  /\ handle => \/ NeedsUnregister(port)
               \/ port.state = "deletable" /\ port.processException # "nothing"
  /\ port.state \in {"registered", "running"} => handle
  /\ listener = "open" => \/ NeedsUninitialize(port)
                          \/ port.state = "deletable" /\ port.processException # "nothing"
  /\ NeedsUninitialize(port) => listener = "open"

PortInv ==
  /\ TypeOK /\ ControlInv /\ AfterStart /\ TurnInv /\ NativeInv /\ LastInv /\ ResourceInv
  /\ NoLostWakeup

==============================================================================
