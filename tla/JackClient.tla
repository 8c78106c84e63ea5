----------------------------- MODULE JackClient -----------------------------
(***************************************************************************)
(* The client of the JACK server (native/jackNative.cpp) and the facade    *)
(* above it (Implementation/MidiJackNative.java): opening, starting and    *)
(* closing a session while the threads of this session, and of the one     *)
(* before, are still under way.  The port chain appears by its state only; *)
(* ChainLife says what is taken for granted about it.                      *)
(***************************************************************************)
EXTENDS JackSystemListener, Integers

CONSTANTS
  Runner,       \* the threads that start creates
  MaxSessions,  \* bound: how many clients the server grants
  MaxPorts,     \* bound: how many ports the application creates
  CallbackAsks  \* a callback in the Java worker may call a method of the facade

ASSUME ClientAssumption ==
  /\ MaxSessions \in Nat /\ MaxPorts \in Nat
  /\ CallbackAsks \in BOOLEAN /\ ListenerAsks \in BOOLEAN

VARIABLES
  app,         \* the thread in the facade that owns openCloseLock: where it is
  errorDeactivate,  \* its close: has jack_deactivate refused?
  processException, \* its close: has a port had an exception?
  inShutdown,  \* is its stop the one of shutdown?
  report,      \* history: what has become of the exceptions in the chain that was
               \* replaced last, until the next open
  isRunnable,  \* of the facade
  isConnected, isActivated,
  clientId,    \* the client at the server, 0 for nullptr
  server,      \* external: what the server knows of each client
  granted,     \* external: how many clients the server has granted
  chain,       \* jackPortChain: which one, its state, is the last cycle announced,
               \* has it ended, has there been a cycle, is a port left over
  ports,       \* the ports in this chain
  faults,      \* those of them, or the control ports, that hold an exception
  newPortID,
  runner,      \* where each runner is, and which chain it has got hold of
  native,      \* the same for the server's process thread
  closer,      \* the same for a thread in a port's close
  overdue      \* history: the runners under way that a start or a close did not wait for

closeVars == <<errorDeactivate, processException, inShutdown>>
appVars == <<app, closeVars, report>>
clientVars == <<appVars, isRunnable, isConnected, isActivated, clientId, server, granted>>
chainVars == <<chain, ports, faults, newPortID>>
vars == <<clientVars, chainVars, runner, native, closer, overdue, listenerVars>>

Client == 1 .. MaxSessions

Control == -1   \* stands for both control ports

Port == 0 .. MaxPorts - 1

NewChain(id) ==
  [id |-> id, state |-> "created", last |-> FALSE, ended |-> FALSE,
   cycled |-> FALSE, jammed |-> FALSE]

AppAt(place) == app' = place /\ UNCHANGED <<closeVars, report>>

\* openCloseLock is given back, and the local variables of close are gone.
Release ==
  /\ app' = "idle"
  /\ errorDeactivate' = FALSE /\ processException' = FALSE /\ inShutdown' = FALSE

Unlock == Release /\ UNCHANGED report

Idle == app = "idle"

NoThread == [at |-> "idle", chain |-> 0]

NoCloser == [at |-> "idle", chain |-> 0, port |-> 0]

\* Runner r is in a callback of chain c that waits for openCloseLock.  It owns the
\* stateMutex of the port: of the end control, if the callback is onCycleEnd.
Asks(r, c) == runner[r].at \in {"asks", "asksLast"} /\ runner[r].chain = c

Asked == \E r \in Runner : Asks(r, chain.id)

EndControlHeld == \E r \in Runner : runner[r].at = "asksLast" /\ runner[r].chain = chain.id

\* Runner r is in runJava of chain c and owns its javaMutex.
InRunJava(r, c) ==
  runner[r].at \in {"inside", "asks", "asksLast"} /\ runner[r].chain = c

JavaMutexFree(c) == \A r \in Runner : ~InRunJava(r, c)

\* The chain's stateMutex, as far as the port closer is concerned.
ChainFree == closer.at # "inside" \/ closer.chain # chain.id

\* The process thread owns activatedMutex during a round, close while it replaces
\* the chain.
ActivatedFree == native.at # "inside" /\ app # "freeListener"

SetChain(state) == chain' = [chain EXCEPT !.state = state]

----------------------------------------------------------------------------
(* open: _open, step by step.  The facade's openCloseLock is kept until the  *)
(* end.                                                                      *)

\* jack_client_open grants a client, or none, or one whose name it had to change:
\* then the status is not 0 and the client is not used, but it exists.
OpenConnects ==
  /\ Idle /\ ~isConnected
  /\ isActivated' = FALSE
  /\ \/ /\ clientId' = 0
        /\ UNCHANGED <<appVars, isConnected, server, granted>>
     \/ /\ granted < MaxSessions
        /\ granted' = granted + 1
        /\ clientId' = granted + 1
        /\ server' = [server EXCEPT ![granted + 1] = "open"]
        /\ \/ isConnected' = TRUE /\ app' = "initialize" /\ report' = "none" /\ UNCHANGED closeVars
           \/ UNCHANGED <<appVars, isConnected>>
  /\ UNCHANGED <<isRunnable, chainVars, runner, native, closer, overdue, listenerVars>>

\* The handler of _open: the client is forgotten, not closed, and the chain stays.
OpenFails ==
  /\ isConnected' = FALSE /\ clientId' = 0
  /\ Unlock
  /\ UNCHANGED <<isRunnable, isActivated, server, granted>>

OpenInitializes ==
  /\ app = "initialize" /\ ChainFree
  /\ \/ /\ chain.state = "created"
        /\ SetChain("initialized") /\ AppAt("register")
        /\ UNCHANGED <<isRunnable, isConnected, isActivated, clientId, server, granted>>
     \/ OpenFails /\ UNCHANGED chain
  /\ UNCHANGED <<ports, faults, newPortID, runner, native, closer, overdue, listenerVars>>

OpenRegisters ==
  /\ app = "register" /\ ChainFree
  /\ \/ /\ ~chain.jammed
        /\ SetChain("registered") /\ AppAt("listen")
        /\ UNCHANGED <<isRunnable, isConnected, isActivated, clientId, server, granted>>
     \/ OpenFails /\ UNCHANGED chain
  /\ UNCHANGED <<ports, faults, newPortID, runner, native, closer, overdue, listenerVars>>

\* initialize and activate of the listener, and the facade's noError; or one of the
\* two fails.
OpenListens ==
  /\ app = "listen" /\ ListenerFree
  /\ \/ /\ initializeAndActivate
        /\ isRunnable' = TRUE /\ Unlock
        /\ UNCHANGED <<isConnected, isActivated, clientId, server, granted>>
     \/ OpenFails /\ (initialize \/ UNCHANGED listenerVars)
  /\ UNCHANGED <<chainVars, runner, native, closer, overdue>>

----------------------------------------------------------------------------
(* Ports: create...Port under openCloseLock, close of a port without it. *)

\* The identifier is used up even if onOpen throws or the chain refuses the port.
CreatePort ==
  /\ Idle /\ ChainFree
  /\ newPortID < MaxPorts
  /\ newPortID' = newPortID + 1
  /\ \/ /\ \/ chain.state \in {"created", "initialized"}
           \/ chain.state \in {"registered", "running"} /\ clientId # 0
        /\ ports' = ports \cup {newPortID}
     \/ UNCHANGED ports
  /\ UNCHANGED <<clientVars, chain, faults, runner, native, closer, overdue, listenerVars>>

\* _closePort gets hold of the chain and waits for its stateMutex.  (A call for a port
\* that is not in the chain changes nothing.)
ClosePort ==
  /\ closer.at = "idle"
  /\ \E id \in ports : closer' = [at |-> "waits", chain |-> chain.id, port |-> id]
  /\ UNCHANGED <<clientVars, chainVars, runner, native, overdue, listenerVars>>

\* removePort begins, or its lock times out while stop has the chain.  A chain that has
\* been replaced meanwhile has been freed: what happens then is undefined.
CloserEnters ==
  /\ closer.at = "waits"
  /\ closer' = IF closer.chain = chain.id /\ closer.port \in ports /\ app \notin {"stop", "join"}
               THEN [closer EXCEPT !.at = "inside"] ELSE NoCloser
  /\ UNCHANGED <<clientVars, chainVars, runner, native, overdue, listenerVars>>

\* The port is out, and its exception with it; or it stays, shut down, because a
\* worker would not let go of it; or nothing has changed, because a callback that asks
\* keeps its mutex.
CloserLeaves ==
  /\ closer.at = "inside"
  /\ closer' = NoCloser
  /\ IF closer.chain # chain.id
     THEN UNCHANGED <<chain, ports, faults>>
     ELSE \/ ports' = ports \ {closer.port} /\ faults' = faults \ {closer.port} /\ UNCHANGED chain
          \/ chain' = [chain EXCEPT !.jammed = TRUE] /\ UNCHANGED <<ports, faults>>
          \/ Asked /\ UNCHANGED <<chain, ports, faults>>
  /\ UNCHANGED <<clientVars, newPortID, runner, native, overdue, listenerVars>>

----------------------------------------------------------------------------
(* start, and _run in the thread that it creates. *)

RunnerAt(r, place) == runner' = [runner EXCEPT ![r].at = place] /\ UNCHANGED overdue

\* The end of _run.
RunnerDone(r) ==
  /\ runner' = [runner EXCEPT ![r] = [at |-> "unused", chain |-> 0]]
  /\ overdue' = overdue \ {r}

\* The runners that a waiting thread does not find in runJava.
Latecomers == {r \in Runner : runner[r].at \in {"new", "checked", "activated", "waits"}}

StartSpawns ==
  /\ Idle /\ isRunnable
  /\ \E r \in Runner : runner[r].at = "unused" /\ RunnerAt(r, "new")
  /\ AppAt("awaitCycle")
  /\ UNCHANGED <<isRunnable, isConnected, isActivated, clientId, server, granted, chainVars,
                 native, closer, listenerVars>>

\* _waitForCycleDone returns after a cycle; or it throws, after 500 ms without one.  It
\* has to own the end control's stateMutex for either, and takes it without a limit.
StartReturns ==
  /\ app = "awaitCycle" /\ ~EndControlHeld
  /\ Unlock
  /\ \/ chain.cycled /\ overdue' = overdue \cup Latecomers
     \/ overdue' = overdue \cup {r \in Runner : runner[r].at # "unused"}
  /\ UNCHANGED <<isRunnable, isConnected, isActivated, clientId, server, granted, chainVars,
                 runner, native, closer, listenerVars>>

\* The tests at the beginning of _run, without any lock.
RunChecks(r) ==
  /\ runner[r].at = "new"
  /\ IF chain.state = "registered" /\ isConnected /\ ~isActivated
     THEN RunnerAt(r, "checked") ELSE RunnerDone(r)
  /\ UNCHANGED <<clientVars, chainVars, native, closer, listenerVars>>

\* Under activatedMutex: start of the chain, jack_activate, isActivated.
RunActivates(r) ==
  /\ runner[r].at = "checked" /\ ActivatedFree /\ ChainFree
  /\ IF chain.state = "registered" /\ ~chain.jammed
     THEN /\ SetChain("running")
          /\ \/ /\ clientId # 0 /\ server[clientId] = "open"
                /\ server' = [server EXCEPT ![clientId] = "active"]
                /\ isActivated' = TRUE
                /\ RunnerAt(r, "activated")
             \/ RunnerDone(r) /\ UNCHANGED <<server, isActivated>>
     ELSE RunnerDone(r) /\ UNCHANGED <<chain, server, isActivated>>
  /\ UNCHANGED <<appVars, isRunnable, isConnected, clientId, granted, ports, faults, newPortID,
                 native, closer, listenerVars>>

\* Without a lock: which chain is jackPortChain?
RunFollows(r) ==
  /\ runner[r].at = "activated"
  /\ runner' = [runner EXCEPT ![r] = [at |-> "waits", chain |-> chain.id]]
  /\ UNCHANGED <<clientVars, chainVars, native, closer, overdue, listenerVars>>

\* runJava, from here on with the javaMutex; or the lock times out.
RunEnters(r) ==
  /\ runner[r].at = "waits"
  /\ IF JavaMutexFree(runner[r].chain) THEN RunnerAt(r, "inside") ELSE RunnerDone(r)
  /\ UNCHANGED <<clientVars, chainVars, native, closer, listenerVars>>

\* A callback in the round under way calls the facade, which wants openCloseLock.
RunAsks(r) ==
  /\ CallbackAsks /\ ~Idle
  /\ chain.state = "running" /\ ~chain.ended /\ native.at = "inside"
  /\ runner[r].at = "inside" /\ runner[r].chain = chain.id
  /\ \E place \in {"asks", "asksLast"} : RunnerAt(r, place)
  /\ UNCHANGED <<clientVars, chainVars, native, closer, listenerVars>>

\* It gets the lock after the round has been given up.
RunIsAnswered(r) ==
  /\ runner[r].at \in {"asks", "asksLast"} /\ Idle /\ native.at # "inside"
  /\ RunnerAt(r, "inside")
  /\ UNCHANGED <<clientVars, chainVars, native, closer, listenerVars>>

\* Mutant: runJava returns as soon as the last cycle has been announced.
MutRunLeaves(r) ==
  /\ runner[r].at = "inside"
  /\ runner[r].chain = chain.id => chain.state \notin {"created", "initialized", "registered"}
  /\ RunnerDone(r)
  /\ UNCHANGED <<clientVars, chainVars, native, closer, listenerVars>>

\* runJava returns when the chain has stopped or its last cycle has been carried out.
\* In a chain that has been freed anything may happen.
RunLeaves(r) ==
  /\ runner[r].at = "inside"
  /\ runner[r].chain = chain.id =>
       chain.ended \/ chain.state \in {"stopped", "unregistered", "deletable"}
  /\ RunnerDone(r)
  /\ UNCHANGED <<clientVars, chainVars, native, closer, listenerVars>>

----------------------------------------------------------------------------
(* nativeProcess in the server's process thread. *)

\* The server calls while a client is active; a late call may follow even after close
\* (comment in _close).
NativeCalled ==
  /\ native.at = "idle"
  /\ \E c \in Client : server[c] \in {"active", "inactive", "closed"}
  /\ native' = [at |-> "waits", chain |-> 0]
  /\ UNCHANGED <<clientVars, chainVars, runner, closer, overdue, listenerVars>>

\* It gets activatedMutex.
NativeEnters ==
  /\ native.at = "waits" /\ ActivatedFree
  /\ native' = IF isActivated THEN [at |-> "inside", chain |-> chain.id]
                              ELSE NoThread
  /\ UNCHANGED <<clientVars, chainVars, runner, closer, overdue, listenerVars>>

\* A round with the Java worker: execNativeCycle waits for it in the ports.  The
\* callbacks of some ports may throw.
Cycle ==
  /\ native.at = "inside" /\ chain.state = "running"
  /\ \E r \in Runner :
       /\ InRunJava(r, chain.id) /\ (runner[r].at = "inside" \/ Idle)
       /\ RunnerAt(r, "inside")
  /\ \E ended \in {FALSE, chain.last} :
       chain' = [chain EXCEPT !.cycled = TRUE, !.ended = @ \/ ended]
  /\ faults' \in {faults, faults \cup ports}
  /\ native' = NoThread
  /\ UNCHANGED <<clientVars, ports, newPortID, closer, listenerVars>>

\* There is nothing to do in a chain that is not running, or no longer; or the process
\* thread cannot get at the end control within waitLimit, and stops it.
NativeLeaves ==
  /\ native.at = "inside"
  /\ \/ (chain.state # "running" \/ chain.ended) /\ UNCHANGED faults
     \/ /\ chain.state = "running" /\ EndControlHeld /\ Control \notin faults
        /\ faults' = faults \cup {Control}
  /\ native' = NoThread
  /\ UNCHANGED <<clientVars, chain, ports, newPortID, runner, closer, overdue, listenerVars>>

----------------------------------------------------------------------------
(* close: _close, step by step. *)

\* isRunnable is reset before anything is tested.
CloseBegins ==
  /\ Idle
  /\ isRunnable' = FALSE
  /\ IF ~isConnected THEN UNCHANGED <<appVars, chain>>
     ELSE IF chain.state = "running"
     THEN /\ ChainFree
          /\ chain' = [chain EXCEPT !.last = TRUE]
          /\ AppAt("stop")
     ELSE AppAt("deactivate") /\ UNCHANGED chain
  /\ UNCHANGED <<isConnected, isActivated, clientId, server, granted, ports, faults, newPortID,
                 runner, native, closer, overdue, listenerVars>>

\* The end control has terminated, or the wait for it has timed out and the ports are
\* stopped by force.  A port that has been added late is stopped by force in any case.
\* A port that has been left over makes stop throw.  The stateMutex of the end control,
\* and then that of each port, is taken without a limit.
PortsStop ==
  \/ /\ chain.jammed /\ ~EndControlHeld
     /\ Unlock /\ UNCHANGED <<chain, faults>>
  \/ /\ ~chain.jammed /\ ~Asked
     /\ SetChain("stopped")
     /\ \E forced \in SUBSET (ports \cup {Control}) :
          /\ chain.ended \/ Control \in faults \cup forced
          /\ faults' = faults \cup forced
     /\ AppAt("join")

\* Mutant: the Java worker is waited for before the ports are stopped.
MutStopPorts ==
  /\ app = "stop" /\ JavaMutexFree(chain.id) /\ PortsStop
  /\ UNCHANGED <<isRunnable, isConnected, isActivated, clientId, server, granted, ports, newPortID,
                 runner, native, closer, overdue, listenerVars>>

StopPorts ==
  /\ app = "stop" /\ PortsStop
  /\ UNCHANGED <<isRunnable, isConnected, isActivated, clientId, server, granted, ports, newPortID,
                 runner, native, closer, overdue, listenerVars>>

\* Mutant: the Java worker is not waited for.
MutJoin ==
  /\ app = "join"
  /\ AppAt(IF inShutdown THEN "shutdown" ELSE "deactivate")
  /\ UNCHANGED <<overdue, isRunnable, isConnected, isActivated, clientId, server, granted, chainVars,
                 runner, native, closer, listenerVars>>

\* The Java worker has left the chain; or it has not, though no callback can be under
\* way now that every port is stopped, and close gives up on it and throws.
Join ==
  /\ app = "join"
  /\ \/ /\ JavaMutexFree(chain.id)
        /\ AppAt(IF inShutdown THEN "shutdown" ELSE "deactivate")
        /\ UNCHANGED overdue
     \/ /\ ~JavaMutexFree(chain.id)
        /\ Unlock
        /\ overdue' = overdue \cup {r \in Runner : InRunJava(r, chain.id)}
  /\ UNCHANGED <<isRunnable, isConnected, isActivated, clientId, server, granted, chainVars,
                 runner, native, closer, listenerVars>>

\* jack_deactivate waits for a call of nativeProcess under way.
CloseDeactivates ==
  /\ app = "deactivate"
  /\ \/ ~isActivated /\ UNCHANGED server
     \/ /\ isActivated /\ native.at = "idle"
        /\ server' = [server EXCEPT ![clientId] = "inactive"]
  /\ isActivated' = FALSE
  /\ AppAt("shutdown")
  /\ UNCHANGED <<isRunnable, isConnected, clientId, granted, chainVars,
                 runner, native, closer, overdue, listenerVars>>

\* Or it refuses.
DeactivateRefused ==
  /\ app = "deactivate" /\ isActivated
  /\ isActivated' = FALSE
  /\ app' = "shutdown" /\ errorDeactivate' = TRUE
  /\ UNCHANGED <<processException, inShutdown, report, isRunnable, isConnected, clientId, server,
                 granted, chainVars, runner, native, closer, overdue, listenerVars>>

\* A runner has started the chain in the meantime: shutdown stops it first.
ShutdownStops ==
  /\ app = "shutdown" /\ chain.state = "running" /\ ChainFree
  /\ chain' = [chain EXCEPT !.last = TRUE]
  /\ app' = "stop" /\ inShutdown' = TRUE
  /\ UNCHANGED <<errorDeactivate, processException, report, isRunnable, isConnected, isActivated,
                 clientId, server, granted, ports, faults, newPortID, runner, native, closer,
                 overdue, listenerVars>>

\* Mutant: only the control ports are searched for an exception.
MutRetrieveProcessException == Control \in faults

\* Some port of the chain holds an exception.
retrieveProcessException == faults # {}

\* shutdown of the chain and retrieveProcessException; a port that is left over, or one
\* that the server does not let go, makes shutdown throw.
Shutdown ==
  /\ app = "shutdown" /\ chain.state # "running" /\ ChainFree
  /\ \/ /\ ~chain.jammed
        /\ SetChain("deletable")
        /\ isConnected' = FALSE
        /\ app' = "replace" /\ processException' = retrieveProcessException
        /\ UNCHANGED <<errorDeactivate, inShutdown, report>>
     \/ /\ \E state \in {chain.state} \cup
                        (IF chain.state \in {"registered", "stopped"} THEN {"unregistered"} ELSE {}) :
             chain' = [chain EXCEPT !.state = state, !.jammed = TRUE]
        /\ Unlock
        /\ UNCHANGED isConnected
  /\ UNCHANGED <<isRunnable, isActivated, clientId, server, granted, ports, faults, newPortID,
                 runner, native, closer, overdue, listenerVars>>

\* Mutant: close does not wait until a round is over.
MutCloseReplaces ==
  /\ app = "replace"
  /\ AppAt("freeListener")
  /\ UNCHANGED <<isRunnable, isConnected, isActivated, clientId, server, granted, chainVars,
                 runner, native, closer, overdue, listenerVars>>

\* activatedMutex, and inside it the listener's shutdown and a fresh chain.
CloseReplaces ==
  /\ app = "replace" /\ ActivatedFree
  /\ AppAt("freeListener")
  /\ UNCHANGED <<isRunnable, isConnected, isActivated, clientId, server, granted, chainVars,
                 runner, native, closer, overdue, listenerVars>>

\* Mutant: the chain is kept for the next session.
MutCloseFreesListener ==
  /\ app = "freeListener" /\ ListenerFree
  /\ shutdownListener
  /\ AppAt("closeClient")
  /\ UNCHANGED <<isRunnable, isConnected, isActivated, clientId, server, granted, chainVars,
                 runner, native, closer, overdue>>

CloseFreesListener ==
  /\ app = "freeListener" /\ ListenerFree
  /\ shutdownListener
  /\ chain' = NewChain(chain.id + 1)
  /\ ports' = {} /\ faults' = {}
  /\ app' = "closeClient"
  /\ report' = IF faults = {} THEN "none" ELSE "due"
  /\ UNCHANGED <<closeVars, isRunnable, isConnected, isActivated, clientId, server, granted,
                 newPortID, runner, native, closer, overdue>>

\* jack_client_close, which may refuse.  Then close throws one error: that of
\* jack_client_close, or that of jack_deactivate, or the exception of a port; or it
\* returns.
CloseEnds ==
  /\ app = "closeClient"
  /\ \E errorClose \in BOOLEAN :
       /\ server' = IF errorClose THEN server ELSE [server EXCEPT ![clientId] = "closed"]
       /\ report' = IF report # "due" THEN report
                    ELSE IF errorClose \/ errorDeactivate THEN "displaced"
                    ELSE IF processException THEN "re-thrown" ELSE "silent"
  /\ Release
  /\ UNCHANGED <<isRunnable, isConnected, isActivated, clientId, granted, chainVars,
                 runner, native, closer, overdue, listenerVars>>

----------------------------------------------------------------------------
(* The notification thread. *)

\* Notifications come while a client is active.  The facade answers when nobody else
\* is in it.
Notified ==
  /\ \/ onPortConnect /\ \E c \in Client : server[c] = "active"
     \/ NotifierCalls
     \/ NotifierAsks
     \/ NotifierReturns /\ (notifier.at = "asks" => Idle)
  /\ UNCHANGED <<clientVars, chainVars, runner, native, closer, overdue>>

----------------------------------------------------------------------------

Init ==
  /\ app = "idle"
  /\ errorDeactivate = FALSE /\ processException = FALSE /\ inShutdown = FALSE
  /\ report = "none"
  /\ isRunnable = FALSE /\ isConnected = FALSE /\ isActivated = FALSE
  /\ clientId = 0
  /\ server = [c \in Client |-> "unknown"]
  /\ granted = 0
  /\ chain = NewChain(1)
  /\ ports = {} /\ faults = {}
  /\ newPortID = 0
  /\ runner = [r \in Runner |-> [at |-> "unused", chain |-> 0]]
  /\ native = NoThread
  /\ closer = NoCloser
  /\ overdue = {}
  /\ ListenerInit

AppBegins == OpenConnects \/ CreatePort \/ StartSpawns \/ CloseBegins

AppContinues ==
  \/ OpenInitializes \/ OpenRegisters \/ OpenListens
  \/ StartReturns
  \/ StopPorts \/ Join \/ CloseDeactivates \/ ShutdownStops \/ Shutdown
  \/ CloseReplaces \/ CloseFreesListener \/ CloseEnds

RunnerNext(r) ==
  \/ RunChecks(r) \/ RunActivates(r) \/ RunFollows(r) \/ RunEnters(r)
  \/ RunAsks(r) \/ RunIsAnswered(r) \/ RunLeaves(r)

NativeContinues == NativeEnters \/ Cycle \/ NativeLeaves

CloserContinues == CloserEnters \/ CloserLeaves

Next ==
  \/ AppBegins \/ AppContinues \/ DeactivateRefused
  \/ \E r \in Runner : RunnerNext(r)
  \/ NativeCalled \/ NativeContinues
  \/ ClosePort \/ CloserContinues
  \/ Notified

Spec == Init /\ [][Next]_vars

\* Every thread that has begun something goes on with it; a mutex that becomes free again
\* and again is acquired in the end; callbacks return, unless they wait for openCloseLock.
Fairness ==
  /\ SF_vars(AppContinues) /\ SF_vars(NativeContinues) /\ WF_vars(CloserContinues)
  /\ WF_vars(Notified /\ notifier.at # "idle")
  /\ \A r \in Runner : WF_vars(RunnerNext(r))

FairSpec == Spec /\ Fairness

----------------------------------------------------------------------------

AppType ==
  /\ app \in {"idle", "initialize", "register", "listen", "awaitCycle", "stop", "join",
             "deactivate", "shutdown", "replace", "freeListener", "closeClient"}
  /\ errorDeactivate \in BOOLEAN /\ processException \in BOOLEAN /\ inShutdown \in BOOLEAN
  /\ report \in {"none", "due", "displaced", "re-thrown", "silent"}
  /\ isRunnable \in BOOLEAN /\ isConnected \in BOOLEAN /\ isActivated \in BOOLEAN

ServerType ==
  /\ granted \in 0 .. MaxSessions /\ clientId \in 0 .. granted
  /\ server \in [Client -> {"unknown", "open", "active", "inactive", "closed"}]

ChainType ==
  chain \in [id : Nat, state : {"created", "initialized", "registered", "running", "stopped",
                               "unregistered", "deletable"},
            last : BOOLEAN, ended : BOOLEAN, cycled : BOOLEAN, jammed : BOOLEAN]

PortType ==
  /\ newPortID \in 0 .. MaxPorts
  /\ ports \subseteq 0 .. newPortID - 1 /\ faults \subseteq Port \cup {Control}

ThreadType ==
  /\ runner \in [Runner -> [at : {"unused", "new", "checked", "activated", "waits", "inside",
                                 "asks", "asksLast"},
                            chain : Nat]]
  /\ overdue \subseteq Runner
  /\ native \in [at : {"idle", "waits", "inside"}, chain : Nat]
  /\ closer \in [at : {"idle", "waits", "inside"}, chain : Nat, port : Nat]

\* The variables have their types.
TypeOK == AppType /\ ServerType /\ ChainType /\ PortType /\ ThreadType /\ ListenerTypeOK

\* The process thread is never in a chain that has been freed, also when it is called
\* late: "even after this procedure has ended the nativeProcess-callback might be
\* invoked" (_close).
NativeInLiveChain == native.at = "inside" => native.chain = chain.id

\* No Java worker works on a chain that has been freed, unless a start or a close has
\* stopped waiting for it before: stop waits for runJava to end, start for it to begin.
WorkerInLiveChain ==
  \A r \in Runner : runner[r].at \in {"waits", "inside", "asks", "asksLast"} /\ r \notin overdue
                      => runner[r].chain = chain.id

\* After a close, open is possible again: when nobody is connected, everything is as new,
\* or else an open has failed half way, and its client still exists at the server.
ReadyToOpen ==
  Idle /\ ~isConnected =>
    \/ chain.state = "created" /\ listener = "uninitialized"
    \/ \E c \in Client : server[c] \in {"open", "active"}

\* A close that throws away a chain in which a port holds an exception does not end
\* well: it throws ("when one or several ports encountered a problem", MidiSystem).
FaultIsNotSilent == report # "silent"

\* And what it throws is that exception ("will be re-thrown when {@link
\* MidiSystem#close()} is called", MidiInputPortListener).  It is not, when the server
\* has an error of its own.
FaultIsReported == report \in {"none", "due", "re-thrown"}

\* The chain is used as a chain may be used, and its Java worker stays until the end
\* of the session is announced.
Life == INSTANCE ChainLife WITH
  state <- chain.state, last <- chain.last, worker <- ~JavaMutexFree(chain.id)

KeepsChainLife == Life!Spec

\* A close that has begun ends ("Closes the session with the Midi server", MidiSystem).
\* It does not, when a callback that calls the facade is under way.
CloseReturns == app \in {"stop", "join", "deactivate", "shutdown", "replace", "freeListener",
                            "closeClient"} ~> Idle

\* The thread that owns openCloseLock waits, without a limit, for a thread that wants
\* openCloseLock: start or stop for the mutex of the port that the callback belongs to,
\* jack_deactivate for the round, close and open for the listener's mutex.
Blocked ==
  \/ app = "awaitCycle" /\ EndControlHeld
  \/ app = "stop" /\ Asked
  \/ app = "deactivate" /\ native.at = "inside" /\ Asked
  \/ app \in {"listen", "freeListener"} /\ notifier.at = "asks"

\* A method of the facade that has been called ends, unless such a callback holds it up:
\* no other wait of open, start and close is one for ever.
FacadeReturns == ~Idle ~> (Idle \/ Blocked)

==============================================================================
