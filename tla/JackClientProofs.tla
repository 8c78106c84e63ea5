--------------------------- MODULE JackClientProofs ---------------------------
(***************************************************************************)
(* What JackClient guarantees for any number of threads that start creates *)
(* and any number of sessions.  The invariant has a part for the session,  *)
(* one for the process thread, one for the runners, one for the            *)
(* notification thread and one for open and close; each is preserved with  *)
(* the help of the types and, for the runners, of the session's part.      *)
(***************************************************************************)
EXTENDS JackClient, TLAPS

\* What the steps of open and close rely on: the chain's state, the announced last
\* cycle, and the exceptions found.
SessionInv ==
  /\ app = "register" => chain.state = "initialized"
  /\ app = "stop" => chain.state = "running" /\ chain.last
  /\ app \in {"replace", "freeListener"} => chain.state = "deletable"
  /\ app \in {"replace", "freeListener"} /\ faults # {} => processException
  /\ chain.ended => chain.last
  /\ chain.state = "stopped" => chain.last

\* A round under way keeps close from replacing the chain.
RoundInv == native.at = "inside" => native.chain = chain.id /\ app # "freeListener"

\* Where close is once it has joined the Java worker.
Closing == {"deactivate", "shutdown", "replace", "freeListener", "closeClient"}

\* A runner that is waited for: start waits until it is in runJava of this chain, which
\* is running; close, until it has left.
WaitedFor(r) ==
  /\ runner[r].at \in {"new", "checked", "activated", "waits"} => app = "awaitCycle"
  /\ runner[r].at \in {"activated", "waits", "inside", "asks", "asksLast"} =>
       chain.state = "running" \/ (chain.state = "stopped" /\ app = "join")
  /\ runner[r].at \in {"waits", "inside", "asks", "asksLast"} => runner[r].chain = chain.id
  /\ runner[r].at # "unused" => app \notin Closing

\* A runner that was given up on may be anywhere; the others are where they are waited for.
RunnerInvOf(r) ==
  /\ r \notin overdue => WaitedFor(r)
  /\ r \in overdue => runner[r].at # "unused"
  /\ runner[r].chain <= chain.id

RunnerInv == \A r \in Runner : RunnerInvOf(r)

\* A notification that may find the listener gone has been overtaken by its shutdown.
NotifierInv ==
  /\ ~ignoreCallback => listener = "activated" /\ systemListener
  /\ notifier.at = "tested" /\ ~systemListener => notifier.overtaken
  /\ notifier.at = "callsNull" => notifier.overtaken

\* Open finds what it needs.
AsNew == chain.state = "created" /\ listener = "uninitialized"

\* A client of this process is left at the server.
LeftOver == \E c \in Client : server[c] \in {"open", "active"}

\* Nobody is connected: between two sessions, or after an open that has failed half way.
\* While open and close are under way: what they hold, and what they have put back.
ReadyInv ==
  /\ app \in {"idle", "awaitCycle"} /\ ~isConnected => AsNew \/ LeftOver
  /\ app \in {"initialize", "register", "listen"} =>
       clientId \in Client /\ server[clientId] \in {"open", "active"}
  /\ app \in {"stop", "join", "deactivate", "shutdown"} => isConnected
  /\ app = "closeClient" => AsNew

\* The exceptions of a chain that has been replaced: close, which has found them, has still
\* to end.
ReportInv ==
  /\ report = "due" => app = "closeClient" /\ processException
  /\ report # "silent"

\* The inductive invariant.
ClientInv ==
  TypeOK /\ SessionInv /\ RoundInv /\ RunnerInv /\ NotifierInv /\ ReadyInv /\ ReportInv

----------------------------------------------------------------------------
(* Types. *)

\* The variables of the facade.
LEMMA AppTypeStep == AppType /\ [Next]_vars => AppType'
  <1> SUFFICES ASSUME AppType, [Next]_vars PROVE AppType'
    OBVIOUS
  <1> USE ClientAssumption DEF AppType, AppAt, Unlock, Release, vars, appVars, closeVars,
       clientVars, chainVars, listenerVars
  <1>1. CASE OpenConnects
    BY <1>1 DEF OpenConnects
  <1>2. CASE OpenInitializes
    BY <1>2 DEF OpenInitializes, OpenFails
  <1>3. CASE OpenRegisters
    BY <1>3 DEF OpenRegisters, OpenFails
  <1>4. CASE OpenListens
    BY <1>4 DEF OpenListens, OpenFails, initialize, initializeAndActivate
  <1>5. CASE CreatePort
    BY <1>5 DEF CreatePort
  <1>6. CASE ClosePort
    BY <1>6 DEF ClosePort
  <1>7. CASE CloserEnters
    BY <1>7 DEF CloserEnters
  <1>8. CASE CloserLeaves
    BY <1>8 DEF CloserLeaves
  <1>9. CASE StartSpawns
    BY <1>9 DEF StartSpawns, RunnerAt
  <1>10. CASE StartReturns
    BY <1>10 DEF StartReturns
  <1>11. ASSUME NEW r \in Runner, RunChecks(r) PROVE AppType'
    BY <1>11 DEF RunChecks, RunnerAt, RunnerDone
  <1>12. ASSUME NEW r \in Runner, RunActivates(r) PROVE AppType'
    BY <1>12 DEF RunActivates, RunnerAt, RunnerDone
  <1>13. ASSUME NEW r \in Runner, RunFollows(r) PROVE AppType'
    BY <1>13 DEF RunFollows
  <1>14. ASSUME NEW r \in Runner, RunEnters(r) PROVE AppType'
    BY <1>14 DEF RunEnters, RunnerAt, RunnerDone
  <1>15. ASSUME NEW r \in Runner, RunAsks(r) PROVE AppType'
    BY <1>15 DEF RunAsks, RunnerAt
  <1>16. ASSUME NEW r \in Runner, RunIsAnswered(r) PROVE AppType'
    BY <1>16 DEF RunIsAnswered, RunnerAt
  <1>17. ASSUME NEW r \in Runner, RunLeaves(r) PROVE AppType'
    BY <1>17 DEF RunLeaves, RunnerDone
  <1>18. CASE NativeCalled
    BY <1>18 DEF NativeCalled
  <1>19. CASE NativeEnters
    BY <1>19 DEF NativeEnters
  <1>20. CASE Cycle
    BY <1>20 DEF Cycle, RunnerAt
  <1>21. CASE NativeLeaves
    BY <1>21 DEF NativeLeaves
  <1>22. CASE CloseBegins
    BY <1>22 DEF CloseBegins
  <1>23. CASE StopPorts
    BY <1>23 DEF StopPorts, PortsStop
  <1>24. CASE Join
    BY <1>24 DEF Join
  <1>25. CASE CloseDeactivates
    BY <1>25 DEF CloseDeactivates
  <1>26. CASE DeactivateRefused
    BY <1>26 DEF DeactivateRefused
  <1>27. CASE ShutdownStops
    BY <1>27 DEF ShutdownStops
  <1>28. CASE Shutdown
    BY <1>28 DEF Shutdown, retrieveProcessException
  <1>29. CASE CloseReplaces
    BY <1>29 DEF CloseReplaces
  <1>30. CASE CloseFreesListener
    BY <1>30 DEF CloseFreesListener, shutdownListener, NewChain
  <1>31. CASE CloseEnds
    BY <1>31 DEF CloseEnds
  <1>32. CASE Notified
    BY <1>32 DEF Notified, onPortConnect, NotifierCalls, NotifierAsks, NotifierReturns, NotifierAt
  <1>33. CASE UNCHANGED vars
    BY <1>33
  <1> QED
    BY <1>1, <1>2, <1>3, <1>4, <1>5, <1>6, <1>7, <1>8, <1>9, <1>10, <1>11, <1>12, <1>13, <1>14,
         <1>15, <1>16, <1>17, <1>18, <1>19, <1>20, <1>21, <1>22, <1>23, <1>24, <1>25, <1>26, <1>27,
              <1>28, <1>29, <1>30, <1>31, <1>32, <1>33 DEF Next, AppBegins, AppContinues,
                   RunnerNext, NativeContinues, CloserContinues

\* The clients at the server.
LEMMA ServerTypeStep == ServerType /\ [Next]_vars => ServerType'
  <1> SUFFICES ASSUME ServerType, [Next]_vars PROVE ServerType'
    OBVIOUS
  <1> USE ClientAssumption DEF ServerType, AppAt, Unlock, Release, vars, appVars, closeVars,
       clientVars, chainVars, listenerVars, Client
  <1>1. CASE OpenConnects
    BY <1>1 DEF OpenConnects
  <1>2. CASE OpenInitializes
    BY <1>2 DEF OpenInitializes, OpenFails
  <1>3. CASE OpenRegisters
    BY <1>3 DEF OpenRegisters, OpenFails
  <1>4. CASE OpenListens
    BY <1>4 DEF OpenListens, OpenFails, initialize, initializeAndActivate
  <1>5. CASE CreatePort
    BY <1>5 DEF CreatePort
  <1>6. CASE ClosePort
    BY <1>6 DEF ClosePort
  <1>7. CASE CloserEnters
    BY <1>7 DEF CloserEnters
  <1>8. CASE CloserLeaves
    BY <1>8 DEF CloserLeaves
  <1>9. CASE StartSpawns
    BY <1>9 DEF StartSpawns, RunnerAt
  <1>10. CASE StartReturns
    BY <1>10 DEF StartReturns
  <1>11. ASSUME NEW r \in Runner, RunChecks(r) PROVE ServerType'
    BY <1>11 DEF RunChecks, RunnerAt, RunnerDone
  <1>12. ASSUME NEW r \in Runner, RunActivates(r) PROVE ServerType'
    BY <1>12 DEF RunActivates, RunnerAt, RunnerDone
  <1>13. ASSUME NEW r \in Runner, RunFollows(r) PROVE ServerType'
    BY <1>13 DEF RunFollows
  <1>14. ASSUME NEW r \in Runner, RunEnters(r) PROVE ServerType'
    BY <1>14 DEF RunEnters, RunnerAt, RunnerDone
  <1>15. ASSUME NEW r \in Runner, RunAsks(r) PROVE ServerType'
    BY <1>15 DEF RunAsks, RunnerAt
  <1>16. ASSUME NEW r \in Runner, RunIsAnswered(r) PROVE ServerType'
    BY <1>16 DEF RunIsAnswered, RunnerAt
  <1>17. ASSUME NEW r \in Runner, RunLeaves(r) PROVE ServerType'
    BY <1>17 DEF RunLeaves, RunnerDone
  <1>18. CASE NativeCalled
    BY <1>18 DEF NativeCalled
  <1>19. CASE NativeEnters
    BY <1>19 DEF NativeEnters
  <1>20. CASE Cycle
    BY <1>20 DEF Cycle, RunnerAt
  <1>21. CASE NativeLeaves
    BY <1>21 DEF NativeLeaves
  <1>22. CASE CloseBegins
    BY <1>22 DEF CloseBegins
  <1>23. CASE StopPorts
    BY <1>23 DEF StopPorts, PortsStop
  <1>24. CASE Join
    BY <1>24 DEF Join
  <1>25. CASE CloseDeactivates
    BY <1>25 DEF CloseDeactivates
  <1>26. CASE DeactivateRefused
    BY <1>26 DEF DeactivateRefused
  <1>27. CASE ShutdownStops
    BY <1>27 DEF ShutdownStops
  <1>28. CASE Shutdown
    BY <1>28 DEF Shutdown
  <1>29. CASE CloseReplaces
    BY <1>29 DEF CloseReplaces
  <1>30. CASE CloseFreesListener
    BY <1>30 DEF CloseFreesListener, shutdownListener, NewChain
  <1>31. CASE CloseEnds
    BY <1>31 DEF CloseEnds
  <1>32. CASE Notified
    BY <1>32 DEF Notified, onPortConnect, NotifierCalls, NotifierAsks, NotifierReturns, NotifierAt
  <1>33. CASE UNCHANGED vars
    BY <1>33
  <1> QED
    BY <1>1, <1>2, <1>3, <1>4, <1>5, <1>6, <1>7, <1>8, <1>9, <1>10, <1>11, <1>12, <1>13, <1>14,
         <1>15, <1>16, <1>17, <1>18, <1>19, <1>20, <1>21, <1>22, <1>23, <1>24, <1>25, <1>26, <1>27,
              <1>28, <1>29, <1>30, <1>31, <1>32, <1>33 DEF Next, AppBegins, AppContinues,
                   RunnerNext, NativeContinues, CloserContinues

\* The chain.
LEMMA ChainTypeStep == ChainType /\ [Next]_vars => ChainType'
  <1> SUFFICES ASSUME ChainType, [Next]_vars PROVE ChainType'
    OBVIOUS
  <1> USE ClientAssumption DEF ChainType, AppAt, Unlock, Release, vars, appVars, closeVars,
       clientVars, chainVars, listenerVars, SetChain
  <1>1. CASE OpenConnects
    BY <1>1 DEF OpenConnects
  <1>2. CASE OpenInitializes
    BY <1>2 DEF OpenInitializes, OpenFails
  <1>3. CASE OpenRegisters
    BY <1>3 DEF OpenRegisters, OpenFails
  <1>4. CASE OpenListens
    BY <1>4 DEF OpenListens, OpenFails, initialize, initializeAndActivate
  <1>5. CASE CreatePort
    BY <1>5 DEF CreatePort
  <1>6. CASE ClosePort
    BY <1>6 DEF ClosePort
  <1>7. CASE CloserEnters
    BY <1>7 DEF CloserEnters
  <1>8. CASE CloserLeaves
    BY <1>8 DEF CloserLeaves
  <1>9. CASE StartSpawns
    BY <1>9 DEF StartSpawns, RunnerAt
  <1>10. CASE StartReturns
    BY <1>10 DEF StartReturns
  <1>11. ASSUME NEW r \in Runner, RunChecks(r) PROVE ChainType'
    BY <1>11 DEF RunChecks, RunnerAt, RunnerDone
  <1>12. ASSUME NEW r \in Runner, RunActivates(r) PROVE ChainType'
    BY <1>12 DEF RunActivates, RunnerAt, RunnerDone
  <1>13. ASSUME NEW r \in Runner, RunFollows(r) PROVE ChainType'
    BY <1>13 DEF RunFollows
  <1>14. ASSUME NEW r \in Runner, RunEnters(r) PROVE ChainType'
    BY <1>14 DEF RunEnters, RunnerAt, RunnerDone
  <1>15. ASSUME NEW r \in Runner, RunAsks(r) PROVE ChainType'
    BY <1>15 DEF RunAsks, RunnerAt
  <1>16. ASSUME NEW r \in Runner, RunIsAnswered(r) PROVE ChainType'
    BY <1>16 DEF RunIsAnswered, RunnerAt
  <1>17. ASSUME NEW r \in Runner, RunLeaves(r) PROVE ChainType'
    BY <1>17 DEF RunLeaves, RunnerDone
  <1>18. CASE NativeCalled
    BY <1>18 DEF NativeCalled
  <1>19. CASE NativeEnters
    BY <1>19 DEF NativeEnters
  <1>20. CASE Cycle
    BY <1>20 DEF Cycle, RunnerAt
  <1>21. CASE NativeLeaves
    BY <1>21 DEF NativeLeaves
  <1>22. CASE CloseBegins
    BY <1>22 DEF CloseBegins
  <1>23. CASE StopPorts
    BY <1>23 DEF StopPorts, PortsStop
  <1>24. CASE Join
    BY <1>24 DEF Join
  <1>25. CASE CloseDeactivates
    BY <1>25 DEF CloseDeactivates
  <1>26. CASE DeactivateRefused
    BY <1>26 DEF DeactivateRefused
  <1>27. CASE ShutdownStops
    BY <1>27 DEF ShutdownStops
  <1>28. CASE Shutdown
    BY <1>28 DEF Shutdown
  <1>29. CASE CloseReplaces
    BY <1>29 DEF CloseReplaces
  <1>30. CASE CloseFreesListener
    BY <1>30 DEF CloseFreesListener, shutdownListener, NewChain
  <1>31. CASE CloseEnds
    BY <1>31 DEF CloseEnds
  <1>32. CASE Notified
    BY <1>32 DEF Notified, onPortConnect, NotifierCalls, NotifierAsks, NotifierReturns, NotifierAt
  <1>33. CASE UNCHANGED vars
    BY <1>33
  <1> QED
    BY <1>1, <1>2, <1>3, <1>4, <1>5, <1>6, <1>7, <1>8, <1>9, <1>10, <1>11, <1>12, <1>13, <1>14,
         <1>15, <1>16, <1>17, <1>18, <1>19, <1>20, <1>21, <1>22, <1>23, <1>24, <1>25, <1>26, <1>27,
              <1>28, <1>29, <1>30, <1>31, <1>32, <1>33 DEF Next, AppBegins, AppContinues,
                   RunnerNext, NativeContinues, CloserContinues

\* The ports.
LEMMA PortTypeStep == PortType /\ [Next]_vars => PortType'
  <1> SUFFICES ASSUME PortType, [Next]_vars PROVE PortType'
    OBVIOUS
  <1> USE ClientAssumption DEF PortType, AppAt, Unlock, Release, vars, appVars, closeVars,
       clientVars, chainVars, listenerVars, Port, Control
  <1>1. CASE OpenConnects
    BY <1>1 DEF OpenConnects
  <1>2. CASE OpenInitializes
    BY <1>2 DEF OpenInitializes, OpenFails
  <1>3. CASE OpenRegisters
    BY <1>3 DEF OpenRegisters, OpenFails
  <1>4. CASE OpenListens
    BY <1>4 DEF OpenListens, OpenFails, initialize, initializeAndActivate
  <1>5. CASE CreatePort
    <2>1. newPortID' \in 0 .. MaxPorts
      BY <1>5 DEF CreatePort
    <2>2. ports' \subseteq 0 .. newPortID' - 1
      <3>1. newPortID' = newPortID + 1 /\ newPortID \in Nat
        BY <1>5 DEF CreatePort
      <3>2. 0 .. newPortID - 1 \subseteq 0 .. newPortID
        BY <3>1
      <3>3. newPortID' - 1 = newPortID /\ newPortID \in 0 .. newPortID
        BY <3>1
      <3>4. ports' \subseteq ports \cup {newPortID}
        BY <1>5 DEF CreatePort
      <3> QED
        BY <3>2, <3>3, <3>4
    <2> QED
      BY <1>5, <2>1, <2>2 DEF CreatePort
  <1>6. CASE ClosePort
    BY <1>6 DEF ClosePort
  <1>7. CASE CloserEnters
    BY <1>7 DEF CloserEnters
  <1>8. CASE CloserLeaves
    BY <1>8 DEF CloserLeaves
  <1>9. CASE StartSpawns
    BY <1>9 DEF StartSpawns, RunnerAt
  <1>10. CASE StartReturns
    BY <1>10 DEF StartReturns
  <1>11. ASSUME NEW r \in Runner, RunChecks(r) PROVE PortType'
    BY <1>11 DEF RunChecks, RunnerAt, RunnerDone
  <1>12. ASSUME NEW r \in Runner, RunActivates(r) PROVE PortType'
    BY <1>12 DEF RunActivates, RunnerAt, RunnerDone
  <1>13. ASSUME NEW r \in Runner, RunFollows(r) PROVE PortType'
    BY <1>13 DEF RunFollows
  <1>14. ASSUME NEW r \in Runner, RunEnters(r) PROVE PortType'
    BY <1>14 DEF RunEnters, RunnerAt, RunnerDone
  <1>15. ASSUME NEW r \in Runner, RunAsks(r) PROVE PortType'
    BY <1>15 DEF RunAsks, RunnerAt
  <1>16. ASSUME NEW r \in Runner, RunIsAnswered(r) PROVE PortType'
    BY <1>16 DEF RunIsAnswered, RunnerAt
  <1>17. ASSUME NEW r \in Runner, RunLeaves(r) PROVE PortType'
    BY <1>17 DEF RunLeaves, RunnerDone
  <1>18. CASE NativeCalled
    BY <1>18 DEF NativeCalled
  <1>19. CASE NativeEnters
    BY <1>19 DEF NativeEnters
  <1>20. CASE Cycle
    BY <1>20 DEF Cycle, RunnerAt
  <1>21. CASE NativeLeaves
    BY <1>21 DEF NativeLeaves
  <1>22. CASE CloseBegins
    BY <1>22 DEF CloseBegins
  <1>23. CASE StopPorts
    <2>1. 0 .. newPortID - 1 \subseteq Port
      OBVIOUS
    <2>2. faults' \subseteq faults \cup ports \cup {Control}
      BY <1>23 DEF StopPorts, PortsStop
    <2> QED
      BY <1>23, <2>1, <2>2 DEF StopPorts, PortsStop
  <1>24. CASE Join
    BY <1>24 DEF Join
  <1>25. CASE CloseDeactivates
    BY <1>25 DEF CloseDeactivates
  <1>26. CASE DeactivateRefused
    BY <1>26 DEF DeactivateRefused
  <1>27. CASE ShutdownStops
    BY <1>27 DEF ShutdownStops
  <1>28. CASE Shutdown
    BY <1>28 DEF Shutdown
  <1>29. CASE CloseReplaces
    BY <1>29 DEF CloseReplaces
  <1>30. CASE CloseFreesListener
    BY <1>30 DEF CloseFreesListener, shutdownListener, NewChain
  <1>31. CASE CloseEnds
    BY <1>31 DEF CloseEnds
  <1>32. CASE Notified
    BY <1>32 DEF Notified, onPortConnect, NotifierCalls, NotifierAsks, NotifierReturns, NotifierAt
  <1>33. CASE UNCHANGED vars
    BY <1>33
  <1> QED
    BY <1>1, <1>2, <1>3, <1>4, <1>5, <1>6, <1>7, <1>8, <1>9, <1>10, <1>11, <1>12, <1>13, <1>14,
         <1>15, <1>16, <1>17, <1>18, <1>19, <1>20, <1>21, <1>22, <1>23, <1>24, <1>25, <1>26, <1>27,
              <1>28, <1>29, <1>30, <1>31, <1>32, <1>33 DEF Next, AppBegins, AppContinues,
                   RunnerNext, NativeContinues, CloserContinues

\* The threads.
LEMMA ThreadTypeStep == ChainType /\ PortType /\ ThreadType /\ [Next]_vars => ThreadType'
  <1> SUFFICES ASSUME ChainType, PortType, ThreadType, [Next]_vars PROVE ThreadType'
    OBVIOUS
  <1> USE ClientAssumption DEF ThreadType, AppAt, Unlock, Release, vars, appVars, closeVars,
       clientVars, chainVars, listenerVars, ChainType, PortType, NoThread, NoCloser
  <1>1. CASE OpenConnects
    BY <1>1 DEF OpenConnects
  <1>2. CASE OpenInitializes
    BY <1>2 DEF OpenInitializes, OpenFails
  <1>3. CASE OpenRegisters
    BY <1>3 DEF OpenRegisters, OpenFails
  <1>4. CASE OpenListens
    BY <1>4 DEF OpenListens, OpenFails, initialize, initializeAndActivate
  <1>5. CASE CreatePort
    BY <1>5 DEF CreatePort
  <1>6. CASE ClosePort
    BY <1>6 DEF ClosePort
  <1>7. CASE CloserEnters
    BY <1>7 DEF CloserEnters
  <1>8. CASE CloserLeaves
    BY <1>8 DEF CloserLeaves
  <1>9. CASE StartSpawns
    BY <1>9 DEF StartSpawns, RunnerAt
  <1>10. CASE StartReturns
    <2>1. overdue' \subseteq Runner
      BY <1>10 DEF StartReturns, Latecomers
    <2> QED
      BY <1>10, <2>1 DEF StartReturns
  <1>11. ASSUME NEW r \in Runner, RunChecks(r) PROVE ThreadType'
    BY <1>11 DEF RunChecks, RunnerAt, RunnerDone
  <1>12. ASSUME NEW r \in Runner, RunActivates(r) PROVE ThreadType'
    BY <1>12 DEF RunActivates, RunnerAt, RunnerDone
  <1>13. ASSUME NEW r \in Runner, RunFollows(r) PROVE ThreadType'
    BY <1>13 DEF RunFollows
  <1>14. ASSUME NEW r \in Runner, RunEnters(r) PROVE ThreadType'
    BY <1>14 DEF RunEnters, RunnerAt, RunnerDone
  <1>15. ASSUME NEW r \in Runner, RunAsks(r) PROVE ThreadType'
    BY <1>15 DEF RunAsks, RunnerAt
  <1>16. ASSUME NEW r \in Runner, RunIsAnswered(r) PROVE ThreadType'
    BY <1>16 DEF RunIsAnswered, RunnerAt
  <1>17. ASSUME NEW r \in Runner, RunLeaves(r) PROVE ThreadType'
    BY <1>17 DEF RunLeaves, RunnerDone
  <1>18. CASE NativeCalled
    BY <1>18 DEF NativeCalled
  <1>19. CASE NativeEnters
    BY <1>19 DEF NativeEnters
  <1>20. CASE Cycle
    BY <1>20 DEF Cycle, RunnerAt
  <1>21. CASE NativeLeaves
    BY <1>21 DEF NativeLeaves
  <1>22. CASE CloseBegins
    BY <1>22 DEF CloseBegins
  <1>23. CASE StopPorts
    BY <1>23 DEF StopPorts, PortsStop
  <1>24. CASE Join
    BY <1>24 DEF Join
  <1>25. CASE CloseDeactivates
    BY <1>25 DEF CloseDeactivates
  <1>26. CASE DeactivateRefused
    BY <1>26 DEF DeactivateRefused
  <1>27. CASE ShutdownStops
    BY <1>27 DEF ShutdownStops
  <1>28. CASE Shutdown
    BY <1>28 DEF Shutdown
  <1>29. CASE CloseReplaces
    BY <1>29 DEF CloseReplaces
  <1>30. CASE CloseFreesListener
    BY <1>30 DEF CloseFreesListener, shutdownListener, NewChain
  <1>31. CASE CloseEnds
    BY <1>31 DEF CloseEnds
  <1>32. CASE Notified
    BY <1>32 DEF Notified, onPortConnect, NotifierCalls, NotifierAsks, NotifierReturns, NotifierAt
  <1>33. CASE UNCHANGED vars
    BY <1>33
  <1> QED
    BY <1>1, <1>2, <1>3, <1>4, <1>5, <1>6, <1>7, <1>8, <1>9, <1>10, <1>11, <1>12, <1>13, <1>14,
         <1>15, <1>16, <1>17, <1>18, <1>19, <1>20, <1>21, <1>22, <1>23, <1>24, <1>25, <1>26, <1>27,
              <1>28, <1>29, <1>30, <1>31, <1>32, <1>33 DEF Next, AppBegins, AppContinues,
                   RunnerNext, NativeContinues, CloserContinues

\* The system listener.
LEMMA ListenerTypeStep == ListenerTypeOK /\ [Next]_vars => ListenerTypeOK'
  <1> SUFFICES ASSUME ListenerTypeOK, [Next]_vars PROVE ListenerTypeOK'
    OBVIOUS
  <1> USE ClientAssumption DEF ListenerTypeOK, AppAt, Unlock, Release, vars, appVars,
       closeVars, clientVars, chainVars, listenerVars
  <1>1. CASE OpenConnects
    BY <1>1 DEF OpenConnects
  <1>2. CASE OpenInitializes
    BY <1>2 DEF OpenInitializes, OpenFails
  <1>3. CASE OpenRegisters
    BY <1>3 DEF OpenRegisters, OpenFails
  <1>4. CASE OpenListens
    BY <1>4 DEF OpenListens, OpenFails, initialize, initializeAndActivate
  <1>5. CASE CreatePort
    BY <1>5 DEF CreatePort
  <1>6. CASE ClosePort
    BY <1>6 DEF ClosePort
  <1>7. CASE CloserEnters
    BY <1>7 DEF CloserEnters
  <1>8. CASE CloserLeaves
    BY <1>8 DEF CloserLeaves
  <1>9. CASE StartSpawns
    BY <1>9 DEF StartSpawns, RunnerAt
  <1>10. CASE StartReturns
    BY <1>10 DEF StartReturns
  <1>11. ASSUME NEW r \in Runner, RunChecks(r) PROVE ListenerTypeOK'
    BY <1>11 DEF RunChecks, RunnerAt, RunnerDone
  <1>12. ASSUME NEW r \in Runner, RunActivates(r) PROVE ListenerTypeOK'
    BY <1>12 DEF RunActivates, RunnerAt, RunnerDone
  <1>13. ASSUME NEW r \in Runner, RunFollows(r) PROVE ListenerTypeOK'
    BY <1>13 DEF RunFollows
  <1>14. ASSUME NEW r \in Runner, RunEnters(r) PROVE ListenerTypeOK'
    BY <1>14 DEF RunEnters, RunnerAt, RunnerDone
  <1>15. ASSUME NEW r \in Runner, RunAsks(r) PROVE ListenerTypeOK'
    BY <1>15 DEF RunAsks, RunnerAt
  <1>16. ASSUME NEW r \in Runner, RunIsAnswered(r) PROVE ListenerTypeOK'
    BY <1>16 DEF RunIsAnswered, RunnerAt
  <1>17. ASSUME NEW r \in Runner, RunLeaves(r) PROVE ListenerTypeOK'
    BY <1>17 DEF RunLeaves, RunnerDone
  <1>18. CASE NativeCalled
    BY <1>18 DEF NativeCalled
  <1>19. CASE NativeEnters
    BY <1>19 DEF NativeEnters
  <1>20. CASE Cycle
    BY <1>20 DEF Cycle, RunnerAt
  <1>21. CASE NativeLeaves
    BY <1>21 DEF NativeLeaves
  <1>22. CASE CloseBegins
    BY <1>22 DEF CloseBegins
  <1>23. CASE StopPorts
    BY <1>23 DEF StopPorts, PortsStop
  <1>24. CASE Join
    BY <1>24 DEF Join
  <1>25. CASE CloseDeactivates
    BY <1>25 DEF CloseDeactivates
  <1>26. CASE DeactivateRefused
    BY <1>26 DEF DeactivateRefused
  <1>27. CASE ShutdownStops
    BY <1>27 DEF ShutdownStops
  <1>28. CASE Shutdown
    BY <1>28 DEF Shutdown
  <1>29. CASE CloseReplaces
    BY <1>29 DEF CloseReplaces
  <1>30. CASE CloseFreesListener
    BY <1>30 DEF CloseFreesListener, shutdownListener, NewChain
  <1>31. CASE CloseEnds
    BY <1>31 DEF CloseEnds
  <1>32. CASE Notified
    <2>1. CASE onPortConnect
      BY <2>1 DEF onPortConnect
    <2>2. CASE NotifierCalls
      <3>1. CASE systemListener
        BY <2>2, <3>1 DEF NotifierCalls, NotifierAt
      <3>2. CASE ~systemListener
        BY <2>2, <3>2 DEF NotifierCalls, NotifierAt
      <3> QED
        BY <3>1, <3>2
    <2>3. CASE NotifierAsks
      BY <2>3 DEF NotifierAsks, NotifierAt
    <2>4. CASE NotifierReturns
      BY <2>4 DEF NotifierReturns
    <2> QED
      BY <1>32, <2>1, <2>2, <2>3, <2>4 DEF Notified
  <1>33. CASE UNCHANGED vars
    BY <1>33
  <1> QED
    BY <1>1, <1>2, <1>3, <1>4, <1>5, <1>6, <1>7, <1>8, <1>9, <1>10, <1>11, <1>12, <1>13, <1>14,
         <1>15, <1>16, <1>17, <1>18, <1>19, <1>20, <1>21, <1>22, <1>23, <1>24, <1>25, <1>26, <1>27,
              <1>28, <1>29, <1>30, <1>31, <1>32, <1>33 DEF Next, AppBegins, AppContinues,
                   RunnerNext, NativeContinues, CloserContinues

----------------------------------------------------------------------------
(* What the steps preserve, one part of the invariant at a time. *)

\* The steps of open and close find the chain as the step before has left it.
LEMMA SessionStep ==
  SessionInv /\ ChainType /\ [Next]_vars => SessionInv'
  <1> SUFFICES ASSUME SessionInv, ChainType, [Next]_vars
               PROVE SessionInv'
    OBVIOUS
  <1> USE DEF AppAt, Unlock, Release, vars, appVars, closeVars, clientVars, chainVars,
       listenerVars, SessionInv, ChainType, SetChain
  <1>1. CASE OpenConnects
    BY <1>1 DEF OpenConnects
  <1>2. CASE OpenInitializes
    <2>1. app' = "register" => chain'.state = "initialized"
      BY <1>2 DEF OpenInitializes, OpenFails
    <2>2. app' = "stop" => chain'.state = "running" /\ chain'.last
      BY <1>2 DEF OpenInitializes, OpenFails
    <2>3. app' \in {"replace", "freeListener"} => chain'.state = "deletable"
      BY <1>2 DEF OpenInitializes, OpenFails
    <2>4. app' \in {"replace", "freeListener"} /\ faults' # {} => processException'
      BY <1>2 DEF OpenInitializes, OpenFails
    <2>5. chain'.ended => chain'.last
      BY <1>2 DEF OpenInitializes, OpenFails
    <2>6. chain'.state = "stopped" => chain'.last
      BY <1>2 DEF OpenInitializes, OpenFails
    <2> QED
      BY <2>1, <2>2, <2>3, <2>4, <2>5, <2>6
  <1>3. CASE OpenRegisters
    <2>1. app' = "register" => chain'.state = "initialized"
      BY <1>3 DEF OpenRegisters, OpenFails
    <2>2. app' = "stop" => chain'.state = "running" /\ chain'.last
      BY <1>3 DEF OpenRegisters, OpenFails
    <2>3. app' \in {"replace", "freeListener"} => chain'.state = "deletable"
      BY <1>3 DEF OpenRegisters, OpenFails
    <2>4. app' \in {"replace", "freeListener"} /\ faults' # {} => processException'
      BY <1>3 DEF OpenRegisters, OpenFails
    <2>5. chain'.ended => chain'.last
      BY <1>3 DEF OpenRegisters, OpenFails
    <2>6. chain'.state = "stopped" => chain'.last
      BY <1>3 DEF OpenRegisters, OpenFails
    <2> QED
      BY <2>1, <2>2, <2>3, <2>4, <2>5, <2>6
  <1>4. CASE OpenListens
    BY <1>4 DEF OpenListens, OpenFails, initialize, initializeAndActivate
  <1>5. CASE CreatePort
    BY <1>5 DEF CreatePort
  <1>6. CASE ClosePort
    BY <1>6 DEF ClosePort
  <1>7. CASE CloserEnters
    BY <1>7 DEF CloserEnters
  <1>8. CASE CloserLeaves
    <2>1. app' = "register" => chain'.state = "initialized"
      BY <1>8 DEF CloserLeaves
    <2>2. app' = "stop" => chain'.state = "running" /\ chain'.last
      BY <1>8 DEF CloserLeaves
    <2>3. app' \in {"replace", "freeListener"} => chain'.state = "deletable"
      BY <1>8 DEF CloserLeaves
    <2>4. app' \in {"replace", "freeListener"} /\ faults' # {} => processException'
      BY <1>8 DEF CloserLeaves
    <2>5. chain'.ended => chain'.last
      BY <1>8 DEF CloserLeaves
    <2>6. chain'.state = "stopped" => chain'.last
      BY <1>8 DEF CloserLeaves
    <2> QED
      BY <2>1, <2>2, <2>3, <2>4, <2>5, <2>6
  <1>9. CASE StartSpawns
    BY <1>9 DEF StartSpawns, RunnerAt
  <1>10. CASE StartReturns
    BY <1>10 DEF StartReturns
  <1>11. ASSUME NEW r \in Runner, RunChecks(r) PROVE SessionInv'
    BY <1>11 DEF RunChecks, RunnerAt, RunnerDone
  <1>12. ASSUME NEW r \in Runner, RunActivates(r) PROVE SessionInv'
    BY <1>12 DEF RunActivates, RunnerAt, RunnerDone
  <1>13. ASSUME NEW r \in Runner, RunFollows(r) PROVE SessionInv'
    BY <1>13 DEF RunFollows
  <1>14. ASSUME NEW r \in Runner, RunEnters(r) PROVE SessionInv'
    BY <1>14 DEF RunEnters, RunnerAt, RunnerDone
  <1>15. ASSUME NEW r \in Runner, RunAsks(r) PROVE SessionInv'
    BY <1>15 DEF RunAsks, RunnerAt
  <1>16. ASSUME NEW r \in Runner, RunIsAnswered(r) PROVE SessionInv'
    BY <1>16 DEF RunIsAnswered, RunnerAt
  <1>17. ASSUME NEW r \in Runner, RunLeaves(r) PROVE SessionInv'
    BY <1>17 DEF RunLeaves, RunnerDone
  <1>18. CASE NativeCalled
    BY <1>18 DEF NativeCalled
  <1>19. CASE NativeEnters
    BY <1>19 DEF NativeEnters
  <1>20. CASE Cycle
    BY <1>20 DEF Cycle, RunnerAt
  <1>21. CASE NativeLeaves
    BY <1>21 DEF NativeLeaves
  <1>22. CASE CloseBegins
    <2>1. app' = "register" => chain'.state = "initialized"
      BY <1>22 DEF CloseBegins
    <2>2. app' = "stop" => chain'.state = "running" /\ chain'.last
      BY <1>22 DEF CloseBegins
    <2>3. app' \in {"replace", "freeListener"} => chain'.state = "deletable"
      BY <1>22 DEF CloseBegins
    <2>4. app' \in {"replace", "freeListener"} /\ faults' # {} => processException'
      BY <1>22 DEF CloseBegins
    <2>5. chain'.ended => chain'.last
      BY <1>22 DEF CloseBegins
    <2>6. chain'.state = "stopped" => chain'.last
      BY <1>22 DEF CloseBegins
    <2> QED
      BY <2>1, <2>2, <2>3, <2>4, <2>5, <2>6
  <1>23. CASE StopPorts
    <2>1. app' = "register" => chain'.state = "initialized"
      BY <1>23 DEF StopPorts, PortsStop
    <2>2. app' = "stop" => chain'.state = "running" /\ chain'.last
      BY <1>23 DEF StopPorts, PortsStop
    <2>3. app' \in {"replace", "freeListener"} => chain'.state = "deletable"
      BY <1>23 DEF StopPorts, PortsStop
    <2>4. app' \in {"replace", "freeListener"} /\ faults' # {} => processException'
      BY <1>23 DEF StopPorts, PortsStop
    <2>5. chain'.ended => chain'.last
      BY <1>23 DEF StopPorts, PortsStop
    <2>6. chain'.state = "stopped" => chain'.last
      BY <1>23 DEF StopPorts, PortsStop
    <2> QED
      BY <2>1, <2>2, <2>3, <2>4, <2>5, <2>6
  <1>24. CASE Join
    BY <1>24 DEF Join
  <1>25. CASE CloseDeactivates
    BY <1>25 DEF CloseDeactivates
  <1>26. CASE DeactivateRefused
    BY <1>26 DEF DeactivateRefused
  <1>27. CASE ShutdownStops
    BY <1>27 DEF ShutdownStops
  <1>28. CASE Shutdown
    <2>1. app' = "register" => chain'.state = "initialized"
      BY <1>28 DEF Shutdown
    <2>2. app' = "stop" => chain'.state = "running" /\ chain'.last
      BY <1>28 DEF Shutdown
    <2>3. app' \in {"replace", "freeListener"} => chain'.state = "deletable"
      BY <1>28 DEF Shutdown
    <2>4. app' \in {"replace", "freeListener"} /\ faults' # {} => processException'
      BY <1>28 DEF Shutdown, retrieveProcessException
    <2>5. chain'.ended => chain'.last
      BY <1>28 DEF Shutdown
    <2>6. chain'.state = "stopped" => chain'.last
      BY <1>28 DEF Shutdown
    <2> QED
      BY <2>1, <2>2, <2>3, <2>4, <2>5, <2>6
  <1>29. CASE CloseReplaces
    BY <1>29 DEF CloseReplaces
  <1>30. CASE CloseFreesListener
    <2>1. app' = "register" => chain'.state = "initialized"
      BY <1>30 DEF CloseFreesListener, shutdownListener, NewChain
    <2>2. app' = "stop" => chain'.state = "running" /\ chain'.last
      BY <1>30 DEF CloseFreesListener, shutdownListener, NewChain
    <2>3. app' \in {"replace", "freeListener"} => chain'.state = "deletable"
      BY <1>30 DEF CloseFreesListener, shutdownListener, NewChain
    <2>4. app' \in {"replace", "freeListener"} /\ faults' # {} => processException'
      BY <1>30 DEF CloseFreesListener, shutdownListener, NewChain
    <2>5. chain'.ended => chain'.last
      BY <1>30 DEF CloseFreesListener, shutdownListener, NewChain
    <2>6. chain'.state = "stopped" => chain'.last
      BY <1>30 DEF CloseFreesListener, shutdownListener, NewChain
    <2> QED
      BY <2>1, <2>2, <2>3, <2>4, <2>5, <2>6
  <1>31. CASE CloseEnds
    BY <1>31 DEF CloseEnds
  <1>32. CASE Notified
    BY <1>32 DEF Notified, onPortConnect, NotifierCalls, NotifierAsks, NotifierReturns, NotifierAt
  <1>33. CASE UNCHANGED vars
    BY <1>33
  <1> QED
    BY <1>1, <1>2, <1>3, <1>4, <1>5, <1>6, <1>7, <1>8, <1>9, <1>10, <1>11, <1>12, <1>13, <1>14,
         <1>15, <1>16, <1>17, <1>18, <1>19, <1>20, <1>21, <1>22, <1>23, <1>24, <1>25, <1>26, <1>27,
              <1>28, <1>29, <1>30, <1>31, <1>32, <1>33 DEF Next, AppBegins, AppContinues,
                   RunnerNext, NativeContinues, CloserContinues

\* activatedMutex keeps close and a round apart.
LEMMA RoundStep ==
  RoundInv /\ ThreadType /\ ChainType /\ [Next]_vars => RoundInv'
  <1> SUFFICES ASSUME RoundInv, ThreadType, ChainType, [Next]_vars
               PROVE RoundInv'
    OBVIOUS
  <1> USE DEF AppAt, Unlock, Release, vars, appVars, closeVars, clientVars, chainVars,
       listenerVars, RoundInv, ThreadType, ChainType, NoThread, ActivatedFree, SetChain
  <1>1. CASE OpenConnects
    BY <1>1 DEF OpenConnects
  <1>2. CASE OpenInitializes
    BY <1>2 DEF OpenInitializes, OpenFails
  <1>3. CASE OpenRegisters
    BY <1>3 DEF OpenRegisters, OpenFails
  <1>4. CASE OpenListens
    BY <1>4 DEF OpenListens, OpenFails, initialize, initializeAndActivate
  <1>5. CASE CreatePort
    BY <1>5 DEF CreatePort
  <1>6. CASE ClosePort
    BY <1>6 DEF ClosePort
  <1>7. CASE CloserEnters
    BY <1>7 DEF CloserEnters
  <1>8. CASE CloserLeaves
    BY <1>8 DEF CloserLeaves
  <1>9. CASE StartSpawns
    BY <1>9 DEF StartSpawns, RunnerAt
  <1>10. CASE StartReturns
    BY <1>10 DEF StartReturns
  <1>11. ASSUME NEW r \in Runner, RunChecks(r) PROVE RoundInv'
    BY <1>11 DEF RunChecks, RunnerAt, RunnerDone
  <1>12. ASSUME NEW r \in Runner, RunActivates(r) PROVE RoundInv'
    BY <1>12 DEF RunActivates, RunnerAt, RunnerDone
  <1>13. ASSUME NEW r \in Runner, RunFollows(r) PROVE RoundInv'
    BY <1>13 DEF RunFollows
  <1>14. ASSUME NEW r \in Runner, RunEnters(r) PROVE RoundInv'
    BY <1>14 DEF RunEnters, RunnerAt, RunnerDone
  <1>15. ASSUME NEW r \in Runner, RunAsks(r) PROVE RoundInv'
    BY <1>15 DEF RunAsks, RunnerAt
  <1>16. ASSUME NEW r \in Runner, RunIsAnswered(r) PROVE RoundInv'
    BY <1>16 DEF RunIsAnswered, RunnerAt
  <1>17. ASSUME NEW r \in Runner, RunLeaves(r) PROVE RoundInv'
    BY <1>17 DEF RunLeaves, RunnerDone
  <1>18. CASE NativeCalled
    BY <1>18 DEF NativeCalled
  <1>19. CASE NativeEnters
    BY <1>19 DEF NativeEnters
  <1>20. CASE Cycle
    BY <1>20 DEF Cycle, RunnerAt
  <1>21. CASE NativeLeaves
    BY <1>21 DEF NativeLeaves
  <1>22. CASE CloseBegins
    BY <1>22 DEF CloseBegins
  <1>23. CASE StopPorts
    BY <1>23 DEF StopPorts, PortsStop
  <1>24. CASE Join
    BY <1>24 DEF Join
  <1>25. CASE CloseDeactivates
    BY <1>25 DEF CloseDeactivates
  <1>26. CASE DeactivateRefused
    BY <1>26 DEF DeactivateRefused
  <1>27. CASE ShutdownStops
    BY <1>27 DEF ShutdownStops
  <1>28. CASE Shutdown
    BY <1>28 DEF Shutdown
  <1>29. CASE CloseReplaces
    BY <1>29 DEF CloseReplaces
  <1>30. CASE CloseFreesListener
    BY <1>30 DEF CloseFreesListener, shutdownListener, NewChain
  <1>31. CASE CloseEnds
    BY <1>31 DEF CloseEnds
  <1>32. CASE Notified
    BY <1>32 DEF Notified, onPortConnect, NotifierCalls, NotifierAsks, NotifierReturns, NotifierAt
  <1>33. CASE UNCHANGED vars
    BY <1>33
  <1> QED
    BY <1>1, <1>2, <1>3, <1>4, <1>5, <1>6, <1>7, <1>8, <1>9, <1>10, <1>11, <1>12, <1>13, <1>14,
         <1>15, <1>16, <1>17, <1>18, <1>19, <1>20, <1>21, <1>22, <1>23, <1>24, <1>25, <1>26, <1>27,
              <1>28, <1>29, <1>30, <1>31, <1>32, <1>33 DEF Next, AppBegins, AppContinues,
                   RunnerNext, NativeContinues, CloserContinues

\* A runner that is waited for stays within the session that start and close expect.
LEMMA RunnerStep ==
  RunnerInv /\ SessionInv /\ ThreadType /\ ChainType /\ [Next]_vars => RunnerInv'
  <1> SUFFICES ASSUME RunnerInv, SessionInv, ThreadType, ChainType, [Next]_vars,
                      NEW s \in Runner
               PROVE  RunnerInvOf(s)'
    BY DEF RunnerInv
  <1> USE DEF AppAt, Unlock, Release, vars, appVars, closeVars, clientVars, chainVars,
       listenerVars, RunnerInv, RunnerInvOf, WaitedFor, ChainType, ThreadType, SetChain, Closing
  <1>1. CASE OpenConnects
    <2>1. app = "idle" /\ app' \in {"idle", "initialize"}
      BY <1>1 DEF OpenConnects, Idle
    <2>2. UNCHANGED <<chain, runner, overdue>>
      BY <1>1 DEF OpenConnects
    <2> QED
      BY <2>1, <2>2
  <1>2. CASE OpenInitializes
    BY <1>2 DEF OpenInitializes, OpenFails
  <1>3. CASE OpenRegisters
    <2>1. app = "register" /\ app' \in {"idle", "listen"}
      BY <1>3 DEF OpenRegisters, OpenFails
    <2>2. UNCHANGED <<runner, overdue>> /\ chain'.id = chain.id
      BY <1>3 DEF OpenRegisters, OpenFails
    <2>3. chain.state = "initialized"
      BY <1>3, <2>1 DEF SessionInv
    <2> QED
      BY <2>1, <2>2, <2>3
  <1>4. CASE OpenListens
    BY <1>4 DEF OpenListens, OpenFails, initialize, initializeAndActivate
  <1>5. CASE CreatePort
    BY <1>5 DEF CreatePort
  <1>6. CASE ClosePort
    BY <1>6 DEF ClosePort
  <1>7. CASE CloserEnters
    BY <1>7 DEF CloserEnters
  <1>8. CASE CloserLeaves
    BY <1>8 DEF CloserLeaves
  <1>9. CASE StartSpawns
    <2>1. app = "idle" /\ app' = "awaitCycle"
      BY <1>9 DEF StartSpawns, Idle
    <2>2. UNCHANGED <<chain, overdue>>
      BY <1>9 DEF StartSpawns, RunnerAt
    <2>3. runner'[s].chain = runner[s].chain
      <3>1. PICK r \in Runner : runner[r].at = "unused" /\ runner' = [runner EXCEPT ![r].at = "new"]
        BY <1>9 DEF StartSpawns, RunnerAt
      <3> QED
        BY <3>1
    <2>4. runner'[s].at = runner[s].at \/ (s \notin overdue /\ runner'[s].at = "new")
      <3>1. PICK r \in Runner : runner[r].at = "unused" /\ runner' = [runner EXCEPT ![r].at = "new"]
        BY <1>9 DEF StartSpawns, RunnerAt
      <3>2. CASE s = r
        <4>1. runner'[r].at = "new"
          BY <3>1
        <4>2. r \notin overdue
          BY <3>1
        <4> QED
          BY <3>2, <4>1, <4>2
      <3>3. CASE s # r
        <4>1. runner'[s] = runner[s]
          BY <3>1, <3>3
        <4> QED
          BY <4>1
      <3> QED
        BY <3>2, <3>3
    <2> QED
      BY <2>1, <2>2, <2>3, <2>4
  <1>10. CASE StartReturns
    <2>1. app = "awaitCycle" /\ app' = "idle"
      BY <1>10 DEF StartReturns
    <2>2. UNCHANGED <<chain, runner>>
      BY <1>10 DEF StartReturns
    <2>3. overdue' \subseteq overdue \cup {r \in Runner : runner[r].at # "unused"}
      BY <1>10 DEF StartReturns, Latecomers
    <2>4. s \notin overdue' => s \notin overdue /\ runner[s].at \notin {"new", "checked",
         "activated", "waits"}
      BY <1>10 DEF StartReturns, Latecomers
    <2> QED
      BY <2>1, <2>2, <2>3, <2>4
  <1>11. ASSUME NEW r \in Runner, RunChecks(r) PROVE RunnerInvOf(s)'
    BY <1>11 DEF RunChecks, RunnerAt, RunnerDone
  <1>12. ASSUME NEW r \in Runner, RunActivates(r) PROVE RunnerInvOf(s)'
    BY <1>12 DEF RunActivates, RunnerAt, RunnerDone
  <1>13. ASSUME NEW r \in Runner, RunFollows(r) PROVE RunnerInvOf(s)'
    BY <1>13 DEF RunFollows
  <1>14. ASSUME NEW r \in Runner, RunEnters(r) PROVE RunnerInvOf(s)'
    BY <1>14 DEF RunEnters, RunnerAt, RunnerDone
  <1>15. ASSUME NEW r \in Runner, RunAsks(r) PROVE RunnerInvOf(s)'
    BY <1>15 DEF RunAsks, RunnerAt
  <1>16. ASSUME NEW r \in Runner, RunIsAnswered(r) PROVE RunnerInvOf(s)'
    BY <1>16 DEF RunIsAnswered, RunnerAt
  <1>17. ASSUME NEW r \in Runner, RunLeaves(r) PROVE RunnerInvOf(s)'
    BY <1>17 DEF RunLeaves, RunnerDone
  <1>18. CASE NativeCalled
    BY <1>18 DEF NativeCalled
  <1>19. CASE NativeEnters
    BY <1>19 DEF NativeEnters
  <1>20. CASE Cycle
    <2>1. chain'.id = chain.id /\ chain'.state = chain.state
      BY <1>20 DEF Cycle
    <2>2. UNCHANGED <<app, overdue>>
      BY <1>20 DEF Cycle, RunnerAt
    <2>3. /\ runner'[s].chain = runner[s].chain
          /\ \/ runner'[s].at = runner[s].at
             \/ runner[s].at \in {"inside", "asks", "asksLast"} /\ runner'[s].at = "inside"
      <3>1. PICK r \in Runner : InRunJava(r,
           chain.id) /\ runner' = [runner EXCEPT ![r].at = "inside"]
        BY <1>20 DEF Cycle, RunnerAt
      <3>2. runner[r].at \in {"inside", "asks", "asksLast"}
        BY <3>1 DEF InRunJava
      <3>3. CASE s = r
        <4>1. runner'[r].at = "inside" /\ runner'[r].chain = runner[r].chain
          BY <3>1
        <4> QED
          BY <3>2, <3>3, <4>1
      <3>4. CASE s # r
        <4>1. runner'[s] = runner[s]
          BY <3>1, <3>4
        <4> QED
          BY <4>1
      <3> QED
        BY <3>3, <3>4
    <2> QED
      BY <2>1, <2>2, <2>3
  <1>21. CASE NativeLeaves
    BY <1>21 DEF NativeLeaves
  <1>22. CASE CloseBegins
    <2>1. app = "idle" /\ app' \in {"idle", "stop", "deactivate"}
      BY <1>22 DEF CloseBegins, Idle
    <2>2. UNCHANGED <<runner, overdue>> /\ chain'.id = chain.id /\ chain'.state = chain.state
      BY <1>22 DEF CloseBegins
    <2>3. app' = "deactivate" => chain.state # "running"
      <3>1. CASE isConnected
        BY <1>22, <3>1 DEF CloseBegins
      <3>2. CASE ~isConnected
        BY <1>22, <3>2, <2>1 DEF CloseBegins
      <3> QED
        BY <3>1, <3>2
    <2> QED
      BY <2>1, <2>2, <2>3
  <1>23. CASE StopPorts
    BY <1>23 DEF StopPorts, PortsStop
  <1>24. CASE Join
    <2>1. app = "join" /\ app' \in {"idle", "shutdown", "deactivate"}
      BY <1>24 DEF Join
    <2>2. UNCHANGED <<chain, runner>>
      BY <1>24 DEF Join
    <2>3. app' # "idle" => overdue' = overdue /\ ~InRunJava(s, chain.id)
      BY <1>24 DEF Join, JavaMutexFree
    <2>4. app' = "idle" => overdue' = overdue \cup {r \in Runner : InRunJava(r, chain.id)}
      BY <1>24 DEF Join
    <2> QED
      BY <2>1, <2>2, <2>3, <2>4 DEF InRunJava
  <1>25. CASE CloseDeactivates
    BY <1>25 DEF CloseDeactivates
  <1>26. CASE DeactivateRefused
    BY <1>26 DEF DeactivateRefused
  <1>27. CASE ShutdownStops
    BY <1>27 DEF ShutdownStops
  <1>28. CASE Shutdown
    BY <1>28 DEF Shutdown
  <1>29. CASE CloseReplaces
    BY <1>29 DEF CloseReplaces
  <1>30. CASE CloseFreesListener
    BY <1>30 DEF CloseFreesListener, shutdownListener, NewChain
  <1>31. CASE CloseEnds
    BY <1>31 DEF CloseEnds
  <1>32. CASE Notified
    BY <1>32 DEF Notified, onPortConnect, NotifierCalls, NotifierAsks, NotifierReturns, NotifierAt
  <1>33. CASE UNCHANGED vars
    BY <1>33
  <1> QED
    BY <1>1, <1>2, <1>3, <1>4, <1>5, <1>6, <1>7, <1>8, <1>9, <1>10, <1>11, <1>12, <1>13, <1>14,
         <1>15, <1>16, <1>17, <1>18, <1>19, <1>20, <1>21, <1>22, <1>23, <1>24, <1>25, <1>26, <1>27,
              <1>28, <1>29, <1>30, <1>31, <1>32, <1>33 DEF Next, AppBegins, AppContinues,
                   RunnerNext, NativeContinues, CloserContinues

\* shutdown of the listener and the notifications.
LEMMA NotifierStep ==
  NotifierInv /\ ListenerTypeOK /\ [Next]_vars => NotifierInv'
  <1> SUFFICES ASSUME NotifierInv, ListenerTypeOK, [Next]_vars
               PROVE NotifierInv'
    OBVIOUS
  <1> USE DEF AppAt, Unlock, Release, vars, appVars, closeVars, clientVars, chainVars,
       listenerVars, NotifierInv, ListenerTypeOK
  <1>1. CASE OpenConnects
    BY <1>1 DEF OpenConnects
  <1>2. CASE OpenInitializes
    BY <1>2 DEF OpenInitializes, OpenFails
  <1>3. CASE OpenRegisters
    BY <1>3 DEF OpenRegisters, OpenFails
  <1>4. CASE OpenListens
    BY <1>4 DEF OpenListens, OpenFails, initialize, initializeAndActivate
  <1>5. CASE CreatePort
    BY <1>5 DEF CreatePort
  <1>6. CASE ClosePort
    BY <1>6 DEF ClosePort
  <1>7. CASE CloserEnters
    BY <1>7 DEF CloserEnters
  <1>8. CASE CloserLeaves
    BY <1>8 DEF CloserLeaves
  <1>9. CASE StartSpawns
    BY <1>9 DEF StartSpawns, RunnerAt
  <1>10. CASE StartReturns
    BY <1>10 DEF StartReturns
  <1>11. ASSUME NEW r \in Runner, RunChecks(r) PROVE NotifierInv'
    BY <1>11 DEF RunChecks, RunnerAt, RunnerDone
  <1>12. ASSUME NEW r \in Runner, RunActivates(r) PROVE NotifierInv'
    BY <1>12 DEF RunActivates, RunnerAt, RunnerDone
  <1>13. ASSUME NEW r \in Runner, RunFollows(r) PROVE NotifierInv'
    BY <1>13 DEF RunFollows
  <1>14. ASSUME NEW r \in Runner, RunEnters(r) PROVE NotifierInv'
    BY <1>14 DEF RunEnters, RunnerAt, RunnerDone
  <1>15. ASSUME NEW r \in Runner, RunAsks(r) PROVE NotifierInv'
    BY <1>15 DEF RunAsks, RunnerAt
  <1>16. ASSUME NEW r \in Runner, RunIsAnswered(r) PROVE NotifierInv'
    BY <1>16 DEF RunIsAnswered, RunnerAt
  <1>17. ASSUME NEW r \in Runner, RunLeaves(r) PROVE NotifierInv'
    BY <1>17 DEF RunLeaves, RunnerDone
  <1>18. CASE NativeCalled
    BY <1>18 DEF NativeCalled
  <1>19. CASE NativeEnters
    BY <1>19 DEF NativeEnters
  <1>20. CASE Cycle
    BY <1>20 DEF Cycle, RunnerAt
  <1>21. CASE NativeLeaves
    BY <1>21 DEF NativeLeaves
  <1>22. CASE CloseBegins
    BY <1>22 DEF CloseBegins
  <1>23. CASE StopPorts
    BY <1>23 DEF StopPorts, PortsStop
  <1>24. CASE Join
    BY <1>24 DEF Join
  <1>25. CASE CloseDeactivates
    BY <1>25 DEF CloseDeactivates
  <1>26. CASE DeactivateRefused
    BY <1>26 DEF DeactivateRefused
  <1>27. CASE ShutdownStops
    BY <1>27 DEF ShutdownStops
  <1>28. CASE Shutdown
    BY <1>28 DEF Shutdown
  <1>29. CASE CloseReplaces
    BY <1>29 DEF CloseReplaces
  <1>30. CASE CloseFreesListener
    BY <1>30 DEF CloseFreesListener, shutdownListener, NewChain
  <1>31. CASE CloseEnds
    BY <1>31 DEF CloseEnds
  <1>32. CASE Notified
    BY <1>32 DEF Notified, onPortConnect, NotifierCalls, NotifierAsks, NotifierReturns, NotifierAt
  <1>33. CASE UNCHANGED vars
    BY <1>33
  <1> QED
    BY <1>1, <1>2, <1>3, <1>4, <1>5, <1>6, <1>7, <1>8, <1>9, <1>10, <1>11, <1>12, <1>13, <1>14,
         <1>15, <1>16, <1>17, <1>18, <1>19, <1>20, <1>21, <1>22, <1>23, <1>24, <1>25, <1>26, <1>27,
              <1>28, <1>29, <1>30, <1>31, <1>32, <1>33 DEF Next, AppBegins, AppContinues,
                   RunnerNext, NativeContinues, CloserContinues

\* Whoever disconnects leaves everything as new, or a client behind.
LEMMA ReadyStep ==
  ReadyInv /\ ServerType /\ ChainType /\ [Next]_vars => ReadyInv'
  <1> SUFFICES ASSUME ReadyInv, ServerType, ChainType, [Next]_vars
               PROVE ReadyInv'
    OBVIOUS
  <1> USE DEF AppAt, Unlock, Release, vars, appVars, closeVars, clientVars, chainVars,
       listenerVars, ReadyInv, AsNew, LeftOver, ServerType, ChainType, Client, Idle, SetChain
  <1>1. CASE OpenConnects
    <2>1. /\ app = "idle" /\ ~isConnected /\ UNCHANGED <<chain, listener>>
      BY <1>1 DEF OpenConnects
    <2>2. CASE UNCHANGED <<app, isConnected, server>>
      BY <2>1, <2>2
    <2>3. CASE /\ granted < MaxSessions /\ clientId' = granted + 1
               /\ server' = [server EXCEPT ![granted + 1] = "open"]
               /\ app' = app \/ app' = "initialize"
      <3>1. granted + 1 \in Client /\ clientId' = granted + 1
        BY <2>3, ClientAssumption
      <3>2. server'[granted + 1] = "open"
        BY <2>3, <3>1
      <3>3. LeftOver'
        BY <3>1, <3>2
      <3> QED
        BY <2>1, <2>3, <3>1, <3>2, <3>3
    <2> QED
      BY <1>1, <2>2, <2>3 DEF OpenConnects
  <1>2. CASE OpenInitializes
    BY <1>2 DEF OpenInitializes, OpenFails
  <1>3. CASE OpenRegisters
    BY <1>3 DEF OpenRegisters, OpenFails
  <1>4. CASE OpenListens
    BY <1>4 DEF OpenListens, OpenFails, initialize, initializeAndActivate
  <1>5. CASE CreatePort
    BY <1>5 DEF CreatePort
  <1>6. CASE ClosePort
    BY <1>6 DEF ClosePort
  <1>7. CASE CloserEnters
    BY <1>7 DEF CloserEnters
  <1>8. CASE CloserLeaves
    BY <1>8 DEF CloserLeaves
  <1>9. CASE StartSpawns
    BY <1>9 DEF StartSpawns, RunnerAt
  <1>10. CASE StartReturns
    BY <1>10 DEF StartReturns
  <1>11. ASSUME NEW r \in Runner, RunChecks(r) PROVE ReadyInv'
    BY <1>11 DEF RunChecks, RunnerAt, RunnerDone
  <1>12. ASSUME NEW r \in Runner, RunActivates(r) PROVE ReadyInv'
    BY <1>12 DEF RunActivates, RunnerAt, RunnerDone
  <1>13. ASSUME NEW r \in Runner, RunFollows(r) PROVE ReadyInv'
    BY <1>13 DEF RunFollows
  <1>14. ASSUME NEW r \in Runner, RunEnters(r) PROVE ReadyInv'
    BY <1>14 DEF RunEnters, RunnerAt, RunnerDone
  <1>15. ASSUME NEW r \in Runner, RunAsks(r) PROVE ReadyInv'
    BY <1>15 DEF RunAsks, RunnerAt
  <1>16. ASSUME NEW r \in Runner, RunIsAnswered(r) PROVE ReadyInv'
    BY <1>16 DEF RunIsAnswered, RunnerAt
  <1>17. ASSUME NEW r \in Runner, RunLeaves(r) PROVE ReadyInv'
    BY <1>17 DEF RunLeaves, RunnerDone
  <1>18. CASE NativeCalled
    BY <1>18 DEF NativeCalled
  <1>19. CASE NativeEnters
    BY <1>19 DEF NativeEnters
  <1>20. CASE Cycle
    BY <1>20 DEF Cycle, RunnerAt
  <1>21. CASE NativeLeaves
    BY <1>21 DEF NativeLeaves
  <1>22. CASE CloseBegins
    BY <1>22 DEF CloseBegins
  <1>23. CASE StopPorts
    BY <1>23 DEF StopPorts, PortsStop
  <1>24. CASE Join
    BY <1>24 DEF Join
  <1>25. CASE CloseDeactivates
    BY <1>25 DEF CloseDeactivates
  <1>26. CASE DeactivateRefused
    BY <1>26 DEF DeactivateRefused
  <1>27. CASE ShutdownStops
    BY <1>27 DEF ShutdownStops
  <1>28. CASE Shutdown
    <2>1. app' = "replace" \/ (app' = "idle" /\ isConnected' = isConnected)
      BY <1>28 DEF Shutdown
    <2>2. isConnected
      BY <1>28 DEF Shutdown
    <2> QED
      BY <2>1, <2>2
  <1>29. CASE CloseReplaces
    BY <1>29 DEF CloseReplaces
  <1>30. CASE CloseFreesListener
    BY <1>30 DEF CloseFreesListener, shutdownListener, NewChain
  <1>31. CASE CloseEnds
    BY <1>31 DEF CloseEnds
  <1>32. CASE Notified
    BY <1>32 DEF Notified, onPortConnect, NotifierCalls, NotifierAsks, NotifierReturns, NotifierAt
  <1>33. CASE UNCHANGED vars
    BY <1>33
  <1> QED
    BY <1>1, <1>2, <1>3, <1>4, <1>5, <1>6, <1>7, <1>8, <1>9, <1>10, <1>11, <1>12, <1>13, <1>14,
         <1>15, <1>16, <1>17, <1>18, <1>19, <1>20, <1>21, <1>22, <1>23, <1>24, <1>25, <1>26, <1>27,
              <1>28, <1>29, <1>30, <1>31, <1>32, <1>33 DEF Next, AppBegins, AppContinues,
                   RunnerNext, NativeContinues, CloserContinues

----------------------------------------------------------------------------
(* Refinement: a step of the client is a step of ChainLife, or changes nothing there. *)

\* Nothing that ChainLife knows of the chain has changed.
SameChain == chain'.state = chain.state /\ chain'.last = chain.last /\ chain'.id = chain.id

\* The same runners are in runJava of jackPortChain.
SameWorkers == \A r \in Runner : InRunJava(r, chain.id)' <=> InRunJava(r, chain.id)

\* worker of ChainLife.
Worker == ~JavaMutexFree(chain.id)

\* If the same runners are in runJava of jackPortChain, worker does not change.
LEMMA SameWorker == SameWorkers => Worker' = Worker
  <1> SUFFICES ASSUME SameWorkers PROVE Worker' = Worker
    OBVIOUS
  <1>1. JavaMutexFree(chain.id)' <=> JavaMutexFree(chain.id)
    BY DEF SameWorkers, JavaMutexFree
  <1> QED
    BY <1>1 DEF Worker

\* A step that changes nothing that ChainLife knows of is a step of it.
LEMMA Stutters == SameChain /\ Worker' = Worker => [Life!Next]_(Life!vars)
  BY DEF SameChain, Worker, Life!vars

\* Every step of the client is a step of ChainLife or leaves its variables as they are.
LEMMA LifeStep ==
  SessionInv /\ RunnerInv /\ ThreadType /\ ChainType /\ [Next]_vars => [Life!Next]_(Life!vars)
  <1> SUFFICES ASSUME SessionInv, RunnerInv, ThreadType, ChainType, [Next]_vars
               PROVE  [Life!Next]_(Life!vars)
    OBVIOUS
  <1> USE DEF AppAt, Unlock, Release, vars, appVars, closeVars, clientVars, chainVars,
       listenerVars, ChainType, ThreadType, SetChain, InRunJava
  <1>1. CASE OpenConnects
    <2>1. SameChain
      BY <1>1 DEF SameChain, OpenConnects
    <2>2. SameWorkers
      BY <1>1, <2>1 DEF SameWorkers, OpenConnects
    <2> QED
      BY <2>1, <2>2, SameWorker, Stutters
  <1>2. CASE OpenInitializes
    <2>1. SameWorkers
      BY <1>2 DEF SameWorkers, OpenInitializes, OpenFails
    <2>2. CASE SameChain
      BY <2>1, <2>2, SameWorker, Stutters
    <2>3. CASE chain.state = "created" /\ chain'.state = "initialized" /\ chain'.last = chain.last
      BY <2>1, <2>3, SameWorker DEF Worker, Life!Next, Life!Initialize
    <2>4. SameChain \/ (chain.state = "created" /\ chain'.state = "initialized"
         /\ chain'.last = chain.last)
      BY <1>2 DEF SameChain, OpenInitializes, OpenFails
    <2> QED
      BY <2>2, <2>3, <2>4
  <1>3. CASE OpenRegisters
    <2>1. SameWorkers
      BY <1>3 DEF SameWorkers, OpenRegisters, OpenFails
    <2>2. CASE SameChain
      BY <2>1, <2>2, SameWorker, Stutters
    <2>3. CASE chain.state = "initialized" /\ chain'.state = "registered"
         /\ chain'.last = chain.last
      BY <2>1, <2>3, SameWorker DEF Worker, Life!Next, Life!RegisterAtServer
    <2>4. SameChain \/ (chain.state = "initialized" /\ chain'.state = "registered"
         /\ chain'.last = chain.last)
      BY <1>3 DEF SameChain, OpenRegisters, OpenFails, SessionInv
    <2> QED
      BY <2>2, <2>3, <2>4
  <1>4. CASE OpenListens
    <2>1. SameChain
      BY <1>4 DEF SameChain, OpenListens, OpenFails, initialize, initializeAndActivate
    <2>2. SameWorkers
      BY <1>4, <2>1 DEF SameWorkers, OpenListens, OpenFails, initialize, initializeAndActivate
    <2> QED
      BY <2>1, <2>2, SameWorker, Stutters
  <1>5. CASE CreatePort
    <2>1. SameChain
      BY <1>5 DEF SameChain, CreatePort
    <2>2. SameWorkers
      BY <1>5, <2>1 DEF SameWorkers, CreatePort
    <2> QED
      BY <2>1, <2>2, SameWorker, Stutters
  <1>6. CASE ClosePort
    <2>1. SameChain
      BY <1>6 DEF SameChain, ClosePort
    <2>2. SameWorkers
      BY <1>6, <2>1 DEF SameWorkers, ClosePort
    <2> QED
      BY <2>1, <2>2, SameWorker, Stutters
  <1>7. CASE CloserEnters
    <2>1. SameChain
      BY <1>7 DEF SameChain, CloserEnters
    <2>2. SameWorkers
      BY <1>7, <2>1 DEF SameWorkers, CloserEnters
    <2> QED
      BY <2>1, <2>2, SameWorker, Stutters
  <1>8. CASE CloserLeaves
    <2>1. SameChain
      BY <1>8 DEF SameChain, CloserLeaves
    <2>2. SameWorkers
      BY <1>8, <2>1 DEF SameWorkers, CloserLeaves
    <2> QED
      BY <2>1, <2>2, SameWorker, Stutters
  <1>9. CASE StartSpawns
    <2>1. SameChain
      BY <1>9 DEF SameChain, StartSpawns, RunnerAt
    <2>2. SameWorkers
      <3>1. PICK r \in Runner : runner[r].at = "unused" /\ runner' = [runner EXCEPT ![r].at = "new"]
        BY <1>9 DEF StartSpawns, RunnerAt
      <3> SUFFICES ASSUME NEW s \in Runner
                   PROVE  InRunJava(s, chain.id)' <=> InRunJava(s, chain.id)
        BY DEF SameWorkers
      <3>2. runner'[s].chain = runner[s].chain
        BY <3>1
      <3>3. runner'[s].at = runner[s].at \/ (runner[s].at = "unused" /\ runner'[s].at = "new")
        BY <3>1
      <3> QED
        BY <2>1, <3>2, <3>3 DEF SameChain
    <2> QED
      BY <2>1, <2>2, SameWorker, Stutters
  <1>10. CASE StartReturns
    <2>1. SameChain
      BY <1>10 DEF SameChain, StartReturns
    <2>2. SameWorkers
      BY <1>10, <2>1 DEF SameWorkers, StartReturns
    <2> QED
      BY <2>1, <2>2, SameWorker, Stutters
  <1>11. ASSUME NEW r \in Runner, RunChecks(r) PROVE [Life!Next]_(Life!vars)
    <2>1. SameChain
      BY <1>11 DEF SameChain, RunChecks, RunnerAt, RunnerDone
    <2>2. SameWorkers
      BY <1>11, <2>1 DEF SameWorkers, RunChecks, RunnerAt, RunnerDone
    <2> QED
      BY <2>1, <2>2, SameWorker, Stutters
  <1>12. ASSUME NEW r \in Runner, RunActivates(r) PROVE [Life!Next]_(Life!vars)
    <2>1. SameWorkers
      BY <1>12 DEF SameWorkers, RunActivates, RunnerAt, RunnerDone
    <2>2. CASE SameChain
      BY <2>1, <2>2, SameWorker, Stutters
    <2>3. CASE chain.state = "registered" /\ chain'.state = "running" /\ chain'.last = chain.last
      BY <2>1, <2>3, SameWorker DEF Worker, Life!Next, Life!Start
    <2>4. SameChain \/ (chain.state = "registered" /\ chain'.state = "running"
         /\ chain'.last = chain.last)
      BY <1>12 DEF SameChain, RunActivates, RunnerAt, RunnerDone
    <2> QED
      BY <2>2, <2>3, <2>4
  <1>13. ASSUME NEW r \in Runner, RunFollows(r) PROVE [Life!Next]_(Life!vars)
    <2>1. SameChain
      BY <1>13 DEF SameChain, RunFollows
    <2>2. SameWorkers
      BY <1>13, <2>1 DEF SameWorkers, RunFollows
    <2> QED
      BY <2>1, <2>2, SameWorker, Stutters
  <1>14. ASSUME NEW r \in Runner, RunEnters(r) PROVE [Life!Next]_(Life!vars)
    <2>1. SameChain
      BY <1>14 DEF SameChain, RunEnters, RunnerAt, RunnerDone
    <2>2. CASE SameWorkers
      BY <2>1, <2>2, SameWorker, Stutters
    <2>3. CASE InRunJava(r, chain.id)'
      <3>1. Worker' = TRUE
        BY <2>3 DEF Worker, JavaMutexFree
      <3> QED
        BY <2>1, <3>1 DEF SameChain, Worker, Life!Next, Life!Enter
    <2>4. SameWorkers \/ InRunJava(r, chain.id)'
      BY <1>14 DEF SameWorkers, RunEnters, RunnerAt, RunnerDone
    <2> QED
      BY <2>2, <2>3, <2>4
  <1>15. ASSUME NEW r \in Runner, RunAsks(r) PROVE [Life!Next]_(Life!vars)
    <2>1. SameChain
      BY <1>15 DEF SameChain, RunAsks, RunnerAt
    <2>2. SameWorkers
      BY <1>15, <2>1 DEF SameWorkers, RunAsks, RunnerAt
    <2> QED
      BY <2>1, <2>2, SameWorker, Stutters
  <1>16. ASSUME NEW r \in Runner, RunIsAnswered(r) PROVE [Life!Next]_(Life!vars)
    <2>1. SameChain
      BY <1>16 DEF SameChain, RunIsAnswered, RunnerAt
    <2>2. SameWorkers
      BY <1>16, <2>1 DEF SameWorkers, RunIsAnswered, RunnerAt
    <2> QED
      BY <2>1, <2>2, SameWorker, Stutters
  <1>17. ASSUME NEW r \in Runner, RunLeaves(r) PROVE [Life!Next]_(Life!vars)
    <2>1. SameChain
      BY <1>17 DEF SameChain, RunLeaves, RunnerDone
    <2>2. CASE SameWorkers
      BY <2>1, <2>2, SameWorker, Stutters
    <2>3. CASE runner[r].chain = chain.id /\ JavaMutexFree(chain.id)'
      <3>1. chain.last \/ chain.state \in {"unregistered", "deletable"}
        BY <1>17, <2>3 DEF RunLeaves, SessionInv
      <3>2. Worker' = FALSE
        BY <2>3 DEF Worker
      <3> QED
        BY <2>1, <3>1, <3>2 DEF SameChain, Worker, Life!Next, Life!Leave
    <2>4. CASE runner[r].chain = chain.id /\ ~JavaMutexFree(chain.id)'
      <3>1. Worker /\ Worker'
        BY <1>17, <2>4 DEF Worker, JavaMutexFree, RunLeaves, RunnerDone
      <3>2. Worker' = Worker
        BY <3>1 DEF Worker
      <3> QED
        BY <2>1, <3>2, Stutters
    <2>5. runner[r].chain # chain.id => SameWorkers
      BY <1>17, <2>1 DEF SameWorkers, SameChain, RunLeaves, RunnerDone
    <2> QED
      BY <2>2, <2>3, <2>4, <2>5
  <1>18. CASE NativeCalled
    <2>1. SameChain
      BY <1>18 DEF SameChain, NativeCalled
    <2>2. SameWorkers
      BY <1>18, <2>1 DEF SameWorkers, NativeCalled
    <2> QED
      BY <2>1, <2>2, SameWorker, Stutters
  <1>19. CASE NativeEnters
    <2>1. SameChain
      BY <1>19 DEF SameChain, NativeEnters
    <2>2. SameWorkers
      BY <1>19, <2>1 DEF SameWorkers, NativeEnters
    <2> QED
      BY <2>1, <2>2, SameWorker, Stutters
  <1>20. CASE Cycle
    <2>1. SameChain
      BY <1>20 DEF SameChain, Cycle, RunnerAt
    <2>2. SameWorkers
      <3>1. PICK r \in Runner : InRunJava(r,
           chain.id) /\ runner' = [runner EXCEPT ![r].at = "inside"]
        BY <1>20 DEF Cycle, RunnerAt
      <3> SUFFICES ASSUME NEW s \in Runner
                   PROVE  InRunJava(s, chain.id)' <=> InRunJava(s, chain.id)
        BY DEF SameWorkers
      <3>2. runner'[s].chain = runner[s].chain
        BY <3>1
      <3>3. runner'[s].at = runner[s].at \/ ({runner[s].at, runner'[s].at} \subseteq
           {"inside", "asks", "asksLast"})
        BY <3>1
      <3> QED
        BY <2>1, <3>2, <3>3 DEF SameChain
    <2> QED
      BY <2>1, <2>2, SameWorker, Stutters
  <1>21. CASE NativeLeaves
    <2>1. SameChain
      BY <1>21 DEF SameChain, NativeLeaves
    <2>2. SameWorkers
      BY <1>21, <2>1 DEF SameWorkers, NativeLeaves
    <2> QED
      BY <2>1, <2>2, SameWorker, Stutters
  <1>22. CASE CloseBegins
    <2>1. SameWorkers
      BY <1>22 DEF SameWorkers, CloseBegins
    <2>2. CASE SameChain
      BY <2>1, <2>2, SameWorker, Stutters
    <2>3. CASE chain.state = "running" /\ chain'.state = chain.state /\ chain'.last
      BY <2>1, <2>3, SameWorker DEF Worker, Life!Next, Life!Announce
    <2>4. SameChain \/ (chain.state = "running" /\ chain'.state = chain.state /\ chain'.last)
      BY <1>22 DEF SameChain, CloseBegins
    <2> QED
      BY <2>2, <2>3, <2>4
  <1>23. CASE StopPorts
    <2>1. SameWorkers
      BY <1>23 DEF SameWorkers, StopPorts, PortsStop
    <2>2. CASE SameChain
      BY <2>1, <2>2, SameWorker, Stutters
    <2>3. CASE chain.state = "running" /\ chain.last /\ chain'.state = "stopped"
         /\ chain'.last = chain.last
      BY <2>1, <2>3, SameWorker DEF Worker, Life!Next, Life!Stop
    <2>4. SameChain \/ (chain.state = "running" /\ chain.last /\ chain'.state = "stopped"
         /\ chain'.last = chain.last)
      BY <1>23 DEF SameChain, StopPorts, PortsStop, SessionInv
    <2> QED
      BY <2>2, <2>3, <2>4
  <1>24. CASE Join
    <2>1. SameChain
      BY <1>24 DEF SameChain, Join
    <2>2. SameWorkers
      BY <1>24, <2>1 DEF SameWorkers, Join
    <2> QED
      BY <2>1, <2>2, SameWorker, Stutters
  <1>25. CASE CloseDeactivates
    <2>1. SameChain
      BY <1>25 DEF SameChain, CloseDeactivates
    <2>2. SameWorkers
      BY <1>25, <2>1 DEF SameWorkers, CloseDeactivates
    <2> QED
      BY <2>1, <2>2, SameWorker, Stutters
  <1>26. CASE DeactivateRefused
    <2>1. SameChain
      BY <1>26 DEF SameChain, DeactivateRefused
    <2>2. SameWorkers
      BY <1>26, <2>1 DEF SameWorkers, DeactivateRefused
    <2> QED
      BY <2>1, <2>2, SameWorker, Stutters
  <1>27. CASE ShutdownStops
    <2>1. SameWorkers
      BY <1>27 DEF SameWorkers, ShutdownStops
    <2>2. CASE SameChain
      BY <2>1, <2>2, SameWorker, Stutters
    <2>3. CASE chain.state = "running" /\ chain'.state = chain.state /\ chain'.last
      BY <2>1, <2>3, SameWorker DEF Worker, Life!Next, Life!Announce
    <2>4. SameChain \/ (chain.state = "running" /\ chain'.state = chain.state /\ chain'.last)
      BY <1>27 DEF SameChain, ShutdownStops
    <2> QED
      BY <2>2, <2>3, <2>4
  <1>28. CASE Shutdown
    <2>1. SameWorkers
      BY <1>28 DEF SameWorkers, Shutdown
    <2>2. CASE SameChain
      BY <2>1, <2>2, SameWorker, Stutters
    <2>3. CASE /\ chain.state # "running" /\ chain'.last = chain.last
               /\ \/ chain'.state = "deletable"
                  \/ chain.state \in {"registered", "stopped"} /\ chain'.state = "unregistered"
      BY <2>1, <2>3, SameWorker DEF Worker, Life!Next, Life!Shutdown
    <2>4. \/ SameChain
         \/ /\ chain.state # "running" /\ chain'.last = chain.last
            /\ \/ chain'.state = "deletable"
               \/ chain.state \in {"registered", "stopped"} /\ chain'.state = "unregistered"
      <3>1. chain.state # "running"
        BY <1>28 DEF Shutdown
      <3>2. CASE SetChain("deletable")
        BY <3>1, <3>2
      <3>3. CASE ~SetChain("deletable")
        <4>1. PICK state \in {chain.state} \cup
                        (IF chain.state \in {"registered",
                             "stopped"} THEN {"unregistered"} ELSE {}) :
                chain' = [chain EXCEPT !.state = state, !.jammed = TRUE]
          BY <1>28, <3>3 DEF Shutdown
        <4>2. chain'.last = chain.last /\ chain'.id = chain.id /\ chain'.state = state
          BY <4>1
        <4>3. state = chain.state \/ (chain.state \in {"registered",
             "stopped"} /\ state = "unregistered")
          BY <4>1
        <4> QED
          BY <3>1, <4>2, <4>3 DEF SameChain
      <3> QED
        BY <3>2, <3>3
    <2> QED
      BY <2>2, <2>3, <2>4
  <1>29. CASE CloseReplaces
    <2>1. SameChain
      BY <1>29 DEF SameChain, CloseReplaces
    <2>2. SameWorkers
      BY <1>29, <2>1 DEF SameWorkers, CloseReplaces
    <2> QED
      BY <2>1, <2>2, SameWorker, Stutters
  <1>30. CASE CloseFreesListener
    <2>1. chain.state = "deletable"
      BY <1>30 DEF SessionInv, CloseFreesListener, shutdownListener, NewChain
    <2>2. chain'.state = "created" /\ chain'.last = FALSE /\ chain'.id = chain.id + 1
      BY <1>30 DEF CloseFreesListener, shutdownListener, NewChain
    <2>3. \A s \in Runner : ~InRunJava(s, chain.id)'
      BY <1>30, <2>2 DEF RunnerInv, RunnerInvOf, CloseFreesListener, shutdownListener, NewChain
    <2>4. Worker' = FALSE
      BY <2>3 DEF Worker, JavaMutexFree
    <2> QED
      BY <2>1, <2>2, <2>4 DEF Worker, Life!Next, Life!Renew
  <1>31. CASE CloseEnds
    <2>1. SameChain
      BY <1>31 DEF SameChain, CloseEnds
    <2>2. SameWorkers
      BY <1>31, <2>1 DEF SameWorkers, CloseEnds
    <2> QED
      BY <2>1, <2>2, SameWorker, Stutters
  <1>32. CASE Notified
    <2>1. SameChain
      BY <1>32 DEF SameChain, Notified, onPortConnect, NotifierCalls, NotifierAsks,
           NotifierReturns, NotifierAt
    <2>2. SameWorkers
      BY <1>32, <2>1 DEF SameWorkers, Notified, onPortConnect, NotifierCalls, NotifierAsks,
           NotifierReturns, NotifierAt
    <2> QED
      BY <2>1, <2>2, SameWorker, Stutters
  <1>33. CASE UNCHANGED vars
    BY <1>33, SameWorker, Stutters DEF SameChain, SameWorkers
  <1> QED
    BY <1>1, <1>2, <1>3, <1>4, <1>5, <1>6, <1>7, <1>8, <1>9, <1>10, <1>11, <1>12, <1>13, <1>14,
         <1>15, <1>16, <1>17, <1>18, <1>19, <1>20, <1>21, <1>22, <1>23, <1>24, <1>25, <1>26, <1>27,
              <1>28, <1>29, <1>30, <1>31, <1>32, <1>33 DEF Next, AppBegins, AppContinues,
                   RunnerNext, NativeContinues, CloserContinues

----------------------------------------------------------------------------
\* An exception is due from the replacement of its chain to the end of that close, which
\* has found it.
LEMMA ReportStep == SessionInv /\ ReportInv /\ [Next]_vars => ReportInv'
  <1> SUFFICES ASSUME SessionInv, ReportInv, [Next]_vars PROVE ReportInv'
    OBVIOUS
  <1> USE DEF ReportInv, Idle, AppAt, Unlock, Release, vars, appVars, closeVars, clientVars,
       chainVars, listenerVars
  <1>1. CASE OpenConnects
    BY <1>1 DEF OpenConnects
  <1>2. CASE OpenInitializes
    BY <1>2 DEF OpenInitializes, OpenFails
  <1>3. CASE OpenRegisters
    BY <1>3 DEF OpenRegisters, OpenFails
  <1>4. CASE OpenListens
    BY <1>4 DEF OpenListens, OpenFails, initialize, initializeAndActivate
  <1>5. CASE CreatePort
    BY <1>5 DEF CreatePort
  <1>6. CASE ClosePort
    BY <1>6 DEF ClosePort
  <1>7. CASE CloserEnters
    BY <1>7 DEF CloserEnters
  <1>8. CASE CloserLeaves
    BY <1>8 DEF CloserLeaves
  <1>9. CASE StartSpawns
    BY <1>9 DEF StartSpawns, RunnerAt
  <1>10. CASE StartReturns
    BY <1>10 DEF StartReturns
  <1>11. ASSUME NEW r \in Runner, RunChecks(r) PROVE ReportInv'
    BY <1>11 DEF RunChecks, RunnerAt, RunnerDone
  <1>12. ASSUME NEW r \in Runner, RunActivates(r) PROVE ReportInv'
    BY <1>12 DEF RunActivates, RunnerAt, RunnerDone
  <1>13. ASSUME NEW r \in Runner, RunFollows(r) PROVE ReportInv'
    BY <1>13 DEF RunFollows
  <1>14. ASSUME NEW r \in Runner, RunEnters(r) PROVE ReportInv'
    BY <1>14 DEF RunEnters, RunnerAt, RunnerDone
  <1>15. ASSUME NEW r \in Runner, RunAsks(r) PROVE ReportInv'
    BY <1>15 DEF RunAsks, RunnerAt
  <1>16. ASSUME NEW r \in Runner, RunIsAnswered(r) PROVE ReportInv'
    BY <1>16 DEF RunIsAnswered, RunnerAt
  <1>17. ASSUME NEW r \in Runner, RunLeaves(r) PROVE ReportInv'
    BY <1>17 DEF RunLeaves, RunnerDone
  <1>18. CASE NativeCalled
    BY <1>18 DEF NativeCalled
  <1>19. CASE NativeEnters
    BY <1>19 DEF NativeEnters
  <1>20. CASE Cycle
    BY <1>20 DEF Cycle, RunnerAt
  <1>21. CASE NativeLeaves
    BY <1>21 DEF NativeLeaves
  <1>22. CASE CloseBegins
    BY <1>22 DEF CloseBegins
  <1>23. CASE StopPorts
    BY <1>23 DEF StopPorts, PortsStop
  <1>24. CASE Join
    BY <1>24 DEF Join
  <1>25. CASE CloseDeactivates
    BY <1>25 DEF CloseDeactivates
  <1>26. CASE DeactivateRefused
    BY <1>26 DEF DeactivateRefused
  <1>27. CASE ShutdownStops
    BY <1>27 DEF ShutdownStops
  <1>28. CASE Shutdown
    BY <1>28 DEF Shutdown
  <1>29. CASE CloseReplaces
    BY <1>29 DEF CloseReplaces
  <1>30. CASE CloseFreesListener
    BY <1>30 DEF SessionInv, CloseFreesListener, shutdownListener, NewChain
  <1>31. CASE CloseEnds
    BY <1>31 DEF CloseEnds
  <1>32. CASE Notified
    BY <1>32 DEF Notified, onPortConnect, NotifierCalls, NotifierAsks, NotifierReturns, NotifierAt
  <1>33. CASE UNCHANGED vars
    BY <1>33
  <1> QED
    BY <1>1, <1>2, <1>3, <1>4, <1>5, <1>6, <1>7, <1>8, <1>9, <1>10, <1>11, <1>12, <1>13, <1>14,
         <1>15, <1>16, <1>17, <1>18, <1>19, <1>20, <1>21, <1>22, <1>23, <1>24, <1>25, <1>26, <1>27,
              <1>28, <1>29, <1>30, <1>31, <1>32, <1>33 DEF Next, AppBegins, AppContinues,
                   RunnerNext, NativeContinues, CloserContinues

\* The invariant holds at the beginning.
LEMMA InitInv == Init => ClientInv
  <1> SUFFICES ASSUME Init PROVE ClientInv
    OBVIOUS
  <1> USE DEF Init
  <1>1. AppType /\ ServerType
    <2>1. AppType
      BY DEF AppType
    <2>2. ServerType
      BY ClientAssumption DEF ServerType
    <2> QED
      BY <2>1, <2>2
  <1>2. ChainType /\ PortType
    BY ClientAssumption DEF ChainType, PortType, NewChain
  <1>3. ThreadType /\ ListenerTypeOK
    BY DEF ThreadType, ListenerTypeOK, ListenerInit, NoThread, NoCloser
  <1>4. SessionInv /\ RoundInv /\ NotifierInv
    BY DEF SessionInv, RoundInv, NotifierInv, ListenerInit, NoThread, NewChain
  <1>5. RunnerInv
    BY DEF RunnerInv, RunnerInvOf, WaitedFor, NewChain
  <1>6. ReadyInv
    BY DEF ReadyInv, AsNew, LeftOver, NewChain, ListenerInit
  <1>7. ReportInv
    BY DEF ReportInv
  <1> QED
    BY <1>1, <1>2, <1>3, <1>4, <1>5, <1>6, <1>7 DEF ClientInv, TypeOK

\* Every step preserves it.
LEMMA InvStep == ClientInv /\ [Next]_vars => ClientInv'
  BY AppTypeStep, ServerTypeStep, ChainTypeStep, PortTypeStep, ThreadTypeStep, ListenerTypeStep,
     SessionStep, RoundStep, RunnerStep, NotifierStep, ReadyStep, ReportStep
     DEF ClientInv, TypeOK

----------------------------------------------------------------------------

\* The inductive invariant holds in every reachable state, for any number of threads
\* that start creates.
THEOREM ClientInvHolds == Spec => []ClientInv
  BY InitInv, InvStep, PTL DEF Spec

\* The variables of the client and of the system listener have their types.
THEOREM ClientTypeCorrect == Spec => []TypeOK
  <1>1. ClientInv => TypeOK
    BY DEF ClientInv
  <1> QED
    BY <1>1, ClientInvHolds, PTL

\* nativeProcess is never in a chain that _close has freed.
THEOREM NativeStaysInLiveChain == Spec => []NativeInLiveChain
  <1>1. ClientInv => NativeInLiveChain
    BY DEF ClientInv, RoundInv, NativeInLiveChain
  <1> QED
    BY <1>1, ClientInvHolds, PTL

\* A Java worker in a chain that _close has freed is one that start or stop had given up.
THEOREM WorkersStayInLiveChain == Spec => []WorkerInLiveChain
  <1>1. ClientInv => WorkerInLiveChain
    BY DEF ClientInv, RunnerInv, RunnerInvOf, WaitedFor, WorkerInLiveChain
  <1> QED
    BY <1>1, ClientInvHolds, PTL

\* Java is called on a NULL reference only by a notification that shutdown has overtaken.
THEOREM NullCallsAreOvertaken == Spec => []NullCallIsOvertaken
  <1>1. ClientInv => NullCallIsOvertaken
    BY DEF ClientInv, NotifierInv, NullCallIsOvertaken
  <1> QED
    BY <1>1, ClientInvHolds, PTL

\* After a close, open is possible again, unless an open that has failed half way has left
\* its client at the server.
THEOREM ClientReadyToOpen == Spec => []ReadyToOpen
  <1>1. ClientInv => ReadyToOpen
    BY DEF ClientInv, ReadyInv, AsNew, LeftOver, ReadyToOpen, Idle
  <1> QED
    BY <1>1, ClientInvHolds, PTL

\* close replaces no chain with an exception in it and then ends as if all were well: it
\* throws that exception, or an error of the server in its place.
THEOREM FaultsAreNotSilent == Spec => []FaultIsNotSilent
  <1>1. ClientInv => FaultIsNotSilent
    BY DEF ClientInv, ReportInv, FaultIsNotSilent
  <1> QED
    BY <1>1, ClientInvHolds, PTL

\* The client uses a chain, and _close replaces it, as ChainLife says.
THEOREM ClientKeepsChainLife == Spec => KeepsChainLife
  <1>1. Init => Life!Init
    BY DEF Init, Life!Init, NewChain, JavaMutexFree, InRunJava
  <1>2. ClientInv /\ [Next]_vars => [Life!Next]_(Life!vars)
    BY LifeStep DEF ClientInv, TypeOK
  <1> QED
    BY <1>1, <1>2, ClientInvHolds, PTL DEF Spec, KeepsChainLife, Life!Spec

==============================================================================
