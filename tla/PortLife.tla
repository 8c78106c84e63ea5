------------------------------- MODULE PortLife -------------------------------
(***************************************************************************)
(* What one port (native/port.hpp) promises to whoever works with it: its  *)
(* main states come in order; once running, the two workers take turns, in *)
(* the order that the direction of the port asks for, each turn being one  *)
(* step that nobody else comes in between; and it fails only while a turn  *)
(* is due.  Waiting, waking up and the mutex do not appear.                *)
(***************************************************************************)
VARIABLES
  output,    \* the direction
  state,     \* the main state
  substate,  \* the sub-state of "running"
  lastCycle  \* has the end been announced?

vars == <<output, state, substate, lastCycle>>

Running == state = "running"

Init == output \in BOOLEAN /\ state = "created" /\ substate = "none" /\ lastCycle = FALSE

----------------------------------------------------------------------------
(* The main states. *)

Initialize ==
  state = "created" /\ state' = "initialized" /\ UNCHANGED <<output, substate, lastCycle>>

\* A port is put into a chain, which brings it to its own state.
Enter ==
  /\ state = "created"
  /\ output' \in BOOLEAN
  /\ state' \in {"initialized", "registered", "running"}
  /\ substate' = IF state' = "running" THEN "started" ELSE "none"
  /\ UNCHANGED lastCycle

RegisterAtServer ==
  state = "initialized" /\ state' = "registered" /\ UNCHANGED <<output, substate, lastCycle>>

Start ==
  /\ state = "registered"
  /\ state' = "running" /\ substate' = "started"
  /\ UNCHANGED <<output, lastCycle>>

Announce == lastCycle' = TRUE /\ UNCHANGED <<output, state, substate>>

\* stop, which announces the end before it waits for it, if it waits.
Stop ==
  /\ state \in {"registered", "running", "stoppedOnError"}
  /\ state' = "stopped" /\ substate' = "none" /\ lastCycle' \in {lastCycle, TRUE}
  /\ UNCHANGED output

UnregisterAtServer ==
  /\ state \in {"registered", "stopped"}
  /\ state' = "unregistered"
  /\ UNCHANGED <<output, substate, lastCycle>>

\* A registered port is un-registered on the way.
Uninitialize ==
  /\ state \in {"initialized", "registered", "stopped", "unregistered"}
  /\ state' = "deletable"
  /\ UNCHANGED <<output, substate, lastCycle>>

Shutdown ==
  /\ state' = "deletable" /\ substate' = "none" /\ lastCycle' \in {lastCycle, TRUE}
  /\ UNCHANGED output

\* The port leaves its chain, and its place can be taken by a new one.
Leave ==
  /\ state = "deletable"
  /\ output' = FALSE /\ state' = "created" /\ substate' = "none" /\ lastCycle' = FALSE

----------------------------------------------------------------------------
(* The turns. *)

\* The native worker opens a cycle.
Open ==
  /\ Running /\ substate \in {"started", "cycleDone"}
  /\ substate' = IF output THEN "javaToExec" ELSE "nativeToExec"
  /\ UNCHANGED <<output, state, lastCycle>>

\* The listener's callback.
JavaTurn ==
  /\ Running /\ substate = "javaToExec"
  /\ lastCycle' \in {lastCycle, TRUE}
  /\ substate' = IF lastCycle' THEN (IF output THEN "nativeToTerminate" ELSE "terminated")
                               ELSE (IF output THEN "nativeToExec" ELSE "cycleDone")
  /\ UNCHANGED <<output, state>>

\* The access to the audio server's buffer.
NativeTurn ==
  /\ Running
  /\ \/ ~output /\ substate = "nativeToExec" /\ substate' = "javaToExec"
     \/ output /\ substate = "nativeToExec" /\ substate' = "cycleDone"
     \/ output /\ substate = "nativeToTerminate" /\ substate' = "terminated"
  /\ UNCHANGED <<output, state, lastCycle>>

\* One of the two turns ends in an exception, or is interrupted by a new cycle.
Fail ==
  /\ Running /\ substate \in {"javaToExec", "nativeToExec", "nativeToTerminate"}
  /\ state' = "stoppedOnError" /\ substate' = "none" /\ lastCycle' \in {lastCycle, TRUE}
  /\ UNCHANGED output

----------------------------------------------------------------------------

Next ==
  \/ Initialize \/ Enter \/ RegisterAtServer \/ Start \/ Announce \/ Stop
  \/ UnregisterAtServer \/ Uninitialize \/ Shutdown \/ Leave
  \/ Open \/ JavaTurn \/ NativeTurn \/ Fail

Spec == Init /\ [][Next]_vars

==============================================================================
