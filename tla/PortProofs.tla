----------------------------- MODULE PortProofs -----------------------------
(***************************************************************************)
(* Proofs about Port, for both kinds of port, and for whatever the         *)
(* listener, the audio system and the administrator do: PortInv is an      *)
(* inductive invariant as long as no lock times out, and the port's safety *)
(* properties follow from it.                                              *)
(***************************************************************************)
EXTENDS Port, PortOpsProofs

----------------------------------------------------------------------------

USE DEF Running, NoThread, Goto, Notify, Free, Sleep, Awake, Thread

\* The initial states.
LEMMA InitOK == Init => PortInv
  <1> SUFFICES ASSUME Init PROVE PortInv
    OBVIOUS
  <1>1. PICK o \in BOOLEAN : port = NewPort(o)
    BY DEF Init
  <1>2. Fields(port, o, "created", "none", FALSE, "nothing")
    BY <1>1 DEF Fields, NewPort, PortType, State, RunningSubState, Cause
  <1>3. /\ owner = NoThread /\ sleepers = {} /\ pc = [t \in Thread |-> "idle"]
        /\ force = FALSE /\ more = TRUE /\ arg = FALSE
        /\ listener = "absent" /\ handle = FALSE /\ lead = 0 /\ sawLast = FALSE
    BY DEF Init
  <1> USE <1>2, <1>3 DEF Fields, PortInv
  <1>4. TypeOK
    <2>1. /\ SubstateFitsState
          /\ lead \in Int
          /\ pc \in [Thread -> Location]
      BY DEF SubstateFitsState, Location
    <2>2. /\ sleepers \subseteq Thread
          /\ owner \in {"java", NoThread}
          /\ listener \in {"absent", "pinned", "open", "closed"}
      OBVIOUS
    <2>3. /\ force \in BOOLEAN /\ more \in BOOLEAN /\ arg \in BOOLEAN
          /\ handle \in BOOLEAN /\ sawLast \in BOOLEAN
      OBVIOUS
    <2> QED
      BY <2>1, <2>2, <2>3 DEF TypeOK
  <1>5. ControlInv
    BY DEF ControlInv, TypeOK
  <1>6. AfterStart
    BY DEF AfterStart, TypeOK, ControlInv
  <1>7. TurnInv
    BY DEF TurnInv, TypeOK, ControlInv
  <1>8. NativeInv
    BY DEF NativeInv, TypeOK, ControlInv
  <1>9. LastInv
    BY DEF LastInv, TypeOK
  <1>10. ResourceInv
    BY DEF ResourceInv, NeedsUnregister, NeedsUninitialize
  <1>11. NoLostWakeup
    BY DEF NoLostWakeup, TypeOK, JavaGivesUp, JavaReady, CycleIsOver, HasEnded
  <1> QED
    BY <1>4, <1>5, <1>6, <1>7, <1>8, <1>9, <1>10, <1>11

\* The Java worker enters the callback.
LEMMA JavaEntersOK ==
  ASSUME PortInv, NEW last \in BOOLEAN, arg' \in BOOLEAN, JavaEnters(last),
         pc["java"] \in {"idle", "asleep"}, Free, "java" \notin sleepers, JavaReady(port)
  PROVE  PortInv'
  <1>1. Fields(port', port.output, port.state, port.substate, port.lastCycle \/ last,
               port.processException)
    BY JavaBeginsFields DEF JavaEnters, PortInv, TypeOK
  <1> USE <1>1 DEF Fields, JavaReady, PortInv, JavaEnters
  <1>2. TypeOK'
    BY DEF TypeOK, SubstateFitsState, Location
  <1>3. ControlInv'
    BY DEF ControlInv, TypeOK
  <1>4. AfterStart'
    BY DEF AfterStart, TypeOK, ControlInv
  <1>5. TurnInv'
    BY DEF TurnInv, TypeOK, ControlInv
  <1>6. NativeInv'
    BY DEF NativeInv, TypeOK, ControlInv
  <1>7. LastInv'
    BY DEF LastInv, TypeOK
  <1>8. ResourceInv'
    BY DEF ResourceInv, NeedsUnregister, NeedsUninitialize
  <1>9. NoLostWakeup'
    BY DEF NoLostWakeup, TypeOK, JavaGivesUp, JavaReady, CycleIsOver, HasEnded
  <1> QED
    BY <1>2, <1>3, <1>4, <1>5, <1>6, <1>7, <1>8, <1>9

\* The Java worker waits.
LEMMA JavaSleepsOK ==
  ASSUME PortInv, arg' \in BOOLEAN, JavaSleeps, pc["java"] \in {"idle", "asleep"}, Free,
         ~JavaGivesUp(port), ~JavaReady(port)
  PROVE  PortInv'
  <1> USE DEF PortInv, JavaSleeps, JavaGivesUp, JavaReady
  <1>1. TypeOK'
    BY DEF TypeOK, SubstateFitsState, Location
  <1>2. ControlInv'
    BY DEF ControlInv, TypeOK
  <1>3. AfterStart'
    BY DEF AfterStart, TypeOK, ControlInv
  <1>4. TurnInv'
    BY DEF TurnInv, TypeOK, ControlInv
  <1>5. NativeInv'
    BY DEF NativeInv, TypeOK, ControlInv
  <1>6. LastInv'
    BY DEF LastInv, TypeOK
  <1>7. ResourceInv'
    BY DEF ResourceInv, NeedsUnregister, NeedsUninitialize
  <1>8. NoLostWakeup'
    BY DEF NoLostWakeup, TypeOK, JavaGivesUp, JavaReady, CycleIsOver, HasEnded
  <1> QED
    BY <1>1, <1>2, <1>3, <1>4, <1>5, <1>6, <1>7, <1>8

\* execJavaProcess is called.
LEMMA JavaCallOK == PortInv /\ JavaCall => PortInv'
  <1> SUFFICES ASSUME PortInv, JavaCall PROVE PortInv'
    OBVIOUS
  <1>1. /\ pc["java"] = "idle" /\ Free /\ "java" \notin sleepers
        /\ more \in BOOLEAN /\ arg' = ~more
        /\ ~JavaGivesUp(port)
    BY DEF JavaCall, JavaIgnores, JavaGivesUp, PortInv, TypeOK, ControlInv
  <1>2. CASE JavaReady(port)
    BY <1>1, <1>2, JavaEntersOK DEF JavaCall
  <1>3. CASE ~JavaReady(port)
    BY <1>1, <1>3, JavaSleepsOK DEF JavaCall
  <1> QED
    BY <1>2, <1>3

\* The waiting Java worker gets the mutex.
LEMMA JavaWakesOK == PortInv /\ JavaWakes => PortInv'
  <1> SUFFICES ASSUME PortInv, JavaWakes PROVE PortInv'
    OBVIOUS
  <1>1. pc["java"] = "asleep" /\ Free /\ "java" \notin sleepers /\ arg \in BOOLEAN /\ arg' = arg
    BY DEF JavaWakes, PortInv, TypeOK
  <1>2. CASE JavaGivesUp(port)
    <2>1. /\ pc' = [pc EXCEPT !["java"] = "idle"]
          /\ UNCHANGED <<port, owner, sleepers, force, more, listener, handle, lead, sawLast>>
      BY <1>2 DEF JavaWakes
    <2> USE <1>1, <2>1 DEF PortInv
    <2>2. TypeOK'
      BY DEF TypeOK, SubstateFitsState, Location
    <2>3. ControlInv'
      BY DEF ControlInv, TypeOK
    <2>4. AfterStart'
      BY DEF AfterStart, TypeOK, ControlInv
    <2>5. TurnInv'
      BY DEF TurnInv, TypeOK, ControlInv
    <2>6. NativeInv'
      BY DEF NativeInv, TypeOK, ControlInv
    <2>7. LastInv'
      BY DEF LastInv, TypeOK
    <2>8. ResourceInv'
      BY DEF ResourceInv, NeedsUnregister, NeedsUninitialize
    <2>9. NoLostWakeup'
      BY DEF NoLostWakeup, TypeOK, JavaGivesUp, JavaReady, CycleIsOver, HasEnded
    <2> QED
      BY <2>2, <2>3, <2>4, <2>5, <2>6, <2>7, <2>8, <2>9
  <1>3. CASE ~JavaGivesUp(port) /\ JavaReady(port)
    BY <1>1, <1>3, JavaEntersOK DEF JavaWakes
  <1>4. CASE ~JavaGivesUp(port) /\ ~JavaReady(port)
    BY <1>1, <1>4, JavaSleepsOK DEF JavaWakes
  <1> QED
    BY <1>2, <1>3, <1>4

\* The callback ends: the turn passes on or the port fails.
LEMMA JavaReturnsOK == PortInv /\ JavaReturns => PortInv'
  <1> SUFFICES ASSUME PortInv, JavaReturns PROVE PortInv'
    OBVIOUS
  <1>1. /\ port \in PortType /\ "java" \in Cause
        /\ Running(port) /\ port.substate = "javaToExec"
        /\ owner = "java" /\ pc' = [pc EXCEPT !["java"] = "idle"]
    BY DEF PortInv, TypeOK, Cause, SubstateFitsState, TurnInv, JavaReturns
  <1> USE <1>1 DEF PortInv, Fields, JavaReturns
  <1>2. CASE port' = JavaEnds(port)
    <2>1. Fields(port', port.output, port.state,
                 IF port.lastCycle THEN (IF port.output THEN "nativeToTerminate" ELSE "terminated")
                                   ELSE (IF port.output THEN "nativeToExec" ELSE "cycleDone"),
                 port.lastCycle, port.processException)
      BY <1>2, JavaEndsFields
    <2> USE <2>1
    <2>2. TypeOK'
      BY DEF TypeOK, SubstateFitsState, Location
    <2>3. ControlInv'
      BY DEF ControlInv, TypeOK
    <2>4. AfterStart'
      BY DEF AfterStart, TypeOK, ControlInv
    <2>5. TurnInv'
      BY DEF TurnInv, TypeOK, ControlInv
    <2>6. NativeInv'
      BY DEF NativeInv, TypeOK, ControlInv
    <2>7. LastInv'
      BY DEF LastInv, TypeOK
    <2>8. ResourceInv'
      BY DEF ResourceInv, NeedsUnregister, NeedsUninitialize
    <2>9. NoLostWakeup'
      BY DEF NoLostWakeup, TypeOK, JavaGivesUp, JavaReady, CycleIsOver, HasEnded
    <2> QED
      BY <2>2, <2>3, <2>4, <2>5, <2>6, <2>7, <2>8, <2>9
  <1>3. CASE port' = emergencyStop(port, "java")
    <2>1. Fields(port', port.output, "stoppedOnError", "none", port.lastCycle, FirstOf(port, "java"))
      BY <1>3, EmergencyStopFields
    <2> USE <2>1 DEF FirstOf
    <2>2. TypeOK'
      BY DEF TypeOK, SubstateFitsState, Location
    <2>3. ControlInv'
      BY DEF ControlInv, TypeOK
    <2>4. AfterStart'
      BY DEF AfterStart, TypeOK, ControlInv
    <2>5. TurnInv'
      BY DEF TurnInv, TypeOK, ControlInv
    <2>6. NativeInv'
      BY DEF NativeInv, TypeOK, ControlInv
    <2>7. LastInv'
      BY DEF LastInv, TypeOK
    <2>8. ResourceInv'
      BY DEF ResourceInv, NeedsUnregister, NeedsUninitialize
    <2>9. NoLostWakeup'
      BY DEF NoLostWakeup, TypeOK, JavaGivesUp, JavaReady, CycleIsOver, HasEnded
    <2> QED
      BY <2>2, <2>3, <2>4, <2>5, <2>6, <2>7, <2>8, <2>9
  <1> QED
    BY <1>2, <1>3

\* The last cycle is requested.
LEMMA WantLastOK == PortInv /\ WantLast => PortInv'
  <1> SUFFICES ASSUME PortInv, WantLast PROVE PortInv'
    OBVIOUS
  <1> USE DEF PortInv, WantLast
  <1>1. TypeOK'
    BY DEF TypeOK, SubstateFitsState, Location
  <1>2. ControlInv'
    BY DEF ControlInv, TypeOK
  <1>3. AfterStart'
    BY DEF AfterStart, TypeOK, ControlInv
  <1>4. TurnInv'
    BY DEF TurnInv, TypeOK, ControlInv
  <1>5. NativeInv'
    BY DEF NativeInv, TypeOK, ControlInv
  <1>6. LastInv'
    BY DEF LastInv, TypeOK
  <1>7. ResourceInv'
    BY DEF ResourceInv, NeedsUnregister, NeedsUninitialize
  <1>8. NoLostWakeup'
    BY DEF NoLostWakeup, TypeOK, JavaGivesUp, JavaReady, CycleIsOver, HasEnded
  <1> QED
    BY <1>1, <1>2, <1>3, <1>4, <1>5, <1>6, <1>7, <1>8

\* The native worker begins a round.
LEMMA NativeLoopOK == PortInv /\ NativeLoop => PortInv'
  <1> SUFFICES ASSUME PortInv, NativeLoop PROVE PortInv'
    OBVIOUS
  <1> USE DEF PortInv, NativeLoop
  <1>1. TypeOK'
    BY DEF TypeOK, SubstateFitsState, Location
  <1>2. ControlInv'
    BY DEF ControlInv, TypeOK
  <1>3. AfterStart'
    BY DEF AfterStart, TypeOK, ControlInv
  <1>4. TurnInv'
    BY DEF TurnInv, TypeOK, ControlInv
  <1>5. NativeInv'
    BY DEF NativeInv, TypeOK, ControlInv
  <1>6. LastInv'
    BY DEF LastInv, TypeOK
  <1>7. ResourceInv'
    BY DEF ResourceInv, NeedsUnregister, NeedsUninitialize
  <1>8. NoLostWakeup'
    BY DEF NoLostWakeup, TypeOK, JavaGivesUp, JavaReady, CycleIsOver, HasEnded
  <1> QED
    BY <1>1, <1>2, <1>3, <1>4, <1>5, <1>6, <1>7, <1>8

\* A cycle is opened: the port can never be in the middle of one.
LEMMA NativeInitOK == PortInv /\ NativeInit => PortInv'
  <1> SUFFICES ASSUME PortInv, NativeInit PROVE PortInv'
    OBVIOUS
  <1> USE DEF PortInv, NativeInit
  <1>1. CASE ~Running(port) \/ port.substate = "terminated"
    <2>1. port' = port /\ UNCHANGED sleepers
      BY <1>1 DEF execNativeCycleInit, InitNotifies
    <2> USE <1>1, <2>1
    <2>2. TypeOK'
      BY DEF TypeOK, SubstateFitsState, Location
    <2>3. ControlInv'
      BY DEF ControlInv, TypeOK
    <2>4. AfterStart'
      BY DEF AfterStart, TypeOK, ControlInv
    <2>5. TurnInv'
      BY DEF TurnInv, TypeOK, ControlInv
    <2>6. NativeInv'
      BY DEF NativeInv, TypeOK, ControlInv
    <2>7. LastInv'
      BY DEF LastInv, TypeOK
    <2>8. ResourceInv'
      BY DEF ResourceInv, NeedsUnregister, NeedsUninitialize
    <2>9. NoLostWakeup'
      BY DEF NoLostWakeup, TypeOK, JavaGivesUp, JavaReady, CycleIsOver, HasEnded
    <2> QED
      BY <2>2, <2>3, <2>4, <2>5, <2>6, <2>7, <2>8, <2>9
  <1>2. CASE Running(port) /\ port.substate # "terminated"
    <2>1. AcceptsInit(port)
      BY <1>2 DEF AcceptsInit, NativeInv
    <2>2. Fields(port', port.output, port.state,
                 IF port.output THEN "javaToExec" ELSE "nativeToExec",
                 port.lastCycle, port.processException)
      BY <1>2, <2>1, ExecNativeCycleInitFields DEF TypeOK
    <2> USE <1>2, <2>1, <2>2 DEF Fields, AcceptsInit, InitNotifies
    <2>3. TypeOK'
      BY DEF TypeOK, SubstateFitsState, Location
    <2>4. ControlInv'
      BY DEF ControlInv, TypeOK
    <2>5. AfterStart'
      BY DEF AfterStart, TypeOK, ControlInv
    <2>6. TurnInv'
      BY DEF TurnInv, TypeOK, ControlInv
    <2>7. NativeInv'
      BY DEF NativeInv, TypeOK, ControlInv
    <2>8. LastInv'
      BY DEF LastInv, TypeOK
    <2>9. ResourceInv'
      BY DEF ResourceInv, NeedsUnregister, NeedsUninitialize
    <2>10. NoLostWakeup'
      BY DEF NoLostWakeup, TypeOK, JavaGivesUp, JavaReady, CycleIsOver, HasEnded
    <2> QED
      BY <2>3, <2>4, <2>5, <2>6, <2>7, <2>8, <2>9, <2>10
  <1> QED
    BY <1>1, <1>2

\* The native worker does its work, fails or waits.
LEMMA NativeProceedsOK ==
  ASSUME PortInv, NativeProceeds, pc["native"] \in {"process", "asleep"}, Free,
         "native" \notin sleepers, Running(port), ~NativeRejects(port),
         UNCHANGED <<owner, force, more, arg, listener, handle, sawLast>>
  PROVE  PortInv'
  <1> USE DEF PortInv, NativeRejects
  <1>1. ~NativeIllegal(port) /\ port \in PortType /\ "native" \in Cause
    BY DEF NativeIllegal, TurnInv, TypeOK, Cause
  <1>2. CASE ~NativeReady(port)
    <2>1. /\ UNCHANGED <<port, lead>>
          /\ sleepers' = sleepers \cup {"native"}
          /\ pc' = [pc EXCEPT !["native"] = "asleep"]
      BY <1>2 DEF NativeProceeds
    <2> USE <1>2, <2>1 DEF NativeReady
    <2>2. TypeOK'
      BY DEF TypeOK, SubstateFitsState, Location
    <2>3. ControlInv'
      BY DEF ControlInv, TypeOK
    <2>4. AfterStart'
      BY DEF AfterStart, TypeOK, ControlInv
    <2>5. TurnInv'
      BY DEF TurnInv, TypeOK, ControlInv
    <2>6. NativeInv'
      BY DEF NativeInv, TypeOK, ControlInv
    <2>7. LastInv'
      BY DEF LastInv, TypeOK
    <2>8. ResourceInv'
      BY DEF ResourceInv, NeedsUnregister, NeedsUninitialize
    <2>9. NoLostWakeup'
      BY DEF NoLostWakeup, TypeOK, JavaGivesUp, JavaReady, CycleIsOver, HasEnded, NativeInv,
         RunningSubState, PortType
    <2> QED
      BY <2>2, <2>3, <2>4, <2>5, <2>6, <2>7, <2>8, <2>9
  <1>3. CASE NativeReady(port)
    <2>1. /\ port' \in {NativeEnds(port), emergencyStop(port, "native")}
          /\ lead' = lead + 1
          /\ sleepers' = {}
          /\ pc' = [pc EXCEPT !["native"] = "await"]
      BY <1>1, <1>3 DEF NativeProceeds, NativeRuns
    <2> USE <1>3, <2>1 DEF NativeReady, Fields
    <2>2. CASE port' = NativeEnds(port)
      <3>1. Fields(port', port.output, port.state,
                   IF ~port.output THEN "javaToExec"
                   ELSE IF port.substate = "nativeToTerminate" THEN "terminated" ELSE "cycleDone",
                   port.lastCycle, port.processException)
        BY <1>1, <2>2, NativeEndsFields
      <3> USE <3>1
      <3>2. TypeOK'
        BY DEF TypeOK, SubstateFitsState, Location
      <3>3. ControlInv'
        BY DEF ControlInv, TypeOK
      <3>4. AfterStart'
        BY DEF AfterStart, TypeOK, ControlInv
      <3>5. TurnInv'
        BY DEF TurnInv, TypeOK, ControlInv
      <3>6. NativeInv'
        BY DEF NativeInv, TypeOK, ControlInv
      <3>7. LastInv'
        BY DEF LastInv, TypeOK, TurnInv, ControlInv, SubstateFitsState
      <3>8. ResourceInv'
        BY DEF ResourceInv, NeedsUnregister, NeedsUninitialize
      <3>9. NoLostWakeup'
        BY DEF NoLostWakeup, TypeOK, JavaGivesUp, JavaReady, CycleIsOver, HasEnded
      <3> QED
        BY <3>2, <3>3, <3>4, <3>5, <3>6, <3>7, <3>8, <3>9
    <2>3. CASE port' = emergencyStop(port, "native")
      <3>1. Fields(port', port.output, "stoppedOnError", "none", port.lastCycle,
                   FirstOf(port, "native"))
        BY <1>1, <2>3, EmergencyStopFields
      <3> USE <3>1 DEF FirstOf
      <3>2. TypeOK'
        BY DEF TypeOK, SubstateFitsState, Location
      <3>3. ControlInv'
        BY DEF ControlInv, TypeOK
      <3>4. AfterStart'
        BY DEF AfterStart, TypeOK, ControlInv
      <3>5. TurnInv'
        BY DEF TurnInv, TypeOK, ControlInv
      <3>6. NativeInv'
        BY DEF NativeInv, TypeOK, ControlInv
      <3>7. LastInv'
        BY DEF LastInv, TypeOK
      <3>8. ResourceInv'
        BY DEF ResourceInv, NeedsUnregister, NeedsUninitialize
      <3>9. NoLostWakeup'
        BY DEF NoLostWakeup, TypeOK, JavaGivesUp, JavaReady, CycleIsOver, HasEnded
      <3> QED
        BY <3>2, <3>3, <3>4, <3>5, <3>6, <3>7, <3>8, <3>9
    <2> QED
      BY <2>1, <2>2, <2>3
  <1> QED
    BY <1>2, <1>3


\* The native worker has nothing to do in this cycle.
LEMMA NativeReturnsOK ==
  ASSUME PortInv, NativeReturns, pc["native"] \in {"process", "asleep"}, "native" \notin sleepers,
         ~Running(port) \/ port.substate = "terminated",
         UNCHANGED <<owner, force, more, arg, listener, handle, sawLast>>
  PROVE  PortInv'
  <1> USE DEF PortInv, NativeReturns
  <1>1. TypeOK'
    BY DEF TypeOK, SubstateFitsState, Location
  <1>2. ControlInv'
    BY DEF ControlInv, TypeOK
  <1>3. AfterStart'
    BY DEF AfterStart, TypeOK, ControlInv
  <1>4. TurnInv'
    BY DEF TurnInv, TypeOK, ControlInv
  <1>5. NativeInv'
    BY DEF NativeInv, TypeOK, ControlInv
  <1>6. LastInv'
    BY DEF LastInv, TypeOK
  <1>7. ResourceInv'
    BY DEF ResourceInv, NeedsUnregister, NeedsUninitialize
  <1>8. NoLostWakeup'
    BY DEF NoLostWakeup, TypeOK, JavaGivesUp, JavaReady, CycleIsOver, HasEnded
  <1> QED
    BY <1>1, <1>2, <1>3, <1>4, <1>5, <1>6, <1>7, <1>8

\* execNativeProcess is called.
LEMMA NativeCallOK == PortInv /\ NativeCall => PortInv'
  <1> SUFFICES ASSUME PortInv, NativeCall PROVE PortInv'
    OBVIOUS
  <1>1. /\ pc["native"] = "process" /\ Free /\ "native" \notin sleepers
        /\ UNCHANGED <<owner, force, more, arg, listener, handle, sawLast>>
    BY DEF NativeCall, PortInv, ControlInv
  <1>2. CASE NativeIgnores(port)
    <2>1. ~Running(port) \/ port.substate = "terminated"
      BY <1>1, <1>2 DEF NativeIgnores, PortInv, NativeInv
    <2> QED
      BY <1>1, <1>2, <2>1, NativeReturnsOK DEF NativeCall
  <1>3. CASE ~NativeIgnores(port)
    <2>1. Running(port) /\ ~NativeRejects(port)
      BY <1>1, <1>3 DEF NativeIgnores, NativeRejects, PortInv, NativeInv
    <2> QED
      BY <1>1, <1>3, <2>1, NativeProceedsOK DEF NativeCall
  <1> QED
    BY <1>2, <1>3

\* The waiting native worker gets the mutex: what would make it throw is not
\* there.
LEMMA NativeWakesOK == PortInv /\ NativeWakes => PortInv'
  <1> SUFFICES ASSUME PortInv, NativeWakes PROVE PortInv'
    OBVIOUS
  <1>1. /\ pc["native"] = "asleep" /\ Free /\ "native" \notin sleepers
        /\ UNCHANGED <<owner, force, more, arg, listener, handle, sawLast>>
    BY DEF NativeWakes
  <1>2. ~NativeRejects(port)
    BY <1>1 DEF PortInv, NativeInv, NativeRejects, TypeOK, SubstateFitsState
  <1>3. CASE Running(port)
    BY <1>1, <1>2, <1>3, NativeProceedsOK DEF NativeWakes
  <1>4. CASE ~Running(port)
    BY <1>1, <1>2, <1>4, NativeReturnsOK DEF NativeWakes
  <1> QED
    BY <1>3, <1>4

\* The native worker leaves waitForCycleDone or waits in it.
LEMMA NativeAwaitsOK == PortInv /\ NativeAwaits => PortInv'
  <1> SUFFICES ASSUME PortInv, NativeAwaits PROVE PortInv'
    OBVIOUS
  <1> USE DEF PortInv, NativeAwaits, CycleIsOver
  <1>1. TypeOK'
    BY DEF TypeOK, SubstateFitsState, Location
  <1>2. ControlInv'
    BY DEF ControlInv, TypeOK
  <1>3. AfterStart'
    BY DEF AfterStart, TypeOK, ControlInv
  <1>4. TurnInv'
    BY DEF TurnInv, TypeOK, ControlInv
  <1>5. NativeInv'
    BY DEF NativeInv, TypeOK, ControlInv
  <1>6. LastInv'
    BY DEF LastInv, TypeOK
  <1>7. ResourceInv'
    BY DEF ResourceInv, NeedsUnregister, NeedsUninitialize
  <1>8. NoLostWakeup'
    BY DEF NoLostWakeup, TypeOK, JavaGivesUp, JavaReady, CycleIsOver, HasEnded
  <1> QED
    BY <1>1, <1>2, <1>3, <1>4, <1>5, <1>6, <1>7, <1>8

\* onOpen is called, and may throw.
LEMMA InitializeOK == PortInv /\ Initialize => PortInv'
  <1> SUFFICES ASSUME PortInv, Initialize PROVE PortInv'
    OBVIOUS
  <1> USE DEF PortInv, Initialize, AdminCalls
  <1>1. CASE port' = Initialized(port) /\ listener' = "open" /\ Notify
    <2>1. Fields(port', port.output, "initialized", port.substate, port.lastCycle, port.processException)
      BY <1>1, InitializedFields DEF TypeOK
    <2> USE <1>1, <2>1 DEF Fields
    <2>2. TypeOK'
      BY DEF TypeOK, SubstateFitsState, Location
    <2>3. ControlInv'
      BY DEF ControlInv, TypeOK
    <2>4. AfterStart'
      BY DEF AfterStart, TypeOK, ControlInv
    <2>5. TurnInv'
      BY DEF TurnInv, TypeOK, ControlInv
    <2>6. NativeInv'
      BY DEF NativeInv, TypeOK, ControlInv
    <2>7. LastInv'
      BY DEF LastInv, TypeOK
    <2>8. ResourceInv'
      BY DEF ResourceInv, NeedsUnregister, NeedsUninitialize
    <2>9. NoLostWakeup'
      BY DEF NoLostWakeup, TypeOK, JavaGivesUp, JavaReady, CycleIsOver, HasEnded
    <2> QED
      BY <2>2, <2>3, <2>4, <2>5, <2>6, <2>7, <2>8, <2>9
  <1>2. CASE listener' = "pinned" /\ UNCHANGED <<port, sleepers>>
    <2> USE <1>2
    <2>1. TypeOK'
      BY DEF TypeOK, SubstateFitsState, Location
    <2>2. ControlInv'
      BY DEF ControlInv, TypeOK
    <2>3. AfterStart'
      BY DEF AfterStart, TypeOK, ControlInv
    <2>4. TurnInv'
      BY DEF TurnInv, TypeOK, ControlInv
    <2>5. NativeInv'
      BY DEF NativeInv, TypeOK, ControlInv
    <2>6. LastInv'
      BY DEF LastInv, TypeOK
    <2>7. ResourceInv'
      BY DEF ResourceInv, NeedsUnregister, NeedsUninitialize
    <2>8. NoLostWakeup'
      BY DEF NoLostWakeup, TypeOK, JavaGivesUp, JavaReady, CycleIsOver, HasEnded
    <2> QED
      BY <2>1, <2>2, <2>3, <2>4, <2>5, <2>6, <2>7, <2>8
  <1> QED
    BY <1>1, <1>2

\* The port is registered at the audio server.
LEMMA RegisterAtServerOK == PortInv /\ RegisterAtServer => PortInv'
  <1> SUFFICES ASSUME PortInv, RegisterAtServer PROVE PortInv'
    OBVIOUS
  <1> USE DEF PortInv, RegisterAtServer, AdminCalls
  <1>1. Fields(port', port.output, "registered", port.substate, port.lastCycle, port.processException)
    BY RegisteredFields DEF TypeOK
  <1> USE <1>1 DEF Fields
  <1>2. TypeOK'
    BY DEF TypeOK, SubstateFitsState, Location
  <1>3. ControlInv'
    BY DEF ControlInv, TypeOK
  <1>4. AfterStart'
    BY DEF AfterStart, TypeOK, ControlInv
  <1>5. TurnInv'
    BY DEF TurnInv, TypeOK, ControlInv
  <1>6. NativeInv'
    BY DEF NativeInv, TypeOK, ControlInv
  <1>7. LastInv'
    BY DEF LastInv, TypeOK
  <1>8. ResourceInv'
    BY DEF ResourceInv, NeedsUnregister, NeedsUninitialize
  <1>9. NoLostWakeup'
    BY DEF NoLostWakeup, TypeOK, JavaGivesUp, JavaReady, CycleIsOver, HasEnded
  <1> QED
    BY <1>2, <1>3, <1>4, <1>5, <1>6, <1>7, <1>8, <1>9

\* The port is started: no cycle has been opened yet.
LEMMA StartOK == PortInv /\ Start => PortInv'
  <1> SUFFICES ASSUME PortInv, Start PROVE PortInv'
    OBVIOUS
  <1> USE DEF PortInv, Start, AdminCalls
  <1>1. Fields(port', port.output, "running", "started", port.lastCycle, port.processException)
    BY StartedFields DEF TypeOK
  <1> USE <1>1 DEF Fields
  <1>2. TypeOK'
    BY DEF TypeOK, SubstateFitsState, Location
  <1>3. ControlInv'
    BY DEF ControlInv, TypeOK
  <1>4. AfterStart'
    BY DEF AfterStart, TypeOK, ControlInv
  <1>5. TurnInv'
    BY DEF TurnInv, TypeOK, ControlInv, AfterStart
  <1>6. NativeInv'
    BY DEF NativeInv, TypeOK, ControlInv, AfterStart
  <1>7. LastInv'
    BY DEF LastInv, TypeOK, AfterStart
  <1>8. ResourceInv'
    BY DEF ResourceInv, NeedsUnregister, NeedsUninitialize
  <1>9. NoLostWakeup'
    BY DEF NoLostWakeup, TypeOK, JavaGivesUp, JavaReady, CycleIsOver, HasEnded
  <1> QED
    BY <1>2, <1>3, <1>4, <1>5, <1>6, <1>7, <1>8, <1>9

\* The port is un-registered.
LEMMA UnregisterAtServerOK == PortInv /\ UnregisterAtServer => PortInv'
  <1> SUFFICES ASSUME PortInv, UnregisterAtServer PROVE PortInv'
    OBVIOUS
  <1> USE DEF PortInv, UnregisterAtServer, AdminCalls
  <1>1. Fields(port', port.output, "unregistered", port.substate, port.lastCycle, port.processException)
    BY UnregisteredFields DEF TypeOK
  <1> USE <1>1 DEF Fields
  <1>2. TypeOK'
    BY DEF TypeOK, SubstateFitsState, Location
  <1>3. ControlInv'
    BY DEF ControlInv, TypeOK
  <1>4. AfterStart'
    BY DEF AfterStart, TypeOK, ControlInv
  <1>5. TurnInv'
    BY DEF TurnInv, TypeOK, ControlInv
  <1>6. NativeInv'
    BY DEF NativeInv, TypeOK, ControlInv
  <1>7. LastInv'
    BY DEF LastInv, TypeOK
  <1>8. ResourceInv'
    BY DEF ResourceInv, NeedsUnregister, NeedsUninitialize
  <1>9. NoLostWakeup'
    BY DEF NoLostWakeup, TypeOK, JavaGivesUp, JavaReady, CycleIsOver, HasEnded
  <1> QED
    BY <1>2, <1>3, <1>4, <1>5, <1>6, <1>7, <1>8, <1>9

\* onClose is called.
LEMMA UninitializeOK == PortInv /\ Uninitialize => PortInv'
  <1> SUFFICES ASSUME PortInv, Uninitialize PROVE PortInv'
    OBVIOUS
  <1> USE DEF PortInv, Uninitialize, AdminCalls
  <1>1. Fields(port', port.output, "deletable", port.substate, port.lastCycle, port.processException)
    BY UninitializedFields DEF TypeOK
  <1> USE <1>1 DEF Fields
  <1>2. TypeOK'
    BY DEF TypeOK, SubstateFitsState, Location
  <1>3. ControlInv'
    BY DEF ControlInv, TypeOK
  <1>4. AfterStart'
    BY DEF AfterStart, TypeOK, ControlInv
  <1>5. TurnInv'
    BY DEF TurnInv, TypeOK, ControlInv
  <1>6. NativeInv'
    BY DEF NativeInv, TypeOK, ControlInv
  <1>7. LastInv'
    BY DEF LastInv, TypeOK
  <1>8. ResourceInv'
    BY DEF ResourceInv, NeedsUnregister, NeedsUninitialize
  <1>9. NoLostWakeup'
    BY DEF NoLostWakeup, TypeOK, JavaGivesUp, JavaReady, CycleIsOver, HasEnded
  <1> QED
    BY <1>2, <1>3, <1>4, <1>5, <1>6, <1>7, <1>8, <1>9

\* The end of stop, on a port that may just have been asked for its last cycle.
LEMMA StopFinishesOK ==
  ASSUME PortInv, Free, NEW p \in PortType, StopFinishes(p), force' \in BOOLEAN,
         p.output = port.output, p.state = port.state, p.processException = port.processException,
         port.state \in {"registered", "running", "stoppedOnError"}
  PROVE  PortInv'
  <1>1. /\ Fields(port', p.output, "stopped", "none", p.lastCycle, port'.processException)
        /\ port'.processException \in {p.processException, "forced"}
        /\ sleepers' = {} /\ pc' = [pc EXCEPT !["admin"] = "idle"]
        /\ UNCHANGED <<owner, more, arg, listener, handle, lead, sawLast>>
    BY StopEndsFields DEF StopFinishes, Fields, FirstOf
  <1> USE <1>1 DEF PortInv, Fields
  <1>2. TypeOK'
    BY DEF TypeOK, SubstateFitsState, Location
  <1>3. ControlInv'
    BY DEF ControlInv, TypeOK
  <1>4. AfterStart'
    BY DEF AfterStart, TypeOK, ControlInv
  <1>5. TurnInv'
    BY DEF TurnInv, TypeOK, ControlInv
  <1>6. NativeInv'
    BY DEF NativeInv, TypeOK, ControlInv
  <1>7. LastInv'
    BY DEF LastInv, TypeOK
  <1>8. ResourceInv'
    BY DEF ResourceInv, NeedsUnregister, NeedsUninitialize
  <1>9. NoLostWakeup'
    BY DEF NoLostWakeup, TypeOK, JavaGivesUp, JavaReady, CycleIsOver, HasEnded
  <1> QED
    BY <1>2, <1>3, <1>4, <1>5, <1>6, <1>7, <1>8, <1>9

\* stop or shutdown waits for the port to terminate.
LEMMA AdminSleepsOK ==
  ASSUME PortInv, Free, NEW l \in {"asleepStop", "asleepShutdown"}, Sleep("admin", l),
         Fields(port', port.output, port.state, port.substate, port'.lastCycle, port.processException),
         ~HasEnded(port), force' \in BOOLEAN,
         UNCHANGED <<owner, more, arg, listener, handle, lead, sawLast>>
  PROVE  PortInv'
  <1> USE DEF PortInv, Fields, HasEnded
  <1>1. TypeOK'
    BY DEF TypeOK, SubstateFitsState, Location
  <1>2. ControlInv'
    BY DEF ControlInv, TypeOK
  <1>3. AfterStart'
    BY DEF AfterStart, TypeOK, ControlInv
  <1>4. TurnInv'
    BY DEF TurnInv, TypeOK, ControlInv
  <1>5. NativeInv'
    BY DEF NativeInv, TypeOK, ControlInv
  <1>6. LastInv'
    BY DEF LastInv, TypeOK
  <1>7. ResourceInv'
    BY DEF ResourceInv, NeedsUnregister, NeedsUninitialize
  <1>8. NoLostWakeup'
    BY DEF NoLostWakeup, TypeOK, JavaGivesUp, JavaReady, CycleIsOver, HasEnded
  <1> QED
    BY <1>1, <1>2, <1>3, <1>4, <1>5, <1>6, <1>7, <1>8

\* stop is called.
LEMMA StopOK ==
  ASSUME PortInv, NEW forced \in BOOLEAN, Stop(forced)
  PROVE  PortInv'
  <1>1. Free /\ pc["admin"] = "idle" /\ force' \in BOOLEAN /\ port \in PortType
    BY DEF Stop, AdminCalls, PortInv, TypeOK
  <1>2. Fields(RequestLast(port), port.output, port.state, port.substate, TRUE, port.processException)
    BY <1>1, RequestLastFields
  <1>3. CASE /\ port.state = "stoppedOnError"
             /\ port' = StopAfterError(port)
             /\ Notify
             /\ UNCHANGED <<owner, pc, more, arg, listener, handle, lead, sawLast>>
    <2>1. Fields(port', port.output, "stopped", port.substate, port.lastCycle, port.processException)
      BY <1>1, <1>3, StopAfterErrorFields
    <2> USE <1>1, <1>3, <2>1 DEF PortInv, Fields
    <2>2. TypeOK'
      BY DEF TypeOK, SubstateFitsState, Location
    <2>3. ControlInv'
      BY DEF ControlInv, TypeOK
    <2>4. AfterStart'
      BY DEF AfterStart, TypeOK, ControlInv
    <2>5. TurnInv'
      BY DEF TurnInv, TypeOK, ControlInv
    <2>6. NativeInv'
      BY DEF NativeInv, TypeOK, ControlInv
    <2>7. LastInv'
      BY DEF LastInv, TypeOK
    <2>8. ResourceInv'
      BY DEF ResourceInv, NeedsUnregister, NeedsUninitialize
    <2>9. NoLostWakeup'
      BY DEF NoLostWakeup, TypeOK, JavaGivesUp, JavaReady, CycleIsOver, HasEnded
    <2> QED
      BY <2>2, <2>3, <2>4, <2>5, <2>6, <2>7, <2>8, <2>9
  <1>4. CASE port.state \in {"running", "registered"} /\ StopFinishes(RequestLast(port))
    BY <1>1, <1>2, <1>4, StopFinishesOK DEF Fields
  <1>5. CASE /\ ~HasEnded(port)
             /\ port' = RequestLast(port)
             /\ Sleep("admin", "asleepStop")
             /\ UNCHANGED <<owner, more, arg, listener, handle, lead, sawLast>>
    BY <1>1, <1>2, <1>5, AdminSleepsOK DEF Fields
  <1> QED
    BY <1>3, <1>4, <1>5 DEF Stop

\* stop goes on after a wait.
LEMMA StopWakesOK == PortInv /\ StopWakes => PortInv'
  <1> SUFFICES ASSUME PortInv, StopWakes PROVE PortInv'
    OBVIOUS
  <1>1. /\ Free /\ force' \in BOOLEAN /\ port \in PortType
        /\ port.state \in {"running", "stoppedOnError"}
    BY DEF StopWakes, PortInv, TypeOK, AfterStart
  <1>2. CASE StopFinishes(port)
    BY <1>1, <1>2, StopFinishesOK
  <1>3. CASE /\ ~HasEnded(port)
             /\ Sleep("admin", "asleepStop")
             /\ UNCHANGED <<port, owner, more, arg, listener, handle, lead, sawLast>>
    BY <1>1, <1>3, AdminSleepsOK DEF Fields
  <1> QED
    BY <1>2, <1>3 DEF StopWakes

\* The end of shutdown, whether or not un-registering fails.
LEMMA ShutdownFinishesOK ==
  ASSUME PortInv, Free, NEW p \in PortType, ShutdownFinishes(p), force' \in BOOLEAN,
         p.output = port.output, p.state = port.state, p.substate = port.substate,
         p.processException = port.processException
  PROVE  PortInv'
  <1>1. /\ sleepers' = {} /\ pc' = [pc EXCEPT !["admin"] = "idle"]
        /\ UNCHANGED <<owner, more, arg, lead, sawLast>>
    BY DEF ShutdownFinishes
  <1> USE <1>1 DEF PortInv, Fields
  <1>2. CASE /\ port' = Deletable(p)
             /\ handle' = (handle /\ ~NeedsUnregister(p))
             /\ listener' = IF NeedsUninitialize(p) THEN "closed" ELSE listener
    <2>1. Fields(port', p.output, "deletable", "none", p.lastCycle, p.processException)
      BY <1>2, DeletableFields
    <2> USE <1>2, <2>1
    <2>2. TypeOK'
      BY DEF TypeOK, SubstateFitsState, Location
    <2>3. ControlInv'
      BY DEF ControlInv, TypeOK
    <2>4. AfterStart'
      BY DEF AfterStart, TypeOK, ControlInv
    <2>5. TurnInv'
      BY DEF TurnInv, TypeOK, ControlInv
    <2>6. NativeInv'
      BY DEF NativeInv, TypeOK, ControlInv
    <2>7. LastInv'
      BY DEF LastInv, TypeOK
    <2>8. ResourceInv'
      BY DEF ResourceInv, NeedsUnregister, NeedsUninitialize
    <2>9. NoLostWakeup'
      BY DEF NoLostWakeup, TypeOK, JavaGivesUp, JavaReady, CycleIsOver, HasEnded
    <2> QED
      BY <2>2, <2>3, <2>4, <2>5, <2>6, <2>7, <2>8, <2>9
  <1>3. CASE /\ NeedsUnregister(p)
             /\ port' = Deletable(setProcessException(p, "teardown"))
             /\ UNCHANGED <<handle, listener>>
    <2>1. /\ Fields(port', p.output, "deletable", "none", p.lastCycle, port'.processException)
          /\ port'.processException = FirstOf(p, "teardown")
      <3> DEFINE q == setProcessException(p, "teardown")
      <3>1. Fields(q, p.output, p.state, p.substate, p.lastCycle, FirstOf(p, "teardown"))
        BY SetProcessExceptionFields DEF Cause
      <3> HIDE DEF q
      <3> QED
        BY <1>3, <3>1, DeletableFields DEF q
    <2> USE <1>3, <2>1 DEF FirstOf
    <2>2. TypeOK'
      BY DEF TypeOK, SubstateFitsState, Location
    <2>3. ControlInv'
      BY DEF ControlInv, TypeOK
    <2>4. AfterStart'
      BY DEF AfterStart, TypeOK, ControlInv
    <2>5. TurnInv'
      BY DEF TurnInv, TypeOK, ControlInv
    <2>6. NativeInv'
      BY DEF NativeInv, TypeOK, ControlInv
    <2>7. LastInv'
      BY DEF LastInv, TypeOK
    <2>8. ResourceInv'
      BY DEF ResourceInv, NeedsUnregister, NeedsUninitialize
    <2>9. NoLostWakeup'
      BY DEF NoLostWakeup, TypeOK, JavaGivesUp, JavaReady, CycleIsOver, HasEnded
    <2> QED
      BY <2>2, <2>3, <2>4, <2>5, <2>6, <2>7, <2>8, <2>9
  <1> QED
    BY <1>2, <1>3 DEF ShutdownFinishes


\* shutdown is called.
LEMMA ShutdownOK ==
  ASSUME PortInv, NEW forced \in BOOLEAN, Shutdown(forced)
  PROVE  PortInv'
  <1>1. Free /\ force' \in BOOLEAN /\ port \in PortType
    BY DEF Shutdown, AdminCalls, PortInv, TypeOK
  <1>2. Fields(RequestLast(port), port.output, port.state, port.substate, TRUE, port.processException)
    BY <1>1, RequestLastFields
  <1>3. CASE ShutdownFinishes(RequestLast(port))
    BY <1>1, <1>2, <1>3, ShutdownFinishesOK DEF Fields
  <1>4. CASE /\ ~HasEnded(port)
             /\ port' = RequestLast(port)
             /\ Sleep("admin", "asleepShutdown")
             /\ UNCHANGED <<owner, more, arg, listener, handle, lead, sawLast>>
    BY <1>1, <1>2, <1>4, AdminSleepsOK DEF Fields
  <1> QED
    BY <1>3, <1>4 DEF Shutdown

\* shutdown goes on after a wait.
LEMMA ShutdownWakesOK == PortInv /\ ShutdownWakes => PortInv'
  <1> SUFFICES ASSUME PortInv, ShutdownWakes PROVE PortInv'
    OBVIOUS
  <1>1. Free /\ force' \in BOOLEAN /\ port \in PortType
    BY DEF ShutdownWakes, PortInv, TypeOK
  <1>2. CASE ShutdownFinishes(port)
    BY <1>1, <1>2, ShutdownFinishesOK
  <1>3. CASE /\ ~HasEnded(port)
             /\ Sleep("admin", "asleepShutdown")
             /\ UNCHANGED <<port, owner, more, arg, listener, handle, lead, sawLast>>
    BY <1>1, <1>3, AdminSleepsOK DEF Fields
  <1> QED
    BY <1>2, <1>3 DEF ShutdownWakes

\* A timed wait expires.
LEMMA StopTimeoutOK == PortInv /\ StopTimeout => PortInv'
  <1> SUFFICES ASSUME PortInv, StopTimeout PROVE PortInv'
    OBVIOUS
  <1> USE DEF PortInv, StopTimeout
  <1>1. TypeOK'
    BY DEF TypeOK, SubstateFitsState, Location
  <1>2. ControlInv'
    BY DEF ControlInv, TypeOK
  <1>3. AfterStart'
    BY DEF AfterStart, TypeOK, ControlInv
  <1>4. TurnInv'
    BY DEF TurnInv, TypeOK, ControlInv
  <1>5. NativeInv'
    BY DEF NativeInv, TypeOK, ControlInv
  <1>6. LastInv'
    BY DEF LastInv, TypeOK
  <1>7. ResourceInv'
    BY DEF ResourceInv, NeedsUnregister, NeedsUninitialize
  <1>8. NoLostWakeup'
    BY DEF NoLostWakeup, TypeOK, JavaGivesUp, JavaReady, CycleIsOver, HasEnded
  <1> QED
    BY <1>1, <1>2, <1>3, <1>4, <1>5, <1>6, <1>7, <1>8

\* A wait ends without a notification.
LEMMA SpuriousWakeupOK ==
  ASSUME PortInv, NEW t \in Thread, SpuriousWakeup(t)
  PROVE  PortInv'
  <1> USE DEF PortInv, SpuriousWakeup
  <1>1. TypeOK'
    BY DEF TypeOK, SubstateFitsState, Location
  <1>2. ControlInv'
    BY DEF ControlInv, TypeOK
  <1>3. AfterStart'
    BY DEF AfterStart, TypeOK, ControlInv
  <1>4. TurnInv'
    BY DEF TurnInv, TypeOK, ControlInv
  <1>5. NativeInv'
    BY DEF NativeInv, TypeOK, ControlInv
  <1>6. LastInv'
    BY DEF LastInv, TypeOK
  <1>7. ResourceInv'
    BY DEF ResourceInv, NeedsUnregister, NeedsUninitialize
  <1>8. NoLostWakeup'
    BY DEF NoLostWakeup, TypeOK, JavaGivesUp, JavaReady, CycleIsOver, HasEnded
  <1> QED
    BY <1>1, <1>2, <1>3, <1>4, <1>5, <1>6, <1>7, <1>8

\* Nothing changes.
LEMMA StutterOK == PortInv /\ UNCHANGED vars => PortInv'
  <1> SUFFICES ASSUME PortInv, UNCHANGED vars PROVE PortInv'
    OBVIOUS
  <1> USE DEF PortInv, vars
  <1>1. TypeOK'
    BY DEF TypeOK, SubstateFitsState, Location
  <1>2. ControlInv'
    BY DEF ControlInv, TypeOK
  <1>3. AfterStart'
    BY DEF AfterStart, TypeOK, ControlInv
  <1>4. TurnInv'
    BY DEF TurnInv, TypeOK, ControlInv
  <1>5. NativeInv'
    BY DEF NativeInv, TypeOK, ControlInv
  <1>6. LastInv'
    BY DEF LastInv, TypeOK
  <1>7. ResourceInv'
    BY DEF ResourceInv, NeedsUnregister, NeedsUninitialize
  <1>8. NoLostWakeup'
    BY DEF NoLostWakeup, TypeOK, JavaGivesUp, JavaReady, CycleIsOver, HasEnded
  <1> QED
    BY <1>1, <1>2, <1>3, <1>4, <1>5, <1>6, <1>7, <1>8

----------------------------------------------------------------------------

\* Every step of the port keeps the invariant, if acquiring the mutex never
\* times out.
LEMMA StepOK ==
  ASSUME LockTimeouts = FALSE
  PROVE  PortInv /\ [Next]_vars => PortInv'
  <1> SUFFICES ASSUME PortInv, [Next]_vars PROVE PortInv'
    OBVIOUS
  <1>1. CASE JavaNext
    BY <1>1, JavaCallOK, JavaWakesOK, JavaReturnsOK DEF JavaNext
  <1>2. CASE NativeNext
    <2>1. ~NativeLockTimeout
      BY DEF NativeLockTimeout
    <2>2. ~NativeStopsUnlocked
      BY DEF NativeStopsUnlocked, PortInv, ControlInv
    <2> QED
      BY <1>2, <2>1, <2>2, NativeLoopOK, NativeInitOK, NativeCallOK, NativeWakesOK, NativeAwaitsOK
      DEF NativeNext
  <1>3. CASE AdminNext
    BY <1>3, InitializeOK, RegisterAtServerOK, StartOK, UnregisterAtServerOK, UninitializeOK,
       StopOK,
       ShutdownOK, StopWakesOK, ShutdownWakesOK, StopTimeoutOK DEF AdminNext
  <1>4. CASE WantLast
    BY <1>4, WantLastOK
  <1>5. CASE Finished \/ UNCHANGED vars
    BY <1>5, StutterOK DEF Finished
  <1>6. ASSUME NEW t \in Thread, SpuriousWakeup(t) PROVE PortInv'
    BY <1>6, SpuriousWakeupOK
  <1> QED
    BY <1>1, <1>2, <1>3, <1>4, <1>5, <1>6 DEF Next

\* PortInv is an invariant of the port.
THEOREM PortInvariant ==
  ASSUME LockTimeouts = FALSE
  PROVE  Spec => []PortInv
  <1>1. PortInv /\ [Next]_vars => PortInv'
    BY StepOK
  <1> QED
    BY InitOK, <1>1, PTL DEF Spec

\* Every variable has its type, and the sub-state fits the main state.
THEOREM PortTypeCorrect ==
  ASSUME LockTimeouts = FALSE
  PROVE  Spec => []TypeOK
  <1>1. PortInv => TypeOK
    BY DEF PortInv
  <1> QED
    BY PortInvariant, <1>1, PTL

\* The two workers alternate on every port, in the right order, however often
\* they are woken and however the port is stopped.
THEOREM PortFlipFlop ==
  ASSUME LockTimeouts = FALSE
  PROVE  Spec => []FlipFlop
  <1>1. PortInv => FlipFlop
    BY DEF PortInv, TypeOK, SubstateFitsState, TurnInv, FlipFlop
  <1> QED
    BY PortInvariant, <1>1, PTL

\* No thread sleeps through the event it is waiting for.
THEOREM PortNoLostWakeup ==
  ASSUME LockTimeouts = FALSE
  PROVE  Spec => []NoLostWakeup
  <1>1. PortInv => NoLostWakeup
    BY DEF PortInv
  <1> QED
    BY PortInvariant, <1>1, PTL

\* The callback is made only between onOpen and onClose, on a running port.
THEOREM PortCallbackContract ==
  ASSUME LockTimeouts = FALSE
  PROVE  Spec => []CallbackContract
  <1>1. PortInv => CallbackContract
    BY DEF PortInv, TypeOK, SubstateFitsState, TurnInv, ResourceInv, NeedsUninitialize,
           NeedsUnregister, CallbackContract
  <1> QED
    BY PortInvariant, <1>1, PTL

\* The workers never run into a "Cannot ..." error of the port.
THEOREM PortNoIllegalStep ==
  ASSUME LockTimeouts = FALSE
  PROVE  Spec => []NoIllegalStep
  <1>1. PortInv => NoIllegalStep
    BY DEF PortInv, NativeInv, NoIllegalStep
  <1> QED
    BY PortInvariant, <1>1, PTL

\* A port that may be deleted and has nothing to report holds no resources.
THEOREM PortNothingLeaks ==
  ASSUME LockTimeouts = FALSE
  PROVE  Spec => []NothingLeaks
  <1>1. PortInv => NothingLeaks
    BY DEF PortInv, ResourceInv, NeedsUninitialize, NeedsUnregister, NothingLeaks
  <1> QED
    BY PortInvariant, <1>1, PTL

\* A callback is entered only when the last one has not been announced.
THEOREM PortLastIsLast ==
  ASSUME LockTimeouts = FALSE
  PROVE  Spec => LastIsLast
  <1> DEFINE Step == owner # "java" /\ owner' = "java" => ~sawLast
  <1>1. PortInv /\ [Next]_vars => Step
    <2> SUFFICES ASSUME PortInv, [Next]_vars, owner # "java", owner' = "java"
                 PROVE  ~sawLast
      OBVIOUS
    <2>1. JavaReady(port) /\ Free
      <3>1. CASE JavaNext
        BY <3>1 DEF JavaNext, JavaCall, JavaWakes, JavaReturns, JavaSleeps
      <3>2. ~NativeNext
        BY DEF NativeNext, NativeLoop, NativeInit, NativeCall, NativeWakes, NativeAwaits,
               NativeLockTimeout, NativeStopsUnlocked
      <3>3. ~AdminNext
        BY DEF AdminNext, Initialize, RegisterAtServer, Start, UnregisterAtServer, Uninitialize,
               Stop, Shutdown, StopWakes, ShutdownWakes, StopTimeout, StopFinishes, ShutdownFinishes
      <3>4. ~WantLast /\ ~Finished /\ ~UNCHANGED vars /\ ~\E t \in Thread : SpuriousWakeup(t)
        BY DEF WantLast, Finished, vars, SpuriousWakeup
      <3> QED
        BY <3>1, <3>2, <3>3, <3>4 DEF Next
    <2> QED
      BY <2>1 DEF JavaReady, PortInv, LastInv, TypeOK
  <1>2. Spec => [][Step]_vars
    BY PortInvariant, <1>1, PTL DEF Spec
  <1> QED
    BY <1>2 DEF LastIsLast

\* A port that stop has stopped without an exception has had its last callback,
\* and both sides have finished that cycle.
THEOREM PortStopIsClean ==
  ASSUME LockTimeouts = FALSE
  PROVE  Spec => StopIsClean
  <1> DEFINE Step == port.state = "running" /\ port'.state = "stopped"
                       /\ port'.processException = "nothing" => sawLast /\ lead = 0
  <1>1. PortInv /\ [Next]_vars => Step
    <2> SUFFICES ASSUME PortInv, [Next]_vars, port.state = "running", port'.state = "stopped",
                        port'.processException = "nothing"
                 PROVE  sawLast /\ lead = 0
      OBVIOUS
    <2>1. port \in PortType /\ Running(port)
      BY DEF PortInv, TypeOK
    <2>2. ~JavaNext
      <3> SUFFICES ASSUME JavaNext PROVE FALSE
        OBVIOUS
      <3>1. \E last \in BOOLEAN :
              port' \in {port, JavaBegins(port, last), JavaEnds(port), emergencyStop(port, "java")}
        BY DEF JavaNext, JavaCall, JavaWakes, JavaReturns, JavaSleeps, JavaEnters, PortInv, TypeOK
      <3> QED
        BY <2>1, <3>1, JavaEndsFields, EmergencyStopFields, JavaBeginsFields DEF Fields, Cause
    <2>3. ~NativeNext
      <3> SUFFICES ASSUME NativeNext PROVE FALSE
        OBVIOUS
      <3>1. \/ port' \in {port, NativeEnds(port)}
            \/ port' = [port EXCEPT !.substate = IF port.output THEN "javaToExec" ELSE "nativeToExec"]
            \/ \E c \in Cause : port' = emergencyStop(port, c)
        BY DEF NativeNext, NativeLoop, NativeInit, NativeCall, NativeWakes, NativeAwaits,
               NativeLockTimeout, NativeStopsUnlocked, NativeProceeds, NativeReturns, NativeRuns,
               execNativeCycleInit, Cause
      <3> QED
        BY <2>1, <3>1, NativeEndsFields, EmergencyStopFields DEF Fields, PortType
    <2>4. ~WantLast /\ ~Finished /\ ~UNCHANGED vars /\ ~\E t \in Thread : SpuriousWakeup(t)
      BY DEF WantLast, Finished, vars, SpuriousWakeup
    <2>5. PICK p \in {port, RequestLast(port)} : StopFinishes(p)
      <3>1. AdminNext
        BY <2>2, <2>3, <2>4 DEF Next
      <3>2. ASSUME NEW q \in PortType PROVE ~ShutdownFinishes(q)
        <4>1. setProcessException(q, "teardown") \in PortType
          BY SetProcessExceptionFields DEF Fields, Cause
        <4>2. \A r \in PortType : Deletable(r).state = "deletable"
          BY DeletableFields DEF Fields
        <4> QED
          BY <4>1, <4>2 DEF ShutdownFinishes
      <3>3. /\ RequestLast(port) \in PortType
            /\ port' # RequestLast(port)
        BY <2>1, RequestLastFields DEF Fields
      <3> QED
        BY <2>1, <3>1, <3>2, <3>3 DEF AdminNext, Initialize, RegisterAtServer, Start,
           UnregisterAtServer,
           Uninitialize, Stop, Shutdown, StopWakes, ShutdownWakes, StopTimeout
    <2>6. Fields(p, port.output, port.state, port.substate, p.lastCycle, port.processException)
      BY <2>1, RequestLastFields DEF Fields
    <2>7. port'.processException = IF port.substate \in {"terminated", "none"}
                                   THEN port.processException ELSE FirstOf(p, "forced")
      BY <2>5, <2>6, StopEndsFields DEF Fields, StopFinishes
    <2>8. port.substate = "terminated"
      BY <2>6, <2>7 DEF Fields, FirstOf, PortInv, TypeOK, SubstateFitsState
    <2> QED
      BY <2>1, <2>8 DEF PortInv, LastInv, TurnInv, TypeOK
  <1>2. Spec => [][Step]_vars
    BY PortInvariant, <1>1, PTL DEF Spec
  <1> QED
    BY <1>2 DEF StopIsClean

----------------------------------------------------------------------------
(* The port implements PortLife: each step of the port is one of its life, or *)
(* none.                                                                      *)

\* The callback is made, or waited for: seen from outside, the end is announced, or nothing.
LEMMA JavaCallLives ==
  ASSUME PortInv, JavaCall \/ JavaWakes
  PROVE  [Life!Next]_(Life!vars)
  <1>1. port \in PortType /\ more \in BOOLEAN /\ arg \in BOOLEAN
    BY DEF PortInv, TypeOK
  <1>2. CASE port' = port
    BY <1>2 DEF Life!vars
  <1>3. ASSUME NEW last \in BOOLEAN, port' = JavaBegins(port, last)
        PROVE  [Life!Next]_(Life!vars)
    <2>1. Fields(port', port.output, port.state, port.substate, port.lastCycle \/ last,
                 port.processException)
      BY <1>1, <1>3, JavaBeginsFields
    <2>2. CASE last
      BY <2>1, <2>2 DEF Fields, Life!Next, Life!Announce
    <2>3. CASE ~last
      BY <1>1, <2>1, <2>3 DEF Fields, PortType, Life!vars
    <2> QED
      BY <2>2, <2>3
  <1> QED
    BY <1>1, <1>2, <1>3 DEF JavaCall, JavaWakes, JavaSleeps, JavaEnters

LEMMA JavaReturnsLives ==
  ASSUME PortInv, JavaReturns
  PROVE  [Life!Next]_(Life!vars)
  <1>1. /\ port \in PortType /\ "java" \in Cause
        /\ port.state = "running" /\ port.substate = "javaToExec"
    BY DEF PortInv, TypeOK, Cause, SubstateFitsState, TurnInv, JavaReturns
  <1>2. CASE port' = JavaEnds(port)
    <2>1. Fields(port', port.output, port.state,
                 IF port.lastCycle THEN (IF port.output THEN "nativeToTerminate" ELSE "terminated")
                                   ELSE (IF port.output THEN "nativeToExec" ELSE "cycleDone"),
                 port.lastCycle, port.processException)
      BY <1>1, <1>2, JavaEndsFields
    <2>2. Life!JavaTurn
      BY <1>1, <2>1 DEF Fields, Life!JavaTurn, Life!Running
    <2> QED
      BY <2>2 DEF Life!Next
  <1>3. CASE port' = emergencyStop(port, "java")
    <2>1. Fields(port', port.output, "stoppedOnError", "none", port.lastCycle, FirstOf(port, "java"))
      BY <1>1, <1>3, EmergencyStopFields
    <2>2. Life!Fail
      BY <1>1, <2>1 DEF Fields, Life!Fail, Life!Running
    <2> QED
      BY <2>2 DEF Life!Next
  <1> QED
    BY <1>2, <1>3 DEF JavaReturns

\* A cycle is opened, unless the port has ended.
LEMMA NativeInitLives ==
  ASSUME PortInv, NativeInit
  PROVE  [Life!Next]_(Life!vars)
  <1>1. port \in PortType /\ pc["native"] = "init"
    BY DEF PortInv, TypeOK, NativeInit
  <1>2. CASE ~Running(port) \/ port.substate = "terminated"
    BY <1>2 DEF NativeInit, execNativeCycleInit, Life!vars
  <1>3. CASE Running(port) /\ port.substate # "terminated"
    <2>1. AcceptsInit(port)
      BY <1>1, <1>3 DEF AcceptsInit, PortInv, NativeInv
    <2>2. Fields(port', port.output, port.state,
                 IF port.output THEN "javaToExec" ELSE "nativeToExec",
                 port.lastCycle, port.processException)
      BY <1>1, <1>3, <2>1, ExecNativeCycleInitFields DEF NativeInit
    <2>3. Life!Open
      BY <1>3, <2>1, <2>2 DEF Fields, AcceptsInit, Life!Open, Life!Running
    <2> QED
      BY <2>3 DEF Life!Next
  <1> QED
    BY <1>2, <1>3

\* The native worker's turn, which may fail; it never finds the port where it would throw.
LEMMA NativeProceedsLives ==
  ASSUME PortInv, NativeProceeds
  PROVE  [Life!Next]_(Life!vars)
  <1>1. port \in PortType /\ ~NativeIllegal(port)
    BY DEF PortInv, TypeOK, TurnInv, NativeIllegal
  <1>2. CASE NativeReady(port) /\ port' = NativeEnds(port)
    <2>1. Fields(port', port.output, port.state,
                 IF ~port.output THEN "javaToExec"
                 ELSE IF port.substate = "nativeToTerminate" THEN "terminated" ELSE "cycleDone",
                 port.lastCycle, port.processException)
      BY <1>1, <1>2, NativeEndsFields
    <2>2. Life!NativeTurn
      BY <1>1, <1>2, <2>1 DEF Fields, NativeReady, NativeIllegal, Life!NativeTurn, Life!Running
    <2> QED
      BY <2>2 DEF Life!Next
  <1>3. CASE NativeReady(port) /\ port' = emergencyStop(port, "native")
    <2>1. Fields(port', port.output, "stoppedOnError", "none", port.lastCycle,
                 FirstOf(port, "native"))
      BY <1>1, <1>3, EmergencyStopFields DEF Cause
    <2>2. Life!Fail
      BY <1>1, <1>3, <2>1 DEF Fields, NativeReady, Life!Fail, Life!Running
    <2> QED
      BY <2>2 DEF Life!Next
  <1>4. CASE port' = port
    BY <1>4 DEF Life!vars
  <1> QED
    BY <1>1, <1>2, <1>3, <1>4 DEF NativeProceeds, NativeRuns

\* The native worker, called or woken.
LEMMA NativeLives ==
  ASSUME PortInv, NativeNext, LockTimeouts = FALSE
  PROVE  [Life!Next]_(Life!vars)
  <1>1. CASE NativeInit
    BY <1>1, NativeInitLives
  <1>2. CASE NativeProceeds
    BY <1>2, NativeProceedsLives
  <1>3. CASE port' = port
    BY <1>3 DEF Life!vars
  <1>4. ~NativeLockTimeout /\ ~NativeStopsUnlocked
    BY DEF NativeLockTimeout, NativeStopsUnlocked, PortInv, ControlInv
  <1>5. ASSUME NativeWakes, ~NativeProceeds PROVE port' = port
    <2>1. ~NativeRejects(port) \/ ~Running(port)
      BY <1>5 DEF NativeWakes, NativeRejects, PortInv, NativeInv
    <2>2. ~Running(port) => ~NativeRejects(port)
      BY DEF NativeRejects, PortInv, TypeOK, SubstateFitsState
    <2> QED
      BY <1>5, <2>1, <2>2 DEF NativeWakes, NativeReturns
  <1> QED
    BY <1>1, <1>2, <1>3, <1>4, <1>5
    DEF NativeNext, NativeLoop, NativeCall, NativeReturns, NativeAwaits

\* The end of stop.
LEMMA StopFinishesLives ==
  ASSUME PortInv, NEW p \in {port, RequestLast(port)}, StopFinishes(p),
         port.state \in {"registered", "running", "stoppedOnError"}
  PROVE  [Life!Next]_(Life!vars)
  <1>1. port \in PortType
    BY DEF PortInv, TypeOK
  <1>2. Fields(p, port.output, port.state, port.substate, p.lastCycle, port.processException)
        /\ p.lastCycle \in {port.lastCycle, TRUE}
    BY <1>1, RequestLastFields DEF Fields
  <1>3. Fields(port', port.output, "stopped", "none", p.lastCycle, port'.processException)
    BY <1>1, <1>2, StopEndsFields DEF Fields, StopFinishes
  <1>4. Life!Stop
    BY <1>2, <1>3 DEF Fields, Life!Stop
  <1> QED
    BY <1>4 DEF Life!Next

\* The end of shutdown.
LEMMA ShutdownFinishesLives ==
  ASSUME PortInv, NEW p \in {port, RequestLast(port)}, ShutdownFinishes(p)
  PROVE  [Life!Next]_(Life!vars)
  <1>1. port \in PortType
    BY DEF PortInv, TypeOK
  <1>2. Fields(p, port.output, port.state, port.substate, p.lastCycle, port.processException)
        /\ p.lastCycle \in {port.lastCycle, TRUE}
    BY <1>1, RequestLastFields DEF Fields
  <1>3. Fields(port', port.output, "deletable", "none", p.lastCycle, port'.processException)
    <2> DEFINE q == setProcessException(p, "teardown")
    <2>1. Fields(q, p.output, p.state, p.substate, p.lastCycle, FirstOf(p, "teardown"))
      BY <1>2, SetProcessExceptionFields DEF Fields, Cause
    <2> HIDE DEF q
    <2>2. port' = Deletable(p) \/ port' = Deletable(q)
      BY DEF ShutdownFinishes, q
    <2> QED
      BY <1>2, <2>1, <2>2, DeletableFields DEF Fields
  <1>4. Life!Shutdown
    BY <1>2, <1>3 DEF Fields, Life!Shutdown
  <1> QED
    BY <1>4 DEF Life!Next

\* The end is announced.
LEMMA RequestLastLives ==
  ASSUME PortInv, port' = RequestLast(port)
  PROVE  [Life!Next]_(Life!vars)
  <1>1. Fields(port', port.output, port.state, port.substate, TRUE, port.processException)
    BY RequestLastFields DEF PortInv, TypeOK
  <1>2. Life!Announce
    BY <1>1 DEF Fields, Life!Announce
  <1> QED
    BY <1>2 DEF Life!Next

\* The administrator's operations, one step of the port's life each.
LEMMA AdminLives ==
  ASSUME PortInv, AdminNext
  PROVE  [Life!Next]_(Life!vars)
  <1>1. port \in PortType
    BY DEF PortInv, TypeOK
  <1>2. CASE Initialize
    <2>1. CASE port' = Initialized(port)
      <3>1. Fields(port', port.output, "initialized", port.substate, port.lastCycle,
                   port.processException)
        BY <1>1, <2>1, InitializedFields
      <3>2. Life!Initialize
        BY <1>2, <3>1 DEF Fields, Initialize, Life!Initialize
      <3> QED
        BY <3>2 DEF Life!Next
    <2> QED
      BY <1>2, <2>1 DEF Initialize, Life!vars
  <1>3. CASE RegisterAtServer
    <2>1. Fields(port', port.output, "registered", port.substate, port.lastCycle,
                 port.processException)
      BY <1>1, <1>3, RegisteredFields DEF RegisterAtServer
    <2>2. Life!RegisterAtServer
      BY <1>3, <2>1 DEF Fields, RegisterAtServer, Life!RegisterAtServer
    <2> QED
      BY <2>2 DEF Life!Next
  <1>4. CASE Start
    <2>1. Fields(port', port.output, "running", "started", port.lastCycle, port.processException)
      BY <1>1, <1>4, StartedFields DEF Start
    <2>2. Life!Start
      BY <1>4, <2>1 DEF Fields, Start, Life!Start
    <2> QED
      BY <2>2 DEF Life!Next
  <1>5. CASE UnregisterAtServer
    <2>1. Fields(port', port.output, "unregistered", port.substate, port.lastCycle,
                 port.processException)
      BY <1>1, <1>5, UnregisteredFields DEF UnregisterAtServer
    <2>2. Life!UnregisterAtServer
      BY <1>5, <2>1 DEF Fields, UnregisterAtServer, Life!UnregisterAtServer
    <2> QED
      BY <2>2 DEF Life!Next
  <1>6. CASE Uninitialize
    <2>1. Fields(port', port.output, "deletable", port.substate, port.lastCycle,
                 port.processException)
      BY <1>1, <1>6, UninitializedFields DEF Uninitialize
    <2>2. Life!Uninitialize
      BY <1>6, <2>1 DEF Fields, Uninitialize, Life!Uninitialize
    <2> QED
      BY <2>2 DEF Life!Next
  <1>7. ASSUME NEW forced \in BOOLEAN, Stop(forced) PROVE [Life!Next]_(Life!vars)
    <2>1. CASE port.state = "stoppedOnError" /\ port' = StopAfterError(port)
      <3>1. Fields(port', port.output, "stopped", port.substate, port.lastCycle,
                   port.processException)
        BY <1>1, <2>1, StopAfterErrorFields
      <3>2. port.substate = "none"
        BY <2>1 DEF PortInv, TypeOK, SubstateFitsState
      <3>3. Life!Stop
        BY <2>1, <3>1, <3>2 DEF Fields, Life!Stop
      <3> QED
        BY <3>3 DEF Life!Next
    <2>2. CASE port.state \in {"running", "registered"} /\ StopFinishes(RequestLast(port))
      BY <2>2, StopFinishesLives
    <2>3. CASE port' = RequestLast(port)
      BY <2>3, RequestLastLives
    <2> QED
      BY <1>7, <2>1, <2>2, <2>3 DEF Stop
  <1>8. ASSUME NEW forced \in BOOLEAN, Shutdown(forced) PROVE [Life!Next]_(Life!vars)
    BY <1>8, ShutdownFinishesLives, RequestLastLives DEF Shutdown
  <1>9. CASE StopWakes
    <2>1. port.state \in {"running", "stoppedOnError"}
      BY <1>9 DEF StopWakes, PortInv, AfterStart
    <2> QED
      BY <1>9, <2>1, StopFinishesLives DEF StopWakes, Life!vars
  <1>10. CASE ShutdownWakes
    BY <1>10, ShutdownFinishesLives DEF ShutdownWakes, Life!vars
  <1>11. CASE StopTimeout
    BY <1>11 DEF StopTimeout, Life!vars
  <1> QED
    BY <1>2, <1>3, <1>4, <1>5, <1>6, <1>7, <1>8, <1>9, <1>10, <1>11 DEF AdminNext

\* A port implements PortLife: its turns are taken one at a time and in order, whatever
\* waits, wakes up or runs into its timeout meanwhile.
THEOREM PortKeepsLife ==
  ASSUME LockTimeouts = FALSE
  PROVE  Spec => KeepsPortLife
  <1>1. Init => Life!Init
    <2> SUFFICES ASSUME Init PROVE Life!Init
      OBVIOUS
    <2>1. PICK o \in BOOLEAN : port = NewPort(o)
      BY DEF Init
    <2>2. Fields(port, o, "created", "none", FALSE, "nothing")
      BY <2>1, NewPortFields
    <2> QED
      BY <2>2 DEF Fields, Life!Init
  <1>2. PortInv /\ [Next]_vars => [Life!Next]_(Life!vars)
    <2> SUFFICES ASSUME PortInv, [Next]_vars PROVE [Life!Next]_(Life!vars)
      OBVIOUS
    <2>1. CASE JavaNext
      BY <2>1, JavaCallLives, JavaReturnsLives DEF JavaNext
    <2>2. CASE NativeNext
      BY <2>2, NativeLives
    <2>3. CASE AdminNext
      BY <2>3, AdminLives
    <2>4. CASE port' = port
      BY <2>4 DEF Life!vars
    <2> QED
      BY <2>1, <2>2, <2>3, <2>4 DEF Next, WantLast, Finished, SpuriousWakeup, vars
  <1> QED
    BY PortInvariant, <1>1, <1>2, PTL DEF Spec, KeepsPortLife, Life!Spec

==============================================================================
