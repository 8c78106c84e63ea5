---------------------------- MODULE LockStepProofs ----------------------------
(***************************************************************************)
(* The two walks of a PortChain keep in step, for every length of the      *)
(* array and any number of ports that come and go meanwhile, as long as    *)
(* the start control runs: no port is brought into a "Cannot ..." error,   *)
(* every cycle is bracketed by onCycleStart and onCycleEnd, the ports end  *)
(* together, and one of the two workers can always go on.  Nothing is      *)
(* assumed about failures, timeouts and refused registrations.             *)
(*   That each port of the chain is a PortLife needs no start control; it  *)
(* rests on the turns alone.  That the ports fit the chain's state needs   *)
(* patience and an audio server that registers every port.                 *)
(***************************************************************************)
EXTENDS PortChainProofs

Sub(i) == portList[i].substate

Runs(i) == Running(portList[i])

\* Done with the last round, or not yet in one.
Rested == {"started", "cycleDone", "terminated"}

\* The process thread is past the first walk of its round.
InRound == native.at \in {"process", "blocked"}

\* The Java worker has left the start control behind; which slots has it left behind?
Ahead == java.at \in {"walk", "blocked"} /\ java.slot # Start

Passed(i) == java.at \in {"walk", "blocked"} /\ i < java.slot

\* Where a running port can be once the process thread has opened its cycle.
Opened(i) ==
  {"started", "terminated"} \cup
    (IF portList[i].output THEN {"javaToExec", "nativeToExec", "nativeToTerminate"}
                           ELSE {"nativeToExec"})

\* Where it can be, as far as the process thread is concerned: it has not begun with it, has
\* finished it, or has opened its cycle.
Expected(i) ==
  IF native.at = "idle" \/ (native.at = "init" /\ i >= native.slot) THEN Rested
  ELSE IF InRound /\ i < native.slot
       THEN (IF portList[i].output THEN Rested ELSE Rested \cup {"javaToExec"})
       ELSE Opened(i)

\* The callback of the end control has been called in this round.
EndCalled == Sub(End) \in {"nativeToExec", "nativeToTerminate"}

\* Port i awaits its callback, if it runs.
Awaits(i) == Sub(i) = "javaToExec" \/ (Sub(i) = "nativeToExec" /\ ~portList[i].output)

\* Port i has had its last callback, or is too late for the last cycle, if it runs.
Ended(i) == Sub(i) \in {"started", "nativeToTerminate", "terminated"}

\* Which ports can run, and where the threads can be, when.
PlaceInv ==
  /\ \A i \in Slot : IF Runs(i) THEN i \in hasItem /\ state \notin {"created", "initialized", "registered"}
                     ELSE Sub(i) = "none"
  /\ InStep => state = "running"
  /\ state \in {"initialized", "registered"} => ~portList[Start].lastCycle /\ ~portList[End].lastCycle
  /\ admin.at \in {"stop", "stopWaits"} /\ InStep =>
       admin.slot = Start /\ (admin.force \/ Sub(End) = "terminated")
  /\ native.at # "idle" => activated

\* The process thread finds every port where it has left it, or where the Java worker has
\* taken it; the control ports take part in every round.
RoundInv ==
  /\ Runs(End)
  /\ \A i \in Slot : Runs(i) => Sub(i) \in Expected(i)
  /\ native.at = "blocked" /\ Runs(native.slot) => Sub(native.slot) \notin Rested
  /\ native.at = "init" => Sub(End) # "terminated"
  /\ InRound => Sub(End) \notin Rested
  /\ InRound \/ (native.at = "init" /\ native.slot # Start) => Sub(Start) # "started"

\* The Java worker leaves nothing behind that still awaits it; it is past the start control
\* exactly as long as the start control has had its callback and the end control has not.
WalkInv ==
  /\ \A i \in Slot : Runs(i) /\ (Passed(i) \/ EndCalled) => ~Awaits(i)
  /\ Ahead => Sub(End) = "javaToExec" /\ Sub(Start) \in {"cycleDone", "terminated"}
  /\ ~Ahead /\ Sub(End) = "javaToExec" => Sub(Start) \in {"nativeToExec", "javaToExec"}
  /\ java.at \in {"loop", "walk", "blocked"} => Sub(Start) # "started"
  /\ java.at \in {"walk", "blocked"} /\ ~Ahead => Sub(Start) # "terminated"

\* The last walk begins with the start control and ends with the end control, and every port
\* that it has passed has ended.
LastInv ==
  /\ Sub(Start) = "terminated" =>
       IF Ahead THEN java.last ELSE Sub(End) \in {"nativeToTerminate", "terminated"}
  /\ portList[Start].lastCycle => Sub(Start) = "terminated" \/ Sub(End) = "terminated"
  /\ portList[End].lastCycle => Sub(End) \in {"nativeToTerminate", "terminated"}
  /\ \A i \in Slot : /\ Runs(i)
                     /\ (Passed(i) /\ java.last) \/ Sub(End) \in {"nativeToTerminate", "terminated"}
                     => Ended(i)

LockInv == InStep => RoundInv /\ WalkInv /\ LastInv

\* The inductive invariant.
StepInv == ChainInv /\ PlaceInv /\ LockInv

----------------------------------------------------------------------------
(* What the operators of PortOps do to a port's turn. *)

\* The Java side of a port that is ready for it.
LEMMA JavaTurn ==
  ASSUME NEW p \in PortType, NEW last \in BOOLEAN, JavaReady(p), NEW q, q = JavaEnds(JavaBegins(p, last))
  PROVE  /\ q \in PortType /\ q.output = p.output /\ Running(q)
         /\ q.lastCycle <=> p.lastCycle \/ last
         /\ q.lastCycle => q.substate = IF p.output THEN "nativeToTerminate" ELSE "terminated"
         /\ ~q.lastCycle => q.substate = IF p.output THEN "nativeToExec" ELSE "cycleDone"
  <1> DEFINE b == JavaBegins(p, last)
  <1>1. Fields(b, p.output, p.state, p.substate, p.lastCycle \/ last, p.processException)
    BY JavaBeginsFields
  <1>2. b \in PortType /\ b.output = p.output /\ b.state = p.state /\ (b.lastCycle <=> p.lastCycle \/ last)
    BY <1>1 DEF Fields
  <1> HIDE DEF b
  <1>3. Fields(q, b.output, b.state,
                IF b.lastCycle THEN (IF b.output THEN "nativeToTerminate" ELSE "terminated")
                ELSE (IF b.output THEN "nativeToExec" ELSE "cycleDone"),
                b.lastCycle, b.processException)
    BY <1>2, JavaEndsFields DEF b
  <1> QED
    BY <1>2, <1>3 DEF Fields, JavaReady, Running

\* The native side.
LEMMA NativeTurn ==
  ASSUME NEW p \in PortType, NativeReady(p), NEW q, q = NativeEnds(p)
  PROVE  /\ q \in PortType /\ q.output = p.output /\ Running(q) /\ q.lastCycle = p.lastCycle
         /\ q.substate = IF ~p.output THEN "javaToExec"
                         ELSE IF p.substate = "nativeToTerminate" THEN "terminated" ELSE "cycleDone"
  BY NativeEndsFields DEF Fields, NativeReady, Running

\* The first walk of a round, on a port at rest.
LEMMA InitTurn ==
  ASSUME NEW p \in PortType, Running(p) => p.substate \in Rested, NEW q, q = execNativeCycleInit(p)
  PROVE  /\ q \in PortType /\ q.output = p.output /\ (Running(q) <=> Running(p)) /\ q.lastCycle = p.lastCycle
         /\ q.substate = IF ~Running(p) \/ p.substate = "terminated" THEN p.substate
                         ELSE IF p.output THEN "javaToExec" ELSE "nativeToExec"
  <1>1. CASE ~Running(p) \/ p.substate = "terminated"
    BY <1>1 DEF execNativeCycleInit
  <1>2. CASE Running(p) /\ p.substate # "terminated"
    <2>1. AcceptsInit(p)
      BY <1>2 DEF AcceptsInit, Rested
    <2> QED
      BY <1>2, <2>1, ExecNativeCycleInitFields DEF Fields, Running
  <1> QED
    BY <1>1, <1>2

\* An error ends the turn.
LEMMA ErrorTurn ==
  ASSUME NEW p \in PortType, NEW c \in Cause, NEW q, q = emergencyStop(p, c)
  PROVE  q \in PortType /\ ~Running(q) /\ q.substate = "none" /\ q.lastCycle = p.lastCycle
  BY EmergencyStopFields DEF Fields, Running

----------------------------------------------------------------------------
(* Steps that disturb no turn. *)

\* A port keeps its turn, ends, or comes too late for this round; the control ports, as long
\* as they run, keep theirs.
Undisturbed ==
  /\ UNCHANGED <<java, native>>
  /\ \A i \in Slot : Runs(i)' =>
       \/ Runs(i) /\ Sub(i)' = Sub(i) /\ portList'[i].output = portList[i].output
       \/ Sub(i)' = "started" /\ i \notin hasItem \cup {Start, End}
  /\ InStep' =>
       /\ InStep /\ portList'[End] = portList[End] /\ Sub(Start)' = Sub(Start)
       /\ portList'[Start].lastCycle => portList[Start].lastCycle \/ Sub(End) = "terminated"

LEMMA UndisturbedKeeps == ASSUME TypeOK, LeaseInv, LockInv, Undisturbed PROVE LockInv'
  <1> SUFFICES ASSUME InStep' PROVE (RoundInv /\ WalkInv /\ LastInv)'
    BY DEF LockInv
  <1> USE DEF Undisturbed
  <1>1. RoundInv /\ WalkInv /\ LastInv
    BY DEF LockInv
  <1>2. Sub(End)' = Sub(End) /\ Runs(End)' = Runs(End) /\ Sub(Start)' = Sub(Start)
    BY DEF Sub, Runs
  <1>3. RoundInv'
    <2>1. \A i \in Slot : Runs(i)' => Sub(i)' \in Expected(i)'
      BY <1>1 DEF RoundInv, Expected, Opened, InRound, Rested
    <2>2. native'.at = "blocked" /\ Runs(native.slot)' => Sub(native.slot)' \notin Rested
      BY <1>1 DEF RoundInv, Rested, TypeOK, LeaseInv
    <2> QED
      BY <1>1, <1>2, <2>1, <2>2 DEF RoundInv, InRound
  <1>4. WalkInv'
    <2>1. \A i \in Slot : Runs(i)' /\ (Passed(i)' \/ EndCalled') => ~Awaits(i)'
      BY <1>1, <1>2 DEF WalkInv, Passed, EndCalled, Awaits
    <2> QED
      BY <1>1, <1>2, <2>1 DEF WalkInv, Ahead
  <1>5. LastInv'
    <2>1. \A i \in Slot :
            /\ Runs(i)'
            /\ (Passed(i)' /\ java.last) \/ Sub(End)' \in {"nativeToTerminate", "terminated"}
            => Ended(i)'
      BY <1>1, <1>2 DEF LastInv, Passed, Ended
    <2>2. /\ portList'[Start].lastCycle => Sub(Start) = "terminated" \/ Sub(End) = "terminated"
          /\ portList'[End].lastCycle => Sub(End) \in {"nativeToTerminate", "terminated"}
      BY <1>1 DEF LastInv
    <2> QED
      BY <1>1, <1>2, <2>1, <2>2 DEF LastInv, Ahead
  <1> QED
    BY <1>3, <1>4, <1>5

----------------------------------------------------------------------------
(* Steps of the Java worker. *)

\* The worker moves, and no port does.
LEMMA JavaGoesKeeps ==
  ASSUME TypeOK, PlaceInv, LockInv, JavaWaits \/ JavaLoops
  PROVE  LockInv'
  <1> SUFFICES ASSUME InStep PROVE (RoundInv /\ WalkInv /\ LastInv)'
    BY DEF LockInv, InStep, JavaWaits, JavaLoops
  <1>1. RoundInv /\ WalkInv /\ LastInv /\ state = "running" /\ UNCHANGED <<portList, native>>
    BY DEF LockInv, PlaceInv, JavaWaits, JavaLoops
  <1>2. ~Ahead /\ ~Ahead' /\ \A i \in Slot : ~Passed(i) /\ ~Passed(i)'
    <2>1. CASE JavaWaits
      BY <2>1 DEF Ahead, Passed, JavaWaits, JavaAt
    <2>2. CASE JavaLoops
      <3>1. java.at = "loop" /\ (java'.at = "done" \/ (java'.at = "walk" /\ java'.slot = 0))
        BY <2>2 DEF JavaLoops, JavaAt
      <3> QED
        BY <3>1 DEF Ahead, Passed, Start, Slot
    <2> QED
      BY <2>1, <2>2
  <1>3. java'.at \in {"loop", "walk", "blocked"} => Sub(Start) # "started"
    <2>1. CASE JavaWaits
      BY <1>1, <2>1 DEF JavaWaits, Sub
    <2>2. CASE JavaLoops
      BY <1>1, <2>2 DEF JavaLoops, WalkInv
    <2> QED
      BY <2>1, <2>2
  <1>4. java'.at \in {"walk", "blocked"} => Sub(Start) # "terminated"
    <2>1. CASE JavaWaits
      BY <2>1 DEF JavaWaits, JavaAt
    <2>2. CASE JavaLoops
      BY <2>2 DEF JavaLoops, JavaAt, Sub
    <2> QED
      BY <2>1, <2>2
  <1>5. RoundInv'
    BY <1>1 DEF RoundInv, Runs, Sub, Expected, Opened, InRound
  <1>6. WalkInv'
    BY <1>1, <1>2, <1>3, <1>4 DEF WalkInv, Runs, Sub, EndCalled, Awaits
  <1>7. LastInv'
    BY <1>1, <1>2 DEF LastInv, Runs, Sub, Ended
  <1> QED
    BY <1>5, <1>6, <1>7

\* The next place of a walk: the slot is left behind.
LEMMA NextSlot ==
  ASSUME TypeOK, java.at \in {"walk", "blocked"}, JavaNextSlot
  PROVE  /\ java.slot = End => java'.at = "loop" /\ ~Ahead'
         /\ java.slot # End => java'.at = "walk" /\ Ahead' /\ java'.last = java.last
         /\ java.slot # End => \A i \in Slot : Passed(i)' <=> Passed(i) \/ i = java.slot
         /\ java.slot = End => \A i \in Slot : ~Passed(i)' /\ (Passed(i) \/ i = java.slot)
  <1>1. CASE java.slot = End
    <2>1. java'.at = "loop"
      BY <1>1 DEF JavaNextSlot, JavaAt
    <2>2. \A i \in Slot : i < End \/ i = End
      BY ChainAssumption DEF Slot, End
    <2> QED
      BY <1>1, <2>1, <2>2 DEF Ahead, Passed
  <1>2. CASE java.slot # End
    <2>1. java'.at = "walk" /\ java'.slot = java.slot + 1 /\ java'.last = java.last
      BY <1>2 DEF JavaNextSlot, JavaAt
    <2>2. java.slot \in Slot
      BY DEF TypeOK
    <2>3. \A i \in Slot : i < java.slot + 1 <=> i < java.slot \/ i = java.slot
      BY <2>2, ChainAssumption DEF Slot
    <2> QED
      BY <1>2, <2>1, <2>2, <2>3, ChainAssumption DEF Ahead, Passed, Start, Slot
  <1> QED
    BY <1>1, <1>2

\* A port that need not be called is passed over, or waited for.  This is never a control port.
LEMMA JavaSkipsKeeps ==
  ASSUME TypeOK, StartInv, PlaceInv, LockInv, JavaVisits \/ JavaResumes,
         ~JavaReady(portList[java.slot]) \/ ~JavaCalls
  PROVE  LockInv'
  <1>0. UNCHANGED portList
    BY DEF JavaVisits, JavaResumes, JavaSkips
  <1> SUFFICES ASSUME InStep PROVE (RoundInv /\ WalkInv /\ LastInv)'
    BY <1>0 DEF LockInv, InStep
  <1>1. RoundInv /\ WalkInv /\ LastInv /\ UNCHANGED <<portList, native>> /\ java.at \in {"walk", "blocked"}
    BY <1>0 DEF LockInv, JavaVisits, JavaResumes
  <1>2. RoundInv'
    BY <1>1 DEF RoundInv, Runs, Sub, Expected, Opened, InRound
  <1> PICK i \in Slot : i = java.slot
    BY DEF TypeOK
  <1>3. CASE JavaAt("blocked", i, java.last)
    <2>1. java'.at = "blocked" /\ java'.slot = i /\ java'.last = java.last
      BY <1>3 DEF JavaAt
    <2>2. (Ahead' <=> Ahead) /\ \A j \in Slot : Passed(j)' <=> Passed(j)
      BY <1>1, <2>1 DEF Ahead, Passed
    <2>3. WalkInv'
      BY <1>1, <2>1, <2>2 DEF WalkInv, Runs, Sub, EndCalled, Awaits
    <2>4. LastInv'
      BY <1>1, <2>1, <2>2 DEF LastInv, Runs, Sub, Ended
    <2> QED
      BY <1>2, <2>3, <2>4
  <1>4. CASE JavaNextSlot /\ (i \notin hasItem \/ JavaIgnores(portList[i]) \/ JavaGivesUp(portList[i]))
    <2>1. Runs(i) => Sub(i) \in {"started", "terminated", "nativeToTerminate"}
      BY <1>4 DEF PlaceInv, TypeOK, JavaIgnores, JavaGivesUp, Runs, Sub
    <2>2. i \in Slot /\ Start \in Slot /\ End \in Slot /\ Start # End
      BY Ends DEF TypeOK
    <2>3. i # Start
      <3>1. SUFFICES ASSUME i = Start PROVE FALSE
        OBVIOUS
      <3>2. ~portList[Start].output /\ Runs(Start)
        BY DEF InStep, Runs, PlaceInv, StartInv
      <3> QED
        BY <1>1, <2>1, <2>2, <3>1, <3>2 DEF WalkInv, Ahead, RoundInv, Expected, Opened, Rested
    <2>4. i # End
      <3>1. SUFFICES ASSUME i = End PROVE FALSE
        OBVIOUS
      <3> QED
        BY <1>1, <2>1, <2>2, <3>1 DEF WalkInv, RoundInv, Ahead
    <2>5. /\ java'.at = "walk" /\ Ahead /\ Ahead' /\ java'.last = java.last
          /\ \A j \in Slot : Passed(j)' <=> Passed(j) \/ j = i
      BY <1>1, <1>4, <2>3, <2>4, NextSlot DEF Ahead
    <2>6. WalkInv'
      BY <1>1, <2>1, <2>5 DEF WalkInv, Runs, Sub, EndCalled, Awaits
    <2>7. LastInv'
      BY <1>1, <2>1, <2>5 DEF LastInv, Runs, Sub, Ended
    <2> QED
      BY <1>2, <2>6, <2>7
  <1>5. \/ JavaAt("blocked", i, java.last)
        \/ JavaNextSlot /\ (i \notin hasItem \/ JavaIgnores(portList[i]) \/ JavaGivesUp(portList[i]))
    BY DEF JavaVisits, JavaResumes, JavaSkips
  <1> QED
    BY <1>3, <1>4, <1>5

\* The callback of a port.
LEMMA JavaCallsKeeps ==
  ASSUME TypeOK, StartInv, EndInv, PlaceInv, LockInv, JavaVisits \/ JavaResumes,
         JavaReady(portList[java.slot]), JavaCalls
  PROVE  LockInv'
  <1> PICK i \in Slot : i = java.slot
    BY DEF TypeOK
  <1> DEFINE p == portList[i]
  <1>1. /\ i \in Slot /\ Start \in Slot /\ End \in Slot /\ Start # End
        /\ portList \in [Slot -> PortType] /\ p \in PortType /\ java.last \in BOOLEAN
        /\ java.at \in {"walk", "blocked"} /\ UNCHANGED native /\ JavaNextSlot
        /\ native.slot \in Slot
    BY Ends DEF TypeOK, JavaVisits, JavaResumes, JavaCalls
  <1>2. Runs(i) /\ Sub(i) = "javaToExec" /\ Awaits(i)
    BY DEF JavaReady, Runs, Sub, Awaits
  <1>3. PICK q \in {JavaEnds(JavaBegins(p, java.last)), emergencyStop(JavaBegins(p, java.last), "java")} :
          /\ Put(i, q)
          /\ i \in {Start, End} => q = JavaEnds(JavaBegins(p, java.last))
    BY DEF JavaCalls, Ordinary
  <1>4. portList'[i] = q /\ \A j \in Slot : j # i => portList'[j] = portList[j]
    BY <1>1, <1>3 DEF Put
  <1>5. q.output = p.output
        /\ (Running(q) => /\ q.lastCycle <=> p.lastCycle \/ java.last
                          /\ q.lastCycle => q.substate = IF p.output THEN "nativeToTerminate" ELSE "terminated"
                          /\ ~q.lastCycle => q.substate = IF p.output THEN "nativeToExec" ELSE "cycleDone")
    <2>1. CASE q = JavaEnds(JavaBegins(p, java.last))
      BY <1>1, <2>1, JavaTurn
    <2>2. CASE q = emergencyStop(JavaBegins(p, java.last), "java")
      <3>1. JavaBegins(p, java.last) \in PortType /\ JavaBegins(p, java.last).output = p.output
        BY <1>1, JavaBeginsFields DEF Fields
      <3> QED
        BY <2>2, <3>1, EmergencyStopFields DEF Fields, Cause, Running
    <2> QED
      BY <1>3, <2>1, <2>2
  <1>6. i \in {Start, End} => Running(q)
    BY <1>1, <1>3, JavaTurn
  <1> SUFFICES ASSUME InStep PROVE (RoundInv /\ WalkInv /\ LastInv)'
    BY <1>1, <1>2, <1>4 DEF LockInv, InStep, Runs
  <1>7. RoundInv /\ WalkInv /\ LastInv /\ Runs(Start) /\ Runs(End) /\ portList[End].output
        /\ ~portList[Start].output
    BY DEF LockInv, InStep, RoundInv, PlaceInv, StartInv, EndInv, Runs
  <1> HIDE DEF p
  <1>8. /\ \A j \in Slot : Runs(j)' => Runs(j) /\ portList'[j].output = portList[j].output
        /\ \A j \in Slot : j # i => Sub(j)' = Sub(j) /\ portList'[j] = portList[j]
        /\ Runs(i)' => Sub(i)' = q.substate
    BY <1>1, <1>2, <1>4, <1>5 DEF Runs, Sub, p
  <1>9. Runs(Start)' /\ Runs(End)'
    BY <1>4, <1>6, <1>7, <1>1 DEF Runs
  <1>10. \A j \in Slot : Runs(j)' => Sub(j)' \in Expected(j)'
    <2>1. ASSUME NEW j \in Slot, Runs(j)', j # i PROVE Sub(j)' \in Expected(j)'
      BY <1>1, <1>7, <1>8, <2>1 DEF RoundInv, Expected, Opened, InRound
    <2>2. ASSUME Runs(i)' PROVE Sub(i)' \in Expected(i)'
      <3>1. Sub(i) \in Expected(i)
        BY <1>1, <1>2, <1>7 DEF RoundInv
      <3> QED
        BY <1>1, <1>2, <1>4, <1>5, <1>8, <2>2, <3>1 DEF Expected, Opened, InRound, Rested, p, Runs, Sub
    <2> QED
      BY <2>1, <2>2
  <1>11. CASE i = Start
    <2>1. ~Ahead
      BY <1>11 DEF Ahead
    <2>2. InRound /\ Start < native.slot
      BY <1>1, <1>2, <1>7, <1>11 DEF RoundInv, Expected, Opened, Rested
    <2>3. Sub(End) = "javaToExec"
      <3>1. Sub(End) \in Expected(End) /\ Sub(End) \notin Rested /\ ~EndCalled
        BY <1>1, <1>2, <1>7, <1>11, <2>2 DEF RoundInv, WalkInv
      <3>2. ~(End < native.slot)
        BY <1>1 DEF Slot, End
      <3> QED
        BY <1>1, <1>7, <2>2, <3>1, <3>2 DEF Expected, Opened, EndCalled, InRound, Rested
    <2>4. ~p.lastCycle
      BY <1>2, <1>7, <1>11, <2>3 DEF LastInv, p
    <2>5. Sub(Start)' = (IF java.last THEN "terminated" ELSE "cycleDone") /\ (q.lastCycle <=> java.last)
      BY <1>1, <1>4, <1>5, <1>6, <1>7, <1>11, <2>4 DEF Sub, p
    <2>6. /\ java'.at = "walk" /\ Ahead' /\ java'.last = java.last
          /\ \A j \in Slot : Passed(j)' <=> j = i
      <3>1. i # End /\ \A j \in Slot : ~Passed(j)
        BY <1>1, <1>11 DEF Passed, Slot, Start
      <3> QED
        BY <1>1, <3>1, NextSlot
    <2>7. Sub(End)' = "javaToExec" /\ portList'[End] = portList[End]
      BY <1>1, <1>8, <1>11, <2>3
    <2>8. RoundInv'
      <3>1. native'.at = "blocked" /\ Runs(native.slot)' => Sub(native.slot)' \notin Rested
        <4>1. native.slot # i
          BY <1>1, <1>11, <2>2 DEF Start, Slot
        <4> QED
          BY <1>1, <1>7, <1>8, <4>1 DEF RoundInv
      <3> QED
        BY <1>1, <1>7, <1>9, <1>10, <2>2, <2>5, <2>7, <3>1 DEF RoundInv, InRound, Rested
    <2>9. WalkInv'
      BY <2>5, <2>6, <2>7, <1>11 DEF WalkInv, EndCalled, Awaits
    <2>10. LastInv'
      BY <1>4, <1>7, <1>11, <2>3, <2>5, <2>6, <2>7 DEF LastInv, Ended
    <2> QED
      BY <2>8, <2>9, <2>10
  <1>12. CASE i = End
    <2>1. Ahead /\ Sub(End) = "javaToExec" /\ Sub(Start) \in {"cycleDone", "terminated"} /\ Sub(Start)' = Sub(Start)
      BY <1>1, <1>7, <1>8, <1>12 DEF Ahead, WalkInv
    <2>2. InRound
      <3>1. ~(End < native.slot)
        BY <1>1 DEF Slot, End
      <3> QED
        BY <1>1, <1>7, <2>1, <3>1 DEF RoundInv, Expected, Opened, InRound, Rested, TypeOK, Slot, End
    <2>3. ~p.lastCycle
      BY <1>7, <1>12, <2>1 DEF LastInv, p
    <2>4. Sub(End)' = (IF java.last THEN "nativeToTerminate" ELSE "nativeToExec") /\ (q.lastCycle <=> java.last)
      BY <1>1, <1>4, <1>5, <1>6, <1>7, <1>12, <2>3 DEF Sub, p
    <2>5. java'.at = "loop" /\ ~Ahead' /\ \A j \in Slot : ~Passed(j)' /\ (Passed(j) \/ j = End)
      BY <1>1, <1>12, NextSlot
    <2>6. portList'[Start] = portList[Start]
      BY <1>1, <1>8, <1>12
    <2>7. RoundInv'
      <3>1. native'.at = "blocked" /\ Runs(native.slot)' => Sub(native.slot)' \notin Rested
        BY <1>1, <1>7, <1>8, <1>12, <2>4 DEF RoundInv, Rested
      <3> QED
        BY <1>1, <1>7, <1>9, <1>10, <2>1, <2>2, <2>4, <3>1 DEF RoundInv, InRound, Rested
    <2>8. WalkInv'
      <3>1. \A j \in Slot : Runs(j)' => ~Awaits(j)'
        BY <1>1, <1>4, <1>5, <1>7, <1>8, <1>12, <2>4, <2>5 DEF WalkInv, Awaits, p
      <3> QED
        BY <2>1, <2>4, <2>5, <3>1 DEF WalkInv
    <2>9. LastInv'
      <3>1. \A j \in Slot : Runs(j)' /\ java.last => Ended(j)'
        BY <1>1, <1>7, <1>8, <1>12, <2>4, <2>5 DEF LastInv, Ended
      <3> QED
        BY <1>4, <1>7, <1>12, <2>1, <2>4, <2>5, <2>6, <3>1 DEF LastInv
    <2> QED
      BY <2>7, <2>8, <2>9
  <1>13. CASE i \notin {Start, End}
    <2>1. Ahead /\ portList'[Start] = portList[Start] /\ portList'[End] = portList[End]
          /\ Sub(Start)' = Sub(Start) /\ Sub(End)' = Sub(End)
      BY <1>1, <1>8, <1>13 DEF Ahead
    <2>2. /\ java'.at = "walk" /\ Ahead' /\ java'.last = java.last
          /\ \A j \in Slot : Passed(j)' <=> Passed(j) \/ j = i
      BY <1>1, <1>13, NextSlot
    <2>3. Runs(i)' => ~Awaits(i)' /\ (java.last => Ended(i)')
      BY <1>1, <1>4, <1>5, <1>8 DEF Awaits, Ended, Runs, p
    <2>4. RoundInv'
      <3>1. native'.at = "blocked" /\ Runs(native.slot)' => Sub(native.slot)' \notin Rested
        <4>1. CASE native.slot # i
          BY <1>1, <1>7, <1>8, <4>1 DEF RoundInv
        <4>2. CASE native.slot = i /\ native.at = "blocked"
          <5>1. p.output
            BY <1>1, <1>2, <1>7, <4>2 DEF RoundInv, Expected, Opened, InRound, Rested, p, Slot
          <5> QED
            BY <1>1, <1>4, <1>5, <1>8, <4>2, <5>1 DEF Rested, Runs
        <4> QED
          BY <1>1, <4>1, <4>2
      <3> QED
        BY <1>1, <1>7, <1>9, <1>10, <2>1, <3>1 DEF RoundInv, InRound
    <2>5. WalkInv'
      BY <1>7, <1>8, <2>1, <2>2, <2>3 DEF WalkInv, EndCalled, Awaits
    <2>6. LastInv'
      BY <1>7, <1>8, <2>1, <2>2, <2>3 DEF LastInv, Ended, WalkInv
    <2> QED
      BY <2>4, <2>5, <2>6
  <1> QED
    BY <1>11, <1>12, <1>13

----------------------------------------------------------------------------
(* Steps of the process thread. *)

\* A round begins when every port is at rest.
LEMMA NativeBeginsKeeps == ASSUME TypeOK, LockInv, NativeBegins PROVE LockInv'
  <1> SUFFICES ASSUME InStep PROVE (RoundInv /\ WalkInv /\ LastInv)'
    BY DEF LockInv, InStep, NativeBegins
  <1>1. /\ RoundInv /\ WalkInv /\ LastInv /\ UNCHANGED <<portList, java>>
        /\ native.at = "idle" /\ native'.at = "init" /\ native'.slot = Start
        /\ Sub(End) # "terminated"
    BY DEF LockInv, NativeBegins, NativeAt, Start, Sub
  <1>2. RoundInv'
    BY <1>1 DEF RoundInv, Runs, Sub, Expected, Opened, InRound, Slot, Start
  <1>3. WalkInv' /\ LastInv'
    BY <1>1 DEF WalkInv, LastInv, Runs, Sub, Passed, Ahead, EndCalled, Awaits, Ended
  <1> QED
    BY <1>2, <1>3

\* The first walk of a round finds every port at rest.
LEMMA InitFinds ==
  ASSUME TypeOK, LockInv, InStep, NativeInits
  PROVE  Running(portList[native.slot]) => portList[native.slot].substate \in Rested
  <1>1. native.slot \in Slot /\ native.slot >= native.slot
    BY DEF TypeOK, Slot
  <1>2. Expected(native.slot) = Rested
    BY <1>1 DEF Expected, Opened, NativeInits
  <1> QED
    BY <1>1, <1>2 DEF LockInv, RoundInv, Runs, Sub

\* The first walk of a round opens the cycles, while the Java worker waits at the start control.
LEMMA NativeInitsKeeps ==
  ASSUME TypeOK, StartInv, EndInv, PlaceInv, LockInv, NativeInits
  PROVE  LockInv'
  <1> PICK i \in Slot : i = native.slot
    BY DEF TypeOK
  <1> DEFINE p == portList[i]
             q == execNativeCycleInit(p)
  <1>1. /\ Start \in Slot /\ End \in Slot /\ Start # End
        /\ portList \in [Slot -> PortType] /\ p \in PortType
        /\ UNCHANGED java /\ native.at = "init"
        /\ IF i = End THEN native'.at = "process" /\ native'.slot = Start
                      ELSE native'.at = "init" /\ native'.slot = i + 1
    BY Ends DEF TypeOK, NativeInits, NativeAt, Start
  <1>2. portList'[i] = q /\ \A j \in Slot : j # i => portList'[j] = portList[j]
    <2>1. CASE i \in hasItem
      BY <1>1, <2>1 DEF NativeInits, Put
    <2>2. CASE i \notin hasItem
      <3>1. ~Running(p) /\ UNCHANGED portList
        BY <2>2 DEF PlaceInv, Runs, NativeInits
      <3> QED
        BY <3>1 DEF execNativeCycleInit
    <2> QED
      BY <2>1, <2>2
  <1>3. Running(q) => Running(p)
    BY DEF execNativeCycleInit
  <1> HIDE DEF q
  <1> SUFFICES ASSUME InStep PROVE (RoundInv /\ WalkInv /\ LastInv)'
    BY <1>1, <1>2, <1>3 DEF LockInv, InStep
  <1>4. RoundInv /\ WalkInv /\ LastInv /\ Runs(Start) /\ Runs(End) /\ portList[End].output
        /\ ~portList[Start].output
    BY DEF LockInv, InStep, RoundInv, PlaceInv, StartInv, EndInv, Runs
  <1>5. Running(p) => p.substate \in Rested
    BY InitFinds
  <1>6. /\ q.output = p.output /\ (Running(q) <=> Running(p)) /\ q.lastCycle = p.lastCycle
        /\ q.substate = IF ~Running(p) \/ p.substate = "terminated" THEN p.substate
                        ELSE IF p.output THEN "javaToExec" ELSE "nativeToExec"
    BY <1>1, <1>5, InitTurn DEF q
  <1> HIDE DEF p
  <1>7. /\ \A j \in Slot : /\ Runs(j)' <=> Runs(j)
                           /\ portList'[j].output = portList[j].output
                           /\ portList'[j].lastCycle = portList[j].lastCycle
                           /\ j # i => Sub(j)' = Sub(j)
        /\ Runs(i) => Sub(i)' = IF Sub(i) = "terminated" THEN "terminated"
                                ELSE IF portList[i].output THEN "javaToExec" ELSE "nativeToExec"
    BY <1>1, <1>2, <1>6 DEF Runs, Sub, p
  <1>8. Sub(End) \in {"started", "cycleDone"}
    <2>1. End >= i
      BY DEF Slot, End
    <2> QED
      BY <1>1, <1>4, <2>1 DEF RoundInv, Expected, Opened, Rested
  <1>9. ~Ahead /\ ~EndCalled /\ Sub(Start) # "terminated"
    BY <1>4, <1>8 DEF WalkInv, LastInv, EndCalled
  <1>10. \A j \in Slot : ~Passed(j)
    BY <1>9 DEF Passed, Ahead, Slot, Start
  <1>11. ~Ahead' /\ \A j \in Slot : ~Passed(j)'
    BY <1>1, <1>9, <1>10 DEF Ahead, Passed
  <1>12. \A j \in Slot : Runs(j)' => Sub(j)' \in Expected(j)'
    <2>1. CASE i = End
      <3>1. \A j \in Slot : j < i \/ j = i
        BY <2>1 DEF Slot, End
      <3> QED
        BY <1>1, <1>4, <1>7, <2>1, <3>1 DEF RoundInv, Expected, Opened, InRound, Start, Slot
    <2>2. CASE i # End
      <3>1. \A j \in Slot : (j >= i + 1 <=> j >= i /\ j # i)
        BY DEF Slot
      <3> QED
        BY <1>1, <1>4, <1>7, <2>2, <3>1 DEF RoundInv, Expected, Opened, InRound
    <2> QED
      BY <2>1, <2>2
  <1>13. Sub(Start)' = (IF i = Start THEN "nativeToExec" ELSE Sub(Start))
         /\ Sub(End)' = (IF i = End THEN "javaToExec" ELSE Sub(End))
    BY <1>1, <1>4, <1>7, <1>8, <1>9
  <1>14. i # Start => Sub(Start) = "nativeToExec"
    <2>1. i # Start => ~(Start >= i)
      BY DEF Slot, Start
    <2>2. i # Start => Expected(Start) = {"started", "terminated", "nativeToExec"}
      BY <1>1, <1>4, <2>1 DEF Expected, Opened, InRound
    <2> QED
      BY <1>1, <1>4, <1>9, <2>2 DEF RoundInv
  <1>15. RoundInv'
    BY <1>1, <1>4, <1>7, <1>8, <1>12, <1>13, <1>14 DEF RoundInv, InRound, Rested
  <1>16. WalkInv'
    BY <1>1, <1>4, <1>8, <1>11, <1>13, <1>14 DEF WalkInv, EndCalled
  <1>17. LastInv'
    BY <1>1, <1>4, <1>7, <1>8, <1>11, <1>13, <1>14 DEF LastInv
  <1> QED
    BY <1>15, <1>16, <1>17

\* What the second walk finds at its slot: a port that runs is passed over, waited for or served,
\* and nothing but a failure stops one.
WalkFinds(i) ==
  \/ UNCHANGED portList /\ native' = [at |-> "blocked", slot |-> i] /\ Runs(i) /\ Sub(i) \notin Rested
  \/ NativeSkips /\ (Runs(i) => Sub(i) \in {"started", "terminated"})
  \/ NativeNextSlot /\ NativeReady(portList[i]) /\ Put(i, NativeEnds(portList[i]))
  \/ NativeNextSlot /\ i \in Ordinary /\ Put(i, emergencyStop(portList[i], "native"))

\* Where a port can be that the second walk comes to.
LEMMA WalkExpects ==
  ASSUME TypeOK, LockInv, InStep, NativeVisits \/ NativeResumes, NEW i \in Slot, i = native.slot
  PROVE  /\ Runs(i) => Sub(i) \in Expected(i)
         /\ Expected(i) = Opened(i)
  <1>1. InRound /\ ~(i < i)
    BY DEF InRound, NativeVisits, NativeResumes, Slot
  <1> QED
    BY <1>1 DEF LockInv, RoundInv, Expected, Opened, InRound

LEMMA SecondWalk ==
  ASSUME TypeOK, PlaceInv, LockInv, InStep, NativeVisits \/ NativeResumes,
         NEW i \in Slot, i = native.slot
  PROVE  WalkFinds(i)
  <1> DEFINE p == portList[i]
  <1> USE DEF WalkFinds
  <1>1. /\ Runs(i) => Sub(i) \in Expected(i)
        /\ Expected(i) = Opened(i)
    BY WalkExpects
  <1>2. ~NativeIllegal(p) \/ ~NativeReady(p)
    BY <1>1 DEF NativeIllegal, NativeReady, Runs, Sub, Opened
  <1>3. CASE NativeVisits
    <2>1. i \notin hasItem => ~Runs(i)
      BY DEF PlaceInv
    <2>2. ~NativeIgnores(p) => Runs(i) /\ Sub(i) \notin Rested
      BY <1>1 DEF NativeIgnores, Runs, Sub, Rested, Opened
    <2>3. NativeIgnores(p) /\ Runs(i) => Sub(i) \in {"started", "terminated"}
      BY DEF NativeIgnores, Runs, Sub
    <2> QED
      BY <1>2, <1>3, <2>1, <2>2, <2>3 DEF NativeVisits, NativeWorks, NativeAt
  <1>4. CASE NativeResumes
    <2>1. ~NativeRejects(p)
      BY <1>4 DEF NativeResumes, NativeRejects, LockInv, RoundInv, PlaceInv, Runs, Sub, Rested
    <2> QED
      BY <1>2, <1>4, <2>1 DEF NativeResumes, NativeWorks, Runs
  <1> QED
    BY <1>3, <1>4

\* The second walk.
LEMMA NativeWalksKeeps ==
  ASSUME TypeOK, StartInv, EndInv, PlaceInv, LockInv, NativeVisits \/ NativeResumes
  PROVE  LockInv'
  <1> PICK i \in Slot : i = native.slot
    BY DEF TypeOK
  <1> DEFINE p == portList[i]
  <1>1. /\ Start \in Slot /\ End \in Slot /\ Start # End
        /\ portList \in [Slot -> PortType] /\ p \in PortType
        /\ UNCHANGED java /\ InRound
    BY Ends DEF TypeOK, NativeVisits, NativeResumes, InRound
  <1>2. \/ UNCHANGED portList
        \/ NativeReady(p) /\ Put(i, NativeEnds(p))
        \/ \E c \in {"illegal", "native"} : Put(i, emergencyStop(p, c))
    BY DEF NativeVisits, NativeResumes, NativeSkips, NativeWorks
  <1>3. InStep' => InStep
    <2>1. CASE UNCHANGED portList
      BY <2>1 DEF InStep
    <2>2. CASE NativeReady(p) /\ Put(i, NativeEnds(p))
      BY <1>1, <2>2 DEF InStep, NativeReady, Put
    <2>3. ASSUME NEW c \in {"illegal", "native"}, Put(i, emergencyStop(p, c)) PROVE InStep' => InStep
      BY <1>1, <2>3, ErrorTurn DEF InStep, Put, Cause
    <2> QED
      BY <1>2, <2>1, <2>2, <2>3
  <1> SUFFICES ASSUME InStep PROVE (RoundInv /\ WalkInv /\ LastInv)'
    BY <1>3 DEF LockInv
  <1>4. RoundInv /\ WalkInv /\ LastInv /\ Runs(Start) /\ Runs(End) /\ portList[End].output
        /\ ~portList[Start].output
    BY DEF LockInv, InStep, RoundInv, PlaceInv, StartInv, EndInv, Runs
  <1>5. Runs(i) => Sub(i) \in Expected(i)
    BY WalkExpects
  <1>6. Expected(i) = Opened(i)
    BY WalkExpects
  <1>7. \/ UNCHANGED portList /\ native' = [at |-> "blocked", slot |-> i] /\ Runs(i) /\ Sub(i) \notin Rested
        \/ NativeSkips /\ (Runs(i) => Sub(i) \in {"started", "terminated"})
        \/ NativeNextSlot /\ NativeReady(p) /\ Put(i, NativeEnds(p))
        \/ NativeNextSlot /\ i \in Ordinary /\ Put(i, emergencyStop(p, "native"))
    BY SecondWalk DEF WalkFinds
  <1> HIDE DEF p
  <1>8. CASE UNCHANGED portList /\ native' = [at |-> "blocked", slot |-> i] /\ Runs(i) /\ Sub(i) \notin Rested
    <2>1. RoundInv'
      BY <1>1, <1>4, <1>8 DEF RoundInv, Runs, Sub, Expected, Opened, InRound
    <2>2. WalkInv' /\ LastInv'
      BY <1>1, <1>4, <1>8 DEF WalkInv, LastInv, Runs, Sub, Passed, Ahead, EndCalled, Awaits, Ended
    <2> QED
      BY <2>1, <2>2
  <1>9. CASE NativeSkips /\ (Runs(i) => Sub(i) \in {"started", "terminated"})
    <2>1. i # End
      BY <1>1, <1>4, <1>9 DEF RoundInv, Rested
    <2>2. UNCHANGED portList /\ native'.at = "process" /\ native'.slot = i + 1
      BY <1>9, <2>1 DEF NativeSkips, NativeNextSlot, NativeAt
    <2>3. \A j \in Slot : j < i + 1 <=> j < i \/ j = i
      BY DEF Slot
    <2>4. RoundInv'
      BY <1>1, <1>4, <1>9, <2>2, <2>3 DEF RoundInv, Runs, Sub, Expected, Opened, InRound, Rested
    <2>5. WalkInv' /\ LastInv'
      BY <1>1, <1>4, <2>2 DEF WalkInv, LastInv, Runs, Sub, Passed, Ahead, EndCalled, Awaits, Ended
    <2> QED
      BY <2>4, <2>5
  <1>10. CASE NativeNextSlot /\ i \in Ordinary /\ Put(i, emergencyStop(p, "native"))
    <2>1. /\ i \notin {Start, End} /\ native'.at = "process" /\ native'.slot = i + 1
          /\ \A j \in Slot : j # i => portList'[j] = portList[j]
          /\ ~Runs(i)'
      BY <1>1, <1>10, ErrorTurn DEF Ordinary, NativeNextSlot, NativeAt, Put, Cause, Runs, p
    <2>2. \A j \in Slot : j < i + 1 <=> j < i \/ j = i
      BY DEF Slot
    <2>3. RoundInv'
      BY <1>1, <1>4, <2>1, <2>2 DEF RoundInv, Runs, Sub, Expected, Opened, InRound
    <2>4. WalkInv' /\ LastInv'
      BY <1>1, <1>4, <2>1 DEF WalkInv, LastInv, Runs, Sub, Passed, Ahead, EndCalled, Awaits, Ended
    <2> QED
      BY <2>3, <2>4
  <1>11. CASE NativeNextSlot /\ NativeReady(p) /\ Put(i, NativeEnds(p))
    <2>1. Runs(i) /\ Sub(i) \in {"nativeToExec", "nativeToTerminate"}
      BY <1>11 DEF NativeReady, Runs, Sub, p
    <2>2. /\ \A j \in Slot : j # i => portList'[j] = portList[j]
          /\ \A j \in Slot : /\ Runs(j)' <=> Runs(j)
                             /\ portList'[j].output = portList[j].output
                             /\ portList'[j].lastCycle = portList[j].lastCycle
                             /\ j # i => Sub(j)' = Sub(j)
          /\ Sub(i)' = IF ~portList[i].output THEN "javaToExec"
                       ELSE IF Sub(i) = "nativeToTerminate" THEN "terminated" ELSE "cycleDone"
      <3>1. /\ NativeEnds(p).output = p.output /\ Running(NativeEnds(p)) /\ Running(p)
            /\ NativeEnds(p).lastCycle = p.lastCycle
            /\ NativeEnds(p).substate = IF ~p.output THEN "javaToExec"
                         ELSE IF p.substate = "nativeToTerminate" THEN "terminated" ELSE "cycleDone"
        BY <1>1, <1>11, NativeTurn DEF NativeReady
      <3>2. portList'[i] = NativeEnds(p) /\ \A j \in Slot : j # i => portList'[j] = portList[j]
        BY <1>1, <1>11 DEF Put
      <3> QED
        BY <3>1, <3>2 DEF Runs, Sub, p
    <2>3. CASE i = End
      <3>1. native'.at = "idle"
        BY <1>11, <2>3 DEF NativeNextSlot, NativeAt
      <3>2. EndCalled /\ ~Ahead /\ ~Ahead' /\ \A j \in Slot : Passed(j)' <=> Passed(j)
        BY <1>1, <1>4, <2>1, <2>3 DEF EndCalled, WalkInv, Ahead, Passed
      <3>3. Sub(End)' = (IF Sub(End) = "nativeToTerminate" THEN "terminated" ELSE "cycleDone")
            /\ Sub(Start)' = Sub(Start)
        BY <1>1, <1>4, <2>2, <2>3
      <3>4. \A j \in Slot : Runs(j)' => Sub(j)' \in Rested
        <4>1. ASSUME NEW j \in Slot, Runs(j), j # End PROVE Sub(j) \in Rested
          <5>1. j < i
            BY <2>3, <4>1 DEF Slot, End
          <5>2. ~Awaits(j)
            BY <1>4, <3>2, <4>1 DEF WalkInv
          <5> QED
            BY <1>1, <1>4, <4>1, <5>1, <5>2 DEF RoundInv, Expected, Opened, InRound, Awaits, Rested
        <4> QED
          BY <2>2, <2>3, <3>3, <4>1 DEF Rested
      <3>5. RoundInv'
        BY <1>4, <2>2, <3>1, <3>4, <1>1 DEF RoundInv, Expected, Opened, InRound
      <3>6. WalkInv'
        <4>1. \A j \in Slot : Runs(j)' => ~Awaits(j)'
          BY <3>4 DEF Awaits, Rested
        <4> QED
          BY <1>1, <1>4, <3>2, <3>3, <4>1 DEF WalkInv
      <3>7. LastInv'
        <4>1. /\ Sub(Start)' = "terminated" => Sub(End)' = "terminated"
              /\ portList'[Start].lastCycle => Sub(Start)' = "terminated" \/ Sub(End)' = "terminated"
              /\ portList'[End].lastCycle => Sub(End)' = "terminated"
          BY <1>1, <1>4, <2>1, <2>2, <2>3, <3>2, <3>3 DEF LastInv
        <4>2. \A j \in Slot : ~Passed(j)' \/ ~java.last
          BY <1>1, <1>4, <3>2 DEF Passed, Ahead, Slot, Start
        <4>3. ASSUME NEW j \in Slot, Runs(j)', Sub(End)' \in {"nativeToTerminate", "terminated"}
              PROVE  Ended(j)'
          <5>1. CASE j = End
            BY <3>3, <4>3, <5>1 DEF Ended
          <5>2. CASE j # End
            <6>1. Ended(j) /\ Sub(j)' = Sub(j)
              BY <1>4, <2>1, <2>2, <2>3, <3>3, <4>3, <5>2 DEF LastInv
            <6> QED
              BY <6>1 DEF Ended
          <5> QED
            BY <5>1, <5>2
        <4> QED
          BY <1>1, <3>2, <4>1, <4>2, <4>3 DEF LastInv
      <3> QED
        BY <3>5, <3>6, <3>7
    <2>4. CASE i # End
      <3>1. native'.at = "process" /\ native'.slot = i + 1
        BY <1>11, <2>4 DEF NativeNextSlot, NativeAt
      <3>2. \A j \in Slot : j < i + 1 <=> j < i \/ j = i
        BY DEF Slot
      <3>3. Sub(End)' = Sub(End)
            /\ Sub(Start)' = (IF i = Start THEN "javaToExec" ELSE Sub(Start))
        BY <1>1, <1>4, <2>2, <2>4
      <3>4. i = Start => Sub(Start) = "nativeToExec"
        BY <1>4, <1>5, <1>6, <2>1 DEF Opened
      <3>5. Awaits(i)' => Awaits(i)
        BY <1>5, <1>6, <2>1, <2>2 DEF Awaits, Opened
      <3>6. Ended(i) => Ended(i)'
        BY <1>5, <1>6, <2>1, <2>2 DEF Ended, Opened
      <3>7. RoundInv'
        BY <1>1, <1>4, <2>2, <3>1, <3>2, <3>3 DEF RoundInv, Expected, Opened, InRound, Rested
      <3>8. WalkInv'
        <4>1. \A j \in Slot : Awaits(j)' => Awaits(j)
          BY <2>2, <3>5 DEF Awaits
        <4> QED
          BY <1>1, <1>4, <2>2, <3>3, <3>4, <4>1 DEF WalkInv, Ahead, Passed, EndCalled
      <3>9. LastInv'
        <4>1. \A j \in Slot : Ended(j) => Ended(j)'
          BY <2>2, <3>6 DEF Ended
        <4> QED
          BY <1>1, <1>4, <2>2, <3>3, <3>4, <4>1 DEF LastInv, Ahead, Passed
      <3> QED
        BY <3>7, <3>8, <3>9
    <2> QED
      BY <2>3, <2>4
  <1> QED
    BY <1>7, <1>8, <1>9, <1>10, <1>11

----------------------------------------------------------------------------
(* Which ports can run, and where the threads can be. *)

\* A port that does not run has no sub-state.
Settled(p) == Running(p) \/ p.substate = "none"

LEMMA SettledOps ==
  ASSUME NEW p \in PortType, Settled(p)
  PROVE  /\ Settled(execNativeCycleInit(p)) /\ Settled(RequestLast(p))
         /\ Settled(StopEnds(p)) /\ Settled(Deletable(p)) /\ Settled(Deletable(RequestLast(p)))
         /\ Settled(StopEnds(RequestLast(p))) /\ Settled(Started(p))
         /\ NativeReady(p) => Settled(NativeEnds(p))
         /\ \A c \in Cause : Settled(emergencyStop(p, c))
         /\ \A last \in BOOLEAN : /\ JavaReady(p) => Settled(JavaEnds(JavaBegins(p, last)))
                                  /\ \A c \in Cause : Settled(emergencyStop(JavaBegins(p, last), c))
         /\ ~Running(p) => /\ Settled(Initialized(p)) /\ Settled(Registered(p))
                           /\ Settled(StopAfterError(p)) /\ Settled(Unregistered(p))
                           /\ Settled(Uninitialized(p))
  <1>1. Settled(execNativeCycleInit(p))
    <2>1. CASE ~Running(p) \/ p.substate = "terminated"
      BY <2>1 DEF execNativeCycleInit
    <2>2. CASE Running(p) /\ p.substate # "terminated" /\ ~AcceptsInit(p)
      BY <2>2, EmergencyStopFields DEF execNativeCycleInit, Fields, Cause, Settled
    <2>3. CASE Running(p) /\ p.substate # "terminated" /\ AcceptsInit(p)
      BY <2>3, ExecNativeCycleInitFields DEF Fields, Settled, Running
    <2> QED
      BY <2>1, <2>2, <2>3
  <1>2. Settled(RequestLast(p)) /\ RequestLast(p) \in PortType
    BY RequestLastFields DEF Fields, Settled, Running
  <1>3. \A q \in PortType : Settled(StopEnds(q)) /\ Settled(Deletable(q))
    BY StopEndsFields, DeletableFields DEF Fields, Settled
  <1>4. Settled(Started(p))
    BY StartedFields DEF Fields, Settled, Running
  <1>5. NativeReady(p) => Settled(NativeEnds(p))
    BY NativeTurn DEF Settled
  <1>6. \A q \in PortType : \A c \in Cause : Settled(emergencyStop(q, c))
    BY EmergencyStopFields DEF Fields, Settled
  <1>7. ASSUME NEW last \in BOOLEAN
        PROVE  /\ JavaReady(p) => Settled(JavaEnds(JavaBegins(p, last)))
               /\ \A c \in Cause : Settled(emergencyStop(JavaBegins(p, last), c))
    <2>1. JavaBegins(p, last) \in PortType
      BY JavaBeginsFields DEF Fields
    <2>2. JavaReady(p) => Settled(JavaEnds(JavaBegins(p, last)))
      BY JavaTurn DEF Settled
    <2> QED
      BY <1>6, <2>1, <2>2
  <1>8. ~Running(p) => Settled(Initialized(p)) /\ Settled(Registered(p))
    BY InitializedFields, RegisteredFields DEF Fields, Settled
  <1>9. ~Running(p) => /\ Settled(StopAfterError(p)) /\ Settled(Unregistered(p))
                       /\ Settled(Uninitialized(p))
    BY StopAfterErrorFields, UnregisteredFields, UninitializedFields DEF Fields, Settled
  <1> QED
    BY <1>1, <1>2, <1>3, <1>4, <1>5, <1>6, <1>7, <1>8, <1>9

\* What a step does to one port: nothing, or it puts one of these there.
PortMoves(i) ==
  /\ Settled(portList[i]) => Settled(portList'[i])
  /\ Runs(i)' => Runs(i) \/ (state' = "running" /\ i \in hasItem')

LEMMA PutMovesPort ==
  ASSUME NEW i \in Slot, NEW j \in Slot, NEW q, portList \in [Slot -> PortType], Put(j, q),
         Settled(portList[j]) => Settled(q), Running(q) => Runs(j)
  PROVE  PortMoves(i) /\ (Runs(i)' => Runs(i))
  BY DEF Put, PortMoves, Runs

\* The workers.
LEMMA WorkersMovePort ==
  ASSUME TypeOK, JavaNext \/ NativeNext, NEW i \in Slot
  PROVE  PortMoves(i) /\ (Runs(i)' => Runs(i))
  <1>1. portList \in [Slot -> PortType]
    BY DEF TypeOK
  <1>2. CASE UNCHANGED portList
    BY <1>2 DEF PortMoves, Runs
  <1>3. CASE JavaReady(portList[java.slot]) /\ JavaCalls
    <2>1. java.slot \in Slot /\ java.last \in BOOLEAN /\ portList[java.slot] \in PortType
      BY DEF TypeOK
    <2>2. PICK q \in {JavaEnds(JavaBegins(portList[java.slot], java.last)),
                      emergencyStop(JavaBegins(portList[java.slot], java.last), "java")} : Put(java.slot, q)
      BY <1>3 DEF JavaCalls
    <2>3. Settled(portList[java.slot]) => Settled(q)
      BY <1>3, <2>1, <2>2, SettledOps DEF Cause
    <2>4. Running(q) => Runs(java.slot)
      BY <1>3 DEF JavaReady, Runs
    <2> QED
      BY <1>1, <2>1, <2>2, <2>3, <2>4, PutMovesPort
  <1>4. CASE \/ Put(native.slot, execNativeCycleInit(portList[native.slot]))
             \/ \E c \in {"illegal", "native"} : Put(native.slot, emergencyStop(portList[native.slot], c))
             \/ NativeReady(portList[native.slot]) /\ Put(native.slot, NativeEnds(portList[native.slot]))
    <2> DEFINE p == portList[native.slot]
    <2>1. native.slot \in Slot /\ p \in PortType
      BY DEF TypeOK
    <2>2. PICK q : /\ Put(native.slot, q)
                   /\ \/ q = execNativeCycleInit(p)
                      \/ \E c \in {"illegal", "native"} : q = emergencyStop(p, c)
                      \/ NativeReady(p) /\ q = NativeEnds(p)
      BY <1>4
    <2>3. Settled(p) => Settled(q)
      BY <2>1, <2>2, SettledOps DEF Cause
    <2>4. Running(q) => Running(p)
      BY <2>1, <2>2, ErrorTurn DEF execNativeCycleInit, NativeReady, Cause
    <2> QED
      BY <1>1, <2>1, <2>2, <2>3, <2>4, PutMovesPort DEF Runs
  <1>5. \/ UNCHANGED portList
        \/ JavaReady(portList[java.slot]) /\ JavaCalls
        \/ Put(native.slot, execNativeCycleInit(portList[native.slot]))
        \/ \E c \in {"illegal", "native"} : Put(native.slot, emergencyStop(portList[native.slot], c))
        \/ NativeReady(portList[native.slot]) /\ Put(native.slot, NativeEnds(portList[native.slot]))
    BY DEF JavaNext, JavaWaits, JavaLoops, JavaVisits, JavaResumes, JavaSkips, NativeNext,
       NativeBegins, NativeInits, NativeVisits, NativeResumes, NativeSkips, NativeWorks
  <1> QED
    BY <1>2, <1>3, <1>4, <1>5

\* The operations on one port.
LEMMA StopsMovePort ==
  ASSUME TypeOK, StopPort \/ StopResumes \/ RemoveResumes \/ (\E j \in Slot : RemovePort(j)), NEW i \in Slot
  PROVE  PortMoves(i) /\ (Runs(i)' => Runs(i)) /\ Calm(portList[i], portList'[i])
  <1>1. portList \in [Slot -> PortType] /\ admin.slot \in Slot
    BY DEF TypeOK
  <1>2. \/ UNCHANGED portList
        \/ \E j \in Slot : \E q \in {RequestLast(portList[j]), StopEnds(portList[j]),
              StopEnds(RequestLast(portList[j])), Deletable(portList[j]),
              Deletable(RequestLast(portList[j]))} : Put(j, q)
        \/ \E j \in Slot : ~Running(portList[j]) /\ Put(j, StopAfterError(portList[j]))
    BY <1>1 DEF StopPort, StopResumes, RemoveResumes, RemovePort, Running
  <1>3. CASE UNCHANGED portList
    BY <1>3 DEF PortMoves, Runs, Calm
  <1>4. ASSUME NEW j \in Slot, NEW q,
               \/ q \in {RequestLast(portList[j]), StopEnds(portList[j]),
                         StopEnds(RequestLast(portList[j])), Deletable(portList[j]),
                         Deletable(RequestLast(portList[j]))}
               \/ q = StopAfterError(portList[j]) /\ ~Running(portList[j]),
               Put(j, q)
        PROVE  PortMoves(i) /\ (Runs(i)' => Runs(i)) /\ Calm(portList[i], portList'[i])
    <2> DEFINE p == portList[j]
               r == RequestLast(p)
    <2>1. p \in PortType /\ r \in PortType
      BY <1>1, RequestLastFields DEF Fields
    <2>2. Settled(p) => Settled(q)
      BY <1>4, <2>1, SettledOps
    <2>3. Calm(p, r)
      BY <2>1, LifecycleCalm
    <2> HIDE DEF r
    <2>4. q \in {r, StopAfterError(p), StopEnds(p), StopEnds(r), Deletable(p), Deletable(r)}
      BY <1>4 DEF r
    <2>5. Calm(p, StopEnds(r)) /\ Calm(p, Deletable(r))
      BY <2>1, <2>3, LifecycleCalm, CalmTwice
    <2>6. Calm(p, q)
      BY <2>1, <2>3, <2>4, <2>5, LifecycleCalm
    <2>7. Calm(portList[i], portList'[i])
      BY <1>1, <1>4, <2>6 DEF Put, Calm
    <2> QED
      BY <1>1, <1>4, <2>2, <2>6, <2>7, PutMovesPort DEF Runs, Calm
  <1> QED
    BY <1>2, <1>3, <1>4


\* An operation on all the ports gets only to those in an expected state.
LEMMA ReachedState ==
  ASSUME NEW list, NEW states, NEW limit, NEW i \in Slot, i \in Reached(list, states, limit)
  PROVE  list[i].state \in states
  <1>1. i <= i
    BY DEF Slot
  <1> QED
    BY <1>1 DEF Reached

\* The operations on all the ports, and those that put new ones into the array.
LEMMA OthersMovePort ==
  ASSUME TypeOK, RegisterAtServer \/ StartAndRun \/ Shutdown, NEW i \in Slot
  PROVE  PortMoves(i)
  <1>1. portList \in [Slot -> PortType] /\ portList[i] \in PortType
    BY DEF TypeOK
  <1> DEFINE p == portList[i]
  <1>2. CASE RegisterAtServer
    <2>1. portList'[i] = p \/ (p.state = "initialized" /\ portList'[i] = Registered(p))
      BY <1>1, <1>2, ReachedState DEF RegisterAtServer
    <2> QED
      BY <1>1, <2>1, SettledOps, LifecycleCalm DEF PortMoves, Runs, Running, Calm
  <1>3. CASE StartAndRun
    <2>1. portList'[i] = p \/ (i \in hasItem /\ portList'[i] = Started(p))
      BY <1>1, <1>3 DEF StartAndRun
    <2>2. hasItem' = hasItem /\ state' = "running"
      BY <1>3 DEF StartAndRun
    <2> QED
      BY <1>1, <2>1, <2>2, SettledOps DEF PortMoves, Runs
  <1>4. CASE Shutdown
    <2>1. PICK limit \in Refusal :
       LET registered == state \in {"registered", "stopped"}
           list == [j \in Slot |->
                      IF registered /\ j \in Reached(portList, {"registered", "stopped"}, limit)
                      THEN Unregistered(portList[j]) ELSE portList[j]]
           last == Reached(list, {"initialized", "unregistered"}, MAX_PORTS) IN
       \/ portList' = list
       \/ portList' = [j \in Slot |-> IF j \in last THEN Uninitialized(list[j]) ELSE list[j]]
      BY <1>4 DEF Shutdown
    <2> DEFINE registered == state \in {"registered", "stopped"}
               list == [j \in Slot |->
                          IF registered /\ j \in Reached(portList, {"registered", "stopped"}, limit)
                          THEN Unregistered(portList[j]) ELSE portList[j]]
               last == Reached(list, {"initialized", "unregistered"}, MAX_PORTS)
    <2>2. list[i] = p \/ (~Running(p) /\ list[i] = Unregistered(p))
      BY <1>1, ReachedState DEF Running
    <2>3. i \in last => list[i].state \in {"initialized", "unregistered"}
      BY ReachedState
    <2>4. \/ portList' = list
          \/ portList' = [j \in Slot |-> IF j \in last THEN Uninitialized(list[j]) ELSE list[j]]
      BY <2>1
    <2> HIDE DEF list, last, registered
    <2>5. portList'[i] = list[i] \/ (~Running(list[i]) /\ portList'[i] = Uninitialized(list[i]))
      BY <1>1, <2>3, <2>4 DEF Running
    <2>6. /\ list[i] \in PortType /\ (Settled(p) => Settled(list[i]))
          /\ Running(list[i]) => Running(p)
      BY <1>1, <2>2, SettledOps, UnregisteredFields DEF Fields, Running
    <2>7. /\ Settled(list[i]) => Settled(portList'[i])
          /\ Running(portList'[i]) => Running(list[i])
      BY <2>5, <2>6, SettledOps, UninitializedFields DEF Fields, Running
    <2> QED
      BY <2>6, <2>7 DEF PortMoves, Runs
  <1> QED
    BY <1>2, <1>3, <1>4

\* A port that has just been made.
LEMMA NewPortMoves ==
  ASSUME NEW o \in BOOLEAN
  PROVE  /\ Settled(NewPort(o)) /\ ~Running(NewPort(o)) /\ ~NewPort(o).lastCycle
         /\ LET p == Initialized(NewPort(o)) q == registerAndStart(p) IN
            /\ Settled(p) /\ ~Running(p) /\ ~p.lastCycle /\ Settled(q)
            /\ Running(q) => state = "running" /\ q.substate = "started"
  <1> DEFINE p == Initialized(NewPort(o))
             r == Registered(p)
             q == registerAndStart(p)
  <1>1. /\ NewPort(o) \in PortType /\ ~Running(NewPort(o)) /\ NewPort(o).substate = "none"
        /\ ~NewPort(o).lastCycle
    BY NewPortFields DEF Fields, Running
  <1>2. p \in PortType /\ p.state = "initialized" /\ p.substate = "none" /\ ~p.lastCycle
    BY <1>1, InitializedFields DEF Fields
  <1> HIDE DEF p
  <1>3. r \in PortType /\ r.state = "registered" /\ r.substate = "none"
    BY <1>2, RegisteredFields DEF Fields
  <1> HIDE DEF r
  <1>4. Started(r).state = "running" /\ Started(r).substate = "started"
    BY <1>3, StartedFields DEF Fields
  <1>5. Settled(q) /\ (Running(q) => state = "running" /\ q.substate = "started")
    BY <1>2, <1>3, <1>4 DEF registerAndStart, Settled, Running, r
  <1> QED
    BY <1>1, <1>2, <1>5 DEF Settled, Running, p

\* A worker puts something else into a slot only if the port in it runs; the port goes on or fails.
LEMMA WorkersPut ==
  ASSUME TypeOK, PlaceInv, JavaNext \/ NativeNext
  PROVE  \/ UNCHANGED portList
         \/ \E j \in Slot : \E q :
              Put(j, q) /\ Running(portList[j]) /\ q.state \in {"running", "stoppedOnError"}
  <1>1. /\ portList \in [Slot -> PortType] /\ java.slot \in Slot /\ native.slot \in Slot
        /\ java.last \in BOOLEAN
    BY DEF TypeOK
  <1>2. CASE JavaNext
    <2>1. UNCHANGED portList \/ (JavaReady(portList[java.slot]) /\ JavaCalls)
      BY <1>2 DEF JavaNext, JavaWaits, JavaLoops, JavaVisits, JavaResumes, JavaSkips
    <2>2. ASSUME JavaReady(portList[java.slot]), JavaCalls
          PROVE  \E q : /\ Put(java.slot, q) /\ Running(portList[java.slot])
                        /\ q.state \in {"running", "stoppedOnError"}
      <3>1. JavaBegins(portList[java.slot], java.last) \in PortType
        BY <1>1, JavaBeginsFields DEF Fields
      <3>2. JavaEnds(JavaBegins(portList[java.slot], java.last)).state = "running"
        BY <1>1, <2>2, JavaTurn DEF Running
      <3>3. emergencyStop(JavaBegins(portList[java.slot], java.last), "java").state = "stoppedOnError"
        BY <3>1, EmergencyStopFields DEF Fields, Cause
      <3> QED
        BY <2>2, <3>2, <3>3 DEF JavaCalls, JavaReady
    <2> QED
      BY <1>1, <2>1, <2>2
  <1>3. CASE NativeNext
    <2> DEFINE p == portList[native.slot]
    <2>1. p \in PortType /\ Settled(p)
      BY <1>1 DEF PlaceInv, Settled, Runs, Sub
    <2>2. \/ UNCHANGED portList
          \/ Put(native.slot, execNativeCycleInit(p))
          \/ NativeReady(p) /\ Put(native.slot, NativeEnds(p))
          \/ (NativeRejects(p) \/ NativeReady(p)) /\
               \E c \in {"illegal", "native"} : Put(native.slot, emergencyStop(p, c))
      BY <1>3 DEF NativeNext, NativeBegins, NativeInits, NativeVisits, NativeResumes, NativeSkips,
                  NativeWorks
    <2>3. CASE Put(native.slot, execNativeCycleInit(p))
      <3>1. CASE ~Running(p)
        BY <1>1, <2>3, <3>1 DEF Put, execNativeCycleInit
      <3>2. CASE Running(p)
        <4>1. execNativeCycleInit(p).state \in {"running", "stoppedOnError"}
          BY <2>1, <3>2, ExecNativeCycleInitFields, EmergencyStopFields
          DEF execNativeCycleInit, Fields, Cause, Running
        <4> QED
          BY <1>1, <2>3, <3>2, <4>1
      <3> QED
        BY <3>1, <3>2
    <2>4. NativeReady(p) => Running(p) /\ NativeEnds(p).state = "running"
      BY <2>1, NativeTurn DEF NativeReady, Running
    <2>5. NativeRejects(p) => Running(p)
      BY <2>1 DEF NativeRejects, Settled
    <2>6. \A c \in {"illegal", "native"} : emergencyStop(p, c).state = "stoppedOnError"
      BY <2>1, EmergencyStopFields DEF Fields, Cause
    <2> HIDE DEF p
    <2> QED
      BY <1>1, <2>2, <2>3, <2>4, <2>5, <2>6 DEF NativeReady, p
  <1> QED
    BY <1>2, <1>3

\* Every step.
LEMMA EveryPortMoves ==
  ASSUME TypeOK, [Next]_vars, NEW i \in Slot
  PROVE  PortMoves(i)
  <1>1. portList \in [Slot -> PortType] /\ Start \in Slot /\ End \in Slot /\ admin.slot \in Slot
    BY Ends DEF TypeOK
  <1>2. CASE UNCHANGED portList
    BY <1>2 DEF PortMoves, Runs
  <1>3. CASE Initialize
    <2>1. portList'[i] \in {portList[i], Initialized(NewPort(FALSE)), Initialized(NewPort(TRUE))}
      BY <1>1, <1>3 DEF Initialize, Put
    <2> QED
      BY <2>1, NewPortMoves DEF PortMoves, Runs
  <1>4. ASSUME NEW output \in BOOLEAN, AddPort(output) PROVE PortMoves(i)
    <2>1. PICK j \in Slot : /\ Put(j, registerAndStart(Initialized(NewPort(output))))
                            /\ hasItem' = hasItem \cup {j}
      BY <1>4 DEF AddPort
    <2>2. state' = state
      BY <1>4 DEF AddPort
    <2>3. portList'[i] = portList[i] \/ (i = j /\ portList'[i] = registerAndStart(Initialized(NewPort(output))))
      BY <1>1, <2>1 DEF Put
    <2> QED
      BY <2>1, <2>2, <2>3, NewPortMoves DEF PortMoves, Runs
  <1>5. CASE Take
    <2>1. portList'[i] = portList[i] \/ portList'[i] = NoItem
      BY <1>1, <1>5 DEF Take, Put
    <2> QED
      BY <2>1, NewPortMoves DEF PortMoves, Runs, NoItem
  <1> QED
    BY <1>2, <1>3, <1>4, <1>5, WorkersMovePort, StopsMovePort, OthersMovePort
    DEF Next, AdminBegins, AdminContinues, Stop, Deactivate, EndAwaited, Join, vars

\* Adding and removing ports leaves the control ports alone, once they are there.
LEMMA ControlsStay ==
  ASSUME TypeOK, AdminInv, StartInv, EndInv, state \in {"initialized", "registered", "running"},
         \/ \E output \in BOOLEAN : AddPort(output)
         \/ (\E i \in Slot : RemovePort(i)) \/ RemoveResumes \/ Take
  PROVE  portList'[Start] = portList[Start] /\ portList'[End] = portList[End] /\ state' = state
  <1>1. /\ portList \in [Slot -> PortType] /\ Start \in hasItem /\ End \in hasItem
        /\ Start \in Slot /\ End \in Slot /\ admin.slot \in Slot
    BY Ends DEF TypeOK, StartInv, EndInv
  <1>2. \A i \in Slot : Kind(i) \in {"input", "output"} => i \notin {Start, End}
    BY DEF Kind, StartInv, EndInv
  <1>3. ASSUME NEW output \in BOOLEAN, AddPort(output)
        PROVE  portList'[Start] = portList[Start] /\ portList'[End] = portList[End]
    <2>1. PICK j \in Slot \ hasItem : Put(j, registerAndStart(Initialized(NewPort(output))))
      BY <1>3, AddedPort
    <2> QED
      BY <1>1, <2>1 DEF Put
  <1>4. ASSUME NEW i \in Slot, RemovePort(i)
        PROVE  portList'[Start] = portList[Start] /\ portList'[End] = portList[End]
    <2>1. PICK q : Put(i, q)
      BY <1>4 DEF RemovePort
    <2>2. i \notin {Start, End}
      BY <1>2, <1>4 DEF RemovePort
    <2> QED
      BY <1>1, <2>1, <2>2 DEF Put
  <1>5. CASE RemoveResumes \/ Take
    <2>1. UNCHANGED portList \/ \E q : Put(admin.slot, q)
      BY <1>5 DEF RemoveResumes, Take
    <2>2. admin.slot \notin {Start, End}
      BY <1>1, <1>2, <1>5 DEF RemoveResumes, Take, AdminInv
    <2>3. state' = state
      BY <1>5 DEF RemoveResumes, Take
    <2> QED
      BY <1>1, <2>1, <2>2, <2>3 DEF Put
  <1>6. state' = state
    BY DEF AddPort, RemovePort, RemoveResumes, Take
  <1> QED
    BY <1>3, <1>4, <1>5, <1>6

\* How the chain's own state goes on.
LEMMA StateMoves ==
  ASSUME TypeOK, AdminInv, [Next]_vars
  PROVE  /\ state' \in {"initialized", "registered"} =>
              state \in {"initialized", "registered"} \/ (Initialize /\ End \notin hasItem)
         /\ state' \in {"created", "initialized", "registered"} =>
              state \in {"created", "initialized", "registered"}
         /\ state = "running" /\ state' # "running" =>
              admin.at \in {"stop", "stopWaits"} /\ admin.slot = End
  <1>1. CASE JavaNext \/ NativeNext
    BY <1>1 DEF JavaNext, JavaWaits, JavaLoops, JavaVisits, JavaResumes,
                NativeNext, NativeBegins, NativeInits, NativeVisits, NativeResumes
  <1>2. CASE AdminContinues
    BY <1>2 DEF AdminContinues, RemoveResumes, Take, EndAwaited, StopPort, StopResumes, Join, NextToStop,
                AdminInv
  <1>3. CASE AdminBegins
    BY <1>3 DEF AdminBegins, Initialize, RegisterAtServer, StartAndRun, Stop, Deactivate, Shutdown,
                AddPort, RemovePort
  <1> QED
    BY <1>1, <1>2, <1>3 DEF Next, vars

\* Before the chain runs, the workers do nothing with the ports.
LEMMA EarlyWorkers ==
  ASSUME TypeOK, PlaceInv, state \in {"created", "initialized", "registered"}, JavaNext \/ NativeNext
  PROVE  UNCHANGED portList
  <1>1. \A i \in Slot : ~Running(portList[i]) /\ portList[i].substate = "none"
    BY DEF PlaceInv, Runs, Sub
  <1>2. java.slot \in Slot /\ native.slot \in Slot /\ portList \in [Slot -> PortType]
    BY DEF TypeOK
  <1>3. CASE JavaNext
    BY <1>1, <1>2, <1>3 DEF JavaNext, JavaWaits, JavaLoops, JavaVisits, JavaResumes, JavaSkips, JavaReady
  <1>4. CASE NativeInits
    BY <1>1, <1>2, <1>4 DEF NativeInits, Put, execNativeCycleInit
  <1>5. CASE NativeBegins \/ NativeVisits \/ NativeResumes
    BY <1>1, <1>2, <1>5 DEF NativeBegins, NativeVisits, NativeResumes, NativeSkips, NativeReady,
       NativeRejects
  <1> QED
    BY <1>3, <1>4, <1>5 DEF NativeNext

\* Nobody announces the last cycle to a control port before the chain runs.
LEMMA FlagsStep ==
  ASSUME TypeOK, AdminInv, StartInv, EndInv, PlaceInv, [Next]_vars, state' \in {"initialized", "registered"}
  PROVE  ~portList'[Start].lastCycle /\ ~portList'[End].lastCycle
  <1>1. /\ portList \in [Slot -> PortType] /\ Start \in Slot /\ End \in Slot
        /\ portList[Start] \in PortType /\ portList[End] \in PortType
    BY Ends DEF TypeOK
  <1>2. CASE Initialize /\ End \notin hasItem
    <2>1. portList'[Start] = Initialized(NewPort(FALSE)) /\ portList'[End] = Initialized(NewPort(TRUE))
      BY <1>1, <1>2, Ends DEF Initialize
    <2> QED
      BY <2>1, NewPortMoves
  <1>3. CASE state \in {"initialized", "registered"}
    <2>1. ~portList[Start].lastCycle /\ ~portList[End].lastCycle
      BY <1>3 DEF PlaceInv
    <2>2. CASE UNCHANGED portList
      BY <2>1, <2>2
    <2>3. CASE RegisterAtServer
      <3>1. ASSUME NEW i \in Slot PROVE portList'[i].lastCycle = portList[i].lastCycle
        <4>1. portList'[i] \in {portList[i], Registered(portList[i])}
          BY <2>3 DEF RegisterAtServer
        <4> QED
          BY <1>1, <4>1, RegisteredFields DEF Fields
      <3> QED
        BY <1>1, <2>1, <3>1
    <2>4. CASE Shutdown
      <3>1. PICK limit \in Refusal :
         LET registered == state \in {"registered", "stopped"}
             list == [j \in Slot |->
                        IF registered /\ j \in Reached(portList, {"registered", "stopped"}, limit)
                        THEN Unregistered(portList[j]) ELSE portList[j]]
             last == Reached(list, {"initialized", "unregistered"}, MAX_PORTS) IN
         \/ portList' = list
         \/ portList' = [j \in Slot |-> IF j \in last THEN Uninitialized(list[j]) ELSE list[j]]
        BY <2>4 DEF Shutdown
      <3> DEFINE registered == state \in {"registered", "stopped"}
                 list == [j \in Slot |->
                            IF registered /\ j \in Reached(portList, {"registered", "stopped"}, limit)
                            THEN Unregistered(portList[j]) ELSE portList[j]]
                 last == Reached(list, {"initialized", "unregistered"}, MAX_PORTS)
      <3>2. \A i \in Slot : list[i] \in {portList[i], Unregistered(portList[i])}
        OBVIOUS
      <3>3. \/ portList' = list
            \/ portList' = [j \in Slot |-> IF j \in last THEN Uninitialized(list[j]) ELSE list[j]]
        BY <3>1
      <3> HIDE DEF list, last, registered
      <3>4. \A i \in Slot : list[i] \in PortType /\ list[i].lastCycle = portList[i].lastCycle
        BY <1>1, <3>2, UnregisteredFields DEF Fields
      <3>5. \A i \in Slot : portList'[i] \in {list[i], Uninitialized(list[i])}
        BY <3>3
      <3> QED
        BY <1>1, <2>1, <3>4, <3>5, UninitializedFields DEF Fields
    <2>5. CASE \/ \E output \in BOOLEAN : AddPort(output)
               \/ (\E i \in Slot : RemovePort(i)) \/ RemoveResumes \/ Take
      BY <1>3, <2>1, <2>5, ControlsStay
    <2>6. CASE JavaNext \/ NativeNext
      BY <1>3, <2>2, <2>6, EarlyWorkers
    <2>7. ~StopPort /\ ~StopResumes /\ ~EndAwaited /\ ~Initialize /\ ~StartAndRun
      BY <1>3 DEF StopPort, StopResumes, EndAwaited, AdminInv, Initialize, StartAndRun
    <2> QED
      BY <2>2, <2>3, <2>4, <2>5, <2>6, <2>7 DEF Next, AdminContinues, AdminBegins, Join, Stop, Deactivate, vars
  <1> QED
    BY <1>2, <1>3, StateMoves

\* The end control that has terminated stays so, as long as the walks are in step.
LEMMA EndStaysTerminated ==
  ASSUME TypeOK, AdminInv, StartInv, EndInv, PlaceInv, LockInv, [Next]_vars,
         InStep, InStep', Sub(End) = "terminated",
         admin.at \in {"stop", "stopWaits"}, UNCHANGED admin
  PROVE  Sub(End)' = "terminated"
  <1>1. /\ portList \in [Slot -> PortType] /\ Start \in Slot /\ End \in Slot /\ Start # End
        /\ java.slot \in Slot /\ native.slot \in Slot /\ Runs(End)
        /\ portList[End].substate = "terminated" /\ admin.slot = Start
    BY Ends DEF TypeOK, LockInv, RoundInv, Sub, PlaceInv
  <1>2. CASE JavaNext
    <2>1. \/ UNCHANGED portList
          \/ JavaReady(portList[java.slot]) /\ \E q : Put(java.slot, q)
      BY <1>2 DEF JavaNext, JavaWaits, JavaLoops, JavaVisits, JavaResumes, JavaSkips, JavaCalls
    <2> QED
      BY <1>1, <2>1 DEF Put, JavaReady, Sub
  <1>3. CASE NativeInits
    BY <1>1, <1>3 DEF NativeInits, Put, execNativeCycleInit, Sub
  <1>4. CASE NativeBegins \/ NativeVisits \/ NativeResumes
    <2>1. \/ UNCHANGED portList
          \/ NativeReady(portList[native.slot]) /\ \E q : Put(native.slot, q)
          \/ NativeResumes /\ NativeRejects(portList[native.slot]) /\ \E q : Put(native.slot, q)
      BY <1>4 DEF NativeBegins, NativeVisits, NativeResumes, NativeSkips, NativeWorks
    <2>2. ~(NativeResumes /\ native.slot = End)
      BY <1>1 DEF NativeResumes, LockInv, RoundInv, Rested, Sub
    <2> QED
      BY <1>1, <2>1, <2>2 DEF Put, NativeReady, Sub
  <1>5. CASE StopPort \/ StopResumes
    <2>1. UNCHANGED portList \/ \E q : Put(Start, q)
      BY <1>1, <1>5 DEF StopPort, StopResumes
    <2> QED
      BY <1>1, <2>1 DEF Put, Sub
  <1>6. CASE UNCHANGED vars
    BY <1>1, <1>6 DEF vars, Sub
  <1> QED
    BY <1>2, <1>3, <1>4, <1>5, <1>6 DEF Next, NativeNext, AdminContinues, AdminBegins, RemoveResumes, Take,
       EndAwaited, Join, Initialize, RegisterAtServer, StartAndRun, Stop, Deactivate, Shutdown,
       AddPort, RemovePort, Idle

\* stop comes to the start control first.
LEMMA StopsInOrder ==
  ASSUME TypeOK, AdminInv, StartInv, EndInv, PlaceInv, LockInv, [Next]_vars,
         admin'.at \in {"stop", "stopWaits"}, InStep'
  PROVE  admin'.slot = Start /\ (admin'.force \/ Sub(End)' = "terminated")
  <1>1. /\ portList \in [Slot -> PortType] /\ Start \in Slot /\ End \in Slot /\ Start # End
        /\ admin.slot \in Slot /\ portList[Start] \in PortType
    BY Ends DEF TypeOK
  <1>2. CASE EndAwaited
    <2>1. UNCHANGED portList /\ admin'.slot = Start /\ (admin'.force \/ HasEnded(portList[End]))
      BY <1>2 DEF EndAwaited, AdminAt, Start
    <2>2. Runs(End) /\ Sub(End) # "none"
      BY <1>1, <2>1 DEF InStep, LockInv, RoundInv, Expected, Opened, Rested
    <2> QED
      BY <2>1, <2>2 DEF HasEnded, Runs, Sub
  <1>3. CASE StopPort \/ StopResumes
    <2>1. InStep
      BY <1>1, <1>3, StopsMovePort DEF InStep, Runs
    <2>2. /\ admin.slot = Start /\ (admin.force \/ Sub(End) = "terminated") /\ Start \in hasItem
          /\ portList[Start].state = "running"
      BY <1>1, <1>3, <2>1 DEF PlaceInv, InStep, Runs, Running, StopPort, StopResumes
    <2>3. ~Put(Start, StopEnds(portList[Start])) /\ ~Put(Start, StopEnds(RequestLast(portList[Start])))
      <3>1. RequestLast(portList[Start]) \in PortType
        BY <1>1, RequestLastFields DEF Fields
      <3>2. ~Running(StopEnds(portList[Start])) /\ ~Running(StopEnds(RequestLast(portList[Start])))
        BY <1>1, <3>1, StopEndsFields DEF Fields, Running
      <3> QED
        BY <1>1, <3>2 DEF Put, InStep
    <2>4. /\ Put(Start, RequestLast(portList[Start]))
          /\ admin'.slot = Start /\ admin'.force = admin.force
      BY <1>3, <2>2, <2>3 DEF StopPort, StopResumes, AdminAt
    <2>5. Sub(End)' = Sub(End)
      BY <1>1, <2>4 DEF Put, Sub
    <2> QED
      BY <2>2, <2>4, <2>5
  <1>4. CASE UNCHANGED admin /\ InStep
    <2>1. /\ admin'.slot = Start /\ (admin'.force \/ Sub(End) = "terminated")
          /\ admin.at \in {"stop", "stopWaits"}
      BY <1>4 DEF PlaceInv
    <2> QED
      BY <1>4, <2>1, EndStaysTerminated
  <1>5. JavaNext \/ NativeNext \/ UNCHANGED vars => UNCHANGED admin /\ InStep
    <2>1. JavaNext \/ NativeNext => UNCHANGED admin
      BY DEF JavaNext, JavaWaits, JavaLoops, JavaVisits, JavaResumes,
             NativeNext, NativeBegins, NativeInits, NativeVisits, NativeResumes
    <2>2. JavaNext \/ NativeNext => InStep
      BY <1>1, WorkersMovePort DEF InStep, Runs
    <2>3. UNCHANGED vars => UNCHANGED admin /\ InStep
      BY DEF vars, InStep
    <2> QED
      BY <2>1, <2>2, <2>3
  <1>6. JavaNext \/ NativeNext \/ EndAwaited \/ StopPort \/ StopResumes \/ UNCHANGED vars
    <2>1. ~RemoveResumes /\ ~Take /\ ~Join
      BY DEF RemoveResumes, Take, Join, Home, AdminAt
    <2>2. ~Initialize /\ ~RegisterAtServer /\ ~StartAndRun /\ ~Deactivate /\ ~Shutdown
      BY DEF Initialize, RegisterAtServer, StartAndRun, Deactivate, Shutdown, Idle
    <2>3. ~Stop /\ \A output \in BOOLEAN : ~AddPort(output)
      BY DEF Stop, AddPort, Idle, AdminAt
    <2>4. \A i \in Slot : ~RemovePort(i)
      BY DEF RemovePort, AdminAt
    <2> QED
      BY <2>1, <2>2, <2>3, <2>4 DEF Next, AdminContinues, AdminBegins
  <1> QED
    BY <1>2, <1>3, <1>4, <1>5, <1>6

\* The places, one step per part.
LEMMA PlaceStep ==
  TypeOK /\ AdminInv /\ StartInv /\ EndInv /\ PlaceInv /\ LockInv /\ [Next]_vars => PlaceInv'
  <1> SUFFICES ASSUME TypeOK, AdminInv, StartInv, EndInv, PlaceInv, LockInv, [Next]_vars PROVE PlaceInv'
    OBVIOUS
  <1>1. /\ portList \in [Slot -> PortType] /\ Start \in Slot /\ End \in Slot /\ Start # End
        /\ admin.slot \in Slot
    BY Ends DEF TypeOK
  <1>2. \/ hasItem \subseteq hasItem'
        \/ /\ Take /\ hasItem' = hasItem \ {admin.slot} /\ ~Accessed(admin.slot)
           /\ ~Running(portList'[admin.slot]) /\ UNCHANGED native
    <2>1. CASE Take
      <3>1. ~Running(NoItem)
        BY NewPortMoves DEF NoItem
      <3> QED
        BY <1>1, <2>1, <3>1 DEF Take, Put
    <2>2. ASSUME NEW output \in BOOLEAN, AddPort(output) PROVE hasItem \subseteq hasItem'
      BY <2>2 DEF AddPort
    <2>3. CASE Initialize
      BY <2>3 DEF Initialize
    <2> QED
      BY <2>1, <2>2, <2>3 DEF Next, JavaNext, JavaWaits, JavaLoops, JavaVisits, JavaResumes,
         NativeNext, NativeBegins, NativeInits, NativeVisits, NativeResumes,
         AdminContinues, RemoveResumes, EndAwaited, StopPort, StopResumes, Join,
         AdminBegins, RegisterAtServer, StartAndRun, Stop, Deactivate, Shutdown, RemovePort, vars
  <1>3. ASSUME NEW i \in Slot
        PROVE  IF Runs(i)' THEN i \in hasItem' /\ state' \notin {"created", "initialized", "registered"}
               ELSE Sub(i)' = "none"
    <2>1. PortMoves(i)
      BY EveryPortMoves
    <2>2. Settled(portList[i])
      BY DEF PlaceInv, Settled, Runs, Sub
    <2>3. Runs(i)' => \/ i \in hasItem /\ state \notin {"created", "initialized", "registered"}
                      \/ i \in hasItem' /\ state' = "running"
      BY <2>1 DEF PortMoves, PlaceInv
    <2>4. i \in hasItem /\ Runs(i)' => i \in hasItem'
      BY <1>2 DEF Runs
    <2> QED
      BY <2>1, <2>2, <2>3, <2>4, StateMoves DEF PortMoves, Settled, Runs, Sub
  <1>4. InStep' => state' = "running"
    <2>1. PortMoves(Start)
      BY <1>1, EveryPortMoves
    <2>2. InStep => state = "running" /\ ~(admin.at \in {"stop", "stopWaits"} /\ admin.slot = End)
      BY <1>1 DEF PlaceInv
    <2> QED
      BY <2>1, <2>2, StateMoves DEF PortMoves, InStep, Runs
  <1>5. native'.at # "idle" => activated'
    <2>1. CASE NativeNext
      BY <2>1 DEF NativeNext, NativeBegins, NativeInits, NativeVisits, NativeResumes, PlaceInv
    <2>2. CASE ~NativeNext
      BY <2>2 DEF PlaceInv, Next, JavaNext, JavaWaits, JavaLoops, JavaVisits, JavaResumes,
         AdminContinues, RemoveResumes, Take, EndAwaited, StopPort, StopResumes, Join,
         AdminBegins, Initialize, RegisterAtServer, StartAndRun, Stop, Deactivate, Shutdown,
         AddPort, RemovePort, vars
    <2> QED
      BY <2>1, <2>2
  <1> QED
    BY <1>3, <1>4, <1>5, FlagsStep, StopsInOrder DEF PlaceInv

----------------------------------------------------------------------------
(* Steps of the administrator. *)

\* While the chain runs in step, the administrator disturbs no turn.
LEMMA AdminUndisturbed ==
  ASSUME TypeOK, AdminInv, StartInv, EndInv, PlaceInv, LockInv, InStep,
         AdminContinues \/ AdminBegins \/ UNCHANGED vars
  PROVE  Undisturbed
  <1>1. /\ portList \in [Slot -> PortType] /\ Start \in hasItem /\ End \in hasItem
        /\ Start \in Slot /\ End \in Slot /\ Start # End /\ admin.slot \in Slot
        /\ state = "running" /\ portList[Start] \in PortType
    BY Ends DEF TypeOK, PlaceInv, StartInv, EndInv
  <1>2. CASE UNCHANGED <<portList, java, native>>
    BY <1>2 DEF Undisturbed, Runs, Sub, InStep
  <1>3. ASSUME NEW output \in BOOLEAN, AddPort(output) PROVE Undisturbed
    <2>1. PICK j \in Slot \ hasItem :
            Put(j, registerAndStart(Initialized(NewPort(output)))) /\ UNCHANGED <<java, native>>
      BY <1>3, AddedPort
    <2>2. \A i \in Slot : Runs(i)' =>
            \/ Runs(i) /\ Sub(i)' = Sub(i) /\ portList'[i].output = portList[i].output
            \/ Sub(i)' = "started" /\ i \notin hasItem \cup {Start, End}
      BY <1>1, <2>1, NewPortMoves DEF Put, Runs, Sub
    <2> QED
      BY <1>1, <1>3, <2>1, <2>2, ControlsStay DEF Undisturbed, Sub, InStep
  <1>4. CASE (\E i \in Slot : RemovePort(i)) \/ RemoveResumes
    <2>1. UNCHANGED <<java, native>>
      BY <1>4 DEF RemovePort, RemoveResumes
    <2>2. \A i \in Slot : Runs(i)' => Runs(i) /\ Sub(i)' = Sub(i) /\ portList'[i].output = portList[i].output
      BY <1>4, StopsMovePort DEF Runs, Sub, Calm
    <2> QED
      BY <1>1, <1>4, <2>1, <2>2, ControlsStay DEF Undisturbed, Sub, InStep
  <1>5. CASE Take
    <2>1. UNCHANGED <<java, native>>
      BY <1>5 DEF Take
    <2>2. ~Running(NoItem)
      BY NewPortMoves DEF NoItem
    <2>3. \A i \in Slot : Runs(i)' => Runs(i) /\ Sub(i)' = Sub(i) /\ portList'[i].output = portList[i].output
      BY <1>1, <1>5, <2>2 DEF Take, Put, Runs, Sub
    <2> QED
      BY <1>1, <1>5, <2>1, <2>3, ControlsStay DEF Undisturbed, Sub, InStep
  <1>6. CASE StopPort \/ StopResumes
    <2>1. UNCHANGED <<java, native>> /\ admin.at \in {"stop", "stopWaits"}
      BY <1>6 DEF StopPort, StopResumes
    <2>2. \A i \in Slot : Runs(i)' => Runs(i) /\ Sub(i)' = Sub(i) /\ portList'[i].output = portList[i].output
      BY <1>6, StopsMovePort DEF Runs, Sub, Calm
    <2>3. admin.slot = Start /\ (admin.force \/ Sub(End) = "terminated") /\ portList[Start].state = "running"
      BY <2>1 DEF PlaceInv, InStep, Running
    <2>4. UNCHANGED portList \/ \E q : Put(Start, q)
      BY <1>6, <2>3 DEF StopPort, StopResumes
    <2>5. portList'[End] = portList[End]
      BY <1>1, <2>4 DEF Put
    <2>6. InStep' => Sub(End) = "terminated"
      <3>1. RequestLast(portList[Start]) \in PortType
        BY <1>1, RequestLastFields DEF Fields
      <3>2. ~Running(StopEnds(portList[Start])) /\ ~Running(StopEnds(RequestLast(portList[Start])))
        BY <1>1, <3>1, StopEndsFields DEF Fields, Running
      <3>3. \/ ~admin.force
            \/ Put(Start, StopEnds(portList[Start])) \/ Put(Start, StopEnds(RequestLast(portList[Start])))
        BY <1>1, <1>6, <2>3 DEF StopPort, StopResumes
      <3> QED
        BY <1>1, <2>3, <3>2, <3>3 DEF Put, InStep
    <2> QED
      BY <1>1, <2>1, <2>2, <2>5, <2>6 DEF Undisturbed, InStep, Runs
  <1>7. EndAwaited \/ Join \/ Stop \/ Deactivate \/ UNCHANGED vars => UNCHANGED <<portList, java, native>>
    BY DEF EndAwaited, Join, Stop, Deactivate, vars
  <1>8. ~Initialize /\ ~RegisterAtServer /\ ~StartAndRun /\ ~Shutdown
    BY <1>1 DEF Initialize, RegisterAtServer, StartAndRun, Shutdown
  <1> QED
    BY <1>2, <1>3, <1>4, <1>5, <1>6, <1>7, <1>8 DEF AdminContinues, AdminBegins

\* The chain starts in step.
LEMMA StartKeeps ==
  ASSUME TypeOK, StartInv, EndInv, PlaceInv, StartAndRun
  PROVE  LockInv'
  <1>1. /\ portList \in [Slot -> PortType] /\ Start \in hasItem /\ End \in hasItem
        /\ Start \in Slot /\ End \in Slot /\ Start # End
        /\ native'.at = "idle" /\ java'.at = "wait"
        /\ ~portList[Start].lastCycle /\ ~portList[End].lastCycle
    BY Ends DEF TypeOK, StartInv, EndInv, PlaceInv, StartAndRun, JavaAt
  <1>2. \A i \in Slot : portList'[i] = IF i \in hasItem THEN Started(portList[i]) ELSE portList[i]
    BY <1>1 DEF StartAndRun
  <1>3. \A i \in hasItem : /\ Running(portList'[i]) /\ portList'[i].substate = "started"
                           /\ portList'[i].lastCycle = portList[i].lastCycle
    BY <1>1, <1>2, StartedFields DEF Fields, Running, TypeOK
  <1>4. \A i \in Slot : Runs(i)' => Sub(i)' = "started"
    BY <1>2, <1>3 DEF PlaceInv, Runs, Sub
  <1>5. RoundInv'
    BY <1>1, <1>3, <1>4 DEF RoundInv, Expected, Opened, InRound, Rested, Runs
  <1>6. WalkInv' /\ LastInv'
    BY <1>1, <1>3, <1>4 DEF WalkInv, LastInv, Runs, Sub, Passed, Ahead, EndCalled, Awaits, Ended
  <1> QED
    BY <1>5, <1>6 DEF LockInv

\* Nothing but start brings the walks into step.
LEMMA OnlyStart ==
  ASSUME TypeOK, AdminInv, StartInv, EndInv, PlaceInv, PlaceInv', ~InStep, InStep',
         AdminContinues \/ AdminBegins \/ UNCHANGED vars
  PROVE  StartAndRun
  <1>1. /\ portList \in [Slot -> PortType] /\ Start \in Slot /\ state' = "running"
    BY Ends DEF TypeOK, PlaceInv
  <1>2. ~StopPort /\ ~StopResumes /\ ~RemoveResumes /\ \A i \in Slot : ~RemovePort(i)
    BY <1>1, StopsMovePort DEF InStep, Runs
  <1>3. ~Take /\ \A output \in BOOLEAN : ~AddPort(output)
    <2>1. Take \/ (\E output \in BOOLEAN : AddPort(output)) => state = "running"
      BY <1>1 DEF Take, AddPort
    <2> QED
      BY <2>1, ControlsStay DEF InStep
  <1>4. ~Initialize /\ ~RegisterAtServer /\ ~Shutdown
    BY <1>1 DEF Initialize, RegisterAtServer, Shutdown
  <1>5. ~EndAwaited /\ ~Join /\ ~Stop /\ ~Deactivate /\ ~UNCHANGED vars
    BY DEF EndAwaited, Join, Stop, Deactivate, vars, InStep
  <1> QED
    BY <1>2, <1>3, <1>4, <1>5 DEF AdminContinues, AdminBegins

----------------------------------------------------------------------------
(* The invariant. *)

LEMMA LockStep ==
  TypeOK /\ AdminInv /\ StartInv /\ EndInv /\ LeaseInv /\ PlaceInv /\ LockInv /\ [Next]_vars => LockInv'
  <1> SUFFICES ASSUME TypeOK, AdminInv, StartInv, EndInv, LeaseInv, PlaceInv, LockInv, [Next]_vars
               PROVE  LockInv'
    OBVIOUS
  <1>1. CASE JavaNext
    <2>1. CASE JavaWaits \/ JavaLoops
      BY <2>1, JavaGoesKeeps
    <2>2. CASE JavaVisits \/ JavaResumes
      BY <2>2, JavaCallsKeeps, JavaSkipsKeeps
    <2> QED
      BY <1>1, <2>1, <2>2 DEF JavaNext
  <1>2. CASE NativeNext
    BY <1>2, NativeBeginsKeeps, NativeInitsKeeps, NativeWalksKeeps DEF NativeNext
  <1>3. CASE AdminContinues \/ AdminBegins \/ UNCHANGED vars
    <2>1. CASE InStep
      BY <1>3, <2>1, AdminUndisturbed, UndisturbedKeeps
    <2>2. CASE ~InStep /\ InStep'
      <3>1. StartAndRun
        BY <1>3, <2>2, PlaceStep, OnlyStart
      <3> QED
        BY <3>1, StartKeeps
    <2>3. CASE ~InStep'
      BY <2>3 DEF LockInv
    <2> QED
      BY <2>1, <2>2, <2>3
  <1> QED
    BY <1>1, <1>2, <1>3 DEF Next

LEMMA InitStepInv == Init => StepInv
  <1> SUFFICES ASSUME Init PROVE StepInv
    OBVIOUS
  <1>1. ChainInv
    BY InitInv
  <1>2. \A i \in Slot : portList[i] = NoItem
    BY DEF Init
  <1>3. ~Running(NoItem) /\ Settled(NoItem)
    BY NewPortMoves DEF NoItem
  <1>4. \A i \in Slot : ~Runs(i) /\ Sub(i) = "none"
    BY <1>2, <1>3 DEF Runs, Sub, Settled
  <1>5. ~InStep
    BY <1>4, Ends DEF Runs, InStep
  <1>6. PlaceInv
    BY <1>4, <1>5 DEF PlaceInv, Init
  <1> QED
    BY <1>1, <1>5, <1>6 DEF StepInv, LockInv

\* The inductive invariant holds.
THEOREM StepInvariant == Spec => []StepInv
  <1>1. StepInv /\ [Next]_vars => StepInv'
    BY TypeStep, AdminStep, StartStep, WorkerStep, EndStep, LeaseStep, PlaceStep,
       LockStep DEF StepInv, ChainInv
  <1> QED
    BY <1>1, InitStepInv, PTL DEF Spec

----------------------------------------------------------------------------
(* No illegal step. *)

\* An error that was not there before is not one of the "Cannot ..." errors.
Clean(p, q) == q.processException = "illegal" => p.processException = "illegal"

\* No operator reports one but those of the process thread, which find the port out of turn.
LEMMA CleanOps ==
  ASSUME NEW p \in PortType
  PROVE  /\ Clean(p, RequestLast(p)) /\ Clean(p, StopEnds(p)) /\ Clean(p, StopEnds(RequestLast(p)))
         /\ Clean(p, Deletable(p)) /\ Clean(p, Deletable(RequestLast(p))) /\ Clean(p, StopAfterError(p))
         /\ Clean(p, NativeEnds(p)) /\ Clean(p, emergencyStop(p, "native"))
         /\ \A last \in BOOLEAN : /\ Clean(p, JavaEnds(JavaBegins(p, last)))
                                  /\ Clean(p, emergencyStop(JavaBegins(p, last), "java"))
         /\ (Running(p) => p.substate \in Rested) => Clean(p, execNativeCycleInit(p))
  <1>1. \A q \in PortType : Clean(q, StopEnds(q)) /\ Clean(q, Deletable(q)) /\ Clean(q, StopAfterError(q))
    BY StopEndsFields, DeletableFields, StopAfterErrorFields DEF Fields, Clean, FirstOf
  <1>2. RequestLast(p) \in PortType /\ RequestLast(p).processException = p.processException
    BY RequestLastFields DEF Fields
  <1>3. Clean(p, NativeEnds(p)) /\ Clean(p, emergencyStop(p, "native"))
    BY NativeEndsFields, EmergencyStopFields DEF Fields, Clean, FirstOf, Cause
  <1>4. ASSUME NEW last \in BOOLEAN
        PROVE  /\ Clean(p, JavaEnds(JavaBegins(p, last)))
               /\ Clean(p, emergencyStop(JavaBegins(p, last), "java"))
    <2>1. JavaBegins(p, last) \in PortType /\ JavaBegins(p, last).processException = p.processException
      BY JavaBeginsFields DEF Fields
    <2> QED
      BY <2>1, JavaEndsFields, EmergencyStopFields DEF Fields, Clean, FirstOf, Cause
  <1>5. ASSUME Running(p) => p.substate \in Rested PROVE Clean(p, execNativeCycleInit(p))
    <2>1. CASE ~Running(p) \/ p.substate = "terminated"
      BY <2>1 DEF execNativeCycleInit, Clean
    <2>2. CASE Running(p) /\ p.substate # "terminated"
      <3>1. AcceptsInit(p)
        BY <1>5, <2>2 DEF AcceptsInit, Rested
      <3> QED
        BY <2>2, <3>1, ExecNativeCycleInitFields DEF Fields, Clean
    <2> QED
      BY <2>1, <2>2
  <1> QED
    BY <1>1, <1>2, <1>3, <1>4, <1>5 DEF Clean

LEMMA PutClean ==
  ASSUME NEW i \in Slot, NEW j \in Slot, NEW q, portList \in [Slot -> PortType], Put(j, q),
         Clean(portList[j], q)
  PROVE  Clean(portList[i], portList'[i])
  BY DEF Put, Clean

LEMMA StepsAreLegal ==
  ASSUME StepInv, InStep, [Next]_vars, NEW i \in Slot
  PROVE  Clean(portList[i], portList'[i])
  <1>1. /\ portList \in [Slot -> PortType] /\ java.slot \in Slot /\ native.slot \in Slot
        /\ admin.slot \in Slot /\ java.last \in BOOLEAN /\ state = "running"
        /\ TypeOK /\ AdminInv /\ StartInv /\ EndInv /\ PlaceInv /\ LockInv
    BY DEF StepInv, ChainInv, TypeOK, PlaceInv
  <1>2. CASE UNCHANGED portList
    BY <1>2 DEF Clean
  <1>3. CASE JavaNext
    <2>1. UNCHANGED portList \/ JavaCalls
      BY <1>3 DEF JavaNext, JavaWaits, JavaLoops, JavaVisits, JavaResumes, JavaSkips
    <2>2. ASSUME JavaCalls PROVE Clean(portList[i], portList'[i])
      <3>1. PICK q \in {JavaEnds(JavaBegins(portList[java.slot], java.last)),
                        emergencyStop(JavaBegins(portList[java.slot], java.last), "java")} : Put(java.slot, q)
        BY <2>2 DEF JavaCalls
      <3>2. Clean(portList[java.slot], q)
        BY <1>1, <3>1, CleanOps
      <3> QED
        BY <1>1, <3>1, <3>2, PutClean
    <2> QED
      BY <1>2, <2>1, <2>2
  <1>4. CASE NativeInits
    <2>1. Clean(portList[native.slot], execNativeCycleInit(portList[native.slot]))
      BY <1>1, <1>4, InitFinds, CleanOps
    <2>2. UNCHANGED portList \/ Put(native.slot, execNativeCycleInit(portList[native.slot]))
      BY <1>4 DEF NativeInits
    <2> QED
      BY <1>1, <1>2, <2>1, <2>2, PutClean
  <1>5. CASE NativeVisits \/ NativeResumes
    <2>1. WalkFinds(native.slot)
      BY <1>1, <1>5, SecondWalk
    <2>2. \/ UNCHANGED portList
          \/ \E q \in {NativeEnds(portList[native.slot]), emergencyStop(portList[native.slot], "native")} :
               Put(native.slot, q)
      BY <2>1 DEF WalkFinds, NativeSkips
    <2>3. ASSUME NEW q \in {NativeEnds(portList[native.slot]), emergencyStop(portList[native.slot], "native")},
                 Put(native.slot, q)
          PROVE  Clean(portList[i], portList'[i])
      <3>1. Clean(portList[native.slot], q)
        BY <1>1, <2>3, CleanOps
      <3> QED
        BY <1>1, <2>3, <3>1, PutClean
    <2> QED
      BY <1>2, <2>2, <2>3
  <1>6. CASE StopPort \/ StopResumes \/ RemoveResumes \/ \E j \in Slot : RemovePort(j)
    <2>1. \/ UNCHANGED portList
          \/ \E j \in Slot : \E q \in {RequestLast(portList[j]), StopAfterError(portList[j]),
                StopEnds(portList[j]), StopEnds(RequestLast(portList[j])), Deletable(portList[j]),
                Deletable(RequestLast(portList[j]))} : Put(j, q)
      BY <1>1, <1>6 DEF StopPort, StopResumes, RemoveResumes, RemovePort
    <2>2. ASSUME NEW j \in Slot,
                 NEW q \in {RequestLast(portList[j]), StopAfterError(portList[j]),
                   StopEnds(portList[j]), StopEnds(RequestLast(portList[j])), Deletable(portList[j]),
                   Deletable(RequestLast(portList[j]))},
                 Put(j, q)
          PROVE  Clean(portList[i], portList'[i])
      <3>1. Clean(portList[j], q)
        BY <1>1, <2>2, CleanOps
      <3> QED
        BY <1>1, <2>2, <3>1, PutClean
    <2> QED
      BY <1>2, <2>1, <2>2
  <1>7. CASE Take \/ \E output \in BOOLEAN : AddPort(output)
    <2>1. \A o \in BOOLEAN : /\ NewPort(o).processException = "nothing"
                             /\ registerAndStart(Initialized(NewPort(o))).processException = "nothing"
      <3>1. ASSUME NEW o \in BOOLEAN
            PROVE  /\ NewPort(o).processException = "nothing"
                   /\ registerAndStart(Initialized(NewPort(o))).processException = "nothing"
        <4>1. NewPort(o) \in PortType /\ NewPort(o).processException = "nothing"
          BY NewPortFields DEF Fields
        <4>2. /\ Initialized(NewPort(o)) \in PortType
              /\ Initialized(NewPort(o)).processException = "nothing"
          BY <4>1, InitializedFields DEF Fields
        <4>3. /\ Registered(Initialized(NewPort(o))) \in PortType
              /\ Registered(Initialized(NewPort(o))).processException = "nothing"
          BY <4>2, RegisteredFields DEF Fields
        <4>4. Started(Registered(Initialized(NewPort(o)))).processException = "nothing"
          BY <4>3, StartedFields DEF Fields
        <4> QED
          BY <4>1, <4>2, <4>3, <4>4 DEF registerAndStart
      <3> QED
        BY <3>1
    <2>2. \/ UNCHANGED portList
          \/ \E j \in Slot : \E q : Put(j, q) /\ q.processException = "nothing"
      <3>1. CASE Take
        BY <1>1, <2>1, <3>1 DEF Take, NoItem
      <3>2. ASSUME NEW output \in BOOLEAN, AddPort(output)
            PROVE  \E j \in Slot : \E q : Put(j, q) /\ q.processException = "nothing"
        BY <2>1, <3>2 DEF AddPort
      <3> QED
        BY <1>7, <3>1, <3>2
    <2> QED
      BY <1>1, <1>2, <2>2, PutClean DEF Clean
  <1>8. NativeBegins \/ EndAwaited \/ Join \/ Stop \/ Deactivate \/ UNCHANGED vars => UNCHANGED portList
    BY DEF NativeBegins, EndAwaited, Join, Stop, Deactivate, vars
  <1>9. ~Initialize /\ ~RegisterAtServer /\ ~StartAndRun /\ ~Shutdown
    BY <1>1 DEF Initialize, RegisterAtServer, StartAndRun, Shutdown
  <1> QED
    BY <1>2, <1>3, <1>4, <1>5, <1>6, <1>7, <1>8, <1>9 DEF Next, NativeNext, AdminContinues, AdminBegins

\* While the start control runs, the walks never bring a port into one of its "Cannot ..."
\* errors, whichever ports come and go.
THEOREM ChainNoIllegalStep == Spec => NoIllegalStep
  <1>1. StepInv /\ [Next]_vars =>
          [\A i \in Slot : portList'[i].processException = "illegal"
             => portList[i].processException = "illegal" \/ ~InStep]_vars
    BY StepsAreLegal DEF Clean
  <1> QED
    BY <1>1, StepInvariant, PTL DEF Spec, NoIllegalStep

----------------------------------------------------------------------------
(* The brackets, and the end. *)

\* Only the Java worker ends a port's wait for its callback.
LEMMA OnlyJavaCalls ==
  ASSUME StepInv, InStep, [Next]_vars, NEW i \in Slot, Called(i)
  PROVE  i = java.slot /\ java.at \in {"walk", "blocked"}
  <1>1. /\ portList \in [Slot -> PortType] /\ java.slot \in Slot /\ native.slot \in Slot
        /\ TypeOK /\ AdminInv /\ StartInv /\ EndInv /\ PlaceInv /\ LockInv /\ PlaceInv'
    BY PlaceStep DEF StepInv, ChainInv, TypeOK
  <1>2. i \in hasItem /\ Awaits(i) /\ Runs(i)' /\ i \in hasItem' /\ ~Awaits(i)'
    BY <1>1 DEF Called, AwaitsJava, Awaits, Runs, Sub, PlaceInv
  <1>3. portList'[i] # portList[i]
    BY <1>2 DEF Awaits, Sub
  <1>4. CASE JavaNext
    <2>1. UNCHANGED portList \/ (java.at \in {"walk", "blocked"} /\ \E q : Put(java.slot, q))
      BY <1>4 DEF JavaNext, JavaWaits, JavaLoops, JavaVisits, JavaResumes, JavaSkips, JavaCalls
    <2> QED
      BY <1>1, <1>3, <2>1 DEF Put
  <1>5. ~NativeInits
    <2>1. SUFFICES ASSUME NativeInits PROVE FALSE
      OBVIOUS
    <2>2. i = native.slot
      BY <1>1, <1>3, <2>1 DEF NativeInits, Put
    <2>3. Runs(i)
      BY DEF Called, AwaitsJava, Runs
    <2>4. Sub(i) \in Rested
      BY <1>1, <2>1, <2>2, <2>3, InitFinds DEF Runs, Sub
    <2> QED
      BY <1>2, <2>4 DEF Awaits, Rested
  <1>6. ~NativeVisits /\ ~NativeResumes
    <2>1. SUFFICES ASSUME NativeVisits \/ NativeResumes PROVE FALSE
      OBVIOUS
    <2>2. WalkFinds(native.slot)
      BY <1>1, <2>1, SecondWalk
    <2>3. i = native.slot
      BY <1>1, <1>3, <2>2 DEF WalkFinds, NativeSkips, Put
    <2>4. ~Put(i, emergencyStop(portList[i], "native"))
      <3>1. ~Running(emergencyStop(portList[i], "native"))
        BY <1>1, ErrorTurn DEF Cause
      <3> QED
        BY <1>1, <1>2, <3>1 DEF Put, Runs
    <2>5. NativeReady(portList[i]) /\ Put(i, NativeEnds(portList[i]))
      BY <1>3, <2>2, <2>3, <2>4 DEF WalkFinds, NativeSkips
    <2>6. portList'[i].output = portList[i].output /\ (~portList[i].output => Sub(i)' = "javaToExec")
      BY <1>1, <2>5, NativeTurn DEF Put, Sub
    <2>7. Sub(i) \in {"nativeToExec", "nativeToTerminate"}
      BY <2>5 DEF NativeReady, Sub
    <2> QED
      BY <1>2, <2>6, <2>7 DEF Awaits
  <1>7. ~(AdminContinues \/ AdminBegins \/ UNCHANGED vars)
    <2>1. SUFFICES ASSUME AdminContinues \/ AdminBegins \/ UNCHANGED vars PROVE FALSE
      OBVIOUS
    <2>2. Undisturbed
      BY <1>1, <2>1, AdminUndisturbed
    <2> QED
      BY <1>2, <2>2 DEF Undisturbed, Awaits
  <1>8. ~NativeBegins
    BY <1>3 DEF NativeBegins
  <1> QED
    BY <1>4, <1>5, <1>6, <1>7, <1>8 DEF Next, NativeNext

LEMMA Brackets ==
  ASSUME StepInv, InStep, [Next]_vars, NEW i \in Slot, Called(i)
  PROVE  /\ i # Start => ~AwaitsJava(Start)
         /\ i = End => \A j \in Slot \ {End} : ~AwaitsJava(j)
  <1>1. /\ i = java.slot /\ java.at \in {"walk", "blocked"} /\ WalkInv
    BY OnlyJavaCalls DEF StepInv, LockInv
  <1>2. \A j \in Slot : AwaitsJava(j) => Runs(j) /\ Awaits(j)
    BY DEF AwaitsJava, Awaits, Runs, Sub
  <1>3. i # Start => ~Awaits(Start)
    BY <1>1 DEF WalkInv, Ahead, Awaits
  <1>4. i = End => \A j \in Slot \ {End} : Passed(j)
    BY <1>1, ChainAssumption DEF Passed, Slot, End
  <1> QED
    BY <1>1, <1>2, <1>3, <1>4, Ends DEF WalkInv

\* onCycleStart is called before any other callback of a cycle, and onCycleEnd after all of them.
THEOREM ChainBrackets == Spec => CycleIsBracketed
  <1>1. StepInv /\ [Next]_vars =>
          [\A i \in Slot : InStep /\ Called(i) =>
             /\ i # Start => ~AwaitsJava(Start)
             /\ i = End => \A j \in Slot \ {End} : ~AwaitsJava(j)]_vars
    BY Brackets
  <1> QED
    BY <1>1, StepInvariant, PTL DEF Spec, CycleIsBracketed

\* When the end control has terminated, every port that takes part has had its last callback.
THEOREM ChainEndsTogether == Spec => []EndsTogether
  <1>1. StepInv => EndsTogether
    <2> SUFFICES ASSUME StepInv, InStep, Sub(End) = "terminated", NEW i \in hasItem, Runs(i)
                 PROVE  Sub(i) \in {"terminated", "started"}
      BY DEF EndsTogether, Sub, Runs
    <2>1. RoundInv /\ LastInv /\ i \in Slot /\ native.at \in {"idle", "init", "process", "blocked"}
      BY DEF StepInv, ChainInv, LockInv, TypeOK
    <2>2. native.at = "idle"
      BY <2>1 DEF RoundInv, InRound, Rested
    <2>3. Sub(i) \in Rested
      BY <2>1, <2>2 DEF RoundInv, Expected, Opened
    <2>4. Ended(i)
      BY <2>1 DEF LastInv
    <2> QED
      BY <2>3, <2>4 DEF Rested, Ended
  <1> QED
    BY <1>1, StepInvariant, PTL

----------------------------------------------------------------------------
(* The ports fit the chain, if removePort is patient and the audio server registers every port. *)

\* The states of the ports that the administrator has no hold on, by the state of the chain.
Fitting ==
  CASE state \in {"created", "initialized"} -> {"initialized"}
    [] state = "registered" -> {"registered"}
    [] state = "running" -> {"running", "stoppedOnError"}
    [] state = "stopped" -> {"stopped"}
    [] state = "unregistered" -> {"unregistered"}
    [] state = "deletable" -> {"deletable"}

\* stop goes through the ports from the first to the last, and removePort takes out what it
\* has made deletable.
Fits(i) ==
  portList[i].state \in
    IF admin.at = "take" /\ i = admin.slot THEN {"deletable"}
    ELSE IF admin.at \in {"stop", "stopWaits"} /\ i < admin.slot THEN {"stopped"}
    ELSE Fitting

FitInv == \A i \in hasItem : Fits(i)

\* The workers stop running ports, and do nothing else to a port's state.
LEMMA WorkersFit ==
  ASSUME TypeOK, PlaceInv, FitInv, JavaNext \/ NativeNext
  PROVE  FitInv'
  <1>1. /\ portList \in [Slot -> PortType] /\ hasItem \subseteq Slot
        /\ UNCHANGED <<hasItem, state, admin>>
    BY DEF TypeOK, JavaNext, JavaWaits, JavaLoops, JavaVisits, JavaResumes,
           NativeNext, NativeBegins, NativeInits, NativeVisits, NativeResumes
  <1>2. \/ UNCHANGED portList
        \/ \E j \in Slot : \E q :
             Put(j, q) /\ Running(portList[j]) /\ q.state \in {"running", "stoppedOnError"}
    BY WorkersPut
  <1>3. CASE UNCHANGED portList
    BY <1>1, <1>3 DEF FitInv, Fits, Fitting
  <1>4. ASSUME NEW j \in Slot, NEW q, Put(j, q), Running(portList[j]), q.state \in {"running", "stoppedOnError"}
        PROVE  FitInv'
    <2>1. ASSUME NEW i \in hasItem PROVE Fits(i)'
      <3>1. CASE i # j
        BY <1>1, <1>4, <3>1 DEF Put, FitInv, Fits, Fitting
      <3>2. CASE i = j
        BY <1>1, <1>4, <3>2 DEF Put, FitInv, Fits, Fitting, Running, TypeOK
      <3> QED
        BY <3>1, <3>2
    <2> QED
      BY <1>1, <2>1 DEF FitInv
  <1> QED
    BY <1>2, <1>3, <1>4

\* An operation that the audio server does not refuse reaches all the ports.
LEMMA AllReached ==
  ASSUME NEW list, NEW states, hasItem \subseteq Slot, \A i \in hasItem : list[i].state \in states
  PROVE  Reached(list, states, MAX_PORTS) = hasItem
  <1>1. \A i \in Slot : i < MAX_PORTS
    BY ChainAssumption DEF Slot
  <1> QED
    BY <1>1 DEF Reached

\* The operations on all the ports.
LEMMA AllFit ==
  ASSUME ~RegisterFails, TypeOK, FitInv, Initialize \/ RegisterAtServer \/ StartAndRun \/ Shutdown
  PROVE  FitInv'
  <1>1. /\ portList \in [Slot -> PortType] /\ hasItem \subseteq Slot /\ Start \in Slot /\ End \in Slot
        /\ admin.at = "idle" /\ UNCHANGED admin /\ Start # End
    BY Ends DEF TypeOK, Initialize, RegisterAtServer, StartAndRun, Shutdown, Idle
  <1>2. /\ \A i \in hasItem : portList[i].state \in Fitting
        /\ (\A i \in hasItem' : portList'[i].state \in Fitting') => FitInv'
    BY <1>1 DEF FitInv, Fits
  <1>3. CASE Initialize
    <2>1. \A o \in BOOLEAN : Initialized(NewPort(o)).state = "initialized"
      BY NewPortFields, InitializedFields DEF Fields
    <2>2. \A i \in hasItem' : portList'[i].state = "initialized"
      <3>1. \A i \in hasItem : portList[i].state = "initialized"
        BY <1>2, <1>3 DEF Initialize, Fitting
      <3> QED
        BY <1>1, <1>3, <2>1, <3>1 DEF Initialize, Put
    <2>3. Fitting' = {"initialized"}
      BY <1>3 DEF Initialize, Fitting
    <2> QED
      BY <1>2, <2>2, <2>3
  <1>4. Refusal = {MAX_PORTS}
    BY DEF Refusal
  <1>5. CASE RegisterAtServer
    <2>1. /\ \A i \in hasItem : portList[i].state = "initialized"
          /\ AllIn(portList, {"initialized"}) /\ Reached(portList, {"initialized"}, MAX_PORTS) = hasItem
      <3>1. \A i \in hasItem : portList[i].state \in {"initialized"}
        BY <1>2, <1>5 DEF RegisterAtServer, Fitting
      <3> QED
        BY <1>1, <3>1, AllReached DEF AllIn
    <2>2. state' = "registered" /\ hasItem' = hasItem /\ \A i \in hasItem : portList'[i] = Registered(portList[i])
      BY <1>1, <1>4, <1>5, <2>1 DEF RegisterAtServer
    <2>3. \A i \in hasItem : portList'[i].state = "registered"
      BY <1>1, <2>2, RegisteredFields DEF Fields
    <2> QED
      BY <1>2, <2>2, <2>3 DEF Fitting
  <1>6. CASE StartAndRun
    <2>1. state' = "running" /\ hasItem' = hasItem /\ \A i \in hasItem : portList'[i] = Started(portList[i])
      BY <1>1, <1>6 DEF StartAndRun
    <2>2. \A i \in hasItem : portList'[i].state = "running"
      BY <1>1, <2>1, StartedFields DEF Fields
    <2> QED
      BY <1>2, <2>1, <2>2 DEF Fitting
  <1>7. CASE Shutdown
    <2> DEFINE registered == state \in {"registered", "stopped"}
               list == [j \in Slot |->
                          IF registered /\ j \in Reached(portList, {"registered", "stopped"}, MAX_PORTS)
                          THEN Unregistered(portList[j]) ELSE portList[j]]
               last == Reached(list, {"initialized", "unregistered"}, MAX_PORTS)
    <2>1. IF registered /\ ~AllIn(portList, {"registered", "stopped"})
          THEN portList' = list /\ UNCHANGED state
          ELSE /\ portList' = [i \in Slot |-> IF i \in last THEN Uninitialized(list[i]) ELSE list[i]]
               /\ state' = IF last = hasItem THEN "deletable"
                           ELSE IF registered THEN "unregistered" ELSE state
      BY <1>4, <1>7 DEF Shutdown
    <2>2. hasItem' = hasItem
      BY <1>7 DEF Shutdown
    <2>3. registered => /\ AllIn(portList, {"registered", "stopped"})
                        /\ Reached(portList, {"registered", "stopped"}, MAX_PORTS) = hasItem
      <3>1. registered => \A i \in hasItem : portList[i].state \in {"registered", "stopped"}
        BY <1>2 DEF Fitting
      <3> QED
        BY <1>1, <3>1, AllReached DEF AllIn
    <2>4. \A i \in hasItem : list[i] \in PortType /\ list[i].state \in {"initialized", "unregistered"}
      <3>1. CASE registered
        <4>1. \A i \in hasItem : list[i] = Unregistered(portList[i])
          BY <1>1, <2>3, <3>1
        <4> HIDE DEF list
        <4> QED
          BY <1>1, <4>1, UnregisteredFields DEF Fields
      <3>2. CASE ~registered
        <4>1. \A i \in hasItem : list[i] = portList[i]
          BY <1>1, <3>2
        <4>2. state \in {"created", "initialized", "unregistered"}
          BY <1>7, <3>2 DEF Shutdown
        <4> HIDE DEF list
        <4> QED
          BY <1>1, <1>2, <4>1, <4>2 DEF Fitting
      <3> QED
        BY <3>1, <3>2
    <2> HIDE DEF list
    <2>5. last = hasItem
      BY <1>1, <2>4, AllReached
    <2> HIDE DEF last, registered
    <2>6. state' = "deletable" /\ \A i \in hasItem : portList'[i] = Uninitialized(list[i])
      BY <1>1, <2>1, <2>3, <2>5
    <2>7. \A i \in hasItem : portList'[i].state = "deletable"
      BY <2>4, <2>6, UninitializedFields DEF Fields
    <2> QED
      BY <1>2, <2>2, <2>6, <2>7 DEF Fitting
  <1> QED
    BY <1>3, <1>5, <1>6, <1>7

\* stop leaves stopped ports behind, and the chain stopped when it has been through them all.
LEMMA StopsFit ==
  ASSUME TypeOK, AdminInv, FitInv, StopPort \/ StopResumes
  PROVE  FitInv'
  <1> PICK s \in Slot : s = admin.slot
    BY DEF TypeOK
  <1> DEFINE p == portList[s]
  <1>1. /\ portList \in [Slot -> PortType] /\ hasItem \subseteq Slot /\ End \in Slot
        /\ p \in PortType /\ admin.at \in {"stop", "stopWaits"} /\ state = "running" /\ hasItem' = hasItem
    BY Ends DEF TypeOK, StopPort, StopResumes, AdminInv
  <1>2. \A i \in hasItem : portList[i].state \in IF i < s THEN {"stopped"} ELSE {"running", "stoppedOnError"}
    BY <1>1 DEF FitInv, Fits, Fitting
  <1>3. ~(s < s)
    BY DEF Slot
  <1>4. s \in hasItem => p.state \in {"running", "stoppedOnError"}
    BY <1>2, <1>3
  <1>5. /\ RequestLast(p).state = p.state /\ StopAfterError(p).state = "stopped"
        /\ StopEnds(p).state = "stopped" /\ StopEnds(RequestLast(p)).state = "stopped"
    BY <1>1, RequestLastFields, StopAfterErrorFields, StopEndsFields DEF Fields
  <1>6. \/ AdminAt("stopWaits", s, admin.force) /\ UNCHANGED state /\ s \in hasItem /\ Put(s, RequestLast(p))
        \/ /\ NextToStop(s, admin.force)
           /\ \/ s \notin hasItem /\ UNCHANGED portList
              \/ \E q : Put(s, q) /\ q.state = "stopped"
    <2>1. CASE StopPort
      BY <1>4, <1>5, <2>1 DEF StopPort
    <2>2. CASE StopResumes
      BY <1>5, <2>2 DEF StopResumes
    <2> HIDE DEF p
    <2> QED
      BY <2>1, <2>2
  <1>7. CASE AdminAt("stopWaits", s, admin.force) /\ UNCHANGED state /\ s \in hasItem /\ Put(s, RequestLast(p))
    <2>1. admin'.at = "stopWaits" /\ admin'.slot = s /\ \A i \in hasItem : portList'[i].state = portList[i].state
      BY <1>1, <1>5, <1>7 DEF AdminAt, Put
    <2> QED
      BY <1>1, <1>2, <1>7, <2>1 DEF FitInv, Fits, Fitting
  <1>8. CASE /\ NextToStop(s, admin.force)
             /\ \/ s \notin hasItem /\ UNCHANGED portList
                \/ \E q : Put(s, q) /\ q.state = "stopped"
    <2>1. \A i \in hasItem : IF i = s THEN portList'[i].state = "stopped" ELSE portList'[i] = portList[i]
      BY <1>1, <1>8 DEF Put
    <2>2. CASE s = End
      <3>1. state' = "stopped" /\ admin'.at = "join"
        BY <1>8, <2>2 DEF NextToStop, AdminAt
      <3>2. \A i \in hasItem : i # s => i < s
        BY <1>1, <2>2 DEF Slot, End
      <3> QED
        BY <1>1, <1>2, <2>1, <3>1, <3>2 DEF FitInv, Fits, Fitting
    <2>3. CASE s # End
      <3>1. state' = state /\ admin'.at = "stop" /\ admin'.slot = s + 1
        BY <1>8, <2>3 DEF NextToStop, AdminAt
      <3>2. \A i \in hasItem : i < s + 1 <=> i < s \/ i = s
        BY <1>1 DEF Slot
      <3> QED
        BY <1>1, <1>2, <2>1, <3>1, <3>2 DEF FitInv, Fits, Fitting
    <2> QED
      BY <2>2, <2>3
  <1> QED
    BY <1>6, <1>7, <1>8

\* One step per operation.
LEMMA FitStep ==
  ASSUME Prompt, ~RegisterFails, TypeOK, AdminInv, PlaceInv, FitInv, [Next]_vars
  PROVE  FitInv'
  <1>1. /\ portList \in [Slot -> PortType] /\ hasItem \subseteq Slot /\ admin.slot \in Slot
    BY DEF TypeOK
  <1>2. CASE JavaNext \/ NativeNext
    BY <1>2, WorkersFit
  <1>3. CASE Initialize \/ RegisterAtServer \/ StartAndRun \/ Shutdown
    BY <1>3, AllFit
  <1>4. CASE StopPort \/ StopResumes
    BY <1>4, StopsFit
  <1>5. CASE Join \/ Stop \/ Deactivate \/ EndAwaited
    <2>1. UNCHANGED <<portList, hasItem, state>>
      BY <1>5 DEF Join, Stop, Deactivate, EndAwaited
    <2>2. admin.at \notin {"take", "stop", "stopWaits"}
      BY <1>5 DEF Join, Stop, Deactivate, EndAwaited, Idle
    <2>3. \/ admin'.at \notin {"take", "stop", "stopWaits"}
          \/ admin'.at = "stop" /\ admin'.slot = 0
      BY <1>5, <2>2 DEF Join, Stop, Deactivate, EndAwaited, Home, AdminAt
    <2>4. \A i \in hasItem : ~(i < 0)
      BY <1>1 DEF Slot
    <2> QED
      BY <2>1, <2>2, <2>3, <2>4 DEF FitInv, Fits, Fitting
  <1>6. ASSUME NEW output \in BOOLEAN, AddPort(output) PROVE FitInv'
    <2> DEFINE n == Initialized(NewPort(output))
               q == registerAndStart(n)
    <2>1. PICK j \in Slot \ hasItem : /\ Put(j, q) /\ hasItem' = hasItem \cup {j}
                                      /\ UNCHANGED <<state, admin>> /\ admin.at = "idle"
      BY <1>6, AddedPort
    <2>2. state \in {"created", "initialized", "registered", "running"}
      BY <1>6 DEF AddPort
    <2>3. n \in PortType /\ n.state = "initialized"
      <3>1. NewPort(output) \in PortType
        BY NewPortFields DEF Fields
      <3> QED
        BY <3>1, InitializedFields DEF Fields
    <2> HIDE DEF n
    <2>4. Registered(n) \in PortType /\ Registered(n).state = "registered"
      BY <2>3, RegisteredFields DEF Fields
    <2>5. Started(Registered(n)).state = "running"
      BY <2>4, StartedFields DEF Fields
    <2>6. q.state \in Fitting
      BY <2>2, <2>3, <2>4, <2>5 DEF registerAndStart, Fitting
    <2> HIDE DEF q
    <2> QED
      BY <1>1, <2>1, <2>6 DEF FitInv, Fits, Fitting, Put
  <1>7. ASSUME NEW j \in Slot, RemovePort(j) PROVE FitInv'
    <2> DEFINE p == portList[j]
    <2>1. p \in PortType /\ RequestLast(p) \in PortType /\ RequestLast(p).state = p.state
      BY <1>1, RequestLastFields DEF Fields
    <2>2. Deletable(RequestLast(p)).state = "deletable"
      BY <2>1, DeletableFields DEF Fields
    <2>3. /\ UNCHANGED <<hasItem, state>> /\ admin.at = "idle" /\ j \in hasItem
          /\ \/ Put(j, Deletable(RequestLast(p))) /\ admin'.at = "take" /\ admin'.slot = j
             \/ Put(j, RequestLast(p)) /\ admin'.at = "removeWaits"
      BY <1>7 DEF RemovePort, AdminAt, Idle
    <2> HIDE DEF p
    <2> QED
      BY <1>1, <2>1, <2>2, <2>3 DEF FitInv, Fits, Fitting, Put, p
  <1>8. CASE RemoveResumes
    <2>1. Deletable(portList[admin.slot]).state = "deletable"
      BY <1>1, DeletableFields DEF Fields
    <2>2. /\ UNCHANGED <<hasItem, state>> /\ admin.at = "removeWaits"
          /\ Put(admin.slot, Deletable(portList[admin.slot])) /\ admin'.at = "take" /\ admin'.slot = admin.slot
      BY <1>8 DEF RemoveResumes, AdminAt
    <2> QED
      BY <1>1, <2>1, <2>2 DEF FitInv, Fits, Fitting, Put
  <1>9. CASE Take
    <2>1. /\ Put(admin.slot, NoItem) /\ hasItem' = hasItem \ {admin.slot} /\ state' = state
          /\ admin.at = "take" /\ admin'.at = "idle"
      BY <1>9 DEF Take, Home, AdminAt
    <2> QED
      BY <1>1, <2>1 DEF FitInv, Fits, Fitting, Put
  <1>10. CASE UNCHANGED vars
    BY <1>10 DEF vars, FitInv, Fits, Fitting
  <1> QED
    BY <1>2, <1>3, <1>4, <1>5, <1>6, <1>7, <1>8, <1>9, <1>10 DEF Next, AdminContinues, AdminBegins

\* Between the administrator's operations every port is in a state compatible with the
\* chain's, if no timed wait expires early and the audio server registers every port.
THEOREM ChainPortsFit ==
  ASSUME Prompt, ~RegisterFails
  PROVE  Spec => []PortsFitChain
  <1>1. Init => FitInv
    BY DEF Init, FitInv
  <1>2. StepInv /\ FitInv /\ [Next]_vars => FitInv'
    BY FitStep DEF StepInv, ChainInv
  <1>3. FitInv => PortsFitChain
    BY DEF FitInv, Fits, Fitting, PortsFitChain, Idle
  <1> QED
    BY <1>1, <1>2, <1>3, StepInvariant, PTL DEF Spec

----------------------------------------------------------------------------
(* Turns.  What holds whether or not the walks are in step: the process thread waits only for  *)
(* turns that it has opened, and a port is taken out or stopped only in a state that allows it. *)

\* The process thread has opened a cycle of port i and not yet come to it in its second walk.
ToCome(i) == (native.at = "init" /\ i < native.slot) \/ (InRound /\ i >= native.slot)

PortTurns(i) == Runs(i) => Sub(i) # "none" /\ (ToCome(i) => Sub(i) \in Opened(i))

\* The blocked workers wait for a turn.
WaitsForTurn ==
  /\ native.at = "blocked" /\ Runs(native.slot) => Sub(native.slot) \notin Rested
  /\ java.at = "blocked" /\ Runs(java.slot) => Sub(java.slot) # "started"

\* The port that the administrator works on.
AdminsPort ==
  /\ admin.at = "take" => portList[admin.slot].state = "deletable"
  /\ admin.at = "stopWaits" =>
       admin.slot \in hasItem /\ portList[admin.slot].state \in {"running", "stoppedOnError"}

TurnsInv == (\A i \in Slot : PortTurns(i)) /\ WaitsForTurn /\ AdminsPort

\* The Java worker's turn leaves a port where the process thread expects it.
LEMMA TurnsJava ==
  ASSUME TypeOK, PlaceInv, TurnsInv, JavaNext
  PROVE  (\A i \in Slot : PortTurns(i)') /\ WaitsForTurn'
  <1>1. /\ portList \in [Slot -> PortType] /\ java.slot \in Slot /\ java.last \in BOOLEAN
        /\ native.slot \in Slot /\ UNCHANGED native
    BY PlacesChange DEF TypeOK, Next
  <1>2. CASE UNCHANGED portList
    <2>1. \A i \in Slot : PortTurns(i)'
      BY <1>1, <1>2 DEF TurnsInv, PortTurns, ToCome, InRound, Opened, Runs, Sub
    <2>2. (java.at = "blocked" /\ Runs(java.slot) => Sub(java.slot) # "started")'
      BY <1>2 DEF JavaNext, JavaWaits, JavaLoops, JavaVisits, JavaResumes, JavaSkips, JavaCalls,
             JavaNextSlot, JavaAt, JavaIgnores, Runs, Sub
    <2> QED
      BY <1>1, <1>2, <2>1, <2>2 DEF TurnsInv, WaitsForTurn, Runs, Sub
  <1>3. CASE JavaReady(portList[java.slot]) /\ JavaCalls
    <2> PICK i \in Slot : i = java.slot
      BY <1>1
    <2> DEFINE p == portList[i]
               q == portList'[i]
    <2>1. /\ \A j \in Slot : j # i => portList'[j] = portList[j]
          /\ \/ q = JavaEnds(JavaBegins(p, java.last))
             \/ q = emergencyStop(JavaBegins(p, java.last), "java")
          /\ java'.at # "blocked"
      BY <1>1, <1>3 DEF JavaCalls, Put, JavaNextSlot, JavaAt
    <2>2. p \in PortType /\ Runs(i) /\ Sub(i) = "javaToExec"
      BY <1>1, <1>3 DEF JavaReady, Runs, Sub
    <2>3. Runs(i)' => /\ q.output = p.output
                      /\ Sub(i)' \in IF p.output THEN {"nativeToTerminate", "nativeToExec"}
                                                 ELSE {"terminated", "cycleDone"}
      <3>1. CASE q = JavaEnds(JavaBegins(p, java.last))
        BY <1>1, <1>3, <2>2, <3>1, JavaTurn DEF Sub
      <3>2. CASE q = emergencyStop(JavaBegins(p, java.last), "java")
        BY <1>1, <2>2, <3>2, WorkersStartNothing DEF Runs, Cause
      <3> QED
        BY <2>1, <3>1, <3>2
    <2>4. ToCome(i) => p.output
      BY <2>2 DEF TurnsInv, PortTurns, Opened
    <2>5. \A j \in Slot : ToCome(j)' = ToCome(j)
      BY <1>1 DEF ToCome, InRound
    <2>6. PortTurns(i)'
      BY <2>3, <2>4, <2>5 DEF PortTurns, Opened
    <2>7. \A j \in Slot : j # i => PortTurns(j)'
      BY <2>1, <2>5 DEF TurnsInv, PortTurns, Opened, Runs, Sub
    <2>8. native.at = "blocked" => ToCome(native.slot)
      BY <1>1 DEF ToCome, InRound, Slot
    <2>9. native'.at = "blocked" /\ Runs(native.slot)' => Sub(native.slot)' \notin Rested
      <3>1. CASE native.slot = i
        BY <1>1, <2>3, <2>4, <2>8, <3>1 DEF Rested
      <3>2. CASE native.slot # i
        BY <1>1, <2>1, <3>2 DEF TurnsInv, WaitsForTurn, Runs, Sub
      <3> QED
        BY <3>1, <3>2
    <2> QED
      BY <1>1, <2>1, <2>6, <2>7, <2>9 DEF WaitsForTurn
  <1> QED
    BY <1>2, <1>3 DEF JavaNext, JavaWaits, JavaLoops, JavaVisits, JavaResumes, JavaSkips

\* The first walk opens a cycle, or finds the port terminated.
LEMMA TurnsInit ==
  ASSUME TypeOK, PlaceInv, TurnsInv, NativeInits
  PROVE  (\A i \in Slot : PortTurns(i)') /\ WaitsForTurn'
  <1> PICK i \in Slot : i = native.slot
    BY DEF TypeOK
  <1> DEFINE p == portList[i]
             q == portList'[i]
  <1>1. /\ portList \in [Slot -> PortType] /\ p \in PortType /\ java.slot \in Slot
        /\ UNCHANGED java /\ native.at = "init"
        /\ IF i = End THEN native'.at = "process" /\ native'.slot = 0
                      ELSE native'.at = "init" /\ native'.slot = i + 1
    BY DEF TypeOK, NativeInits, NativeAt
  <1>2. q = execNativeCycleInit(p) /\ \A j \in Slot : j # i => portList'[j] = portList[j]
    <2>1. CASE i \in hasItem
      BY <1>1, <2>1 DEF NativeInits, Put
    <2>2. CASE i \notin hasItem
      <3>1. ~Running(p) /\ UNCHANGED portList
        BY <2>2 DEF PlaceInv, Runs, NativeInits
      <3> QED
        BY <3>1 DEF execNativeCycleInit
    <2> QED
      BY <2>1, <2>2
  <1>3. Runs(i)' => Sub(i)' \in {"terminated", IF q.output THEN "javaToExec" ELSE "nativeToExec"}
    <2>1. CASE ~Running(p) \/ p.substate = "terminated"
      BY <1>2, <2>1 DEF execNativeCycleInit, Runs, Sub
    <2>2. CASE Running(p) /\ p.substate # "terminated" /\ ~AcceptsInit(p)
      BY <1>1, <1>2, <2>2, ErrorTurn DEF execNativeCycleInit, Runs, Cause
    <2>3. CASE Running(p) /\ p.substate # "terminated" /\ AcceptsInit(p)
      BY <1>1, <1>2, <2>3, ExecNativeCycleInitFields DEF Fields, Sub
    <2> QED
      BY <2>1, <2>2, <2>3
  <1>4. \A j \in Slot : ToCome(j)' /\ j # i => ToCome(j)
    <2>1. \A j \in Slot : j < i + 1 \/ i = End => j < i \/ j = i
      BY DEF Slot, End
    <2> QED
      BY <1>1, <2>1 DEF ToCome, InRound
  <1>5. PortTurns(i)'
    BY <1>3 DEF PortTurns, Opened
  <1>6. \A j \in Slot : j # i => PortTurns(j)'
    BY <1>2, <1>4 DEF TurnsInv, PortTurns, Opened, Runs, Sub
  <1>7. java.at = "blocked" /\ Runs(java.slot)' => Sub(java.slot)' # "started"
    BY <1>1, <1>2, <1>3 DEF TurnsInv, WaitsForTurn, Runs, Sub
  <1> QED
    BY <1>1, <1>5, <1>6, <1>7 DEF WaitsForTurn

\* A round begins.
LEMMA TurnsBegin ==
  ASSUME TypeOK, TurnsInv, NativeBegins
  PROVE  (\A i \in Slot : PortTurns(i)') /\ WaitsForTurn'
  <1>1. UNCHANGED <<portList, java>> /\ native'.at = "init" /\ native'.slot = 0
    BY DEF NativeBegins, NativeAt
  <1>2. \A i \in Slot : ~ToCome(i)'
    BY <1>1 DEF ToCome, InRound, Slot
  <1> QED
    BY <1>1, <1>2 DEF TurnsInv, PortTurns, WaitsForTurn, Runs, Sub

\* The second walk leaves a port behind, or waits for it.
LEMMA TurnsWalk ==
  ASSUME TypeOK, PlaceInv, TurnsInv, NativeVisits \/ NativeResumes
  PROVE  (\A i \in Slot : PortTurns(i)') /\ WaitsForTurn'
  <1> PICK i \in Slot : i = native.slot
    BY DEF TypeOK
  <1> DEFINE p == portList[i]
             q == portList'[i]
  <1>1. /\ portList \in [Slot -> PortType] /\ p \in PortType /\ java.slot \in Slot
        /\ UNCHANGED java /\ InRound /\ ToCome(i)
    BY DEF TypeOK, NativeVisits, NativeResumes, InRound, ToCome, Slot
  <1>2. CASE UNCHANGED portList /\ native'.at = "blocked" /\ native'.slot = i /\ ~NativeIgnores(p)
    <2>1. \A j \in Slot : ToCome(j)' = ToCome(j)
      BY <1>1, <1>2 DEF ToCome, InRound
    <2>2. Runs(i) => Sub(i) \notin Rested
      BY <1>1, <1>2 DEF NativeIgnores, TurnsInv, PortTurns, Opened, Rested, Runs, Sub
    <2> QED
      BY <1>1, <1>2, <2>1, <2>2 DEF TurnsInv, PortTurns, WaitsForTurn, Opened, Runs, Sub
  <1>3. CASE NativeNextSlot /\ (\/ UNCHANGED portList
                                \/ NativeReady(p) /\ Put(i, NativeEnds(p))
                                \/ \E c \in {"illegal", "native"} : Put(i, emergencyStop(p, c)))
    <2>1. native'.at # "blocked" /\ \A j \in Slot : ToCome(j)' => ToCome(j) /\ j # i
      <3>1. \A j \in Slot : j >= i + 1 => j >= i /\ j # i
        BY DEF Slot
      <3> QED
        BY <1>1, <1>3, <3>1 DEF NativeNextSlot, NativeAt, ToCome, InRound
    <2>2. \A j \in Slot : j # i => portList'[j] = portList[j]
      BY <1>1, <1>3 DEF Put
    <2>3. Runs(i)' => q = p \/ Sub(i)' \in {"javaToExec", "terminated", "cycleDone"}
      <3>1. CASE NativeReady(p) /\ Put(i, NativeEnds(p))
        BY <1>1, <3>1, NativeTurn DEF Put, Sub
      <3>2. CASE \E c \in {"illegal", "native"} : Put(i, emergencyStop(p, c))
        BY <1>1, <3>2, ErrorTurn DEF Put, Runs, Cause
      <3> QED
        BY <1>3, <3>1, <3>2
    <2>4. \A j \in Slot : PortTurns(j)'
      BY <2>1, <2>2, <2>3 DEF TurnsInv, PortTurns, Opened, Runs, Sub
    <2>5. java.at = "blocked" /\ Runs(java.slot)' => Sub(java.slot)' # "started"
      BY <1>1, <2>2, <2>3 DEF TurnsInv, WaitsForTurn, Runs, Sub
    <2> QED
      BY <1>1, <2>1, <2>4, <2>5 DEF WaitsForTurn
  <1> QED
    BY <1>2, <1>3 DEF NativeVisits, NativeResumes, NativeSkips, NativeWorks, NativeAt

\* The administrator disturbs no turn: a port that runs goes on as it was, or has just been
\* started, in a slot that was empty or in a chain that was not yet active.
LEMMA AdminKeepsTurns ==
  ASSUME TypeOK, AdminContinues \/ AdminBegins \/ UNCHANGED vars, NEW i \in Slot, Runs(i)'
  PROVE  \/ Runs(i) /\ Sub(i)' = Sub(i) /\ portList'[i].output = portList[i].output
         \/ Sub(i)' = "started" /\ (i \notin hasItem \/ StartAndRun)
  <1>1. portList \in [Slot -> PortType] /\ admin.slot \in Slot /\ portList[i] \in PortType
    BY DEF TypeOK
  <1>2. CASE UNCHANGED portList
    BY <1>2 DEF Runs, Sub
  <1>3. CASE StopPort \/ StopResumes \/ RemoveResumes \/ (\E j \in Slot : RemovePort(j))
    BY <1>3, StopsMovePort DEF Calm, Runs, Sub
  <1>4. CASE Take
    <2>1. portList'[i] = portList[i] \/ portList'[i] = NoItem
      BY <1>1, <1>4 DEF Take, Put
    <2> QED
      BY <2>1, NewPortMoves DEF Runs, Sub, NoItem
  <1>5. ASSUME NEW output \in BOOLEAN, AddPort(output)
        PROVE  \/ Runs(i) /\ Sub(i)' = Sub(i) /\ portList'[i].output = portList[i].output
               \/ Sub(i)' = "started" /\ i \notin hasItem
    <2>1. PICK j \in Slot \ hasItem : Put(j, registerAndStart(Initialized(NewPort(output))))
      BY <1>5, AddedPort
    <2> QED
      BY <1>1, <2>1, NewPortMoves DEF Put, Runs, Sub
  <1>6. CASE Initialize
    <2>1. portList'[i] \in {portList[i], Initialized(NewPort(FALSE)), Initialized(NewPort(TRUE))}
      BY <1>1, <1>6, Ends DEF Initialize, Put
    <2> QED
      BY <2>1, NewPortMoves DEF Runs, Sub
  <1>7. CASE RegisterAtServer
    <2>1. portList'[i] = portList[i] \/ portList'[i] = Registered(portList[i])
      BY <1>7 DEF RegisterAtServer
    <2> QED
      BY <1>1, <2>1, LifecycleCalm DEF Calm, Runs, Sub
  <1>8. CASE StartAndRun
    <2>1. portList'[i] = portList[i] \/ portList'[i] = Started(portList[i])
      BY <1>8 DEF StartAndRun
    <2> QED
      BY <1>1, <1>8, <2>1, StartedFields DEF Fields, Runs, Sub
  <1>9. CASE Shutdown
    <2>1. PICK u : /\ u = portList[i] \/ u = Unregistered(portList[i])
                   /\ portList'[i] = u \/ portList'[i] = Uninitialized(u)
      <3>1. PICK limit \in Refusal :
         LET registered == state \in {"registered", "stopped"}
             list == [j \in Slot |->
                        IF registered /\ j \in Reached(portList, {"registered", "stopped"}, limit)
                        THEN Unregistered(portList[j]) ELSE portList[j]]
             last == Reached(list, {"initialized", "unregistered"}, MAX_PORTS) IN
         \/ portList' = list
         \/ portList' = [j \in Slot |-> IF j \in last THEN Uninitialized(list[j]) ELSE list[j]]
        BY <1>9 DEF Shutdown
      <3> QED
        BY <3>1
    <2>2. u \in PortType /\ Calm(portList[i], u)
      BY <1>1, <2>1, UnregisteredFields, LifecycleCalm DEF Fields, Calm
    <2>3. Calm(u, portList'[i])
      BY <2>1, <2>2, LifecycleCalm DEF Calm
    <2> QED
      BY <2>2, <2>3, CalmTwice DEF Calm, Runs, Sub
  <1> QED
    BY <1>2, <1>3, <1>4, <1>5, <1>6, <1>7, <1>8, <1>9
    DEF AdminContinues, AdminBegins, EndAwaited, Join, Stop, Deactivate, vars

LEMMA TurnsAdmin ==
  ASSUME TypeOK, LeaseInv, PlaceInv, TurnsInv, AdminContinues \/ AdminBegins \/ UNCHANGED vars
  PROVE  (\A i \in Slot : PortTurns(i)') /\ WaitsForTurn'
  <1>1. UNCHANGED native /\ (UNCHANGED java \/ java'.at = "wait") /\ (StartAndRun => java'.at = "wait")
        /\ native.slot \in Slot /\ java.slot \in Slot /\ (StartAndRun => native.at = "idle")
    <2>1. AdminContinues \/ UNCHANGED vars => UNCHANGED <<java, native>> /\ ~StartAndRun
      BY DEF AdminContinues, RemoveResumes, Take, EndAwaited, StopPort, StopResumes, Join, vars,
             StartAndRun, Idle
    <2>2. StartAndRun => UNCHANGED native /\ java'.at = "wait" /\ native.at = "idle"
      BY DEF StartAndRun, JavaAt, PlaceInv
    <2>3. AdminBegins /\ ~StartAndRun => UNCHANGED <<java, native>>
      BY DEF AdminBegins, Initialize, RegisterAtServer, Stop, Deactivate, Shutdown, AddPort, RemovePort
    <2> QED
      BY <2>1, <2>2, <2>3 DEF TypeOK
  <1>2. ASSUME NEW i \in Slot PROVE PortTurns(i)'
    BY <1>1, <1>2, AdminKeepsTurns DEF TurnsInv, PortTurns, ToCome, InRound, Opened
  <1>3. native'.at = "blocked" /\ Runs(native.slot)' => Sub(native.slot)' \notin Rested
    BY <1>1, AdminKeepsTurns DEF TurnsInv, WaitsForTurn, LeaseInv
  <1>4. (java.at = "blocked" /\ Runs(java.slot) => Sub(java.slot) # "started")'
    BY <1>1, AdminKeepsTurns DEF TurnsInv, WaitsForTurn, LeaseInv
  <1> QED
    BY <1>1, <1>2, <1>3, <1>4 DEF WaitsForTurn

\* removePort and stop find their port again as they have left it, or stopped by an error.
LEMMA AdminsPortStep ==
  ASSUME TypeOK, AdminInv, PlaceInv, AdminsPort, [Next]_vars
  PROVE  AdminsPort'
  <1>1. portList \in [Slot -> PortType] /\ admin.slot \in Slot
    BY DEF TypeOK
  <1>2. CASE JavaNext \/ NativeNext
    <2>1. UNCHANGED <<admin, hasItem>>
      BY <1>2 DEF JavaNext, JavaWaits, JavaLoops, JavaVisits, JavaResumes,
         NativeNext, NativeBegins, NativeInits, NativeVisits, NativeResumes
    <2> QED
      BY <1>1, <1>2, <2>1, WorkersPut DEF AdminsPort, Put, Running
  <1>3. CASE RemoveResumes \/ (\E i \in Slot : RemovePort(i))
    <2>1. \A p \in PortType : Deletable(p).state = "deletable" /\ RequestLast(p) \in PortType
      BY DeletableFields, RequestLastFields DEF Fields
    <2>2. admin'.at = "take" => portList'[admin'.slot].state = "deletable"
      BY <1>1, <1>3, <2>1 DEF RemoveResumes, RemovePort, Put, AdminAt
    <2>3. admin'.at # "stopWaits"
      BY <1>3 DEF RemoveResumes, RemovePort, AdminAt
    <2> QED
      BY <2>2, <2>3 DEF AdminsPort
  <1>4. CASE StopPort
    <2>1. admin'.at # "take"
      BY <1>4 DEF StopPort, NextToStop, AdminAt, Home
    <2>2. CASE admin'.at = "stopWaits"
      <3>1. /\ admin.slot \in hasItem /\ Put(admin.slot, RequestLast(portList[admin.slot]))
            /\ Running(portList[admin.slot]) /\ admin'.slot = admin.slot /\ UNCHANGED hasItem
        BY <1>4, <2>2 DEF StopPort, NextToStop, AdminAt, Home, HasEnded
      <3>2. portList'[admin.slot].state = "running"
        BY <1>1, <3>1, RequestLastFields DEF Put, Fields, Running
      <3> QED
        BY <2>1, <3>1, <3>2 DEF AdminsPort
    <2> QED
      BY <2>1, <2>2 DEF AdminsPort
  <1>5. CASE StopResumes
    <2>1. admin'.at \notin {"take", "stopWaits"}
      BY <1>5 DEF StopResumes, NextToStop, AdminAt
    <2> QED
      BY <2>1 DEF AdminsPort
  <1>6. CASE UNCHANGED vars
    BY <1>6 DEF AdminsPort, vars
  <1>7. CASE Take \/ EndAwaited \/ Join \/ (AdminBegins /\ ~\E i \in Slot : RemovePort(i))
    <2>1. Take \/ EndAwaited \/ Join \/ Stop => admin'.at \notin {"take", "stopWaits"}
      BY DEF Take, EndAwaited, Join, Stop, Home, AdminAt
    <2>2. Initialize \/ RegisterAtServer \/ StartAndRun \/ Deactivate \/ Shutdown => admin'.at = "idle"
      BY DEF Initialize, RegisterAtServer, StartAndRun, Deactivate, Shutdown, Idle
    <2>3. (\E output \in BOOLEAN : AddPort(output)) => admin'.at = "idle"
      BY DEF AddPort, Idle
    <2> QED
      BY <1>7, <2>1, <2>2, <2>3 DEF AdminsPort, AdminBegins
  <1> QED
    BY <1>2, <1>3, <1>4, <1>5, <1>6, <1>7 DEF Next, AdminContinues

LEMMA TurnsStep == StepInv /\ TurnsInv /\ [Next]_vars => TurnsInv'
  BY TurnsJava, TurnsInit, TurnsWalk, TurnsAdmin, AdminsPortStep, TurnsBegin
  DEF StepInv, ChainInv, TurnsInv, Next, NativeNext

LEMMA InitTurnsInv == Init => TurnsInv
  <1> SUFFICES ASSUME Init PROVE TurnsInv
    OBVIOUS
  <1>1. ~Running(NoItem)
    BY NewPortMoves DEF NoItem
  <1>2. \A i \in Slot : PortTurns(i)
    BY <1>1 DEF Init, PortTurns, Runs
  <1> QED
    BY <1>2 DEF Init, TurnsInv, WaitsForTurn, AdminsPort

\* The turns are kept, in step or not.
THEOREM TurnsInvariant == Spec => [](StepInv /\ TurnsInv)
  <1>1. Init => TurnsInv
    BY InitTurnsInv
  <1> QED
    BY <1>1, TurnsStep, StepInvariant, PTL DEF Spec

----------------------------------------------------------------------------
(* The port in each slot implements PortLife. *)

\* In this step nothing happens in slot i.
Rests(i) == (i \in hasItem' <=> i \in hasItem) /\ (i \in hasItem => portList'[i] = portList[i])

\* A step that is one of the port's life, or none.
Lives(i) == [PortIn(i)!Next]_(PortIn(i)!vars)

LEMMA RestsLives == ASSUME NEW i \in Slot, Rests(i) PROVE Lives(i)
  BY DEF Rests, Lives, PortIn!vars

\* The Java worker's turn.
LEMMA JavaLives ==
  ASSUME TypeOK, JavaNext, NEW i \in Slot
  PROVE  Lives(i)
  <1>1. /\ portList \in [Slot -> PortType] /\ java.slot \in Slot /\ java.last \in BOOLEAN
        /\ UNCHANGED hasItem
    BY PlacesChange DEF TypeOK, Next
  <1>2. Rests(i) \/ (i \in hasItem /\ i = java.slot /\ JavaReady(portList[i]) /\ JavaCalls)
    BY <1>1 DEF Rests, JavaNext, JavaWaits, JavaLoops, JavaVisits, JavaResumes, JavaSkips, JavaCalls, Put
  <1>3. ASSUME i \in hasItem, i = java.slot, JavaReady(portList[i]), JavaCalls
        PROVE  Lives(i)
    <2> DEFINE p == portList[i]
               b == JavaBegins(p, java.last)
               q == portList'[i]
    <2>1. p \in PortType /\ q \in {JavaEnds(b), emergencyStop(b, "java")}
      BY <1>1, <1>3 DEF JavaCalls, Put
    <2>2. Fields(b, p.output, p.state, p.substate, p.lastCycle \/ java.last, p.processException)
      BY <1>1, <2>1, JavaBeginsFields
    <2> HIDE DEF b
    <2>3. CASE q = JavaEnds(b)
      <3>1. Fields(q, b.output, b.state,
                   IF b.lastCycle THEN (IF b.output THEN "nativeToTerminate" ELSE "terminated")
                                  ELSE (IF b.output THEN "nativeToExec" ELSE "cycleDone"),
                   b.lastCycle, b.processException)
        BY <2>2, <2>3, JavaEndsFields DEF Fields
      <3> HIDE DEF q
      <3>2. /\ Running(p) /\ p.substate = "javaToExec" /\ q.output = p.output /\ q.state = p.state
            /\ q.lastCycle \in {p.lastCycle, TRUE}
            /\ q.substate = IF q.lastCycle THEN (IF p.output THEN "nativeToTerminate" ELSE "terminated")
                                           ELSE (IF p.output THEN "nativeToExec" ELSE "cycleDone")
        BY <1>1, <1>3, <2>2, <3>1 DEF Fields, JavaReady, PortType
      <3>3. PortIn(i)!JavaTurn
        BY <1>1, <1>3, <3>2 DEF PortIn!JavaTurn, PortIn!Running, Running, q
      <3> QED
        BY <3>3 DEF Lives, PortIn!Next
    <2>4. CASE q = emergencyStop(b, "java")
      <3>1. Fields(q, b.output, "stoppedOnError", "none", b.lastCycle, FirstOf(b, "java"))
        BY <2>2, <2>4, EmergencyStopFields DEF Fields, Cause
      <3> HIDE DEF q
      <3>2. /\ Running(p) /\ p.substate = "javaToExec" /\ q.output = p.output
            /\ q.lastCycle \in {p.lastCycle, TRUE} /\ q.state = "stoppedOnError" /\ q.substate = "none"
        BY <1>1, <1>3, <2>2, <3>1 DEF Fields, JavaReady, PortType
      <3>3. PortIn(i)!Fail
        BY <1>1, <1>3, <3>2 DEF PortIn!Fail, PortIn!Running, Running, q
      <3> QED
        BY <3>3 DEF Lives, PortIn!Next
    <2> QED
      BY <2>1, <2>3, <2>4
  <1> QED
    BY <1>2, <1>3, RestsLives

\* An error ends the port's turn, which was due.
LEMMA ErrorLives ==
  ASSUME TypeOK, NEW i \in hasItem, i \in hasItem', NEW c \in Cause,
         portList'[i] = emergencyStop(portList[i], c), Runs(i),
         Sub(i) \in {"javaToExec", "nativeToExec", "nativeToTerminate"}
  PROVE  Lives(i)
  <1> DEFINE p == portList[i]
             q == portList'[i]
  <1>1. p \in PortType
    BY DEF TypeOK
  <1>2. Fields(q, p.output, "stoppedOnError", "none", p.lastCycle, FirstOf(p, c))
    BY <1>1, EmergencyStopFields
  <1>3. PortIn(i)!Fail
    BY <1>2 DEF Fields, PortIn!Fail, PortIn!Running, Runs, Running, Sub
  <1> QED
    BY <1>3 DEF Lives, PortIn!Next

\* The first walk opens a cycle, or ends a port that is not done with the last one.
LEMMA InitLives ==
  ASSUME TypeOK, TurnsInv, NativeInits, NEW i \in Slot
  PROVE  Lives(i)
  <1>1. portList \in [Slot -> PortType] /\ native.slot \in Slot /\ UNCHANGED hasItem
    BY DEF TypeOK, NativeInits
  <1> DEFINE p == portList[i]
             q == portList'[i]
  <1>2. Rests(i) \/ (i \in hasItem /\ q = execNativeCycleInit(p))
    BY <1>1 DEF Rests, NativeInits, Put
  <1>3. CASE i \in hasItem /\ q = execNativeCycleInit(p)
    <2>1. p \in PortType /\ (Running(p) => p.substate # "none")
      BY <1>1 DEF TurnsInv, PortTurns, Runs, Sub
    <2>2. CASE ~Running(p) \/ p.substate = "terminated"
      BY <1>1, <1>3, <2>2, RestsLives DEF execNativeCycleInit, Rests
    <2>3. CASE Running(p) /\ p.substate # "terminated" /\ ~AcceptsInit(p)
      <3>1. p.substate \in {"javaToExec", "nativeToExec", "nativeToTerminate"}
        BY <2>1, <2>3 DEF AcceptsInit, PortType, RunningSubState
      <3>2. q = emergencyStop(p, "illegal") /\ "illegal" \in Cause
        BY <1>3, <2>3 DEF execNativeCycleInit, Cause
      <3> QED
        BY <1>1, <1>3, <2>3, <3>1, <3>2, ErrorLives DEF Runs, Sub
    <2>4. CASE Running(p) /\ p.substate # "terminated" /\ AcceptsInit(p)
      <3>1. Fields(q, p.output, p.state, IF p.output THEN "javaToExec" ELSE "nativeToExec",
                   p.lastCycle, p.processException)
        BY <1>3, <2>1, <2>4, ExecNativeCycleInitFields
      <3>2. PortIn(i)!Open
        BY <1>1, <1>3, <2>4, <3>1 DEF Fields, AcceptsInit, PortIn!Open, PortIn!Running, Running
      <3> QED
        BY <3>2 DEF Lives, PortIn!Next
    <2> QED
      BY <2>2, <2>3, <2>4
  <1> QED
    BY <1>2, <1>3, RestsLives

\* The second walk takes the native turn of a port, or ends the port.
LEMMA WalkLives ==
  ASSUME TypeOK, PlaceInv, TurnsInv, NativeVisits \/ NativeResumes, NEW i \in Slot
  PROVE  Lives(i)
  <1>1. portList \in [Slot -> PortType] /\ native.slot \in Slot /\ UNCHANGED hasItem
    BY DEF TypeOK, NativeVisits, NativeResumes
  <1> DEFINE p == portList[i]
             q == portList'[i]
  <1>2. native.at = "blocked" => ~NativeRejects(portList[native.slot])
    BY <1>1 DEF TurnsInv, WaitsForTurn, PlaceInv, Rested, Runs, Sub, NativeRejects
  <1>3. \/ Rests(i)
        \/ /\ i \in hasItem /\ NativeReady(p)
           /\ \/ ~NativeIllegal(p) /\ q = NativeEnds(p)
              \/ \E c \in {"illegal", "native"} : q = emergencyStop(p, c)
    BY <1>1, <1>2 DEF Rests, NativeVisits, NativeResumes, NativeSkips, NativeWorks, Put
  <1>4. CASE i \in hasItem /\ NativeReady(p) /\ ~NativeIllegal(p) /\ q = NativeEnds(p)
    <2>1. Fields(q, p.output, p.state,
                 IF ~p.output THEN "javaToExec"
                 ELSE IF p.substate = "nativeToTerminate" THEN "terminated" ELSE "cycleDone",
                 p.lastCycle, p.processException)
      BY <1>1, <1>4, NativeEndsFields
    <2>2. PortIn(i)!NativeTurn
      BY <1>1, <1>4, <2>1 DEF Fields, NativeReady, NativeIllegal, PortIn!NativeTurn, PortIn!Running,
                             Running
    <2> QED
      BY <2>2 DEF Lives, PortIn!Next
  <1>5. ASSUME NEW c \in {"illegal", "native"}, i \in hasItem, NativeReady(p), q = emergencyStop(p, c)
        PROVE  Lives(i)
    BY <1>1, <1>5, ErrorLives DEF NativeReady, Runs, Sub, Cause
  <1> QED
    BY <1>3, <1>4, <1>5, RestsLives

----------------------------------------------------------------------------
(* The administrator's operations. *)

\* The end of a port is announced, and the port then stopped or shut down, or not yet.
LEMMA StopsLive ==
  ASSUME TypeOK, PlaceInv, AdminsPort,
         StopPort \/ StopResumes \/ RemoveResumes \/ (\E j \in Slot : RemovePort(j)), NEW i \in Slot
  PROVE  Lives(i)
  <1>1. portList \in [Slot -> PortType] /\ admin.slot \in Slot /\ UNCHANGED hasItem
    BY DEF TypeOK, StopPort, StopResumes, RemoveResumes, RemovePort
  <1> DEFINE p == portList[i]
             q == portList'[i]
             r == RequestLast(p)
  <1>2. \/ Rests(i)
        \/ /\ i \in hasItem
           /\ \/ q \in {r, Deletable(p), Deletable(r)}
              \/ q \in {StopEnds(p), StopEnds(r)} /\ p.state \in {"registered", "running", "stoppedOnError"}
              \/ q = StopAfterError(p) /\ p.state = "stoppedOnError"
    BY <1>1 DEF Rests, AdminsPort, StopPort, StopResumes, RemoveResumes, RemovePort, Put
  <1>3. p \in PortType /\ Fields(r, p.output, p.state, p.substate, TRUE, p.processException)
    BY <1>1, RequestLastFields
  <1> HIDE DEF r
  <1>4. CASE i \in hasItem /\ q = r
    <2>1. PortIn(i)!Announce
      BY <1>1, <1>3, <1>4 DEF Fields, PortIn!Announce
    <2> QED
      BY <2>1 DEF Lives, PortIn!Next
  <1>5. ASSUME i \in hasItem, NEW s \in {p, r}, q = Deletable(s) PROVE Lives(i)
    <2>1. s \in PortType /\ s.output = p.output /\ s.lastCycle \in {p.lastCycle, TRUE}
      BY <1>3, <1>5 DEF Fields
    <2>2. Fields(q, s.output, "deletable", "none", s.lastCycle, s.processException)
      BY <1>5, <2>1, DeletableFields
    <2>3. PortIn(i)!Shutdown
      BY <1>1, <1>5, <2>1, <2>2 DEF Fields, PortIn!Shutdown
    <2> QED
      BY <2>3 DEF Lives, PortIn!Next
  <1>6. ASSUME i \in hasItem, NEW s \in {p, r}, q = StopEnds(s),
               p.state \in {"registered", "running", "stoppedOnError"}
        PROVE  Lives(i)
    <2>1. s \in PortType /\ s.output = p.output /\ s.lastCycle \in {p.lastCycle, TRUE}
      BY <1>3, <1>6 DEF Fields
    <2>2. q.output = s.output /\ q.state = "stopped" /\ q.substate = "none" /\ q.lastCycle = s.lastCycle
      BY <1>6, <2>1, StopEndsFields DEF Fields
    <2>3. PortIn(i)!Stop
      BY <1>1, <1>6, <2>1, <2>2 DEF PortIn!Stop
    <2> QED
      BY <2>3 DEF Lives, PortIn!Next
  <1>7. CASE i \in hasItem /\ q = StopAfterError(p) /\ p.state = "stoppedOnError"
    <2>1. Fields(q, p.output, "stopped", p.substate, p.lastCycle, p.processException)
      BY <1>3, <1>7, StopAfterErrorFields
    <2>2. p.substate = "none"
      BY <1>7 DEF PlaceInv, Runs, Running, Sub
    <2>3. PortIn(i)!Stop
      BY <1>1, <1>7, <2>1, <2>2 DEF Fields, PortIn!Stop
    <2> QED
      BY <2>3 DEF Lives, PortIn!Next
  <1> QED
    BY <1>2, <1>4, <1>5, <1>6, <1>7, RestsLives

\* A port gets a slot, or leaves it.
LEMMA EnterLives ==
  ASSUME TypeOK, NEW i \in Slot \ hasItem, i \in hasItem', portList'[i] \in PortType,
         portList'[i].state \in {"initialized", "registered", "running"},
         portList'[i].substate = IF portList'[i].state = "running" THEN "started" ELSE "none",
         ~portList'[i].lastCycle
  PROVE  Lives(i)
  <1>1. PortIn(i)!Enter
    BY DEF PortIn!Enter, PortType
  <1> QED
    BY <1>1 DEF Lives, PortIn!Next

LEMMA EntersLive ==
  ASSUME TypeOK, Initialize \/ Take \/ (\E output \in BOOLEAN : AddPort(output)), AdminsPort,
         NEW i \in Slot
  PROVE  Lives(i)
  <1>1. portList \in [Slot -> PortType] /\ admin.slot \in Slot /\ Start \in Slot /\ End \in Slot
    BY Ends DEF TypeOK
  <1>2. CASE Initialize
    <2>1. ASSUME NEW o \in BOOLEAN, portList'[i] = Initialized(NewPort(o)), i \notin hasItem, i \in hasItem'
          PROVE  Lives(i)
      <3>1. NewPort(o) \in PortType /\ NewPort(o).substate = "none" /\ NewPort(o).lastCycle = FALSE
        BY NewPortFields DEF Fields
      <3>2. Fields(portList'[i], NewPort(o).output, "initialized", "none", FALSE,
                   NewPort(o).processException)
        BY <2>1, <3>1, InitializedFields
      <3> QED
        BY <2>1, <3>2, EnterLives DEF Fields
    <2>2. \/ Rests(i)
          \/ i \notin hasItem /\ i \in hasItem' /\ \E o \in BOOLEAN : portList'[i] = Initialized(NewPort(o))
      BY <1>1, <1>2, Ends DEF Initialize, Put, Rests
    <2> QED
      BY <2>1, <2>2, RestsLives
  <1>3. ASSUME NEW o \in BOOLEAN, AddPort(o) PROVE Lives(i)
    <2> DEFINE p == Initialized(NewPort(o))
               r == Registered(p)
    <2>1. PICK j \in Slot \ hasItem : Put(j, registerAndStart(p)) /\ hasItem' = hasItem \cup {j}
      BY <1>3, AddedPort
    <2>2. NewPort(o) \in PortType /\ NewPort(o).substate = "none" /\ NewPort(o).lastCycle = FALSE
      BY NewPortFields DEF Fields
    <2>3. p \in PortType /\ p.state = "initialized" /\ p.substate = "none" /\ ~p.lastCycle
      BY <2>2, InitializedFields DEF Fields
    <2> HIDE DEF p
    <2>4. r \in PortType /\ r.state = "registered" /\ r.substate = "none" /\ ~r.lastCycle
      BY <2>3, RegisteredFields DEF Fields
    <2> HIDE DEF r
    <2>5. /\ Started(r) \in PortType /\ Started(r).state = "running"
          /\ Started(r).substate = "started" /\ ~Started(r).lastCycle
      BY <2>4, StartedFields DEF Fields
    <2>6. registerAndStart(p) \in {p, r, Started(r)}
      BY DEF registerAndStart, r
    <2>7. i = j => portList'[i] \in {p, r, Started(r)} /\ i \notin hasItem /\ i \in hasItem'
      BY <1>1, <2>1, <2>6 DEF Put
    <2>8. i # j => Rests(i)
      BY <1>1, <2>1 DEF Put, Rests
    <2>9. CASE i = j
      BY <2>3, <2>4, <2>5, <2>7, <2>9, EnterLives
    <2> QED
      BY <2>8, <2>9, RestsLives
  <1>4. CASE Take
    <2>1. \/ Rests(i)
          \/ i = admin.slot /\ i \in hasItem /\ i \notin hasItem' /\ portList[i].state = "deletable"
      BY <1>1, <1>4 DEF Take, Put, Rests, AdminsPort
    <2>2. ASSUME i \in hasItem, i \notin hasItem', portList[i].state = "deletable" PROVE Lives(i)
      <3>1. PortIn(i)!Leave
        BY <2>2 DEF PortIn!Leave
      <3> QED
        BY <3>1 DEF Lives, PortIn!Next
    <2> QED
      BY <2>1, <2>2, RestsLives
  <1> QED
    BY <1>2, <1>3, <1>4

\* The operations on all the ports.
LEMMA AllLive ==
  ASSUME TypeOK, PlaceInv, RegisterAtServer \/ StartAndRun \/ Shutdown, NEW i \in Slot
  PROVE  Lives(i)
  <1>1. portList \in [Slot -> PortType] /\ UNCHANGED hasItem
    BY DEF TypeOK, RegisterAtServer, StartAndRun, Shutdown
  <1> DEFINE p == portList[i]
             q == portList'[i]
  <1>2. p \in PortType
    BY <1>1
  <1>3. CASE RegisterAtServer
    <2>1. Rests(i) \/ (i \in hasItem /\ p.state = "initialized" /\ q = Registered(p))
      BY <1>1, <1>3, ReachedState DEF RegisterAtServer, Rests
    <2>2. ASSUME i \in hasItem, p.state = "initialized", q = Registered(p) PROVE Lives(i)
      <3>1. Fields(q, p.output, "registered", p.substate, p.lastCycle, p.processException)
        BY <1>2, <2>2, RegisteredFields
      <3>2. PortIn(i)!RegisterAtServer
        BY <1>1, <2>2, <3>1 DEF Fields, PortIn!RegisterAtServer
      <3> QED
        BY <3>2 DEF Lives, PortIn!Next
    <2> QED
      BY <2>1, <2>2, RestsLives
  <1>4. CASE StartAndRun
    <2>1. Rests(i) \/ (i \in hasItem /\ p.state = "registered" /\ q = Started(p))
      BY <1>1, <1>4 DEF StartAndRun, AllIn, Rests
    <2>2. ASSUME i \in hasItem, p.state = "registered", q = Started(p) PROVE Lives(i)
      <3>1. Fields(q, p.output, "running", "started", p.lastCycle, p.processException)
        BY <1>2, <2>2, StartedFields
      <3>2. PortIn(i)!Start
        BY <1>1, <2>2, <3>1 DEF Fields, PortIn!Start
      <3> QED
        BY <3>2 DEF Lives, PortIn!Next
    <2> QED
      BY <2>1, <2>2, RestsLives
  <1>5. CASE Shutdown
    <2>1. PICK limit \in Refusal :
       LET registered == state \in {"registered", "stopped"}
           list == [j \in Slot |->
                      IF registered /\ j \in Reached(portList, {"registered", "stopped"}, limit)
                      THEN Unregistered(portList[j]) ELSE portList[j]]
           last == Reached(list, {"initialized", "unregistered"}, MAX_PORTS) IN
       \/ portList' = list
       \/ portList' = [j \in Slot |-> IF j \in last THEN Uninitialized(list[j]) ELSE list[j]]
      BY <1>5 DEF Shutdown
    <2> DEFINE registered == state \in {"registered", "stopped"}
               list == [j \in Slot |->
                          IF registered /\ j \in Reached(portList, {"registered", "stopped"}, limit)
                          THEN Unregistered(portList[j]) ELSE portList[j]]
               last == Reached(list, {"initialized", "unregistered"}, MAX_PORTS)
    <2>2. list[i] = p \/ (p.state \in {"registered", "stopped"} /\ list[i] = Unregistered(p))
      BY <1>1, ReachedState
    <2>3. i \in last => list[i].state \in {"initialized", "unregistered"}
      BY ReachedState
    <2>4. \/ portList' = list
          \/ portList' = [j \in Slot |-> IF j \in last THEN Uninitialized(list[j]) ELSE list[j]]
      BY <2>1
    <2> HIDE DEF list, last, registered
    <2>5. q = list[i] \/ (list[i].state \in {"initialized", "unregistered"} /\ q = Uninitialized(list[i]))
      BY <2>3, <2>4
    <2>6. CASE q = p
      BY <1>1, <2>6, RestsLives DEF Rests
    <2>7. ASSUME i \in hasItem, p.state \in {"registered", "stopped"}, q = Unregistered(p) PROVE Lives(i)
      <3>1. Fields(q, p.output, "unregistered", p.substate, p.lastCycle, p.processException)
        BY <1>2, <2>7, UnregisteredFields
      <3>2. PortIn(i)!UnregisterAtServer
        BY <1>1, <2>7, <3>1 DEF Fields, PortIn!UnregisterAtServer
      <3> QED
        BY <3>2 DEF Lives, PortIn!Next
    <2>8. ASSUME i \in hasItem, NEW u \in {p, Unregistered(p)}, q = Uninitialized(u),
                 p.state \in {"initialized", "registered", "stopped", "unregistered"}
          PROVE  Lives(i)
      <3>1. u \in PortType /\ u.output = p.output /\ u.substate = p.substate /\ u.lastCycle = p.lastCycle
        BY <1>2, <2>8, UnregisteredFields DEF Fields
      <3>2. Fields(q, u.output, "deletable", u.substate, u.lastCycle, u.processException)
        BY <2>8, <3>1, UninitializedFields
      <3>3. PortIn(i)!Uninitialize
        BY <1>1, <2>8, <3>1, <3>2 DEF Fields, PortIn!Uninitialize
      <3> QED
        BY <3>3 DEF Lives, PortIn!Next
    <2>9. CASE i \notin hasItem
      BY <1>1, <2>9, RestsLives DEF Rests
    <2> QED
      BY <2>2, <2>5, <2>6, <2>7, <2>8, <2>9
  <1> QED
    BY <1>3, <1>4, <1>5

\* Every step.
LEMMA EveryPortLives ==
  ASSUME TypeOK, PlaceInv, TurnsInv, [Next]_vars, NEW i \in Slot
  PROVE  Lives(i)
  <1>1. CASE NativeNext
    BY <1>1, InitLives, WalkLives, RestsLives DEF NativeNext, NativeBegins, Rests
  <1>2. CASE UNCHANGED <<portList, hasItem>>
    BY <1>2, RestsLives DEF Rests
  <1>3. EndAwaited \/ Join \/ Stop \/ Deactivate \/ UNCHANGED vars => UNCHANGED <<portList, hasItem>>
    BY DEF EndAwaited, Join, Stop, Deactivate, vars
  <1>4. AdminsPort
    BY DEF TurnsInv
  <1> QED
    BY <1>1, <1>2, <1>3, <1>4, JavaLives, StopsLive, EntersLive, AllLive
    DEF Next, AdminContinues, AdminBegins

\* The port in every slot is what Port shows a port to be: its main states come in order and its
\* turns alternate, one step each, whatever is added, removed, stopped or fails around it.
THEOREM ChainKeepsPortLife == Spec => KeepsPortLife
  <1>1. Init => \A i \in Slot : PortIn(i)!Init
    BY DEF Init, PortIn!Init
  <1>2. StepInv /\ TurnsInv /\ [Next]_vars => [\A i \in Slot : [PortIn(i)!Next]_(PortIn(i)!vars)]_vars
    BY EveryPortLives DEF StepInv, ChainInv, Lives
  <1> QED
    BY <1>1, <1>2, TurnsInvariant, PTL DEF Spec, KeepsPortLife

----------------------------------------------------------------------------
(* The walks go on. *)

\* The cycle of port i is open in this round, and the end control's callback not yet called.
Open(i) == (native.at = "init" /\ i < native.slot) \/ Sub(End) = "javaToExec"

\* While the walks are in step, the Java worker waits before its first cycle only until the end
\* control's is open; and a port that it has yet to pass awaits it, or has ended.
GoInv ==
  /\ state = "running" => activated
  /\ InStep /\ java.at = "wait" => Sub(End) \in {"started", "javaToExec"}
  /\ InStep => \A i \in Slot : Runs(i) /\ Open(i) /\ ~Passed(i) => Awaits(i) \/ Ended(i)

\* The chain stays activated while it runs.
LEMMA ActiveStep ==
  ASSUME [Next]_vars, state = "running" => activated
  PROVE  state' = "running" => activated'
  <1>1. JavaNext \/ NativeNext => UNCHANGED <<state, activated>>
    BY DEF JavaNext, JavaWaits, JavaLoops, JavaVisits, JavaResumes,
           NativeNext, NativeBegins, NativeInits, NativeVisits, NativeResumes
  <1>2. AdminContinues => UNCHANGED activated /\ state' \in {state, "stopped"}
    BY DEF AdminContinues, RemoveResumes, Take, EndAwaited, StopPort, StopResumes, Join, NextToStop
  <1>3. StartAndRun \/ Deactivate => (state' = "running" => activated')
    BY DEF StartAndRun, Deactivate
  <1>4. Initialize \/ RegisterAtServer \/ Stop \/ Shutdown =>
          UNCHANGED activated /\ (state' = "running" => state = "running")
    BY DEF Initialize, RegisterAtServer, Stop, Shutdown
  <1>5. (\E output \in BOOLEAN : AddPort(output)) \/ (\E i \in Slot : RemovePort(i)) =>
          UNCHANGED <<state, activated>>
    BY DEF AddPort, RemovePort
  <1> QED
    BY <1>1, <1>2, <1>3, <1>4, <1>5 DEF Next, AdminBegins, vars

\* The Java worker passes over what neither awaits it nor has to be waited for.
LEMMA GoJava ==
  ASSUME TypeOK, StartInv, EndInv, PlaceInv, LockInv, GoInv, JavaNext, InStep'
  PROVE  /\ java'.at # "wait"
         /\ \A i \in Slot : Runs(i)' /\ Open(i)' /\ ~Passed(i)' => Awaits(i)' \/ Ended(i)'
  <1>1. /\ portList \in [Slot -> PortType] /\ java.slot \in Slot /\ java.last \in BOOLEAN
        /\ Start \in Slot /\ End \in Slot /\ Start # End /\ UNCHANGED native
    BY Ends, PlacesChange DEF TypeOK, Next
  <1>2. InStep /\ RoundInv /\ WalkInv
    BY <1>1, WorkersMovePort DEF InStep, Runs, LockInv
  <1>3. portList[End].output /\ End \in hasItem /\ Runs(End)
    BY <1>2 DEF PlaceInv, EndInv, RoundInv
  <1>4. CASE JavaWaits \/ JavaLoops
    <2>1. UNCHANGED portList /\ java'.at # "wait" /\ \A i \in Slot : ~Passed(i)
      BY <1>4 DEF JavaWaits, JavaLoops, JavaAt, Passed
    <2> QED
      BY <1>1, <1>2, <2>1 DEF GoInv, Runs, Sub, Open, Awaits, Ended
  <1>5. CASE JavaVisits \/ JavaResumes
    <2>1. java.at \in {"walk", "blocked"}
      BY <1>5 DEF JavaVisits, JavaResumes
    <2>2. CASE JavaAt("blocked", java.slot, java.last) /\ UNCHANGED portList
      <3>1. \A i \in Slot : Passed(i)' <=> Passed(i)
        BY <2>1, <2>2 DEF JavaAt, Passed
      <3> QED
        BY <1>1, <1>2, <2>2, <3>1 DEF JavaAt, GoInv, Runs, Sub, Open, Awaits, Ended
    <2>3. CASE JavaNextSlot /\ UNCHANGED portList /\ ~JavaReady(portList[java.slot])
      <3>1. java'.at # "wait"
        BY <2>3 DEF JavaNextSlot, JavaAt
      <3>2. java.slot = End => Sub(End) # "javaToExec" /\ Ahead
        BY <1>1, <1>3, <2>1, <2>3 DEF JavaReady, Runs, Sub, Ahead
      <3>3. java.slot # End /\ \A i \in Slot : Passed(i)' <=> Passed(i) \/ i = java.slot
        BY <1>2, <2>1, <2>3, <3>2, NextSlot DEF WalkInv
      <3> QED
        BY <1>1, <1>2, <2>3, <3>1, <3>3 DEF GoInv, Runs, Sub, Open, Awaits, Ended
    <2>4. CASE JavaReady(portList[java.slot]) /\ JavaCalls
      <3>1. java'.at # "wait" /\ \A j \in Slot : j # java.slot => portList'[j] = portList[j]
        BY <1>1, <2>4 DEF JavaCalls, Put, JavaNextSlot, JavaAt
      <3>2. Runs(java.slot) /\ Sub(java.slot) = "javaToExec"
        BY <2>4 DEF JavaReady, Runs, Sub
      <3>3. native.at # "init"
        <4>1. SUFFICES ASSUME native.at = "init" PROVE FALSE
          OBVIOUS
        <4>2. End >= native.slot
          BY DEF TypeOK, Slot, End
        <4>3. ~Ahead
          BY <1>1, <1>2, <1>3, <4>1, <4>2 DEF RoundInv, WalkInv, Expected, Opened, Rested
        <4>4. java.slot = Start
          BY <2>1, <4>3 DEF Ahead
        <4>5. ~portList[Start].output
          BY <1>2 DEF StartInv, PlaceInv
        <4> QED
          BY <1>1, <1>2, <3>2, <4>1, <4>4, <4>5 DEF RoundInv, Expected, Opened, InRound, Rested
      <3>4. CASE java.slot # End
        <4>1. \A i \in Slot : Passed(i)' <=> Passed(i) \/ i = java.slot
          BY <2>1, <2>4, <3>4, NextSlot DEF JavaCalls
        <4> QED
          BY <1>1, <1>2, <3>1, <3>4, <4>1 DEF GoInv, Runs, Sub, Open, Awaits, Ended
      <3>5. CASE java.slot = End
        <4>1. Runs(End)' => Sub(End)' # "javaToExec"
          <5>1. portList'[End] \in {JavaEnds(JavaBegins(portList[End], java.last)),
                                    emergencyStop(JavaBegins(portList[End], java.last), "java")}
            BY <1>1, <2>4, <3>5 DEF JavaCalls, Put
          <5>2. ~Running(emergencyStop(JavaBegins(portList[End], java.last), "java"))
            BY <1>1, WorkersStartNothing DEF Cause
          <5> QED
            BY <1>1, <1>3, <2>4, <3>5, <5>1, <5>2, JavaTurn DEF Runs, Sub
        <4>2. Runs(End)'
          BY <1>1, <2>4, <3>5, JavaTurn DEF JavaCalls, Ordinary, Put, Runs
        <4> QED
          BY <1>1, <3>1, <3>3, <4>1, <4>2 DEF Open
      <3> QED
        BY <3>4, <3>5
    <2>5. java.slot \notin hasItem => ~JavaReady(portList[java.slot])
      BY <1>1 DEF PlaceInv, Runs, JavaReady
    <2> QED
      BY <1>5, <2>2, <2>3, <2>4, <2>5
      DEF JavaVisits, JavaResumes, JavaSkips, JavaIgnores, JavaGivesUp, JavaReady
  <1> QED
    BY <1>4, <1>5 DEF JavaNext

\* The first walk opens the cycles one after the other, the end control's last.
LEMMA GoInit ==
  ASSUME TypeOK, StartInv, EndInv, PlaceInv, LockInv, GoInv, NativeInits, InStep'
  PROVE  /\ java.at = "wait" => Sub(End)' \in {"started", "javaToExec"}
         /\ \A i \in Slot : Runs(i)' /\ Open(i)' /\ ~Passed(i)' => Awaits(i)' \/ Ended(i)'
  <1> PICK i \in Slot : i = native.slot
    BY DEF TypeOK
  <1> DEFINE p == portList[i]
             q == execNativeCycleInit(p)
  <1>1. /\ portList \in [Slot -> PortType] /\ p \in PortType /\ End \in Slot
        /\ UNCHANGED java /\ native.at = "init"
        /\ IF i = End THEN native'.at = "process" ELSE native'.at = "init" /\ native'.slot = i + 1
    BY Ends DEF TypeOK, NativeInits, NativeAt
  <1>2. portList'[i] = q /\ \A j \in Slot : j # i => portList'[j] = portList[j]
    <2>1. CASE i \in hasItem
      BY <1>1, <2>1 DEF NativeInits, Put
    <2>2. CASE i \notin hasItem
      <3>1. ~Running(p) /\ UNCHANGED portList
        BY <2>2 DEF PlaceInv, Runs, NativeInits
      <3> QED
        BY <3>1 DEF execNativeCycleInit
    <2> QED
      BY <2>1, <2>2
  <1>3. InStep
    BY <1>1, Ends, WorkersMovePort DEF InStep, Runs, NativeNext
  <1>4. RoundInv /\ Runs(End) /\ portList[End].output
    BY <1>3 DEF LockInv, RoundInv, EndInv, PlaceInv
  <1>5. Running(p) => p.substate \in Rested
    BY <1>3, InitFinds
  <1>6. /\ q.output = p.output /\ (Running(q) <=> Running(p))
        /\ q.substate = IF ~Running(p) \/ p.substate = "terminated" THEN p.substate
                        ELSE IF p.output THEN "javaToExec" ELSE "nativeToExec"
    BY <1>1, <1>5, InitTurn
  <1> HIDE DEF q
  <1>7. Runs(i)' => Awaits(i)' \/ Ended(i)'
    BY <1>2, <1>6 DEF Runs, Awaits, Ended, Sub
  <1>8. Sub(End) \in Rested /\ Sub(End) # "terminated"
    <2>1. End >= i
      BY DEF Slot, End
    <2> QED
      BY <1>1, <1>4, <2>1 DEF RoundInv, Expected, Opened
  <1>9. \A j \in Slot : j # i /\ Open(j)' => j < i
    <2>1. \A j \in Slot : (i = End \/ j < i + 1) /\ j # i => j < i
      BY DEF Slot, End
    <2>2. i # End => Sub(End)' # "javaToExec"
      BY <1>1, <1>2, <1>8 DEF Rested, Sub
    <2> QED
      BY <1>1, <2>1, <2>2 DEF Open
  <1>10. ASSUME NEW j \in Slot, Runs(j)', Open(j)', ~Passed(j)' PROVE Awaits(j)' \/ Ended(j)'
    <2>1. CASE j = i
      BY <1>7, <1>10, <2>1
    <2>2. CASE j # i
      <3>1. Open(j) /\ Runs(j) /\ ~Passed(j)
        BY <1>1, <1>2, <1>9, <1>10, <2>2 DEF Open, Runs, Passed
      <3> QED
        BY <1>2, <1>3, <2>2, <3>1 DEF GoInv, Awaits, Ended, Sub
    <2> QED
      BY <2>1, <2>2
  <1>11. java.at = "wait" => Sub(End)' \in {"started", "javaToExec"}
    <2>1. CASE i = End
      BY <1>2, <1>4, <1>6, <1>8, <2>1 DEF Runs, Sub
    <2>2. CASE i # End
      BY <1>1, <1>2, <1>3, <2>2 DEF GoInv, Sub
    <2> QED
      BY <2>1, <2>2
  <1> QED
    BY <1>10, <1>11

\* The second walk gives the turn of an input port to the Java worker, and ends the cycle of an
\* output port that has had its callback.
LEMMA GoWalk ==
  ASSUME TypeOK, StartInv, EndInv, PlaceInv, LockInv, GoInv, NativeVisits \/ NativeResumes, InStep'
  PROVE  /\ java.at = "wait" => Sub(End)' \in {"started", "javaToExec"}
         /\ \A i \in Slot : Runs(i)' /\ Open(i)' /\ ~Passed(i)' => Awaits(i)' \/ Ended(i)'
  <1> PICK i \in Slot : i = native.slot
    BY DEF TypeOK
  <1> DEFINE p == portList[i]
  <1>1. /\ portList \in [Slot -> PortType] /\ p \in PortType /\ Start \in Slot /\ End \in Slot
        /\ UNCHANGED java
    BY Ends DEF TypeOK, NativeVisits, NativeResumes
  <1>2. InStep
    BY <1>1, WorkersMovePort DEF InStep, Runs, NativeNext
  <1>3. RoundInv /\ Runs(End) /\ portList[End].output
    BY <1>2 DEF LockInv, RoundInv, EndInv, PlaceInv
  <1>4. native'.at # "init"
    BY DEF NativeVisits, NativeResumes, NativeSkips, NativeWorks, NativeNextSlot, NativeAt
  <1>5. WalkFinds(i)
    BY <1>2, SecondWalk
  <1>6. CASE UNCHANGED portList
    BY <1>1, <1>2, <1>4, <1>6 DEF GoInv, Runs, Open, Passed, Awaits, Ended, Sub
  <1>7. CASE i \in Ordinary /\ Put(i, emergencyStop(p, "native"))
    <2>1. i # End /\ ~Runs(i)' /\ \A j \in Slot : j # i => portList'[j] = portList[j]
      BY <1>1, <1>7, ErrorTurn DEF Ordinary, Put, Cause, Runs
    <2> QED
      BY <1>1, <1>2, <1>4, <2>1 DEF GoInv, Runs, Open, Passed, Awaits, Ended, Sub
  <1>8. CASE NativeReady(p) /\ Put(i, NativeEnds(p))
    <2>1. Runs(i) /\ Sub(i) \in {"nativeToExec", "nativeToTerminate"}
      BY <1>8 DEF NativeReady, Runs, Sub
    <2>2. \A j \in Slot : j # i => portList'[j] = portList[j]
      BY <1>1, <1>8 DEF Put
    <2>3. Sub(i)' = IF ~p.output THEN "javaToExec"
                    ELSE IF Sub(i) = "nativeToTerminate" THEN "terminated" ELSE "cycleDone"
      BY <1>1, <1>8, NativeTurn DEF Put, Sub
    <2>4. portList'[i].output = p.output
      BY <1>1, <1>8, NativeTurn DEF Put
    <2>5. CASE i = End
      <3>1. Sub(End)' # "javaToExec" /\ java.at # "wait"
        BY <1>2, <1>3, <2>1, <2>3, <2>5 DEF GoInv
      <3> QED
        BY <1>1, <1>4, <3>1 DEF Open
    <2>6. CASE i # End
      <3>1. Sub(End)' = Sub(End)
        BY <1>1, <2>2, <2>6 DEF Sub
      <3>2. Open(i) /\ ~Passed(i) => Awaits(i)' \/ Ended(i)'
        BY <1>2, <2>1, <2>3, <2>4 DEF GoInv, Awaits, Ended
      <3>3. \A j \in Slot : Open(j)' => Open(j)
        BY <1>4, <3>1 DEF Open
      <3> QED
        BY <1>1, <1>2, <2>1, <2>2, <3>1, <3>2, <3>3 DEF GoInv, Runs, Passed, Awaits, Ended, Sub
    <2> QED
      BY <2>5, <2>6
  <1> QED
    BY <1>5, <1>6, <1>7, <1>8 DEF WalkFinds, NativeSkips

LEMMA GoStep == StepInv /\ GoInv /\ [Next]_vars => GoInv'
  <1> SUFFICES ASSUME StepInv, GoInv, [Next]_vars PROVE GoInv'
    OBVIOUS
  <1>1. TypeOK /\ AdminInv /\ StartInv /\ EndInv /\ LeaseInv /\ PlaceInv /\ LockInv
    BY DEF StepInv, ChainInv
  <1>2. state' = "running" => activated'
    BY ActiveStep DEF GoInv
  <1> SUFFICES ASSUME InStep'
               PROVE  /\ java'.at = "wait" => Sub(End)' \in {"started", "javaToExec"}
                      /\ \A i \in Slot : Runs(i)' /\ Open(i)' /\ ~Passed(i)' => Awaits(i)' \/ Ended(i)'
    BY <1>2 DEF GoInv
  <1>3. CASE JavaNext
    BY <1>1, <1>3, GoJava
  <1>4. CASE NativeInits \/ NativeVisits \/ NativeResumes
    <2>1. UNCHANGED java
      BY <1>4 DEF NativeInits, NativeVisits, NativeResumes
    <2> QED
      BY <1>1, <1>4, <2>1, GoInit, GoWalk
  <1>5. CASE NativeBegins
    <2>1. UNCHANGED <<portList, java>> /\ native'.at = "init" /\ native'.slot = 0
      BY <1>5 DEF NativeBegins, NativeAt
    <2>2. \A i \in Slot : ~(i < native'.slot)
      BY <2>1 DEF Slot
    <2>3. InStep
      BY <2>1 DEF InStep
    <2> QED
      BY <2>1, <2>2, <2>3 DEF GoInv, Runs, Open, Passed, Awaits, Ended, Sub
  <1>6. CASE AdminContinues \/ AdminBegins \/ UNCHANGED vars
    <2>1. CASE InStep
      <3>1. Undisturbed
        BY <1>1, <1>6, <2>1, AdminUndisturbed
      <3>2. UNCHANGED <<java, native>> /\ Sub(End)' = Sub(End)
        BY <3>1 DEF Undisturbed, Sub
      <3>3. ASSUME NEW i \in Slot, Runs(i)', Open(i)', ~Passed(i)' PROVE Awaits(i)' \/ Ended(i)'
        <4>1. Open(i) /\ ~Passed(i)
          BY <3>2, <3>3 DEF Open, Passed
        <4>2. \/ Runs(i) /\ Sub(i)' = Sub(i) /\ portList'[i].output = portList[i].output
              \/ Sub(i)' = "started"
          BY <3>1, <3>3 DEF Undisturbed
        <4> QED
          BY <2>1, <4>1, <4>2 DEF GoInv, Awaits, Ended
      <3> QED
        BY <2>1, <3>2, <3>3 DEF GoInv
    <2>2. CASE ~InStep
      <3>1. StartAndRun
        BY <1>1, <1>6, <2>2, PlaceStep, OnlyStart
      <3>2. \A i \in Slot : Runs(i)' => Sub(i)' = "started"
        <4>1. \A i \in Slot : ~Runs(i)
          BY <1>1, <3>1 DEF PlaceInv, StartAndRun
        <4> QED
          BY <1>1, <1>6, <4>1, AdminKeepsTurns
      <3>3. Runs(End)'
        BY <1>1, <3>1, Ends, StartedFields DEF StartAndRun, EndInv, TypeOK, Fields, Runs, Running
      <3> QED
        BY <3>2, <3>3, Ends DEF Ended
    <2> QED
      BY <2>1, <2>2
  <1> QED
    BY <1>3, <1>4, <1>5, <1>6 DEF Next, NativeNext

LEMMA InitGoInv == Init => GoInv
  <1>1. ~Running(NoItem)
    BY NewPortMoves DEF NoItem
  <1> QED
    BY <1>1, Ends DEF Init, GoInv, InStep

\* A process thread that waits in a port, which it cannot leave, waits for the Java worker, whose
\* walk has come neither to that port nor to the end control.
LEMMA NativeAwaitsJava ==
  ASSUME TypeOK, StartInv, PlaceInv, LockInv, InStep, NativeStuck, NEW s \in Slot, s = native.slot
  PROVE  /\ InRound /\ s # Start /\ Runs(s) /\ Sub(s) = "javaToExec"
         /\ Sub(End) = "javaToExec" /\ Sub(Start) \in Rested \cup {"javaToExec"} /\ ~Passed(s)
  <1>1. Start \in Slot /\ End \in Slot /\ Runs(Start) /\ ~portList[Start].output /\ InRound
    BY Ends DEF InStep, Runs, PlaceInv, StartInv, NativeStuck, InRound
  <1>2. RoundInv /\ WalkInv
    BY DEF LockInv
  <1>3. Runs(s) /\ Sub(s) \notin {"nativeToExec", "nativeToTerminate"} \cup Rested
    BY <1>2 DEF NativeStuck, NativeReady, RoundInv, Runs, Sub
  <1>4. Sub(s) = "javaToExec" /\ portList[s].output
    <2>1. ~(s < s)
      BY DEF Slot
    <2> QED
      BY <1>1, <1>2, <1>3, <2>1 DEF RoundInv, Expected, Opened, InRound, Rested
  <1>5. s # Start /\ Start < s
    BY <1>1, <1>4 DEF Start, Slot
  <1>6. Sub(Start) \in Rested \cup {"javaToExec"}
    BY <1>1, <1>2, <1>5 DEF RoundInv, Expected, Opened, InRound
  <1>7. ~Passed(s) /\ ~EndCalled
    BY <1>2, <1>3, <1>4 DEF WalkInv, Awaits
  <1>8. Sub(End) = "javaToExec"
    <2>1. ~(End < s)
      BY ChainAssumption DEF Slot, End
    <2> QED
      BY <1>1, <1>2, <1>7, <2>1 DEF RoundInv, Expected, Opened, InRound, EndCalled, Rested
  <1> QED
    BY <1>1, <1>3, <1>4, <1>5, <1>6, <1>7, <1>8

\* While the Java worker cannot go on, the process thread can.
LEMMA OneGoesOn == StepInv /\ TurnsInv /\ GoInv => WalksGoOn
  <1> SUFFICES ASSUME StepInv, TurnsInv, GoInv, InStep, JavaStuck
               PROVE  IF native.at = "idle"
                      THEN activated /\ Runs(End) /\ Sub(End) # "terminated" /\ ~Xrun
                      ELSE ~NativeStuck
    BY DEF WalksGoOn, Runs, Sub
  <1>1. /\ TypeOK /\ StartInv /\ PlaceInv /\ LockInv /\ RoundInv /\ WalkInv /\ LastInv
        /\ Start \in Slot /\ End \in Slot /\ Runs(Start) /\ Runs(End) /\ activated
        /\ java.slot \in Slot /\ native.slot \in Slot
    BY Ends DEF StepInv, ChainInv, LockInv, RoundInv, InStep, Runs, PlaceInv, GoInv, TypeOK
  <1>2. java.at = "wait" => Sub(End) \in {"started", "javaToExec"} /\ Sub(Start) # "javaToExec"
    BY <1>1 DEF GoInv, JavaStuck, Sub
  <1>3. java.at # "wait" =>
          /\ java.at = "blocked" /\ Runs(java.slot)
          /\ Sub(java.slot) \notin {"terminated", "nativeToTerminate", "javaToExec", "started"}
    BY <1>1 DEF JavaStuck, JavaGivesUp, JavaReady, TurnsInv, WaitsForTurn, Runs, Sub
  <1>4. ASSUME native.at = "idle"
        PROVE  activated /\ Runs(End) /\ Sub(End) # "terminated" /\ ~Xrun
    <2>1. Sub(End) \in Rested /\ Sub(Start) \in Rested
      BY <1>1, <1>4 DEF RoundInv, Expected, Opened
    <2>2. CASE java.at # "wait"
      <3>1. ~Ahead
        BY <1>1, <2>1 DEF WalkInv, Rested
      <3>2. Sub(Start) \notin {"started", "terminated"}
        BY <1>1, <1>3, <2>2, <3>1 DEF WalkInv
      <3>3. ~Ended(Start)
        BY <2>1, <3>2 DEF Ended, Rested
      <3> QED
        BY <1>1, <1>4, <3>3 DEF LastInv, StepInv, ChainInv, EndInv
    <2> QED
      BY <1>1, <1>2, <1>4, <2>2 DEF StepInv, ChainInv, EndInv
  <1>5. ASSUME NativeStuck PROVE FALSE
    <2> PICK s \in Slot : s = native.slot
      BY <1>1
    <2>1. /\ InRound /\ s # Start /\ Runs(s) /\ Sub(s) = "javaToExec"
          /\ Sub(End) = "javaToExec" /\ Sub(Start) \in Rested \cup {"javaToExec"} /\ ~Passed(s)
      BY <1>1, <1>5, NativeAwaitsJava
    <2>2. CASE ~Ahead
      <3>1. Sub(Start) = "javaToExec"
        BY <1>1, <2>1, <2>2 DEF WalkInv, Rested
      <3> QED
        BY <1>2, <1>3, <2>2, <3>1 DEF Ahead
    <2>3. CASE Ahead
      <3> PICK b \in Slot : b = java.slot
        BY <1>1
      <3>1. java.at = "blocked" /\ Runs(b) /\ b # s
        BY <1>3, <2>1, <2>3 DEF Ahead
      <3>2. b < s
        BY <2>1, <3>1 DEF Passed, Slot
      <3>3. Sub(b) = "cycleDone"
        BY <1>1, <1>3, <2>1, <3>1, <3>2 DEF RoundInv, Expected, Opened, InRound, Rested
      <3>4. ~Passed(b)
        BY DEF Passed, Slot
      <3>5. Awaits(b) \/ Ended(b)
        BY <2>1, <3>1, <3>4 DEF GoInv, Open
      <3> QED
        BY <3>3, <3>5 DEF Awaits, Ended
    <2> QED
      BY <2>2, <2>3
  <1> QED
    BY <1>4, <1>5

\* "There is a danger of dead-lock here" (execNativeCycle), but there is none: as long as the walks
\* are in step, at least one of the two workers can go on, whatever fails and whatever the
\* administrator does.
THEOREM ChainWalksGoOn == Spec => []WalksGoOn
  <1>1. StepInv /\ TurnsInv /\ GoInv => WalksGoOn
    BY OneGoesOn
  <1>2. StepInv /\ GoInv /\ [Next]_vars => GoInv'
    BY GoStep
  <1>3. Init => GoInv
    BY InitGoInv
  <1> QED
    BY <1>1, <1>2, <1>3, TurnsInvariant, PTL DEF Spec

==============================================================================
