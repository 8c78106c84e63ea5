---------------------------- MODULE MidiTransfer ----------------------------
(***************************************************************************)
(* The way of the Midi events through an input port and an output port:    *)
(* the process methods of MidiInputPort and MidiOutputPort                 *)
(* (Implementation/MidiJackNative.java), execJavaProcess_impl and          *)
(* execNativeProcess_impl of native/JackInputPort.hpp and                  *)
(* native/JackOutputPort.hpp, cycle after cycle.  The loops are unrolled,  *)
(* one event per step.  An exception in one of them stops its port.        *)
(***************************************************************************)
EXTENDS Integers, Sequences, FiniteSets

CONSTANTS
  Note,             \* short messages of three bytes
  Program,          \* short messages of two bytes
  SysEx,            \* messages that are no ShortMessage, of three bytes
  Ticks,            \* the ticks that a listener may give to an event
  timeCodeDuration, \* the number of ticks in a cycle
  MaxInt,           \* the largest Java int
  MaxMidiEvents,    \* capacity of the arrays and buffers
  MaxGiven,         \* bound: length of what a listener returns
  MaxIncoming       \* bound: length of what other clients send

ASSUME TransferAssumption ==
  /\ Ticks \subseteq Int
  /\ timeCodeDuration \in Nat /\ MaxInt \in Nat /\ MaxMidiEvents \in Nat
  /\ MaxGiven \in Nat /\ MaxIncoming \in Nat
  /\ Note \cap Program = {} /\ (Note \cup Program) \cap SysEx = {}

Message == Note \cup Program \cup SysEx

VARIABLES
  at,          \* the step of the cycle
  i,           \* the loop index of that step
  inPort,      \* is the input port running, or stopped on error?
  incoming,    \* external: the server's buffer for the input port
  inBuffer,    \* bufferRawMidi, bufferDeltaTimes of the input port
  received,    \* what its listener got in this cycle
  outPort,     \* is the output port running, or stopped on error?
  given,       \* what its listener returned in the last cycle
  outBuffer,   \* the output arrays, and the native buffers they are copied to
  jackBuffer   \* external: the server's buffer for the output port

inVars == <<inPort, incoming, inBuffer, received>>
outVars == <<outPort, given, outBuffer, jackBuffer>>
vars == <<at, i, inVars, outVars>>

\* The events of the application, with ticks, and those of the server, with times.
MidiEvent == [tick : Ticks, message : Message]
JackEvent == [time : Int, message : Message]

SeqUpTo(S, max) == UNION {[1 .. n -> S] : n \in 0 .. max}

Goto(place) == at' = place /\ i' = 1

Again == i' = i + 1 /\ UNCHANGED at

----------------------------------------------------------------------------
(* The input port. *)

\* The server has the events of some output port for us: of ours, or of another client
\* (bound: only while ours is silent).
CycleBegins ==
  /\ at = "idle"
  /\ \/ /\ inPort = "running"
        /\ \/ incoming' = jackBuffer
           \/ /\ jackBuffer = <<>>
              /\ incoming' \in SeqUpTo([time : {0}, message : Message], MaxIncoming)
        /\ inBuffer' = <<>>
        /\ Goto("read")
     \/ /\ inPort = "stopped"
        /\ UNCHANGED <<incoming, inBuffer>>
        /\ Goto("ask")
  /\ UNCHANGED <<inPort, received, outVars>>

InputStops ==
  /\ inPort' = "stopped"
  /\ Goto("ask")
  /\ UNCHANGED inBuffer

\* Mutant: what does not fit in is left out.
MutRead ==
  /\ at = "read" /\ i <= Len(incoming)
  /\ inBuffer' = IF incoming[i].message \in Program \/ Len(inBuffer) >= MaxMidiEvents
                 THEN inBuffer ELSE Append(inBuffer, incoming[i])
  /\ Again
  /\ UNCHANGED <<inPort, incoming, received, outVars>>

\* Only events of three bytes are taken.
Read ==
  /\ at = "read" /\ i <= Len(incoming)
  /\ \/ InputStops   \* jack_midi_event_get fails
     \/ /\ incoming[i].message \in Program
        /\ Again
        /\ UNCHANGED <<inPort, inBuffer>>
     \/ /\ incoming[i].message \notin Program
        /\ \/ Len(inBuffer) >= MaxMidiEvents /\ InputStops
           \/ /\ Len(inBuffer) < MaxMidiEvents
              /\ inBuffer' = Append(inBuffer, incoming[i])
              /\ Again
              /\ UNCHANGED inPort
  /\ UNCHANGED <<incoming, received, outVars>>

ReadDone ==
  /\ at = "read" /\ i > Len(incoming)
  /\ Goto("build")
  /\ UNCHANGED <<inVars, outVars>>

\* setMessage: three bytes that are no short message are refused.
Build ==
  /\ at = "build" /\ i <= Len(inBuffer)
  /\ IF inBuffer[i].message \in SysEx THEN InputStops ELSE Again /\ UNCHANGED <<inPort, inBuffer>>
  /\ UNCHANGED <<incoming, received, outVars>>

\* The listener is called, and it may throw.
Deliver ==
  /\ at = "build" /\ i > Len(inBuffer)
  /\ received' = inBuffer
  /\ InputStops \/ (Goto("ask") /\ UNCHANGED <<inPort, inBuffer>>)
  /\ UNCHANGED <<incoming, outVars>>

----------------------------------------------------------------------------
(* The output port. *)

\* The native part is not carried out any more: the server's buffer stays as it is.
OutputStops == outPort' = "stopped" /\ Goto("idle")

\* The listener is asked for events; it may throw.  What the input port has got in this
\* cycle is of no use any more.
Ask ==
  /\ at = "ask"
  /\ incoming' = <<>> /\ received' = <<>>
  /\ \/ /\ outPort = "running"
        /\ outBuffer' = <<>>
        /\ \/ /\ given' \in SeqUpTo(MidiEvent, MaxGiven)
              /\ Goto("transfer")
              /\ UNCHANGED outPort
           \/ OutputStops /\ UNCHANGED given
     \/ /\ outPort = "stopped"
        /\ Goto("idle")
        /\ UNCHANGED <<outPort, given, outBuffer>>
  /\ UNCHANGED <<inPort, inBuffer, jackBuffer>>

\* There are so many ints, from -MaxInt - 1 on.
Ints == 2 * (MaxInt + 1)

\* (int) of a long.
ToInt(tick) == ((tick + MaxInt + 1) % Ints) - (MaxInt + 1)

Accepted(time) == time \in 0 .. timeCodeDuration - 1

\* Mutant: off by one.
MutFull == Len(outBuffer) > MaxMidiEvents

Full == Len(outBuffer) >= MaxMidiEvents

\* Mutant: messages of two bytes are dropped on the way out as well.
MutIsShort(message) == message \in Note

IsShort(message) == message \notin SysEx

\* One event of process: other messages are skipped; too many events, or a delta time
\* out of range, throw.
Transfer ==
  /\ at = "transfer" /\ i <= Len(given)
  /\ LET time == ToInt(given[i].tick) IN
     \/ /\ ~IsShort(given[i].message)
        /\ Again
        /\ UNCHANGED <<outPort, outBuffer>>
     \/ /\ IsShort(given[i].message)
        /\ \/ /\ ~Full /\ Accepted(time)
              /\ outBuffer' = Append(outBuffer, [time |-> time, message |-> given[i].message])
              /\ Again
              /\ UNCHANGED outPort
           \/ /\ Full \/ ~Accepted(time)
              /\ OutputStops
              /\ outBuffer' = <<>>
  /\ UNCHANGED <<inVars, given, jackBuffer>>

\* The arrays have been copied, and the server's buffer is cleared.
TransferDone ==
  /\ at = "transfer" /\ i > Len(given)
  /\ jackBuffer' = <<>>
  /\ Goto("write")
  /\ UNCHANGED <<inVars, outPort, given, outBuffer>>

\* Mutant: the order of the events is not looked at.
MutOffset == 0

\* The time of the event that has been written last.
Offset == IF i = 1 THEN 0 ELSE outBuffer[i - 1].time

\* An event is written; one that is out of order, or has no place, throws.
Write ==
  /\ at = "write" /\ i <= Len(outBuffer)
  /\ \/ /\ outBuffer[i].time >= Offset
        /\ jackBuffer' = Append(jackBuffer, outBuffer[i])
        /\ Again
        /\ UNCHANGED outPort
     \/ OutputStops /\ UNCHANGED jackBuffer
  /\ UNCHANGED <<inVars, given, outBuffer>>

CycleEnds ==
  /\ at = "write" /\ i > Len(outBuffer)
  /\ Goto("idle")
  /\ UNCHANGED <<inVars, outVars>>

----------------------------------------------------------------------------

Init ==
  /\ at = "idle" /\ i = 1
  /\ inPort = "running" /\ outPort = "running"
  /\ incoming = <<>> /\ inBuffer = <<>> /\ received = <<>>
  /\ given = <<>> /\ outBuffer = <<>> /\ jackBuffer = <<>>

Next ==
  \/ CycleBegins \/ Read \/ ReadDone \/ Build \/ Deliver
  \/ Ask \/ Transfer \/ TransferDone \/ Write \/ CycleEnds

Spec == Init /\ [][Next]_vars

----------------------------------------------------------------------------

\* The variables have their types, and no buffer holds more than it can.
TypeOK ==
  /\ at \in {"idle", "read", "build", "ask", "transfer", "write"} /\ i \in Nat \ {0}
  /\ inPort \in {"running", "stopped"} /\ outPort \in {"running", "stopped"}
  /\ incoming \in Seq(JackEvent) /\ inBuffer \in Seq(JackEvent) /\ received \in Seq(JackEvent)
  /\ given \in Seq(MidiEvent) /\ outBuffer \in Seq(JackEvent) /\ jackBuffer \in Seq(JackEvent)
  /\ Len(inBuffer) <= MaxMidiEvents /\ Len(received) <= MaxMidiEvents
  /\ Len(outBuffer) <= MaxMidiEvents /\ Len(jackBuffer) <= MaxMidiEvents

\* What the server gets is "in ascending order and less than timeCodeDuration"
\* (MidiOutputPortListener), whatever the listener has returned and wherever writing
\* has been given up.
WrittenInOrder ==
  /\ \A k \in 1 .. Len(jackBuffer) :
       jackBuffer[k].time \in 0 .. timeCodeDuration - 1
  /\ \A k, m \in 1 .. Len(jackBuffer) :
       k < m => jackBuffer[k].time <= jackBuffer[m].time

\* How many of the first n events are of the given class.
Count(events, class, n) == Cardinality({k \in 1 .. n : events[k].message \in class})

Short == Note \cup Program

\* Event e is the event g of the application, at its tick or at what is left of a tick
\* that is no int.
Renders(e, g) == e.message = g.message /\ (e.time - g.tick) % Ints = 0

\* The events written are the first ones of the short messages among the events given.
Follows(written, events) ==
  /\ Len(written) <= Count(events, Short, Len(events))
  /\ \A k \in 1 .. Len(events) :
       LET place == Count(events, Short, k) IN
       events[k].message \in Short /\ place <= Len(written) => Renders(written[place], events[k])

\* An event that the server gets has the delta time that the listener gave it: the array
\* of times is "filled with the delta times corresponding to the rawEvents" (process of
\* MidiOutputPort).  It has not, when the tick was truncated to a time in range.
WrittenAtItsTick ==
  at = "write" =>
    \A k \in 1 .. Len(jackBuffer) :
      \E g \in 1 .. Len(given) : /\ given[g].message = jackBuffer[k].message
                                /\ given[g].tick = jackBuffer[k].time

\* The short messages that the listener has returned are written in their order from the
\* first one on, and to the last one when the cycle ends well.
WrittenAsGiven ==
  /\ at = "write" \/ (outPort = "running" /\ at # "transfer") => Follows(jackBuffer, given)
  /\ outPort = "running" /\ at \notin {"transfer", "write"} =>
       Len(jackBuffer) = Count(given, Short, Len(given))

\* An input listener gets all three-byte messages of the cycle in their order, or none
\* of them: a message too many is never left out.
ReceivedAllOrNone ==
  \/ received = <<>>
  \/ /\ Len(received) = Count(incoming, Note, Len(incoming))
     /\ \A k \in 1 .. Len(incoming) :
          incoming[k].message \in Note => received[Count(incoming, Note, k)] = incoming[k]

==============================================================================
