------------------------- MODULE MidiTransferProofs -------------------------
(***************************************************************************)
(* What MidiTransfer guarantees for every capacity of the buffers, every   *)
(* length of a cycle and whatever the listeners and the other clients      *)
(* send.                                                                   *)
(***************************************************************************)
EXTENDS MidiTransfer, FiniteSetTheorems, TLAPS

\* The arrays hold delta times that process has accepted.
AcceptedInv == \A k \in 1 .. Len(outBuffer) : Accepted(outBuffer[k].time)

\* What has been written in this cycle is the beginning of the arrays.
PrefixInv ==
  at = "write" =>
    /\ Len(jackBuffer) = i - 1
    /\ i - 1 <= Len(outBuffer)
    /\ \A k \in 1 .. i - 1 : jackBuffer[k] = outBuffer[k]

\* The arrays hold the short messages among the first n events of the listener.
Taken(n) ==
  /\ Len(outBuffer) = Count(given, Short, n)
  /\ \A k \in 1 .. n : given[k].message \in Short => Renders(outBuffer[Count(given, Short, k)], given[k])

\* process goes through the events that the listener has returned, from the first one on.
TakenInv ==
  /\ at = "transfer" => i - 1 <= Len(given) /\ Taken(i - 1)
  /\ at = "write" => Taken(Len(given))

\* The native part of the input port takes these.
ThreeBytes == Note \cup SysEx

\* The buffer holds the messages of three bytes among the first n events of the server.
Held(n) ==
  /\ Len(inBuffer) = Count(incoming, ThreeBytes, n)
  /\ \A k \in 1 .. n :
       incoming[k].message \in ThreeBytes => inBuffer[Count(incoming, ThreeBytes, k)] = incoming[k]

\* The native part goes through the server's events; process goes through what it has taken
\* and stops at a message that is no short one.  The listener gets nothing before that.
HeldInv ==
  /\ at = "read" => i - 1 <= Len(incoming) /\ Held(i - 1)
  /\ at = "build" =>
       /\ Held(Len(incoming))
       /\ i - 1 <= Len(inBuffer)
       /\ \A k \in 1 .. i - 1 : inBuffer[k].message \notin SysEx
  /\ at # "ask" => received = <<>>

\* The inductive invariant.
TransferInv ==
  /\ TypeOK /\ AcceptedInv /\ PrefixInv /\ WrittenInOrder
  /\ TakenInv /\ WrittenAsGiven /\ HeldInv /\ ReceivedAllOrNone

----------------------------------------------------------------------------

\* Counting: the numbers are natural, grow by one with each event of the class, and do not
\* depend on later events.
LEMMA CountStep ==
  ASSUME NEW s, NEW C, NEW n \in Nat
  PROVE  /\ Count(s, C, n) \in Nat
         /\ Count(s, C, n + 1) = Count(s, C, n) + (IF s[n + 1].message \in C THEN 1 ELSE 0)
  <1> DEFINE K(m) == {k \in 1 .. m : s[k].message \in C}
  <1>1. \A m \in Nat : IsFiniteSet(K(m)) /\ Cardinality(K(m)) \in Nat
    <2> TAKE m \in Nat
    <2>1. IsFiniteSet(1 .. m) /\ K(m) \in SUBSET (1 .. m)
      BY FS_Interval
    <2>2. IsFiniteSet(K(m))
      BY <2>1, FS_Subset
    <2> QED
      BY <2>2, FS_CardinalityType
  <1>2. K(n + 1) = IF s[n + 1].message \in C THEN K(n) \cup {n + 1} ELSE K(n)
    OBVIOUS
  <1>3. n + 1 \notin K(n)
    OBVIOUS
  <1>4. Count(s, C, n) = Cardinality(K(n)) /\ Count(s, C, n + 1) = Cardinality(K(n + 1))
    BY DEF Count
  <1> HIDE DEF K
  <1> QED
    BY <1>1, <1>2, <1>3, <1>4, FS_AddElement

\* The first events of a class come first.
LEMMA CountOrder ==
  ASSUME NEW s, NEW C, NEW n \in Nat, NEW k \in 1 .. n
  PROVE  /\ Count(s, C, k) \in Nat /\ Count(s, C, k) <= Count(s, C, n)
         /\ s[k].message \in C => Count(s, C, k) >= 1
  <1> DEFINE K(m) == {j \in 1 .. m : s[j].message \in C}
  <1>1. IsFiniteSet(1 .. n) /\ K(n) \in SUBSET (1 .. n) /\ K(k) \in SUBSET K(n)
    BY FS_Interval
  <1>2. IsFiniteSet(K(n))
    BY <1>1, FS_Subset
  <1>3. IsFiniteSet(K(k)) /\ Cardinality(K(k)) <= Cardinality(K(n))
    BY <1>1, <1>2, FS_Subset
  <1>4. Cardinality(K(k)) \in Nat
    BY <1>3, FS_CardinalityType
  <1>5. s[k].message \in C => K(k) # {}
    OBVIOUS
  <1>6. Cardinality(K(k)) = 0 => K(k) = {}
    BY <1>3, FS_EmptySet
  <1>7. Count(s, C, n) = Cardinality(K(n)) /\ Count(s, C, k) = Cardinality(K(k))
    BY DEF Count
  <1> HIDE DEF K
  <1> QED
    BY <1>3, <1>4, <1>5, <1>6, <1>7

\* Nothing has been counted at first.
LEMMA CountNone == ASSUME NEW s, NEW C PROVE Count(s, C, 0) = 0
  <1>1. {k \in 1 .. 0 : s[k].message \in C} = {}
    OBVIOUS
  <1> QED
    BY <1>1, FS_EmptySet DEF Count

\* Two classes count the same if the events do not tell them apart.
LEMMA CountSame ==
  ASSUME NEW s, NEW C, NEW D, NEW n \in Nat,
         \A k \in 1 .. n : s[k].message \in C <=> s[k].message \in D,
         NEW m \in 0 .. n
  PROVE  Count(s, C, m) = Count(s, D, m)
  <1>1. {k \in 1 .. m : s[k].message \in C} = {k \in 1 .. m : s[k].message \in D}
    OBVIOUS
  <1> QED
    BY <1>1 DEF Count

\* Division.
LEMMA ModType == ASSUME NEW a \in Int, NEW m \in Nat \ {0} PROVE a % m \in Int
  OBVIOUS

LEMMA Quotient == ASSUME NEW a \in Int, NEW m \in Nat \ {0} PROVE \E q \in Int : a = m * q + (a % m)
  <1> WITNESS a \div m \in Int
  <1> QED
    OBVIOUS

LEMMA Multiple == ASSUME NEW q \in Int, NEW m \in Nat \ {0} PROVE (m * q) % m = 0
  OBVIOUS

\* The conversion to an int takes whole multiples of the number of ints away.
LEMMA ToIntCongruent == ASSUME NEW t \in Int PROVE ToInt(t) \in Int /\ (ToInt(t) - t) % Ints = 0
  <1>1. Ints \in Nat \ {0} /\ MaxInt \in Nat /\ t + MaxInt + 1 \in Int
    BY TransferAssumption DEF Ints
  <1>2. (t + MaxInt + 1) % Ints \in Int
    BY <1>1, ModType
  <1>3. ToInt(t) - t = ((t + MaxInt + 1) % Ints) - (t + MaxInt + 1) /\ ToInt(t) \in Int
    BY <1>1, <1>2 DEF ToInt
  <1>4. PICK q \in Int : t + MaxInt + 1 = Ints * q + ((t + MaxInt + 1) % Ints)
    BY <1>1, Quotient
  <1>5. ASSUME NEW a \in Int, NEW r \in Int, NEW m \in Int, a = m * q + r PROVE r - a = m * (0 - q)
    BY <1>5
  <1>6. ((t + MaxInt + 1) % Ints) - (t + MaxInt + 1) = Ints * (0 - q)
    BY ONLY <1>1, <1>2, <1>4, <1>5, q \in Int
  <1>7. (Ints * (0 - q)) % Ints = 0
    <2>1. 0 - q \in Int
      OBVIOUS
    <2> QED
      BY <1>1, <2>1, Multiple
  <1> QED
    BY <1>3, <1>6, <1>7

\* A sequence of bounded length is a sequence.
LEMMA SeqUpToIsSeq == ASSUME NEW S, NEW max \in Nat PROVE SeqUpTo(S, max) \subseteq Seq(S)
  BY DEF SeqUpTo

\* Types.
LEMMA TypeStep == TypeOK /\ PrefixInv /\ [Next]_vars => TypeOK'
  <1> SUFFICES ASSUME TypeOK, PrefixInv, [Next]_vars PROVE TypeOK'
    OBVIOUS
  <1> USE TransferAssumption DEF TypeOK, vars, inVars, outVars, Goto, Again, InputStops, OutputStops
  <1>1. CASE CycleBegins
    <2>1. CASE inPort = "running"
      <3>1. incoming' \in Seq(JackEvent)
        <4>1. [time : {0}, message : Message] \subseteq JackEvent
          BY DEF JackEvent
        <4>2. SeqUpTo([time : {0}, message : Message], MaxIncoming) \subseteq Seq(JackEvent)
          BY <4>1 DEF SeqUpTo
        <4> QED
          BY <1>1, <2>1, <4>2 DEF CycleBegins
      <3> QED
        BY <1>1, <2>1, <3>1 DEF CycleBegins
    <2>2. CASE inPort = "stopped"
      BY <1>1, <2>2 DEF CycleBegins
    <2> QED
      BY <2>1, <2>2
  <1>2. CASE Read
    <2>1. incoming[i] \in JackEvent
      BY <1>2 DEF Read
    <2>2. inBuffer' \in Seq(JackEvent) /\ Len(inBuffer') <= MaxMidiEvents
      <3>1. CASE inBuffer' = inBuffer
        BY <3>1
      <3>2. CASE Len(inBuffer) < MaxMidiEvents /\ inBuffer' = Append(inBuffer, incoming[i])
        BY <2>1, <3>2
      <3> QED
        BY <1>2, <3>1, <3>2 DEF Read
    <2>3. at' \in {"read", "ask"} /\ i' \in Nat \ {0} /\ inPort' \in {"running", "stopped"}
      BY <1>2 DEF Read
    <2> QED
      BY <1>2, <2>2, <2>3 DEF Read
  <1>3. CASE ReadDone
    BY <1>3 DEF ReadDone
  <1>4. CASE Build
    BY <1>4 DEF Build
  <1>5. CASE Deliver
    BY <1>5 DEF Deliver
  <1>6. CASE Ask
    <2>1. SeqUpTo(MidiEvent, MaxGiven) \subseteq Seq(MidiEvent)
      BY SeqUpToIsSeq
    <2>2. given' \in Seq(MidiEvent)
      BY <1>6, <2>1 DEF Ask
    <2>3. at' \in {"transfer", "idle"} /\ i' = 1 /\ outPort' \in {"running", "stopped"}
      BY <1>6 DEF Ask
    <2>4. outBuffer' \in Seq(JackEvent) /\ Len(outBuffer') <= MaxMidiEvents
      <3>1. CASE outBuffer' = <<>>
        BY <3>1
      <3>2. CASE outBuffer' = outBuffer
        BY <3>2
      <3> QED
        BY <1>6, <3>1, <3>2 DEF Ask
    <2>5. incoming' = <<>> /\ received' = <<>> /\ UNCHANGED <<inPort, inBuffer, jackBuffer>>
      BY <1>6 DEF Ask
    <2>6. incoming' \in Seq(JackEvent) /\ received' \in Seq(JackEvent) /\ Len(received') <= MaxMidiEvents
      BY <2>5
    <2> QED
      BY <2>2, <2>3, <2>4, <2>5, <2>6
  <1>7. CASE Transfer
    <2>1. given[i] \in MidiEvent
      BY <1>7 DEF Transfer
    <2>2. outBuffer' \in Seq(JackEvent) /\ Len(outBuffer') <= MaxMidiEvents
      <3>1. CASE outBuffer' = outBuffer
        BY <3>1
      <3>2. CASE outBuffer' = <<>>
        BY <3>2
      <3>3. CASE /\ ~Full /\ Accepted(ToInt(given[i].tick))
                 /\ outBuffer' = Append(outBuffer, [time |-> ToInt(given[i].tick), message |-> given[i].message])
        <4>1. [time |-> ToInt(given[i].tick), message |-> given[i].message] \in JackEvent
          BY <2>1, <3>3 DEF Accepted, JackEvent, MidiEvent
        <4> QED
          BY <3>3, <4>1 DEF Full
      <3> QED
        BY <1>7, <3>1, <3>2, <3>3 DEF Transfer
    <2>3. at' \in {"transfer", "idle"} /\ i' \in Nat \ {0} /\ outPort' \in {"running", "stopped"}
      BY <1>7 DEF Transfer
    <2> QED
      BY <1>7, <2>2, <2>3 DEF Transfer
  <1>8. CASE TransferDone
    BY <1>8 DEF TransferDone
  <1>9. CASE Write
    <2>1. outBuffer[i] \in JackEvent
      BY <1>9 DEF Write
    <2>2. jackBuffer' \in Seq(JackEvent) /\ Len(jackBuffer') <= MaxMidiEvents
      <3>1. CASE jackBuffer' = jackBuffer
        BY <3>1
      <3>2. CASE jackBuffer' = Append(jackBuffer, outBuffer[i])
        BY <1>9, <2>1, <3>2 DEF Write, PrefixInv
      <3> QED
        BY <1>9, <3>1, <3>2 DEF Write
    <2>3. at' \in {"write", "idle"} /\ i' \in Nat \ {0} /\ outPort' \in {"running", "stopped"}
      BY <1>9 DEF Write
    <2> QED
      BY <1>9, <2>2, <2>3 DEF Write
  <1>10. CASE CycleEnds
    BY <1>10 DEF CycleEnds
  <1>11. CASE UNCHANGED vars
    BY <1>11
  <1> QED
    BY <1>1, <1>2, <1>3, <1>4, <1>5, <1>6, <1>7, <1>8, <1>9, <1>10, <1>11 DEF Next

\* Transfer takes accepted delta times only; the other steps keep the arrays or empty them.
LEMMA AcceptedStep == TypeOK /\ AcceptedInv /\ [Next]_vars => AcceptedInv'
  <1> SUFFICES ASSUME TypeOK, AcceptedInv, [Next]_vars PROVE AcceptedInv'
    OBVIOUS
  <1>1. \/ outBuffer' = outBuffer
        \/ outBuffer' = <<>>
        \/ /\ Accepted(ToInt(given[i].tick))
           /\ outBuffer' = Append(outBuffer, [time |-> ToInt(given[i].tick), message |-> given[i].message])
    BY DEF Next, vars, inVars, outVars, CycleBegins, Read, ReadDone, Build, Deliver, Ask,
       Transfer,
           TransferDone, Write, CycleEnds
  <1>2. CASE outBuffer' = outBuffer
    BY <1>2 DEF AcceptedInv, Accepted
  <1>3. CASE outBuffer' = <<>>
    BY <1>3 DEF AcceptedInv
  <1>4. CASE /\ Accepted(ToInt(given[i].tick))
             /\ outBuffer' = Append(outBuffer, [time |-> ToInt(given[i].tick), message |-> given[i].message])
    <2>1. outBuffer \in Seq(JackEvent)
      BY DEF TypeOK
    <2> SUFFICES ASSUME NEW k \in 1 .. Len(outBuffer) + 1 PROVE Accepted(outBuffer'[k].time)
      BY <1>4, <2>1 DEF AcceptedInv, Accepted
    <2>2. CASE k = Len(outBuffer) + 1
      BY <1>4, <2>1, <2>2 DEF Accepted
    <2>3. CASE k # Len(outBuffer) + 1
      BY <1>4, <2>1, <2>3 DEF AcceptedInv, Accepted
    <2> QED
      BY <2>2, <2>3
  <1> QED
    BY <1>1, <1>2, <1>3, <1>4

\* Write goes through the arrays from the first event on.
LEMMA PrefixStep == TypeOK /\ PrefixInv /\ [Next]_vars => PrefixInv'
  <1> SUFFICES ASSUME TypeOK, PrefixInv, [Next]_vars PROVE PrefixInv'
    OBVIOUS
  <1> USE DEF vars, inVars, outVars, Goto, Again, OutputStops, PrefixInv
  <1>1. CASE at' # "write"
    BY <1>1
  <1>2. CASE TransferDone
    BY <1>2 DEF TransferDone, TypeOK
  <1>3. CASE Write
    <2>1. CASE at' = "idle"
      BY <2>1
    <2>2. CASE Again /\ jackBuffer' = Append(jackBuffer, outBuffer[i])
      BY <1>3, <2>2 DEF Write, TypeOK
    <2> QED
      BY <1>3, <2>1, <2>2 DEF Write
  <1>4. CASE UNCHANGED vars
    BY <1>4
  <1>5. at' # "write" \/ TransferDone \/ Write \/ UNCHANGED vars
    BY DEF Next, CycleBegins, Read, ReadDone, Build, Deliver, Ask, Transfer, CycleEnds, InputStops
  <1> QED
    BY <1>1, <1>2, <1>3, <1>4, <1>5

\* An event is written after the one before it in the arrays only if it is not earlier.
LEMMA OrderStep ==
  TypeOK /\ AcceptedInv /\ PrefixInv /\ WrittenInOrder /\ [Next]_vars => WrittenInOrder'
  <1> SUFFICES ASSUME TypeOK, AcceptedInv, PrefixInv, WrittenInOrder, [Next]_vars
               PROVE  WrittenInOrder'
    OBVIOUS
  <1>1. \/ jackBuffer' = jackBuffer
        \/ jackBuffer' = <<>>
        \/ /\ at = "write" /\ i <= Len(outBuffer) /\ outBuffer[i].time >= Offset
           /\ jackBuffer' = Append(jackBuffer, outBuffer[i])
    BY DEF Next, vars, inVars, outVars, CycleBegins, Read, ReadDone, Build, Deliver, Ask,
       Transfer,
           TransferDone, Write, CycleEnds
  <1>2. CASE jackBuffer' = jackBuffer
    BY <1>2 DEF WrittenInOrder
  <1>3. CASE jackBuffer' = <<>>
    BY <1>3 DEF WrittenInOrder
  <1>4. CASE /\ at = "write" /\ i <= Len(outBuffer) /\ outBuffer[i].time >= Offset
             /\ jackBuffer' = Append(jackBuffer, outBuffer[i])
    <2>1. /\ jackBuffer \in Seq(JackEvent) /\ Len(jackBuffer) = i - 1
          /\ \A k \in 1 .. i - 1 : jackBuffer[k] = outBuffer[k]
          /\ i \in Nat \ {0} /\ outBuffer \in Seq(JackEvent)
      BY <1>4 DEF TypeOK, PrefixInv
    <2>2. /\ Len(jackBuffer') = i /\ jackBuffer'[i] = outBuffer[i]
          /\ \A k \in 1 .. i - 1 : jackBuffer'[k] = jackBuffer[k]
      BY <1>4, <2>1
    <2>3. outBuffer[i].time \in 0 .. timeCodeDuration - 1
      BY <1>4, <2>1 DEF AcceptedInv, Accepted
    <2>4. \A k \in 1 .. i - 1 : jackBuffer[k].time \in 0 .. timeCodeDuration - 1
      BY <2>1 DEF WrittenInOrder
    <2>5. \A k \in 1 .. i - 1 : jackBuffer[k].time <= outBuffer[i].time
      <3> SUFFICES ASSUME NEW k \in 1 .. i - 1 PROVE jackBuffer[k].time <= outBuffer[i].time
        OBVIOUS
      <3>1. i - 1 \in 1 .. i - 1 /\ i # 1
        BY <2>1
      <3>2. Offset = jackBuffer[i - 1].time
        BY <2>1, <3>1 DEF Offset
      <3>3. jackBuffer[k].time <= jackBuffer[i - 1].time
        <4>1. CASE k = i - 1
          BY <2>4, <4>1
        <4>2. CASE k < i - 1
          BY <2>1, <3>1, <4>2 DEF WrittenInOrder
        <4> QED
          BY <2>1, <4>1, <4>2
      <3> QED
        BY <1>4, <2>3, <2>4, <3>1, <3>2, <3>3
    <2>6. \A k \in 1 .. i : jackBuffer'[k].time \in 0 .. timeCodeDuration - 1
      BY <2>1, <2>2, <2>3, <2>4
    <2>7. \A k, m \in 1 .. i : k < m => jackBuffer'[k].time <= jackBuffer'[m].time
      <3> SUFFICES ASSUME NEW k \in 1 .. i, NEW m \in 1 .. i, k < m
                   PROVE  jackBuffer'[k].time <= jackBuffer'[m].time
        OBVIOUS
      <3>1. k \in 1 .. i - 1
        BY <2>1
      <3>2. CASE m = i
        BY <2>2, <2>5, <3>1, <3>2
      <3>3. CASE m # i
        <4>1. m \in 1 .. i - 1
          BY <2>1, <3>3
        <4> QED
          BY <2>1, <2>2, <3>1, <4>1 DEF WrittenInOrder
      <3> QED
        BY <3>2, <3>3
    <2> QED
      BY <2>2, <2>6, <2>7 DEF WrittenInOrder
  <1> QED
    BY <1>1, <1>2, <1>3, <1>4

\* An event of the listener is taken to the end of the arrays, if it is a short message.
LEMMA TakenStep == TypeOK /\ TakenInv /\ [Next]_vars => TakenInv'
  <1> SUFFICES ASSUME TypeOK, TakenInv, [Next]_vars PROVE TakenInv'
    OBVIOUS
  <1> USE DEF vars, inVars, outVars, Goto, Again, OutputStops
  <1>1. CASE at' \notin {"transfer", "write"}
    BY <1>1 DEF TakenInv
  <1>2. CASE Ask /\ at' = "transfer"
    <2>1. i' = 1 /\ outBuffer' = <<>>
      BY <1>2 DEF Ask
    <2>2. given' \in Seq(MidiEvent)
      BY <1>2, SeqUpToIsSeq, TransferAssumption DEF Ask
    <2> QED
      BY <1>2, <2>1, <2>2, CountNone DEF TakenInv, Taken
  <1>3. CASE Transfer /\ at' = "transfer"
    <2>1. /\ i \in Nat \ {0} /\ i <= Len(given) /\ i' = i + 1 /\ given' = given /\ Taken(i - 1)
          /\ given \in Seq(MidiEvent) /\ outBuffer \in Seq(JackEvent)
      BY <1>3 DEF Transfer, TypeOK, TakenInv
    <2>2. given[i] \in MidiEvent /\ given[i].tick \in Int /\ given[i].message \in Message
      <3>1. given[i] \in MidiEvent
        BY <2>1
      <3> QED
        BY <3>1, TransferAssumption DEF MidiEvent
    <2>3. /\ Count(given, Short, i - 1) \in Nat
          /\ Count(given, Short, i) = Count(given, Short, i - 1)
                                      + (IF given[i].message \in Short THEN 1 ELSE 0)
      <3>1. i - 1 \in Nat /\ (i - 1) + 1 = i
        BY <2>1
      <3> QED
        BY <3>1, CountStep
    <2>4. \A k \in 1 .. i - 1 : /\ Count(given, Short, k) <= Count(given, Short, i - 1)
                                /\ Count(given, Short, k) \in Nat
                                /\ given[k].message \in Short => Count(given, Short, k) >= 1
      BY <2>1, CountOrder
    <2>5. CASE given[i].message \in Short
      <3>1. IsShort(given[i].message)
        BY <2>5, TransferAssumption DEF IsShort, Short
      <3>2. outBuffer' = Append(outBuffer, [time |-> ToInt(given[i].tick), message |-> given[i].message])
        BY <1>3, <3>1 DEF Transfer
      <3>3. Renders([time |-> ToInt(given[i].tick), message |-> given[i].message], given[i])
        BY <2>2, ToIntCongruent DEF Renders
      <3>4. /\ Len(outBuffer') = Count(given, Short, i)
            /\ outBuffer'[Count(given, Short, i)]
                 = [time |-> ToInt(given[i].tick), message |-> given[i].message]
            /\ \A n \in 1 .. Len(outBuffer) : outBuffer'[n] = outBuffer[n]
        BY <2>1, <2>3, <2>5, <3>2 DEF Taken
      <3>5. \A k \in 1 .. i : given[k].message \in Short =>
              Renders(outBuffer'[Count(given, Short, k)], given[k])
        <4> TAKE k \in 1 .. i
        <4> HAVE given[k].message \in Short
        <4>1. CASE k = i
          BY <3>3, <3>4, <4>1
        <4>2. CASE k # i
          <5>1. k \in 1 .. i - 1 /\ Count(given, Short, k) \in 1 .. Len(outBuffer)
            BY <2>1, <2>3, <2>4, <4>2 DEF Taken
          <5> QED
            BY <2>1, <3>4, <5>1 DEF Taken
        <4> QED
          BY <4>1, <4>2
      <3> QED
        BY <1>3, <2>1, <3>4, <3>5 DEF TakenInv, Taken
    <2>6. CASE given[i].message \notin Short
      <3>1. ~IsShort(given[i].message)
        BY <2>2, <2>6 DEF IsShort, Short, Message
      <3>2. outBuffer' = outBuffer
        BY <1>3, <3>1 DEF Transfer
      <3>3. \A k \in 1 .. i : given[k].message \in Short => k \in 1 .. i - 1
        BY <2>1, <2>6
      <3> QED
        BY <1>3, <2>1, <2>3, <2>6, <3>2, <3>3 DEF TakenInv, Taken
    <2> QED
      BY <2>5, <2>6
  <1>4. CASE TransferDone
    <2>1. i - 1 = Len(given) /\ Taken(i - 1) /\ at' = "write" /\ given' = given /\ outBuffer' = outBuffer
      BY <1>4 DEF TransferDone, TakenInv, TypeOK
    <2> QED
      BY <2>1 DEF TakenInv, Taken
  <1>5. CASE Write
    BY <1>5 DEF Write, TakenInv, Taken
  <1>6. CASE UNCHANGED vars
    BY <1>6 DEF TakenInv, Taken
  <1>7. \/ at' \notin {"transfer", "write"} \/ (Ask /\ at' = "transfer") \/ (Transfer /\ at' = "transfer")
        \/ TransferDone \/ Write \/ UNCHANGED vars
    BY DEF Next, CycleBegins, Read, ReadDone, Build, Deliver, Ask, Transfer, CycleEnds, InputStops
  <1> QED
    BY <1>1, <1>2, <1>3, <1>4, <1>5, <1>6, <1>7

\* The beginning of something that renders all short messages follows them.
LEMMA PrefixFollows ==
  ASSUME NEW events \in Seq(MidiEvent), NEW array, NEW written,
         Len(array) = Count(events, Short, Len(events)),
         \A k \in 1 .. Len(events) :
           events[k].message \in Short => Renders(array[Count(events, Short, k)], events[k]),
         Len(written) \in Nat, Len(written) <= Len(array),
         \A k \in 1 .. Len(written) : written[k] = array[k]
  PROVE  Follows(written, events)
  <1>1. ASSUME NEW k \in 1 .. Len(events), events[k].message \in Short,
               Count(events, Short, k) <= Len(written)
        PROVE  Renders(written[Count(events, Short, k)], events[k])
    <2>1. Count(events, Short, k) \in 1 .. Len(written)
      BY <1>1, CountOrder
    <2> QED
      BY <1>1, <2>1
  <1> QED
    BY <1>1 DEF Follows

\* What is written is the beginning of the arrays, hence of what the listener has given; a
\* cycle that ends well has written the arrays to their end.
LEMMA WrittenStep ==
  ASSUME TypeOK, PrefixInv, TakenInv, WrittenAsGiven, [Next]_vars, TypeOK', PrefixInv', TakenInv'
  PROVE  WrittenAsGiven'
  <1> USE DEF vars, inVars, outVars, Goto, Again, OutputStops
  <1>1. CASE at' = "write"
    <2>1. /\ Taken(Len(given))' /\ Len(jackBuffer') = i' - 1 /\ i' - 1 <= Len(outBuffer')
          /\ \A k \in 1 .. i' - 1 : jackBuffer'[k] = outBuffer'[k]
          /\ given' \in Seq(MidiEvent) /\ i' \in Nat \ {0}
      BY <1>1 DEF TakenInv, PrefixInv, TypeOK
    <2>2. Follows(jackBuffer', given')
      BY <2>1, PrefixFollows DEF Taken
    <2> QED
      BY <1>1, <2>2 DEF WrittenAsGiven
  <1>2. CASE at' # "write" /\ (at' = "transfer" \/ outPort' # "running")
    BY <1>2 DEF WrittenAsGiven
  <1>3. CASE CycleEnds
    <2>1. /\ at = "write" /\ UNCHANGED <<given, jackBuffer>> /\ at' = "idle"
          /\ Len(jackBuffer) = Len(outBuffer) /\ Taken(Len(given))
      BY <1>3 DEF CycleEnds, PrefixInv, TakenInv, TypeOK
    <2> QED
      BY <2>1 DEF WrittenAsGiven, Taken
  <1>4. CASE /\ UNCHANGED <<given, jackBuffer, outPort>>
             /\ at \notin {"write", "transfer"} /\ at' \notin {"write", "transfer"}
    BY <1>4 DEF WrittenAsGiven
  <1>5. CASE UNCHANGED vars
    BY <1>5 DEF WrittenAsGiven
  <1>6. \/ at' = "write" \/ (at' # "write" /\ (at' = "transfer" \/ outPort' # "running")) \/ CycleEnds
        \/ /\ UNCHANGED <<given, jackBuffer, outPort>>
           /\ at \notin {"write", "transfer"} /\ at' \notin {"write", "transfer"}
        \/ UNCHANGED vars
    BY DEF TypeOK, Next, CycleBegins, Read, ReadDone, Build, Deliver, Ask, Transfer, TransferDone, Write,
           InputStops
  <1> QED
    BY <1>1, <1>2, <1>3, <1>4, <1>5, <1>6

\* The native part of the input port takes an event of the server, if it has three bytes.
LEMMA HeldStep == TypeOK /\ HeldInv /\ [Next]_vars => HeldInv'
  <1> SUFFICES ASSUME TypeOK, HeldInv, [Next]_vars PROVE HeldInv'
    OBVIOUS
  <1> USE DEF vars, inVars, outVars, Goto, Again, OutputStops, InputStops
  <1>1. CASE at' \notin {"read", "build", "ask"} /\ received' = <<>>
    BY <1>1 DEF HeldInv
  <1>2. CASE at' = "ask"
    BY <1>2 DEF HeldInv
  <1>3. CASE CycleBegins /\ at' = "read"
    <2>1. i' = 1 /\ inBuffer' = <<>> /\ received' = <<>>
      BY <1>3 DEF CycleBegins, HeldInv
    <2>2. Len(incoming') \in Nat
      <3>1. SeqUpTo([time : {0}, message : Message], MaxIncoming) \subseteq Seq([time : {0}, message : Message])
        BY SeqUpToIsSeq, TransferAssumption
      <3>2. incoming' = jackBuffer \/ incoming' \in Seq([time : {0}, message : Message])
        BY <1>3, <3>1 DEF CycleBegins
      <3> QED
        BY <3>2 DEF TypeOK
    <2> QED
      BY <1>3, <2>1, <2>2, CountNone DEF HeldInv, Held
  <1>4. CASE Read /\ at' = "read"
    <2>1. /\ i \in Nat \ {0} /\ i <= Len(incoming) /\ i' = i + 1 /\ incoming' = incoming /\ Held(i - 1)
          /\ incoming \in Seq(JackEvent) /\ inBuffer \in Seq(JackEvent) /\ received' = <<>>
      BY <1>4 DEF Read, TypeOK, HeldInv
    <2>2. incoming[i].message \in Message
      <3>1. incoming[i] \in JackEvent
        BY <2>1
      <3> QED
        BY <3>1 DEF JackEvent
    <2>3. /\ Count(incoming, ThreeBytes, i - 1) \in Nat
          /\ Count(incoming, ThreeBytes, i) = Count(incoming, ThreeBytes, i - 1)
                                      + (IF incoming[i].message \in ThreeBytes THEN 1 ELSE 0)
      <3>1. i - 1 \in Nat /\ (i - 1) + 1 = i
        BY <2>1
      <3> QED
        BY <3>1, CountStep
    <2>4. \A k \in 1 .. i - 1 :
            /\ Count(incoming, ThreeBytes, k) <= Count(incoming, ThreeBytes, i - 1)
            /\ Count(incoming, ThreeBytes, k) \in Nat
            /\ incoming[k].message \in ThreeBytes => Count(incoming, ThreeBytes, k) >= 1
      BY <2>1, CountOrder
    <2>5. CASE incoming[i].message \in ThreeBytes
      <3>1. incoming[i].message \notin Program
        BY <2>5, TransferAssumption DEF ThreeBytes
      <3>2. inBuffer' = Append(inBuffer, incoming[i])
        BY <1>4, <3>1 DEF Read
      <3>3. /\ Len(inBuffer') = Count(incoming, ThreeBytes, i)
            /\ inBuffer'[Count(incoming, ThreeBytes, i)] = incoming[i]
            /\ \A n \in 1 .. Len(inBuffer) : inBuffer'[n] = inBuffer[n]
        BY <2>1, <2>3, <2>5, <3>2 DEF Held
      <3>4. \A k \in 1 .. i : incoming[k].message \in ThreeBytes =>
              inBuffer'[Count(incoming, ThreeBytes, k)] = incoming[k]
        <4> TAKE k \in 1 .. i
        <4> HAVE incoming[k].message \in ThreeBytes
        <4>1. CASE k = i
          BY <3>3, <4>1
        <4>2. CASE k # i
          <5>1. k \in 1 .. i - 1 /\ Count(incoming, ThreeBytes, k) \in 1 .. Len(inBuffer)
            BY <2>1, <2>3, <2>4, <4>2 DEF Held
          <5> QED
            BY <2>1, <3>3, <5>1 DEF Held
        <4> QED
          BY <4>1, <4>2
      <3> QED
        BY <1>4, <2>1, <3>3, <3>4 DEF HeldInv, Held
    <2>6. CASE incoming[i].message \notin ThreeBytes
      <3>1. incoming[i].message \in Program
        BY <2>2, <2>6 DEF ThreeBytes, Message
      <3>2. inBuffer' = inBuffer
        BY <1>4, <3>1 DEF Read
      <3>3. \A k \in 1 .. i : incoming[k].message \in ThreeBytes => k \in 1 .. i - 1
        BY <2>1, <2>6
      <3> QED
        BY <1>4, <2>1, <2>3, <2>6, <3>2, <3>3 DEF HeldInv, Held
    <2> QED
      BY <2>5, <2>6
  <1>5. CASE ReadDone
    <2>1. /\ i > Len(incoming) /\ i - 1 <= Len(incoming) /\ Held(i - 1) /\ at' = "build" /\ i' = 1
          /\ received' = <<>> /\ UNCHANGED <<incoming, inBuffer>>
      BY <1>5 DEF ReadDone, HeldInv
    <2>2. i - 1 = Len(incoming) /\ Len(inBuffer) \in Nat
      BY <2>1 DEF TypeOK
    <2> QED
      BY <2>1, <2>2 DEF HeldInv, Held
  <1>6. CASE Build /\ at' = "build"
    <2>1. /\ i \in Nat \ {0} /\ i <= Len(inBuffer) /\ i' = i + 1 /\ UNCHANGED <<incoming, inBuffer>>
          /\ inBuffer[i].message \notin SysEx /\ Held(Len(incoming)) /\ received' = <<>>
          /\ \A k \in 1 .. i - 1 : inBuffer[k].message \notin SysEx
          /\ Len(inBuffer) \in Nat
      BY <1>6 DEF Build, HeldInv, TypeOK
    <2> QED
      BY <1>6, <2>1 DEF HeldInv, Held
  <1>7. CASE UNCHANGED vars
    BY <1>7 DEF HeldInv, Held
  <1>8. \/ at' \notin {"read", "build", "ask"} /\ received' = <<>>
        \/ at' = "ask" \/ (CycleBegins /\ at' = "read") \/ (Read /\ at' = "read") \/ ReadDone
        \/ (Build /\ at' = "build") \/ UNCHANGED vars
    BY DEF HeldInv, Next, CycleBegins, Read, ReadDone, Build, Deliver, Ask, Transfer, TransferDone, Write,
           CycleEnds
  <1> QED
    BY <1>1, <1>2, <1>3, <1>4, <1>5, <1>6, <1>7, <1>8

\* The listener is called when every message taken has turned out to be a short one: they are
\* all messages of three bytes that the cycle has brought.
LEMMA ReceivedStep ==
  ASSUME TypeOK, HeldInv, ReceivedAllOrNone, [Next]_vars
  PROVE  ReceivedAllOrNone'
  <1>1. CASE Deliver
    <2>1. /\ received' = inBuffer /\ incoming' = incoming /\ Held(Len(incoming))
          /\ incoming \in Seq(JackEvent) /\ Len(inBuffer) \in Nat
          /\ \A k \in 1 .. Len(inBuffer) : inBuffer[k].message \notin SysEx
      BY <1>1 DEF Deliver, HeldInv, TypeOK
    <2>2. \A k \in 1 .. Len(incoming) : incoming[k].message \notin SysEx
      <3> SUFFICES ASSUME NEW k \in 1 .. Len(incoming), incoming[k].message \in SysEx PROVE FALSE
        OBVIOUS
      <3>1. incoming[k].message \in ThreeBytes
        BY DEF ThreeBytes
      <3>2. Count(incoming, ThreeBytes, k) \in 1 .. Len(inBuffer)
        BY <2>1, <3>1, CountOrder DEF Held
      <3> QED
        BY <2>1, <3>1, <3>2 DEF Held
    <2>3. \A k \in 1 .. Len(incoming) : incoming[k].message \in Note <=> incoming[k].message \in ThreeBytes
      BY <2>2 DEF ThreeBytes
    <2>4. \A m \in 0 .. Len(incoming) : Count(incoming, Note, m) = Count(incoming, ThreeBytes, m)
      <3>1. Len(incoming) \in Nat
        BY <2>1
      <3> QED
        BY <2>3, <3>1, CountSame
    <2>5. Len(received') = Count(incoming, Note, Len(incoming))
      BY <2>1, <2>4 DEF Held
    <2>6. \A k \in 1 .. Len(incoming) :
            incoming[k].message \in Note => received'[Count(incoming, Note, k)] = incoming[k]
      BY <2>1, <2>3, <2>4 DEF Held
    <2> QED
      BY <2>1, <2>5, <2>6 DEF ReceivedAllOrNone
  <1>2. CASE received' = <<>>
    BY <1>2 DEF ReceivedAllOrNone
  <1>3. CASE UNCHANGED <<incoming, received>>
    BY <1>3 DEF ReceivedAllOrNone
  <1>4. Deliver \/ received' = <<>> \/ UNCHANGED <<incoming, received>>
    BY DEF HeldInv, Next, vars, inVars, outVars, CycleBegins, Read, ReadDone, Build, Ask, Transfer,
           TransferDone, Write, CycleEnds
  <1> QED
    BY <1>1, <1>2, <1>3, <1>4

----------------------------------------------------------------------------

\* The inductive invariant holds in every reachable state.
THEOREM TransferInvariant == Spec => []TransferInv
  <1>1. Init => TransferInv
    <2> SUFFICES ASSUME Init PROVE TransferInv
      OBVIOUS
    <2>1. TypeOK /\ AcceptedInv /\ PrefixInv /\ WrittenInOrder
      BY TransferAssumption DEF Init, TypeOK, AcceptedInv, PrefixInv, WrittenInOrder
    <2>2. TakenInv /\ HeldInv /\ ReceivedAllOrNone
      BY DEF Init, TakenInv, HeldInv, ReceivedAllOrNone
    <2>3. WrittenAsGiven
      BY CountNone DEF Init, WrittenAsGiven, Follows
    <2> QED
      BY <2>1, <2>2, <2>3 DEF TransferInv
  <1>2. TransferInv /\ [Next]_vars => TransferInv'
    <2> SUFFICES ASSUME TransferInv, [Next]_vars PROVE TransferInv'
      OBVIOUS
    <2>1. TypeOK' /\ AcceptedInv' /\ PrefixInv' /\ WrittenInOrder' /\ TakenInv' /\ HeldInv'
      BY TypeStep, AcceptedStep, PrefixStep, OrderStep, TakenStep, HeldStep DEF TransferInv
    <2>2. WrittenAsGiven' /\ ReceivedAllOrNone'
      BY <2>1, WrittenStep, ReceivedStep DEF TransferInv
    <2> QED
      BY <2>1, <2>2 DEF TransferInv
  <1> QED
    BY <1>1, <1>2, PTL DEF Spec

\* The variables have their types, and neither process nor the native part writes past
\* the end of an array.
THEOREM TransferTypeCorrect == Spec => []TypeOK
  <1>1. TransferInv => TypeOK
    BY DEF TransferInv
  <1> QED
    BY <1>1, TransferInvariant, PTL

\* The server's buffer is in ascending order and within the cycle, whatever the listener
\* has returned.
THEOREM TransferWritesInOrder == Spec => []WrittenInOrder
  <1>1. TransferInv => WrittenInOrder
    BY DEF TransferInv
  <1> QED
    BY <1>1, TransferInvariant, PTL

\* The short messages that a listener returns reach the server in their order, none of them
\* left out or changed but for the ticks that are no int, and all of them if the cycle ends well.
THEOREM TransferWritesAsGiven == Spec => []WrittenAsGiven
  <1>1. TransferInv => WrittenAsGiven
    BY DEF TransferInv
  <1> QED
    BY <1>1, TransferInvariant, PTL

\* An input listener gets all three-byte messages of a cycle or none of them.
THEOREM TransferReceivesAllOrNone == Spec => []ReceivedAllOrNone
  <1>1. TransferInv => ReceivedAllOrNone
    BY DEF TransferInv
  <1> QED
    BY <1>1, TransferInvariant, PTL

=============================================================================
