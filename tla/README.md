# A verification project for MidiIO4Java

MidiIO4Java lets Java programs exchange MIDI events with an audio server (JACK).
Its core is C++ under `native/`: a chain of ports that is worked on by a Java
thread, which calls the application's listeners, and by the audio server's
real-time thread, which reads and writes the server's buffers, while other
threads of the application open, close, add and remove ports. This project
models that core, the client of the audio server around it and the way of the
events through it in TLA+, checks them with TLC and proves the central properties
with TLAPS.

All paths below are relative to the root of the repository.

## 1. Inventory

| Component | Code | State it keeps | Operations | Model |
|---|---|---|---|---|
| Port | `native/port.hpp` | main state, running sub-state, `lastCycle`, first exception; one `timed_mutex`, one condition | `initialize`, `registerAtServer`, `start`, `execNativeCycleInit`, `execNativeProcess`, `execJavaProcess`, `waitForCycleDone`, `stop`, `unregisterAtServer`, `uninitialize`, `shutdown` | `PortOps`, `Port`, `PortLife` |
| Slots of the chain | `native/portchain.hpp` | which slot of `portList` holds which direction | `findSlotFor...`, `initialize`, `addPort`, `removePort` | `PortList` |
| Port chain | `native/portchain.hpp` | `portList`, chain state, `lastCycle`, `stateMutex`, `javaMutex` | `initialize` ... `shutdown`, `addPort`, `removePort`, `runJava`, `execJavaCycle`, `execNativeCycle` | `PortChain`, `ChainLife` |
| Pointer envelope | `native/ptrEnvelope.hpp` | the port in one slot, a use count | `makeAccessor`, `get`, end of an accessor, `setItemWait`, `removeItemWait` | `PtrEnvelope`, `SlotLease` |
| Port implementations | `native/JackInputPort.hpp`, `JackOutputPort.hpp`, `ControllPort.hpp` | global references, event buffers, JACK port | the `..._impl` procedures | outcomes in `Port` and `PortChain`, data in `MidiTransfer` |
| JACK client | `native/jackNative.cpp` | `clientId`, `isConnected`, `isActivated`, the chain, `activatedMutex` | `_open`, `_close`, `_run`, `_create...Port`, `_closePort`, `nativeProcess` | `JackClient` |
| System listener | `native/JackSystemListener.hpp` | its state, `ignoreCallback`, a Java reference, a mutex | `initialize`, `activate`, `shutdown`, callback `onPortConnect` | `JackSystemListener` |
| Java facade | `Implementation/MidiJackNative.java` | `openCloseLock`, `isRunnable`, `newPortID` | `open`, `start`, `close`, `create...Port`, port `close` | `JackClient` |
| Event transfer | `process` in the facade, `exec..._impl` of the two JACK ports | `int` arrays of 3 bytes per event, the server's buffers | one cycle in, one cycle out | `MidiTransfer` |
| Port information | `Implementation/InfoImpl.java` | fields of a record | accessors, text | not modelled, see 5 |
| System manager | `MidiSystemManager.java` | one instance per binding | look-ups | not modelled: no behaviour beyond the choice |
| Windows binding | `windowsNative.cpp`, `MidiWindowsNative.java` | none | lists devices, otherwise throws | not modelled |
| Exceptions, messages, helpers | `processException.hpp`, `messages.hpp`, `util.hpp`, exception classes | none | - | not modelled: stateless |

How they interact. The application thread that calls `start()` of the facade
makes a Java worker, which calls `_run`: it starts the chain, activates the
client at the server and then stays in `runJava`. The server calls
`nativeProcess`, which runs one round: `execNativeCycleInit` on every port, then
`execNativeProcess` on every port. Meanwhile the Java worker walks over the same
array again and again with `execJavaProcess`. The walks take no mutex of the
chain; they look at a slot through an accessor of its envelope and they block
*inside* a port, on the port's own condition, when it is the other side's turn.
The first slot holds a control port whose callback is `onCycleStart`, the last
one a control port whose callback is `onCycleEnd`; inputs are kept before
outputs. Administrative operations hold the chain's `stateMutex`; `stop` waits
for the last port to terminate, then stops every port and waits for the Java
worker (`javaMutex`).

What is hard here: three kinds of threads share one condition per port; a port's
turn is an encoding in its sub-state; timeouts turn into forced stops while
callbacks are under way; ports are added and removed in front of and behind
walks in progress; a shutdown undoes whatever has been done so far; exceptions
end a port, but not the chain. `PROJECT.json` lists each hazard at its line.

What makes each component correct:

* Port: the two workers alternate; nobody sleeps through its event; the callback
  runs only between `onOpen` and `onClose`; the last cycle is announced, carried
  through and really is the last; `stop` ends cleanly or leaves an exception;
  nothing stays pinned or registered.
* Slots: inputs before outputs, control ports at the ends, holes are found.
* Chain: rounds do not overlap; a cycle is bracketed by the control ports; one of
  the two workers can always go on; the ports end together; removing and stopping
  end; every port fits the chain's state.
* Envelope: a port in use is not exchanged; the administrator is woken.
* Client and facade: no thread is left in a chain that is replaced; a chain with an
  exception in it is not thrown away silently; after `close` another `open` is
  possible; every call of the facade ends (for two of these see 3).
* Listener: no call reaches a listener that has been freed (it may, see 3).
* Event transfer: what the server gets is in order and is what the listener gave;
  what a listener gets is complete; no buffer overflows.

## 2. Modules

### PortOps
A port as a record `[output, state, substate, lastCycle, processException]`, and
each critical section of `port.hpp` as an operator on that record. Time codes and
MIDI data are left out. `processException` keeps the kind of the first exception:
of the Java callback, of the native access, of `throwCannot` ("illegal"), of the
forced stop, of a failed teardown, of a timed out lock.

### Port
One port and three threads. An action is what a thread does between acquiring
the port's mutex and releasing it or waiting. Only the process callback, which
may last, is two actions (`JavaEnters` within `JavaCall` and `JavaWakes`, and
`JavaReturns`), with `owner` in between. `sleepers` are the threads that wait on
`onStateChanged` and have not been notified; `notify_all` empties it; a wakeup may
also be spurious. A thread at "asleep" that is not among the sleepers has been
woken and re-evaluates its loop once the mutex is free. The Java worker's calls
follow `PortChain::runJava`; the native worker calls `execNativeCycleInit`,
`execNativeProcess` and `waitForCycleDone` in a loop, as `portTest.cpp` does and as
a round of the chain amounts to; the administrator calls any operation in any
state in which it does something. `listener` and `handle` record what the
implementation classes do to the Java listener and at the server; `lead` and
`sawLast` are history variables.

`Prompt` switches off the expiry of the timed waits, `LockTimeouts` switches on
the expiry of `waitLimit` in `execNativeProcess`. The other locks with that limit
throw without changing anything. The one in `execJavaProcess` is left out: for it the
port's mutex would have to be owned for ten seconds by a native access, or by a
`shutdown` in a listener's `onClose` that is as slow; its handler would then do what that
of `execNativeProcess` does.

### PortLife
What one port promises to whoever works with it, in four variables: its main states
come in order; the two workers take turns, in the order that its direction asks
for, each turn being one step; it fails only while a turn is due. Nothing waits,
wakes up or owns a mutex here. `Port` implements it (one port, everything that goes
on inside), and so does every slot of `PortChain` (many ports, in which a turn *is*
one step); `Enter` and `Leave` are a port that is put into a chain and taken out.

### PortList
The array by direction only. The two searches are predicates ("is `i` the slot
that is returned?"): each search returns the first hit of a scan, hence the largest
or the smallest candidate.

### PortChain
The chain with two walks and one administrator. A port is a value of `PortOps`.
A step of a walk is what it does with one port under that port's mutex. Two
abstractions are justified by `Port`: waiting inside a port is a guard, since no
wakeup is lost (`NoLostWakeup`), and a callback is one step, since `Port`, where it is
two, implements `PortLife`, where it is one (`KeepsPortLife`); the chain keeps to
`PortLife` in every slot (its own `KeepsPortLife`). A walk that is
blocked in a port keeps its accessor, so `Take` (the end of `removePort`) waits for
it or times out; a walk between two ports has none. That is `SlotLease`, which
`PtrEnvelope` implements and which every slot of the chain keeps to
(`KeepsLease` in `PtrEnvelope` and in `PortChainProofs`). The administrator is one thread, since operations hold
`stateMutex`; it is a program counter, for its operations wait in the middle.
The array is an instance of `PortList`: `addPort` uses its searches, and
`KeepsPortList` says that the chain implements it.
`_run` appears as one step (`start` and `jack_activate` under `activatedMutex`, then
`runJava`), `_close` as `Stop` ... `Join`, `Deactivate`, `Shutdown`. `activated` is the
server's promise: it calls `nativeProcess` between `jack_activate` and
`jack_deactivate`, and the latter waits for a call under way.

### PtrEnvelope and SlotLease
The envelope of one slot with any number of accessors and one administrator
(the chain's mutex serialises them), its wait set and its timeouts. A timeout
throws even when a notification has come meanwhile, as in the code. `SlotLease`
is the promise: the item is exchanged only while nobody has it on lease.

### ChainLife
What a chain promises to its owner, in three variables: its states come in order,
and a Java worker that is in `runJava` stays there until `stop` has announced the
last cycle; a chain that has been shut down may be replaced by a fresh one.
`PortChain` implements it, `JackClient` relies on it and keeps to it (see 4).

### JackSystemListener
The state and the actions of the listener. The notification thread tests
`ignoreCallback` without a lock (`onPortConnect`), then takes `stateMutex` and calls
Java on whatever reference it finds (`NotifierCalls`); "callsNull" is a call on the
reference that `shutdown` has reset. `ListenerAsks` lets the application's
`onConnectionChanged` call the facade.

### JackClient
The facade, the client and their threads; it extends `JackSystemListener`. `app` is
the thread that owns `openCloseLock`, as a program counter: `open`, `close` and `start`
are taken apart wherever another thread can come in between. Each `runner` is a
thread that `start` has made, through the unlocked tests of `_run`, `activatedMutex`,
the unlocked use of `jackPortChain` and `runJava`; it remembers which chain it has got
hold of, and so do `native` (the server's process thread, whose calls may come late,
as the comment in `_close` warns) and `closer` (a thread in `_closePort`, which takes no
lock of the facade). `chain` is the port chain by its state: `id` counts the chains,
`last` and `ended` are the two ends of the last cycle, `cycled` is whether there has
been a cycle, `jammed` is whether a port has been left behind in a state in which
every teardown fails. `faults` are the ports that hold an exception.
`errorDeactivate`, `processException` and `inShutdown` are local variables of `close`:
what it throws at its end, and in which order, is `CloseEnds`. A runner at "asks" is
in a callback that calls the facade, and so owns its port's mutex until the facade
answers; at "asksLast" the callback is `onCycleEnd` and the mutex that of the end
control, which `start`, `stop` and the process thread need before they come to any
timed wait. `overdue` and `report` are history variables: the runners that a `start` or a
`close` has given up on after its timeout, and what has become of the exceptions in the
chain that was replaced last. `server` is the server's view of each client it has
granted.
Timed waits may expire whenever the code may see them expire; the locks with `waitLimit`
(10 s) are taken as long enough, except where a callback can last for ever: in a
port's `close`, in the process thread and in `Join`. What a thread does in a chain that
has been freed is undefined; in the
model it may leave, or do nothing, and the properties say when a thread is in one.

### MidiTransfer
One input port and one output port, cycle after cycle: the native part of the input
(`Read`), its Java part (`Build`, `Deliver`), the Java part of the output (`Ask`,
`Transfer`) and its native part (`Write`), one event per step, each with its
exceptions. A message belongs to a class: three bytes, two bytes, or no short
message. `ToInt` is Java's conversion of a `long` tick to an
`int`, which is one of the numbers from `-MaxInt - 1` to `MaxInt`.

### The proof modules
`PortOpsProofs` has the lemmas on the operators of `PortOps`, which `PortProofs` and
`PortChainProofs` both rest on; `LockStepProofs` goes on from `PortChainProofs` with
what needs to know how far the two walks are apart; `PortListProofs`,
`PtrEnvelopeProofs`, `JackClientProofs` and `MidiTransferProofs` belong to the modules
of the same name.

## 3. Runs

| Run | Instance | What it shows |
|---|---|---|
| `Port` | one port of either direction, timeouts on | `TypeOK`, `FlipFlop`, `NoLostWakeup`, `NoIllegalStep`, `CallbackContract`, `NothingLeaks`, `LastIsLast`, `StopIsClean`, `KeepsPortLife` |
| `PortLive` | prompt workers, lock timeouts on | `CycleCompletes`, `StopReturns`, `WorkersReleased` |
| `PortLockTimeout` | lock timeouts on | `SubstateFitsState` does not hold |
| `PortList` | 6 slots | `InputsFirst`, `HolesAreReused` |
| `PtrEnvelope` | 3 accessors, 2 ports | `NoDanglingPort`, `NoLostWakeup`, `KeepsLease` |
| `PortChain` | 4 slots, 2 new ports, failures, timeouts, refused registrations | `NoXrun`, `WalksGoOn`, `EndsTogether`, `NoIllegalStep`, `CycleIsBracketed`, `KeepsPortList`, `KeepsPortLife`, `KeepsChainLife` |
| `PortChainLive` | 4 slots, 2 new ports, failures, prompt | `PortsFitChain`, `RoundEnds`, `RemoveReturns`, `StopReturns` |
| `PortChainForced` | as above, no failures | `NobodyForced` does not hold |
| `PortChainRegister` | registration refused | `PortsFitChain` does not hold |
| `JackClient` | 1 runner at a time, 2 clients granted, 1 port, callbacks call the facade | `NativeInLiveChain`, `WorkerInLiveChain`, `NullCallIsOvertaken`, `FaultIsNotSilent`, `ReadyToOpen`, `KeepsChainLife`, `FacadeReturns` |
| `JackClientDeadlock` | 1 runner, 1 client, callbacks and the system listener call the facade | `CloseReturns` does not hold |
| `MidiTransfer` | 3 classes of messages, 4 ticks, `MaxInt` = 3, buffers of 2, lists of 3 | `TypeOK`, `WrittenInOrder`, `WrittenAsGiven`, `ReceivedAllOrNone` |

Bounds. A port has no unbounded state: `Port` is explored completely, with any
number of cycles. Six slots are four ordinary ones: enough for inputs and outputs
to meet in the middle, with a hole on either side. A chain of four slots has the
two control ports and two ordinary slots, so that a port can be in front of a
walk while the other one is behind it, input and output can both be present, and
a slot can be used again: `MaxNew` = 2 ports are created in all. More slots add
ports that behave like those. Three accessors are the two walks and one of the
administrator's own; two ports let one be exchanged for the other. The chain may
come to rest (`CHECK_DEADLOCK FALSE`): nobody has to call it, and a chain that has
been shut down is replaced. The same holds for an array that is full and stopped.
A port's life ends with the explicit step `Finished`, so there deadlock is checked.
`JackClient`: two clients are two sessions, so that threads of the first one meet the
second one's chain; one runner slot is reused, and it may still be occupied by the
runner of the session before. The proofs are for any number of runners, sessions and
ports. It may come to rest like the chain. `MidiTransfer`: a list of three events
overflows a buffer of two; with the ints from -4 to 3, the ticks 0, 2, 7 and 9 and a cycle
of two ticks there are ticks in range, out of range, negative as an int, and in range
only as an int. Events of other clients come only while our own port is silent;
what an input port does with a buffer does not depend on who has filled it.

Fairness. `Port`: weak fairness of each worker's next step and of a `stop` or
`shutdown` that has been entered; callbacks return. `PortChain`: weak fairness of
the Java worker, of the process thread (the server calls it for every period
while activated) and of an operation that has begun. All of these are threads in
loops of their own, and a thread that is notified, or whose condition has become
true, gets the mutex eventually. Nobody is assumed to call `stop`, `addPort` or
any other operation. Weak fairness of the workers as a whole is enough, since
each has at most one enabled action at a time.
`JackClient`: every thread that has begun something goes on with it, callbacks return
unless they wait for a lock, and a mutex that becomes free again and again is
acquired in the end (strong fairness of the facade's thread and the process thread,
which compete with others for the mutexes). Nobody is assumed to begin a session, a
cycle or a notification, nor the server to refuse `jack_deactivate`
(`DeactivateRefused`).
Liveness of the chain is stated with `Prompt`: the waits do not expire as long as a worker can
still end them, so that the properties do not hold merely by timeout.

Properties of the chain that speak of the order of callbacks, and `WalksGoOn`, are
stated while the start control is running (`InStep`). A forced stop stops that port first; then
nothing keeps the two walks in step any more.

### Where the code and its documentation disagree

* `PortLockTimeout`: a callback that lasts longer than `waitLimit` (10 s) makes
  `execNativeProcess` throw, and its handler calls `emergencyStop` without owning
  the mutex (`port.hpp:597-601`, `645-648`). When the callback returns, the port that
  has been stopped gets a sub-state again, against `port.hpp:105` and `190`.
* `PortChainForced`: a port that is added during the last round is stopped by force
  and reports "Port did not terminate.", against `portchain.hpp:339`.
* `PortChainRegister`: a registration that fails half way leaves ports registered in
  a chain that is not, against `portchain.hpp:412`.
* `JackClientDeadlock`, callbacks of the Java worker: a listener is called with the mutex
  of its port held (`port.hpp:490-515`). If it calls the facade during a `close`, it waits for
  `openCloseLock`, which `close` owns, and `stop` of the chain waits for that port's mutex,
  without a limit and also when it is to force the port (`port.hpp:658`, called at
  `portchain.hpp:360`; for `onCycleEnd` already in `waitForTerminatedSubstate`,
  `port.hpp:869`). No timeout releases it, against `port.hpp:655` and `672`.
* `JackClientDeadlock`, the system listener: `onConnectionChanged` is called with the
  listener's mutex held (`JackSystemListener.hpp:242-250`), which `close` waits for
  (`jackNative.cpp:229`), again without a limit. In the counterexample that TLC gives both
  callbacks are under way and `close` has come to `stop`; with `CallbackAsks` or
  `ListenerAsks` set to `FALSE` in the `.cfg` one sees each by itself.

Four more are promises of a comment that the models refute; they are formulas of their
modules, but not in a run. Each is refuted when it is added to the INVARIANTS of the run
named here.

* `FaultIsReported` (`JackClient`): when the server refuses `jack_deactivate` or
  `jack_client_close`, `_close` throws that error before it comes to re-throw the
  exception of a port (`jackNative.cpp:233-243`); the latter is gone with its chain,
  against `MidiInputPortListener.java:41`. `FaultIsNotSilent` says what does hold: an
  application whose port has failed gets one error or another.
* `NoNullCall` (`JackClient`): a notification that has passed its unlocked test may call
  Java on a null reference, although the comment in `deactivate_impl` says that the state
  is always checked (`JackSystemListener.hpp:194`). `NullCallIsOvertaken` says that it
  takes this race.
* `ControlSlotsReserved` (`PortList`): before the control ports are in place the searches
  for a slot give the first and the last slot away, against `portchain.hpp:449` and
  `tests/portchainTest.cpp:210`. `initialize` then throws (`InputsFirst` speaks of
  initialized chains), and if it is the last slot that is taken, it leaves the start
  control behind and will throw again.
* `WrittenAtItsTick` (`MidiTransfer`): a tick outside the range of an `int` is converted
  before it is tested (`MidiJackNative.java:519`), so the event may be written at another
  time inside the cycle, against `MidiJackNative.java:481`. `WrittenInOrder` and
  `WrittenAsGiven` say what holds of the converted ticks.

`FacadeReturns` is what remains of `CloseReturns` when callbacks call the facade: open,
start and close end, unless they wait for a thread that itself waits for `openCloseLock`
(`Blocked`). So these waits are the only ones without an end.

One more is seen in the model without a run of its own: a thread in a port's `close` may
be left in a chain that `close` of the system has freed (`closer.chain` differs from
`chain.id`); no sentence of the code speaks of it.

## 4. Proofs

All theorems hold for every value of the constants that satisfies the named
assumptions; those about `Port` assume `LockTimeouts = FALSE` (with it, the type
invariant is false: see above).

`Port`: the properties are not inductive. What is needed besides them is what each
thread may find where it is. `PortInv` is the conjunction of
`TypeOK`; `ControlInv` (the callback owns the mutex; only waiting threads are
sleepers); `AfterStart` (workers are in a port only after `start`, which happens
once); `TurnInv` (`lead` is a function of direction and sub-state); `NativeInv` (the
sub-states the native worker can meet at each of its places, from which no
"Cannot ..." follows); `LastInv` (a last callback is followed by nothing but the
end of its cycle); `ResourceInv` (listener and registration by main state); and
`NoLostWakeup`. `PortProofs` shows `Init => PortInv` and, action by action,
`PortInv /\ [Next]_vars => PortInv'`; the properties follow, `LastIsLast` and
`StopIsClean` as step properties under `PortInv`. So does the refinement:
`KeepsPortLife` maps each action to one step of `PortLife` or to none. A callback
maps to its end (`JavaReturns`); that the port still is where the callback
began, although threads come and go meanwhile, is `ControlInv`: nobody else has had
the mutex.

`PortList`: `ListInv` says that between the control slots no output precedes an
input, whatever the state. It is kept by adding because a new output goes in front
of an output, or into the last ordinary slot, and likewise for inputs.
`InputsFirst` follows since in an initialized chain the two ends hold the control
ports. `HolesAreReused` takes an induction over the slots: of all the holes on the
wrong side of the question the nearest one is looked at (`FirstSlot`, `LastSlot`, from
the library's theorem that the naturals are well-founded), and its neighbour makes it a
candidate. Proved for every `MAX_PORTS >= 4`; the code has 512.

`PtrEnvelope`: the count equals the cardinality of the set of accessors
(`EnvelopeInv`), for every finite set of accessors; hence the count is zero exactly
when nobody is left, and every step is a step of `SlotLease` or stutters on it.

`PortChain`: `ChainInv` adds to the types where the administrator can be in which
state (`AdminInv`), that from `initialize` on the start control is in its slot and
stays quiet until the last cycle is announced (`StartInv`: it has not terminated,
and knows of no last cycle), and that a worker in `runJava` is in a running chain or
the last cycle has been announced (`WorkerInv`). The heart is the notion that an
operator of `PortOps` *keeps* a port (`Keeps` in `PortOpsProofs`): type and direction
stay, and a quiet port stays quiet unless the operator announces the end. Every
operator keeps its port, hence every step of the chain keeps all of them (`Moved`),
and `KeepsChainLife` follows: the worker leaves only when the start control has
terminated or the chain is no longer running. `KeepsPortList` follows in the same way
(`ListStep`): a kept port is of the same kind, and only `initialize`, `addPort` and the
end of `removePort` put another kind into a slot. `LeaseInv` says that a worker
is blocked only in a slot that has a port, and `KeepsLease` follows: `Take` waits for the
workers to leave, and `addPort` needs an empty slot. `EndInv` adds that an unfinished cycle
of the end control means that the process thread has still to come to it, which is
`NoXrun`: a round ends with the end control.

The two walks (`LockStepProofs`): `StepInv` adds `PlaceInv` (who can be where, whatever
happens) and, as long as the start control runs, `LockInv`. Its first part, `RoundInv`,
says for each slot which sub-states the process thread leaves or finds there, depending
on whether it is before or behind that slot, and in which walk of its round
(`Expected`). `WalkInv` says that nothing behind the Java worker awaits it in this
cycle, that it is past the start control exactly as long as the start control has had
its callback and the end control has not, and that nothing at all awaits it once the
end control has been called. That is why a new round, which begins only when the end
control is done, finds every port at rest. `LastInv` says the same of the last cycle:
behind a worker that has read the last-cycle flag, and everywhere once the end control
is about to terminate, every port has ended. Each step of a worker is shown to keep
`LockInv`; all steps of the administrator but `start` are `Undisturbed`, they end a port
or put one where neither walk waits, and that suffices. `NoIllegalStep`,
`CycleIsBracketed` and `EndsTogether` follow. `PortsFitChain` has an invariant of its own
(`FitInv`: `stop` leaves stopped ports behind, `removePort` takes out what it has made
deletable) and the only theorem of the chain with a hypothesis: `Prompt` and not
`RegisterFails`; the run `PortChainRegister` shows why.

`WalksGoOn` needs one thing more (`GoInv`): in an open cycle, a running port that the Java
worker has yet to pass awaits its callback or has ended. Suppose that both workers were
stuck. The process thread waits in its second walk, so in an output port, for the
callback, and the end control's cycle is open (`NativeAwaitsJava`). Had the Java worker not
begun its walk, then the start control would be ready for it. Had it begun, then it would be
blocked in front of that port, in a port that the process thread has passed already; what is
passed and not ended is either ready for the Java worker or done with its cycle, and
neither is a port to be blocked in. If no round is under way, then the end control is at
rest, and a new round is free to begin.

`KeepsPortLife` of the chain takes no start control: `TurnsInv` says that the process
thread comes only to ports whose cycle it has opened and that have not been brought back
to rest meanwhile (`ToCome`, `Opened`), which holds in a forced stop as well, and that
`removePort` and `stop` find the port they work on in a state that allows it. With it
every step of the chain is, slot by slot, one step of `PortLife` or none.

`JackClient`: `ClientInv` is the conjunction of the types; `SessionInv` (what `open`
and `close` know of the chain at each of their steps); `RoundInv` (a round under way
keeps `close` from replacing the chain); `RunnerInv` (where a runner can be that a
`start` or a `close` still waits for; one that has been given up on may be anywhere);
`NotifierInv` (a notification that can find no listener has been overtaken); `ReportInv`
(while a close has exceptions to report, it knows of them). From `ClientInv`
and `ReadyInv` (when nobody is connected, the chain and the listener are as new, or what
a failed `open` has left) follow all safety properties of the run, and that each chain is
used as `ChainLife` says. Together with `KeepsChainLife` of `PortChain` this is an
assume/guarantee argument by hand: what `JackClient` assumes of its chain (`RunLeaves`
waits for the announcement; states change in order) is what `PortChain` is proved to
do. The composition itself is not a theorem.

`MidiTransfer`: `TransferInv` says that the accepted events are in range (`AcceptedInv`),
that the server's buffer is a prefix of them, each not earlier than the one before
(`PrefixInv`), that the arrays hold exactly the short messages among the events that
`process` has passed (`TakenInv`), and that the input's buffer holds exactly the messages
of three bytes among those that the native part has passed (`HeldInv`). Where an event
has its place is the number of events of its class up to it (`Count`, a cardinality), so
these take lemmas on counting (`CountStep`, `CountOrder`) in place of an induction over
a filtered sequence; that the conversion of ticks keeps them modulo the range of an int is
`ToIntCongruent`. All four properties of the run are proved, for every capacity, every
`MaxInt` and every set of ticks.

The types of `PtrEnvelope`, `PortChain` and `JackClient` (`TypeOK`) and `KeepsLease` of the
chain are proved and in no run.

Only model-checked: the liveness properties (`CycleCompletes`, `StopReturns`,
`WorkersReleased`, `RoundEnds`, `RemoveReturns`, `FacadeReturns`), for the prover handles
neither liveness under fairness nor ENABLED. Every other property of a passing run is a
theorem. What remains an argument by hand is the composition: that the
models of the parts, each proved to keep the promise the next one relies on (`PortLife`,
`SlotLease`, `PortList`, `ChainLife`), may be put together.

## 5. Not modelled

* The queries (`isAvailable`, counts and descriptions of ports, `isClosed`): they ask
  the server or the chain and change nothing.
* `InfoImpl` and `MidiSystemManager`: records of strings and a choice between two
  bindings, without a protocol.
* The Windows binding: it lists devices and throws for everything else.
* What the Java virtual machine does with the exception of a control port's callback
  that stays pending (`ControllPort.hpp:135`), and what a thread does with freed
  memory: both are outside the source.
* `waitLimit` (10 s) expiring in the chain's own operations, and the destructors.
* The bytes of a message: they are copied, never computed with.
* Several ports in the event transfer: the ports do not share a buffer, and how their
  cycles interleave is `PortChain`'s subject.

What would be worth adding next: a module in which the client of `JackClient` drives
the chain of `PortChain` itself, so that the assume/guarantee argument of section 4
becomes a theorem.
