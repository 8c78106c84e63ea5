------------------------- MODULE JackSystemListener -------------------------
(***************************************************************************)
(* The system listener (native/JackSystemListener.hpp): it pins the        *)
(* application's listener object and lets a notification thread of the     *)
(* audio server call it.  These are actions for JackClient, which says     *)
(* when its administrator takes them.                                      *)
(***************************************************************************)
CONSTANT
  ListenerAsks    \* onConnectionChanged may call a method of the facade

VARIABLES
  listener,       \* the listener's state
  systemListener, \* is the Java object pinned, or the reference NULL?
  ignoreCallback, \* read by the notification thread without a lock
  notifier        \* the notification thread: where it is, and whether the
                  \* listener has been shut down since its unlocked test

listenerVars == <<listener, systemListener, ignoreCallback, notifier>>

ListenerInit ==
  /\ listener = "uninitialized"
  /\ systemListener = FALSE
  /\ ignoreCallback = TRUE
  /\ notifier = [at |-> "idle", overtaken |-> FALSE]

\* The listener's stateMutex, which the notification thread keeps during the call.
ListenerFree == notifier.at \in {"idle", "tested"}

initialize ==
  /\ listener = "uninitialized"
  /\ listener' = "initialized"
  /\ systemListener' = TRUE
  /\ UNCHANGED <<ignoreCallback, notifier>>

\* initialize, then activate.
initializeAndActivate ==
  /\ listener = "uninitialized"
  /\ listener' = "activated"
  /\ systemListener' = TRUE
  /\ ignoreCallback' = FALSE
  /\ UNCHANGED notifier

\* Mutant: the callback is not told to ignore further notifications.
MutShutdownListener ==
  /\ listener' = "uninitialized"
  /\ systemListener' = FALSE
  /\ notifier' = [notifier EXCEPT !.overtaken = @ \/ notifier.at = "tested"]
  /\ UNCHANGED ignoreCallback

\* shutdown: deactivate_impl and uninitialize_impl, as far as they are due.
shutdownListener ==
  /\ listener' = "uninitialized"
  /\ systemListener' = FALSE
  /\ ignoreCallback' = (ignoreCallback \/ listener = "activated")
  /\ notifier' = [notifier EXCEPT !.overtaken = @ \/ notifier.at = "tested"]

----------------------------------------------------------------------------
(* onPortConnect and onPortConnect_impl. *)

NotifierAt(place) == notifier' = [notifier EXCEPT !.at = place]

\* A notification passes the unlocked test.
onPortConnect ==
  /\ notifier.at = "idle" /\ ~ignoreCallback
  /\ notifier' = [at |-> "tested", overtaken |-> FALSE]
  /\ UNCHANGED <<listener, systemListener, ignoreCallback>>

\* It takes the stateMutex and calls Java, whatever the listener's state is.
NotifierCalls ==
  /\ notifier.at = "tested"
  /\ NotifierAt(IF systemListener THEN "calls" ELSE "callsNull")
  /\ UNCHANGED <<listener, systemListener, ignoreCallback>>

\* onConnectionChanged calls the facade, isOpen for one.
NotifierAsks ==
  /\ ListenerAsks
  /\ notifier.at = "calls"
  /\ NotifierAt("asks")
  /\ UNCHANGED <<listener, systemListener, ignoreCallback>>

\* The call returns.  What a call on a NULL reference does is undefined; here it
\* returns as well.
NotifierReturns ==
  /\ notifier.at \in {"calls", "callsNull", "asks"}
  /\ notifier' = [at |-> "idle", overtaken |-> FALSE]
  /\ UNCHANGED <<listener, systemListener, ignoreCallback>>

----------------------------------------------------------------------------

ListenerTypeOK ==
  /\ listener \in {"uninitialized", "initialized", "activated"}
  /\ systemListener \in BOOLEAN /\ ignoreCallback \in BOOLEAN
  /\ notifier \in [at : {"idle", "tested", "calls", "callsNull", "asks"}, overtaken : BOOLEAN]

\* No notification calls Java on a reference that has been reset, "because
\* onPortConnect_impl will always check the state variable before accessing the java
\* listener" (comment in deactivate_impl).  It does not check it, and there is such a call.
NoNullCall == notifier.at # "callsNull"

\* A notification that calls Java on a NULL reference is one that had passed the
\* test of ignoreCallback before the listener was shut down; none that comes later
\* gets that far (comment in deactivate_impl: "further callbacks will be ignored").
NullCallIsOvertaken == notifier.at = "callsNull" => notifier.overtaken

==============================================================================
