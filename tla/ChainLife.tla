------------------------------ MODULE ChainLife ------------------------------
(***************************************************************************)
(* What a port chain promises to the client that owns it: it goes through  *)
(* its states in order, and a Java worker that is in runJava stays there   *)
(* until the last cycle has been announced.  A chain that is no longer     *)
(* needed is replaced by a fresh one.                                      *)
(***************************************************************************)
VARIABLES
  state,   \* the chain's state
  last,    \* has stop announced the last cycle?
  worker   \* is a Java worker in runJava?

vars == <<state, last, worker>>

Init == state = "created" /\ last = FALSE /\ worker = FALSE

Initialize == state = "created" /\ state' = "initialized" /\ UNCHANGED <<last, worker>>

RegisterAtServer == state = "initialized" /\ state' = "registered" /\ UNCHANGED <<last, worker>>

\* The worker may enter at once, and it does not leave.
Start == state = "registered" /\ state' = "running" /\ worker' \in {worker, TRUE} /\ UNCHANGED last

Announce == state = "running" /\ last' = TRUE /\ UNCHANGED <<state, worker>>

Stop == state = "running" /\ last /\ state' = "stopped" /\ UNCHANGED <<last, worker>>

\* The ports are un-registered and un-initialized; this may get stuck in between.
Shutdown ==
  /\ state # "running"
  /\ state' \in (IF state \in {"registered", "stopped"} THEN {"unregistered"} ELSE {}) \cup {"deletable"}
  /\ UNCHANGED <<last, worker>>

\* runJava may be entered at any time.
Enter == worker' = TRUE /\ UNCHANGED <<state, last>>

\* A worker that has come too late finds a chain that has been shut down.
Leave ==
  /\ last \/ state \in {"unregistered", "deletable"}
  /\ worker' = FALSE
  /\ UNCHANGED <<state, last>>

\* Another chain takes the place of this one.
Renew ==
  /\ state = "deletable"
  /\ state' = "created" /\ last' = FALSE /\ worker' = FALSE

Next ==
  \/ Initialize \/ RegisterAtServer \/ Start \/ Announce \/ Stop \/ Shutdown
  \/ Enter \/ Leave \/ Renew

Spec == Init /\ [][Next]_vars

==============================================================================
