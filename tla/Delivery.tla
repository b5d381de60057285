------------------------------- MODULE Delivery -------------------------------
(***************************************************************************)
(* What the migration of a folder promises about each of its messages,     *)
(* without sessions, connections or a database: a message reaches the      *)
(* destination at most once, it is confirmed only when it is there, and    *)
(* once confirmed it stays confirmed.  A message that is given up may have *)
(* reached the destination all the same: its last answer can be lost.      *)
(***************************************************************************)
EXTENDS Naturals

CONSTANT Message

VARIABLES
  copies,   \* copies[m]: how many copies of m the destination holds
  verdict   \* what the migration reports of m

vars == <<copies, verdict>>

Init ==
  /\ copies \in [Message -> {0, 1}]
  /\ verdict = [m \in Message |-> "open"]

Deliver(m) ==
  /\ copies[m] = 0
  /\ copies' = [copies EXCEPT ![m] = 1]
  /\ UNCHANGED verdict

\* A set of messages is confirmed together: one database transaction.
Confirm(ms) ==
  /\ \A m \in ms : copies[m] = 1 /\ verdict[m] = "open"
  /\ verdict' = [m \in Message |-> IF m \in ms THEN "confirmed" ELSE verdict[m]]
  /\ UNCHANGED copies

GiveUp(m) ==
  /\ verdict[m] = "open"
  /\ verdict' = [verdict EXCEPT ![m] = "given up"]
  /\ UNCHANGED copies

\* The operator asks for given-up messages to be tried again.
Requeue(ms) ==
  /\ \A m \in ms : verdict[m] = "given up"
  /\ verdict' = [m \in Message |-> IF m \in ms THEN "open" ELSE verdict[m]]
  /\ UNCHANGED copies

Next ==
  \/ \E m \in Message : Deliver(m) \/ GiveUp(m)
  \/ \E ms \in (SUBSET Message) \ {{}} : Confirm(ms) \/ Requeue(ms)

Spec == Init /\ [][Next]_vars
===============================================================================
