------------------------------ MODULE LeaseLock ------------------------------
(***************************************************************************)
(* What the leader lease promises, free of handles, queues and requests:   *)
(* one lock with at most one holder, a term that counts the hand-overs     *)
(* since the lock was last free, and an instant until which the lock is    *)
(* granted.  Module Lease, the compare-and-swap protocol of the discovery  *)
(* crate over a lease store, implements it.                                *)
(***************************************************************************)
EXTENDS Integers

CONSTANTS
  Node,     \* the nodes that compete for the lock
  NoNode,   \* "nobody"
  TTL,      \* for how long a grant is given
  Slack     \* how far the clocks of two nodes may lie apart

VARIABLES
  time,     \* real time
  holder,   \* who holds the lock, or NoNode
  term,     \* 1 for the first holder of a free lock, + 1 for each take-over
  until     \* when the grant ends, on the holder's clock

lockVars == <<time, holder, term, until>>

\* A grant never ends later than one TTL after the latest clock.
Grant(u) == u \in Nat /\ u <= time + Slack + TTL

Init ==
  /\ time \in Nat
  /\ holder = NoNode
  /\ term = 0
  /\ until = 0

\* A free lock may be taken by anyone; its terms start again at 1.
Acquire(n) ==
  /\ holder = NoNode
  /\ holder' = n
  /\ term' = 1
  /\ Grant(until')
  /\ UNCHANGED time

\* The holder may push the end of its grant further away.
Extend(n) ==
  /\ holder = n
  /\ until' >= until
  /\ Grant(until')
  /\ UNCHANGED <<time, holder, term>>

\* Another node takes over, only once the grant has ended on its own clock.
TakeOver(n) ==
  /\ holder \notin {n, NoNode}
  /\ until < time + Slack
  /\ holder' = n
  /\ term' = term + 1
  /\ until' >= until
  /\ Grant(until')
  /\ UNCHANGED time

\* The lock is given back.
Drop ==
  /\ holder # NoNode
  /\ holder' = NoNode
  /\ term' = 0
  /\ until' = 0
  /\ UNCHANGED time

Advance ==
  /\ time' > time
  /\ UNCHANGED <<holder, term, until>>

Next ==
  \/ \E n \in Node : Acquire(n) \/ Extend(n) \/ TakeOver(n)
  \/ Drop
  \/ Advance

Spec == Init /\ [][Next]_lockVars
=============================================================================
