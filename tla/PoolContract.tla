----------------------------- MODULE PoolContract -----------------------------
(***************************************************************************)
(* What src/pool.rs promises to the code above it: at most pool_size       *)
(* connections are lent at a time, each to one borrower; a connection that *)
(* is given back settles in the idle set in a later step of its own, and   *)
(* only while the pool is open; once closed, the idle set only shrinks.    *)
(* Locks, the semaphore and the order of the idle stack are gone: ConnPool *)
(* implements this module, and the client is specified on top of it.       *)
(*                                                                         *)
(* It promises no more than the code keeps.  The number of connections is  *)
(* not bounded by PoolSize, because a borrower may be given a new one      *)
(* while others are on their way back; and a borrower may be served after  *)
(* the pool was closed, because get() tests the flag before it queues.     *)
(***************************************************************************)
EXTENDS Naturals, FiniteSets

CONSTANTS
  Tasks,     \* borrowers
  Conns,     \* sockets that can be open at once (the bound of the model)
  NoConn,    \* what lent[t] is when t has no guard
  PoolSize   \* PoolOptions.pool_size

VARIABLES
  closed,     \* close() has begun
  idle,       \* the set of connections in ConnPool.idle
  returning,  \* connections owned by a put() task
  lent,       \* lent[t]: the connection behind task t's PoolGuard
  removed     \* connections taken out by PoolGuard::remove

contractVars == <<closed, idle, returning, lent, removed>>

Borrowers == {t \in Tasks : lent[t] # NoConn}

InUse == idle \cup returning \cup removed \cup {lent[t] : t \in Borrowers}

Init ==
  /\ closed = FALSE
  /\ idle = {}
  /\ returning = {}
  /\ lent = [t \in Tasks |-> NoConn]
  /\ removed = {}

\* get() hands connection c to task t.
Lend(t, c) ==
  /\ t \notin Borrowers
  /\ Cardinality(Borrowers) < PoolSize
  /\ lent' = [lent EXCEPT ![t] = c]

Reuse(t, c) ==
  /\ c \in idle
  /\ Lend(t, c)
  /\ idle' = idle \ {c}
  /\ UNCHANGED <<closed, returning, removed>>

Connect(t, c) ==
  /\ c \in Conns \ InUse
  /\ Lend(t, c)
  /\ UNCHANGED <<closed, idle, returning, removed>>

Release(t) ==
  /\ t \in Borrowers
  /\ lent' = [lent EXCEPT ![t] = NoConn]

\* PoolGuard::drop of a connection whose read buffer is empty ...
GiveBack(t) ==
  /\ Release(t)
  /\ returning' = returning \cup {lent[t]}
  /\ UNCHANGED <<closed, idle, removed>>

\* ... and of one that has unread data: the socket is closed.
Discard(t) ==
  /\ Release(t)
  /\ UNCHANGED <<closed, idle, returning, removed>>

\* PoolGuard::remove.
Detach(t) ==
  /\ Release(t)
  /\ removed' = removed \cup {lent[t]}
  /\ UNCHANGED <<closed, idle, returning>>

DropDetached(c) ==
  /\ c \in removed
  /\ removed' = removed \ {c}
  /\ UNCHANGED <<closed, idle, returning, lent>>

\* put() in one step: the test of `closed' and the push are not separable.
Settle(c) ==
  /\ c \in returning
  /\ ~closed
  /\ returning' = returning \ {c}
  /\ idle' = idle \cup {c}
  /\ UNCHANGED <<closed, lent, removed>>

\* put() finds the pool closed.
DropReturning(c) ==
  /\ c \in returning
  /\ closed
  /\ returning' = returning \ {c}
  /\ UNCHANGED <<closed, idle, lent, removed>>

\* get() meets an expired connection.
Evict(c) ==
  /\ c \in idle
  /\ idle' = idle \ {c}
  /\ UNCHANGED <<closed, returning, lent, removed>>

\* The two halves of close().
SetClosed ==
  /\ closed' = TRUE
  /\ UNCHANGED <<idle, returning, lent, removed>>

ClearIdle ==
  /\ closed
  /\ idle' = {}
  /\ UNCHANGED <<closed, returning, lent, removed>>

Next ==
  \/ \E t \in Tasks :
       \/ \E c \in Conns : Reuse(t, c) \/ Connect(t, c)
       \/ GiveBack(t) \/ Discard(t) \/ Detach(t)
  \/ \E c \in Conns :
       Settle(c) \/ DropReturning(c) \/ Evict(c) \/ DropDetached(c)
  \/ SetClosed
  \/ ClearIdle

Spec == Init /\ [][Next]_contractVars
=============================================================================
