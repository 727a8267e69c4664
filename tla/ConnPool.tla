------------------------------- MODULE ConnPool -------------------------------
(***************************************************************************)
(* The connection pool of rust-redis-rs (src/pool.rs): ConnPool::get, put  *)
(* and close, PoolGuard::drop and remove, run by any number of Tokio       *)
(* tasks.                                                                  *)
(*                                                                         *)
(* A step is the code between two await points.  Of the two mutexes only   *)
(* `closed' is ever held across an await (put() keeps it while it waits    *)
(* for `idle'), so only that one is a variable: every critical section of  *)
(* `idle', and those of `closed' in get() and close(), run to their end    *)
(* without waiting and are part of one atomic step.                        *)
(***************************************************************************)
EXTENDS Naturals, Sequences, FiniteSets, Functions

CONSTANTS
  Tasks,        \* application tasks that use the pool
  Conns,        \* sockets that can be open at once (the bound of the model)
  NoConn,       \* Option::None where an Option<Connection> is expected
  PoolSize,     \* PoolOptions.pool_size
  IdleTimeout,  \* PoolOptions.idle_timeout is Some(_)
  HasInit,      \* PoolOptions.init_conn is Some(_): a password or a database
  MayCancel     \* tasks may drop a get() or close() future they are awaiting

ASSUME PoolSizeAssumption == PoolSize \in Nat

ASSUME TasksAssumption == IsFiniteSet(Tasks)

ASSUME NoConnAssumption == NoConn \notin Conns

ASSUME OptionsAssumption == {IdleTimeout, HasInit, MayCancel} \subseteq BOOLEAN

\* One put() task exists per connection at most, so the connection names it.
VARIABLES
  closed,      \* the flag inside ConnPool.closed
  closedLock,  \* the put() task that holds the `closed' mutex across an await
  permits,     \* permits available in ConnPool.semaphore
  idle,        \* ConnPool.idle; the last element is the top of the stack
  expired,     \* connections with used_at.elapsed() > idle_timeout
  unread,      \* unread[c]: Connection::buffer_size() > 0
  pc,          \* pc[t]: the await point (or the guard) at which task t stands
  guard,       \* guard[t]: the connection task t owns through get()
  putting,     \* putting[c]: the await point of the put() task of c
  removed      \* connections taken out for good by PoolGuard::remove

vars == <<closed, closedLock, permits, idle, expired, unread, pc, guard,
          putting, removed>>

\* The await points inside get() and close(), "hold" for a live PoolGuard and
\* "rest" for a task outside the pool.
GetPCs   == {"get_closed", "get_permit", "get_idle", "dial", "init"}
ClosePCs == {"close_closed", "close_idle"}
PCs      == {"rest", "hold"} \cup GetPCs \cup ClosePCs

\* Where a SemaphorePermit is alive: the local _permit of get(), or the field
\* of the guard.
PermitPCs == {"get_idle", "dial", "init", "hold"}

PutPCs == {"none", "spawned", "put_closed", "put_idle"}

Idle      == Range(idle)
Lent      == {guard[t] : t \in Tasks} \ {NoConn}
Returning == {c \in Conns : putting[c] # "none"}
Fresh     == Conns \ (Idle \cup Lent \cup Returning \cup removed)

TypeOK ==
  /\ closed \in BOOLEAN
  /\ closedLock \in Conns \cup {NoConn}
  /\ permits \in Nat
  /\ idle \in Seq(Conns)
  /\ expired \in SUBSET Conns
  /\ unread \in [Conns -> BOOLEAN]
  /\ pc \in [Tasks -> PCs]
  /\ guard \in [Tasks -> Conns \cup {NoConn}]
  /\ putting \in [Conns -> PutPCs]
  /\ removed \in SUBSET Conns

\* ConnPool::new.
Init ==
  /\ closed = FALSE
  /\ closedLock = NoConn
  /\ permits = PoolSize
  /\ idle = <<>>
  /\ expired = {}
  /\ unread = [c \in Conns |-> FALSE]
  /\ pc = [t \in Tasks |-> "rest"]
  /\ guard = [t \in Tasks |-> NoConn]
  /\ putting = [c \in Conns |-> "none"]
  /\ removed = {}

Goto(t, from, to) ==
  /\ pc[t] = from
  /\ pc' = [pc EXCEPT ![t] = to]

\* Dropping a Connection closes its socket: nothing of it is left.
Forget(c) ==
  /\ unread' = [unread EXCEPT ![c] = FALSE]
  /\ expired' = expired \ {c}

-----------------------------------------------------------------------------
(* ConnPool::get                                                             *)

GetCall(t) ==
  /\ Goto(t, "rest", "get_closed")
  /\ UNCHANGED <<closed, closedLock, permits, idle, expired, unread, guard,
                 putting, removed>>

\* Lock `closed', return Error::Closed if it is set, unlock.
GetClosed(t) ==
  /\ closedLock = NoConn
  /\ Goto(t, "get_closed", IF closed THEN "rest" ELSE "get_permit")
  /\ UNCHANGED <<closed, closedLock, permits, idle, expired, unread, guard,
                 putting, removed>>

\* Seeded fault: try_acquire whose failure is ignored.
GetPermitUnchecked(t) ==
  /\ Goto(t, "get_permit", "get_idle")
  /\ permits' = permits - 1
  /\ UNCHANGED <<closed, closedLock, idle, expired, unread, guard, putting,
                 removed>>

\* semaphore.acquire(); nothing ever closes the semaphore.
GetPermit(t) ==
  /\ permits > 0
  /\ Goto(t, "get_permit", "get_idle")
  /\ permits' = permits - 1
  /\ UNCHANGED <<closed, closedLock, idle, expired, unread, guard, putting,
                 removed>>

Top == idle[Len(idle)]

\* Seeded fault: idle.last() instead of idle.pop().
PoppedNot == idle

Popped == SubSeq(idle, 1, Len(idle) - 1)

\* pc.used_at.elapsed() > timeout, with an idle_timeout configured.
Evictable(c) == IdleTimeout /\ c \in expired

\* idle.pop() yields a usable connection.
GetReuse(t) ==
  /\ idle # <<>>
  /\ ~Evictable(Top)
  /\ Goto(t, "get_idle", "hold")
  /\ idle' = Popped
  /\ guard' = [guard EXCEPT ![t] = Top]
  /\ expired' = expired \ {Top}
  /\ UNCHANGED <<closed, closedLock, permits, unread, putting, removed>>

\* Seeded fault: the loop goes round with a forgotten permit.
GetEvictKeepsPermit(t) ==
  /\ idle # <<>>
  /\ Evictable(Top)
  /\ Goto(t, "get_idle", "get_closed")
  /\ idle' = Popped
  /\ Forget(Top)
  /\ UNCHANGED <<closed, closedLock, permits, guard, putting, removed>>

\* idle.pop() yields an expired one: drop it and the permit, and loop.
GetEvict(t) ==
  /\ idle # <<>>
  /\ Evictable(Top)
  /\ Goto(t, "get_idle", "get_closed")
  /\ idle' = Popped
  /\ permits' = permits + 1
  /\ Forget(Top)
  /\ UNCHANGED <<closed, closedLock, guard, putting, removed>>

\* idle.pop() yields nothing.
GetMiss(t) ==
  /\ idle = <<>>
  /\ Goto(t, "get_idle", "dial")
  /\ UNCHANGED <<closed, closedLock, permits, idle, expired, unread, guard,
                 putting, removed>>

DialOk(t, c) ==
  /\ c \in Fresh
  /\ Goto(t, "dial", IF HasInit THEN "init" ELSE "hold")
  /\ guard' = [guard EXCEPT ![t] = c]
  /\ UNCHANGED <<closed, closedLock, permits, idle, expired, unread, putting,
                 removed>>

\* Seeded fault: the error path forgets its permit.
AbandonGetKeepsPermit(t, from) ==
  /\ Goto(t, from, "rest")
  /\ guard' = [guard EXCEPT ![t] = NoConn]
  /\ IF guard[t] = NoConn THEN UNCHANGED <<unread, expired>>
                          ELSE Forget(guard[t])
  /\ UNCHANGED <<closed, closedLock, permits, idle, putting, removed>>

\* The future ends with an error, or is dropped, while it owns a permit: the
\* permit and the connection, if there is one, are dropped with it.
AbandonGet(t, from) ==
  /\ Goto(t, from, "rest")
  /\ permits' = permits + 1
  /\ guard' = [guard EXCEPT ![t] = NoConn]
  /\ IF guard[t] = NoConn THEN UNCHANGED <<unread, expired>>
                          ELSE Forget(guard[t])
  /\ UNCHANGED <<closed, closedLock, idle, putting, removed>>

\* (self.dial)().await? fails: refused, or dial_timeout elapsed.
DialErr(t) == AbandonGet(t, "dial")

InitOk(t) ==
  /\ Goto(t, "init", "hold")
  /\ UNCHANGED <<closed, closedLock, permits, idle, expired, unread, guard,
                 putting, removed>>

\* init(conn).await? fails: the closure owns the connection and drops it.
InitErr(t) == AbandonGet(t, "init")

-----------------------------------------------------------------------------
(* PoolGuard                                                                 *)

\* The holder writes and reads: its BufReader ends up empty or not.
UseConn(t) ==
  /\ pc[t] = "hold"
  /\ unread' = [unread EXCEPT ![guard[t]] = ~@]
  /\ UNCHANGED <<closed, closedLock, permits, idle, expired, pc, guard,
                 putting, removed>>

\* Seeded fault: the test is missing.
ReturnableAlways(c) == TRUE

\* The test that PoolGuard::drop and put() both make before a connection may
\* go back.
Returnable(c) == ~unread[c]

\* PoolGuard::drop: spawn put(), or drop the connection; the permit, a field
\* of the guard, is released right after, before put() has run.  The release
\* touches nothing that put() does, so the two are one step.
DropGuard(t) ==
  /\ Goto(t, "hold", "rest")
  /\ IF Returnable(guard[t])
     THEN /\ putting' = [putting EXCEPT ![guard[t]] = "spawned"]
          /\ UNCHANGED <<unread, expired>>
     ELSE /\ Forget(guard[t])
          /\ UNCHANGED putting
  /\ guard' = [guard EXCEPT ![t] = NoConn]
  /\ permits' = permits + 1
  /\ UNCHANGED <<closed, closedLock, idle, removed>>

\* PoolGuard::remove: the caller keeps the connection, the permit is released.
RemoveGuard(t) ==
  /\ Goto(t, "hold", "rest")
  /\ removed' = removed \cup {guard[t]}
  /\ guard' = [guard EXCEPT ![t] = NoConn]
  /\ permits' = permits + 1
  /\ UNCHANGED <<closed, closedLock, idle, expired, unread, putting>>

\* The owner of a removed connection (PubSub) is dropped.
DropRemoved(c) ==
  /\ c \in removed
  /\ removed' = removed \ {c}
  /\ Forget(c)
  /\ UNCHANGED <<closed, closedLock, permits, idle, pc, guard, putting>>

-----------------------------------------------------------------------------
(* ConnPool::put, a task of its own                                          *)

\* The second buffer_size() test, then used_at = Instant::now().
PutStamp(c) ==
  /\ putting[c] = "spawned"
  /\ IF Returnable(c)
     THEN /\ putting' = [putting EXCEPT ![c] = "put_closed"]
          /\ expired' = expired \ {c}
          /\ UNCHANGED unread
     ELSE /\ putting' = [putting EXCEPT ![c] = "none"]
          /\ Forget(c)
  /\ UNCHANGED <<closed, closedLock, permits, idle, pc, guard, removed>>

\* Seeded fault: the lock of `closed' is released before the push.
PutClosedUnlocks(c) ==
  /\ putting[c] = "put_closed"
  /\ closedLock = NoConn
  /\ IF closed
     THEN putting' = [putting EXCEPT ![c] = "none"] /\ Forget(c)
     ELSE /\ putting' = [putting EXCEPT ![c] = "put_idle"]
          /\ UNCHANGED <<unread, expired>>
  /\ UNCHANGED <<closed, closedLock, permits, idle, pc, guard, removed>>

\* Lock `closed': drop the connection if it is set, else keep the lock.
PutClosed(c) ==
  /\ putting[c] = "put_closed"
  /\ closedLock = NoConn
  /\ IF closed
     THEN /\ putting' = [putting EXCEPT ![c] = "none"]
          /\ Forget(c)
          /\ UNCHANGED closedLock
     ELSE /\ putting' = [putting EXCEPT ![c] = "put_idle"]
          /\ closedLock' = c
          /\ UNCHANGED <<unread, expired>>
  /\ UNCHANGED <<closed, permits, idle, pc, guard, removed>>

\* Seeded fault: the lock of `closed' is never released.
PutPushKeepsLock(c) ==
  /\ putting[c] = "put_idle"
  /\ idle' = Append(idle, c)
  /\ putting' = [putting EXCEPT ![c] = "none"]
  /\ UNCHANGED <<closed, closedLock, permits, expired, unread, pc, guard,
                 removed>>

\* Lock `idle', push, release both locks.
PutPush(c) ==
  /\ putting[c] = "put_idle"
  /\ idle' = Append(idle, c)
  /\ putting' = [putting EXCEPT ![c] = "none"]
  /\ closedLock' = NoConn
  /\ UNCHANGED <<closed, permits, expired, unread, pc, guard, removed>>

-----------------------------------------------------------------------------
(* ConnPool::close                                                           *)

CloseCall(t) ==
  /\ Goto(t, "rest", "close_closed")
  /\ UNCHANGED <<closed, closedLock, permits, idle, expired, unread, guard,
                 putting, removed>>

\* Lock `closed'; return if it is already set, else set it; unlock.
CloseClosed(t) ==
  /\ closedLock = NoConn
  /\ Goto(t, "close_closed", IF closed THEN "rest" ELSE "close_idle")
  /\ closed' = TRUE
  /\ UNCHANGED <<closedLock, permits, idle, expired, unread, guard, putting,
                 removed>>

\* Seeded fault: close() returns without clearing `idle'.
CloseIdleSkipped(t) ==
  /\ Goto(t, "close_idle", "rest")
  /\ UNCHANGED <<closed, closedLock, permits, idle, expired, unread, guard,
                 putting, removed>>

\* Lock `idle' and clear it.
CloseIdle(t) ==
  /\ Goto(t, "close_idle", "rest")
  /\ idle' = <<>>
  /\ unread' = [c \in Conns |-> unread[c] /\ c \notin Idle]
  /\ expired' = expired \ Idle
  /\ UNCHANGED <<closed, closedLock, permits, guard, putting, removed>>

-----------------------------------------------------------------------------
(* Environment                                                               *)

\* idle_timeout passes for a connection that put() has stamped.
Expire(c) ==
  /\ IdleTimeout
  /\ c \in Idle \/ putting[c] \in {"put_closed", "put_idle"}
  /\ c \notin expired
  /\ expired' = expired \cup {c}
  /\ UNCHANGED <<closed, closedLock, permits, idle, unread, pc, guard, putting,
                 removed>>

\* The application drops the future of get() or close() at an await point that
\* owns nothing ...
CancelEarly(t) ==
  /\ MayCancel
  /\ pc[t] \in {"get_closed", "get_permit"} \cup ClosePCs
  /\ pc' = [pc EXCEPT ![t] = "rest"]
  /\ UNCHANGED <<closed, closedLock, permits, idle, expired, unread, guard,
                 putting, removed>>

\* ... or at one that owns a permit.
CancelLate(t) ==
  /\ MayCancel
  /\ \E from \in {"get_idle", "dial", "init"} : AbandonGet(t, from)

-----------------------------------------------------------------------------
GetStep(t) ==
  \/ GetClosed(t) \/ GetPermit(t) \/ GetReuse(t) \/ GetEvict(t) \/ GetMiss(t)
  \/ \E c \in Conns : DialOk(t, c)
  \/ DialErr(t) \/ InitOk(t) \/ InitErr(t)

CloseStep(t) == CloseClosed(t) \/ CloseIdle(t)

PutStep(c) == PutStamp(c) \/ PutClosed(c) \/ PutPush(c)

Next ==
  \/ \E t \in Tasks :
       \/ GetCall(t) \/ GetStep(t)
       \/ UseConn(t) \/ DropGuard(t) \/ RemoveGuard(t)
       \/ CloseCall(t) \/ CloseStep(t)
       \/ CancelEarly(t) \/ CancelLate(t)
  \/ \E c \in Conns : PutStep(c) \/ DropRemoved(c) \/ Expire(c)

Spec == Init /\ [][Next]_vars
-----------------------------------------------------------------------------
(* Properties                                                                *)

\* A socket has one owner.  No connection is lent by two guards, sits twice in
\* `idle', or is in `idle', in a put() task, behind a guard and outside the
\* pool at once, whatever get(), the spawned put(), eviction, close() and
\* cancelled futures do to each other.  Two owners would interleave their
\* requests and replies on one stream.
ConnExclusive ==
  /\ \A t, u \in Tasks : guard[t] = guard[u] /\ t # u => guard[t] = NoConn
  /\ \A i, j \in DOMAIN idle : idle[i] = idle[j] => i = j
  /\ Idle \cap Lent = {}
  /\ Idle \cap Returning = {}
  /\ Lent \cap Returning = {}
  /\ removed \cap (Idle \cup Lent \cup Returning) = {}

\* No permit is lost or made up: the permits left and the permits alive in a
\* get() call or a guard always add up to pool_size, over eviction (which loops
\* with a new permit), failed dials and AUTH, remove() and cancelled futures.
\* A leak would starve every later get().
PermitBalance ==
  permits + Cardinality({t \in Tasks : pc[t] \in PermitPCs}) = PoolSize

\* "Don't return connections with unread data": what sits in `idle' has an
\* empty read buffer, so a get() never hands out bytes of an earlier reply that
\* have already been read.
IdleHasNoUnread == \A c \in Idle : ~unread[c]

\* "Hold closed lock until after push to prevent race with close()": once the
\* pool is closed, `idle' never grows again.
NoReturnAfterClose == [][closed => Len(idle') <= Len(idle)]_vars

\* A task owns a connection exactly while get() initialises it or a guard is
\* alive: AUTH and SELECT never run on a connection somebody else can reach.
GuardInv == \A t \in Tasks : guard[t] # NoConn <=> pc[t] \in {"init", "hold"}

\* The put() task that waits for `idle' holds the lock of `closed', it is the
\* only one, and the pool has not been closed behind its back.
LockInv ==
  /\ \A c \in Conns : putting[c] = "put_idle" <=> closedLock = c
  /\ closedLock # NoConn => ~closed

\* Idle connections and those on their way back have an empty read buffer: the
\* test in drop() still holds when put() ends.
CleanInv == \A c \in Idle \cup Returning : ~unread[c]

\* close() clears `idle' only after it has set the flag.
ClosingInv == \A t \in Tasks : pc[t] = "close_idle" => closed

\* The inductive invariant from which the safety properties follow.
PoolInv ==
  /\ TypeOK
  /\ GuardInv
  /\ LockInv
  /\ ConnExclusive
  /\ PermitBalance
  /\ CleanInv
  /\ ClosingInv

\* The pool as its users see it: a borrower exists from the moment get()
\* returns a guard until the guard is dropped.
LentByGuards == [t \in Tasks |-> IF pc[t] = "hold" THEN guard[t] ELSE NoConn]

Contract == INSTANCE PoolContract
              WITH idle <- Idle, returning <- Returning, lent <- LentByGuards

\* The locks and the semaphore make the pool behave as PoolContract says: in
\* particular testing `closed' and pushing is one step to everybody else, and
\* no more than pool_size guards exist at a time.
ImplementsContract == Contract!Spec

-----------------------------------------------------------------------------
(* Fairness and liveness                                                     *)

\* The runtime polls every task that is ready; Tokio's Mutex and Semaphore
\* queue their waiters in order, so a waiter is not overtaken for ever (SF).
\* A dial ends within dial_timeout; AUTH and SELECT end because the server
\* answers or read_timeout is set; a holder ends its command and drops its
\* guard.  No task has to call get() or close().
Fairness ==
  /\ \A t \in Tasks :
       /\ SF_vars(GetClosed(t))
       /\ SF_vars(GetPermit(t))
       /\ WF_vars(GetReuse(t) \/ GetEvict(t) \/ GetMiss(t))
       /\ WF_vars(DialErr(t) \/ \E c \in Conns : DialOk(t, c))
       /\ WF_vars(InitOk(t) \/ InitErr(t))
       /\ WF_vars(DropGuard(t))
       /\ SF_vars(CloseClosed(t))
       /\ WF_vars(CloseIdle(t))
  /\ \A c \in Conns :
       /\ WF_vars(PutStamp(c))
       /\ SF_vars(PutClosed(c))
       /\ WF_vars(PutPush(c))

FairSpec == Spec /\ Fairness

\* Connections do not expire over and over for ever.  Without this a get() can
\* evict a connection, find the next one expired too, and so on.
ExpiriesEnd == <>[][~\E c \in Conns : Expire(c)]_vars

\* Every get() ends, with a guard or an error, although it waits for two locks
\* and a permit and gives the permit back to queue again after an eviction.
GetEnds ==
  ExpiriesEnd =>
    \A t \in Tasks : (pc[t] \in GetPCs) ~> (pc[t] \notin GetPCs)

\* Once closed, the pool gets rid of its idle connections for good: those
\* present, those on their way back, and those still lent.
CloseDrains == closed ~> [](idle = <<>>)

\* A connection that was given back does not stay in a put() task: its task is
\* not stuck behind the lock it shares with get() and close().
PutEnds == \A c \in Conns : (putting[c] # "none") ~> (putting[c] = "none")

-----------------------------------------------------------------------------
(* What the documentation promises and the code does not do                  *)

\* "Maximum connections in the pool" (ClientOptions::pool_size).  A guard
\* releases its permit before put() has run, so the next get() finds `idle'
\* empty, dials, and the pool ends up with more than pool_size connections.
IdleWithinPoolSize == Len(idle) <= PoolSize
=============================================================================
