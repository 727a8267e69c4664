--------------------------- MODULE ConnPool_proofs ---------------------------
(* Proofs about ConnPool, for every pool_size and any number of tasks and    *)
(* connections: its invariants, and that it implements PoolContract.         *)
EXTENDS ConnPool, FiniteSetTheorems, SequenceTheorems, TLAPS

-----------------------------------------------------------------------------
(* The idle stack                                                            *)

\* Popping a nonempty stack: what is left is the stack without its last place.
LEMMA PopFacts ==
  ASSUME idle \in Seq(Conns), idle # <<>>
  PROVE  /\ Len(idle) \in Nat \ {0}
         /\ Top \in Conns
         /\ Popped \in Seq(Conns)
         /\ Len(Popped) = Len(idle) - 1
         /\ \A i \in 1..(Len(idle) - 1) : Popped[i] = idle[i]
  <1>1. Len(idle) \in Nat \ {0}
    BY EmptySeq
  <1>2. Top \in Conns
    BY <1>1, ElementOfSeq DEF Top
  <1>3. /\ Popped \in Seq(Conns)
        /\ Len(Popped) = Len(idle) - 1
        /\ \A i \in 1..(Len(idle) - 1) : Popped[i] = idle[i]
    <2> DEFINE n == Len(idle) - 1
    <2>1. n \in Nat /\ \A i \in 1..n : idle[i] \in Conns
      BY <1>1, ElementOfSeq
    <2> HIDE DEF n
    <2>2. /\ SubSeq(idle, 1, n) \in Seq(Conns)
          /\ Len(SubSeq(idle, 1, n)) = IF 1 <= n THEN n - 1 + 1 ELSE 0
          /\ \A i \in 1..(n - 1 + 1) : SubSeq(idle, 1, n)[i] = idle[1 + i - 1]
      BY <2>1, SubSeqProperties
    <2> DEFINE P == SubSeq(idle, 1, n)
    <2>3. P \in Seq(Conns) /\ Len(P) = n /\ \A i \in 1..n : P[i] = idle[i]
      <3>1. n - 1 + 1 = n /\ \A i \in 1..n : 1 + i - 1 = i
        BY <2>1
      <3> HIDE DEF P
      <3>2. Len(P) = IF 1 <= n THEN n ELSE 0
        BY <2>2, <3>1 DEF P
      <3>3. Len(P) = n
        BY <2>1, <3>2
      <3>4. \A i \in 1..n : P[i] = idle[i]
        BY <2>2, <3>1, Zenon DEF P
      <3>5. QED
        BY <2>2, <3>3, <3>4 DEF P
    <2>4. QED
      BY <2>3 DEF n, Popped
  <1>4. QED
    BY <1>1, <1>2, <1>3

\* The idle set holds connections.
LEMMA RangeOfIdle == idle \in Seq(Conns) => Idle \subseteq Conns
  BY LenProperties, ElementOfSeq DEF Idle, Range

\* The stack is a list without repetitions.
Injective(s) == \A i, j \in DOMAIN s : s[i] = s[j] => i = j

\* Popping takes exactly the top connection out of the idle set.
LEMMA PopIdle ==
  ASSUME idle \in Seq(Conns), idle # <<>>, Injective(idle)
  PROVE  /\ Range(Popped) = Idle \ {Top}
         /\ Injective(Popped)
         /\ Top \in Idle
  <1> DEFINE n == Len(idle)
  <1>1. /\ n \in Nat \ {0}
        /\ Popped \in Seq(Conns)
        /\ Len(Popped) = n - 1
        /\ \A i \in 1..(n - 1) : Popped[i] = idle[i]
    BY PopFacts
  <1>2. DOMAIN idle = 1..n /\ DOMAIN Popped = 1..(n - 1)
    BY <1>1, LenProperties
  <1>3. Idle = {idle[i] : i \in 1..n}
    BY <1>2 DEF Idle, Range
  <1>4. Range(Popped) = {idle[i] : i \in 1..(n - 1)}
    BY <1>1, <1>2 DEF Range
  <1>5. Top = idle[n]
    BY DEF Top
  <1> HIDE DEF n
  <1>6. \A i \in 1..n : i \in 1..(n - 1) \/ i = n
    BY <1>1
  <1>7. \A i \in 1..(n - 1) : i \in 1..n /\ i # n
    BY <1>1
  <1>8. n \in 1..n
    BY <1>1
  <1>9. Range(Popped) = Idle \ {Top}
    BY <1>2, <1>3, <1>4, <1>5, <1>6, <1>7, <1>8 DEF Injective
  <1>10. Injective(Popped)
    BY <1>1, <1>2, <1>7 DEF Injective
  <1>11. QED
    BY <1>3, <1>5, <1>8, <1>9, <1>10

\* Pushing a connection that is not in the stack.
LEMMA PushIdle ==
  ASSUME idle \in Seq(Conns), Injective(idle), NEW c \in Conns
  PROVE  /\ Range(Append(idle, c)) = Idle \cup {c}
         /\ c \notin Idle => Injective(Append(idle, c))
  <1> DEFINE n == Len(idle)
             P == Append(idle, c)
  <1>1. /\ n \in Nat
        /\ P \in Seq(Conns)
        /\ Len(P) = n + 1
        /\ \A i \in 1..n : P[i] = idle[i]
        /\ P[n + 1] = c
    BY AppendProperties, LenProperties
  <1>2. DOMAIN idle = 1..n /\ DOMAIN P = 1..(n + 1)
    BY <1>1, LenProperties
  <1>3. Idle = {idle[i] : i \in 1..n}
    BY <1>2 DEF Idle, Range
  <1>4. Range(P) = {P[i] : i \in 1..(n + 1)}
    BY <1>2 DEF Range
  <1> HIDE DEF n, P
  <1>5. \A i \in 1..(n + 1) : i \in 1..n \/ i = n + 1
    BY <1>1
  <1>6. \A i \in 1..n : i \in 1..(n + 1)
    BY <1>1
  <1>7. n + 1 \in 1..(n + 1)
    BY <1>1
  <1>8. Range(P) = Idle \cup {c}
    BY <1>1, <1>3, <1>4, <1>5, <1>6, <1>7
  <1>9. c \notin Idle => Injective(P)
    BY <1>1, <1>2, <1>3, <1>5 DEF Injective
  <1>10. QED
    BY <1>8, <1>9 DEF P

-----------------------------------------------------------------------------
(* Type correctness                                                          *)

USE DEF GetPCs, ClosePCs, PCs, PutPCs

\* Dropping a connection keeps the types of what is known about it.
LEMMA ForgetType ==
  ASSUME TypeOK, NEW c, Forget(c)
  PROVE  unread' \in [Conns -> BOOLEAN] /\ expired' \in SUBSET Conns
  BY DEF TypeOK, Forget

\* TypeOK is not inductive alone: remove() and drop() use guard[t], so a task
\* at "hold" must own a connection.
LEMMA TypeStep == TypeOK /\ GuardInv /\ [Next]_vars => TypeOK'
  <1> SUFFICES ASSUME TypeOK, GuardInv, [Next]_vars PROVE TypeOK'
    OBVIOUS
  <1> USE DEF TypeOK, Goto
  <1>1. ASSUME NEW t \in Tasks, GetCall(t) PROVE TypeOK'
    BY <1>1 DEF GetCall
  <1>2. ASSUME NEW t \in Tasks, GetClosed(t) PROVE TypeOK'
    BY <1>2 DEF GetClosed
  <1>3. ASSUME NEW t \in Tasks, GetPermit(t) PROVE TypeOK'
    BY <1>3 DEF GetPermit
  <1>4. ASSUME NEW t \in Tasks, GetReuse(t) PROVE TypeOK'
    BY <1>4, PopFacts DEF GetReuse
  <1>5. ASSUME NEW t \in Tasks, GetEvict(t) PROVE TypeOK'
    BY <1>5, PopFacts, ForgetType DEF GetEvict
  <1>6. ASSUME NEW t \in Tasks, GetMiss(t) PROVE TypeOK'
    BY <1>6 DEF GetMiss
  <1>7. ASSUME NEW t \in Tasks, NEW c \in Conns, DialOk(t, c) PROVE TypeOK'
    BY <1>7 DEF DialOk
  <1>8. ASSUME NEW t \in Tasks, NEW from, AbandonGet(t, from) PROVE TypeOK'
    <2>1. unread' \in [Conns -> BOOLEAN] /\ expired' \in SUBSET Conns
      BY <1>8, ForgetType DEF AbandonGet
    <2>2. QED
      BY <1>8, <2>1 DEF AbandonGet
  <1>9. ASSUME NEW t \in Tasks, InitOk(t) PROVE TypeOK'
    BY <1>9 DEF InitOk
  <1>10. ASSUME NEW t \in Tasks, UseConn(t) PROVE TypeOK'
    BY <1>10 DEF UseConn
  <1>11. ASSUME NEW t \in Tasks, DropGuard(t) PROVE TypeOK'
    <2>1. /\ unread' \in [Conns -> BOOLEAN]
          /\ expired' \in SUBSET Conns
          /\ putting' \in [Conns -> PutPCs]
      BY <1>11, ForgetType DEF DropGuard
    <2>2. QED
      BY <1>11, <2>1 DEF DropGuard
  <1>12. ASSUME NEW t \in Tasks, RemoveGuard(t) PROVE TypeOK'
    <2>1. guard[t] \in Conns
      BY <1>12 DEF RemoveGuard, GuardInv
    <2>2. QED
      BY <1>12, <2>1 DEF RemoveGuard
  <1>13. ASSUME NEW t \in Tasks, CloseCall(t) PROVE TypeOK'
    BY <1>13 DEF CloseCall
  <1>14. ASSUME NEW t \in Tasks, CloseClosed(t) PROVE TypeOK'
    BY <1>14 DEF CloseClosed
  <1>15. ASSUME NEW t \in Tasks, CloseIdle(t) PROVE TypeOK'
    <2>1. idle' \in Seq(Conns) /\ unread' \in [Conns -> BOOLEAN]
      BY <1>15 DEF CloseIdle
    <2>2. QED
      BY <1>15, <2>1 DEF CloseIdle
  <1>16. ASSUME NEW t \in Tasks, CancelEarly(t) PROVE TypeOK'
    BY <1>16 DEF CancelEarly
  <1>17. ASSUME NEW c \in Conns, PutStamp(c) PROVE TypeOK'
    BY <1>17, ForgetType DEF PutStamp
  <1>18. ASSUME NEW c \in Conns, PutClosed(c) PROVE TypeOK'
    <2>1. /\ unread' \in [Conns -> BOOLEAN]
          /\ expired' \in SUBSET Conns
          /\ putting' \in [Conns -> PutPCs]
          /\ closedLock' \in Conns \cup {NoConn}
      BY <1>18, ForgetType DEF PutClosed
    <2>2. QED
      BY <1>18, <2>1 DEF PutClosed
  <1>19. ASSUME NEW c \in Conns, PutPush(c) PROVE TypeOK'
    <2>1. idle' \in Seq(Conns)
      BY <1>19, AppendProperties DEF PutPush
    <2>2. QED
      BY <1>19, <2>1 DEF PutPush
  <1>20. ASSUME NEW c \in Conns, DropRemoved(c) PROVE TypeOK'
    BY <1>20, ForgetType DEF DropRemoved
  <1>21. ASSUME NEW c \in Conns, Expire(c) PROVE TypeOK'
    BY <1>21 DEF Expire
  <1>22. CASE UNCHANGED vars
    BY <1>22 DEF vars
  <1>23. QED
    BY <1>1, <1>2, <1>3, <1>4, <1>5, <1>6, <1>7, <1>8, <1>9, <1>10, <1>11,
       <1>12, <1>13, <1>14, <1>15, <1>16, <1>17, <1>18, <1>19, <1>20, <1>21,
       <1>22
       DEF Next, GetStep, CloseStep, PutStep, DialErr, InitErr, CancelLate

-----------------------------------------------------------------------------
(* Ownership by guards, and the lock of `closed'                             *)

LEMMA GuardStep == TypeOK /\ GuardInv /\ [Next]_vars => GuardInv'
  <1> SUFFICES ASSUME TypeOK, GuardInv, [Next]_vars PROVE GuardInv'
    OBVIOUS
  <1> USE NoConnAssumption DEF TypeOK, GuardInv, Goto
  <1>1. ASSUME NEW t \in Tasks, GetCall(t) \/ GetClosed(t) \/ GetPermit(t)
        PROVE  GuardInv'
    BY <1>1 DEF GetCall, GetClosed, GetPermit
  <1>2. ASSUME NEW t \in Tasks, GetReuse(t) PROVE GuardInv'
    BY <1>2, PopFacts DEF GetReuse
  <1>3. ASSUME NEW t \in Tasks, GetEvict(t) \/ GetMiss(t) PROVE GuardInv'
    BY <1>3 DEF GetEvict, GetMiss
  <1>4. ASSUME NEW t \in Tasks, NEW c \in Conns, DialOk(t, c) PROVE GuardInv'
    BY <1>4 DEF DialOk
  <1>5. ASSUME NEW t \in Tasks, NEW from, AbandonGet(t, from) PROVE GuardInv'
    BY <1>5 DEF AbandonGet
  <1>6. ASSUME NEW t \in Tasks, InitOk(t) PROVE GuardInv'
    BY <1>6 DEF InitOk
  <1>7. ASSUME NEW t \in Tasks, UseConn(t) PROVE GuardInv'
    BY <1>7 DEF UseConn
  <1>8. ASSUME NEW t \in Tasks, DropGuard(t) PROVE GuardInv'
    BY <1>8 DEF DropGuard
  <1>9. ASSUME NEW t \in Tasks, RemoveGuard(t) PROVE GuardInv'
    BY <1>9 DEF RemoveGuard
  <1>10. ASSUME NEW t \in Tasks, CloseCall(t) \/ CloseClosed(t) \/ CloseIdle(t)
         PROVE  GuardInv'
    BY <1>10 DEF CloseCall, CloseClosed, CloseIdle
  <1>11. ASSUME NEW t \in Tasks, CancelEarly(t) PROVE GuardInv'
    BY <1>11 DEF CancelEarly
  <1>12. ASSUME NEW c \in Conns, PutStamp(c) \/ PutClosed(c) \/ PutPush(c)
         PROVE  GuardInv'
    BY <1>12 DEF PutStamp, PutClosed, PutPush
  <1>13. ASSUME NEW c \in Conns, DropRemoved(c) \/ Expire(c) PROVE GuardInv'
    BY <1>13 DEF DropRemoved, Expire
  <1>14. CASE UNCHANGED vars
    BY <1>14 DEF vars
  <1>15. QED
    BY <1>1, <1>2, <1>3, <1>4, <1>5, <1>6, <1>7, <1>8, <1>9, <1>10, <1>11,
       <1>12, <1>13, <1>14
       DEF Next, GetStep, CloseStep, PutStep, DialErr, InitErr, CancelLate

\* Only a connection behind a guard can enter a put() task, and it is not in
\* one already; every test of `closed' waits for the lock.
LEMMA LockStep ==
  TypeOK /\ GuardInv /\ LockInv /\ ConnExclusive /\ [Next]_vars => LockInv'
  <1> SUFFICES ASSUME TypeOK, GuardInv, LockInv, ConnExclusive, [Next]_vars
               PROVE  LockInv'
    OBVIOUS
  <1> USE NoConnAssumption DEF TypeOK, LockInv
  <1>1. ASSUME NEW t \in Tasks, DropGuard(t) PROVE LockInv'
    <2>1. guard[t] \in Conns /\ guard[t] \in Lent
      BY <1>1 DEF DropGuard, Goto, GuardInv, Lent
    <2>2. putting[guard[t]] = "none"
      BY <2>1 DEF ConnExclusive, Returning
    <2>3. QED
      BY <1>1, <2>1, <2>2 DEF DropGuard
  <1>2. ASSUME NEW t \in Tasks, CloseClosed(t) PROVE LockInv'
    BY <1>2 DEF CloseClosed
  <1>3. ASSUME NEW c \in Conns, PutStamp(c) PROVE LockInv'
    BY <1>3 DEF PutStamp
  <1>4. ASSUME NEW c \in Conns, PutClosed(c) PROVE LockInv'
    BY <1>4 DEF PutClosed
  <1>5. ASSUME NEW c \in Conns, PutPush(c) PROVE LockInv'
    BY <1>5 DEF PutPush
  <1>6. CASE UNCHANGED <<closed, closedLock, putting>>
    BY <1>6
  <1>7. QED
    BY <1>1, <1>2, <1>3, <1>4, <1>5, <1>6
       DEF Next, GetStep, CloseStep, PutStep, DialErr, InitErr, CancelLate,
           vars, GetCall, GetClosed, GetPermit, GetReuse, GetEvict, GetMiss,
           DialOk, AbandonGet, InitOk, UseConn, RemoveGuard, CloseCall,
           CloseIdle, CancelEarly, DropRemoved, Expire

-----------------------------------------------------------------------------
(* One owner per connection                                                  *)

LEMMA ExclusiveStep ==
  TypeOK /\ GuardInv /\ LockInv /\ ConnExclusive /\ [Next]_vars
    => ConnExclusive'
  <1> SUFFICES ASSUME TypeOK, GuardInv, LockInv, ConnExclusive, [Next]_vars
               PROVE  ConnExclusive'
    OBVIOUS
  <1> USE NoConnAssumption DEF TypeOK
  <1>0. Injective(idle)
    BY DEF ConnExclusive, Injective
  <1>1. ASSUME NEW t \in Tasks, GetReuse(t) PROVE ConnExclusive'
    <2>1. /\ Idle' = Idle \ {Top}
          /\ Injective(idle')
          /\ Top \in Idle
          /\ Top \in Conns
      BY <1>0, <1>1, PopIdle, PopFacts DEF GetReuse, Idle
    <2>2. Lent' \subseteq Lent \cup {Top} /\ Returning' = Returning
      BY <1>1, <2>1 DEF GetReuse, Lent, Returning
    <2>3. \A u \in Tasks : guard[u] # Top
      BY <2>1 DEF ConnExclusive, Lent
    <2>4. \A u, v \in Tasks : guard'[u] = guard'[v] /\ u # v
                                => guard'[u] = NoConn
      BY <1>1, <2>3 DEF GetReuse, ConnExclusive
    <2>5. removed' = removed
      BY <1>1 DEF GetReuse
    <2>6. QED
      BY <2>1, <2>2, <2>4, <2>5 DEF ConnExclusive, Injective
  <1>2. ASSUME NEW t \in Tasks, GetEvict(t) PROVE ConnExclusive'
    <2>1. Idle' = Idle \ {Top} /\ Injective(idle')
      BY <1>0, <1>2, PopIdle DEF GetEvict, Idle
    <2>2. UNCHANGED <<guard, Lent, Returning, removed>>
      BY <1>2 DEF GetEvict, Lent, Returning
    <2>3. QED
      BY <2>1, <2>2 DEF ConnExclusive, Injective
  <1>3. ASSUME NEW t \in Tasks, NEW c \in Conns, DialOk(t, c)
        PROVE  ConnExclusive'
    <2>1. UNCHANGED <<idle, Idle, Returning, removed>>
      BY <1>3 DEF DialOk, Idle, Returning
    <2>2. Lent' \subseteq Lent \cup {c}
      BY <1>3 DEF DialOk, Lent
    <2>3. c \notin Idle \cup Lent \cup Returning \cup removed
      BY <1>3 DEF DialOk, Fresh
    <2>4. \A u, v \in Tasks : guard'[u] = guard'[v] /\ u # v
                                => guard'[u] = NoConn
      BY <1>3, <2>3 DEF DialOk, ConnExclusive, Lent
    <2>5. QED
      BY <2>1, <2>2, <2>3, <2>4 DEF ConnExclusive
  <1>4. ASSUME NEW t \in Tasks, NEW from, AbandonGet(t, from)
        PROVE  ConnExclusive'
    <2>1. UNCHANGED <<idle, Idle, Returning, removed>>
      BY <1>4 DEF AbandonGet, Idle, Returning
    <2>2. Lent' \subseteq Lent
      BY <1>4 DEF AbandonGet, Lent
    <2>3. \A u, v \in Tasks : guard'[u] = guard'[v] /\ u # v
                                => guard'[u] = NoConn
      BY <1>4 DEF AbandonGet, ConnExclusive
    <2>4. QED
      BY <2>1, <2>2, <2>3 DEF ConnExclusive
  <1>5. ASSUME NEW t \in Tasks, DropGuard(t) \/ RemoveGuard(t)
        PROVE  ConnExclusive'
    <2>1. guard[t] \in Lent
      BY <1>5 DEF DropGuard, RemoveGuard, Goto, GuardInv, Lent
    <2>2. UNCHANGED <<idle, Idle>>
      BY <1>5 DEF DropGuard, RemoveGuard, Idle
    <2>3. Lent' = Lent \ {guard[t]}
      BY <1>5 DEF DropGuard, RemoveGuard, ConnExclusive, Lent
    <2>4. \/ /\ Returning' \subseteq Returning \cup {guard[t]}
             /\ removed' = removed
          \/ /\ Returning' = Returning
             /\ removed' = removed \cup {guard[t]}
      BY <1>5 DEF DropGuard, RemoveGuard, Returning
    <2>5. \A u, v \in Tasks : guard'[u] = guard'[v] /\ u # v
                                => guard'[u] = NoConn
      BY <1>5 DEF DropGuard, RemoveGuard, ConnExclusive
    <2>6. QED
      BY <2>1, <2>2, <2>3, <2>4, <2>5 DEF ConnExclusive
  <1>6. ASSUME NEW t \in Tasks, CloseIdle(t) PROVE ConnExclusive'
    <2>1. Idle' = {} /\ DOMAIN idle' = {}
      BY <1>6 DEF CloseIdle, Idle, Range
    <2>2. UNCHANGED <<guard, Lent, Returning, removed>>
      BY <1>6 DEF CloseIdle, Lent, Returning
    <2>3. QED
      BY <2>1, <2>2 DEF ConnExclusive
  <1>7. ASSUME NEW c \in Conns, PutStamp(c) \/ PutClosed(c)
        PROVE  ConnExclusive'
    <2>1. UNCHANGED <<idle, Idle, guard, Lent, removed>>
      BY <1>7 DEF PutStamp, PutClosed, Idle, Lent
    <2>2. Returning' \subseteq Returning
      BY <1>7 DEF PutStamp, PutClosed, Returning
    <2>3. QED
      BY <2>1, <2>2 DEF ConnExclusive
  <1>8. ASSUME NEW c \in Conns, PutPush(c) PROVE ConnExclusive'
    <2>1. c \in Returning
      BY <1>8 DEF PutPush, Returning
    <2>2. c \notin Idle
      BY <2>1 DEF ConnExclusive
    <2>3. Idle' = Idle \cup {c} /\ Injective(idle')
      BY <1>0, <1>8, <2>2, PushIdle DEF PutPush, Idle
    <2>4. Returning' = Returning \ {c} /\ UNCHANGED <<guard, Lent, removed>>
      BY <1>8 DEF PutPush, Returning, Lent
    <2>5. QED
      BY <2>1, <2>3, <2>4 DEF ConnExclusive, Injective
  <1>9. ASSUME NEW c \in Conns, DropRemoved(c) PROVE ConnExclusive'
    <2>1. UNCHANGED <<idle, Idle, guard, Lent, Returning>>
      BY <1>9 DEF DropRemoved, Idle, Lent, Returning
    <2>2. QED
      BY <1>9, <2>1 DEF DropRemoved, ConnExclusive
  <1>10. CASE UNCHANGED <<idle, guard, putting, removed>>
    BY <1>10 DEF ConnExclusive, Idle, Lent, Returning
  <1>11. QED
    BY <1>1, <1>2, <1>3, <1>4, <1>5, <1>6, <1>7, <1>8, <1>9, <1>10
       DEF Next, GetStep, CloseStep, PutStep, DialErr, InitErr, CancelLate,
           vars, GetCall, GetClosed, GetPermit, GetMiss, InitOk, UseConn,
           CloseCall, CloseClosed, CancelEarly, Expire

-----------------------------------------------------------------------------
(* Nothing unread goes back                                                  *)

LEMMA CleanStep == PoolInv /\ [Next]_vars => CleanInv'
  <1> SUFFICES ASSUME PoolInv, [Next]_vars PROVE CleanInv'
    OBVIOUS
  <1>0. /\ TypeOK
        /\ GuardInv
        /\ LockInv
        /\ ConnExclusive
        /\ CleanInv
        /\ Injective(idle)
    BY DEF PoolInv, ConnExclusive, Injective
  <1> USE NoConnAssumption DEF CleanInv
  <1>1. ASSUME NEW t \in Tasks, GetReuse(t) PROVE CleanInv'
    <2>1. Idle' = Idle \ {Top}
      BY <1>0, <1>1, PopIdle DEF TypeOK, GetReuse, Idle
    <2>2. UNCHANGED <<Returning, unread>>
      BY <1>1 DEF GetReuse, Returning
    <2>3. QED
      BY <1>0, <2>1, <2>2
  <1>2. ASSUME NEW t \in Tasks, GetEvict(t) PROVE CleanInv'
    <2>1. Idle' = Idle \ {Top}
      BY <1>0, <1>2, PopIdle DEF TypeOK, GetEvict, Idle
    <2>2. Returning' = Returning /\ unread' = [unread EXCEPT ![Top] = FALSE]
      BY <1>2 DEF GetEvict, Forget, Returning
    <2>3. QED
      BY <1>0, <2>1, <2>2 DEF TypeOK
  <1>3. ASSUME NEW t \in Tasks, NEW from, AbandonGet(t, from) PROVE CleanInv'
    <2>1. UNCHANGED <<Idle, Returning>>
      BY <1>3 DEF AbandonGet, Idle, Returning
    <2>2. \A c \in Conns : unread'[c] => unread[c]
      BY <1>0, <1>3 DEF AbandonGet, Forget, TypeOK
    <2>3. Idle \cup Returning \subseteq Conns
      BY <1>0, RangeOfIdle DEF Returning, TypeOK
    <2>4. QED
      BY <1>0, <2>1, <2>2, <2>3
  <1>4. ASSUME NEW t \in Tasks, UseConn(t) PROVE CleanInv'
    <2>1. UNCHANGED <<Idle, Returning>>
      BY <1>4 DEF UseConn, Idle, Returning
    <2>2. guard[t] \in Lent
      BY <1>0, <1>4 DEF UseConn, GuardInv, Lent
    <2>3. guard[t] \notin Idle \cup Returning
      BY <1>0, <2>2 DEF ConnExclusive
    <2>4. \A c \in Conns : c # guard[t] => unread'[c] = unread[c]
      BY <1>0, <1>4 DEF UseConn, TypeOK
    <2>5. Idle \cup Returning \subseteq Conns
      BY <1>0, RangeOfIdle DEF Returning, TypeOK
    <2>6. QED
      BY <1>0, <2>1, <2>3, <2>4, <2>5
  <1>5. ASSUME NEW t \in Tasks, DropGuard(t) PROVE CleanInv'
    <2>1. Idle' = Idle /\ Idle \cup Returning \subseteq Conns
      BY <1>0, <1>5, RangeOfIdle DEF DropGuard, Idle, Returning, TypeOK
    <2>2. guard[t] \in Conns
      BY <1>0, <1>5 DEF DropGuard, Goto, GuardInv, TypeOK
    <2>3. CASE Returnable(guard[t])
      <3>1. unread' = unread /\ ~unread[guard[t]]
        BY <1>5, <2>3 DEF DropGuard, Returnable
      <3>2. Returning' \subseteq Returning \cup {guard[t]}
        BY <1>0, <1>5, <2>3 DEF DropGuard, Returning, TypeOK
      <3>3. QED
        BY <1>0, <2>1, <3>1, <3>2
    <2>4. CASE ~Returnable(guard[t])
      <3>1. unread' = [unread EXCEPT ![guard[t]] = FALSE]
        BY <1>5, <2>4 DEF DropGuard, Forget
      <3>2. Returning' = Returning
        BY <1>5, <2>4 DEF DropGuard, Returning
      <3>3. QED
        BY <1>0, <2>1, <2>2, <3>1, <3>2 DEF TypeOK
    <2>5. QED
      BY <2>3, <2>4
  <1>6. ASSUME NEW t \in Tasks, CloseIdle(t) PROVE CleanInv'
    <2>1. Idle' = {} /\ Returning' = Returning /\ Returning \subseteq Conns
      BY <1>6 DEF CloseIdle, Idle, Range, Returning
    <2>2. \A c \in Conns : unread'[c] => unread[c]
      BY <1>6 DEF CloseIdle
    <2>3. QED
      BY <1>0, <2>1, <2>2
  <1>7. ASSUME NEW c \in Conns, PutStamp(c) \/ PutClosed(c) PROVE CleanInv'
    <2>1. Idle' = Idle /\ Idle \cup Returning \subseteq Conns
      BY <1>0, <1>7, RangeOfIdle
         DEF PutStamp, PutClosed, Idle, Returning, TypeOK
    <2>2. Returning' \subseteq Returning
      BY <1>0, <1>7 DEF PutStamp, PutClosed, Returning, TypeOK
    <2>3. \A d \in Conns : unread'[d] => unread[d]
      BY <1>0, <1>7 DEF PutStamp, PutClosed, Forget, TypeOK
    <2>4. QED
      BY <1>0, <2>1, <2>2, <2>3
  <1>8. ASSUME NEW c \in Conns, PutPush(c) PROVE CleanInv'
    <2>1. Idle' = Idle \cup {c}
      BY <1>0, <1>8, PushIdle DEF PutPush, Idle, TypeOK
    <2>2. c \in Returning /\ Returning' = Returning \ {c}
      BY <1>0, <1>8 DEF PutPush, Returning, TypeOK
    <2>3. unread' = unread
      BY <1>8 DEF PutPush
    <2>4. QED
      BY <1>0, <2>1, <2>2, <2>3
  <1>9. ASSUME NEW c \in Conns, DropRemoved(c) PROVE CleanInv'
    <2>1. UNCHANGED <<Idle, Returning>> /\ Idle \cup Returning \subseteq Conns
      BY <1>0, <1>9, RangeOfIdle DEF DropRemoved, Idle, Returning, TypeOK
    <2>2. \A d \in Conns : unread'[d] => unread[d]
      BY <1>0, <1>9 DEF DropRemoved, Forget, TypeOK
    <2>3. QED
      BY <1>0, <2>1, <2>2
  <1>10. CASE UNCHANGED <<idle, unread, putting>>
    BY <1>0, <1>10 DEF Idle, Returning
  <1>11. QED
    BY <1>1, <1>2, <1>3, <1>4, <1>5, <1>6, <1>7, <1>8, <1>9, <1>10
       DEF Next, GetStep, CloseStep, PutStep, DialErr, InitErr, CancelLate,
           vars, GetCall, GetClosed, GetPermit, GetMiss, DialOk, InitOk,
           RemoveGuard, CloseCall, CloseClosed, CancelEarly, Expire

-----------------------------------------------------------------------------
(* Permits                                                                   *)

Holders == {t \in Tasks : pc[t] \in PermitPCs}

\* A task that moves in or out of the part of get() that owns a permit.
LEMMA HoldersMove ==
  ASSUME TypeOK, NEW t \in Tasks, NEW from, NEW to, Goto(t, from, to)
  PROVE  /\ (from \in PermitPCs <=> to \in PermitPCs) => Holders' = Holders
         /\ (from \notin PermitPCs /\ to \in PermitPCs) =>
              t \notin Holders /\ Holders' = Holders \cup {t}
         /\ (from \in PermitPCs /\ to \notin PermitPCs) =>
              t \in Holders /\ Holders' = Holders \ {t}
  BY DEF TypeOK, Goto, Holders

\* There are finitely many tasks, so the permits in use can be counted.
LEMMA HoldersFinite == IsFiniteSet(Holders) /\ Cardinality(Holders) \in Nat
  <1>1. Holders \in SUBSET Tasks
    BY DEF Holders
  <1>2. IsFiniteSet(Holders)
    BY <1>1, TasksAssumption, FS_Subset
  <1>3. QED
    BY <1>2, FS_CardinalityType

LEMMA PermitStep == TypeOK /\ PermitBalance /\ [Next]_vars => PermitBalance'
  <1> SUFFICES ASSUME TypeOK, PermitBalance, [Next]_vars PROVE PermitBalance'
    OBVIOUS
  <1> USE PoolSizeAssumption, HoldersFinite
  <1>1. permits \in Nat /\ permits + Cardinality(Holders) = PoolSize
    BY DEF TypeOK, PermitBalance, Holders
  <1>2. SUFFICES permits' + Cardinality(Holders') = PoolSize
    BY DEF PermitBalance, Holders
  <1>3. ASSUME Holders' = Holders, permits' = permits
        PROVE  permits' + Cardinality(Holders') = PoolSize
    BY <1>1, <1>3
  <1>4. ASSUME NEW t \in Tasks, t \notin Holders, Holders' = Holders \cup {t},
               permits' = permits - 1, permits > 0
        PROVE  permits' + Cardinality(Holders') = PoolSize
    <2>1. Cardinality(Holders \cup {t}) = Cardinality(Holders) + 1
      BY <1>4, FS_AddElement
    <2>2. QED
      BY <1>1, <1>4, <2>1
  <1>5. ASSUME NEW t \in Tasks, t \in Holders, Holders' = Holders \ {t},
               permits' = permits + 1
        PROVE  permits' + Cardinality(Holders') = PoolSize
    <2>1. Cardinality(Holders \ {t}) = Cardinality(Holders) - 1
      BY <1>5, FS_RemoveElement
    <2>2. QED
      BY <1>1, <1>5, <2>1
  <1> USE DEF PermitPCs
  <1>6. ASSUME NEW t \in Tasks, GetPermit(t)
        PROVE  permits' + Cardinality(Holders') = PoolSize
    BY <1>4, <1>6, HoldersMove DEF GetPermit
  <1>7. ASSUME NEW t \in Tasks, GetEvict(t)
        PROVE  permits' + Cardinality(Holders') = PoolSize
    BY <1>5, <1>7, HoldersMove DEF GetEvict
  <1>8. ASSUME NEW t \in Tasks, NEW from \in {"get_idle", "dial", "init"},
               AbandonGet(t, from)
        PROVE  permits' + Cardinality(Holders') = PoolSize
    BY <1>5, <1>8, HoldersMove DEF AbandonGet
  <1>9. ASSUME NEW t \in Tasks, DropGuard(t) \/ RemoveGuard(t)
        PROVE  permits' + Cardinality(Holders') = PoolSize
    BY <1>5, <1>9, HoldersMove DEF DropGuard, RemoveGuard
  <1>10. ASSUME NEW t \in Tasks,
                \/ GetCall(t) \/ GetClosed(t) \/ GetReuse(t) \/ GetMiss(t)
                \/ InitOk(t) \/ CloseCall(t) \/ CloseClosed(t) \/ CloseIdle(t)
         PROVE  permits' + Cardinality(Holders') = PoolSize
    BY <1>3, <1>10, HoldersMove
       DEF GetCall, GetClosed, GetReuse, GetMiss, InitOk, CloseCall,
           CloseClosed, CloseIdle
  <1>11. ASSUME NEW t \in Tasks, NEW c \in Conns, DialOk(t, c)
         PROVE  permits' + Cardinality(Holders') = PoolSize
    BY <1>3, <1>11, HoldersMove DEF DialOk
  <1>12. ASSUME NEW t \in Tasks, CancelEarly(t)
         PROVE  permits' + Cardinality(Holders') = PoolSize
    <2>1. Holders' = Holders
      BY <1>12 DEF CancelEarly, Holders, TypeOK
    <2>2. QED
      BY <1>3, <1>12, <2>1 DEF CancelEarly
  <1>13. CASE UNCHANGED <<permits, pc>>
    BY <1>3, <1>13 DEF Holders
  <1>14. QED
    BY <1>6, <1>7, <1>8, <1>9, <1>10, <1>11, <1>12, <1>13
       DEF Next, GetStep, CloseStep, PutStep, DialErr, InitErr, CancelLate,
           vars, UseConn, PutStamp, PutClosed, PutPush, DropRemoved, Expire

-----------------------------------------------------------------------------
(* The two halves of close()                                                 *)

LEMMA ClosingStep == TypeOK /\ ClosingInv /\ [Next]_vars => ClosingInv'
  <1> SUFFICES ASSUME TypeOK, ClosingInv, [Next]_vars PROVE ClosingInv'
    OBVIOUS
  <1> USE DEF TypeOK, ClosingInv, Goto
  <1>1. ASSUME NEW t \in Tasks, CloseClosed(t) PROVE ClosingInv'
    BY <1>1 DEF CloseClosed
  <1>2. ASSUME NEW t \in Tasks, NEW from, NEW to, Goto(t, from, to),
               to # "close_idle", closed' = closed
        PROVE  ClosingInv'
    BY <1>2
  <1>3. ASSUME NEW t \in Tasks, CancelEarly(t) PROVE ClosingInv'
    BY <1>3 DEF CancelEarly
  <1>4. CASE UNCHANGED <<closed, pc>>
    BY <1>4
  <1> HIDE DEF Goto
  <1>5. QED
    BY <1>1, <1>2, <1>3, <1>4
       DEF Next, GetStep, CloseStep, PutStep, DialErr, InitErr, CancelLate,
           vars, GetCall, GetClosed, GetPermit, GetReuse, GetEvict, GetMiss,
           DialOk, AbandonGet, InitOk, UseConn, DropGuard, RemoveGuard,
           CloseCall, CloseIdle, PutStamp, PutClosed, PutPush, DropRemoved,
           Expire

-----------------------------------------------------------------------------
(* The theorems                                                              *)

LEMMA InitInv == Init => PoolInv
  <1> SUFFICES ASSUME Init PROVE PoolInv
    OBVIOUS
  <1> USE PoolSizeAssumption, NoConnAssumption DEF Init
  <1>1. TypeOK
    <2>1. idle \in Seq(Conns)
      BY EmptySeq
    <2>2. /\ unread \in [Conns -> BOOLEAN]
          /\ putting \in [Conns -> PutPCs]
          /\ pc \in [Tasks -> PCs]
          /\ guard \in [Tasks -> Conns \cup {NoConn}]
      OBVIOUS
    <2>3. QED
      BY <2>1, <2>2 DEF TypeOK
  <1>2. Idle = {} /\ Lent = {} /\ Returning = {} /\ DOMAIN idle = {}
    BY DEF Idle, Range, Lent, Returning
  <1>3. GuardInv /\ LockInv /\ ClosingInv
    BY DEF GuardInv, LockInv, ClosingInv
  <1>4. ConnExclusive /\ CleanInv
    BY <1>2 DEF ConnExclusive, CleanInv
  <1>5. {t \in Tasks : pc[t] \in PermitPCs} = {}
    BY DEF PermitPCs
  <1>6. PermitBalance
    <2>1. Cardinality({t \in Tasks : pc[t] \in PermitPCs}) = 0
      BY <1>5, FS_EmptySet
    <2>2. QED
      BY <2>1 DEF PermitBalance
  <1>7. QED
    BY <1>1, <1>3, <1>4, <1>6 DEF PoolInv

LEMMA InvStep == PoolInv /\ [Next]_vars => PoolInv'
  BY TypeStep, GuardStep, LockStep, ExclusiveStep, PermitStep, CleanStep,
     ClosingStep
     DEF PoolInv

\* PoolInv holds in every reachable state of get(), put(), close() and the
\* guards, for every pool_size and any number of tasks and sockets.
THEOREM PoolInvariant == Spec => []PoolInv
  BY InitInv, InvStep, PTL DEF Spec

\* Every variable of the pool keeps its type; in particular the count of
\* permits is never negative and idle only ever holds connections.
THEOREM TypeCorrect == Spec => []TypeOK
  <1>1. PoolInv => TypeOK
    BY DEF PoolInv
  <1>2. QED
    BY <1>1, PoolInvariant, PTL

\* A socket has one owner at a time: a guard, the idle stack, a put() task, or
\* the caller of remove().
THEOREM ExclusiveOwnership == Spec => []ConnExclusive
  <1>1. PoolInv => ConnExclusive
    BY DEF PoolInv
  <1>2. QED
    BY <1>1, PoolInvariant, PTL

\* No permit of the semaphore is lost or made up on any path out of get(), nor
\* by drop() and remove().
THEOREM PermitsBalance == Spec => []PermitBalance
  <1>1. PoolInv => PermitBalance
    BY DEF PoolInv
  <1>2. QED
    BY <1>1, PoolInvariant, PTL

\* get() never hands out a connection whose read buffer holds data.
THEOREM IdleClean == Spec => []IdleHasNoUnread
  <1>1. PoolInv => IdleHasNoUnread
    BY DEF PoolInv, CleanInv, IdleHasNoUnread
  <1>2. QED
    BY <1>1, PoolInvariant, PTL

\* Once close() has set the flag, no put() task pushes a connection: the lock
\* that put() keeps until after the push excludes it.
THEOREM NoReturnOnceClosed == Spec => NoReturnAfterClose
  <1>1. PoolInv /\ [Next]_vars => [closed => Len(idle') <= Len(idle)]_vars
    <2> SUFFICES ASSUME PoolInv, Next, closed
                 PROVE  Len(idle') <= Len(idle)
      BY DEF vars
    <2>0. idle \in Seq(Conns) /\ Len(idle) \in Nat
      BY LenProperties DEF PoolInv, TypeOK
    <2>1. ASSUME NEW t \in Tasks, GetReuse(t) \/ GetEvict(t)
          PROVE  Len(idle') <= Len(idle)
      <3>1. idle' = Popped /\ Len(Popped) = Len(idle) - 1
        BY <2>0, <2>1, PopFacts DEF GetReuse, GetEvict
      <3>2. QED
        BY <2>0, <3>1
    <2>2. ASSUME NEW t \in Tasks, CloseIdle(t) PROVE Len(idle') <= Len(idle)
      BY <2>0, <2>2 DEF CloseIdle
    <2>3. ASSUME NEW c \in Conns, PutPush(c) PROVE FALSE
      BY <2>3, NoConnAssumption DEF PoolInv, LockInv, PutPush
    <2>4. CASE UNCHANGED idle
      BY <2>0, <2>4
    <2>5. QED
      BY <2>1, <2>2, <2>3, <2>4
         DEF Next, GetStep, CloseStep, PutStep, DialErr, InitErr, CancelLate,
             GetCall, GetClosed, GetPermit, GetMiss, DialOk, AbandonGet,
             InitOk, UseConn, DropGuard, RemoveGuard, CloseCall, CloseClosed,
             CancelEarly, PutStamp, PutClosed, DropRemoved, Expire
  <1>2. QED
    BY <1>1, PoolInvariant, PTL DEF Spec, NoReturnAfterClose

-----------------------------------------------------------------------------
(* Who borrows                                                               *)

\* The borrowers of the contract are the tasks that hold a guard.
LEMMA BorrowersHold ==
  ASSUME PoolInv
  PROVE  /\ Contract!Borrowers = {t \in Tasks : pc[t] = "hold"}
         /\ \A t \in Tasks : pc[t] = "hold" => LentByGuards[t] = guard[t]
         /\ \A t \in Tasks : pc[t] # "hold" => LentByGuards[t] = NoConn
  BY NoConnAssumption
     DEF PoolInv, TypeOK, GuardInv, Contract!Borrowers, LentByGuards

\* The contract counts with the same Cardinality.
LEMMA SameCardinality ==
  ASSUME NEW S
  PROVE  Contract!Cardinality(S) = Cardinality(S)
  BY Zenon DEF Contract!Cardinality, Cardinality

\* A task that owns a permit and no guard leaves room for one more borrower.
LEMMA RoomForOne ==
  ASSUME PoolInv, NEW t \in Tasks, pc[t] \in PermitPCs, pc[t] # "hold"
  PROVE  Cardinality(Contract!Borrowers) < PoolSize
  <1>1. t \in Holders /\ Contract!Borrowers \in SUBSET (Holders \ {t})
    BY BorrowersHold DEF Holders, PermitPCs
  <1>2. /\ IsFiniteSet(Holders \ {t})
        /\ Cardinality(Holders \ {t}) = Cardinality(Holders) - 1
    BY <1>1, HoldersFinite, FS_RemoveElement
  <1>3. /\ IsFiniteSet(Contract!Borrowers)
        /\ Cardinality(Contract!Borrowers) <= Cardinality(Holders \ {t})
    BY <1>1, <1>2, FS_Subset
  <1>4. Cardinality(Contract!Borrowers) \in Nat
    BY <1>3, FS_CardinalityType
  <1>5. permits \in Nat /\ permits + Cardinality(Holders) = PoolSize
    BY DEF PoolInv, TypeOK, PermitBalance, Holders
  <1>6. QED
    BY <1>2, <1>3, <1>4, <1>5, HoldersFinite, PoolSizeAssumption

\* What the contract sees of a task that stays without a guard: nothing.
LEMMA LentUnchanged ==
  ASSUME PoolInv, NEW t \in Tasks, NEW from, NEW to, Goto(t, from, to),
         from # "hold", to # "hold",
         \A u \in Tasks \ {t} : guard'[u] = guard[u]
  PROVE  LentByGuards' = LentByGuards
  BY DEF PoolInv, TypeOK, Goto, LentByGuards

\* A task gets a guard.
LEMMA LentBegins ==
  ASSUME PoolInv, NEW t \in Tasks, NEW from, NEW c, Goto(t, from, "hold"),
         guard' = [guard EXCEPT ![t] = c]
  PROVE  LentByGuards' = [LentByGuards EXCEPT ![t] = c]
  BY DEF PoolInv, TypeOK, Goto, LentByGuards

\* A task drops its guard.
LEMMA LentEnds ==
  ASSUME PoolInv, NEW t \in Tasks, Goto(t, "hold", "rest"),
         guard' = [guard EXCEPT ![t] = NoConn]
  PROVE  /\ LentByGuards' = [LentByGuards EXCEPT ![t] = NoConn]
         /\ t \in Contract!Borrowers
         /\ LentByGuards[t] = guard[t]
         /\ guard[t] \in Conns
         /\ guard[t] \in Lent
  <1>1. LentByGuards' = [LentByGuards EXCEPT ![t] = NoConn]
    BY DEF PoolInv, TypeOK, Goto, LentByGuards
  <1>2. t \in Contract!Borrowers /\ LentByGuards[t] = guard[t]
    BY BorrowersHold DEF Goto
  <1>3. guard[t] \in Conns /\ guard[t] \in Lent
    BY NoConnAssumption DEF PoolInv, TypeOK, GuardInv, Goto, Lent
  <1>4. QED
    BY <1>1, <1>2, <1>3

-----------------------------------------------------------------------------
(* Every step is a step of the contract, or changes nothing in it            *)

LEMMA ReuseStep ==
  ASSUME PoolInv, NEW t \in Tasks, GetReuse(t)
  PROVE  Contract!Reuse(t, Top) /\ Top \in Conns
  <1>1. Injective(idle) /\ idle \in Seq(Conns) /\ idle # <<>>
    BY DEF PoolInv, TypeOK, ConnExclusive, Injective, GetReuse
  <1>2. Idle' = Idle \ {Top} /\ Top \in Idle /\ Top \in Conns
    BY <1>1, PopIdle, PopFacts DEF GetReuse, Idle
  <1>3. LentByGuards' = [LentByGuards EXCEPT ![t] = Top]
    BY LentBegins DEF GetReuse
  <1>4. t \notin Contract!Borrowers
    <2>1. pc[t] # "hold"
      BY DEF GetReuse, Goto
    <2>2. QED
      BY <2>1, BorrowersHold
  <1>5. Cardinality(Contract!Borrowers) < PoolSize
    BY RoomForOne DEF GetReuse, Goto, PermitPCs
  <1>6. UNCHANGED <<closed, Returning, removed>>
    BY DEF GetReuse, Returning
  <1>7. Contract!Lend(t, Top)
    BY <1>3, <1>4, <1>5, SameCardinality DEF Contract!Lend
  <1>8. QED
    BY <1>2, <1>6, <1>7 DEF Contract!Reuse

LEMMA EvictStep ==
  ASSUME PoolInv, NEW t \in Tasks, GetEvict(t)
  PROVE  Contract!Evict(Top) /\ Top \in Conns
  <1>1. Injective(idle) /\ idle \in Seq(Conns) /\ idle # <<>>
    BY DEF PoolInv, TypeOK, ConnExclusive, Injective, GetEvict
  <1>2. Idle' = Idle \ {Top} /\ Top \in Idle /\ Top \in Conns
    BY <1>1, PopIdle, PopFacts DEF GetEvict, Idle
  <1>3. LentByGuards' = LentByGuards
    BY LentUnchanged DEF GetEvict
  <1>4. UNCHANGED <<closed, Returning, removed>>
    BY DEF GetEvict, Returning
  <1>5. QED
    BY <1>2, <1>3, <1>4 DEF Contract!Evict

\* A connection that was dialled, with or without AUTH and SELECT, is handed
\* out when the guard is made.
LEMMA ConnectStep ==
  ASSUME PoolInv, NEW t \in Tasks, NEW c \in Conns,
         NEW from \in {"dial", "init"}, Goto(t, from, "hold"),
         guard' = [guard EXCEPT ![t] = c],
         c \notin Idle \cup Returning \cup removed,
         \A u \in Tasks \ {t} : guard[u] # c,
         UNCHANGED <<closed, idle, putting, removed>>
  PROVE  Contract!Connect(t, c)
  <1>1. LentByGuards' = [LentByGuards EXCEPT ![t] = c]
    BY LentBegins
  <1>2. t \notin Contract!Borrowers
    <2>1. pc[t] # "hold"
      BY DEF Goto
    <2>2. QED
      BY <2>1, BorrowersHold
  <1>3. Cardinality(Contract!Borrowers) < PoolSize
    BY RoomForOne DEF Goto, PermitPCs
  <1>4. \A u \in Contract!Borrowers : u \in Tasks /\ LentByGuards[u] # c
    BY <1>2, BorrowersHold
  <1>5. c \in Conns \ Contract!InUse
    BY <1>4 DEF Contract!InUse
  <1>6. UNCHANGED <<closed, Idle, Returning, removed>>
    BY DEF Idle, Returning
  <1>7. Contract!Lend(t, c)
    BY <1>1, <1>2, <1>3, SameCardinality DEF Contract!Lend
  <1>8. QED
    BY <1>5, <1>6, <1>7 DEF Contract!Connect

LEMMA DialStep ==
  ASSUME PoolInv, NEW t \in Tasks, NEW c \in Conns, DialOk(t, c)
  PROVE  Contract!Connect(t, c) \/ UNCHANGED Contract!contractVars
  <1>1. CASE HasInit
    <2>1. LentByGuards' = LentByGuards
      <3>1. \A u \in Tasks \ {t} : guard'[u] = guard[u]
        BY DEF DialOk, PoolInv, TypeOK
      <3>2. QED
        BY <1>1, <3>1, LentUnchanged DEF DialOk
    <2>2. QED
      BY <2>1 DEF DialOk, Contract!contractVars, Idle, Returning
  <1>2. CASE ~HasInit
    <2>1. c \notin Idle \cup Returning \cup removed /\ c \notin Lent
      BY DEF DialOk, Fresh
    <2>2. \A u \in Tasks : guard[u] # c
      BY <2>1, NoConnAssumption DEF Lent
    <2>3. QED
      BY <1>2, <2>1, <2>2, ConnectStep DEF DialOk
  <1>3. QED
    BY <1>1, <1>2

LEMMA InitStep ==
  ASSUME PoolInv, NEW t \in Tasks, InitOk(t)
  PROVE  guard[t] \in Conns /\ Contract!Connect(t, guard[t])
  <1>1. guard[t] \in Conns /\ guard[t] \in Lent
    BY NoConnAssumption DEF PoolInv, TypeOK, GuardInv, InitOk, Goto, Lent
  <1>2. guard[t] \notin Idle \cup Returning \cup removed
    BY <1>1 DEF PoolInv, ConnExclusive
  <1>3. \A u \in Tasks \ {t} : guard[u] # guard[t]
    BY <1>1, NoConnAssumption DEF PoolInv, ConnExclusive
  <1>4. guard' = [guard EXCEPT ![t] = guard[t]]
    BY DEF InitOk, PoolInv, TypeOK
  <1>5. QED
    BY <1>1, <1>2, <1>3, <1>4, ConnectStep DEF InitOk

LEMMA DropStep ==
  ASSUME PoolInv, NEW t \in Tasks, DropGuard(t)
  PROVE  Contract!GiveBack(t) \/ Contract!Discard(t)
  <1>1. /\ LentByGuards' = [LentByGuards EXCEPT ![t] = NoConn]
        /\ t \in Contract!Borrowers
        /\ LentByGuards[t] = guard[t]
        /\ guard[t] \in Conns
    BY LentEnds DEF DropGuard
  <1>2. UNCHANGED <<closed, Idle, removed>>
    BY DEF DropGuard, Idle
  <1>3. CASE Returnable(guard[t])
    <2>1. Returning' = Returning \cup {guard[t]}
      BY <1>1, <1>3 DEF DropGuard, Returning, PoolInv, TypeOK
    <2>2. QED
      BY <1>1, <1>2, <2>1 DEF Contract!GiveBack, Contract!Release
  <1>4. CASE ~Returnable(guard[t])
    <2>1. Returning' = Returning
      BY <1>4 DEF DropGuard, Returning
    <2>2. QED
      BY <1>1, <1>2, <2>1 DEF Contract!Discard, Contract!Release
  <1>5. QED
    BY <1>3, <1>4

LEMMA RemoveStep ==
  ASSUME PoolInv, NEW t \in Tasks, RemoveGuard(t)
  PROVE  Contract!Detach(t)
  <1>1. /\ LentByGuards' = [LentByGuards EXCEPT ![t] = NoConn]
        /\ t \in Contract!Borrowers
        /\ LentByGuards[t] = guard[t]
    BY LentEnds DEF RemoveGuard
  <1>2. UNCHANGED <<closed, Idle, Returning>>
    BY DEF RemoveGuard, Idle, Returning
  <1>3. QED
    BY <1>1, <1>2 DEF RemoveGuard, Contract!Detach, Contract!Release

\* A put() task: the stamp and taking the lock are invisible, the push is the
\* step of the contract, and it happens with the flag unset.
LEMMA PutRefines ==
  ASSUME PoolInv, NEW c \in Conns, PutStep(c)
  PROVE  \/ Contract!Settle(c) \/ Contract!DropReturning(c)
         \/ UNCHANGED Contract!contractVars
  <1>1. c \in Returning
    BY DEF PutStep, PutStamp, PutClosed, PutPush, Returning
  <1>2. LentByGuards' = LentByGuards /\ UNCHANGED <<closed, removed>>
    BY DEF PutStep, PutStamp, PutClosed, PutPush, LentByGuards
  <1>3. CASE PutStamp(c)
    <2>1. Returnable(c)
      BY <1>1 DEF PoolInv, CleanInv, Returnable
    <2>2. Returning' = Returning /\ Idle' = Idle
      BY <1>3, <2>1 DEF PutStamp, Returning, Idle, PoolInv, TypeOK
    <2>3. QED
      BY <1>2, <2>2 DEF Contract!contractVars
  <1>4. CASE PutClosed(c)
    <2>1. Idle' = Idle
      BY <1>4 DEF PutClosed, Idle
    <2>2. CASE closed
      <3>1. Returning' = Returning \ {c}
        BY <1>4, <2>2 DEF PutClosed, Returning, PoolInv, TypeOK
      <3>2. QED
        BY <1>1, <1>2, <2>1, <2>2, <3>1 DEF Contract!DropReturning
    <2>3. CASE ~closed
      <3>1. Returning' = Returning
        BY <1>4, <2>3 DEF PutClosed, Returning, PoolInv, TypeOK
      <3>2. QED
        BY <1>2, <2>1, <3>1 DEF Contract!contractVars
    <2>4. QED
      BY <2>2, <2>3
  <1>5. CASE PutPush(c)
    <2>1. ~closed
      BY <1>5, NoConnAssumption DEF PutPush, PoolInv, LockInv
    <2>2. Idle' = Idle \cup {c}
      <3>1. Injective(idle) /\ idle \in Seq(Conns)
        BY DEF PoolInv, TypeOK, ConnExclusive, Injective
      <3>2. QED
        BY <1>5, <3>1, PushIdle DEF PutPush, Idle
    <2>3. Returning' = Returning \ {c}
      BY <1>5 DEF PutPush, Returning, PoolInv, TypeOK
    <2>4. QED
      BY <1>1, <1>2, <2>1, <2>2, <2>3 DEF Contract!Settle
  <1>6. QED
    BY <1>3, <1>4, <1>5 DEF PutStep

\* Calls, waiting, failed and cancelled calls and the passage of time change
\* nothing that the contract speaks of.
LEMMA SilentSteps ==
  ASSUME PoolInv, NEW t \in Tasks,
         \/ GetCall(t) \/ GetClosed(t) \/ GetPermit(t) \/ GetMiss(t)
         \/ UseConn(t) \/ CloseCall(t) \/ CancelEarly(t)
         \/ \E from \in {"get_idle", "dial", "init"} : AbandonGet(t, from)
  PROVE  UNCHANGED Contract!contractVars
  <1>1. UNCHANGED <<closed, Idle, Returning, removed>>
    BY DEF GetCall, GetClosed, GetPermit, GetMiss, UseConn, CloseCall,
           CancelEarly, AbandonGet, Idle, Returning
  <1>2. LentByGuards' = LentByGuards
    <2>1. CASE \/ GetCall(t) \/ GetClosed(t) \/ GetPermit(t) \/ GetMiss(t)
               \/ CloseCall(t)
      BY <2>1, LentUnchanged
         DEF GetCall, GetClosed, GetPermit, GetMiss, CloseCall
    <2>2. CASE UseConn(t)
      BY <2>2 DEF UseConn, LentByGuards
    <2>3. CASE CancelEarly(t)
      <3>1. pc[t] # "hold"
        BY <2>3 DEF CancelEarly, ClosePCs
      <3>2. QED
        BY <2>3, <3>1 DEF CancelEarly, LentByGuards, PoolInv, TypeOK
    <2>4. ASSUME NEW from \in {"get_idle", "dial", "init"}, AbandonGet(t, from)
          PROVE  LentByGuards' = LentByGuards
      <3>1. \A u \in Tasks \ {t} : guard'[u] = guard[u]
        BY <2>4 DEF AbandonGet, PoolInv, TypeOK
      <3>2. Goto(t, from, "rest") /\ from # "hold"
        BY <2>4 DEF AbandonGet
      <3>3. QED
        BY <3>1, <3>2, LentUnchanged
    <2>5. QED
      BY <2>1, <2>2, <2>3, <2>4
  <1>3. QED
    BY <1>1, <1>2 DEF Contract!contractVars

LEMMA CloseRefines ==
  ASSUME PoolInv, NEW t \in Tasks, CloseStep(t)
  PROVE  Contract!SetClosed \/ Contract!ClearIdle
  <1>1. UNCHANGED <<Returning, removed>>
    BY DEF CloseStep, CloseClosed, CloseIdle, Returning
  <1>2. LentByGuards' = LentByGuards
    BY LentUnchanged DEF CloseStep, CloseClosed, CloseIdle
  <1>3. CASE CloseClosed(t)
    BY <1>1, <1>2, <1>3 DEF CloseClosed, Contract!SetClosed, Idle
  <1>4. CASE CloseIdle(t)
    <2>1. closed /\ closed' = closed
      BY <1>4 DEF CloseIdle, Goto, PoolInv, ClosingInv
    <2>2. Idle' = {}
      BY <1>4 DEF CloseIdle, Idle, Range
    <2>3. QED
      BY <1>1, <1>2, <2>1, <2>2 DEF Contract!ClearIdle
  <1>5. QED
    BY <1>3, <1>4 DEF CloseStep

LEMMA RefinementStep ==
  PoolInv /\ [Next]_vars => [Contract!Next]_(Contract!contractVars)
  <1> SUFFICES ASSUME PoolInv, [Next]_vars
               PROVE  Contract!Next \/ UNCHANGED Contract!contractVars
    OBVIOUS
  <1> DEFINE Goal == Contract!Next \/ UNCHANGED Contract!contractVars
  <1>1. ASSUME NEW t \in Tasks,
               \/ GetCall(t) \/ GetClosed(t) \/ GetPermit(t) \/ GetMiss(t)
               \/ UseConn(t) \/ CloseCall(t) \/ CancelEarly(t)
               \/ DialErr(t) \/ InitErr(t) \/ CancelLate(t)
        PROVE  Goal
    BY <1>1, SilentSteps DEF DialErr, InitErr, CancelLate
  <1>2. ASSUME NEW t \in Tasks, GetReuse(t) PROVE Goal
    BY <1>2, ReuseStep DEF Contract!Next
  <1>3. ASSUME NEW t \in Tasks, GetEvict(t) PROVE Goal
    BY <1>3, EvictStep DEF Contract!Next
  <1>4. ASSUME NEW t \in Tasks, NEW c \in Conns, DialOk(t, c) PROVE Goal
    BY <1>4, DialStep DEF Contract!Next
  <1>5. ASSUME NEW t \in Tasks, InitOk(t) PROVE Goal
    BY <1>5, InitStep DEF Contract!Next
  <1>6. ASSUME NEW t \in Tasks, DropGuard(t) PROVE Goal
    BY <1>6, DropStep DEF Contract!Next
  <1>7. ASSUME NEW t \in Tasks, RemoveGuard(t) PROVE Goal
    BY <1>7, RemoveStep DEF Contract!Next
  <1>8. ASSUME NEW t \in Tasks, CloseStep(t) PROVE Goal
    BY <1>8, CloseRefines DEF Contract!Next
  <1>9. ASSUME NEW c \in Conns, PutStep(c) PROVE Goal
    BY <1>9, PutRefines DEF Contract!Next
  <1>10. ASSUME NEW c \in Conns, DropRemoved(c) PROVE Goal
    <2>1. Contract!DropDetached(c)
      BY <1>10 DEF DropRemoved, Contract!DropDetached, Idle, Returning,
                   LentByGuards
    <2>2. QED
      BY <2>1 DEF Contract!Next
  <1>11. ASSUME NEW c \in Conns, Expire(c) PROVE Goal
    BY <1>11 DEF Expire, Contract!contractVars, Idle, Returning, LentByGuards
  <1>12. CASE UNCHANGED vars
    BY <1>12 DEF vars, Contract!contractVars, Idle, Returning, LentByGuards
  <1> HIDE DEF Goal
  <1>13. Goal
    BY <1>1, <1>2, <1>3, <1>4, <1>5, <1>6, <1>7, <1>8, <1>9, <1>10, <1>11,
       <1>12
       DEF Next, GetStep, Goal
  <1>14. QED
    BY <1>13 DEF Goal

LEMMA RefinementInit == Init => Contract!Init
  BY NoConnAssumption
     DEF Init, Contract!Init, Idle, Range, Returning, LentByGuards

\* The pool's locks, semaphore and detached put() tasks implement the contract
\* on which the client is built.
THEOREM PoolRefinesContract == Spec => ImplementsContract
  BY RefinementInit, RefinementStep, PoolInvariant, PTL
     DEF Spec, ImplementsContract, Contract!Spec
=============================================================================
