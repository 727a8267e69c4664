---------------------------- MODULE Sentinel_proofs ----------------------------
(***************************************************************************)
(* The safety properties of Sentinel for any number of tasks, sentinels,   *)
(* masters and look-ups.                                                   *)
(***************************************************************************)
EXTENDS Sentinel, FiniteSetTheorems, TLAPS

USE SentinelAssumption DEF Sentinels, Modes, NoAddr, Odd, Failed, envVars

\* Where a task stands tells what it holds: a client of the sentinel it asks
\* and nothing else, an address when it is about to store one, and no result
\* before it returns.
Awaits ==
  \A t \in Tasks :
    /\ pc[t] \in {"dial", "wait", "store"} => at[t] \in Sentinels
    /\ open[t] \subseteq {at[t]}
    /\ pc[t] \notin {"dial", "wait"} => open[t] = {}
    /\ pc[t] \in {"rest", "ask", "dial"} => answer[t] = NoAddr
    /\ pc[t] = "store" => answer[t] \in 1..MaxMaster
    /\ pc[t] # "rest" => result[t] = NoAddr

\* Sentinels do not forget, so an answer is at least what its sentinel knew.
Fresh ==
  \A t \in Tasks :
    /\ \A s \in Sentinels : view[s] >= known[t][s]
    /\ answer[t] \in 1..MaxMaster => answer[t] >= known[t][at[t]]
    /\ result[t] \in 1..MaxMaster => result[t] >= known[t][at[t]]

\* The loop has not passed a sentinel that could have answered.
Complete ==
  \A t \in Tasks :
    /\ \A s \in good[t] : mode[s] = "answers"
    /\ pc[t] # "rest" => \A s \in good[t] : s >= at[t]
    /\ answer[t] = Odd => at[t] \notin good[t]
    /\ result[t] = Failed => good[t] = {}

\* The inductive invariant.
SentinelInv == TypeOK /\ Awaits /\ Fresh /\ Complete

\* The invariant holds when a FailoverClient is made.
LEMMA InitInv == Init => SentinelInv
  BY DEF Init, SentinelInv, TypeOK, Awaits, Fresh, Complete

\* What the sentinels do among themselves disturbs no look-up.
LEMMA SentinelsStep ==
  ASSUME SentinelInv,
         Promote \/ \E s \in Sentinels : Learn(s) \/ \E m \in Modes : Change(s, m)
  PROVE  SentinelInv'
<1>1. CASE Promote
  BY <1>1 DEF Promote, SentinelInv, TypeOK, Awaits, Fresh, Complete
<1>2. ASSUME NEW s \in Sentinels, Learn(s)
      PROVE  SentinelInv'
  <2>1. TypeOK'
    BY <1>2 DEF Learn, SentinelInv, TypeOK
  <2>2. \A u \in Sentinels : view'[u] >= view[u]
    BY <1>2 DEF Learn, SentinelInv, TypeOK
  <2>3. Fresh'
    <3> SUFFICES ASSUME NEW t \in Tasks, NEW u \in Sentinels
                 PROVE  view'[u] >= known[t][u]
      BY <1>2 DEF Learn, SentinelInv, Fresh
    <3>1. view[u] \in 1..MaxMaster /\ view'[u] \in 1..MaxMaster
      BY <2>1 DEF SentinelInv, TypeOK
    <3>2. known[t] \in [Sentinels -> 1..MaxMaster]
      BY DEF SentinelInv, TypeOK
    <3>3. known[t][u] \in 1..MaxMaster
      BY <3>2
    <3>4. view[u] >= known[t][u]
      BY DEF SentinelInv, Fresh
    <3>5. QED
      BY <2>2, <3>1, <3>3, <3>4
  <2>4. Awaits' /\ Complete'
    BY <1>2 DEF Learn, SentinelInv, Awaits, Complete
  <2>5. QED
    BY <2>1, <2>3, <2>4 DEF SentinelInv
<1>3. ASSUME NEW s \in Sentinels, NEW m \in Modes, Change(s, m)
      PROVE  SentinelInv'
  <2>1. TypeOK'
    <3>1. faults' \in 0..MaxFaults
      BY <1>3 DEF Change, SentinelInv, TypeOK
    <3>2. mode' \in [Sentinels -> Modes]
      BY <1>3 DEF Change, SentinelInv, TypeOK
    <3>3. good' \in [Tasks -> SUBSET Sentinels]
      BY <1>3 DEF Change, SentinelInv, TypeOK
    <3>4. QED
      BY <1>3, <3>1, <3>2, <3>3 DEF Change, SentinelInv, TypeOK
  <2>2. Awaits' /\ Fresh'
    BY <1>3 DEF Change, SentinelInv, TypeOK, Awaits, Fresh
  <2>3. Complete'
    BY <1>3 DEF Change, SentinelInv, TypeOK, Complete
  <2>4. QED
    BY <2>1, <2>2, <2>3 DEF SentinelInv
<1>4. QED
  BY <1>1, <1>2, <1>3

\* One step of one look-up keeps the types, and every task where it should be.
LEMMA LookupTypes ==
  ASSUME SentinelInv, NEW t \in Tasks,
         Lookup(t) \/ Reply(t) \/ LookupStep(t) \/ Cancel(t)
  PROVE  TypeOK' /\ Awaits'
<1> USE DEF SentinelInv, TypeOK, Awaits, Goto
<1>1. CASE Lookup(t)
  <2>1. TypeOK'
    <3>1. lookups' \in 0..MaxLookups
      BY <1>1 DEF Lookup
    <3>2. at' \in [Tasks -> 1..(NumSentinels + 1)]
      BY <1>1 DEF Lookup
    <3>3. result' \in [Tasks -> 0..Failed]
      BY <1>1 DEF Lookup
    <3>4. known' \in [Tasks -> [Sentinels -> 1..MaxMaster]]
      BY <1>1 DEF Lookup
    <3>5. good' \in [Tasks -> SUBSET Sentinels]
      BY <1>1 DEF Lookup
    <3>6. pc' \in [Tasks -> {"rest", "ask", "dial", "wait", "store"}]
      BY <1>1 DEF Lookup
    <3>7. QED
      BY <1>1, <3>1, <3>2, <3>3, <3>4, <3>5, <3>6 DEF Lookup
  <2>2. Awaits'
    BY <1>1 DEF Lookup
  <2>3. QED
    BY <2>1, <2>2
<1>2. CASE Reply(t)
  <2>1. at[t] \in Sentinels
    BY <1>2 DEF Reply
  <2>2. view[at[t]] \in 0..Odd /\ Odd \in 0..Odd
    BY <2>1
  <2>3. answer' \in [Tasks -> 0..Odd]
    BY <1>2, <2>2 DEF Reply
  <2>4. TypeOK'
    BY <1>2, <2>3 DEF Reply
  <2>5. Awaits'
    BY <1>2 DEF Reply
  <2>6. QED
    BY <2>4, <2>5
<1>3. CASE Ask(t)
  <2>1. at[t] \in Sentinels
    BY <1>3 DEF Ask
  <2>2. open' \in [Tasks -> SUBSET Sentinels]
    BY <1>3, <2>1 DEF Ask
  <2>3. TypeOK'
    BY <1>3, <2>2 DEF Ask
  <2>4. Awaits'
    BY <1>3, <2>1 DEF Ask
  <2>5. QED
    BY <2>3, <2>4
<1>4. CASE DialErr(t)
  <2>1. at[t] \in Sentinels /\ at[t] + 1 \in 1..(NumSentinels + 1)
    BY <1>4 DEF DialErr, CloseClient, Skip
  <2>2. TypeOK'
    BY <1>4, <2>1 DEF DialErr, CloseClient, Skip
  <2>3. Awaits'
    BY <1>4, <2>1 DEF DialErr, CloseClient, Skip
  <2>4. QED
    BY <2>2, <2>3
<1>5. CASE Answer(t)
  BY <1>5 DEF Answer, CloseClient
<1>6. CASE NoAnswer(t)
  <2>1. at[t] \in Sentinels /\ at[t] + 1 \in 1..(NumSentinels + 1)
    BY <1>6 DEF NoAnswer, CloseClient, Skip
  <2>2. TypeOK'
    BY <1>6, <2>1 DEF NoAnswer, CloseClient, Skip
  <2>3. Awaits'
    BY <1>6, <2>1 DEF NoAnswer, CloseClient, Skip
  <2>4. QED
    BY <2>2, <2>3
<1>7. CASE Store(t)
  <2>1. TypeOK'
    <3>1. answer[t] \in 1..MaxMaster
      BY <1>7 DEF Store
    <3>2. cached' \in 0..MaxMaster /\ result' \in [Tasks -> 0..Failed]
      BY <1>7, <3>1 DEF Store
    <3>3. answer' \in [Tasks -> 0..Odd]
      BY <1>7 DEF Store
    <3>4. pc' \in [Tasks -> {"rest", "ask", "dial", "wait", "store"}]
      BY <1>7 DEF Store
    <3>5. QED
      BY <1>7, <3>2, <3>3, <3>4 DEF Store
  <2>2. Awaits'
    BY <1>7 DEF Store
  <2>3. QED
    BY <2>1, <2>2
<1>8. CASE Unreachable(t)
  <2>1. result' \in [Tasks -> 0..Failed]
    BY <1>8 DEF Unreachable
  <2>2. pc' \in [Tasks -> {"rest", "ask", "dial", "wait", "store"}]
    BY <1>8 DEF Unreachable
  <2>3. TypeOK'
    BY <1>8, <2>1, <2>2 DEF Unreachable
  <2>4. Awaits'
    BY <1>8 DEF Unreachable
  <2>5. QED
    BY <2>3, <2>4
<1>9. CASE Cancel(t)
  BY <1>9 DEF Cancel
<1>10. CASE DialOk(t)
  BY <1>10 DEF DialOk
<1>11. QED
  BY <1>1, <1>2, <1>3, <1>4, <1>5, <1>6, <1>7, <1>8, <1>9, <1>10 DEF LookupStep

\* It returns nothing outdated ...
LEMMA LookupFresh ==
  ASSUME SentinelInv, NEW t \in Tasks,
         Lookup(t) \/ Reply(t) \/ LookupStep(t) \/ Cancel(t)
  PROVE  Fresh'
<1> USE DEF SentinelInv, TypeOK, Awaits, Fresh, Goto
<1>1. CASE Lookup(t)
  BY <1>1 DEF Lookup
<1>2. CASE Reply(t)
  <2>1. at[t] \in Sentinels
    BY <1>2 DEF Reply
  <2>2. answer'[t] \in 1..MaxMaster => answer'[t] = view[at[t]]
    BY <1>2 DEF Reply
  <2>3. view[at[t]] >= known[t][at[t]]
    BY <2>1
  <2>4. \A u \in Tasks \ {t} : answer'[u] = answer[u]
    BY <1>2 DEF Reply
  <2>5. view' = view /\ known' = known /\ result' = result /\ at' = at
    BY <1>2 DEF Reply
  <2>6. QED
    BY <2>2, <2>3, <2>4, <2>5
<1>3. CASE Ask(t)
  BY <1>3 DEF Ask
<1>4. CASE DialErr(t)
  <2>1. answer'[t] = NoAddr /\ result'[t] = NoAddr
    BY <1>4 DEF DialErr
  <2>2. \A u \in Tasks \ {t} : /\ answer'[u] = answer[u] /\ result'[u] = result[u]
                               /\ at'[u] = at[u]
    BY <1>4 DEF DialErr, CloseClient, Skip
  <2>3. view' = view /\ known' = known
    BY <1>4 DEF DialErr
  <2> HIDE DEF SentinelInv, TypeOK, Awaits
  <2>4. Fresh
    BY DEF SentinelInv
  <2>5. QED
    BY <2>1, <2>2, <2>3, <2>4
<1>5. CASE Answer(t)
  BY <1>5 DEF Answer, CloseClient
<1>6. CASE NoAnswer(t)
  <2>1. answer'[t] = NoAddr /\ result'[t] = NoAddr
    BY <1>6 DEF NoAnswer
  <2>2. \A u \in Tasks \ {t} : /\ answer'[u] = answer[u] /\ result'[u] = result[u]
                               /\ at'[u] = at[u]
    BY <1>6 DEF NoAnswer, CloseClient, Skip
  <2>3. view' = view /\ known' = known
    BY <1>6 DEF NoAnswer
  <2> HIDE DEF SentinelInv, TypeOK, Awaits
  <2>4. Fresh
    BY DEF SentinelInv
  <2>5. QED
    BY <2>1, <2>2, <2>3, <2>4
<1>7. CASE Store(t)
  BY <1>7 DEF Store
<1>8. CASE Unreachable(t)
  BY <1>8 DEF Unreachable
<1>9. CASE Cancel(t)
  BY <1>9 DEF Cancel
<1>10. CASE DialOk(t)
  BY <1>10 DEF DialOk
<1>11. QED
  BY <1>1, <1>2, <1>3, <1>4, <1>5, <1>6, <1>7, <1>8, <1>9, <1>10 DEF LookupStep

\* ... and passes no sentinel that could answer.
LEMMA LookupComplete ==
  ASSUME SentinelInv, NEW t \in Tasks,
         Lookup(t) \/ Reply(t) \/ LookupStep(t) \/ Cancel(t)
  PROVE  Complete'
<1> USE DEF SentinelInv, TypeOK, Awaits, Complete, Goto
<1>1. CASE Lookup(t)
  <2>1. /\ good'[t] = {s \in Sentinels : mode[s] = "answers"}
        /\ at'[t] = 1 /\ answer'[t] = NoAddr /\ result'[t] = NoAddr
    BY <1>1 DEF Lookup
  <2>2. \A s \in good'[t] : s >= at'[t]
    BY <2>1
  <2>3. \A u \in Tasks \ {t} : /\ good'[u] = good[u] /\ result'[u] = result[u]
                               /\ at'[u] = at[u] /\ pc'[u] = pc[u]
    BY <1>1 DEF Lookup
  <2>4. mode' = mode /\ answer' = answer
    BY <1>1 DEF Lookup
  <2> HIDE DEF SentinelInv, TypeOK, Awaits
  <2>5. Complete
    BY DEF SentinelInv
  <2>6. QED
    BY <2>1, <2>2, <2>3, <2>4, <2>5
<1>2. CASE Reply(t)
  <2>1. answer'[t] = Odd => at[t] \notin good[t]
    BY <1>2 DEF Reply
  <2>2. \A u \in Tasks \ {t} : answer'[u] = answer[u]
    BY <1>2 DEF Reply
  <2>3. mode' = mode /\ good' = good /\ result' = result /\ at' = at /\ pc' = pc
    BY <1>2 DEF Reply
  <2> HIDE DEF SentinelInv, TypeOK, Awaits
  <2>4. Complete
    BY DEF SentinelInv
  <2>5. QED
    BY <2>1, <2>2, <2>3, <2>4
<1>3. CASE Ask(t)
  BY <1>3 DEF Ask
<1>4. CASE DialErr(t)
  <2>1. at[t] \in Nat /\ at'[t] = at[t] + 1 /\ at[t] \notin good[t]
    BY <1>4 DEF DialErr, CloseClient, Skip
  <2>2. good[t] \subseteq Nat /\ \A s \in good[t] : s >= at[t]
    <3>1. good[t] \subseteq Sentinels
      OBVIOUS
    <3>2. \A s \in good[t] : s >= at[t]
      BY <1>4 DEF DialErr
    <3>3. Sentinels \subseteq Nat
      OBVIOUS
    <3>4. QED
      BY <3>1, <3>2, <3>3
  <2>3. \A s \in good[t] : s >= at'[t]
    BY <2>1, <2>2
  <2>4. answer'[t] # Odd /\ result'[t] # Failed
    BY <1>4 DEF DialErr
  <2>5. mode' = mode /\ good' = good
    BY <1>4 DEF DialErr
  <2>6. \A u \in Tasks \ {t} : /\ answer'[u] = answer[u] /\ result'[u] = result[u]
                               /\ at'[u] = at[u] /\ pc'[u] = pc[u]
    BY <1>4 DEF DialErr, CloseClient, Skip
  <2> HIDE DEF SentinelInv, TypeOK, Awaits
  <2>7. Complete
    BY DEF SentinelInv
  <2>8. QED
    BY <2>3, <2>4, <2>5, <2>6, <2>7
<1>5. CASE Answer(t)
  BY <1>5 DEF Answer, CloseClient
<1>6. CASE NoAnswer(t)
  <2>1. at[t] \in Nat /\ at'[t] = at[t] + 1 /\ at[t] \notin good[t]
    BY <1>6 DEF NoAnswer, CloseClient, Skip
  <2>2. good[t] \subseteq Nat /\ \A s \in good[t] : s >= at[t]
    <3>1. good[t] \subseteq Sentinels
      OBVIOUS
    <3>2. \A s \in good[t] : s >= at[t]
      BY <1>6 DEF NoAnswer
    <3>3. Sentinels \subseteq Nat
      OBVIOUS
    <3>4. QED
      BY <3>1, <3>2, <3>3
  <2>3. \A s \in good[t] : s >= at'[t]
    BY <2>1, <2>2
  <2>4. answer'[t] # Odd /\ result'[t] # Failed
    BY <1>6 DEF NoAnswer
  <2>5. mode' = mode /\ good' = good
    BY <1>6 DEF NoAnswer
  <2>6. \A u \in Tasks \ {t} : /\ answer'[u] = answer[u] /\ result'[u] = result[u]
                               /\ at'[u] = at[u] /\ pc'[u] = pc[u]
    BY <1>6 DEF NoAnswer, CloseClient, Skip
  <2> HIDE DEF SentinelInv, TypeOK, Awaits
  <2>7. Complete
    BY DEF SentinelInv
  <2>8. QED
    BY <2>3, <2>4, <2>5, <2>6, <2>7
<1>7. CASE Store(t)
  <2>1. answer'[t] # Odd /\ result'[t] # Failed
    BY <1>7 DEF Store
  <2>2. mode' = mode /\ good' = good
    BY <1>7 DEF Store
  <2>3. pc'[t] = "rest" /\ at' = at
    BY <1>7 DEF Store
  <2>4. \A u \in Tasks \ {t} : /\ answer'[u] = answer[u] /\ result'[u] = result[u]
                               /\ pc'[u] = pc[u]
    BY <1>7 DEF Store
  <2> HIDE DEF SentinelInv, TypeOK, Awaits
  <2>5. Complete
    BY DEF SentinelInv
  <2>6. QED
    BY <2>1, <2>2, <2>3, <2>4, <2>5
<1>8. CASE Unreachable(t)
  <2>1. good[t] \subseteq Sentinels /\ at[t] \in Nat
    OBVIOUS
  <2>2. \A s \in good[t] : s >= at[t]
    BY <1>8 DEF Unreachable
  <2>3. good[t] = {}
    BY <1>8, <2>1, <2>2 DEF Unreachable
  <2>4. QED
    BY <1>8, <2>3 DEF Unreachable
<1>9. CASE Cancel(t)
  BY <1>9 DEF Cancel
<1>10. CASE DialOk(t)
  BY <1>10 DEF DialOk
<1>11. QED
  BY <1>1, <1>2, <1>3, <1>4, <1>5, <1>6, <1>7, <1>8, <1>9, <1>10 DEF LookupStep

\* Every reachable state satisfies the inductive invariant.
THEOREM SentinelInvariant == Spec => []SentinelInv
<1>1. Init => SentinelInv
  BY InitInv
<1>2. SentinelInv /\ [Next]_vars => SentinelInv'
  <2> SUFFICES ASSUME SentinelInv, [Next]_vars PROVE SentinelInv'
    OBVIOUS
  <2>1. CASE Promote \/ \E s \in Sentinels : Learn(s) \/ \E m \in Modes : Change(s, m)
    BY <2>1, SentinelsStep
  <2>2. ASSUME NEW t \in Tasks,
               Lookup(t) \/ Reply(t) \/ LookupStep(t) \/ Cancel(t)
        PROVE  SentinelInv'
    BY <2>2, LookupTypes, LookupFresh, LookupComplete DEF SentinelInv
  <2>3. CASE UNCHANGED vars
    BY <2>3 DEF vars, envVars, SentinelInv, TypeOK, Awaits, Fresh, Complete
  <2>4. QED
    BY <2>1, <2>2, <2>3 DEF Next
<1>3. QED
  BY <1>1, <1>2, PTL DEF Spec

\* Variables keep their types; the loop's index never passes the end by more
\* than one.
THEOREM TypeCorrect == Spec => []TypeOK
  BY SentinelInvariant, PTL DEF SentinelInv

\* A look-up returns no address older than what the sentinel that gave it
\* knew when the look-up began.
THEOREM AddressNotOutdated == Spec => []NotOutdated
<1>1. SentinelInv => NotOutdated
  BY DEF SentinelInv, Fresh, NotOutdated
<1>2. QED
  BY <1>1, SentinelInvariant, PTL

\* A look-up gives up only when no sentinel could have answered throughout.
THEOREM GivesUpOnlyAtTheEnd == Spec => []GivesUpLast
<1>1. SentinelInv => GivesUpLast
  BY DEF SentinelInv, Complete, GivesUpLast
<1>2. QED
  BY <1>1, SentinelInvariant, PTL

\* A look-up has one client at most, and none when it neither dials nor
\* waits.
THEOREM ClientsClosed == Spec => []OneClientEach
<1>1. SentinelInv => OneClientEach
  <2> SUFFICES ASSUME SentinelInv, NEW t \in Tasks
               PROVE  /\ Cardinality(open[t]) <= 1
                      /\ pc[t] \notin {"dial", "wait"} => open[t] = {}
    BY DEF OneClientEach
  <2>1. open[t] = {} \/ open[t] = {at[t]}
    BY DEF SentinelInv, Awaits
  <2>2. Cardinality({}) = 0 /\ Cardinality({at[t]}) = 1
    BY FS_EmptySet, FS_Singleton
  <2>3. Cardinality(open[t]) <= 1
    BY <2>1, <2>2
  <2>4. QED
    BY <2>3 DEF SentinelInv, Awaits
<1>2. QED
  BY <1>1, SentinelInvariant, PTL
=============================================================================
