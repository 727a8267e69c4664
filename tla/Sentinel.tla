------------------------------- MODULE Sentinel -------------------------------
(***************************************************************************)
(* src/sentinel.rs: FailoverClient::get_master_addr and get_client, called *)
(* by several tasks on one FailoverClient while the master changes.        *)
(*                                                                         *)
(* Masters are numbered in the order in which they are promoted, so that a *)
(* stale address is a smaller number.  A look-up asks the sentinels one by *)
(* one, each through a client of its own that is closed again before the   *)
(* answer is looked at.                                                    *)
(***************************************************************************)
EXTENDS Naturals, Sequences, FiniteSets

CONSTANTS
  Tasks,
  NumSentinels,  \* length of sentinel_addrs
  ReadTimeout,   \* read_timeout is set
  MaxMaster,     \* bound: masters promoted
  MaxFaults,     \* bound: changes of what the sentinels do
  MaxLookups     \* bound: look-ups

ASSUME SentinelAssumption ==
  /\ NumSentinels \in Nat /\ MaxFaults \in Nat /\ MaxLookups \in Nat
  /\ MaxMaster \in Nat \ {0}
  /\ ReadTimeout \in BOOLEAN

VARIABLES
  master,  \* the current master
  view,    \* view[s]: the master sentinel s knows of
  mode,    \* mode[s]: how sentinel s treats a query
  faults, lookups,
  cached,  \* FailoverClient.master_addr; 0 for the empty string
  pc,      \* pc[t]: the await point of task t
  at,      \* at[t]: the sentinel that is asked, an index of sentinel_addrs
  open,    \* open[t]: the sentinels that task t has a client for
  answer,  \* answer[t]: the reply to its query, on its way or received
  result,  \* result[t]: what the last look-up returned
  known,   \* known[t]: the views of the sentinels when it began
  good     \* good[t]: sentinels that could have answered ever since it began

envVars == <<master, view, mode, faults>>
vars == <<envVars, lookups, cached, pc, at, open, answer, result, known, good>>

Sentinels == 1..NumSentinels

\* A sentinel answers with host and port, answers something else (nil for a
\* master it does not know, an error, an array that is not two strings),
\* refuses the connection, or says nothing.  One that is slower than
\* read_timeout is silent until a Change.
Modes == {"answers", "odd", "down", "silent"}

NoAddr  == 0
Odd     == MaxMaster + 1   \* a reply without an address
Failed  == MaxMaster + 1   \* Err("redis: all sentinels are unreachable")

TypeOK ==
  /\ master \in 1..MaxMaster
  /\ view \in [Sentinels -> 1..MaxMaster]
  /\ mode \in [Sentinels -> Modes]
  /\ cached \in 0..MaxMaster
  /\ pc \in [Tasks -> {"rest", "ask", "dial", "wait", "store"}]
  /\ at \in [Tasks -> 1..(NumSentinels + 1)]
  /\ open \in [Tasks -> SUBSET Sentinels]
  /\ answer \in [Tasks -> 0..Odd]
  /\ result \in [Tasks -> 0..Failed]
  /\ known \in [Tasks -> [Sentinels -> 1..MaxMaster]]
  /\ good \in [Tasks -> SUBSET Sentinels]
  /\ faults \in 0..MaxFaults /\ lookups \in 0..MaxLookups

Init ==
  /\ master = 1
  /\ view = [s \in Sentinels |-> 1]
  /\ mode \in [Sentinels -> Modes]
  /\ faults = 0 /\ lookups = 0
  /\ cached = NoAddr
  /\ pc = [t \in Tasks |-> "rest"]
  /\ at = [t \in Tasks |-> 1]
  /\ open = [t \in Tasks |-> {}]
  /\ answer = [t \in Tasks |-> NoAddr]
  /\ result = [t \in Tasks |-> NoAddr]
  /\ known = [t \in Tasks |-> view]
  /\ good = [t \in Tasks |-> {}]

-----------------------------------------------------------------------------
(* The sentinels                                                             *)

Promote ==
  /\ master < MaxMaster
  /\ master' = master + 1
  /\ UNCHANGED <<view, mode, faults, lookups, cached, pc, at, open, answer,
                 result, known, good>>

Learn(s) ==
  /\ view[s] < master
  /\ view' = [view EXCEPT ![s] = master]
  /\ UNCHANGED <<master, mode, faults, lookups, cached, pc, at, open, answer,
                 result, known, good>>

Change(s, m) ==
  /\ faults < MaxFaults
  /\ faults' = faults + 1
  /\ mode[s] # m
  /\ mode' = [mode EXCEPT ![s] = m]
  /\ good' = [t \in Tasks |-> good[t] \ {s}]
  /\ UNCHANGED <<master, view, lookups, cached, pc, at, open, answer, result,
                 known>>

\* The sentinel that task t asks handles the query.
Reply(t) ==
  /\ pc[t] = "wait"
  /\ answer[t] = NoAddr
  /\ mode[at[t]] \in {"answers", "odd"}
  /\ answer' = [answer EXCEPT ![t] =
                  IF mode[at[t]] = "odd" THEN Odd ELSE view[at[t]]]
  /\ UNCHANGED <<envVars, lookups, cached, pc, at, open, result, known, good>>

-----------------------------------------------------------------------------
(* get_master_addr                                                           *)

Goto(t, from, to) ==
  /\ pc[t] = from
  /\ pc' = [pc EXCEPT ![t] = to]

Lookup(t) ==
  /\ lookups < MaxLookups
  /\ lookups' = lookups + 1
  /\ Goto(t, "rest", "ask")
  /\ at' = [at EXCEPT ![t] = 1]
  /\ result' = [result EXCEPT ![t] = NoAddr]
  /\ known' = [known EXCEPT ![t] = view]
  /\ good' = [good EXCEPT ![t] = {s \in Sentinels : mode[s] = "answers"}]
  /\ UNCHANGED <<envVars, cached, open, answer>>

\* Client::new; its query is the first use of the client, and dials.
Ask(t) ==
  /\ at[t] <= NumSentinels
  /\ Goto(t, "ask", "dial")
  /\ open' = [open EXCEPT ![t] = @ \cup {at[t]}]
  /\ UNCHANGED <<envVars, lookups, cached, at, answer, result, known, good>>

\* The connection is made, and the query goes out on it.
DialOk(t) ==
  /\ Goto(t, "dial", "wait")
  /\ mode[at[t]] # "down"
  /\ UNCHANGED <<envVars, lookups, cached, at, open, answer, result, known,
                 good>>

\* Seeded fault: the index is advanced by itself.
SkipDouble(t) == at' = [at EXCEPT ![t] = @ + @]

\* Seeded fault: the same sentinel is asked again.
SkipNone(t) == at' = at

\* Seeded fault: the loop ends at the first failure.
SkipLast(t) == at' = [at EXCEPT ![t] = NumSentinels + 1]

\* The loop goes on with the next sentinel.
Skip(t) == at' = [at EXCEPT ![t] = @ + 1]

\* Seeded fault: the client is closed only on the way to the next sentinel.
CloseClientLate(t) == UNCHANGED open

\* client.close()
CloseClient(t) == open' = [open EXCEPT ![t] = @ \ {at[t]}]

\* The connection is refused, or dial_timeout elapses.
DialErr(t) ==
  /\ Goto(t, "dial", "ask")
  /\ mode[at[t]] \in {"down", "silent"}
  /\ CloseClient(t)
  /\ Skip(t)
  /\ UNCHANGED <<envVars, lookups, cached, answer, result, known, good>>

\* An array with host and port arrives.
Answer(t) ==
  /\ answer[t] \in 1..MaxMaster
  /\ Goto(t, "wait", "store")
  /\ CloseClient(t)
  /\ UNCHANGED <<envVars, lookups, cached, at, answer, result, known, good>>

\* Another reply, the end of the connection, or read_timeout.
NoAnswer(t) ==
  /\ Goto(t, "wait", "ask")
  /\ \/ answer[t] = Odd
     \/ answer[t] = NoAddr /\ mode[at[t]] = "down"
     \/ answer[t] = NoAddr /\ mode[at[t]] = "silent" /\ ReadTimeout
  /\ CloseClient(t)
  /\ Skip(t)
  /\ answer' = [answer EXCEPT ![t] = NoAddr]
  /\ UNCHANGED <<envVars, lookups, cached, result, known, good>>

\* Seeded fault: what is returned is read back from the shared cell.
StoreSharedResult(t) ==
  /\ Goto(t, "store", "rest")
  /\ cached' = IF cached = NoAddr THEN answer[t] ELSE cached
  /\ result' = [result EXCEPT ![t] = cached']
  /\ answer' = [answer EXCEPT ![t] = NoAddr]
  /\ UNCHANGED <<envVars, lookups, at, open, known, good>>

\* The write lock of master_addr is taken, and the address returned.
Store(t) ==
  /\ Goto(t, "store", "rest")
  /\ cached' = answer[t]
  /\ result' = [result EXCEPT ![t] = answer[t]]
  /\ answer' = [answer EXCEPT ![t] = NoAddr]
  /\ UNCHANGED <<envVars, lookups, at, open, known, good>>

\* The loop has passed the last sentinel.
Unreachable(t) ==
  /\ at[t] > NumSentinels
  /\ Goto(t, "ask", "rest")
  /\ result' = [result EXCEPT ![t] = Failed]
  /\ UNCHANGED <<envVars, lookups, cached, at, open, answer, known, good>>

\* The caller drops the future, and with it the client in use.
Cancel(t) ==
  /\ pc[t] # "rest"
  /\ pc' = [pc EXCEPT ![t] = "rest"]
  /\ open' = [open EXCEPT ![t] = {}]
  /\ answer' = [answer EXCEPT ![t] = NoAddr]
  /\ UNCHANGED <<envVars, lookups, cached, at, result, known, good>>

LookupStep(t) ==
  \/ Ask(t) \/ DialOk(t) \/ DialErr(t) \/ Answer(t) \/ NoAnswer(t)
  \/ Store(t) \/ Unreachable(t)

Next ==
  \/ Promote
  \/ \E s \in Sentinels : Learn(s) \/ \E m \in Modes : Change(s, m)
  \/ \E t \in Tasks : Lookup(t) \/ Reply(t) \/ LookupStep(t) \/ Cancel(t)

Spec == Init /\ [][Next]_vars

\* The runtime polls; a sentinel that is neither down nor silent handles its
\* queries; the write lock is free again as soon as it is taken.
FairSpec == Spec /\ \A t \in Tasks : WF_vars(LookupStep(t)) /\ WF_vars(Reply(t))

-----------------------------------------------------------------------------
(* Properties                                                                *)

\* "Get the current master address from Sentinel": the address a look-up
\* returns is no older than what the sentinel that gave it knew when the
\* look-up began, whatever other look-ups leave in the shared master_addr.
NotOutdated ==
  \A t \in Tasks :
    result[t] \in 1..MaxMaster => result[t] >= known[t][at[t]]

\* "all sentinels are unreachable" is said only if there was no sentinel that
\* could have answered during the whole look-up: the loop skips none and gives
\* up after the last.
GivesUpLast == \A t \in Tasks : result[t] = Failed => good[t] = {}

\* A look-up has at most one client open, and none when it neither dials
\* nor waits for a reply: every path of the loop closes the client it made.
OneClientEach ==
  \A t \in Tasks : /\ Cardinality(open[t]) <= 1
                   /\ pc[t] \notin {"dial", "wait"} => open[t] = {}

\* With a read_timeout every look-up ends, whatever the sentinels do.  Without
\* one, a sentinel that accepts the connection and is silent holds it for ever.
LookupEnds == \A t \in Tasks : pc[t] # "rest" ~> pc[t] = "rest"
=============================================================================
