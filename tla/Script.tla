-------------------------------- MODULE Script --------------------------------
(***************************************************************************)
(* src/script.rs on the connection of Commands: load, exists, eval and     *)
(* evalsha are methods like the others; run() is two requests, EVALSHA     *)
(* and, if the answer says NOSCRIPT, EVAL.  The server's script cache is   *)
(* shared with other clients, who may flush it at any time.                *)
(***************************************************************************)
EXTENDS Commands

VARIABLES
  loaded,  \* the script is in the server's cache
  stage,   \* the request of run() that was sent last: "none" outside run()
  ran,     \* how often the current or last call has made the server run it
  echoed   \* it ran and answered with an error of its own that says NOSCRIPT

scriptVars == <<loaded, stage, ran, echoed>>
allVars    == <<vars, scriptVars>>

ScriptMethods == UNION {ScriptCommands[d] : d \in DOMAIN ScriptCommands}

ScriptInit ==
  /\ Init
  /\ loaded \in BOOLEAN
  /\ stage = "none"
  /\ ran = 0
  /\ echoed = FALSE

\* The server: EVALSHA needs the cached script, EVAL caches it; a request that
\* it refuses may or may not have run the script.  n and e are what the call has
\* counted and seen before.
Serves(c, n, e) ==
  LET v     == wire'[Len(wire')].v
      found == c = "EVAL" \/ (c = "EVALSHA" /\ loaded)
  IN /\ c = "EVALSHA" /\ ~loaded => v = Failure("NOSCRIPT")
     /\ c = "SCRIPT EXISTS" /\ v.k = "array" =>
          v = Array(<<Num(IF loaded THEN 1 ELSE 0)>>)
     /\ ran' \in CASE ~found -> {n}
                   [] found /\ v = Failure("ERR") -> {n, n + 1}
                   [] found /\ v # Failure("ERR") -> {n + 1}
     /\ echoed' = (e \/ (found /\ v = Failure("NOSCRIPT")))
     /\ loaded' \in CASE c \notin {"EVAL", "SCRIPT LOAD"} -> {loaded}
                      [] c \in {"EVAL", "SCRIPT LOAD"} ->
                           IF v = Failure("ERR") THEN {loaded, TRUE} ELSE {TRUE}

\* Another client's SCRIPT FLUSH, or a restart.
Flush ==
  /\ loaded
  /\ loaded' = FALSE
  /\ UNCHANGED <<vars, stage, ran, echoed>>

PlainCall(c) ==
  /\ Call(c)
  /\ stage' = "none"
  /\ ran' = 0
  /\ echoed' = FALSE
  /\ UNCHANGED loaded

\* load, exists, eval, evalsha.
ScriptCall(c) ==
  /\ Call(c)
  /\ Serves(c, 0, FALSE)
  /\ stage' = "none"

\* run() begins with EVALSHA.
RunCall ==
  /\ Call("EVALSHA")
  /\ Serves("EVALSHA", 0, FALSE)
  /\ stage' = "evalsha"

\* Seeded fault: any error makes run() try again.
FallsBackOnError(v) == v.k = "error"

\* Error::Redis whose text contains NOSCRIPT.
FallsBack(v) == v = Failure("NOSCRIPT")

\* The answer to EVALSHA sends run() back to the server, with the source.
RunFallback ==
  /\ pc = "wait"
  /\ stage = "evalsha"
  /\ FallsBack(Head(wire).v)
  /\ reply' = Head(wire)
  /\ Request("EVAL", Tail(wire))
  /\ Serves("EVAL", ran, echoed)
  /\ cmd' = "EVAL"
  /\ stage' = "eval"
  /\ UNCHANGED <<pc, i, acc, result>>

ScriptReceive ==
  /\ Receive
  /\ ~(stage = "evalsha" /\ FallsBack(Head(wire).v))
  /\ UNCHANGED scriptVars

ScriptNext ==
  \/ \E c \in Methods \ ScriptMethods : PlainCall(c)
  \/ \E c \in ScriptMethods : ScriptCall(c)
  \/ RunCall
  \/ RunFallback
  \/ ScriptReceive
  \/ (Abandon \/ DecodeStep) /\ UNCHANGED scriptVars
  \/ Flush

\* The runtime polls, and the server answers.  A call need not be made.
ScriptSpec ==
  /\ ScriptInit /\ [][ScriptNext]_allVars
  /\ WF_allVars(ScriptReceive \/ RunFallback)
  /\ WF_allVars(DecodeStep /\ UNCHANGED scriptVars)

-----------------------------------------------------------------------------
\* run() makes the server run the script once, whatever happens to the cache
\* meanwhile: never twice, and not less than once when it returns a value.  It
\* relies on the connection being in step (the late NOSCRIPT of an abandoned
\* call makes run() send EVAL after an EVALSHA that found the script), and on
\* the script not reporting NOSCRIPT itself.
RunsOnce ==
  (pc = "idle" /\ stage # "none" /\ InStep /\ ~echoed) =>
     IF result.ok THEN ran = 1 ELSE ran <= 1
=============================================================================
