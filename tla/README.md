# A TLA+ verification of rust-redis-rs

rust-redis-rs is an asynchronous Redis client on Tokio. Its difficulty is not in
the eighty-six command methods, which serialise arguments and match a reply, but in
what they share: a pool of connections that is handed between tasks by locks, a
semaphore and detached tasks, and byte streams on which every request must meet
its own reply. This directory models those parts in TLA+, checks them with TLC
on small instances, and proves the safety properties with TLAPS for every instance,
but for five that compare the parser with an encoding of replies.

Line numbers refer to the files under `src/src/`.

## 1. Inventory

| component | state | operations | interacts with |
|---|---|---|---|
| Connection pool, `pool.rs` | `idle` stack, `closed` flag (two async mutexes), semaphore of `pool_size` permits | `get`, `put`, `close`, `PoolGuard::{conn, remove, drop}` | called by every operation; `drop` spawns `put` as a task |
| Connection, `connection.rs` | socket and `BufReader`, two timeouts | `write_all`, `parse_reply`, `buffer_size` | owned by a guard, the stack, a `put` task or a `PubSub` |
| Client, `client.rs` | the pool, options | `new` (dial and AUTH/SELECT closures), `process_cmd`, typed commands, `close` | pool, parser |
| Pipeline, `pipeline.rs` | queued commands | `cmd`, `clear`, `execute` | pool, one connection |
| Transaction, `multi.rs` | queued commands | `cmd`, `discard`, `exec` | pool, one connection |
| RESP, `parser.rs` | none | `append_args`, `read_line`, `read_n`, `parse_reply`, decoders | every reader of a connection |
| Pub/Sub, `pubsub.rs` | a connection taken out of the pool, behind a mutex | `subscribe` and friends, `receive` | `PoolGuard::remove` |
| Script, `script.rs` | source and hash | `load`, `exists`, `run`, `eval`, `evalsha` | client |
| Sentinel, `sentinel.rs` | cached master address | `get_master_addr`, `get_client` | a short-lived client per sentinel |
| Typed commands, `commands.rs` | a parsed value | one decoder per type; nothing else uses it | parser |
| Errors, `error.rs` | none | conversions | all |

What makes each part correct:

* **Pool.** A connection has one owner at a time. No permit is lost on any of the
  paths out of `get`. A connection with unread data is not returned; nothing is
  returned to a closed pool, although the return is a detached task. `get`,
  `put` and `close` end although they wait for each other.
* **Connection, client, pipeline, transaction.** Every caller reads the reply to
  its own request, completely, and leaves the stream where the next user
  expects it. No operation waits for a reply that will not come.
* **Parser.** However a reply is cut into chunks, it gives one value and is
  consumed exactly; a malformed or truncated one is an error; a call never waits
  for a byte it does not need.
* **Pub/Sub.** Concurrent calls share one connection; what `receive` returns is what
  was pushed, in order; nothing is lost unless its reading was given up; calls end.
* **Typed commands.** Every answer of the server is understood in full, by the
  methods of the client and by the objects of `commands.rs` alike, and every call
  returns.
* **Script.** `run` makes the server run the script once.
* **Sentinel.** A look-up returns an address that is not outdated, gives up only
  after the last sentinel, leaves no client behind and ends.

What is hard to test here: interleavings of `get`, `put` and `close` at their
await points; futures dropped at an await point; read timeouts racing late
replies; writes that time out in the middle of a request; replies that arrive in
pieces, so that the unread-data test sees some of them and not others; errors in the middle of a batch; connections that break
while idle, lent, or between two units of a reply. `PROJECT.json` lists these
hazards by line, with the properties that cover them.

## 2. Modules

    PoolContract        what the pool promises                     (abstract)
      ^ refined by
    ConnPool            locks, semaphore, await points             (detailed)
      ^ extended by
    ConnPool_proofs     invariants and the      MCConnPool   instances for TLC
                        refinement, proved

    Client              requests and replies, on top of PoolContract
      ^ extended by
    Client_proofs       types, owners, buffers  MCClient     instances for TLC
      ^ extended by
    Client_stream       units in step, proved

    PubSub              one PubSub shared by tasks; the stream of pushes
      ^ extended by
    PubSub_proofs       the mutex and the       MCPubSub     instances for TLC
                        stream, proved

    RedisValue          replies, results, texts and numbers
      ^ extended by
    TypedCmd            the objects of commands.rs
      ^ extended by                                 ^ extended by
    Commands            the typed methods           Resp         the parser, on bytes;
      ^ extended by                                              implements RespWhole
    Script              scripts on the same         ^ extended by
                        connection                  RespReplies  what servers send and
      ^ extended by                                              append_args writes
    Commands_proofs     replies, typed objects      ^ extended by
                        and run(), proved           MCResp       calls and streams for TLC

                                                    Resp_proofs  extends Resp: the chunks
                                                                 do not matter, proved

    Induction           induction over sets of numbers, used by three of the proofs

    Sentinel            look-ups of one FailoverClient by several tasks
      ^ extended by
    Sentinel_proofs     invariants, proved

### ConnPool

One variable per piece of shared state (`closed`, `permits`, `idle`), and `pc[t]`
for the await point at which task `t` stands. A step is the code between two
await points. Only the lock of `closed` is ever held across an await (`put` keeps
it while it waits for `idle`), so only that lock is a variable, `closedLock`; the
other critical sections run to their end inside one step. A `put` task is named
by the connection it carries: `putting[c]`.

| code | actions |
|---|---|
| `get` | `GetCall`, `GetClosed`, `GetPermit`, then `GetReuse`, `GetEvict` (which loops) or `GetMiss`; `DialOk`/`DialErr`, `InitOk`/`InitErr` |
| holder uses the guard | `UseConn` (the `BufReader` becomes empty or not) |
| `PoolGuard::drop`, `remove` | `DropGuard`, `RemoveGuard`, `DropRemoved` |
| `put` | `PutStamp`, `PutClosed`, `PutPush` |
| `close` | `CloseCall`, `CloseClosed`, `CloseIdle` |
| futures dropped by the caller | `CancelEarly`, `CancelLate` |
| time | `Expire`: `idle_timeout` passes for a connection |

Clock values are abstracted to one bit per connection (`expired`), the content of
a read buffer to whether it is empty (`unread`). The permit of a guard is
released in the same step as its `drop`: the release follows the spawn of `put`
and touches nothing that `put` uses.

### PoolContract

The same pool without locks, semaphore or stack order: `Reuse`, `Connect`,
`GiveBack`, `Discard`, `Detach`, `Settle`, `DropReturning`, `Evict`, `SetClosed`,
`ClearIdle`. Its point is that `Settle` tests the flag and pushes in one step,
and that at most `PoolSize` borrowers exist. It claims no more than the code
keeps: the number of connections is not bounded by `PoolSize` (run `pool_size`),
and a borrower may be served after `close` (the flag is tested before queueing).
The mapping from `ConnPool` forgets the order of `idle`, takes a `put` task as
"returning" from the spawn to the push, and lends from the moment the guard
exists. `ImplementsContract` is checked by TLC (run `pool_safety`) and proved
(section 4).

### Client

Composes `PoolContract` (its actions are conjoined with those of the client) with
streams. A reply is a sequence of *units*: a scalar, or an array header followed
by its elements, tagged with the operation it answers and its place in the
answer. `wire[c]` is what the server has sent or will send, `rdbuf[c]` what the
`BufReader` holds; `Fill` moves any nonempty prefix, which is how replies arrive
in pieces. `Parse` consumes a unit and follows `parse_reply`,
`parse_slice_inner` and the loops of `execute` and `exec`: an error reply ends the
operation wherever it stands, a nil only outside an array, `EXEC` must be answered
by a nonempty array, and the last unit of the last reply ends it. Whatever ends
it, `Finish` drops the guard: the connection goes back if `rdbuf` is empty and is
closed otherwise. `AbandonRead` is a read timeout or a dropped future, and is
possible only where the code awaits, that is with an empty `rdbuf`.
`AbandonWrite` is a write timeout: some commands of the batch have reached the
server, which answers them, and perhaps half of the next one (`torn`). Such a
connection goes back to the pool as well, and the server reads the next request
as the other half: it answers something, or nothing, and may close. (A cut between
MULTI and EXEC also leaves the server inside the transaction; the model counts
answers and does not show that the next ones say `QUEUED`.) `Break` lets
the other end close, perhaps in the middle of a line (unit kind `cut`).

The server is external. It answers a command with a value, nil, an error or an
array; a script also with an array that contains an error; a transaction with
`OK`, a `QUEUED` or error per command, then an array of results and errors, nil,
or an error if a command was refused.

### PubSub

`lock` is the mutex around `PubSub.conn`, held across the awaits of `pool().get()`,
`write_all` and `parse_reply`; `pc[t]` is the await point, as in `ConnPool`.

| code | actions |
|---|---|
| `subscribe` and the other three | `SendCall`, then `EnsureConn`, `PoolOk`/`PoolErr`, `Relock`, `WriteOk`/`WriteErr` |
| `receive` | `ReceiveCall`, `ReceiveLock`, `ReadMore` (header, elements), `ReadLast` (decodes), `ReadLine` (errors and leftovers), `ReadEof` |
| timeouts, dropped futures | `AbandonRead`, `WriteErr`, `Cancel` |

The server (external) keeps the subscriptions of the connection and answers each
name of a command with a push. A push is a header followed by its fields;
`AbandonRead` loses what `receive` has read of one, perhaps with the beginning of the
next unit, and later calls meet the rest. It is assumed that such a rest does not
itself look like a reply (a payload whose text is RESP), and that the pool
hands out a connection on which no reply is outstanding. A line cut by the end of
the stream is not repeated here (`Client` has it). After `Break` the connection stays
in the `Option`: nothing replaces it, every later call fails on it, and a new
`PubSub` is needed. A command that was cut by a write timeout is answered with a
protocol error; that a server may accept some cut commands as whole ones is left out.

### RedisValue, TypedCmd

`RedisValue` has the replies (the enum `Value`, and the error reply), the results of
decoders, and numbers in texts. `TypedCmd` has the objects of `commands.rs`: for each,
what `parse` answers and what `result` then returns. `parse` keeps its error to itself, so
`result` of a slice, map or scan object after a failed `parse` is an empty
collection. `DurationCmd` multiplies in 64 bits; `Precision` and `U64` are that
product's factors, scaled down so that it wraps.

### Commands

Ten tables, one per section of `client.rs`, one for `publish` and one for `script.rs`,
give each method's decoder: the `match` on the reply. A second set of tables,
external and written from what Redis answers, gives the replies. Calls follow each
other on one connection, and a call may be abandoned with its reply unread, which
`Client` shows to happen; so the next method decodes a foreign reply. Most
decoders are one step; the loops of `hget_all` and `array_to_z_vec` are steps of their
own, because they need not end. Texts are two values, one of which is a number.
`SameByEitherApi` holds each method's value against that of the typed object for the
same reply.

A foreign reply is usually refused by its type, but not always: `blpop` and
`brpop` take any other reply for a timeout (`Ok(None)`), `array_to_strings` leaves out
what is not a string, and `hget_all` spins on it (`MapContinue`): `MGET` with a missing
key, abandoned, then `HGETALL`, and the thread of the runtime is lost. No document
speaks of foreign replies, so this is not a violated run; it is the exception in
`CallsReturn`.

### Script

Extends `Commands` by the server's script cache (`loaded`), which other clients may
flush at any time (`Flush`). `load`, `exists`, `eval` and `evalsha` are calls like the
others (`ScriptCall`); `run` is `RunCall` (EVALSHA) and, if the answer says NOSCRIPT,
`RunFallback` (EVAL), two requests between which anything may happen. `ran` counts how
often the server ran the script for the call. `RunsOnce` has two exceptions that are real: a
script whose own error says NOSCRIPT, and a late NOSCRIPT of an abandoned call on
the same connection, both make `run` send EVAL after an EVALSHA that did run.

### Resp, RespReplies, RespWhole

`parser.rs` on bytes. A behaviour is one call on one stream: `job` holds the function
called and the bytes, `pos` how many have been consumed and `filled` how many
have reached the `BufReader`. `FillBuf` moves any number of bytes up to the buffer's
capacity, so every way of cutting the stream into chunks is a behaviour. `line` and
`data` are the buffers of `read_line` and `read_n`. All that the parser knows between two
tokens is one record, `call`: the stack of frames that wait for an element, where it
is (`pc`), how many bytes `read_n` wants and what was returned. What a line, a bulk string
or a result makes of it are operators without variables.

| code | definitions |
|---|---|
| `read_line` | `ReadLine`, `ReadLineEof`; `Scanned`, `ExceedsLimit`, `Stripped` |
| `read_n` | `ReadN`, `ReadNEof`, `BulkDone` |
| `parse_reply` | `ParseReply`, `OpenBulk`, `OpenArray`; `Deliver` for what it returns |
| `parse_slice_inner`, the four decoders that read elements | frames on the stack: `Accepts`, `Took`, `ElementOf`, `Handed`, `Return` |
| `parse_scan_reply` | `ScanReply` |
| `decimal_len`, `estimate_resp_size`, `append_args` | `DecimalLen`, `EstimateRespSize`, `AppendArgs` (in `RespReplies`) |

`RespWhole` is the same parser on a stream that is all there: it takes a line or a bulk
string in one step (`TakeLine`, `TakeLastLine`, `TakeBulk`) or refuses it (`RefuseLine`,
`RefuseBulk`). It refuses a line exactly if it is longer than the limit. It is what `read_line` and `read_n` promise to `parse_reply`. One thing it leaves
open: how much of a line that is too long has been consumed when it is refused, which
does depend on the chunks. `Resp` implements it under the mapping that takes a
half-read token for one that has not been begun (`Boundary`).

`RespReplies` has what a server sends and what a request looks like, and the
properties that speak of them.

A byte is a digit, a sign, a type prefix, `x`, CR, LF, or `bad` (not UTF-8). Line limit,
buffer, integer ranges and the largest allocation are constants, scaled down in
the same order as the real ones. The sum `reply_len + 2` wraps or panics, by the build:
both are steps. The streams, in `MCResp`, are replies (scalars, arrays of up to two
elements, arrays in arrays) alone or followed by another reply, the same cut at
every byte, lines at the limit, malformed lines and lengths, requests, and the
elements of arrays for the decoders that read them from the stream. No module of
the crate calls those decoders; they are public.

What the run shows beside its properties: a reply whose last line is cut by the
end of the stream passes for a whole one (`:12` of `:1234`); an error inside an array,
and a wrong element in a streaming decoder, leave the rest of the array unread; an
odd last element of a map or score list is left unread by the streaming decoders;
a bulk length next to the largest `usize` yields an empty string in a release
build.

### Sentinel

`pc[t]` is the await point of `get_master_addr` of task `t`, `at[t]` the sentinel its
loop is at, `open[t]` the clients it has: from `Client::new` (`Ask`), through the dial
(`DialOk`, `DialErr`) and the query, to `close` (`CloseClient`). Masters are numbered in the order of their
promotion; each sentinel learns of a promotion some time later (`Learn`), and answers,
answers something else, is down or silent (`Change`). A sentinel whose answer is slower
than `read_timeout` is one that is silent for a while. `get_client` adds no step: it puts
the address in the options of a new client, which keeps it for ever. The shared
`master_addr` is written and never read; an older answer may overwrite a newer one
there, but not in what a look-up returns (`NotOutdated`; `known[t]` is what the
sentinels knew when it began). "all sentinels are
unreachable" is also said when a sentinel did answer, with nil for an unknown
master.

## 3. Runs

| run | result | what it shows |
|---|---|---|
| `pool_safety` | pass | `TypeOK`, `ConnExclusive`, `PermitBalance`, `IdleHasNoUnread`, the inductive `PoolInv`, `NoReturnAfterClose`, `ImplementsContract` |
| `pool_liveness` | pass | `GetEnds`, `PutEnds`, `CloseDrains` |
| `client_inorder` | pass | `OwnReplies` and `IdleQuiet` for single commands without timeouts, over breaking connections |
| `client_faults` | pass | `InStep`, `LentEmpty`, `OpEnds` for all operations, abandoned at any read or write |
| `pool_size` | violated | `IdleWithinPoolSize`: "Maximum connections in the pool" (`client.rs:23`) |
| `client_timeout` | violated | `IdleQuiet`: "returned to the pool on drop unless they have unread data" (`pool.rs:4`) |
| `pubsub_safety` | pass | `TypeOK`, `OneConnTaken`, `ExpectHolds`, their invariant `SharingInv`, `ReceivedInOrder`, `NothingSkipped` |
| `pubsub_liveness` | pass | `CallsEnd`, with a read timeout |
| `pubsub_unsubscribed` | violated | `WaitsOnlySubscribed`: "not subscribed; call subscribe or psubscribe first" (`pubsub.rs:102`) |
| `commands` | pass | `DecodedInFull`, `SameByEitherApi`, `RunsOnce`, `CallsReturn` for every typed method and script |
| `resp` | pass | `ParsedExactly`, `CutRefused`, `LineBounded`, `PanicsOnHugeLengths`, `RequestsWhole`, `StreamedAgrees`, `ReadsWhole`, `ParseEnds` |
| `sentinel` | pass | `TypeOK`, `NotOutdated`, `GivesUpLast`, `OneClientEach`, `LookupEnds`, with a read timeout |

The three violated properties are statements of the documentation that the code
does not keep:

* *Pool size.* A guard releases its permit before the spawned `put` has pushed its
  connection. A `get` in between finds the stack empty and dials. The pool of
  size 1 then keeps two connections, and nothing shrinks it again without an
  idle timeout.
* *Unread data.* When a read times out the `BufReader` is empty by construction
  (that is why the read waited), so the test in `drop` never catches this case.
  The reply arrives later and is read by the next user of the connection.
* *Subscriptions.* `send_sub_cmd` releases the mutex between `ensure_conn` and the
  write. A `receive` of another task that takes it there finds a connection and
  waits on it, under the mutex, for a message that cannot come before the
  `SUBSCRIBE` that is waiting for the mutex has been written. Without a read
  timeout, the default, both wait for ever.

Two more statements of the documentation are not kept, and can be read off the
models without a run of their own:

* "connections unused longer than this are dropped" (`client.rs:31`): `get` pops the
  most recently used connection and evicts only what it pops (`GetEvict`). Under
  steady traffic the connections below are never looked at.
* "Execute all commands in the pipeline and return results in order"
  (`pipeline.rs:52`): the `?` in the read loop ends `execute` at the first nil or error
  (`FailsOp`). The replies that have arrived with it are dropped with the connection;
  if the rest has not arrived yet, the connection goes back out of step.

Every property of a passing run has a seeded fault (an operator just before the
definition it would replace, marked *Seeded fault*) that makes TLC find the
property violated: a permit forgotten on an error path, the lock released before
the push, a reply loop that stops one early, and so on.

### Bounds

* `pool_safety`: three tasks, three sockets, two permits. Three tasks are needed
  for one to wait for a permit while another evicts and a third closes; three
  sockets allow one lent, one in `put` and one in `idle`. Every option is on.
  Tasks and sockets are interchangeable, hence the symmetry.
* `pool_liveness`: two tasks and one permit, so that permits, not sockets, are
  scarce; no symmetry (unsound for liveness), no cancellation (a cancelled
  `close` leaves the idle connections behind, see below).
* `client_inorder`: two tasks, two connections, three operations: an operation
  can follow another on the same connection while a third runs beside it.
* `client_faults`: one connection and two operations in sequence with batches of
  up to two commands. Operations on different connections do not interact in the
  stream, so two operations on one connection contain every way in which one can
  disturb the next. `MaxOps` and `MaxBatch` are the bounds.

* `pubsub_safety`: two tasks and two commands, so that two first calls race and a
  command can follow a subscription; one message, one channel and one pattern
  (each message may be pushed once for either). `pubsub_liveness`: one command
  and one message, no patterns, no symmetry.
* `commands`: two calls, one to be abandoned and one to meet its reply (`run` may add
  its second request); arrays of up to two pairs or two elements.
* `resp`: a line limit of 8 bytes and a buffer of 6, so that lines take several
  chunks and cross the limit in any of them; lengths of one and two digits; arrays
  of up to two elements (four for pairs), nested once. Parsing a deeper or longer
  array repeats the same frames.
* `sentinel`: two tasks, two sentinels, one failover and one change of a sentinel's
  behaviour, three look-ups: one can overtake another and a third follow both.

### Fairness

`ConnPool!Fairness`: the runtime polls ready tasks (weak fairness of the steps that
only need to be polled); Tokio's mutex and semaphore queue their waiters in
order, so a waiter is not overtaken for ever (strong fairness of the steps that
take the lock of `closed` or a permit). A dial ends within `dial_timeout`; AUTH
and SELECT end because the server answers or `read_timeout` is set (with
`read_timeout: None` and a silent server they do not); a holder ends its command
and drops its guard. No task has to call `get` or `close`. `GetEnds` also assumes
that connections stop expiring at some point: a `get` evicts, queues again, and may
find the next connection expired too. `Client!Fairness`: the runtime polls, and
the server answers what it is sent.

`PubSub!Fairness`: the mutex is fair as above, `pool().get()` and writes end, and a
read ends if `read_timeout` is set. `ScriptSpec`: a reply arrives unless the call is
abandoned, and the decoding loop is run. `Resp!Spec`: the bytes that were sent arrive.
`Sentinel!FairSpec`: a sentinel that answers does so, and a read ends if `read_timeout` is
set; without it `LookupEnds` fails at the first silent sentinel.

`OpEnds` leaves out connections with half a request on them: the server may wait for
the rest while the next caller waits for the server, for ever if only `write_timeout` is
set.

`CloseDrains` does not hold if the future of `close` may be dropped between its
two locks: a later `close` sees the flag and returns without clearing. No
document promises otherwise, and the run therefore excludes cancellation.

## 4. Theorems

### The pool (`ConnPool_proofs`)

For every `PoolSize`, any finite set of tasks and any set of connections (the
assumptions are `PoolSizeAssumption`, `TasksAssumption`, `NoConnAssumption`,
`OptionsAssumption`):

| theorem | statement |
|---|---|
| `PoolInvariant` | `Spec => []PoolInv` |
| `TypeCorrect` | `Spec => []TypeOK` |
| `ExclusiveOwnership` | `Spec => []ConnExclusive` |
| `PermitsBalance` | `Spec => []PermitBalance` |
| `IdleClean` | `Spec => []IdleHasNoUnread` |
| `NoReturnOnceClosed` | `Spec => NoReturnAfterClose` |
| `PoolRefinesContract` | `Spec => ImplementsContract` |

None of the properties is inductive alone. Type correctness needs `GuardInv`
(`remove` puts `guard[t]` in a set of connections, so a task that holds a guard
must own one). Exclusive ownership needs `GuardInv` too, and the injectivity of
the stack, which is a conjunct of it. `NoReturnAfterClose` needs `LockInv`: a
`put` task about to push holds the lock of `closed`, and the flag is not set
while the lock is held. That invariant needs exclusive ownership, because a
dropped guard starts a `put` task that must not already exist. `IdleHasNoUnread`
needs the same of connections in `put` tasks (`CleanInv`), and exclusive ownership
again, because a holder changes the buffer of its connection. `PoolInv` is their
conjunction with `PermitBalance`; each conjunct has a lemma with one step per
action that can disturb it. `PopIdle` and `PushIdle` relate the stack to the set
of its elements; the permit count uses the library's facts on cardinalities.

The refinement uses the same invariant. The steps that hand out a guard need
`PermitBalance`: the task owns a permit and is not yet a borrower, so there is room
for it (`RoomForOne`), and exclusive ownership, so that a dialled connection is
nobody else's. The push of `put` needs `LockInv`, because the contract tests the
flag in the step that pushes; clearing `idle` needs `ClosingInv` (a `close` that has
passed its first lock finds the flag set). Waiting, failing, cancelling, stamping
and locking are stutters.

### The client (`Client_proofs`, `Client_stream`)

For any sets of tasks and connections, any pool size, batch size and number of
operations (`OpsAssumption`, `BoundsAssumption`, `NoConnAssumption`):

| theorem | statement |
|---|---|
| `ClientInvariant` | `Client!Spec => []ClientInv` |
| `TypeCorrect` | `Client!Spec => []TypeOK` |
| `HandedOutEmpty` | `Client!Spec => []LentEmpty` |
| `StreamInvariant` | `Client!Spec => []StreamInv` |
| `StaysInStep` | `Client!Spec => []InStep` |
| `QuietInvariant` | `Client!Spec => []Quiet`, if `Ops \subseteq {"cmd"}` and `~MayAbandon` |
| `CommandsReadTheirOwn` | `Client!Spec => []OwnReplies`, under the same conditions |
| `IdleConnectionsQuiet` | `Client!Spec => []IdleQuiet`, under the same conditions |

`ClientInv` says that a task at work has an operation and a reply to wait for, that a
connection is lent, idle or returning and never two of these (`Owners`), and that
only a task that reads has something in its `BufReader` (`Buffered`). The last is
what `LentEmpty` needs, and it is inductive only with `Owners`: a connection that goes
back is empty because `Finish` tests it, and stays so because nobody else reads it.

`InStep` speaks of what an operation has read; to be inductive it needs what is still
to come. `Followed` says that for an operation that has started in step the stream,
`rdbuf` and `wire` together, holds the next units of its own answer in order, that the
counters `left` and `open` fit them (`Aligned`), and that nothing else stands in
between. `Numbered` keeps the operations apart: an operation that has not written yet
has no unit on any wire, so what it later reads with its number is its own. The
longest part shows that what the server answers (`AnswersFit`) has the shape that the
loops of `execute`, `exec` and `parse_slice_inner` expect, so that the loop that reads
it ends at its last unit.

The conditions of the last three theorems are those of the run `client_inorder`, and
they are needed: with a read timeout `IdleQuiet` is false (run `client_timeout`), and a
pipeline that ends at an error leaves replies on their way. Under them `Quiet` is
inductive: whatever is on the wire of a connection belongs to the task it is lent to,
and a single command that fails has read all of its answer.

### Pub/Sub (`PubSub_proofs`)

For any set of tasks, channels and patterns and any number of calls
(`NoTaskAssumption`; for the stream also `BoundsAssumption`):

| theorem | statement |
|---|---|
| `Sharing` | `PubSub!Spec => []SharingInv` |
| `OneConnection` | `PubSub!Spec => []OneConnTaken` |
| `ExpectNeverFails` | `PubSub!Spec => []ExpectHolds` |
| `StreamInvariant` | `PubSub!Spec => []StreamInv` |
| `TypeCorrect` | `PubSub!Spec => []TypeOK` |
| `InOrder` | `PubSub!Spec => []ReceivedInOrder` |
| `NoneSkipped` | `PubSub!Spec => []NothingSkipped` |

`ExpectHolds` speaks of tasks that hold the mutex, but what it needs was established
before they took it; `SharingInv` therefore follows a task over the gap
(`"relock"`), and says who owns the mutex, so that a task that waits for the pool is
alone in finding no connection. The lemmas are one per kind of move: outside the
mutex, into it, out of it.

For the stream, the reads of all tasks are one sequence of steps: by `SharingInv` at
most one task is in `parse_reply`, which is why `part` is one variable, and what a
`receive` has read is dropped when it ends. `StreamInv` says where the reading stands.
`Unread`: the unread units are a piece of the stream without a gap (`Chain`: neighbours follow each other,
and any two are in order), and it ends with a whole push while the
connection is open. `InPart`: what the current `receive` has read is the beginning of a
push, and the rest of that push is next. `Returned`: what was returned lies before all that
is unread. `Resumed`: the stream begins in the middle of a push, or with a torn unit, only
if that push was given up; this is what lets `ReadLine` throw units away. With these,
`ReadLast` decodes exactly the fields of one push, and `DecodeFields` shows that `Decode`
undoes what the server encodes.

What a command or a message puts on the wire is a `FlattenSeq` of any number of
pushes, so `FlattenWhole` needs an induction. The library's induction theorems cannot be
used (they take an operator); `SetInduction` (in `Induction`) states induction for a set of
numbers instead, from the well-foundedness of `<`, and is applied to the set of lengths for
which the claim holds.

### Typed methods and scripts (`Commands_proofs`)

For any number of calls, any length of arrays and any width and precision of a TTL
(`CommandsAssumption`, `WidthAssumption`):

| theorem | statement |
|---|---|
| `ScriptInvariant` | `ScriptSpec => []ScriptInv` |
| `RunOnce` | `ScriptSpec => []RunsOnce` |
| `CommandsInvariant` | `ScriptSpec => []CommandsInv` |
| `RepliesDecodedInFull` | `ScriptSpec => []DecodedInFull` |
| `EitherApiAgrees` | `ScriptSpec => []SameByEitherApi` |

`RunsOnce` speaks of a call that has returned in step. `Queued` numbers the unread replies
upwards with the awaited one last, so that a reply with the number of the last request
is the only one there was; `Counted` then relates the answer that `run` waits for to what
the server did: NOSCRIPT to not having run the script, any other success to having run it
once. The fallback keeps it only if no other reply was waiting, which is just the
case in which the call can still end in step.

The other two speak of what a method returns. `Answered` says where that comes from. The
reply that is awaited is one that the server gives to this command, and so is every
reply read in step. While a loop over pairs runs, its index is even and what it has
collected is the pairs before it: `Inserted` for `hget_all`, where a later pair with the
same key replaces an earlier one, `Scored` for `array_to_z_vec` (as long as no element is
out of place; otherwise it resynchronises by one, and promises nothing). And a
result is what the method's decoder makes of the reply (`Made`), foreign replies
included, or the error of a call that was abandoned.

From there both properties are facts about operators. The tables meet in `DecoderFits`
and `RepliesSuit`: for each of the methods the server's answer is of the kind that the
method's decoder reads, one lemma per section of `client.rs`. `InFull` shows, kind by kind,
that the decoder keeps everything such an answer holds; `SameEither` that a decoder and
the typed object, if both take a reply, make the same of it, whatever the reply.
The folds that collect elements (`array_to_strings`, `TextsOf`) keep all of them in order
(`KeepsAll`), by induction.

### The parser (`Resp_proofs`)

For every stream of bytes, chunk size, line limit and integer range
(`SizesAssumption`, `JobsAssumption`), and for arrays nested to any depth:

| theorem | statement |
|---|---|
| `RespInvariant` | `Resp!Spec => []RespInv` |
| `LinesStayBounded` | `Resp!Spec => []LineBounded` |
| `ChunksDoNotMatter` | `Resp!Spec => ReadsWhole` |

`ReadsWhole` says that the parser implements `RespWhole`. It holds because what the two
readers hold is always a piece of the stream, the one that ends where they stand
(`Holds`, on `Piece`). That alone is not inductive. The line so far has no line feed, so
that the first one in the next chunk is the first of the line; its length is within the
limit, so that refusing depends on the line and not on the chunk; a bulk string that is not
complete holds fewer bytes than are needed, so that `read_n` takes none that belong to
the next token; and only the reader that is at work holds anything. These are the
conjuncts of `RespInv`. `LineForm` and `BulkForm` join what is held with what is at hand
into one piece; then each action is a step of `RespWhole` or leaves `Boundary` where it is.

The second part of `LineBounded` (a refused line leaves bytes in the `BufReader`, which is
what makes `PoolGuard::drop` close the connection) needs that no other result becomes
"line too long" and that this one ends the call, whatever frames it passes:
`ReturnForm`, by induction on the stack. The lemmas `ParseReplyTame`, `OpenBulkTame` and so on
also keep `need` a number for every text that passes for one (`DecimalType`).

With `ChunksDoNotMatter` the properties that speak of replies no longer depend on
chunks: what TLC finds for a reply is found for all ways of cutting it.

### Sentinel (`Sentinel_proofs`)

For any set of tasks, any number of sentinels, look-ups and changes, and any number
of masters (`SentinelAssumption`):

| theorem | statement |
|---|---|
| `SentinelInvariant` | `Sentinel!Spec => []SentinelInv` |
| `TypeCorrect` | `Sentinel!Spec => []TypeOK` |
| `AddressNotOutdated` | `Sentinel!Spec => []NotOutdated` |
| `GivesUpOnlyAtTheEnd` | `Sentinel!Spec => []GivesUpLast` |
| `ClientsClosed` | `Sentinel!Spec => []OneClientEach` |

The properties speak of look-ups that have returned; the invariant says the same of
those under way. `Fresh`: a sentinel's view never falls below what it was when a
look-up began, hence neither does an answer on its way. `Complete`: every sentinel
that could have answered throughout is still ahead of the loop, so that none is left
when the loop has passed the last. Both need `Awaits`, which ties the await point of a
task to what it holds (a client of the sentinel it is at, an answer, no result yet);
`ClientsClosed` follows from it directly.

## 5. Only model-checked

* Liveness (`GetEnds`, `PutEnds`, `CloseDrains`, `OpEnds`, `CallsEnd`, `CallsReturn`,
  `ParseEnds`, `LookupEnds`): fairness and `ENABLED` are out of the prover's reach.
* The properties of `RespReplies` (`ParsedExactly`, `CutRefused`,
  `PanicsOnHugeLengths`, `RequestsWhole`, `StreamedAgrees`): they compare the parser with an
  encoding of replies that is defined by `RECURSIVE` operators over trees, and with the
  kinds of streams that `MCResp` lists. `ChunksDoNotMatter` covers the cutting into
  chunks for every stream; that lines and bulk strings, taken whole, give
  back the tree that was encoded is checked for the trees of the run.

## 6. Not modelled

* The arguments the typed methods send, and their formatting. Among them `expire`,
  which sends whole seconds (a duration below one second is `EXPIRE 0`, which
  deletes the key), and `expire_at`, which panics for a time before 1970.
* Server-side state of a connection (selected database). `select` changes the
  database of the one pooled connection it happens to use.
* Nested arrays in `Client` and `PubSub` (`Resp` has them); in `Client` the commands,
  scripts and transactions that return arrays of arrays.
* Texts in which a leftover of one reply looks like another reply: in `Client` a unit of a
  reply (a line, a bulk string) is read whole or not at all.
* `GenericCmd` of `commands.rs`, the SHA1 of a script, messages and conversions of
  `error.rs`, re-exports and examples.
* A broken connection is handed out again: its buffer is empty, so it goes back,
  on top of the stack. The runs show that nobody reads a wrong reply from it;
  nothing in the documentation says it should be discarded.

## 7. Plan

1. `Resp`: the encoding as a recursive function over the depth of replies, and by
   induction that `RespWhole` undoes it.
2. `Client`: the selected database of a connection.

## 8. How to run

    tlc -config pool_safety.cfg MCConnPool
    tlc -config client_faults.cfg MCClient
    tlapm ConnPool_proofs.tla
    tlc -config pubsub_safety.cfg MCPubSub
    tlc -config commands.cfg Script
    tlc -config resp.cfg MCResp
    tlc -config sentinel.cfg Sentinel
    tlapm Client_proofs.tla
    tlapm Client_stream.tla
    tlapm Commands_proofs.tla
    tlapm Induction.tla
    tlapm PubSub_proofs.tla
    tlapm Resp_proofs.tla
    tlapm Sentinel_proofs.tla
