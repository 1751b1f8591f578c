# Verification of optimusprime

TLA+ models of the concurrent parts of this repository, checked with TLC, with
theorems proved by TLAPS. The server framework is a Go module: a TCP server
and client with connection pooling (`net/`), tasks that run request handlers
(`task/`), a logger (`log/`), a web controller pipeline (`controller/`), MySQL
access (`persistence/`) and helpers (`common/`).

## The system and its parts

| Part | State | Operations | What is hard | Correct when |
|---|---|---|---|---|
| TCP client, `net/tcp_client.go` | idle connections by address, the limit | `sendClientRequest`, `sendClientRequestNoResponse`, pool get, free, flush | callers share a pool; stale connections; retry after a fast failure; responses carry no id | a connection has one owner; nobody uses a closed one; none is lost; a call gets its own response; a retry is bounded |
| TCP connection and frames, `net/tcp_connection.go`, `tcp_reader.go`, `tcp_writer.go` | two mutexes, a close flag, the reader's buffer | `Send`, `Receive`, `Close` | concurrent senders; writes that fail half-way; `Close` from any goroutine | whole packets, in order; nothing after a failure |
| TCP server, `net/tcp_server.go` | connection map, WaitGroup, stop flag | accept loop, serve, hooks, `stop` | `stop` races the accept loop and the ends of connections; dropped errors | `stop` drains; hooks in order; no panic but for known causes |
| Rate limiter, `net/ratelimiter/` | tokens and ticks | `Wait` | stale ticks, credit rounded to ticks, no lock in the leaky bucket | the rate is kept, bursts are bounded |
| Request tasks, `task/*_task.go`, `common/safe.go` | four pools, the id counter | `New...Task`, `Run`, the handler's goroutine, task log | timeout against answer; panics; handlers that never answer; id wrap | `Run` returns; the pools hold what runs; a log line has its tag |
| Timer tasks, `task/timer_task.go` | registered handles, the pool | `RegisterTimerTaskHandle`, `TimerTaskServe`, one loop per type | check and entry under two locks; panics | singleton tasks never overlap; a timer does not die |
| Logger, `log/` | the global logger, its counter and file number, a channel of lines for each file | `Output`, writer goroutine, rotation goroutine, `Close` | rotation under writers; lazy set-up | no line lost, no logger stuck |
| Router, `controller/router.go` | the routes of the file, the tree built from them | read, check, build, match | overlapping lines, wildcards, copies for HEAD | the first line of the file wins; a file is refused for a known cause |
| Controller, `controller/` | request, response, result | filters, interceptors, binder | panics between filters, cleanup, order of interceptors | one response, cleanup always |
| WebSocket, `net/websocket/` | the handshake; two mutexes, the frame being read, buffered output | `Dial`, the server's handshake; `Receive`, `Read`, `Send`, `Close` | frames cut short, deadlines, pings answered by the reader, two implementations | both ends agree; messages whole and in order; calls return |
| MySQL, `persistence/mysql/` | instances by connection string, transactions by id | get, begin, statements, commit, rollback | check-then-act, a map without a mutex, calls that fail half-way | no transaction lost; an outcome is told once |
| UUID, `common/uuid.go` | last time, clock sequence | `NewUUIDV1`, `V2`, `V4`, parsers | a clock that stands still or goes back, wrap, malformed texts | UUIDs differ; texts are read as they are |
| Configuration, AES, table, HTTP client and server | little or none | - | - | - |

A service calls the server, whose `OnDataIn` hook usually makes a task and runs
it; the task's handler may call another service through the client; all of
them log. The client's peer is such a server in another process.

## Modules

| Module | Models | Run or proof |
|---|---|---|
| `ConnOwnership` | what the pool promises: each connection has one owner | implemented by `TcpClient` |
| `TcpClient`, `MCTcpClient` | the pooled client with the peer at the other end | `TcpClient_retry.cfg`, `TcpClient_faults.cfg` |
| `TcpClientProofs` | theorems of `TcpClient` | TLAPS |
| `TcpConnection` | one direction of a connection with its framing | `TcpServer_serve.cfg` |
| `TcpConnectionProofs` | theorems of `TcpConnection` and of `TokenBucket` | TLAPS |
| `TcpServer`, `MCTcpServer` | accept loop, serving goroutines, `Close`, `stop` | `TcpServer_serve.cfg` |
| `TcpServerProofs` | theorems of `TcpServer` | TLAPS |
| `Task`, `MCTask` | tcp, ws, http and api tasks and the task log | `Task_run.cfg`, `Task_tags.cfg` |
| `TaskProofs` | theorems of `Task` and of `TimerTask` | TLAPS |
| `TimerTask` | timer registration, loops and tasks | `Task_run.cfg` |
| `Logger`, `MCLogger` | the global logger, rotation, the writers of the files | `Logger_rotate.cfg`, `Logger_fatal.cfg` |
| `LoggerProofs` | theorems of `Logger` | TLAPS |
| `TokenBucket` | the token bucket and its users | `TcpServer_serve.cfg` |
| `Router` | the routes file, its tree, and the match of a request | in `FilterChain` |
| `FilterChain`, `MCFilterChain` | the router, and one request in the controller pipeline | `FilterChain_request.cfg`, `FilterChain_final.cfg`, `FilterChain_panic.cfg` |
| `FilterChainProofs` | theorems of `FilterChain`, whatever the router makes of a file | TLAPS |
| `WebSocketHandshake` | both ends of the handshake, either of which may be foreign | in `WebSocket` |
| `WebSocket`, `MCWebSocket` | the handshake, then one end of the connection with its goroutines | `WebSocket_session.cfg` |
| `WebSocketProofs` | theorems of `WebSocketHandshake` and of `WebSocket` | TLAPS |
| `Uuid` | UUIDs from the clock and from chance, and their parsers | in `MySql` |
| `MySql`, `MCMySql` | instances and transactions, with ids from `Uuid` | `MySql_tx.cfg` |
| `MySqlProofs` | theorems of `MySql` and of the generator of `Uuid` | TLAPS |

Operators marked "mutant" in a comment are variants of the operator that
follows them, as a plausible bug would have it. They are not part of any
specification; each property is known to fail with one of them in place.

Two runs check modules side by side that share no state: `Task_run.cfg` the
tasks and the timer, `TcpServer_serve.cfg` the server, a connection and the
bucket. The variable `part` of `MCTask` and `MCTcpServer` names the one that
moves in a behaviour, and is chosen at the start; the others stand still in
their initial state. Nothing that fairness asks for is enabled there, so it asks
for nothing of a part that stands still, and all of a part that moves.

### TcpClient

`pool[a]` is `clientTcpConnectionPool[a]`, and `limit` is `connectionLimit`.
`pc[p]` says where a caller is: `get` is before `newClientTcpConnection`,
`dial` between the unlock and `net.DialTimeout`, then `SetDeadline`, the send
and receive goroutines with their selects, `clear` for
`closeClientTcpConnection`, `finish` for the clean-up after the loop. Each hold
of the mutex is one step; everything else interleaves. The two kinds of call
differ in that a one-way call skips the receive, and returns at once, without
closing, when `SetKeepAlive` fails on a new connection.

The 50 ms select is the parameter `slow`: a failure within it leads to a retry
on an old connection, one after it never. Deadlines are at least a second, so
an operation fails fast only because the peer has closed, or because a slow
send has eaten the deadline. The peer receives frames in any order, answers
each at most once, and may close at any moment; a frame on its way is lost
with it. `tainted`, `broken`, `freed`, `dials` and `delivered` are history.

`TcpClient_retry.cfg` has two callers, three calls, one address, three
connections: enough for a call to find a stale connection while the other call
frees or takes one and a third reuses it. A one-way request may be answered,
which is the one way in which a call gets a response that is not its own.
`TcpClient_faults.cfg` has two addresses and socket options that fail, and a
limit that moves between 0 and 1; it checks that no connection is lost, that
every call returns, and the refinement of `ConnOwnership`.

Fairness: a goroutine inside a call keeps taking steps. This is what the Go
scheduler does, and the deadline ends each wait, so a failing step is always
possible. Nothing is assumed of the peer.

### TcpConnection

A frame is two writes, head and body, under `sendMutex`. A body may be written
in part when the write fails; then `Send` closes. The stream is a sequence of
units tagged with their packet, so that a head read in the middle of a body
can be told from a proper one. The reader's buffer is its length. Packets of
length 0, 1 and 3 with a default size of 2 cover the empty body, the reused
buffer and the replaced one. Packets of 2^32 bytes, whose length would wrap in
the head, are excluded by `ConnectionAssumption`.

`deadline` says whether the sending end has a write deadline: a client's
connection gets one when it has a timeout, the server's never does, as nothing
in `tcp_server.go` sets one. Room in the buffers between the ends is not
modelled, so any write may wait. Fairness: a write ends if there is a deadline
or the connection has been closed, and is not sure to end otherwise; the reader
reads, and `sync.Mutex` does not starve a waiter, hence strong fairness of
`Lock`. `SendsComplete` therefore excepts `WriteStuck`: without a deadline, a
`Send` to a peer that does not read holds `sendMutex`, and all later ones wait
behind it until somebody closes the connection. A property that every `Send`
returns is violated, and that is what the code does.

`Send` calls `OnDataOut` for a packet that could not be sent too, though the
comment above the call says otherwise; `hooked` and `failures` record which.

### TcpServer

`Close` is three steps (flag, `conn.Close`, hook), run by whoever wins the
compare-and-swap. `stop` visits the connections of the map one by one without
the mutex; where the accept loop or an ending connection is about to write the
map, the Go runtime may abort (`MapWriteRace`). `DelConnection` and `StopWoken`
model the panics of `sync.WaitGroup`: a negative counter, and a counter raised
again before `Wait` has returned. A connection on which `SetKeepAlive` failed
is served without being registered, as the loop drops that error.

`stop` is not called by this repository; it is part of the server type, and
modelled as such. `PanicCauses` says that without it, and while `SetKeepAlive`
succeeds, the server does not panic. `StopReturns` says that `stop` is held
for ever only by a connection that came too late to be closed.

Two connections and one request each let one be set up while the other ends.
A second caller of `stop` would be told `false` at once. Fairness: goroutines
that are not blocked run; peers need not close, connect or read.

### Task

The four kinds differ in who speaks on the channel (the handler for tcp and
ws, the wrapper for http and api) and in whether panics are caught (tcp and
http, when `panicProtection` is on). Handlers are free: they may answer, answer
again, close the channel, return, panic, log, or go on for ever. Ids wrap at
`IdModulus`; with 1 every pair of tasks that overlap share one. `RunReturns`
assumes only that `Run` and the start of the goroutine are not held up.

A handler is an interface and need not be a func (`isFunc`). `Run` takes its
name first, with `GetTaskFuncName`, which panics in the goroutine of the caller
if there is none to take (`RunPanics`). Where `net/http` recovers, the task is
left in its pool for ever: `PoolSound` speaks of the tasks that are `Held`,
which are those in use and these.

The comment in `taskLog` gives the tag of a line. `UntaggedCauses` says
when a line has none: the handler of a ws or api task is in none of the pools
that `GetTaskByGid` searches (neither tag nor text is logged), a task shares
its id, or its `Run` is over. `Task_tags.cfg` checks the comment as it stands,
`LinesTagged`, and is violated by the first of these.

### TimerTask

A type has a loop once `timerTaskServe` has come to it. A tick waits in the
ticker's channel, which holds one. The pool is looked at in one step and
entered in another, as the code takes the mutex twice. Two slots for each type
let tasks that are not singletons overlap; that more may overlap changes
nothing for singletons. Handlers may panic, with the protection on; they need
not return. A handler that is not a func makes `GetTaskFuncName` panic in the
goroutine of `Run`, outside the protection, and the process ends
(`TimerRunPanics`). Fairness: time passes and goroutines run. An interval of
zero or less, for which `time.NewTicker` panics, is left out.

### Logger

`Glogger` is the variable of `log/api.go`; a `RotateLogger` is a number, in the
order they are made, and a `Logger` is a pair of its `RotateLogger` and the
count of rotations before it. `buf[l]` is the `Logger`'s channel, `writer[l]`
where its `RealWrite` is, `file[l]` the file it writes. Files are named by
their index; `content` is what has been written to each. `lorate[r]` is where
the rotation goroutine is: in its `select`, about to look at the size, about to
tell the old `Logger`'s goroutine, about to make the new `Logger`.

A call of `INFOF` and its like finds `Glogger` nil and goes on to make one, or
takes it and a number from the atomic counter; announces the number to the
rotation goroutine; only then looks up the `Logger` and sends the line into its
channel. Each of these is a step, so a rotation may come between any two.
`InitLogger` closes a logger that is there, and makes another. A restart on the
same day goes on with the newest file of the day; as modification times are
compared in seconds, the model lets it be any file that has been written.

Left out: levels (the lines are those that pass), the text, `Panic` after its
line (the caller recovers or the process ends), and the change of the level.
Taking a line from the channel and writing it are one step, which may fail
(`WriteFails`): `RealWrite` drops the error, and the line is in no file.
`LossBound` counts what was never written out by a writer that has gone;
`ReadsInOrder` holds of the lines that are there. `levelStats[lvl]++`
is a data race whose outcome only `Stat` shows.

`Logger_rotate.cfg`: two goroutines, three lines, a look at the size at every
second line, files that are full with one line, a channel of two, one rotation
of each `RotateLogger`, one call of `InitLogger`, files that fail to open and
writes that fail, the latter on the first file (`FailFiles`). The
third line is enough for one goroutine to be in `Output` while the other's line
rotates the file, and for a channel to fill up when its writer is gone. The
process may end, and it may hang when a closed logger is used: deadlock is not
an error here, `CallsReturn` says which calls hang. Fairness: goroutines that
are not blocked run; writes end.

`Logger_fatal.cfg` is violated: `FATAL` panics with an index out of range
where the comment on `Fatalf` promises `os.Exit(1)`.

### TokenBucket

Time is counted in ticks of `fillInterval`; a call's arithmetic happens under
the bucket's mutex and is one step, `Wait`, and `WakeUp` is the end of its
sleep, which may be late. `given`, `upTo`, `served`, `burst` and `first` are
history: the tokens taken so far, those at the call of a user that sleeps, the
largest of these among the calls that have returned, and what went out in this
tick without a wait, where a wait of no length is none (`AtOnce`). A credit is
rounded down to whole ticks, so a call that is short of less than an increment
gets a time that has come, and `time.Sleep` returns at once; and the bucket of
the first call is full, which makes `adjust` leave `availTick` behind. Both show
in the bounds of `RateKept` and `BurstBound`: `Bucketful` is the capacity and
one less than an increment, and twice that may go out in the tick of the first
call. Both bounds are reached in the run.

`TcpServer_serve.cfg` has a bucket of two filled by two, calls of up to three,
nine tokens and four ticks: calls that are served, that owe part of an increment
and that owe more than one. `maxWait` cannot be exceeded and is left out, as is overflow
of `int64`.

### Router and FilterChain

`Router` is the start of the process, `Refresh`, and the match of a request,
`Route`. A line's path is a sequence of texts and wildcards; `Sound` is what
`NewRoute` and `validateRoute` accept, `updateTree` the grouping of lines by
tree path and their order in the tree. The tree itself is the external
`pathtree`: `Add` refuses a second leaf at one place, `Find` returns the leaf
that fits and was added first. `SetTypeAction` belongs to the filter but decides
the match, and is modelled with it.

`FilterChain` extends it: `Start` is `Refresh`, `RouteRequest` the match, and a
matched request goes on through the filters. `pc` goes from filter to filter in
the order of `Filters` and back through their deferred calls; `panicking` says
that it goes back because of a panic. `status` and `result` are
`c.Response.Status` and `c.Result`, `local` the result in `invokeInterceptors`;
`form`, `temps`, `registered`, `open` and `deferred` are the files of the
request, those noted in `c.Params` and those with a deferred `Close`.
Interceptors, binders and the action are application code: each may set the
status, make any result, and panic. A result remembers who made it. `last`,
`threw`, `reached`, `caught`, `setter`, `argKind` and `copyFailed` are history.

The properties state what the code does, exceptions included. `FirstLineWins`:
a match panics if the action is a wildcard that the path has not. `StartCauses`:
a file with a GET and a HEAD line of one path is refused. `CleanedUp`: the
temporary file of a slice's `name[]` element is never deleted, because
`BindFile` notes it in `Params` of its own. `ResultWinner`: a `FINALLY`
interceptor replaces even the result of a `BEFORE` interceptor; the result of a
`PANIC` interceptor takes the place of what was there, and the error of
`PanicFilter` then replaces it. `StatusCauses`: a result that is replaced leaves
its status behind, and a panic after a status was set is answered with that
status. A panic in `Apply` is outside of `PanicFilter`, hence `aborted`.

Two comments say otherwise, and are checked as they stand by runs that are
violated: `intercept.go` calls the result of a `BEFORE` interceptor final
(`BeforeFinal`, `FilterChain_final.cfg`), and `panic.go` says a panic becomes an
error page with status 500 (`PanicGives500`, `FilterChain_panic.cfg`).

`FilterChain_request.cfg` reads every file of up to two lines over five paths,
four methods and four actions, and files with a line that is refused; every
request is matched. Two lines are enough for one to hide, or clash with, the
other. `Traced` limits the rest of the pipeline to three pairs of a file and a
request (found, not found, panicking), which is all the filters can tell apart.
There: two interceptors, of one phase or of two, and one argument. Two is enough
for one phase to follow another, whatever the first did, and for a phase to have
a first and a last. A request ends, so deadlock is not an error.

### WebSocketHandshake and WebSocket

`hs` is a handshake at one of its stages, with what the ends know so far. Either
end may be another implementation: `Request` is a client that may leave out or
garble any header, `Reply` a server that answers as it likes. `Servers` are the
three ways of this package to serve: `Handler.ServeHTTP`, a `Server` without a
`Handshake` function, and one whose function chooses a protocol. The checks on a
request are named by their defect, with the status that answers each. `Hijack`
may fail, which panics, and the answer may not get out (`AnswerFails`).
`HandshakeAgrees` states what holds at the end, with the two exceptions: a client
answered without a protocol keeps its whole offer in its `Config`, and a server
that names a protocol the client did not offer thinks it has a connection.

`WebSocket` goes on with the end that has come out of the handshake, as server
or client. The stream is a sequence of units: a header, or a byte of the payload
of a frame. `frame` is the frame being read; `kept` says that it is
`ws.frameReader`, which a later call of `Read` goes on with. `pc[t]` is where a
goroutine is: waiting for a mutex, in a header, in the part of a control frame
that is kept (`control`) or dropped (`discard`), in a payload, writing, closing.
A write goes to the `bufio.Writer` and then out; an error makes the writer
useless (`werr`). A ping is answered by the goroutine that reads, which holds
`rio` while it takes `wio`. Deadlines may pass at any step that waits; `lost`
records that a call gave up inside a frame, after which bytes are taken for
headers: `Intact` promises nothing from then on, the model goes on to read
whatever the bytes may mean. A read takes any number of the bytes that have come
(`Take`), as `io.ReadAll` leaves that to the network. When a `Receive` that drops
the frame `Read` has begun is stopped by a deadline, the next `Read` goes on
behind what was dropped: `taken` counts those bytes as read. `frames`, `writes`,
`delivered`, `taken` and `lost` are history.

One more thing `Intact` shows: a message that the peer's end of stream cuts short
is delivered without an error, since `io.ReadAll` takes `io.EOF` for the end of
the frame.

`WebSocket_session.cfg`: two protocols; a reader, a writer and a closer; frames
of each kind with up to two bytes, a ping longer than a control frame may carry
(`MaxControl` is 1), one frame with the wrong mask; four events of the
environment, which are frames, calls, deadlines and failures together. Four
let a frame come, a reader stop inside it, and another call go on. Fairness:
goroutines that can run do, and `sync.Mutex` starves no one (strong fairness of
both locks); nothing is assumed of the peer or of deadlines, so `CallsReturn`
excepts writers whose peer does not read, and those behind them.

### Uuid and MySql

`Uuid` keeps `lastTime` and `clockSequence`, which `getStorage` reads and
advances under one hold of the mutex, hence in one step. `SeqModulus` is the
width of the sequence, `KeptSeq` what the variant bits leave of it, `LowSpan`
and `DomainSpan` what version 2 overwrites. `Restart` forgets both variables: a
process starts with a sequence by chance. `UniqueV1` bounds its promise
accordingly. Parsing works on texts of letters that matter (a digit, a dash, a
brace, another); `spare` is what lies behind the text in its array, which Go's
`text[:n]` may reach. `ParseOutcome` states when `UnmarshalText` panics.

`MySql` extends it. An instance has a number; `txMap[n]` is its `tx_map`. A call
looks up the map, calls the database, and writes the map, each in a step;
`MapRace` is the runtime's check, for which two goroutines must be in the map of
one instance, one of them to write. The database may fail any call and lets at
most one `Commit` or `Rollback` of a transaction succeed. A `Begin` that fails
leaves a nil transaction under its id; a call with that id panics, which
`PanicCauses` says is the only way: that the system's source of randomness fails,
for which `NewUUIDV4` panics, is left out. `settled`, `outside`, `failedIds` and
`repeated` are history.

`MySql_tx.cfg`: two goroutines, one connection string, two ids that may repeat,
six calls. One string is enough: instances of two strings share nothing. The
calls of a goroutine with another's transaction are included. The process that
draws from the clock (sequence of four, two kept) and the one that parses share
nothing with the instances, so the bound on events lets a behaviour do one of
the three. The texts are the documented forms (of three groups of two digits),
cut anywhere or with a letter changed, added or removed.

## Proofs

Each module has an inductive invariant, made of named parts, which says more than
the properties it is for: what a step needs to know of the steps before. Its
proof goes action by action. Constants are restricted only by the named
assumptions; most of these give types or make sets finite, and the rest are
named below.

### TcpClient

`TcpClientProofs`, from `ClientAssumption` and `NoReqAssumption`:

- `TypeCorrect`: `Spec => []TypeOK`.
- `OwnershipExclusive`: `Spec => []ExclusiveOwnership`.
- `ConnectionsUsable`: `Spec => []UsableConnections`.
- `OwnershipImplemented`: `Spec => ImplementsOwnership`.
- `ResponsesMatch`: `Spec => []OwnResponse`.
- `RetriesBounded`: `Spec => []RetryBound`.
- `ConnectionsBounded`: `Spec => []OpenBound`.

The assumptions: callers and addresses are finitely many; `connectionLimit` has a
largest value; a caller is not named by one of the words that `Owner` has for a
connection without one; no request is `NoReq`.

`ExclusiveOwnership` is not inductive alone. A dial must bring a connection
that is in no pool and no hands, so the invariant `OwnInv` adds that ids beyond
`lastId` are nowhere; freeing puts a connection into the pool of the caller's
address, so it adds that a held connection leads there; the flush closes what
is pooled, so usability needs that a caller's connection is open unless its
call has failed, and that what is pooled is open.

The refinement needs to know where every connection is (`Placed`): one not yet
dialled has no traffic, one that is open is pooled, held or known to be broken.
`OwnerMap` is the function that gives each connection its owner; a lemma for each
action says what the action does to it, and that this is one step of
`ConnOwnership`, or none.

`OwnResponse` follows from the conversation on an untainted connection. `Asked`:
the only two-way request under way is that of the caller who waits. `Answered`:
the only response under way is the one to that request.

`RetryBound` has two parts. `SendsCounted`: how often a request was received, and
may still be, against the attempts that have come to the send; this needs that
no two callers make the same request (`Numbered`, `Unused`). `RetryInv`: what a
call dialled is not old, hence never retried, and the pool a retry takes from
holds only what was handed back since the flush.

`OpenBound`, for the pools, follows the limit through `FreeToPool`. For the open
connections it rests on `Room`: whoever finds the pool empty finds every open
connection in the hands of another caller, so those open and those about to be
dialled never outnumber the callers.

### TcpConnection

`TcpConnectionProofs`, from `ConnectionAssumption` (lengths fit the head):

- `TypeCorrect`: `FrameSpec => []FrameTypeOK`.
- `PacketsWhole`: `FrameSpec => []WholePackets`.

The invariant `ConnInv` adds `Locked` (a sender is inside just when it has the
mutex), `Numbered` (whose packet is whose), `Reading` (what the reader needs is
the rest of the next packet) and `Framed`. `Framed` is the one that matters: some
function `at` gives for each frame where its head lies relative to what is still
unread, so that frames lie end to end (`Spaced`), the stream holds what they say
(`Filled`), the reader stands at the head or the body of the next one
(`Anchored`), and only the last may be short, when its sender is about to write
its body or the connection is closed (`Ended`). A read shifts `at`, a write
extends it.

### TcpServer

`TcpServerProofs`, from `ServerAssumption` (the callers of `stop` are none of the
words for other callers of `Close`):

- `TypeCorrect`: `Spec => []TypeOK`.
- `HooksOrdered`: `Spec => []HookOrder`.
- `StopAlwaysDrains`: `Spec => []StopDrains`.
- `PanicsExplained`: `Spec => []PanicCauses`.

`Fresh` and `Setup` say what the accept loop has done for the connection it sets
up, and that all earlier ones are in the map or were refused. `Hooks` ties the
hooks to the steps of `Close`. `Counted` is `WaitCounts`, and that the counter
passes zero only in a panic. `Stopped`: `stop` has one winner, who has closed the
listener, and whose `Wait` finds the counter raised only by what came after it
began. `Drained`: what is left in the map after `stop` is the one connection that
was on its way.

### Task and TimerTask

`TaskProofs` proves of `Task`, for every number of tasks, set of kinds, width
of ids, with the protection on or off (`TaskAssumption`):

- `TypeCorrect`: `Spec => []TypeOK`.
- `PoolsSound`: `Spec => []PoolSound`, handlers that are not funcs included.
- `RunsExplained`: `Spec => []RunOutcome`.
- `UntaggedExplained`: `Spec => []UntaggedCauses`.

The inductive invariant `IInv` adds three parts to the properties. `Fresh`:
a task not yet made has left no trace, so `New` meets a clean one.
`ClashShared`: a task that shares its entry with one in use has clashed, without
which the `Run` of one might remove the entry of an innocent other. `Outcome`
and `Orphans` say what is known while `Run` waits, and from the moment it has
left its select, before it has returned.

And of `TimerTask`, from `TimerAssumption`, for every set of types, servers and
tasks at a time, with the protection on or off:

- `TimerTypeCorrect`: `TimerSpec => []TimerTypeOK`.
- `SingletonNeverOverlaps`: `TimerSpec => []SingletonExclusive`.

The pool is looked at and entered in two steps, so the property rests on a type
having one loop. `ServedOnce`: serving comes to a type once, and before it nothing
runs for the type. `Alone`: a singleton type has one task in the pool, and none
when its loop has found none and is about to make one. `PoolIsRunning`: the pool
is what runs.

### TokenBucket

In `TcpConnectionProofs`, from `BucketAssumption`, for every capacity, increment,
number of users and bound:

- `BucketTypeCorrect`: `BucketSpec => []BucketTypeOK`.
- `RateAlwaysKept`: `BucketSpec => []RateKept`.
- `BurstsBounded`: `BucketSpec => []BurstBound`.

Its invariant is `BucketTypeOK` and three parts. `Ledger`: what is available and what
was given never exceed the capacity and what was filled in. `Promises`: each
sleeping user wakes when enough has come in for it. `Fill`: once filled in this
tick, what is left and what has gone out make one bucket, or two in the tick of
the first call; what is left may be short by less than an increment, hence
`Bucketful`. The provers do not multiply variables, so the product of ticks
and increment is the function `Brought`, used through its lemmas; one of them,
`CreditPaid`, is about the rounding of a credit.

### FilterChain

`FilterChainProofs`, from `FilterAssumption`, for every routes file, request, number of interceptors and of arguments:

- `TypeCorrect`: `Spec => []TypeOK`.
- `AlwaysCleanedUp`: `Spec => []CleanedUp`.
- `InterceptorsInOrder`: `Spec => []InterceptorsRun`.
- `WinnerApplied`: `Spec => []ResultWinner`.
- `StatusExplained`: `Spec => []StatusCauses`.

The proofs use nothing of the router but that it finds a route, finds none or
panics. `Untouched`: nothing has happened before the interceptors. `Files`: where
a file can still be, by the step the request has come to. `Throwing`: a panic is
on its way just when something has panicked, and what can have. `Order`: which
interceptors have run, and whether the action has. `Winner`: the result kept so
far is the one the property expects of what was made so far. `Maker` and `Claims`:
who can have made the results there are, and the status against them; without
these a status set before its result is replaced could not be traced.

### Logger

`LoggerProofs`, from `LoggerAssumption` (goroutines are finitely many), for every
number of lines, rotations, `InitLogger`s and places in a channel, with files that
open or not, and writes that fail on any of them:

- `TypeCorrect`: `Spec => []TypeOK`.
- `LossesBounded`: `Spec => []LossBound`.
- `ReadInOrder`: `Spec => []ReadsInOrder`.

Files are as many as lines and rotate loggers, so that `TypeOK` says a rotation
never needs another one; `Enough` counts for this the looks at a size that have
been taken, and those to come. `Typed` and `Calls` say what a goroutine has in its
hands at each step, `Rotators` which Loggers of a rotate logger have been made and
what their writers do. `LossBound` rests on `Kept`: a writer goes only when nothing
is left in its channel that was sent before it was told, and what comes later is
one line of each goroutine, which has taken the Logger before and will not take it
again. `ReadsInOrder` rests on `Rising`: a rotate logger's Loggers have files of
rising numbers; and on `Numbered` and `Placed`: of the lines of one goroutine, those
in files, in channels and in its hands come in the order of the Loggers they were
sent to. That two writers are at work at a time does not matter then, because each
writes to a file of its own.

### WebSocketHandshake and WebSocket

`WebSocketProofs`, from `HandshakeAssumption` and `WebSocketAssumption` (a goroutine
that reads is none of those that write or close; frames have a length), for every
set of goroutines, protocols, offers, configurations and frames and every length:

- `HandshakesAgree`: `Spec => []HandshakeAgrees`.
- `TypeCorrect`: `Spec => []TypeOK`.
- `IntactAlways`: `Spec => []Intact`.
- `OutboundAlwaysWhole`: `Spec => []OutboundWhole`.

The handshake needs one fact more, `Asked`: what a client has sent is a list of
protocols and one of the known defects. A case for each stage does the rest.

For the connection, `Calls` says where each goroutine can be and who holds the
mutexes, and `Held` what the one that holds `rio` knows of the frame: that there is
none before a header, that it is a control frame in `control`, `ws.frameReader` in
`discard`, and so on. `Outbound` is what holds of the bytes written: those that have
gone out make frames one after another (`Framed`, with the `Size` of each), what is
buffered is the header of the last write, and the goroutine that holds `wio` is about
to write the payload that belongs to it.

`Intact` promises nothing once a call has given up inside a frame, so the rest of the
invariant holds only while that has not happened. `Stream`: what is still to be read
is the end of what was sent (`Line`), and begins where the frame being read goes on,
or at a header (`Here`). `Pos` is then the frame whose header was read last, and a
step either leaves it where it is (`Quiet`) or reads the next header (`Turn`); the
proofs go by these two cases. `Current`: the frame being read is that frame, and what
a call has of it begins where the last call stopped, or at the start if it is not
kept. `AtFrame`: a ping has been read to its end when it is answered. `Messages`:
every frame so far has been delivered, begun by `Read`, or is of a kind that is
skipped, and the type of a continuation is that of the last text or binary frame.
`Pongs`: those written answer the pings so far, and none the frame being read, unless
its pong is on its way. All this is stated of the frames and bytes as values
(`Line(F, q, e)`), so that the lemmas hold before a step and after it.

### MySql and Uuid

`MySqlProofs`, from `MySqlAssumption` (finitely many goroutines; the nil
transaction is not one of the others) and `UuidAssumption` (the kept part divides
the width of the sequence):

- `TypeCorrect`: `Spec => []TypeOK`.
- `InstancesBounded`: `Spec => []InstanceBound`.
- `TransactionsTracked`: `Spec => []TxTracked`.
- `OutcomeUnique`: `Spec => []OutcomeOnce`.
- `PanicsExplained`: `Spec => []PanicCauses`.
- `UuidsUnique`: `Spec => []UniqueV1`.

`SqlInv` is the four properties of `MySql` with what they rest on. `PoolFirst`: an
instance is made only for a string in the pool. `Failed`: a nil transaction comes
from a `Begin` that failed. `Unique`, while no id is repeated: the id of a
`BeginTx` on its way is in no map and no other call, the transaction it has begun
is nobody else's, an entry a call has found does not change, and a transaction has
one place. `Settling`: what is about to be deleted is over. The map is read and
written in different steps, and it is `Unique` that says the entry deleted is the
one that was looked up.

For UUIDs, `Steady` compares each one this process has made with what is kept in
memory: their sequence numbers differ, modulo the kept part, by the advances
since, and without an advance time has gone on. Two UUIDs with the same number
and time are then a whole turn of the sequence apart.

### Left to TLC

- Liveness, which needs fairness and `ENABLED`: out of the provers' reach.
- `FirstLineWins` and `StartCauses` of `Router`, and `ParseOutcome` of `Uuid`: what
  functions defined by recursion over a file or a text compute, hence induction
  over data, which the provers cannot do either.
- `FatalExits`, `LinesTagged`, `BeforeFinal` and `PanicGives500`, which do not
  hold.

## Not modelled

The components `PROJECT.json` lists as not modelled, for the reasons it gives.
In what is modelled: the text of log lines, addresses, TCP itself below the
level of "delivered in order or lost", the memory model (a torn read of the
limit or of a task's `Gid`), the sleep of the rate limiter between head and
body, the encoding of WebSocket lengths and masks, rows and statements, the
hashes of UUIDs of versions 3 and 5, and the fixed parameters of routes, which
nothing sets.

Two hazards of modelled parts have no action. `hybiServerHandshaker` appends a
request's protocols to `Config.Protocol` of the `Server`, which requests share
by value: with spare capacity in that slice, two requests at once would write
one array. And the leaky bucket, which is not the default strategy, lets any
call through that fits its capacity, without counting it: nothing in the
repository says what it should promise, so there is no property to check.

Where code and comments disagree, a run checks what the comment says and is
violated: `Logger_fatal.cfg`, `Task_tags.cfg`, `FilterChain_final.cfg` and
`FilterChain_panic.cfg`. One disagreement has no run: `OnDataOut` is called for
packets that were not sent.

## Plan

Done: the TCP client, its connection and server, the tasks, the timer, the
logger, the token bucket, the router and controller pipeline, the WebSocket, MySQL
access and UUIDs; the proofs above. Next, in this order:

1. The binder and the results as operators; the registries of task handles.
2. An abstract logger, whose lines are in its files in order, for `Logger` to
   implement.

As the project grows, its weaker properties make room for stronger ones.
