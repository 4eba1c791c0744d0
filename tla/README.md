# nanonext in TLA+

A verification project for the C core of nanonext: the binding of the NNG
messaging library to R, with its event-driven additions. It holds TLA+ modules,
configurations with which TLC checks them, and proofs checked by TLAPS. Paths
are relative to the repository, which is `src/` here; the package's C code is
in `src/src`.

## The system

nanonext's own C code is about 8600 lines; NNG and mbedTLS are vendored below
it. R runs on one thread, the *R thread*. NNG owns a pool of threads on which it
runs completion callbacks and pipe callbacks. What R must do after a completion
is posted to R's event loop (`later2`).

| component | source | state | operations | interacts with |
| --- | --- | --- | --- | --- |
| dispatcher | `dispatcher.c` | slots of daemons, queue, sync barrier, signals, reply holders, retired senders, counters, all under `d->mtx` | pipe callbacks, init, host and daemon receives, drain, cancel, gate, wait, stop | NNG's REP and poly sockets; R thread; request time-outs |
| HTTP/WS server | `server.c` | handlers, connections (open, closing, closed), pending requests | accept, request, receive, send, close, stop, cleanup | NNG threads, event loop, R thread |
| aio objects | `aio.c` | result, data, free list | completion callbacks, finalizers, collect, stop, race | NNG threads, R's garbage collector |
| requests, cvs, monitors, promises | `sync.c` | condition, flag, ids of pipe events, promise node | request, time-out, signal, wait, until, reset, pipe callbacks | aio objects, dispatcher |
| threads | `thread.c` | shared wait thread and its aio, signal thread | wait, forward, shut down | aio objects, cvs |
| ncurl | `ncurl.c` | session connection | transact, close | NNG's HTTP client |
| serialization | `core.c` | marker and mode header | encode, decode | R's serializer |
| sockets, streams, options, TLS, utilities | `comms.c`, `proto.c`, `utils.c`, `net.c`, `tls.c`, `init.c` | NNG's | one NNG call each | NNG |

What is hard in them, and what makes them correct:

* **Dispatcher.** NNG's threads run its callbacks in any order. A daemon may be
  lost while it is being initialised, while it works, while its result is on the
  way, and while the dispatcher stops. Correct means: every request is forwarded
  once, in order, to a daemon that is free for it, and answered once or its
  context closed; counters are exact; the lock holder never waits; the queue
  never stands still; stopping always ends and nothing is used after that.
* **Server.** Connections are created by NNG threads, opened and closed by the
  event loop and by R, and freed by deferred calls. Correct means: every
  connection is closed once, its `on_close` runs once, and it is freed after the
  last callback that was posted for it.
* **Aios, requests, promises.** The completion and the R side meet in a result,
  a message and a callback node. Correct means: one of them frees, the callback
  runs once, a resolved aio stays resolved.
* **cvs, monitors, threads.** Values are incremented by NNG threads and consumed
  by R. Correct means: no signal is lost, waits return when they should, threads
  end when asked.

The parts meet in three places. A request's completion and its time-out call the
dispatcher's cancel on NNG's threads; in `Dispatcher` this is the action of a
cancellation at any moment. A receive's completion signals a cv, in `Aio` as a
value that grows, in `Signals` as `Signal`. The server and promises share R's
event loop, whose order within one component is all that either relies on.

`PROJECT.json` lists every component with its status, and the hazards line by
line with the properties that cover them.

## Plan

| order | modules | about | status |
| --- | --- | --- | --- |
| 1 | `TaskPool`, `Dispatcher`, `MCDispatcher` | the dispatcher, and the pool it implements | done |
| 1 | `DispatcherProofs` | types, counters | done |
| 1 | `DispatcherFlowProofs` | sends, senders, shutdown, sync barrier, sleepers | done |
| 1 | `DispatcherQueueProofs` | work conservation, the send queues | done |
| 1 | `DispatcherContextProofs` | contexts, the queue's bytes, answers, the refinement of `TaskPool` | done |
| 2 | `ConnLife`, `HttpServer`, `MCHttpServer` | connections, requests, stop, deferred cleanup, and the life of a connection they implement | done |
| 2 | `HttpLifeProofs`, `HttpCleanupProofs` | its invariants, action property and refinement | done |
| 3 | `Aio`, `MCAio` | completion against finalizer, promises, the wait thread, unloading | done |
| 3 | `AioProofs` | all its invariants and its action property | done |
| 4 | `Signals`, `MCSignals` | cv values, notifications, monitors, forwarders | done |
| 4 | `SignalsProofs` | its invariants | done |
| 5 | `DaemonSlots`, `Headers` | the slot array with pop-swap against the function of `Dispatcher`; marker and sync headers | open |

## Modules

### `TaskPool`

What the host is promised, with no sockets, locks or counters: requests start in
order, each on one worker that has nothing else, and each gets its own result or
the connection-reset error once. A request leaves without an answer only by
cancellation from the queue, when the pool is shut, or, if `Lossy`, for want of
memory.

### `Dispatcher`

| model | code |
| --- | --- |
| `slot[p]` | the entry of `d->daemons` for pipe `p`; `NONE` if there is none |
| `inq`, `header` | the list from `d->inq_head`; what was read of each message |
| `mtx` | the lock during `dispatch_drain_locked`, with the reply to send after it |
| `host_aio`, `init_aio`, `sig_aio` | where the aio is: sending or receiving, callback due, idle |
| `retired`, `reply_active`, `sig_list` | the lists of the same names |
| `orphan` | a lost task between the unlock of `dispatch_handle_disconnect` and its reset |
| `open` | contexts of the REP socket that are not closed |
| `main`, `want`, `woken` | the R thread: in `gate`, in `wait`, or at a step of `dispatch_shutdown` |
| `uwq`, `up`, `chan` | the poly socket: sends not yet routed, live pipes, messages under way |
| `daemon`, `arrived` | what a daemon does; results received whose callback is due |

*Grain.* An action is a section between a lock and its unlock, with the work the
handler does outside the lock before it. Where a handler locks twice and other
callbacks may observe the gap, there are two actions:
`HandleDisconnect`/`SendConnReset`, `HandleHostRecv`/`RearmHost`. The loop of
`dispatch_drain_locked` is one action per iteration; `mtx` keeps every action
that takes the lock out until `DrainEnd`. `dispatch_reap_retired` has its own
locked section before `HandleConnect`'s and after `HandleDisconnect`'s; it is
merged with them, because what it leaves on the list in one it could equally find
busy in the other.

*Names.* The k-th request is task k, so is its context; the host's message ids
are those numbers. Context 0 is the one open for the next request.

*The slot array* is a function of the pipe. Its order decides only which of
several eligible daemons is taken; the model takes any of them. The link between
a slot and its sender is the pipe id, which NNG does not reuse.

*Assumed of the outside.* The poly socket routes in order and drops a message
whose pipe is gone or whose queue is full. The transport holds one message of a
pipe beyond the queue; with TCP, the kernel's buffers hold more, so a drop needs
a stalled connection. Daemons are outside this repository (mirai). The model
assumes of them what `dispatcher.c` does: a daemon runs one task at a time, it
replies once per task, a marked reply is its last, and a signal interrupts the
running task, if there is one, whose reply still comes. A lost pipe may or may
not deliver what was under way.

### `ConnLife`

What the R program sees of a connection: `on_open` (for a stream `on_request`)
first, messages in the order in which they arrived, some perhaps missing,
`on_close` last and once; nothing at all for a connection that was never opened.

### `HttpServer`

| model | code (`server.c`) |
| --- | --- |
| `state`, `pending` | `srv->state`, `srv->pending_reqs` |
| `conn`, `conns`, `opened`, `scheduled` | `conn->state`, `info->conns`, the set of connections whose `xptr` is set, `onclose_scheduled` |
| `accept`, `recv`, `handler` | where the callbacks `ws_accept_cb`, `ws_recv_cb`, `http_handler_cb` and `stream_handler_cb` are |
| `queue` | the calls posted with `later2`, which run in order |
| `frame`, `at` | the posted call that R is in; its own code, or a step of `http_server_stop` or `conn_cleanup` |
| `wire` | headers and terminator of a stream |
| `log` | the R callbacks that ran: the variable of `ConnLife`, which `HttpServer` implements as it stands |

*Grain.* A callback on NNG's threads is cut where it leaves the lock, where it
reads `srv->state` without it, and where it posts: `Check`, `Link`, `PostRequest`
for a handler, `Accept`, `PostOpen`, `Rearm` for an accept, and so on. The stop is
cut at each of its waits. R is one thread: while it is in a callback
(`frame`) it may send, close connections, and stop or close the server, but it
does not return to the event loop.

*`Quiet`.* Four windows of the code are open: a message whose receive has
completed but is not yet posted when the connection is closed (`server.c:525`); a
stream whose handler has looked at the state when the server stops
(`server.c:1151`): both the handler's call and the stop's `on_close` then free
it; a handler that has its call still to post when the server is closed
(`server.c:341`); a handler callback that has entered but not looked at the state
when the server is freed (`server.c:99-106`, `327`). `Quiet` leaves the first
three out: R stops and closes, and the stop closes the connections, when nobody is
in them. R cannot know that, so `Quiet` is an assumption about the timing of
NNG's threads and not something a program can see to; the run shows what is right apart from these windows.
The fourth is in every run: `http_server_cleanup` waits for no handler callback,
and one that finds the server freed is `astray` and not followed, for what it
reads is undefined. The types, one end per request, the end
of a stream and the order of R's callbacks need no such care: `HttpLifeProofs`
proves them for any R program. That nothing is freed while it is known, and the
server after every call about it, is proved for a `Quiet` one (`HttpCleanupProofs`). Without it
`http_ws_close` reaches the first window. The same check with one stream and no WebSocket (`Ws = {}`,
`Streams = {s1}`, `Quiet = FALSE`) reaches the second window.

### `Aio`

| model | code (`aio.c`, `sync.c`, `thread.c`) |
| --- | --- |
| `task` | what `nng_aio_busy` and `nng_aio_wait` see: the operation runs, has ended (`fired`), its callback is at its store, at its post, at its return |
| `result`, `data`, `value` | `nano_aio.result`, `nano_aio.data`, and the value R has made of them |
| `mode`, `free_list` | `nano_aio.mode` 0x1 and the list of `nano_list_do`, under `free_mtx` |
| `owner` | R's external pointer: held, unreachable, finalized, freed |
| `node`, `called`, `queue` | the promise's node in `nano_aio.cb`, the calls of it, the event loop |
| `condition`, `snap` | the cv that the receives signal, and the copy in `race_aio` |
| `shared`, `wait_cond`, `waiter`, `single` | `nano_shared_aio`, `nano_wait_condition` (0, 1, -1), the shared wait thread, the single-use ones |
| `r` | the call R is in, and on which aio |

An operation may end at any time: by a message, an error, a time-out, an abort.
`nng_aio_free` and `nng_aio_stop` are modelled by what `aio.c` relies on: they
abort the operation and return when its callback has. `Starts` lists the sets of
aios of which R starts one, so that one instance checks both two sends, for the
list, and a receive with a cv beside one without. The collector runs a finalizer
on an unreachable aio whenever R is between two calls; a live node keeps its aio
reachable.

*`Quiet`.* The windows here: `as.promise` on an aio without a cv reads and writes
node and result without a lock against the callback (`sync.c:585`); an interrupted
`collect_aio_` leaves its aio with the shared wait thread, where it may be
collected (`thread.c:224`); and the package may be unloaded while that thread waits
or a send runs: it sets `nano_wait_condition` to 0 over the -1 of
`nano_thread_shutdown`, which then waits for ever (`thread.c:20-24`, `172-174`).
With `Quiet = FALSE` TLC finds `FreedUnused`, `ResolvedOnce` and `UnloadedClean`
violated through these; `HandedOver`, `RaceNotMissed` and `MessageTaken` hold
without `Quiet`, and `AioProofs` proves them so.

### `Signals`

| model | code (`sync.c`, `thread.c`) |
| --- | --- |
| `value`, `flag` | `nano_cv.condition`, `nano_cv.flag` |
| `asleep` | who sleeps in `nng_cv_wait` or `nng_cv_until` |
| `fwd`, `target`, `cond`, `incr` | the thread of `cv %~>% cv2`, and `rnng_signal_thread`'s local variables |
| `ids`, `size` | `nano_monitor.ids`, `.size`; `updates` is `Len(ids)` |
| `open`, `known`, `lost` | the socket's pipes, those R has read of, those with an event there was no memory for |
| `own`, `signalled`, `returned` | history: signals a cv has had from NNG's threads, all it has had, waits that returned |
| `crossed` | history: has a signal come between the -1 of a cancellation and the forwarder's end |

A section under a cv's lock is one action; a forwarder has two, one per cv
(`Grown`, `Give`). `%~>%` on a cv that already forwards tells the old thread to end
by the value -1 and joins it before it resets the value (`Forward`, `Joined`,
`Link`).

*`Quiet`.* R neither waits on nor resets a cv that is forwarded, whose value would
then go down under the forwarder. This is up to the program, and it is all
that `Quiet` asks: NNG's threads and other forwarders signal at any moment.

*Crossing.* A signal that comes while a forwarder is being cancelled turns the -1
into 0 (`thread.c:147`). The forwarder then does not see that it should end; it may
take the lower value for a change and give a negative amount to the other cv, and R
waits for it in the join for ever. `crossed` records that it happened. `AllForwarded` and `CancelReturns` promise nothing after it, and TLC
refutes both when they do; `WaitsMatched` and `SleepsForReason` hold all the same.

### `MCDispatcher`, `MCHttpServer`, `MCAio`, `MCSignals`

The symmetry set of `Dispatcher`'s instances, the chain of links of `Signals`',
and model values.

### The modules of proofs

`DispatcherProofs`, `DispatcherQueueProofs`, `DispatcherFlowProofs`,
`DispatcherContextProofs`, `HttpLifeProofs`, `HttpCleanupProofs`, `AioProofs` and
`SignalsProofs` define no behaviour; see Proofs.

## Runs

*Dispatcher* (`MCDispatcher`). Two pipes suffice for the interference of two
daemons (one idle and one busy, one leaving while one connects); pipe ids are only
compared, so the safety runs use symmetry. `ReplyPool = 1` lets the
pool run out in instances this small; the code has 4 holders. `SendDepth = 2` is
the code's. Results in `arrived` are handled in any order: the code has 4 receives
whose callbacks may overtake each other.

| run | instance | what it shows |
| --- | --- | --- |
| `dispatch_tasks` | 2 daemons, 3 requests, any of them sync, crashes | each open context is in exactly one place; the queue never waits for an eligible daemon; the sync barrier; the pool is implemented |
| `dispatch_cancel` | 2 daemons, 2 requests, each may be cancelled once, marked replies, crashes | counters are exact; `dispatch_start_send` never waits; two cancellations drop no task at a send queue; only cancelled requests go unanswered |
| `dispatch_gate` | 1 daemon, 3 requests of 1 or 2 bytes, budget 2, one cancel, `wait(1)` | a sleeper is always woken; the byte count is the queue's |
| `dispatch_stop` | 2 daemons, 2 requests, stop, failing allocations, crashes, one cancel | senders are not freed in use; `nng_close` finds no open context; nothing is left after the free; no deadlock |
| `dispatch_stop_ends` | 2 daemons, 1 request, fair | a stop always reaches the end |
| `dispatch_live` | 2 daemons, 2 requests, crashes, departures, fair | every request is settled as long as a daemon is left |
| `dispatch_second_signal` | 1 daemon, 2 requests, each may be cancelled once | violated on purpose, see Findings |

`CHECK_DEADLOCK FALSE` is set where the instance may run out of requests and
daemons and so stop; in `dispatch_stop` a step is always possible or the model
has hung, and deadlock is checked. Bounds: `MaxTasks` requests, as many daemons as
`Pipes` (a daemon that reconnects is a new pipe), `MaxCancels` cancellations of
one id. Three requests on two daemons are the fewest with one queued behind two
running ones; two requests make a queued one and one running on a lost daemon.
Two cancellations are as many as a send queue is deep, the most for which
`TaskNotDropped` promises something.

*Server, aios, signals.*

| run | instance | what it shows |
| --- | --- | --- |
| `http_server` | a WebSocket with 2 messages, a stream, a request; `Quiet` | no connection is freed while a posted call, a callback or R knows it; no call about the server is left, posted or still to be posted, when it is freed; each request is finished once, and in the end; nothing follows a stream's terminator; R's callbacks come in `ConnLife`'s order; a stop returns and frees every connection |
| `http_ws_close` | a WebSocket with 1 message, not `Quiet` | violated on purpose, see Findings |
| `aio` | two sends, or a receive with and one without a cv; `Quiet` | see `Aio`: nothing freed in use, sends handed over once, a clean unload, promises resolved once and in the end, no message taken twice, no sleeper missed, finalizers return |
| `signals` | three cvs in a chain with forwarders, two pipes, room for one event at a time, 2 signals; `Quiet` | nobody sleeps through a signal; no more waits return than there were signals; R knows the pipes; every signal is forwarded, by the amount; a cancelled forwarder ends unless a signal crosses the cancellation |
| `signals_wait` | three cvs in a chain, 3 signals, not `Quiet` | violated on purpose, see Findings |

Why these bounds: a stop meets one connection of each handler in every state; the
connections of a handler share only the list. Two messages are the fewest with
an order. Two sends are the fewest with one on the list while another is
finalized, and the proofs cover any number. A chain of two links is the one the
documentation of `%~>%` builds; a cv in its middle is both forwarded and
forwarded to. `Grow = 1` (8 in the code) makes the monitor's buffer grow with each
event that R has not read. In all of them the program may simply stop, so deadlock
is not checked; that the calls which block return is a property of its own
(`StopFreesConns`, `FinalizerReturns`, `CancelReturns`).

Each property has a mutant: a plausible change of a definition (`Bad...` and
`Worse...` beside it) under which its run finds it violated.

*Fairness.* In the dispatcher: weak fairness for every callback that is due, and
for NNG's routing and completions, which its threads serve without priorities.
Weak fairness for `PipeStart`: daemons dial and redial. Weak fairness for the
daemon's receive and reply, as long as its pipe lives: the tasks end. On the R
thread, for a sleeper that was woken, and for the steps of `dispatch_shutdown`,
which go on as soon as the call they wait in returns. A sleeper's 400 ms time-out
is not fair, so no result rests on the poll; requests, crashes, cancellations and
the stop are not fair either.

In the server: weak fairness for callbacks and for the steps of a stop. The event
loop and the return of R's callbacks have strong fairness: an R program may do
several things, even call the server, between two of them, but not for ever. What
peers do is not fair. In `Aio`: weak fairness for callbacks, the wait threads and
the call R is in, and for the end of an operation that has been aborted; an
operation that nobody aborts may run for ever. The event loop is strongly fair,
and `PromiseResolved` asks besides that R keep returning to it. In `Signals`:
forwarders run, and so does R in a call that need not wait; nobody has to signal.

## Proofs

Every safety property of the passing runs, invariant, action property or
refinement, is a theorem for all values of the constants, some of them under an
assumption named below (`Quiet`, `OneWay`); only liveness is left to TLC.

### `DispatcherProofs`

It proves, for any finite set of pipes and any bounds, that `TypeOK` and
`CountersExact` are invariants. Assumed, here and in the three modules on top of
it, is only `DispatcherAssumption`: constants have their types, there are finitely
many pipes, and a send queue has room for a message (`SendDepth`, 2 in the code).

`TypeOK` is not inductive: that `executing - 1` is a natural number needs that a
busy daemon is counted. `CountersExact` says that, but only until the shutdown
frees the slots, and it says nothing of headers. The inductive invariant is

    IInv == TypeOK /\ Linked /\ Covered /\ CountersExact

`Linked`: there is a header for each request, what is queued, running or in a
handler's hands is such a request, and a pipe has no slot before its `ADD_POST`
callback (so `HandleConnect` adds one and does not replace one). `Covered`: the
counters are at least what they count, which also holds while the shutdown takes
slots and queue apart. There is a lemma per action. Those that touch neither slots
nor queue go through `Frame`; those that change one slot go through `SlotFrame`,
whose core is `SlotCounts`: giving one slot another state moves each
cardinality by at most one.

### `DispatcherFlowProofs`

What is under way: `StartSendNeverBlocks`,
`SenderNotFreed` and `NothingAfterFree` follow from

    FlowInv == IInv /\ Stages /\ Sends /\ SenderKept /\ Flow

* `Stages`: nothing starts once `stopped` is set, no handler drains then, and each
  step of `dispatch_shutdown` has ended what it waited for. This is `NothingAfterFree`
  in slices, one per step.
* `Sends`: the poly socket has each init message and each task at most once; only
  signals may repeat.
* `SenderKept`: a sender whose init send or task send is under way is in a slot or
  retired, also after the shutdown.
* `Flow`: a daemon without a task has no task message on its way, in its hands
  or on its way back; a busy one has its own at one point at most. This is why the
  aio of an idle daemon is idle, so that `nng_aio_wait` under the lock returns at
  once. It rests on what a daemon and the poly socket are assumed to do.

Two properties are inductive on top of it with a strengthening of their own.
`SyncBarrier` speaks of daemons only; `Barred` adds the code's means: as long as
the tasks assigned last are all sync, `syncing` is set and their daemons carry the
current generation. `NoLostWakeup` excludes a drain in progress; `Roused` says what
holds during one: a sleeper not woken still has something to wait for, or it is in
the gate and the drain, which has taken from the queue, will wake it at its end.

### `DispatcherQueueProofs`

`WorkConserving` is inductive given the types. An action either takes away
requests or eligible daemons, or keeps the lock for a drain, or ends the drain;
a request is queued only when nobody is eligible and assigned at once only when,
by the property itself, the queue is empty.

`TaskNotDropped` says that a busy daemon which is connected has its task somewhere:
sent, on its way, in its hands or on the way back. What could lose it is the step
in which the poly socket comes to the task and finds the send queue full, so the
proof is about what may be in front of it there.

    SendInv == ~stopped => Kinds /\ Tally /\ \A p \in Pipes : Early(p)

* `Early`: while the init message is being sent nothing is on its way to the daemon; one
  that has taken nothing yet has no signal in front of its first task, for signals
  are only sent about tasks it was given.
* `Tally`: the signals to a daemon, whether listed, sent or on their way, are at most
  as many as the cancellations so far. Each step adds at most one, by a
  cancellation, or moves one on; a new daemon has none.

With `Flow`, that is with one task at most, `Room` follows: the queue in front of the
task holds the init message and no signal, or signals only, no more than there were
cancellations. This is why it takes `Cancellations <= SendDepth` and why that is
enough. As in `DispatcherContextProofs`, the handlers are met once: `PipeMoves`
lists the five things a step may do to a pipe (leave it, cut it, route to it, take from
it, reply on it), `PipeMovesNext` shows that every step does one of them, and the rest
is about those.

### `DispatcherContextProofs`

A handler that loses or doubles a context does so by a step that takes a request
from one place and puts it into another. The lemma `Moves` says that every step of
the dispatcher is one of eleven such moves, or moves nothing: between the queue,
a busy daemon, a handler that drains, a disconnect that is being handled, a reply
holder and the host. Everything after it speaks of moves, not of handlers.

    ContextInv == FlowInv /\ Placed
    AnswersInv == ContextInv /\ Told /\ Numbered /\ NoRequestAbandoned

`Placed`: the five places are disjoint, none holds a request twice, and together
they are the open contexts of requests. `ContextHeldOnce` counts the same contexts
with cardinalities, so what it needs beyond `Placed` are the sizes of disjoint
unions; `RepCloseNeverBlocks` is `Placed` with every place emptied, by `Stages`.

`QueuedBytesExact` compares a counter with a sum over the queue. A recursive sum would
ask for an induction over data, so `SumOver` is the cardinality of the set of units
that make the sum up: taking a request in or out is then a union or difference of finite sets
(`SumWithOneMore`, `SumWithOneLess`). It is inductive on top of `ContextInv`, whose part `Placed`
says that the queue holds a request once.

`Told`: a request that has not been settled has no answer, and neither has one
whose reply is in progress. `Numbered`: the id in a message's header is its
request's, so a cancellation finds no other request.

`ImplementsPool` is proved step by step. A lemma per action of `TaskPool`
(`PoolArrives`, `PoolStarts`, ...) says what a step must do to the mapped state, and
`PoolNext` shows for each move that it is one of those or a stutter. That a request
assigned at its arrival has nobody in front of it is `WorkConserving`; that an answer
reaches a host which has none is `Told`; that settling takes one record and
leaves the others is `Placed`.

### `HttpLifeProofs`, `HttpCleanupProofs`

For any sets of connections, requests and streams. Without any assumption on R:
`TypeOK`, `FinishedOnce`, `NothingAfterEnd` and the refinement of `ConnLife`, from

    IInv == LifeInv /\ Answered /\ Wired

`LifeInv` follows a connection. The event loop's queue has its opening call once
and its messages in the order of their numbers (`Ordered(queue, InTurn)`);
nothing is posted or logged about a connection that is not made; when its
opening call is posted its log is empty, and when a message of it is posted it is
not; `on_close` is posted only for a connection that `conn_close` has taken off
`open`; the last message logged is earlier than those under way. The
refinement then has one case per R callback. `Answered` says who owns the aio of a
request: its handler's callback, then the list `pending`, then R's callback,
which each hand it on once. `Wired`: a stream whose terminator was written is not open.

`SafeToFree` and `CleanupIsLast` under `ASSUME Quiet`: `QuietInv` says for every call
that is posted or still to be posted who keeps its connection from being freed,
what each wait of the stop has ended, what cannot begin any more once the server
is closed, and that `conn_cleanup`'s call comes after every other
one of its connection, as the server's does after those of all connections
(`Ordered(queue, Finally)`). `Quiet` speaks of the moment at which R closes;
that it is still so when the deferred cleanup runs is what is proved. Handler callbacks that
have not looked at the state are in neither. `http_ws_close` refutes
`SafeToFree` without `Quiet`.

### `AioProofs`

For any sets of sends and receives, any of which may have been started, it proves
every invariant that the run `aio` checks and its action property. Assumed is
only `AioAssumption` on the constants. `HandedOver`, `RaceNotMissed` and
`MessageTaken` are proved whatever R does; `FreedUnused`, `UnloadedClean` and
`ResolvedOnce` under `ASSUME Quiet`, without which TLC refutes them.

    IInv == TypeOK /\ Handshake /\ Calling /\ Results /\ WaitThread /\ Racing

* `Handshake` is the hand-over of a send. `HandedOver` alone is not inductive: that
  a callback finding `mode` set finds its finalizer gone, and not a send listed
  twice, needs that `mode` is set exactly when one side has come.
* `Calling` says what R's calls hold on to: a call that waits is about an aio that
  is held, a finalizer about one that was dropped, and a freed aio is idle.
* `Results`: a result is there before the callback looks for a node, and with it the
  message until R takes it; what the event loop has to call has a result. With
  `Calling` it gives `MessageTaken`: in each of the five ways to `Take`, the aio
  is held and has a result.
* `WaitThread`: the wait thread has the aio R waits for, or that aio is idle.
* `Racing`: `race_aio`'s copy does not exceed the cv's value, so it differs as soon as
  a receive has completed since.

`Cleared` (the wait thread's aio is held, nothing runs once unloading has begun)
and `Resolving` (where a node is, how often it was called, in what state its aio
can be) are inductive relative to `IInv` when `Quiet`. `TypeOK` itself needs
`Handshake`: only a receive posts. Three lemmas on sequences without duplicates
(`Pushed`, `Popped`, `Appended`) carry the list and the queue. `Steps` splits the
next-state relation into the kinds that the lemmas treat.

### `SignalsProofs`

For any sets of cvs, links and pipes and any number of signals it proves the four
invariants of the run `signals`, from `SignalsAssumption`: `TypeOK` and `KnownPipes`
whatever R does, `SleepsForReason` under `ASSUME Quiet`, `WaitsMatched` under
`ASSUME Quiet, OneWay`: forwarding does not come back to where it started, as it
does not in a chain or a tree. `signals_wait` refutes `WaitsMatched` without `Quiet`.

`KnownPipes` is inductive given the types: an event recorded decides about its own
pipe and no other (`AfterAppend`), and R knows after reading the events what they
said (`AfterNone`). `SleepsForReason` is inductive with `Calls`, which says where R and the
forwarders can be at the same time (`SInv`).

`WaitsMatched` is not inductive, since a wait returns on a value and not on a
signal. Its invariant follows a `rank` that falls along every link:

    IInv(rank) == SInv /\ (~ crossed => Straight) /\ (crossed => WaitsMatched /\ Hung(rank))

* `Straight`, before any crossing: `Matched` says that the value is what signals
  have added and no wait has taken, or less, except for the -1 that cancels a
  forwarder. A cancelled forwarder puts back the value it saw last, so `Following` bounds that one as
  well, and bounds it by the cv's value, which makes what is forwarded positive.
* `Hung`, from the crossing on: R is in the join of a forwarder that no longer sees
  that it should end, and stays there, so no wait returns any more. For that its
  cv's value must not go below 0 again: the forwarder may give a negative amount,
  but to a cv below it, and those above it (`Upper`) have nothing to take back. This is
  what `OneWay` is for.

### Only model-checked

* The liveness properties, `StopCompletes`, `EveryRequestSettled`, `RequestFinished`,
  `StopFreesConns`, `PromiseResolved`, `FinalizerReturns`, `AllForwarded`,
  `CancelReturns`: fairness is out of the prover's reach.

## Findings

`dispatch_second_signal`: the comment at `src/src/dispatcher.c:257-259` promises
at most one task and one signal in flight to a daemon. `dispatch_queue_signal`
(`dispatcher.c:326-360`) does not look at what is under way. A daemon may answer before
it has taken the signal about its task; when its next task is cancelled it has two.
One request does it alone if it is cancelled twice, by two calls of `request_stop`
or by one and a time-out.

The comment says what the promise is for: the send queue has depth 2 and drops
silently. Signals that gather in `sig_list` while `dispatch_sig_cb` is due are sent one
after the other, also when the tasks they are about have long been answered. In an
instance with one daemon and five requests, of which four are cancelled once each,
TLC finds them filling the queue so that the fifth task is dropped (`TaskNotDropped`
without its bound on `Cancellations` fails): the slot stays busy and the request
open as long as the daemon is connected. `TaskNotDropped` is what remains true, and is
proved: it takes more cancellations than the queue is deep. In practice it also takes
a stalled connection, since the transport is modelled as holding one message.

`http_ws_close`: `ws_recv_cb` (`server.c:525`) posts a message without looking at
the connection's state. R closes the connection after the receive has completed
and before the callback posts; `on_close` is posted first, and `conn_cleanup`
frees the connection, waiting for the callback but not for the call that it has
posted. That call then reads the freed connection (`server.c:619`). The comment on
`CONN_STATE_CLOSED` (`nanonext.h:273`) is "Fully closed, safe to free".

`signals_wait`: `R/sync.R:37-38` says that each signal increments the value by 1
and each return of `wait()` or `until()` decrements it. A forwarder takes any
change of its cv's value for signals (`thread.c:307-316`), so a wait on that cv or
its reset adds a negative number to the other one. There a wait returns although
there was no signal, for a negative value is not 0, and takes it further down.

Other behaviours seen while modelling, which no document of the repository speaks
about, besides the windows described with `Quiet` in each module:

* A handler callback of the server that is late reads `srv->state` after
  `http_server_cleanup` has freed it (`server.c:106`, `327`): neither deleting
  the handler nor releasing the HTTP server waits for it.
* A signal of a cv whose forwarder is being replaced hides the request to end from
  the old thread, and `%~>%` does not return (`thread.c:147`).
* When every connected daemon has run a sync task of the current generation, all
  are idle and barred; a queued request that is not sync, which would lift the
  barrier, waits for a daemon that has not (`dispatcher.c:805-806`).
  `WorkConserving` counts a barred daemon as not eligible, and the liveness run
  has no sync tasks.
* When `nng_ctx_open` fails (`dispatcher.c:725-731`) the dispatcher is stopped
  but not shut down; requests that run are then not answered until R stops it.

## Not modelled

*In the components modelled.* Dispatcher: the RNG stream and the bytes of the init
template; a start that fails before the listener runs; receives that fail for a
reason other than closing and are retried; a failing `realloc` of the slot array
other than as `MayFail`; `info`, `capacity` and `try_gate`, which only read; a
cancellation from a time-out that races the freeing of the dispatcher
(`dispatcher.c:963`); the loss of the in-process pipe to the host. Server: a start
that fails half-way, TLS, the handlers that NNG serves alone (static, file,
directory, redirect), status and header setters, an event loop run inside a
callback. Aios: HTTP aios, byte streams' buffers, the values of sends. Sync and
threads: `tools::SIGINT` as a signal, finalizers of cvs and monitors (their
lifetimes are the R program's to keep, `sync.c:693`), the stdin reader and the
message relay, which share nothing with R but a socket.

*Components left out.* `ncurl.c`: a session's calls are sequential on the R
thread, and what it shares with NNG is an aio as in `Aio`. `core.c`: sequential
functions over R objects, with no state of their own. `comms.c`, `proto.c`,
`utils.c`, `net.c`, `tls.c`, `init.c`: one library call each with checks of
arguments. NNG and mbedTLS are third-party code, vendored; by lines they are most
of the repository's C code, which is why the definitions stand for a small part
of all of it. NNG is modelled where this package rests on it: the poly and REP
sockets in `Dispatcher`, aios, the WebSocket stream's receive and the HTTP server's
start count elsewhere.
