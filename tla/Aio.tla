-------------------------------- MODULE Aio --------------------------------
(***************************************************************************)
(* Asynchronous I/O objects (src/src/aio.c, sync.c) and the threads that   *)
(* wait on them for R (src/src/thread.c).                                  *)
(*                                                                         *)
(* An aio is shared by R, which holds it, reads it and finalizes it, and   *)
(* by one of NNG's threads, which runs its completion callback.  R is a    *)
(* single thread: `r` is where it is, "ready" between two calls, when its  *)
(* event loop runs the calls posted with later2 and its collector runs the *)
(* finalizers.  A call that blocks stays in `r` until it returns.          *)
(*                                                                         *)
(* Sends hand themselves over: the callback and the finalizer meet under   *)
(* one lock, and whichever comes second disposes of the aio, the callback  *)
(* by pushing it on a list that the next finalizer drains.  Receives and   *)
(* requests are freed by their finalizer, which first waits for the        *)
(* callback.  A promise leaves a node in the aio: the callback, or the     *)
(* call that left it when the aio is already complete, posts the call that *)
(* resolves the promise.                                                   *)
(*                                                                         *)
(* A message is either there or not, a result is "ok" or "error".          *)
(***************************************************************************)
EXTENDS Naturals, Sequences, FiniteSets

CONSTANTS
  Sends,     \* send aios, stream sends and devices (saio_finalizer)
  Recvs,     \* receive aios and requests (raio_finalizer, request_finalizer)
  Plain,     \* the receives made without a condition variable
  Starts,    \* the sets of aios, one of which R starts
  NoAio,     \* no aio: R in no call on one, nano_shared_aio NULL
  Quiet      \* TRUE: R keeps clear of the windows the code leaves open (Clear)

ASSUME AioAssumption ==
  /\ Plain \subseteq Recvs
  /\ Sends \cap Recvs = {}
  /\ Starts \subseteq SUBSET (Sends \cup Recvs)
  /\ NoAio \notin Sends \cup Recvs
  /\ Quiet \in BOOLEAN

Aios == Sends \cup Recvs

VARIABLES
  task,       \* the operation and its callback, as NNG sees them
  result,     \* nano_aio.result of a receive, as the callback stores it
  data,       \* the receives whose nano_aio.data holds a message
  value,      \* what R has resolved the aio to (nano_ValueSymbol), "none" before
  owner,      \* held by R, unreachable, finalized, freed
  mode,       \* the sends with mode 0x1: one side has come
  free_list,  \* the sends left for the next finalizer
  node,       \* the promise's node: none, live (preserved), released, collected
  called,     \* how often the promise has been resolved
  queue,      \* event loop: calls of raio_invoke_cb posted with later2
  condition,  \* the value of the condition variable that the receives share
  snap,       \* race_aio's copy of it
  r,          \* what R is doing, and to which aio
  shared,     \* nano_shared_aio
  wait_cond,  \* nano_wait_condition: "idle" 0, "set" 1, "stop" -1
  waiter,     \* the shared wait thread
  single      \* the receives' own wait threads

handshake == <<mode, free_list>>
promise == <<node, called, queue>>
cv == <<condition, snap>>
threads == <<shared, wait_cond, waiter, single>>
vars == <<task, result, data, value, owner, handshake, promise, cv, r, threads>>

Tasks == {"new", "busy", "fired", "stored", "posting", "returning", "idle"}
Places == {"ready", "keep", "check", "wait", "shared", "single", "scan", "race",
           "stop", "drain", "join", "free", "unload", "reap", "unloaded"}

TypeOK ==
  /\ task \in [Aios -> Tasks]
  /\ result \in [Recvs -> {"none", "ok", "error"}]
  /\ data \subseteq Recvs
  /\ value \in [Recvs -> {"none", "message", "error"}]
  /\ owner \in [Aios -> {"held", "dropped", "finalized", "freed"}]
  /\ mode \subseteq Sends
  /\ free_list \in Seq(Sends)
  /\ node \in [Recvs -> {"none", "live", "released", "collected"}]
  /\ called \in [Recvs -> Nat]
  /\ queue \in Seq(Recvs)
  /\ condition \in Nat /\ snap \in Nat
  /\ r \in [at : Places, of : Aios \cup {NoAio}]
  /\ shared \in Recvs \cup {NoAio}
  /\ wait_cond \in {"idle", "set", "stop"}
  /\ waiter \in {"asleep", "waiting", "woken", "ended"}
  /\ single \in [Recvs -> {"none", "waiting", "done"}]

At(p, a) == [at |-> p, of |-> a]
Ready == At("ready", NoAio)
In(p, a) == r = At(p, a)
Held(a) == r = Ready /\ owner[a] = "held" /\ task[a] # "new"

Init ==
  /\ \E started \in Starts :
       task = [a \in Aios |-> IF a \in started THEN "busy" ELSE "new"]
  /\ result = [a \in Recvs |-> "none"]
  /\ data = {}
  /\ value = [a \in Recvs |-> "none"]
  /\ owner = [a \in Aios |-> "held"]
  /\ mode = {} /\ free_list = <<>>
  /\ node = [a \in Recvs |-> "none"]
  /\ called = [a \in Recvs |-> 0]
  /\ queue = <<>>
  /\ condition = 0 /\ snap = 0
  /\ r = Ready
  /\ shared = NoAio /\ wait_cond = "idle" /\ waiter = "asleep"
  /\ single = [a \in Recvs |-> "none"]

----------------------------------------------------------------------------
(* NNG's threads: an operation ends, its callback runs, and the aio is no  *)
(* longer busy when the callback has returned.                             *)

\* The windows the code leaves open, which R keeps clear of when Quiet: a
\* promise made of an aio without a cv exchanges the node and the result with
\* the callback under no lock; an interrupted wait leaves its aio to the wait
\* thread; the package may be unloaded under that thread or under a send.
Clear(a) == Quiet => ~ In("check", a)

\* The operation ends: a message, a time-out, an abort, a closed socket.
Fire(a) ==
  /\ task[a] = "busy" /\ Clear(a)
  /\ task' = [task EXCEPT ![a] = "fired"]
  /\ UNCHANGED <<result, data, value, owner, handshake, promise, cv, r, threads>>

\* Mutant: the callback pushes its send whether or not the finalizer has come.
BadComplete(s) ==
  /\ s \in Sends /\ task[s] = "fired"
  /\ r.at # "drain"
  /\ task' = [task EXCEPT ![s] = "returning"]
  /\ mode' = mode \cup {s} /\ free_list' = <<s>> \o free_list
  /\ UNCHANGED <<result, data, value, owner, promise, cv, r, threads>>

\* saio_complete, isaio_complete: the callback's side of the handshake.
Complete(s) ==
  /\ s \in Sends /\ task[s] = "fired"
  /\ r.at # "drain"                        \* free_mtx
  /\ task' = [task EXCEPT ![s] = "returning"]
  /\ IF s \in mode THEN free_list' = <<s>> \o free_list /\ UNCHANGED mode
                   ELSE mode' = mode \cup {s} /\ UNCHANGED free_list
  /\ UNCHANGED <<result, data, value, owner, promise, cv, r, threads>>

\* The operation's outcome, and the message if there is one.
Finish(v) ==
  \E o \in {"ok", "error"} :
    /\ result' = [result EXCEPT ![v] = o]
    /\ data' = IF o = "ok" THEN data \cup {v} ELSE data
\* Mutant: a callback that ends in no state of the code.
BadPosting(v) == IF node[v] = "none" THEN "done" ELSE "posting"

Posting(v) == IF node[v] = "none" THEN "returning" ELSE "posting"

\* raio_complete, iraio_complete, request_complete with a cv: the result is
\* stored, the node is read and the cv is signalled under the cv's lock.
Publish(v) ==
  /\ v \in Recvs \ Plain /\ task[v] = "fired"
  /\ task' = [task EXCEPT ![v] = Posting(v)]
  /\ Finish(v)
  /\ condition' = condition + 1
  /\ UNCHANGED <<value, owner, handshake, promise, snap, r, threads>>

\* The same without a cv: two steps, no lock.
Store(v) ==
  /\ v \in Plain /\ task[v] = "fired"
  /\ task' = [task EXCEPT ![v] = "stored"]
  /\ Finish(v)
  /\ UNCHANGED <<value, owner, handshake, promise, cv, r, threads>>

ReadNode(v) ==
  /\ task[v] = "stored"
  /\ task' = [task EXCEPT ![v] = Posting(v)]
  /\ UNCHANGED <<result, data, value, owner, handshake, promise, cv, r, threads>>

Post(v) ==
  /\ task[v] = "posting"
  /\ task' = [task EXCEPT ![v] = "returning"]
  /\ queue' = Append(queue, v)
  /\ UNCHANGED <<result, data, value, owner, handshake, node, called, cv, r, threads>>

Return(a) ==
  /\ task[a] = "returning"
  /\ task' = [task EXCEPT ![a] = "idle"]
  /\ UNCHANGED <<result, data, value, owner, handshake, promise, cv, r, threads>>

Callback(a) ==
  Complete(a) \/ Publish(a) \/ Store(a) \/ ReadNode(a) \/ Post(a) \/ Return(a)

----------------------------------------------------------------------------
(* R: reading an aio, waiting for it, making a promise of it.              *)

\* nano_aio_get_msg, create_aio_msg: the value is made once, of the error or
\* else of the message, which is freed.
Take(v) ==
  IF value[v] # "none" THEN UNCHANGED <<value, data>>
  ELSE /\ value' = [value EXCEPT ![v] = IF result[v] = "error" THEN "error" ELSE "message"]
       /\ data' = IF result[v] = "error" THEN data ELSE data \ {v}

\* What rnng_aio_get_msg goes by: the result read under the cv's lock, or
\* without a cv whether NNG still runs the operation or its callback.
Resolved(v) == IF v \in Plain THEN task[v] = "idle" ELSE result[v] # "none"

\* x$data and unresolved(x)
Get(v) ==
  /\ Held(v) /\ value[v] = "none" /\ Resolved(v)
  /\ Take(v)
  /\ UNCHANGED <<task, result, owner, handshake, promise, cv, r, threads>>

\* as.promise: unresolved(x) was TRUE, .keep() comes next.
Promise(v) ==
  /\ Held(v) /\ value[v] = "none" /\ ~Resolved(v) /\ node[v] = "none"
  /\ r' = At("keep", v)
  /\ UNCHANGED <<task, result, data, value, owner, handshake, promise, cv, threads>>

PostIf(done, v) == queue' = IF done THEN Append(queue, v) ELSE queue

\* Mutant: the call posts whether or not the aio is complete.
BadKeep(v) ==
  /\ In("keep", v) /\ v \notin Plain
  /\ node' = [node EXCEPT ![v] = "live"]
  /\ PostIf(TRUE, v)
  /\ r' = Ready
  /\ UNCHANGED <<task, result, data, value, owner, handshake, called, cv, threads>>

\* Mutant: the call leaves its node without looking at the result.
BadKeepLate(v) ==
  /\ In("keep", v) /\ v \notin Plain
  /\ node' = [node EXCEPT ![v] = "live"]
  /\ r' = Ready
  /\ UNCHANGED <<task, result, data, value, owner, handshake, called, queue, cv, threads>>

\* rnng_set_promise_context: with a cv the node is left and the result read
\* under the lock of the callback.
Keep(v) ==
  /\ In("keep", v) /\ v \notin Plain
  /\ node' = [node EXCEPT ![v] = "live"]
  /\ PostIf(result[v] # "none", v)
  /\ r' = Ready
  /\ UNCHANGED <<task, result, data, value, owner, handshake, called, cv, threads>>

KeepPlain(v) ==
  /\ In("keep", v) /\ v \in Plain
  /\ Quiet => task[v] \in {"busy", "idle"}
  /\ node' = [node EXCEPT ![v] = "live"]
  /\ r' = At("check", v)
  /\ UNCHANGED <<task, result, data, value, owner, handshake, called, queue, cv, threads>>

CheckPlain(v) ==
  /\ In("check", v)
  /\ PostIf(result[v] # "none", v)
  /\ r' = Ready
  /\ UNCHANGED <<task, result, data, value, owner, handshake, node, called, cv, threads>>

\* The event loop calls raio_invoke_cb.
Invoke ==
  /\ r = Ready /\ queue # <<>>
  /\ queue' = Tail(queue)
  /\ LET v == Head(queue) IN
       IF node[v] = "live"
       THEN /\ Take(v)
            /\ called' = [called EXCEPT ![v] = @ + 1]
            /\ node' = [node EXCEPT ![v] = "released"]
       ELSE UNCHANGED <<value, data, called, node>>
  /\ UNCHANGED <<task, result, owner, handshake, cv, r, threads>>

\* call_aio: nng_aio_wait, then the value.
Call(v) ==
  /\ Held(v) /\ value[v] = "none"
  /\ r' = At("wait", v)
  /\ UNCHANGED <<task, result, data, value, owner, handshake, promise, cv, threads>>

CallReturns(v) ==
  /\ In("wait", v) /\ task[v] = "idle"
  /\ Take(v)
  /\ r' = Ready
  /\ UNCHANGED <<task, result, owner, handshake, promise, cv, threads>>

\* stop_aio: aborts the operation and waits for its callback.
Stop(a) ==
  /\ Held(a)
  /\ r' = At("stop", a)
  /\ UNCHANGED <<task, result, data, value, owner, handshake, promise, cv, threads>>

StopReturns(a) ==
  /\ In("stop", a) /\ task[a] = "idle"
  /\ r' = Ready
  /\ UNCHANGED <<task, result, data, value, owner, handshake, promise, cv, threads>>

\* race_aio over the receives that signal the cv: the value of the cv is
\* copied before the results are looked at, and again each time R wakes.
Signalling == Recvs \ Plain

Race ==
  /\ r = Ready
  /\ \A v \in Signalling : owner[v] = "held" /\ task[v] # "new" /\ result[v] = "none"
  /\ snap' = condition
  /\ r' = At("scan", NoAio)
  /\ UNCHANGED <<task, result, data, value, owner, handshake, promise, condition, threads>>

Scan ==
  /\ r.at = "scan"
  /\ r' = IF \E v \in Signalling : result[v] # "none" THEN Ready ELSE At("race", NoAio)
  /\ UNCHANGED <<task, result, data, value, owner, handshake, promise, cv, threads>>

\* Mutant: a woken race_aio copies the cv's value but does not look again.
BadRaceWakes ==
  /\ r.at = "race"
  /\ snap' = condition
  /\ UNCHANGED <<task, result, data, value, owner, handshake, promise, condition, r, threads>>

\* woken by a signal, or after 400 ms
RaceWakes ==
  /\ r.at = "race"
  /\ snap' = condition
  /\ r' = At("scan", NoAio)
  /\ UNCHANGED <<task, result, data, value, owner, handshake, promise, condition, threads>>

----------------------------------------------------------------------------
(* R: call_aio_, which can be interrupted.  It has the wait thread wait    *)
(* for the aio, or a thread of its own when the wait thread has another.   *)

\* Mutant: the wait thread is taken for v's whatever aio it waits for.
BadCollect(v) ==
  /\ Held(v) /\ value[v] = "none"
  /\ IF wait_cond = "idle" THEN shared' = v /\ wait_cond' = "set"
                           ELSE UNCHANGED <<shared, wait_cond>>
  /\ r' = At("shared", v)
  /\ UNCHANGED <<task, result, data, value, owner, handshake, promise, cv, waiter, single>>

\* rnng_wait_thread_create
Collect(v) ==
  /\ Held(v) /\ value[v] = "none"
  /\ \/ /\ wait_cond = "idle"
        /\ shared' = v /\ wait_cond' = "set"
        /\ r' = At("shared", v)
        /\ UNCHANGED single
     \/ /\ wait_cond = "set" /\ shared = v
        /\ r' = At("shared", v)
        /\ UNCHANGED <<shared, wait_cond, single>>
     \/ /\ wait_cond = "set" /\ shared # v
        /\ single[v] = "none"              \* bound: one thread of its own
        /\ single' = [single EXCEPT ![v] = "waiting"]
        /\ r' = At("single", v)
        /\ UNCHANGED <<shared, wait_cond>>
  /\ UNCHANGED <<task, result, data, value, owner, handshake, promise, cv, waiter>>

SharedReturns(v) ==
  /\ In("shared", v) /\ wait_cond # "set"
  /\ Take(v)
  /\ r' = Ready
  /\ UNCHANGED <<task, result, owner, handshake, promise, cv, threads>>

SingleReturns(v) ==
  /\ In("single", v) /\ single[v] = "done"
  /\ Take(v)
  /\ r' = Ready
  /\ UNCHANGED <<task, result, owner, handshake, promise, cv, threads>>

\* R_CheckUserInterrupt, every 400 ms
Interrupt ==
  /\ r.at \in {"shared", "single", "race"}
  /\ r' = Ready
  /\ UNCHANGED <<task, result, data, value, owner, handshake, promise, cv, threads>>

\* rnng_wait_thread: takes the aio, waits for it with no lock held, clears it.
WaitStart ==
  /\ waiter = "asleep" /\ wait_cond = "set"
  /\ waiter' = "waiting"
  /\ UNCHANGED <<task, result, data, value, owner, handshake, promise, cv, r, shared, wait_cond, single>>

WaitWakes ==
  /\ waiter = "waiting" /\ task[shared] = "idle"
  /\ waiter' = "woken"
  /\ UNCHANGED <<task, result, data, value, owner, handshake, promise, cv, r, shared, wait_cond, single>>

WaitDone ==
  /\ waiter = "woken"
  /\ waiter' = "asleep"
  /\ shared' = NoAio /\ wait_cond' = "idle"
  /\ UNCHANGED <<task, result, data, value, owner, handshake, promise, cv, r, single>>

WaitEnds ==
  /\ waiter = "asleep" /\ wait_cond = "stop"
  /\ waiter' = "ended"
  /\ UNCHANGED <<task, result, data, value, owner, handshake, promise, cv, r, shared, wait_cond, single>>

\* rnng_wait_thread_single
SingleDone(v) ==
  /\ single[v] = "waiting" /\ task[v] = "idle"
  /\ single' = [single EXCEPT ![v] = "done"]
  /\ UNCHANGED <<task, result, data, value, owner, handshake, promise, cv, r, shared, wait_cond, waiter>>

----------------------------------------------------------------------------
(* R: the collector.  A live node keeps its aio.                           *)

Drop(a) ==
  /\ Held(a)
  /\ a \in Recvs => node[a] # "live"
  /\ Quiet => shared # a
  /\ owner' = [owner EXCEPT ![a] = "dropped"]
  /\ UNCHANGED <<task, result, data, value, handshake, promise, cv, r, threads>>

CollectNode(v) ==
  /\ r = Ready /\ node[v] = "released"
  /\ node' = [node EXCEPT ![v] = "collected"]
  /\ UNCHANGED <<task, result, data, value, owner, handshake, called, queue, cv, r, threads>>

\* saio_finalizer, nano_list_do(FINALIZE): under free_mtx, first the sends
\* whose callbacks came last (FREE), each once its callback has returned,
\* then this one: freed after unlocking if its callback has come.
FinalizeSend(s) ==
  /\ s \in Sends /\ r = Ready /\ owner[s] = "dropped"
  /\ r' = At("drain", s)
  /\ UNCHANGED <<task, result, data, value, owner, handshake, promise, cv, threads>>

Free(a) == owner' = [owner EXCEPT ![a] = "freed"]

Drain ==
  /\ r.at = "drain" \/ (r.at = "reap" /\ waiter = "ended")
  /\ free_list # <<>>
  /\ task[Head(free_list)] = "idle"
  /\ Free(Head(free_list))
  /\ free_list' = Tail(free_list)
  /\ UNCHANGED <<task, result, data, value, mode, promise, cv, r, threads>>

\* Mutant: the finalizer that comes first leaves no mark.
BadHandOver(s) ==
  /\ In("drain", s) /\ free_list = <<>>
  /\ IF s \in mode
     THEN r' = At("free", s) /\ UNCHANGED <<mode, owner>>
     ELSE owner' = [owner EXCEPT ![s] = "finalized"] /\ r' = Ready /\ UNCHANGED mode
  /\ UNCHANGED <<task, result, data, value, free_list, promise, cv, threads>>

HandOver(s) ==
  /\ In("drain", s) /\ free_list = <<>>
  /\ IF s \in mode
     THEN r' = At("free", s) /\ UNCHANGED <<mode, owner>>
     ELSE /\ mode' = mode \cup {s}
          /\ owner' = [owner EXCEPT ![s] = "finalized"]
          /\ r' = Ready
  /\ UNCHANGED <<task, result, data, value, free_list, promise, cv, threads>>

\* thread_aio_finalizer, which runs before the aio's own: stop, join.
FinalizeRecv(v) ==
  /\ v \in Recvs /\ r = Ready /\ owner[v] = "dropped"
  /\ r' = At(IF single[v] = "none" THEN "free" ELSE "join", v)
  /\ UNCHANGED <<task, result, data, value, owner, handshake, promise, cv, threads>>

Join(v) ==
  /\ In("join", v) /\ single[v] = "done"
  /\ single' = [single EXCEPT ![v] = "none"]
  /\ r' = At("free", v)
  /\ UNCHANGED <<task, result, data, value, owner, handshake, promise, cv, shared, wait_cond, waiter>>

\* nng_aio_free aborts the operation and waits for the callback; a message
\* that R never took is freed with the aio.
Dispose(a) ==
  /\ In("free", a) /\ task[a] = "idle"
  /\ Free(a)
  /\ data' = data \ {a}
  /\ r' = Ready
  /\ UNCHANGED <<task, result, value, handshake, promise, cv, threads>>

\* R_unload_nanonext: nano_thread_shutdown stops the aio of the wait thread,
\* tells the thread to end and joins it; then nano_list_do(SHUTDOWN).
Unload ==
  /\ r = Ready
  /\ Quiet => /\ wait_cond # "set"
              /\ \A s \in Sends : task[s] \in {"new", "idle"}
  /\ r' = At("unload", shared)
  /\ UNCHANGED <<task, result, data, value, owner, handshake, promise, cv, threads>>

StopThread ==
  /\ r.at = "unload"
  /\ r.of # NoAio => task[r.of] = "idle"
  /\ wait_cond' = "stop"
  /\ r' = At("reap", NoAio)
  /\ UNCHANGED <<task, result, data, value, owner, handshake, promise, cv, shared, waiter, single>>

\* Mutant: SHUTDOWN does not drain the list.
BadUnloaded ==
  /\ r.at = "reap" /\ waiter = "ended"
  /\ r' = At("unloaded", NoAio)
  /\ UNCHANGED <<task, result, data, value, owner, handshake, promise, cv, threads>>

Unloaded ==
  /\ r.at = "reap" /\ waiter = "ended" /\ free_list = <<>>
  /\ r' = At("unloaded", NoAio)
  /\ UNCHANGED <<task, result, data, value, owner, handshake, promise, cv, threads>>

----------------------------------------------------------------------------
Threads == WaitStart \/ WaitWakes \/ WaitDone \/ WaitEnds \/ \E v \in Recvs : SingleDone(v)

\* What R chooses to do.
Choose ==
  \/ \E a \in Aios : Stop(a) \/ Drop(a)
  \/ \E v \in Recvs : Get(v) \/ Promise(v) \/ Call(v) \/ Collect(v) \/ CollectNode(v)
  \/ \E s \in Sends : FinalizeSend(s)
  \/ \E v \in Recvs : FinalizeRecv(v)
  \/ Race \/ Interrupt \/ Unload

\* What R does in a call until it returns.
Proceed ==
  \/ \E v \in Recvs : \/ Keep(v) \/ KeepPlain(v) \/ CheckPlain(v) \/ CallReturns(v)
                       \/ SharedReturns(v) \/ SingleReturns(v) \/ Join(v)
  \/ \E a \in Aios : StopReturns(a) \/ Dispose(a)
  \/ \E s \in Sends : HandOver(s)
  \/ Drain \/ Scan \/ RaceWakes \/ StopThread \/ Unloaded

Next ==
  \/ \E a \in Aios : Fire(a) \/ Callback(a)
  \/ Threads \/ Choose \/ Proceed \/ Invoke

Spec == Init /\ [][Next]_vars

\* Mutant: a finalizer waits for the operation but does not abort it.
BadAborted(a) == r.of = a /\ r.at \in {"stop", "join", "unload"}

\* nng_aio_stop and nng_aio_free abort the operation they wait for.
Aborted(a) == r.of = a /\ r.at \in {"stop", "join", "free", "unload"}

Abort(a) == Aborted(a) /\ Fire(a)

\* NNG's threads and the wait threads run; an aborted operation ends; R goes
\* on in the call it is in, and its event loop runs when R keeps returning to
\* it.  An operation that nobody aborts need not end.
Fairness ==
  /\ \A a \in Aios : WF_vars(Callback(a)) /\ WF_vars(Abort(a))
  /\ WF_vars(Threads) /\ WF_vars(Proceed)
  /\ SF_vars(Invoke)

FairSpec == Spec /\ Fairness

----------------------------------------------------------------------------
Listed(s) == \E i \in DOMAIN free_list : free_list[i] = s

\* An aio that has been freed is used by nobody: its callback has returned, R is
\* in no call on it, no finalizer will free it again, no thread waits for it and it holds no
\* message (nano_list_do, raio_finalizer, thread_aio_finalizer).
FreedUnused ==
  \A a \in Aios : owner[a] = "freed" =>
    /\ task[a] = "idle" /\ a \notin data /\ r.of # a
    /\ ~ Listed(a) /\ shared # a
    /\ a \in Recvs => single[a] = "none"

\* Of a send's callback and its finalizer the second disposes of it: it is on
\* the list, once, exactly when the finalizer came first and the callback has
\* come, so none is lost and none is freed under its callback.
HandedOver ==
  /\ \A s \in Sends : Listed(s) <=> owner[s] = "finalized" /\ task[s] \in {"returning", "idle"}
  /\ \A i, j \in DOMAIN free_list : free_list[i] = free_list[j] => i = j

\* The package is unloaded with every finalized send freed and no thread left
\* (nano_thread_shutdown, nano_list_do(SHUTDOWN)).
UnloadedClean ==
  r.at = "unloaded" =>
    waiter = "ended" /\ \A s \in Sends : owner[s] # "finalized" /\ task[s] \in {"new", "idle"}

\* One call resolves a promise: the callback posts it, or the call that left
\* the node, never both (raio_complete, rnng_set_promise_context).
ResolvedOnce ==
  \A v \in Recvs :
    called[v] + Cardinality({i \in DOMAIN queue : queue[i] = v})
      + (IF task[v] = "posting" THEN 1 ELSE 0) <= 1

\* R makes a value of a message only when there is one, and of each message
\* once (create_aio_msg, reached from four calls and from the event loop).
MessageTaken ==
  [][\A v \in Recvs : value[v] = "none" /\ value'[v] = "message" => v \in data /\ v \notin data']_vars

\* R sleeps in race_aio only while nothing it races has a result: the copy of
\* the cv's value was taken before the results were looked at.
RaceNotMissed ==
  r.at = "race" /\ condition = snap => \A v \in Signalling : result[v] = "none"

\* A promise is resolved once its aio is, if R keeps returning to its event
\* loop: the completion is missed by neither side.
PromiseResolved ==
  []<>(r = Ready) =>
    \A v \in Recvs : (node[v] = "live" /\ result[v] # "none") ~> called[v] = 1

\* A finalizer, or stop_aio, returns: it waits for a callback under free_mtx,
\* or for a thread, but never for one that waits for it.
FinalizerReturns ==
  r.at \in {"stop", "drain", "join", "free"} ~> r = Ready

=============================================================================
