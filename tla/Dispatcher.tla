----------------------------- MODULE Dispatcher -----------------------------
(***************************************************************************)
(* The in-process dispatcher of src/src/dispatcher.c.                      *)
(*                                                                         *)
(* Host requests arrive on a REP socket, one context per request, and are  *)
(* forwarded over a polyamorous PAIR1 socket to daemons, one pipe each.    *)
(* NNG runs the dispatcher's callbacks on its own threads; everything they *)
(* share is under d->mtx.  One action is one section between a lock and    *)
(* its unlock, with what the handler does before the next lock.  The one   *)
(* loop run under the lock (dispatch_drain_locked) is one action per       *)
(* iteration, during which no action that takes d->mtx is enabled.         *)
(*                                                                         *)
(* Requests are named by arrival: the k-th accepted request is task k, and *)
(* so is the REP context that came with it; context 0 is the one open to   *)
(* receive the next request.  The slot array is a function of the pipe:    *)
(* its order only decides which of several idle daemons is picked, which   *)
(* the model leaves open.  A sender (nano_dsend) exists once per slot, and *)
(* its two aios are named by the slot's pipe.                              *)
(***************************************************************************)
EXTENDS Integers, FiniteSets, SequencesExt

CONSTANTS
  Pipes,        \* pipe ids of the daemons that may connect; ids are not reused
  MaxTasks,     \* bound: requests the host sends
  SyncKinds,    \* subset of BOOLEAN: values of the sync flag in request headers
  Sizes,        \* message lengths of requests
  LimitBytes,   \* d->limit_bytes, 0 when unbounded
  ReplyPool,    \* DISPATCH_REPLY_POOL
  SendDepth,    \* depth of the poly socket's send queue of a pipe
  Targets,      \* numbers of daemons that rnng_dispatcher_wait is called with
  CancelIds,    \* ids that dispatch_cancel_direct is called with
  MaxCancels,   \* bound: calls of dispatch_cancel_direct for one id
  Markers,      \* subset of BOOLEAN: may a daemon mark its reply as its last?
  MayFail,      \* may allocations and nng_ctx_open fail?
  MayStop,      \* may the R session stop the dispatcher?
  MayCrash      \* may a daemon disconnect without leaving?

Task == 1..MaxTasks

ASSUME DispatcherAssumption ==
  /\ IsFiniteSet(Pipes)
  /\ MaxTasks \in Nat
  /\ SyncKinds \subseteq BOOLEAN
  /\ Sizes \subseteq Nat
  /\ LimitBytes \in Nat
  /\ ReplyPool \in Nat
  /\ SendDepth \in Nat \ {0}
  /\ Targets \subseteq Nat
  /\ CancelIds \subseteq Nat
  /\ MaxCancels \in Nat
  /\ Markers \subseteq BOOLEAN
  /\ MayFail \in BOOLEAN
  /\ MayStop \in BOOLEAN
  /\ MayCrash \in BOOLEAN

Fresh     == 0     \* the context opened for the next request
InitMsg   == 0     \* the init template sent to a new daemon
Signal    == -1    \* a zero-length message
ConnReset == 0     \* the reply sent for a daemon lost while busy
NoAnswer  == -1
NewDaemon == -2    \* a daemon before its init message ...
Leaving   == -1    \* ... after a marked reply ...
Ready     == 0     \* ... between tasks; a task number while it runs one

VARIABLES
  slot,              \* d->daemons
  inq,               \* the list from d->inq_head, as a sequence of tasks
  header,            \* what dispatch_read_msg_info read of each task
  inq_count, outq_count, connections, count, executing,
  queued_bytes, peak_queued_bytes,
  stopped, syncing, sync_generation,
  mtx,               \* free, or what the holder does after draining
  host_aio,          \* "recv", "rearm" (callback past its unlock) or "off"
  host_ctx,
  init_aio,          \* init send of each sender: idle, sending, or callback due
  retired,           \* pipes whose sender is on d->retired
  sig_aio, sig_list, \* the signal send and the list behind it
  reply_active,      \* reply holders in use
  orphan,            \* contexts in the hands of dispatch_handle_disconnect
  main,              \* where the R thread is: running, waiting, shutting down
  want,              \* target of rnng_dispatcher_wait
  woken              \* nng_cv_wake since the R thread went to sleep

VARIABLES            \* NNG's sockets, the daemons and the host
  open,              \* open contexts of the REP socket
  uwq,               \* sends the poly socket has not yet routed
  up,                \* pipes the poly socket can route to
  phase,             \* which pipe callbacks have run
  chan,              \* messages on their way to a daemon
  daemon,
  arrived,           \* daemon messages received, their callback due
  answers,           \* what the host got for each task
  cancels,           \* calls of dispatch_cancel_direct, by id
  dispatched         \* history: tasks in the order they were assigned

counters == <<inq_count, outq_count, connections, count, executing,
              queued_bytes, peak_queued_bytes>>
queue    == <<inq, inq_count, queued_bytes, peak_queued_bytes>>
barrier  == <<syncing, sync_generation>>
signals  == <<sig_aio, sig_list>>
replies  == <<reply_active, open>>
host     == <<host_aio, host_ctx, header, count>>
rthread  == <<main, want>>
network  == <<up, phase, chan, daemon, arrived>>
history  == <<answers, cancels, dispatched>>

vars == <<slot, inq, header, inq_count, outq_count, connections, count,
          executing, queued_bytes, peak_queued_bytes, stopped, syncing,
          sync_generation, mtx, host_aio, host_ctx, init_aio, retired,
          sig_aio, sig_list, reply_active, orphan, main, want, woken, open,
          uwq, up, phase, chan, daemon, arrived, answers, cancels, dispatched>>

-----------------------------------------------------------------------------
(* Helpers.  An operator named Bad... is the operator after it with a bug a   *)
(* change to the code could introduce; no definition uses it.                *)

Free == [held |-> FALSE, dequeued |-> FALSE, ctx |-> Fresh, msg |-> NoAnswer]

\* nano_dispatch_daemon, NONE when the array has no slot for the pipe
Slot == [state : {"NONE", "INIT", "IDLE", "BUSY"}, msgid : Nat, gen : Int, ctx : Nat]

NoSlot == [state |-> "NONE", msgid |-> 0, gen |-> 0, ctx |-> Fresh]

Header == [msgid : Nat, sync : BOOLEAN, len : Nat]

Busy == {p \in Pipes : slot[p].state = "BUSY"}

Connected == {p \in Pipes : slot[p].state \in {"IDLE", "BUSY"}}

\* nng_aio_busy of a sender's task aio: its message is not yet routed.
TaskSending(p) == \E i \in 1..Len(uwq) : uwq[i].pipe = p /\ uwq[i].msg \in Task

BadIdleDaemons == {p \in Pipes : slot[p].state = "IDLE"}

\* dispatch_find_idle_daemon
IdleDaemons ==
  {p \in Pipes : /\ slot[p].state = "IDLE"
                 /\ ~(syncing /\ slot[p].gen = sync_generation)}

Sleeping == main \in {"gate", "wait"}

\* nng_cv_wake
Wake == woken' = Sleeping

\* dispatch_start_send, whose nng_aio_wait holds until the aio is free
StartSend(p, t) ==
  /\ ~TaskSending(p)
  /\ uwq' = Append(uwq, [pipe |-> p, msg |-> t])

\* The part of dispatch_assign_task that opens and closes the sync barrier.
MarkSync(sync) ==
  \/ sync /\ syncing' = TRUE /\ UNCHANGED sync_generation
  \/ ~sync /\ syncing /\ syncing' = FALSE /\ sync_generation' = sync_generation + 1
  \/ ~sync /\ ~syncing /\ UNCHANGED barrier

BadTaskSlot(p, t, h) == [slot[p] EXCEPT !.msgid = h.msgid, !.ctx = t]

\* The slot of a daemon that is given task t.
TaskSlot(p, t, h) ==
  [state |-> "BUSY", msgid |-> h.msgid, ctx |-> t,
   gen |-> IF h.sync THEN sync_generation ELSE slot[p].gen]

\* dispatch_assign_task
AssignTask(p, t, h) ==
  /\ slot' = [slot EXCEPT ![p] = TaskSlot(p, t, h)]
  /\ executing' = executing + 1
  /\ MarkSync(h.sync)
  /\ StartSend(p, t)
  /\ dispatched' = Append(dispatched, [pipe |-> p, task |-> t])

BadEnqueue(t, h) ==   \* at the wrong end
  /\ inq' = <<t>> \o inq
  /\ inq_count' = inq_count + 1
  /\ queued_bytes' = queued_bytes + h.len
  /\ peak_queued_bytes' = IF queued_bytes' > peak_queued_bytes
                          THEN queued_bytes' ELSE peak_queued_bytes

\* dispatch_enqueue
Enqueue(t, h) ==
  /\ inq' = Append(inq, t)
  /\ inq_count' = inq_count + 1
  /\ queued_bytes' = queued_bytes + h.len
  /\ peak_queued_bytes' = IF queued_bytes' > peak_queued_bytes
                          THEN queued_bytes' ELSE peak_queued_bytes

BadDequeue(t) == inq_count' = inq_count - 1 /\ UNCHANGED queued_bytes

\* What unlinking a queued message does to the queue's size.
Dequeue(t) ==
  /\ inq_count' = inq_count - 1
  /\ queued_bytes' = queued_bytes - header[t].len

BadWakeGate == UNCHANGED woken

\* The wake-up for those the memory budget holds back.
WakeGate == IF LimitBytes > 0 THEN Wake ELSE UNCHANGED woken

BadRemoveDaemon(p) ==   \* counts a daemon that was never connected
  /\ slot' = [slot EXCEPT ![p] = NoSlot]
  /\ outq_count' = outq_count - 1

\* dispatch_remove_daemon; the callers add the sender to the retired list.
RemoveDaemon(p) ==
  /\ slot' = [slot EXCEPT ![p] = NoSlot]
  /\ outq_count' = IF slot[p].state # "INIT" THEN outq_count - 1 ELSE outq_count

BadReap(list) == {p \in list : TaskSending(p)}

\* dispatch_reap_retired: what stays of the list.
Reap(list) == {p \in list : init_aio[p] # "idle" \/ TaskSending(p)}

QueueSignal(p) ==
  \/ /\ stopped \/ MayFail
     /\ UNCHANGED <<uwq, signals>>
  \/ /\ ~stopped /\ sig_aio = "idle"
     /\ sig_aio' = "sending"
     /\ uwq' = Append(uwq, [pipe |-> p, msg |-> Signal])
     /\ UNCHANGED sig_list
  \/ /\ ~stopped /\ sig_aio # "idle"
     /\ sig_list' = Append(sig_list, p)
     /\ UNCHANGED <<uwq, sig_aio>>

BadReplySend(t, m) ==   \* harvested contexts are not closed
  /\ reply_active' = {r \in reply_active : r.busy} \cup
                       {[ctx |-> t, msg |-> m, busy |-> TRUE]}
  /\ UNCHANGED open

WorseReplySend(t, m) ==   \* harvests holders that are still sending
  /\ reply_active' = {[ctx |-> t, msg |-> m, busy |-> TRUE]}
  /\ open' = open \ {r.ctx : r \in reply_active}

\* dispatch_reply_send_locked: harvest the holders whose sends are done, then
\* take a free holder, or allocate one when the pool is used up.
ReplySend(t, m) ==
  LET done   == {r \in reply_active : ~r.busy}
      closed == {r.ctx : r \in done}
  IN \/ /\ reply_active' = (reply_active \ done) \cup
                             {[ctx |-> t, msg |-> m, busy |-> TRUE]}
        /\ open' = open \ closed
     \/ /\ MayFail /\ done = {} /\ Cardinality(reply_active) >= ReplyPool
        /\ open' = open \ {t}
        /\ UNCHANGED reply_active

-----------------------------------------------------------------------------
(* The lock: a handler either ends at its unlock or goes on to drain. *)

Locking == mtx = Free /\ main # "freed"

Unlock == UNCHANGED mtx

BadDrainThen(t, m) ==   \* a daemon's init is not followed by a drain
  mtx' = IF t = Fresh THEN Free
         ELSE [held |-> TRUE, dequeued |-> FALSE, ctx |-> t, msg |-> m]

\* Start dispatch_drain_locked; afterwards send msg as the reply on ctx, if any.
DrainThen(t, m) == mtx' = [held |-> TRUE, dequeued |-> FALSE, ctx |-> t, msg |-> m]

BadDrainDone == mtx.dequeued \/ inq = <<>> \/ IdleDaemons = {}   \* if, not while

\* The loop's exit.
DrainDone == inq = <<>> \/ IdleDaemons = {}

\* One iteration of dispatch_drain_locked.
DrainStep ==
  /\ mtx.held /\ ~DrainDone
  /\ \E p \in IdleDaemons : AssignTask(p, Head(inq), header[Head(inq)])
  /\ inq' = Tail(inq)
  /\ Dequeue(Head(inq))
  /\ mtx' = [mtx EXCEPT !.dequeued = TRUE]
  /\ UNCHANGED <<header, outq_count, connections, count, peak_queued_bytes,
                 stopped, host_aio, host_ctx, init_aio, retired, signals,
                 replies, orphan, rthread, woken, network, answers, cancels>>

\* The end of the loop, and of the handler that ran it.
DrainEnd ==
  /\ mtx.held /\ DrainDone
  /\ IF mtx.dequeued THEN WakeGate ELSE UNCHANGED woken
  /\ IF mtx.ctx # Fresh THEN ReplySend(mtx.ctx, mtx.msg) ELSE UNCHANGED replies
  /\ mtx' = Free
  /\ UNCHANGED <<slot, inq, header, counters, stopped, barrier, host_aio,
                 host_ctx, init_aio, retired, signals, orphan, rthread, uwq,
                 network, history>>

-----------------------------------------------------------------------------
(* Daemons come and go *)

\* dispatch_handle_connect, from the ADD_POST callback of a pipe.
HandleConnect(p) ==
  /\ Locking
  /\ phase[p] = "attached"
  /\ phase' = [phase EXCEPT ![p] = "added"]
  /\ retired' = Reap(retired)
  /\ \/ /\ ~stopped
        /\ slot' = [slot EXCEPT ![p] = [state |-> "INIT", msgid |-> 0,
                                        gen |-> sync_generation - 1, ctx |-> Fresh]]
        /\ init_aio' = [init_aio EXCEPT ![p] = "sending"]
        /\ uwq' = Append(uwq, [pipe |-> p, msg |-> InitMsg])
        /\ UNCHANGED <<up, chan>>
     \/ /\ stopped \/ MayFail      \* the fail label: nng_pipe_close
        /\ up' = up \ {p}
        /\ chan' = [chan EXCEPT ![p] = <<>>]
        /\ UNCHANGED <<slot, init_aio, uwq>>
  /\ Unlock
  /\ UNCHANGED <<inq, header, counters, stopped, barrier, host_aio, host_ctx,
                 signals, replies, orphan, rthread, woken, daemon, arrived, history>>

\* dispatch_init_cb
InitCb(p) ==
  /\ Locking
  /\ init_aio[p] \in {"done", "failed"}
  /\ init_aio' = [init_aio EXCEPT ![p] = "idle"]
  /\ IF init_aio[p] = "done" /\ slot[p].state = "INIT"
     THEN /\ slot' = [slot EXCEPT ![p].state = "IDLE"]
          /\ connections' = connections + 1
          /\ outq_count' = outq_count + 1
          /\ Wake
          /\ IF ~stopped THEN DrainThen(Fresh, NoAnswer) ELSE Unlock
     ELSE UNCHANGED <<slot, connections, outq_count, woken, mtx>>
  /\ UNCHANGED <<inq, header, inq_count, count, executing, queued_bytes,
                 peak_queued_bytes, stopped, barrier, host_aio, host_ctx,
                 retired, signals, replies, orphan, rthread, uwq, network, history>>

\* dispatch_handle_disconnect, from the REM_POST callback, up to its unlock and,
\* when no task was lost, the reap that ends it.
HandleDisconnect(p) ==
  /\ Locking
  /\ phase[p] = "added" /\ p \notin up
  /\ phase' = [phase EXCEPT ![p] = "removed"]
  /\ \/ /\ slot[p].state = "NONE"
        /\ UNCHANGED <<slot, outq_count, executing, retired, orphan, woken>>
     \/ /\ slot[p].state = "BUSY"
        /\ executing' = executing - 1
        /\ orphan' = orphan \cup {[ctx |-> slot[p].ctx, close |-> stopped]}
        /\ RemoveDaemon(p)
        /\ retired' = retired \cup {p}
        /\ Wake
     \/ /\ slot[p].state \in {"INIT", "IDLE"}
        /\ RemoveDaemon(p)
        /\ retired' = Reap(retired \cup {p})
        /\ Wake
        /\ UNCHANGED <<executing, orphan>>
  /\ Unlock
  /\ UNCHANGED <<inq, header, inq_count, connections, count, queued_bytes,
                 peak_queued_bytes, stopped, barrier, host_aio, host_ctx,
                 init_aio, signals, replies, rthread, uwq, up, chan, daemon,
                 arrived, history>>

\* The rest of dispatch_handle_disconnect for a task whose daemon is gone.
SendConnReset(o) ==
  /\ Locking
  /\ o \in orphan
  /\ orphan' = orphan \ {o}
  /\ \/ /\ ~o.close
        /\ ReplySend(o.ctx, ConnReset)
     \/ /\ o.close \/ MayFail
        /\ open' = open \ {o.ctx}
        /\ UNCHANGED reply_active
  /\ retired' = Reap(retired)
  /\ Unlock
  /\ UNCHANGED <<slot, inq, header, counters, stopped, barrier, host_aio,
                 host_ctx, init_aio, signals, rthread, woken, uwq, network, history>>

-----------------------------------------------------------------------------
(* Requests and replies *)

\* dispatch_handle_host_recv, up to its unlock.
HandleHostRecv(h) ==
  LET t == count + 1
  IN /\ Locking
     /\ host_aio = "recv" /\ count < MaxTasks
     /\ \/ /\ stopped
           /\ host_aio' = "off"
           /\ UNCHANGED <<slot, queue, header, count, executing, barrier,
                          host_ctx, open, uwq, dispatched>>
        \/ /\ ~stopped
           /\ count' = t
           /\ header' = Append(header, h)
           /\ host_aio' = "rearm" /\ host_ctx' = t
           /\ open' = (open \ {Fresh}) \cup {t}
           /\ \/ /\ \E p \in IdleDaemons : AssignTask(p, t, h)
                 /\ UNCHANGED queue
              \/ /\ IdleDaemons = {}
                 /\ Enqueue(t, h)
                 /\ UNCHANGED <<slot, executing, barrier, uwq, dispatched>>
     /\ Unlock
     /\ UNCHANGED <<outq_count, connections, stopped, init_aio, retired, signals,
                    reply_active, orphan, rthread, woken, network, answers, cancels>>

\* The rest of dispatch_handle_host_recv: a context for the next request.
RearmHost ==
  /\ host_aio = "rearm"
  /\ \/ /\ host_aio' = "recv" /\ host_ctx' = Fresh
        /\ open' = open \cup {Fresh}
        /\ UNCHANGED <<stopped, woken>>
     \/ /\ MayFail /\ Locking
        /\ host_aio' = "off"
        /\ stopped' = TRUE
        /\ Wake
        /\ UNCHANGED <<host_ctx, open>>
  /\ UNCHANGED <<slot, inq, header, counters, barrier, mtx, init_aio, retired,
                 signals, reply_active, orphan, rthread, uwq, network, history>>

\* dispatch_handle_daemon_recv, up to the drain it may start.
HandleDaemonRecv(m) ==
  LET p == m.pipe
      t == slot[p].ctx
  IN /\ Locking
     /\ m \in arrived /\ main \notin {"stopSig", "closePoly"}
     /\ arrived' = arrived \ {m}
     /\ \/ /\ stopped \/ slot[p].state # "BUSY"
           /\ Unlock
           /\ UNCHANGED <<slot, outq_count, executing, retired, signals, replies,
                          woken, uwq>>
        \/ /\ ~stopped /\ slot[p].state = "BUSY" /\ m.marker
           /\ executing' = executing - 1
           /\ RemoveDaemon(p)
           /\ retired' = retired \cup {p}
           /\ QueueSignal(p)
           /\ Wake
           /\ ReplySend(t, m.msg)
           /\ Unlock
        \/ /\ ~stopped /\ slot[p].state = "BUSY" /\ ~m.marker
           /\ executing' = executing - 1
           /\ slot' = [slot EXCEPT ![p].state = "IDLE", ![p].msgid = 0,
                                   ![p].ctx = Fresh]
           /\ DrainThen(t, m.msg)
           /\ UNCHANGED <<outq_count, retired, signals, replies, woken, uwq>>
     /\ UNCHANGED <<queue, header, connections, count, stopped, barrier,
                    host_aio, host_ctx, init_aio, orphan, rthread, up, phase,
                    chan, daemon, history>>

\* dispatch_sig_cb
SigCb ==
  /\ Locking
  /\ sig_aio = "done"
  /\ \/ /\ ~stopped /\ sig_list # <<>>
        /\ sig_aio' = "sending"
        /\ uwq' = Append(uwq, [pipe |-> Head(sig_list), msg |-> Signal])
        /\ sig_list' = Tail(sig_list)
     \/ /\ stopped \/ sig_list = <<>>
        /\ sig_aio' = "idle"
        /\ UNCHANGED <<sig_list, uwq>>
  /\ UNCHANGED <<slot, inq, header, counters, stopped, barrier, mtx, host_aio,
                 host_ctx, init_aio, retired, replies, orphan, rthread, woken,
                 network, history>>

-----------------------------------------------------------------------------
(* Calls from R, and from request_complete when a request times out *)

InUse == main \in {"run", "gate", "wait"}

\* dispatch_cancel_inq for the task at position i, the first with that id.
CancelInq(i) ==
  LET t == inq[i]
  IN /\ inq' = RemoveAt(inq, i)
     /\ Dequeue(t)
     /\ open' = open \ {t}
     /\ WakeGate

BadRunningAs(id) == Connected

\* The daemon a cancellation signal for this id goes to.
RunningAs(id) == {p \in Busy : slot[p].msgid = id}

\* dispatch_cancel_direct
CancelDirect(id) ==
  LET running == RunningAs(id)
      queued  == {i \in 1..Len(inq) : header[inq[i]].msgid = id}
  IN /\ Locking /\ InUse
     /\ cancels[id] < MaxCancels
     /\ cancels' = [cancels EXCEPT ![id] = @ + 1]
     /\ \/ /\ \E p \in running : QueueSignal(p)
           /\ UNCHANGED <<inq, inq_count, queued_bytes, open, woken>>
        \/ /\ running = {}
           /\ \E i \in queued : /\ \A j \in queued : i <= j
                                /\ CancelInq(i)
           /\ UNCHANGED <<uwq, signals>>
        \/ /\ running = {} /\ queued = {}
           /\ UNCHANGED <<inq, inq_count, queued_bytes, open, woken, uwq, signals>>
     /\ UNCHANGED <<slot, header, outq_count, connections, count, executing,
                    peak_queued_bytes, stopped, barrier, mtx, host_aio, host_ctx,
                    init_aio, retired, reply_active, orphan, rthread, network,
                    answers, dispatched>>

Blocked(m) == CASE m = "gate" -> queued_bytes >= LimitBytes /\ ~stopped
                [] m = "wait" -> outq_count < want /\ ~stopped

RThreadOnly ==
  UNCHANGED <<slot, inq, header, counters, stopped, barrier, mtx, host_aio,
              host_ctx, init_aio, retired, signals, replies, orphan, uwq,
              network, history>>

\* rnng_dispatcher_gate that finds the budget used up and sleeps.
Gate ==
  /\ Locking
  /\ main = "run" /\ LimitBytes > 0
  /\ queued_bytes >= LimitBytes /\ ~stopped
  /\ main' = "gate" /\ woken' = FALSE
  /\ UNCHANGED want /\ RThreadOnly

\* rnng_dispatcher_wait(n) that finds too few daemons and sleeps.
Wait(n) ==
  /\ Locking
  /\ main = "run"
  /\ outq_count < n /\ ~stopped
  /\ main' = "wait" /\ want' = n /\ woken' = FALSE
  /\ RThreadOnly

\* A sleeper that is woken, or whose 400 ms are over, checks again; a user
\* interrupt takes it out of the call whatever its condition says.
Recheck ==
  /\ Locking
  /\ Sleeping
  /\ woken' = FALSE
  /\ \/ Blocked(main) /\ UNCHANGED rthread
     \/ main' = "run" /\ want' = 0
  /\ RThreadOnly

-----------------------------------------------------------------------------
(* dispatcher_handle_release and dispatch_shutdown, on the R thread *)

\* Take the lock once to set d->stopped.
Stop ==
  /\ MayStop
  /\ Locking
  /\ main = "run"
  /\ stopped' = TRUE
  /\ main' = "stopHost"
  /\ UNCHANGED <<slot, inq, header, counters, barrier, mtx, host_aio, host_ctx,
                 init_aio, retired, signals, replies, orphan, want, woken, uwq,
                 network, history>>

\* nng_aio_stop waits for the callback in progress: the host's ...
StopHost ==
  /\ main = "stopHost"
  /\ host_aio # "rearm"
  /\ host_aio' = "off"
  /\ main' = "stopRecv"
  /\ UNCHANGED <<slot, inq, header, counters, stopped, barrier, mtx, host_ctx,
                 init_aio, retired, signals, replies, orphan, want, woken, uwq,
                 network, history>>

\* ... those of the daemon receives ...
StopRecv ==
  /\ main = "stopRecv"
  /\ mtx = Free
  /\ arrived' = {}
  /\ main' = "stopSig"
  /\ UNCHANGED <<slot, inq, header, counters, stopped, barrier, mtx, host_aio,
                 host_ctx, init_aio, retired, signals, replies, orphan, want,
                 woken, uwq, up, phase, chan, daemon, history>>

\* ... and the signal's.
StopSig ==
  /\ main = "stopSig"
  /\ \/ /\ sig_aio = "sending"
        /\ sig_aio' = "done"
        /\ \E i \in 1..Len(uwq) : uwq[i].msg = Signal /\ uwq' = RemoveAt(uwq, i)
     \/ /\ sig_aio # "sending"
        /\ UNCHANGED <<sig_aio, uwq>>
  /\ main' = "closePoly"
  /\ UNCHANGED <<slot, inq, header, counters, stopped, barrier, mtx, host_aio,
                 host_ctx, init_aio, retired, sig_list, replies, orphan, want,
                 woken, network, history>>

\* nng_close of the poly socket: pipes close and sends abort ...
ClosePoly ==
  /\ main = "closePoly"
  /\ sig_aio = "idle"
  /\ up' = {}
  /\ chan' = [p \in Pipes |-> <<>>]
  /\ arrived' = {}
  /\ uwq' = <<>>
  /\ init_aio' = [p \in Pipes |-> IF init_aio[p] = "sending" THEN "failed"
                                  ELSE init_aio[p]]
  /\ main' = "closePipes"
  /\ UNCHANGED <<slot, inq, header, counters, stopped, barrier, mtx, host_aio,
                 host_ctx, retired, signals, replies, orphan, want, woken,
                 phase, daemon, history>>

BadPipeCallbacksDone == TRUE

\* "all pipe callbacks complete before nng_close() returns"
PipeCallbacksDone == orphan = {} /\ \A p \in Pipes : phase[p] \in {"none", "removed"}

PolyClosed ==
  /\ main = "closePipes"
  /\ PipeCallbacksDone
  /\ main' = "freeSenders"
  /\ UNCHANGED <<want, woken>> /\ RThreadOnly

\* dispatch_dsend_free of every sender waits for its init callback; then the
\* contexts of busy slots are closed.
FreeSenders ==
  /\ main = "freeSenders"
  /\ \A p \in Pipes : slot[p].state # "NONE" \/ p \in retired => init_aio[p] = "idle"
  /\ retired' = {}
  /\ open' = open \ {slot[p].ctx : p \in Busy}
  /\ slot' = [p \in Pipes |-> NoSlot]
  /\ main' = "closeReplies"
  /\ UNCHANGED <<inq, header, counters, stopped, barrier, mtx, host_aio,
                 host_ctx, init_aio, signals, reply_active, orphan, want, woken,
                 uwq, network, history>>

BadCloseReplies ==   \* the contexts of replies still being sent stay open
  /\ main = "closeReplies"
  /\ reply_active' = {}
  /\ main' = "closeQueue"
  /\ UNCHANGED <<slot, inq, header, counters, stopped, barrier, mtx, host_aio,
                 host_ctx, init_aio, retired, signals, open, orphan, want, woken,
                 uwq, network, history>>

CloseReplies ==
  /\ main = "closeReplies"
  /\ open' = open \ {r.ctx : r \in reply_active}
  /\ reply_active' = {}
  /\ main' = "closeQueue"
  /\ UNCHANGED <<slot, inq, header, counters, stopped, barrier, mtx, host_aio,
                 host_ctx, init_aio, retired, signals, orphan, want, woken,
                 uwq, network, history>>

CloseQueue ==
  /\ main = "closeQueue"
  /\ open' = open \ ({host_ctx} \cup {inq[i] : i \in 1..Len(inq)})
  /\ inq' = <<>>
  /\ main' = "closeRep"
  /\ UNCHANGED <<slot, header, counters, stopped, barrier, mtx, host_aio,
                 host_ctx, init_aio, retired, signals, reply_active, orphan,
                 want, woken, uwq, network, history>>

\* nng_close of the REP socket blocks while a context is open.
CloseRep ==
  /\ main = "closeRep"
  /\ open = {}
  /\ main' = "freed"
  /\ UNCHANGED <<want, woken>> /\ RThreadOnly

Shutdown == \/ StopHost \/ StopRecv \/ StopSig \/ ClosePoly \/ PolyClosed
            \/ FreeSenders \/ CloseReplies \/ CloseQueue \/ CloseRep

Freed == main = "freed" /\ UNCHANGED vars

-----------------------------------------------------------------------------
(* Outside the dispatcher: the poly socket, the daemons, the host *)

NetworkOnly ==
  UNCHANGED <<slot, inq, header, counters, stopped, barrier, mtx, host_aio,
              host_ctx, retired, sig_list, orphan, rthread, woken, cancels,
              dispatched>>

\* A pipe is attached; its ADD_POST callback is due.
PipeStart(p) ==
  /\ phase[p] = "none"
  /\ InUse \/ main \in {"stopHost", "stopRecv", "stopSig", "closePoly"}
  /\ phase' = [phase EXCEPT ![p] = "attached"]
  /\ up' = up \cup {p}
  /\ NetworkOnly
  /\ UNCHANGED <<init_aio, sig_aio, replies, uwq, chan, daemon, arrived, answers>>

\* The connection is lost.  What the daemon sent last may or may not be read.
PipeDown(p) ==
  /\ up' = up \ {p}
  /\ chan' = [chan EXCEPT ![p] = <<>>]
  /\ \/ UNCHANGED arrived
     \/ arrived' = {m \in arrived : m.pipe # p}
  /\ NetworkOnly
  /\ UNCHANGED <<init_aio, sig_aio, replies, uwq, phase, answers>>

Crash(p) == MayCrash /\ p \in up /\ PipeDown(p) /\ UNCHANGED daemon

\* The poly socket takes the next send, completes its aio, and passes the
\* message on to its pipe or drops it.  The transport holds one message of a
\* pipe beyond its queue.
Route ==
  LET e == Head(uwq)
  IN /\ uwq # <<>>
     /\ uwq' = Tail(uwq)
     /\ chan' = IF e.pipe \in up /\ Len(chan[e.pipe]) <= SendDepth
                THEN [chan EXCEPT ![e.pipe] = Append(@, e.msg)] ELSE chan
     /\ init_aio' = IF e.msg = InitMsg THEN [init_aio EXCEPT ![e.pipe] = "done"]
                                       ELSE init_aio
     /\ sig_aio' = IF e.msg = Signal THEN "done" ELSE sig_aio
     /\ NetworkOnly
     /\ UNCHANGED <<replies, up, phase, daemon, arrived, answers>>

\* A daemon reads its next message.  A signal interrupts a running task, is
\* ignored between tasks, and lets a daemon go that is leaving.
DaemonTake(p) ==
  /\ p \in up /\ chan[p] # <<>>
  /\ \/ /\ Head(chan[p]) = Signal /\ daemon[p] = Leaving
        /\ PipeDown(p)
        /\ UNCHANGED daemon
     \/ /\ \/ Head(chan[p]) = Signal /\ daemon[p] # Leaving /\ UNCHANGED daemon
           \/ Head(chan[p]) = InitMsg /\ daemon' = [daemon EXCEPT ![p] = Ready]
           \/ /\ Head(chan[p]) \in Task /\ daemon[p] = Ready
              /\ daemon' = [daemon EXCEPT ![p] = Head(chan[p])]
        /\ chan' = [chan EXCEPT ![p] = Tail(@)]
        /\ NetworkOnly
        /\ UNCHANGED <<init_aio, sig_aio, replies, uwq, up, phase, arrived, answers>>

\* A daemon finishes its task and replies, once.
DaemonReply(p, marker) ==
  /\ p \in up /\ daemon[p] \in Task
  /\ arrived' = arrived \cup {[pipe |-> p, msg |-> daemon[p], marker |-> marker]}
  /\ daemon' = [daemon EXCEPT ![p] = IF marker THEN Leaving ELSE Ready]
  /\ NetworkOnly
  /\ UNCHANGED <<init_aio, sig_aio, replies, uwq, up, phase, chan, answers>>

\* The REP socket completes the send of a reply, which reaches the host.
ReplySent(r) ==
  /\ r \in reply_active /\ r.busy
  /\ main \notin {"closeQueue", "closeRep", "freed"}
  /\ reply_active' = (reply_active \ {r}) \cup {[r EXCEPT !.busy = FALSE]}
  /\ answers' = [answers EXCEPT ![r.ctx] = r.msg]
  /\ NetworkOnly
  /\ UNCHANGED <<init_aio, sig_aio, open, uwq, network>>

-----------------------------------------------------------------------------
Init ==
  /\ slot = [p \in Pipes |-> NoSlot]
  /\ inq = <<>> /\ header = <<>>
  /\ inq_count = 0 /\ outq_count = 0 /\ connections = 0 /\ count = 0
  /\ executing = 0 /\ queued_bytes = 0 /\ peak_queued_bytes = 0
  /\ stopped = FALSE /\ syncing = FALSE /\ sync_generation = 0
  /\ mtx = Free
  /\ host_aio = "recv" /\ host_ctx = Fresh
  /\ init_aio = [p \in Pipes |-> "idle"]
  /\ retired = {}
  /\ sig_aio = "idle" /\ sig_list = <<>>
  /\ reply_active = {}
  /\ orphan = {}
  /\ main = "run" /\ want = 0 /\ woken = FALSE
  /\ open = {Fresh}
  /\ uwq = <<>>
  /\ up = {}
  /\ phase = [p \in Pipes |-> "none"]
  /\ chan = [p \in Pipes |-> <<>>]
  /\ daemon = [p \in Pipes |-> NewDaemon]
  /\ arrived = {}
  /\ answers = [t \in Task |-> NoAnswer]
  /\ cancels = [id \in CancelIds |-> 0]
  /\ dispatched = <<>>

\* The header of the t-th request; the host numbers its requests.
Headers(t) == [msgid : {t}, sync : SyncKinds, len : Sizes]

Callback ==
  \/ DrainStep \/ DrainEnd
  \/ \E p \in Pipes : HandleConnect(p) \/ InitCb(p) \/ HandleDisconnect(p)
  \/ \E o \in orphan : SendConnReset(o)
  \/ RearmHost
  \/ \E m \in arrived : HandleDaemonRecv(m)
  \/ SigCb

Network ==
  \/ Route
  \/ \E p \in Pipes : DaemonTake(p)
  \/ \E r \in reply_active : ReplySent(r)

Next ==
  \/ Callback
  \/ \E h \in Headers(count + 1) : HandleHostRecv(h)
  \/ \E id \in CancelIds : CancelDirect(id)
  \/ Gate
  \/ \E n \in Targets : Wait(n)
  \/ Recheck
  \/ Stop \/ Shutdown \/ Freed
  \/ Network
  \/ \E p \in Pipes : PipeStart(p) \/ Crash(p)
  \/ \E p \in Pipes, marker \in Markers : DaemonReply(p, marker)

Spec == Init /\ [][Next]_vars

\* NNG's threads run every callback that is due, and complete what can be
\* completed; a daemon that is not lost reads, works and replies; the R thread
\* goes on when it is woken, and shutdown when what it waits for is done.
\* Arrivals, crashes, cancellations, time-outs and the stop are not fair.
Fairness ==
  /\ WF_vars(DrainStep) /\ WF_vars(DrainEnd)
  /\ WF_vars(RearmHost) /\ WF_vars(SigCb)
  /\ WF_vars(\E o \in orphan : SendConnReset(o))
  /\ WF_vars(\E m \in arrived : HandleDaemonRecv(m))
  /\ WF_vars(Route)
  /\ WF_vars(\E r \in reply_active : ReplySent(r))
  /\ WF_vars(woken /\ Recheck)
  /\ WF_vars(Shutdown)
  /\ \A p \in Pipes : /\ WF_vars(PipeStart(p))
                       /\ WF_vars(HandleConnect(p)) /\ WF_vars(InitCb(p))
                       /\ WF_vars(HandleDisconnect(p))
                       /\ WF_vars(DaemonTake(p))
                       /\ WF_vars(\E marker \in Markers : DaemonReply(p, marker))

FairSpec == Spec /\ Fairness

-----------------------------------------------------------------------------
(* Properties *)

TypeDaemons ==
  /\ slot \in [Pipes -> Slot]
  /\ stopped \in BOOLEAN /\ syncing \in BOOLEAN /\ sync_generation \in Nat

TypeQueue ==
  /\ inq \in Seq(Task) /\ header \in Seq(Header)
  /\ count \in 0..MaxTasks /\ host_ctx \in Nat

TypeCounters ==
  /\ inq_count \in Nat /\ outq_count \in Nat /\ connections \in Nat
  /\ executing \in Nat /\ queued_bytes \in Int /\ peak_queued_bytes \in Int

TypeHandlers ==
  /\ mtx \in [held : BOOLEAN, dequeued : BOOLEAN, ctx : Nat, msg : Int]
  /\ host_aio \in {"recv", "rearm", "off"}
  /\ init_aio \in [Pipes -> {"idle", "sending", "done", "failed"}]
  /\ retired \subseteq Pipes

TypeSends ==
  /\ sig_aio \in {"idle", "sending", "done"} /\ sig_list \in Seq(Pipes)
  /\ uwq \in Seq([pipe : Pipes, msg : Int])

TypeContexts ==
  /\ reply_active \subseteq [ctx : Task, msg : Int, busy : BOOLEAN]
  /\ orphan \subseteq [ctx : Task, close : BOOLEAN]
  /\ open \subseteq Nat

TypeRThread ==
  /\ main \in {"run", "gate", "wait", "stopHost", "stopRecv", "stopSig",
               "closePoly", "closePipes", "freeSenders", "closeReplies",
               "closeQueue", "closeRep", "freed"}
  /\ want \in Nat /\ woken \in BOOLEAN

TypeNetwork ==
  /\ up \subseteq Pipes
  /\ phase \in [Pipes -> {"none", "attached", "added", "removed"}]
  /\ chan \in [Pipes -> Seq(Int)]
  /\ daemon \in [Pipes -> Int]
  /\ arrived \subseteq [pipe : Pipes, msg : Task, marker : BOOLEAN]

TypeHistory ==
  /\ answers \in [Task -> Int]
  /\ cancels \in [CancelIds -> Nat]
  /\ dispatched \in Seq([pipe : Pipes, task : Task])

\* Every variable has its type.  The counters are natural numbers: the C ints
\* never go below zero, whatever order connects, replies, disconnects and
\* cancellations come in.
TypeOK ==
  /\ TypeDaemons /\ TypeQueue /\ TypeCounters /\ TypeHandlers /\ TypeSends
  /\ TypeContexts /\ TypeRThread /\ TypeNetwork /\ TypeHistory

\* Nothing of the dispatcher has been torn down yet.
Intact == main \notin {"closeReplies", "closeQueue", "closeRep", "freed"}

Queued    == {inq[i] : i \in 1..Len(inq)}
Running   == {slot[p].ctx : p \in Busy}
Replying  == {r.ctx : r \in reply_active}
Orphaned  == {o.ctx : o \in orphan}
Finishing == IF mtx.ctx # Fresh THEN {mtx.ctx} ELSE {}

\* Every open context of the REP socket is in exactly one place: to receive,
\* in the queue, with one busy daemon, with a handler or with one reply holder.
\* Whatever the callbacks do between them, none is lost (dispatch_shutdown's
\* nng_close would block on it) and none is answered or closed twice.
ContextHeldOnce ==
  Intact =>
    /\ open \ {Fresh} = Queued \cup Running \cup Replying \cup Orphaned \cup Finishing
    /\ Cardinality(open \ {Fresh}) =
         Len(inq) + Cardinality(Busy) + Cardinality(reply_active)
           + Cardinality(orphan) + Cardinality(Finishing)

\* What rnng_dispatcher_info reports are the numbers of daemons past their
\* init, of queued, of running and of finished tasks, in every state: each
\* counter moves in the same locked section as the state it counts.
CountersExact ==
  Intact =>
    /\ outq_count = Cardinality(Connected)
    /\ executing = Cardinality(Busy)
    /\ inq_count = Len(inq)
    /\ count - inq_count - executing >= 0

\* The sum of f[x] over the x in S is the number of the units that make it up.
Units(S, f) == UNION {{x} \X (1..f[x]) : x \in S}

SumOver(S, f) == Cardinality(Units(S, f))

\* d->queued_bytes, which the gate compares with its budget, is the size of the
\* messages in the queue after any sequence of enqueues, drains and
\* cancellations, and never above the peak that dispatch_enqueue keeps.
QueuedBytesExact ==
  Intact => /\ queued_bytes = SumOver(Queued, [t \in Queued |-> header[t].len])
            /\ queued_bytes <= peak_queued_bytes

\* No request waits in the queue while a daemon could take it: every way in
\* which a daemon becomes eligible drains the queue under the same lock.
WorkConserving ==
  mtx = Free /\ ~stopped => inq = <<>> \/ IdleDaemons = {}

\* A daemon that was given a sync task gets nothing more until a task that is
\* not a sync task has been given to some other daemon.
SyncBarrier ==
  \A i, j \in 1..Len(dispatched) :
    /\ i < j
    /\ dispatched[i].pipe = dispatched[j].pipe
    /\ header[dispatched[i].task].sync
    => \E k \in (i + 1)..(j - 1) : ~header[dispatched[k].task].sync

\* dispatch_start_send's wait "therefore never blocks": the last send to a
\* daemon that may be given a task is complete.
StartSendNeverBlocks ==
  \A p \in Pipes : slot[p].state = "IDLE" => ~TaskSending(p)

\* A sender's aios are in use only while the sender is in a slot or retired.
SenderNotFreed ==
  main # "freed" =>
  \A p \in Pipes : init_aio[p] # "idle" \/ TaskSending(p)
                     => slot[p].state # "NONE" \/ p \in retired

\* The task of a busy daemon is on its way to it, with it, or on its way back.
UnderWay(p) ==
  LET t == slot[p].ctx
  IN \/ \E i \in 1..Len(uwq) : uwq[i] = [pipe |-> p, msg |-> t]
     \/ \E i \in 1..Len(chan[p]) : chan[p][i] = t
     \/ daemon[p] = t
     \/ \E m \in arrived : m.pipe = p /\ m.msg = t

\* How often the host has cancelled so far.
Cancellations == SumOver(CancelIds, cancels)

\* The poly socket drops no task at a full send queue, which would leave its slot
\* busy for as long as the daemon is connected, before there have been more
\* cancellations than the queue is deep: each puts at most one signal in a task's
\* way, the init message is not in its way together with a signal, and the
\* transport holds one message more than the queue.
TaskNotDropped ==
  ~stopped /\ Cancellations <= SendDepth => \A p \in Busy \cap up : UnderWay(p)

\* The R thread never sleeps in the gate or in wait with its condition met and
\* no wake-up on the way: the 400 ms poll is not needed for progress.
NoLostWakeup == Sleeping /\ ~woken /\ mtx = Free => Blocked(main)

\* A request is answered, or its context closed without an answer, only when it
\* was cancelled or the dispatcher stopped: no other interleaving of callbacks
\* leaves the host waiting for good.
NoRequestAbandoned ==
  ~stopped /\ ~MayFail =>
    \A t \in 1..count : \/ t \in open
                        \/ answers[t] # NoAnswer
                        \/ t \in CancelIds /\ cancels[t] > 0

\* When dispatch_shutdown closes the REP socket no context is left open.
RepCloseNeverBlocks == main = "closeRep" => open = {}

\* After dispatch_shutdown has freed the dispatcher nothing is left to run.
NothingAfterFree ==
  main = "freed" => /\ \A p \in Pipes : init_aio[p] = "idle" /\ phase[p] \in {"none", "removed"}
                    /\ orphan = {} /\ arrived = {} /\ uwq = <<>>
                    /\ sig_aio = "idle" /\ host_aio = "off" /\ mtx = Free

\* A comment on the send operations: "at most one task send plus one zero-length
\* signal in flight per daemon (the pair1-poly per-pipe send queue has depth 2
\* and drops silently on overflow)".
OneTaskOneSignalInFlight ==
  \A p \in Pipes :
    LET tasks   == {i \in 1..Len(chan[p]) : chan[p][i] \in Task}
        sigs == {i \in 1..Len(chan[p]) : chan[p][i] = Signal}
    IN Cardinality(tasks) <= 1 /\ Cardinality(sigs) <= 1

\* Every request the host makes is answered, or its context closed, as long as
\* daemons are left: a lost daemon, a cancellation or a departing daemon never
\* strands the requests of others.
EveryRequestSettled ==
  \A t \in Task :
    t <= count ~> \/ t \notin open
                  \/ answers[t] # NoAnswer
                  \/ \A p \in Pipes : phase[p] = "removed"
                  \/ stopped

\* Stopping the dispatcher always ends: no aio, pipe callback or open context
\* keeps dispatch_shutdown waiting.
StopCompletes == main = "stopHost" ~> main = "freed"

\* The dispatcher implements the task pool.
Pool == INSTANCE TaskPool WITH
  Workers  <- Pipes,
  Lossy    <- MayFail,
  accepted <- count,
  waiting  <- inq,
  running  <- {[worker |-> p, task |-> slot[p].ctx] : p \in Busy},
  settled  <- {[task |-> r.ctx, msg |-> r.msg] : r \in {a \in reply_active : a.busy}}
                \cup {[task |-> o.ctx, msg |-> ConnReset] : o \in orphan}
                \cup {[task |-> t, msg |-> mtx.msg] : t \in Finishing},
  answer   <- answers,
  shut     <- stopped

\* Requests are started in the order they arrive, each by one daemon that has
\* nothing else to do and only when nothing is ahead of it, and answered once,
\* with their own result or with the connection-reset error.
ImplementsPool == Pool!Spec
=============================================================================
