----------------------------- MODULE HttpServer -----------------------------
(***************************************************************************)
(* The HTTP and WebSocket server of src/src/server.c.                      *)
(*                                                                         *)
(* NNG's threads accept connections, take requests and receive messages;   *)
(* what R must do about them they post to R's event loop (later2), which   *)
(* runs the posted calls in order on the R thread.  The R program, at top  *)
(* level or inside one of its callbacks, sends, closes connections and     *)
(* stops or closes the server.  Lists and states are under srv->mtx, but   *)
(* srv->state is read without it, and calls are posted after it is left.   *)
(*                                                                         *)
(* The server has one WebSocket handler, one streaming handler and one     *)
(* callback handler.  A step is a section under the lock, or the posting   *)
(* or reading between two of them.                                         *)
(***************************************************************************)
EXTENDS Integers, FiniteSets, SequencesExt

CONSTANTS
  Ws,           \* WebSocket connections peers may open
  Streams,      \* requests to the streaming handler, one connection each
  Reqs,         \* requests to the callback handler
  MaxMsgs,      \* bound: messages a WebSocket receives
  Quiet,        \* does R close connections and the server only while no callback
                \* is between an event and the call it posts?
  Top           \* no call: R is at top level, or there is no connection

Conns    == Ws \cup Streams
Exchange == Streams \cup Reqs

ASSUME HttpServerAssumption ==
  /\ IsFiniteSet(Conns)
  /\ Ws \cap Streams = {} /\ Reqs \cap Conns = {}
  /\ MaxMsgs \in Nat
  /\ Quiet \in BOOLEAN
  /\ Top \notin Conns \cup Reqs

VARIABLES
  state,        \* srv->state
  handle,       \* does R's external pointer still name the server?
  gone,         \* has http_server_cleanup freed it?
  serving,      \* does NNG's HTTP server hand requests to the handlers?
  accept,       \* accept_aio, or where its callback is
  accepted,     \* the connection that callback is about
  handler,      \* where the handler callback of each exchange is
  conn,         \* conn->state, "none" before and "freed" after its life
  conns,        \* the list info->conns of both handlers
  opened,       \* connections whose xptr is set
  scheduled,    \* connections with onclose_scheduled
  recv,         \* recv_aio of each WebSocket, or where its callback is
  received,     \* messages each WebSocket received
  wire,         \* what was written to each stream
  pending,      \* srv->pending_reqs
  cancelled,    \* requests marked as cancelled
  finished,     \* history: times nng_aio_finish was called for a request
  queue,        \* R's event loop
  frame,        \* the call of the event loop that R is in
  at,           \* what R is doing: its own code, or a step of ours
  log           \* history: the R callbacks that ran for each connection

server   == <<state, handle, gone, serving>>
accepts  == <<accept, accepted>>
life     == <<conn, conns, opened, scheduled>>
receives == <<recv, received>>
requests == <<pending, cancelled, finished>>
rthread  == <<frame, at>>
vars == <<state, handle, gone, serving, accept, accepted, handler, conn, conns,
          opened, scheduled, recv, received, wire, pending, cancelled, finished,
          queue, frame, at, log>>

Calls == {"onopen", "onmessage", "onclose", "onrequest", "handler", "cleanup"}
Call(fn, arg, n) == [fn |-> fn, arg |-> arg, n |-> n]
Idle == Call("none", Top, 0)

TypeOK ==
  /\ state \in {"created", "started", "stopped"}
  /\ handle \in BOOLEAN /\ gone \in BOOLEAN /\ serving \in BOOLEAN
  /\ accept \in {"off", "armed", "linked", "rearm"}
  /\ accepted \in Ws \cup {Top}
  /\ handler \in [Exchange -> {"none", "called", "checked", "linked", "done", "astray"}]
  /\ conn \in [Conns -> {"none", "open", "closing", "closed", "freed"}]
  /\ opened \subseteq conns /\ conns \subseteq Conns /\ scheduled \subseteq Conns
  /\ recv \in [Ws -> {"idle", "pending", "got", "rearm", "failed", "post"}]
  /\ received \in [Ws -> 0..MaxMsgs]
  /\ wire \in [Streams -> {"blank", "headers", "ended"}]
  /\ pending \subseteq Reqs /\ cancelled \subseteq Reqs
  /\ finished \in [Reqs -> Nat]
  /\ \A i \in 1..Len(queue) : queue[i].fn \in Calls
  /\ at \in {"user", "send", "http", "pending", "accept", "conns", "wait",
             "streams", "free"}
  /\ log \in [Conns -> Seq(Int)]

Init ==
  /\ state = "created" /\ handle = TRUE /\ gone = FALSE /\ serving = FALSE
  /\ accept = "off" /\ accepted = Top
  /\ handler = [x \in Exchange |-> "none"]
  /\ conn = [c \in Conns |-> "none"]
  /\ conns = {} /\ opened = {} /\ scheduled = {}
  /\ recv = [w \in Ws |-> "idle"] /\ received = [w \in Ws |-> 0]
  /\ wire = [s \in Streams |-> "blank"]
  /\ pending = {} /\ cancelled = {} /\ finished = [q \in Reqs |-> 0]
  /\ queue = <<>> /\ frame = Idle /\ at = "user"
  /\ log = [c \in Conns |-> <<>>]

-----------------------------------------------------------------------------
(* Helpers.  An operator named Bad... is the operator after it with a bug a   *)
(* change to the code could introduce; no definition uses it.                *)

later2(call) == queue' = Append(queue, call)

Set(f, x, v) == [f EXCEPT ![x] = v]

BadAborted(closing) == recv

\* nng_aio_cancel, nng_stream_close: a receive that waits ends in an error.
Aborted(closing) == [w \in Ws |-> IF w \in closing /\ recv[w] = "pending" THEN "failed" ELSE recv[w]]

BadCloseLocked(cs) ==
  LET open == {c \in cs \cap Ws : conn[c] = "open"}
  IN /\ conn' = [c \in Conns |-> IF c \in open THEN "closing" ELSE conn[c]]
     /\ recv' = Aborted(open)

\* conn_close_locked for each of a set of connections
CloseLocked(cs) ==
  LET open == {c \in cs : conn[c] = "open"}
  IN /\ conn' = [c \in Conns |-> IF c \in open THEN "closing" ELSE conn[c]]
     /\ recv' = Aborted(open)

Posted(cs, fn) == {[i \in 1..Len(order) |-> Call(fn, order[i], 0)] : order \in SetToSeqs(cs)}

BadCloseAll(cs, last) ==
  /\ CloseLocked(cs)
  /\ scheduled' = scheduled \cup cs
  /\ \E calls \in Posted(cs, "onclose") : queue' = queue \o calls \o last
  /\ UNCHANGED <<conns, opened, received>>

\* http_server_stop for the connections of one handler: they are closed and
\* on_close is posted for those that have no such call yet; last comes next.
CloseAll(cs, last) ==
  /\ CloseLocked(cs)
  /\ scheduled' = scheduled \cup cs
  /\ \E calls \in Posted(cs \ scheduled, "onclose") : queue' = queue \o calls \o last
  /\ UNCHANGED <<conns, opened, received>>

-----------------------------------------------------------------------------
(* NNG's threads: accepting WebSockets.                                      *)

\* ws_accept_cb, up to the end of its locked section
Accept(w) ==
  /\ accept = "armed" /\ conn[w] = "none"
  /\ accept' = "linked" /\ accepted' = w
  /\ conn' = Set(conn, w, "open")
  /\ conns' = conns \cup {w}
  /\ UNCHANGED <<server, handler, opened, scheduled, receives, wire, requests, queue,
                 rthread, log>>

PostOpen ==
  /\ accept = "linked"
  /\ later2(Call("onopen", accepted, 0))
  /\ accept' = "rearm" /\ accepted' = Top
  /\ UNCHANGED <<server, handler, life, receives, wire, requests, rthread, log>>

Rearm ==
  /\ accept = "rearm"
  /\ accept' = IF state # "stopped" THEN "armed" ELSE "off"
  /\ UNCHANGED <<server, accepted, handler, life, receives, wire, requests, queue,
                 rthread, log>>

-----------------------------------------------------------------------------
(* NNG's threads: receiving.                                                 *)

\* NNG completes the receive: with a message, or because the peer left.
RecvDone(w) ==
  /\ recv[w] = "pending"
  /\ \/ /\ received[w] < MaxMsgs
        /\ recv' = Set(recv, w, "got")
        /\ received' = Set(received, w, received[w] + 1)
     \/ /\ recv' = Set(recv, w, "failed")
        /\ UNCHANGED received
  /\ UNCHANGED <<server, accepts, handler, life, wire, requests, queue, rthread, log>>

\* ws_recv_cb with a message, which is lost when the record that should carry
\* it cannot be allocated
PostMessage(w) ==
  /\ recv[w] = "got"
  /\ \/ later2(Call("onmessage", w, received[w]))
     \/ UNCHANGED queue
  /\ recv' = Set(recv, w, "rearm")
  /\ UNCHANGED <<server, accepts, handler, life, received, wire, requests, rthread, log>>

RecvAgain(w) ==
  /\ recv[w] = "rearm"
  /\ recv' = Set(recv, w, IF conn[w] = "open" THEN "pending" ELSE "idle")
  /\ UNCHANGED <<server, accepts, handler, life, received, wire, requests, queue,
                 rthread, log>>

\* ws_recv_cb with an error: conn_close, in its two parts
RecvClose(w) ==
  /\ recv[w] = "failed"
  /\ conn' = Set(conn, w, IF conn[w] = "open" THEN "closing" ELSE conn[w])
  /\ scheduled' = scheduled \cup {w}
  /\ recv' = Set(recv, w, IF w \in scheduled THEN "idle" ELSE "post")
  /\ UNCHANGED <<server, accepts, handler, conns, opened, received, wire, requests,
                 queue, rthread, log>>

PostClose(w) ==
  /\ recv[w] = "post"
  /\ later2(Call("onclose", w, 0))
  /\ recv' = Set(recv, w, "idle")
  /\ UNCHANGED <<server, accepts, handler, life, received, wire, requests, rthread, log>>

-----------------------------------------------------------------------------
(* NNG's threads: http_handler_cb and stream_handler_cb.                      *)

Enter(x) ==
  /\ serving /\ handler[x] = "none"
  /\ handler' = Set(handler, x, "called")
  /\ UNCHANGED <<server, accepts, life, receives, wire, requests, queue, rthread, log>>

Finish(q) == finished' = Set(finished, q, finished[q] + 1)

\* The state is read without the lock.  The exchange ends here if the server
\* has been stopped, or if an allocation fails.  When the server has been freed
\* what is read is undefined: the callback, if it is not led to end, goes astray
\* with the freed server and is not followed.
Check(x) ==
  /\ handler[x] = "called"
  /\ \/ /\ state # "stopped"
        /\ handler' = Set(handler, x, "checked")
        /\ UNCHANGED finished
     \/ /\ gone
        /\ handler' = Set(handler, x, "astray")
        /\ UNCHANGED finished
     \/ /\ handler' = Set(handler, x, "done")
        /\ IF x \in Reqs THEN Finish(x) ELSE UNCHANGED finished
  /\ UNCHANGED <<server, accepts, life, receives, wire, pending, cancelled, queue,
                 rthread, log>>

Link(x) ==
  /\ handler[x] = "checked"
  /\ handler' = Set(handler, x, "linked")
  /\ IF x \in Reqs
     THEN pending' = pending \cup {x} /\ UNCHANGED <<conn, conns>>
     ELSE conn' = Set(conn, x, "open") /\ conns' = conns \cup {x} /\ UNCHANGED pending
  /\ UNCHANGED <<server, accepts, opened, scheduled, receives, wire, cancelled,
                 finished, queue, rthread, log>>

PostRequest(x) ==
  /\ handler[x] = "linked"
  /\ handler' = Set(handler, x, "done")
  /\ later2(Call(IF x \in Reqs THEN "handler" ELSE "onrequest", x, 0))
  /\ UNCHANGED <<server, accepts, life, receives, wire, requests, rthread, log>>

-----------------------------------------------------------------------------
(* The R program.                                                            *)

InCode == at = "user"

Queued(fn, c) == \E i \in 1..Len(queue) : queue[i].fn = fn /\ queue[i].arg = c

\* What Quiet asks for, where R stops the server, frees it, and closes
\* connections: no stream is between its handler callback's look at the state
\* and on_request; no handler callback has its call still to post; no message
\* that arrived has.
QuietStop ==
  \A s \in Streams : handler[s] \notin {"checked", "linked"} /\ ~Queued("onrequest", s)

QuietClose == \A x \in Exchange : handler[x] \notin {"checked", "linked"}

QuietConns(cs) == \A w \in cs \cap Ws : recv[w] # "got"

\* rnng_http_server_start.  A start that fails changes nothing here.
Start ==
  /\ InCode /\ handle /\ state = "created"
  /\ state' = "started" /\ serving' = TRUE
  /\ accept' = "armed"
  /\ UNCHANGED <<handle, gone, accepted, handler, life, receives, wire, requests, queue,
                 rthread, log>>

\* rnng_http_server_stop
Stop ==
  /\ InCode /\ handle /\ state = "started"
  /\ Quiet => QuietStop
  /\ state' = "stopped" /\ at' = "http"
  /\ UNCHANGED <<handle, gone, serving, accepts, handler, life, receives, wire, requests,
                 queue, frame, log>>

\* rnng_http_server_close, or the finalizer of the external pointer
Close ==
  /\ InCode /\ handle
  /\ Quiet => QuietStop /\ QuietClose
  /\ handle' = FALSE
  /\ IF state = "started"
     THEN /\ state' = "stopped" /\ at' = "http"
          /\ UNCHANGED queue
     ELSE /\ later2(Call("cleanup", Top, 0))
          /\ UNCHANGED <<state, at>>
  /\ UNCHANGED <<gone, serving, accepts, handler, life, receives, wire, requests,
                 frame, log>>

\* rnng_ws_send, up to its wait
WsSend(w) ==
  /\ InCode /\ w \in opened
  /\ at' = "send"
  /\ UNCHANGED <<server, accepts, handler, life, receives, wire, requests, queue, frame, log>>

\* NNG completes the send: the peer takes it, or the stream is closed.
SendDone ==
  /\ at = "send"
  /\ at' = "user"
  /\ UNCHANGED <<server, accepts, handler, life, receives, wire, requests, queue, frame, log>>

\* rnng_stream_conn_send: headers before the first chunk.  NNG refuses to write
\* to a connection that is closed; any other write may fail.
StreamSend(s) ==
  /\ InCode /\ s \in opened /\ conn[s] = "open"
  /\ wire' = Set(wire, s, "headers")
  /\ UNCHANGED <<server, accepts, handler, life, receives, requests, queue, rthread, log>>

\* rnng_ws_close and rnng_conn_close: a stream that is open and has headers
\* gets its terminator, if it can be written.
CloseConn(c) ==
  /\ InCode /\ c \in opened
  /\ Quiet => QuietConns({c})
  /\ \/ UNCHANGED wire
     \/ /\ c \in Streams /\ conn[c] = "open" /\ wire[c] = "headers"
        /\ wire' = Set(wire, c, "ended")
  /\ CloseLocked({c})
  /\ scheduled' = scheduled \cup {c}
  /\ IF c \in scheduled THEN UNCHANGED queue ELSE later2(Call("onclose", c, 0))
  /\ UNCHANGED <<server, accepts, handler, conns, opened, received, requests, rthread, log>>

-----------------------------------------------------------------------------
(* http_server_stop, on the R thread.                                        *)

\* nng_http_server_stop.  Every WebSocket listener holds a start of the same
\* NNG server: with one, connections that are kept alive are still served.
StopHttp ==
  /\ at = "http"
  /\ serving' = (Ws # {})
  /\ at' = "pending"
  /\ UNCHANGED <<state, handle, gone, accepts, handler, life, receives, wire, requests,
                 queue, frame, log>>

BadStopPending ==
  /\ at = "pending"
  /\ cancelled' = cancelled \cup pending
  /\ UNCHANGED finished
  /\ at' = "accept"
  /\ UNCHANGED <<server, accepts, handler, life, receives, wire, pending, queue, frame, log>>

\* http_cancel_pending_requests
StopPending ==
  /\ at = "pending"
  /\ cancelled' = cancelled \cup pending
  /\ finished' = [q \in Reqs |-> IF q \in pending THEN finished[q] + 1 ELSE finished[q]]
  /\ at' = "accept"
  /\ UNCHANGED <<server, accepts, handler, life, receives, wire, pending, queue, frame, log>>

BadStopAccept ==
  /\ at = "accept"
  /\ accept' = IF accept = "armed" THEN "off" ELSE accept
  /\ at' = "conns"
  /\ UNCHANGED <<server, accepted, handler, life, receives, wire, requests, queue, frame, log>>

\* nng_aio_stop of the accept: it waits for a callback under way.
StopAccept ==
  /\ at = "accept" /\ accept \in {"off", "armed"}
  /\ accept' = "off"
  /\ at' = "conns"
  /\ UNCHANGED <<server, accepted, handler, life, receives, wire, requests, queue, frame, log>>

StopConns ==
  /\ at = "conns"
  /\ Quiet => QuietConns(conns)
  /\ CloseAll(conns \cap Ws, <<>>)
  /\ at' = "wait"
  /\ UNCHANGED <<server, accepts, handler, wire, requests, frame, log>>

\* nng_aio_wait for each receive
StopWait ==
  /\ at = "wait" /\ \A w \in conns \cap Ws : recv[w] = "idle"
  /\ at' = "streams"
  /\ UNCHANGED <<server, accepts, handler, life, receives, wire, requests, queue, frame, log>>

\* The streaming handler has no accept and no receives.  In the finalizer the
\* cleanup is posted next.
StopStreams ==
  /\ at = "streams"
  /\ at' = "user"
  /\ CloseAll(conns \cap Streams, IF handle THEN <<>> ELSE <<Call("cleanup", Top, 0)>>)
  /\ UNCHANGED <<server, accepts, handler, wire, requests, frame, log>>

-----------------------------------------------------------------------------
(* The event loop: one action for each function that is posted, up to the R   *)
(* callback it runs, if it does, and one for what comes after that.           *)

Due(fn) == at = "user" /\ frame = Idle /\ queue # <<>> /\ Head(queue).fn = fn

Pop == queue' = Tail(queue)

Runs(c, entry) ==
  /\ frame' = Head(queue)
  /\ log' = [log EXCEPT ![c] = Append(@, entry)]

\* ws_invoke_onopen and stream_invoke_onrequest on a connection that is open
RunOnOpen ==
  /\ Due("onopen") \/ Due("onrequest")
  /\ LET c == Head(queue).arg
     IN conn[c] = "open" /\ Runs(c, 0) /\ opened' = opened \cup {c}
  /\ Pop
  /\ UNCHANGED <<server, accepts, handler, conn, conns, scheduled, receives, wire,
                 requests, at>>

\* ws_invoke_onmessage
RunOnMessage ==
  /\ Due("onmessage") /\ conn[Head(queue).arg] = "open"
  /\ Runs(Head(queue).arg, Head(queue).n)
  /\ Pop
  /\ UNCHANGED <<server, accepts, handler, life, receives, wire, requests, at>>

\* ws_invoke_onopen, ws_invoke_onmessage on a connection that is not
Skip ==
  /\ Due("onopen") \/ Due("onmessage")
  /\ conn[Head(queue).arg] # "open"
  /\ Pop
  /\ UNCHANGED <<server, accepts, handler, life, receives, wire, requests, rthread, log>>

BadCleanup(c) ==
  /\ conns' = conns \ {c}
  /\ conn' = Set(conn, c, "closed")
  /\ UNCHANGED opened
  /\ recv' = Aborted({c})
  /\ at' = "free"

\* The first part of conn_cleanup, up to the frees, which wait for callbacks.
Cleanup(c) ==
  /\ conns' = conns \ {c}
  /\ conn' = Set(conn, c, "closed")
  /\ opened' = opened \ {c}
  /\ recv' = Aborted({c})
  /\ at' = "free"

BadRunOnClose ==
  /\ Due("onclose")
  /\ Runs(Head(queue).arg, -1)
  /\ Pop
  /\ UNCHANGED <<server, accepts, handler, life, receives, wire, requests, at>>

\* conn_invoke_onclose
RunOnClose ==
  /\ Due("onclose") /\ Head(queue).arg \in opened
  /\ Runs(Head(queue).arg, -1)
  /\ Pop
  /\ UNCHANGED <<server, accepts, handler, life, receives, wire, requests, at>>

\* conn_invoke_onclose without an xptr; stream_invoke_onrequest when closed
RunCleanup ==
  /\ \/ Due("onclose") /\ Head(queue).arg \notin opened
     \/ Due("onrequest") /\ conn[Head(queue).arg] # "open"
  /\ frame' = Head(queue)
  /\ Cleanup(Head(queue).arg)
  /\ Pop
  /\ UNCHANGED <<server, accepts, handler, scheduled, received, wire, requests, log>>

BadRunHandler ==
  /\ Due("handler")
  /\ LET q == Head(queue).arg
     IN /\ pending' = pending \ {q}
        /\ frame' = Head(queue)
  /\ Pop
  /\ UNCHANGED <<server, accepts, handler, life, receives, wire, cancelled, finished, at, log>>

\* http_invoke_callback
RunHandler ==
  /\ Due("handler")
  /\ LET q == Head(queue).arg
     IN /\ pending' = pending \ {q}
        /\ frame' = IF q \in cancelled THEN Idle ELSE Head(queue)
  /\ Pop
  /\ UNCHANGED <<server, accepts, handler, life, receives, wire, cancelled, finished, at, log>>

\* The R callback returns to the function that called it.
ReturnOpen ==
  /\ at = "user" /\ frame.fn \in {"onopen", "onmessage", "onrequest"}
  /\ recv' = IF frame.fn = "onopen" /\ conn[frame.arg] = "open"
             THEN Set(recv, frame.arg, "pending") ELSE recv
  /\ frame' = Idle
  /\ UNCHANGED <<server, accepts, handler, life, received, wire, requests, queue, at, log>>

ReturnHandler ==
  /\ at = "user" /\ frame.fn = "handler"
  /\ Finish(frame.arg)
  /\ frame' = Idle
  /\ UNCHANGED <<server, accepts, handler, life, receives, wire, pending, cancelled, queue,
                 at, log>>

ReturnClose ==
  /\ at = "user" /\ frame.fn = "onclose"
  /\ Cleanup(frame.arg)
  /\ UNCHANGED <<server, accepts, handler, scheduled, received, wire, requests, queue,
                 frame, log>>

\* The frees at the end of conn_cleanup: nng_aio_free waits for the receive's
\* callback.
Free ==
  /\ at = "free"
  /\ frame.arg \in Ws => recv[frame.arg] = "idle"
  /\ conn' = Set(conn, frame.arg, "freed")
  /\ frame' = Idle /\ at' = "user"
  /\ UNCHANGED <<server, accepts, handler, conns, opened, scheduled, receives, wire,
                 requests, queue, log>>

\* http_server_cleanup: what is left is freed with the server.  It waits for no
\* handler callback.
FreeServer ==
  /\ Due("cleanup") /\ Pop
  /\ gone' = TRUE /\ serving' = FALSE
  /\ conn' = [c \in Conns |-> IF c \in conns THEN "freed" ELSE conn[c]]
  /\ conns' = {} /\ opened' = opened \ conns
  /\ UNCHANGED <<state, handle, accepts, handler, scheduled, receives, wire, requests,
                 rthread, log>>

-----------------------------------------------------------------------------
Network ==
  \/ \E w \in Ws : Accept(w) \/ RecvDone(w)
  \/ \E x \in Exchange : Enter(x)

Callback ==
  \/ PostOpen \/ Rearm
  \/ \E w \in Ws : PostMessage(w) \/ RecvAgain(w) \/ RecvClose(w) \/ PostClose(w)
  \/ \E x \in Exchange : Check(x) \/ Link(x) \/ PostRequest(x)

Program ==
  \/ Start \/ Stop \/ Close \/ SendDone
  \/ \E w \in Ws : WsSend(w)
  \/ \E s \in Streams : StreamSend(s)
  \/ \E c \in Conns : CloseConn(c)

Stopping == StopHttp \/ StopPending \/ StopAccept \/ StopConns \/ StopWait \/ StopStreams

Loop == RunOnOpen \/ RunOnMessage \/ Skip \/ RunOnClose \/ RunCleanup \/ RunHandler
          \/ FreeServer

Return == ReturnOpen \/ ReturnHandler \/ ReturnClose \/ Free

Next == Network \/ Callback \/ Program \/ Stopping \/ Loop \/ Return

Spec == Init /\ [][Next]_vars

\* NNG's threads go on as long as a callback is due and peers take what they
\* are sent.  The R program does finitely many things before a callback
\* returns, or before it goes on with the event loop.
Fairness ==
  /\ WF_vars(Callback) /\ WF_vars(SendDone) /\ WF_vars(Stopping)
  /\ SF_vars(Loop) /\ SF_vars(Return)

FairSpec == Spec /\ Fairness

-----------------------------------------------------------------------------
(* Properties.                                                               *)

\* A connection that is freed is known to nobody: no posted call names it, its
\* receive's callback is over, and R neither holds it nor is in a call about it
\* (CONN_STATE_CLOSED is "fully closed, safe to free", nanonext.h:273).
SafeToFree ==
  \A c \in Conns : conn[c] = "freed" =>
    /\ \A i \in 1..Len(queue) : queue[i].arg # c
    /\ frame.arg # c /\ c \notin opened
    /\ c \in Ws => recv[c] = "idle"

\* When the server is freed no call about it is left: none is posted, and no
\* callback on NNG's threads has one still to post (http_server_cleanup "runs
\* after all pending later2 callbacks due to FIFO ordering", server.c:341).  A
\* handler callback that has yet to look at the server's state is not covered:
\* http_server_cleanup waits for none, and that look may find it freed.
CleanupIsLast ==
  gone =>
    /\ queue = <<>> /\ accept = "off"
    /\ \A w \in Ws : recv[w] = "idle"
    /\ \A x \in Exchange : handler[x] \notin {"checked", "linked"}

\* The aio of a request is finished at most once: by the stop that cancels it,
\* by the callback that answers it, or at once (http_cancel_pending_requests
\* against http_invoke_callback).
FinishedOnce == \A q \in Reqs : finished[q] <= 1

\* Nothing is written to a stream after its terminator (rnng_conn_close,
\* rnng_stream_conn_send).
NothingAfterEnd == [][\A s \in Streams : wire[s] = "ended" => wire'[s] = "ended"]_vars

\* R's callbacks for a connection run in the order ConnLife allows: open, then
\* messages in order, then close once.
Life == INSTANCE ConnLife
ImplementsConnLife == Life!Spec

\* A request that reached the handler is finished, when R stops or closes the
\* server in the meantime as well, unless its callback came so late that it
\* found the server freed.
RequestFinished ==
  \A q \in Reqs : handler[q] = "called" ~> finished[q] = 1 \/ handler[q] = "astray"

\* Once a stop has begun it returns, waiting only for what ends by itself, and
\* every connection is closed and freed by the event loop.
StopFreesConns == state = "stopped" ~> at = "user" /\ conns = {}

=============================================================================
