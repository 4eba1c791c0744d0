-------------------------- MODULE HttpCleanupProofs --------------------------
(***************************************************************************)
(* What holds of the server's cleanup when R closes connections and the    *)
(* server only while no callback is between an event and the call it       *)
(* posts (Quiet): a connection is freed when nobody knows it, the server   *)
(* when no call about it is left, posted or still to be posted.            *)
(*                                                                         *)
(* The call that closes a connection is the last one about it, and the     *)
(* cleanup of the server the last of all (Finally): whoever could still    *)
(* post a call is ruled out by Ended, Requested, Stopped and Cleaned.      *)
(***************************************************************************)
EXTENDS HttpLifeProofs

\* What may come after a call in the queue.
Finally ==
  [a \in Posts |->
     {b \in Posts : a.fn # "cleanup" /\ (a.fn = "onclose" => b.arg # a.arg)}]

\* The closing call of c is posted, or running.
Closing(c) ==
  \/ \E e \in posted : e.fn = "onclose" /\ e.arg = c
  \/ frame.fn = "onclose" /\ frame.arg = c

\* Nobody has a call about a closing connection still to post.
Ended ==
  \A c \in Conns : Closing(c) \/ conn[c] \in {"closed", "freed"} =>
    /\ c \in scheduled /\ accepted # c
    /\ c \in Ws => recv[c] \notin {"got", "post"}

\* No call follows the closing call.
Silent ==
  \A c \in Conns :
    /\ conn[c] \in {"closed", "freed"} \/ (frame.fn = "onclose" /\ frame.arg = c) =>
         \A e \in posted : e.arg # c
    /\ conn[c] = "freed" => frame.arg # c

\* A stream whose request R has not seen yet is open.
Requested ==
  /\ \A s \in Streams : handler[s] = "linked" => conn[s] = "open"
  /\ \A e \in posted : e.fn = "onrequest" => conn[e.arg] = "open"

\* Every connection that is closing has its closing call on the way.
Covered ==
  \A c \in Conns : conn[c] = "closing" => Closing(c) \/ (c \in Ws /\ recv[c] = "post")

\* A WebSocket receives while it is open, and its receive is over when it is freed.
Receiving ==
  \A w \in Ws :
    /\ recv[w] = "pending" => conn[w] = "open"
    /\ w \in conns \/ recv[w] = "idle" \/ (at = "free" /\ frame.arg = w)

Steps == {"http", "pending", "accept", "conns", "wait", "streams"}

\* What each step of http_server_stop has put an end to.
Stopped ==
  /\ state = "created" =>
       /\ ~serving /\ accept = "off" /\ conns = {} /\ at \notin Steps
       /\ \A x \in Exchange : handler[x] = "none"
       /\ \A e \in posted : e.fn = "cleanup"
  /\ at \in Steps => state = "stopped"
  /\ state = "stopped" =>
       /\ \A s \in Streams : handler[s] \notin {"checked", "linked"}
       /\ \A e \in posted : e.fn # "onrequest"
       /\ at \notin {"http", "pending", "accept"} => accept = "off"
       /\ at \notin {"http", "pending", "accept", "conns"} => conns \cap Ws \subseteq scheduled
       /\ at \notin {"http", "pending", "accept", "conns", "wait"} =>
            \A w \in Ws : recv[w] = "idle"
       /\ at \notin Steps => conns \subseteq scheduled

\* The cleanup of the server comes after the stop, and leaves nothing.
Cleaned ==
  /\ ~handle => state # "started" /\ \A x \in Exchange : handler[x] \notin {"checked", "linked"}
  /\ \A e \in posted : e.fn = "cleanup" => ~handle /\ at \notin Steps
  /\ gone =>
       /\ ~handle /\ ~serving /\ queue = <<>> /\ at \notin Steps /\ conns = {} /\ frame = Idle

QuietInv ==
  Ordered(queue, Finally) /\ Ended /\ Silent /\ Requested /\ Covered /\ Receiving /\ Stopped /\ Cleaned

\* The calls that may be posted now, and by whom.
MayPost(e) ==
  \/ e.fn = "onopen" /\ accept = "linked" /\ e.arg = accepted
  \/ e.fn = "onmessage" /\ recv[e.arg] = "got"
  \/ e.fn = "onclose" /\ e.arg \in Ws /\ recv[e.arg] = "post"
  \/ e.fn \in {"onrequest", "handler"} /\ handler[e.arg] = "linked"
  \/ e.fn = "onclose" /\ e.arg \in conns \ scheduled
  \/ e.fn = "cleanup" /\ (at \in Steps \/ handle)

\* The steps that post the closing call e.
Closes(e) ==
  \/ e.arg \in Ws /\ PostClose(e.arg)
  \/ e.arg \notin scheduled /\ (CloseConn(e.arg) \/ StopConns \/ StopStreams)

-----------------------------------------------------------------------------
(* The queue.                                                                *)

USE DEF server, accepts, life, receives, requests, rthread

LEMMA Opened ==
  ASSUME IInv
  PROVE  /\ LifeInv /\ Answered /\ Typed /\ TypeOK /\ queue \in Seq(Posts)
         /\ Ordered(queue, InTurn) /\ Listed /\ Unmade /\ Opening /\ Logged /\ Ending /\ Numbered
         /\ state \in {"created", "started", "stopped"}
  BY DEF IInv, LifeInv, Typed, TypeOK

\* A call that may be posted comes after no cleanup, and after no closing call
\* of its connection.
LEMMA Fresh ==
  ASSUME IInv, QuietInv, NEW e \in Posts, MayPost(e), NEW x \in posted
  PROVE  e \in Finally[x]
<1>1. /\ Typed /\ Listed /\ Opening /\ Ending /\ x \in Posts
      /\ Ended /\ Requested /\ Receiving /\ Stopped /\ Cleaned
      /\ state \in {"created", "started", "stopped"}
  BY Opened, Facts DEF QuietInv
<1>2. x.fn # "cleanup"
  <2> SUFFICES ASSUME x.fn = "cleanup" PROVE FALSE
    OBVIOUS
  <2>1. ~handle /\ at \notin Steps /\ state # "started"
    BY <1>1 DEF Cleaned
  <2>2. accept = "off" /\ \A y \in Exchange : handler[y] # "linked"
    BY <1>1, <2>1 DEF Stopped, Cleaned, Steps
  <2>3. conns \subseteq scheduled
    BY <1>1, <2>1 DEF Stopped
  <2>4. \A w \in Ws : recv[w] \notin {"got", "post"}
    <3>1. CASE state = "stopped"
      BY <2>1, <1>1, <3>1 DEF Stopped, Steps
    <3>2. CASE state = "created"
      <4>1. conns = {}
        BY <1>1, <3>2 DEF Stopped
      <4>2. ASSUME NEW w \in Ws, recv[w] # "idle" PROVE conn[w] = "closed"
        BY <1>1, <4>1, <4>2 DEF Receiving, Listed
      <4>3. QED
        BY <1>1, <4>2, NotACall DEF Ended
    <3>3. QED
      BY <1>1, <2>1, <3>1, <3>2
  <2>5. QED
    BY <2>1, <2>2, <2>3, <2>4, PostTypes DEF MayPost, Exchange
<1>3. ASSUME x.fn = "onclose", x.arg = e.arg PROVE FALSE
  <2>1. x.arg \in Conns /\ Closing(x.arg)
    BY <1>1, <1>3, Facts DEF Closing
  <2>2. /\ x.arg \in scheduled /\ accepted # x.arg /\ conn[x.arg] # "open"
        /\ x.arg \in Ws => recv[x.arg] \notin {"got", "post"}
    BY <1>1, <2>1 DEF Ended, Listed
  <2>3. x.arg \in Streams => handler[x.arg] # "linked"
    BY <1>1, <2>2 DEF Requested
  <2>4. QED
    BY <1>3, <2>1, <2>2, <2>3, PostTypes, NotACall DEF MayPost
<1>4. QED
  BY <1>1, <1>2, <1>3 DEF Finally

LEMMA OrderKept ==
  ASSUME IInv, QuietInv, Next
  PROVE  /\ Ordered(queue', Finally)
         /\ \A e \in posted' : e \notin posted =>
              /\ e \in Posts /\ MayPost(e)
              /\ e.fn = "onclose" => Closes(e)
              /\ e.fn = "cleanup" => ~handle' /\ at' \notin Steps
         /\ posted \subseteq posted' \/ Loop
<1> DEFINE Goal == /\ Ordered(queue', Finally)
                   /\ \A e \in posted' : e \notin posted =>
                        /\ e \in Posts /\ MayPost(e)
                        /\ e.fn = "onclose" => Closes(e)
                        /\ e.fn = "cleanup" => ~handle' /\ at' \notin Steps
                   /\ posted \subseteq posted' \/ Loop
<1>1. /\ Typed /\ TypeOK /\ queue \in Seq(Posts) /\ Ordered(queue, Finally)
      /\ Unmade /\ Numbered
  BY Opened DEF QuietInv
<1>2. ASSUME UNCHANGED queue PROVE Goal
  BY <1>1, <1>2 DEF posted
<1>3. ASSUME NEW e \in Posts, later2(e), MayPost(e), e.fn = "onclose" => Closes(e),
             e.fn = "cleanup" => ~handle' /\ at' \notin Steps
      PROVE  Goal
  BY <1>1, <1>3, Later, Fresh
<1>4. ASSUME queue # <<>>, Pop, Loop PROVE Goal
  BY <1>1, <1>4, Taken
<1>5. ASSUME NEW cs \in SUBSET Conns, cs \subseteq conns, at \in Steps, StopConns \/ StopStreams,
             NEW last \in {<<>>, <<Call("cleanup", Top, 0)>>}, CloseAll(cs, last),
             last # <<>> => ~handle' /\ at' \notin Steps
      PROVE  Goal
  <2>1. \A c \in cs \ scheduled :
          /\ Call("onclose", c, 0) \in Posts /\ MayPost(Call("onclose", c, 0))
          /\ Call("onclose", c, 0).fn = "onclose" /\ Call("onclose", c, 0).arg = c
          /\ Closes(Call("onclose", c, 0))
    BY <1>5, CallTypes DEF Call, MayPost, Closes
  <2>2. /\ Call("cleanup", Top, 0) \in Posts /\ MayPost(Call("cleanup", Top, 0))
        /\ Call("cleanup", Top, 0).fn = "cleanup" /\ Call("cleanup", Top, 0).arg \notin Conns
    BY <1>5, CallTypes, NotACall DEF Call, MayPost
  <2>3. /\ \A x \in posted, c \in cs \ scheduled : Call("onclose", c, 0) \in Finally[x]
        /\ \A x \in posted : Call("cleanup", Top, 0) \in Finally[x]
    BY <2>1, <2>2, Fresh
  <2>4. \A c, d \in cs \ scheduled : c # d => Call("onclose", d, 0) \in Finally[Call("onclose", c, 0)]
    BY <2>1 DEF Finally
  <2>5. \A c \in cs \ scheduled : Call("cleanup", Top, 0) \in Finally[Call("onclose", c, 0)]
    BY <2>1, <2>2 DEF Finally
  <2>6. Ordered(queue', Finally)
    BY <1>1, <1>5, <2>3, <2>4, <2>5, ClosedAll
  <2>7. \A e \in posted' :
          \/ e \in posted
          \/ e \in {Call("onclose", c, 0) : c \in cs \ scheduled}
          \/ e = Call("cleanup", Top, 0) /\ last # <<>>
    BY <1>1, <1>5, ClosedAll
  <2>8. posted \subseteq posted'
    BY <1>1, <1>5, ClosedAll
  <2>9. QED
    BY <1>5, <2>1, <2>2, <2>6, <2>7, <2>8
<1>6. ASSUME PostOpen PROVE Goal
  <2>1. accept = "linked" /\ later2(Call("onopen", accepted, 0))
    BY <1>6 DEF PostOpen
  <2>2. Call("onopen", accepted, 0) \in Posts
    BY <1>1, <2>1, CallTypes DEF TypeOK, Unmade
  <2>3. QED
    BY <1>3, <2>1, <2>2 DEF MayPost, Call
<1>7. ASSUME NEW w \in Ws, PostMessage(w) PROVE Goal
  <2>1. recv[w] = "got" /\ (later2(Call("onmessage", w, received[w])) \/ UNCHANGED queue)
    BY <1>7 DEF PostMessage
  <2>2. received[w] \in 1..MaxMsgs
    BY <1>1, <2>1, HttpServerAssumption DEF TypeOK, Numbered
  <2>3. Call("onmessage", w, received[w]) \in Posts
    BY <2>2, CallTypes
  <2>4. QED
    BY <1>2, <1>3, <2>1, <2>3 DEF MayPost, Call
<1>8. ASSUME NEW w \in Ws, PostClose(w) PROVE Goal
  <2>1. recv[w] = "post" /\ later2(Call("onclose", w, 0)) /\ Call("onclose", w, 0) \in Posts
    BY <1>8, CallTypes, NotACall DEF PostClose
  <2>2. QED
    BY <1>3, <1>8, <2>1 DEF MayPost, Call, Closes
<1>9. ASSUME NEW x \in Exchange, PostRequest(x) PROVE Goal
  <2> DEFINE e == Call(IF x \in Reqs THEN "handler" ELSE "onrequest", x, 0)
  <2>1. handler[x] = "linked" /\ later2(e)
    BY <1>9 DEF PostRequest
  <2>2. e \in Posts
    BY CallTypes DEF Exchange
  <2>3. e.arg = x /\ e.fn \in {"onrequest", "handler"}
    BY DEF Call
  <2>4. MayPost(e)
    BY <2>1, <2>3 DEF MayPost
  <2> HIDE DEF e
  <2>5. QED
    BY <1>3, <2>1, <2>2, <2>3, <2>4
<1>10. ASSUME NEW c \in Conns, CloseConn(c) PROVE Goal
  <2>1. /\ c \in conns
        /\ UNCHANGED queue \/ (c \notin scheduled /\ later2(Call("onclose", c, 0)))
    BY <1>1, <1>10 DEF CloseConn, TypeOK
  <2>2. Call("onclose", c, 0) \in Posts
    BY CallTypes
  <2>3. QED
    BY <1>2, <1>3, <1>10, <2>1, <2>2 DEF MayPost, Call, Closes
<1>11. ASSUME Close PROVE Goal
  <2>1. /\ handle /\ ~handle'
        /\ UNCHANGED queue \/ (later2(Call("cleanup", Top, 0)) /\ at' \notin Steps)
    BY <1>11 DEF Close, InCode, Steps
  <2>2. QED
    BY <1>2, <1>3, <2>1, CallTypes DEF MayPost, Call
<1>12. ASSUME StopConns \/ StopStreams PROVE Goal
  <2>1. /\ conns \cap Ws \in SUBSET Conns /\ conns \cap Streams \in SUBSET Conns
        /\ conns \cap Ws \subseteq conns /\ conns \cap Streams \subseteq conns
    BY <1>1 DEF TypeOK
  <2>2. at \in Steps
    BY <1>12 DEF StopConns, StopStreams, Steps
  <2>3. CASE StopConns
    BY <1>5, <2>1, <2>2, <2>3 DEF StopConns
  <2>4. CASE StopStreams
    <3>1. /\ CloseAll(conns \cap Streams, IF handle THEN <<>> ELSE <<Call("cleanup", Top, 0)>>)
          /\ handle' = handle /\ at' \notin Steps
      BY <2>4 DEF StopStreams, Steps
    <3>2. QED
      BY <1>5, <2>1, <2>2, <2>4, <3>1
  <2>5. QED
    BY <1>12, <2>3, <2>4
<1>13. CASE Network
  BY <1>2, <1>13 DEF Network, Accept, RecvDone, Enter
<1>14. CASE Callback
  BY <1>2, <1>6, <1>7, <1>8, <1>9, <1>14 DEF Callback, Rearm, RecvAgain, RecvClose, Check, Link
<1>15. CASE Program
  BY <1>2, <1>10, <1>11, <1>15 DEF Program, Start, Stop, SendDone, WsSend, StreamSend
<1>16. CASE Stopping
  BY <1>2, <1>12, <1>16 DEF Stopping, StopHttp, StopPending, StopAccept, StopWait
<1>17. CASE Loop
  <2>1. queue # <<>> /\ Pop
    BY <1>17 DEF Loop, RunOnOpen, RunOnMessage, Skip, RunOnClose, RunCleanup, RunHandler,
                 FreeServer, Due
  <2>2. QED
    BY <1>4, <1>17, <2>1
<1>18. CASE Return
  BY <1>2, <1>18 DEF Return, ReturnOpen, ReturnHandler, ReturnClose, Free
<1>19. QED
  BY <1>13, <1>14, <1>15, <1>16, <1>17, <1>18 DEF Next

\* When the cleanup of the server runs, it finds no connection.
LEMMA NothingLeft ==
  ASSUME IInv, QuietInv, FreeServer
  PROVE  conns = {} /\ posted' = {} /\ queue' = <<>>
<1>1. /\ Typed /\ TypeOK /\ queue \in Seq(Posts) /\ Listed /\ Ordered(queue, Finally)
      /\ Stopped /\ Cleaned /\ Covered /\ state \in {"created", "started", "stopped"}
  BY Opened DEF QuietInv
<1>2. queue # <<>> /\ Pop /\ Head(queue).fn = "cleanup" /\ frame = Idle /\ at = "user"
  BY DEF FreeServer, Due
<1>3. /\ Head(queue) \in Posts /\ Head(queue) \in posted /\ posted = posted' \cup {Head(queue)}
      /\ \A x \in posted' : x \in Finally[Head(queue)] /\ queue' \in Seq(Posts)
  BY <1>1, <1>2, Taken
<1>4. posted' = {}
  BY <1>2, <1>3 DEF Finally
<1>5. queue' = <<>>
  <2> DEFINE q == queue'
  <2>1. q = <<>> \/ 1 \in 1..Len(q)
    <3>1. q \in Seq(Posts)
      BY <1>1, <1>2, Taken
    <3>2. QED
      BY <3>1, EmptySeq, LenProperties
  <2>2. posted' = Elements(queue')
    BY DEF posted
  <2>3. QED
    BY <1>4, <2>1, <2>2 DEF Elements
<1>6. ASSUME NEW c \in conns PROVE FALSE
  <2>1. ~handle /\ state # "started"
    BY <1>2, <1>3 DEF Cleaned, QuietInv
  <2>2. state = "stopped"
    BY <1>1, <2>1 DEF Stopped
  <2>3. conn[c] = "closing" /\ c \in Conns
    BY <1>1, <1>2, <2>2 DEF Stopped, Steps, Listed, TypeOK
  <2>4. ~ Closing(c)
    BY <1>2, <1>3, <1>4, NotACall DEF Closing
  <2>5. c \in Ws => recv[c] = "idle"
    BY <1>1, <1>2, <2>2 DEF Stopped, Steps
  <2>6. QED
    BY <1>1, <2>3, <2>4, <2>5 DEF Covered
<1>7. QED
  BY <1>4, <1>5, <1>6

-----------------------------------------------------------------------------
(* How a connection, the frame and a receive change.                         *)

\* conn_cleanup starts from the closing call.
LEMMA CleanupStarts ==
  ASSUME IInv, QuietInv, RunCleanup \/ ReturnClose
  PROVE  LET c == frame'.arg
         IN /\ c \in Conns /\ frame'.fn = "onclose" /\ Closing(c)
            /\ conn'[c] = "closed" /\ \A d \in Conns : d # c => conn'[d] = conn[d]
            /\ conns' = conns \ {c} /\ at' = "free"
            /\ \A w \in Ws : recv'[w] # recv[w] => w = c /\ recv[w] = "pending" /\ recv'[w] = "failed"
<1>1. Typed /\ Requested
  BY Opened DEF QuietInv
<1>2. CASE RunCleanup
  <2>1. /\ queue # <<>> /\ Pop /\ frame' = Head(queue) /\ Cleanup(Head(queue).arg)
        /\ \/ Head(queue).fn = "onclose"
           \/ Head(queue).fn = "onrequest" /\ conn[Head(queue).arg] # "open"
    BY <1>2 DEF RunCleanup, Due
  <2>2. Head(queue) \in Posts /\ Head(queue) \in posted
    BY <1>1, <2>1, Taken
  <2>3. Head(queue).fn = "onclose"
    BY <1>1, <2>1, <2>2 DEF Requested
  <2>4. Head(queue).arg \in Conns /\ Closing(Head(queue).arg)
    BY <2>2, <2>3, PostTypes DEF Closing
  <2>5. QED
    BY <1>1, <2>1, <2>3, <2>4, CleanedUp
<1>3. CASE ReturnClose
  <2>1. frame' = frame /\ frame.fn = "onclose" /\ Cleanup(frame.arg)
    BY <1>3 DEF ReturnClose
  <2>2. frame.arg \in Conns /\ Closing(frame.arg)
    BY <1>1, <2>1, Facts DEF Closing
  <2>3. QED
    BY <1>1, <2>1, <2>2, CleanedUp
<1>4. QED
  BY <1>2, <1>3

\* A closing call goes from the queue to the frame, and is over when its
\* connection is freed.
LEMMA ClosingLasts ==
  ASSUME IInv, QuietInv, Next, NEW c \in Conns, Closing(c)
  PROVE  Closing(c)' \/ (Free /\ frame.fn = "onclose" /\ frame.arg = c)
<1> DEFINE Goal == Closing(c)' \/ (Free /\ frame.fn = "onclose" /\ frame.arg = c)
<1>1. Typed /\ TypeOK /\ queue \in Seq(Posts) /\ Ordered(queue, Finally)
  BY Opened DEF QuietInv
<1>2. ASSUME posted \subseteq posted', frame' = frame \/ frame.fn # "onclose" \/ Free PROVE Goal
  BY <1>2 DEF Closing
<1>3. ASSUME queue # <<>>, Pop, frame = Idle, Head(queue).fn = "onclose" => frame' = Head(queue)
      PROVE  Goal
  <2>1. posted = posted' \cup {Head(queue)}
    BY <1>1, <1>3, Taken
  <2>2. \E e \in posted : e.fn = "onclose" /\ e.arg = c
    BY <1>3, NotACall DEF Closing
  <2>3. QED
    BY <1>3, <2>1, <2>2 DEF Closing
<1>4. CASE Loop
  BY <1>3, <1>4 DEF Loop, RunOnOpen, RunOnMessage, Skip, RunOnClose, RunCleanup, RunHandler, FreeServer,
                    Due, Runs
<1>5. CASE ~ Loop
  <2>1. posted \subseteq posted'
    BY <1>5, OrderKept
  <2>2. frame' = frame \/ frame.fn # "onclose" \/ Free
    <3>1. CASE Network
      BY <3>1 DEF Network, Accept, RecvDone, Enter
    <3>2. CASE Callback
      BY <3>2 DEF Callback, PostOpen, Rearm, PostMessage, RecvAgain, RecvClose, PostClose, Check, Link,
                  PostRequest
    <3>3. CASE Program
      BY <3>3 DEF Program, Start, Stop, Close, SendDone, WsSend, StreamSend, CloseConn
    <3>4. CASE Stopping
      BY <3>4 DEF Stopping, StopHttp, StopPending, StopAccept, StopConns, StopWait, StopStreams
    <3>5. CASE Return
      BY <3>5 DEF Return, ReturnOpen, ReturnHandler, ReturnClose
    <3>6. QED
      BY <1>5, <3>1, <3>2, <3>3, <3>4, <3>5 DEF Next
  <2>3. QED
    BY <1>2, <2>1, <2>2
<1>6. QED
  BY <1>4, <1>5

LEMMA ConnChanges ==
  ASSUME IInv, QuietInv, Next, NEW c \in Conns
  PROVE  \/ conn'[c] = conn[c]
         \/ conn[c] = "none" /\ conn'[c] = "open"
         \/ /\ conn[c] = "open" /\ conn'[c] = "closing" /\ c \in scheduled'
            /\ c \in Ws => recv'[c] # "pending"
            /\ Closing(c)' \/ (c \in Ws /\ recv'[c] = "post")
            /\ c \in Streams => handler[c] # "linked" /\ \A e \in posted : e.fn = "onrequest" => e.arg # c
         \/ Closing(c) /\ conn'[c] = "closed" /\ frame'.fn = "onclose" /\ frame'.arg = c /\ at' = "free"
         \/ Free /\ frame.arg = c /\ conn[c] = "closed" /\ conn'[c] = "freed" /\ frame' = Idle
<1> DEFINE Goal ==
         \/ conn'[c] = conn[c]
         \/ conn[c] = "none" /\ conn'[c] = "open"
         \/ /\ conn[c] = "open" /\ conn'[c] = "closing" /\ c \in scheduled'
            /\ c \in Ws => recv'[c] # "pending"
            /\ Closing(c)' \/ (c \in Ws /\ recv'[c] = "post")
            /\ c \in Streams => handler[c] # "linked" /\ \A e \in posted : e.fn = "onrequest" => e.arg # c
         \/ Closing(c) /\ conn'[c] = "closed" /\ frame'.fn = "onclose" /\ frame'.arg = c /\ at' = "free"
         \/ Free /\ frame.arg = c /\ conn[c] = "closed" /\ conn'[c] = "freed" /\ frame' = Idle
<1>1. /\ Typed /\ TypeOK /\ queue \in Seq(Posts) /\ Listed /\ Unmade /\ Opening /\ Logged /\ Stopped
      /\ conn \in [Conns -> {"none", "open", "closing", "closed", "freed"}]
  BY Opened DEF QuietInv, TypeOK
<1>2. ASSUME conn' = conn PROVE Goal
  BY <1>2
<1>3. ASSUME NEW w \in Ws, Accept(w) PROVE Goal
  BY <1>1, <1>3, NotACall DEF Accept, Set
<1>4. ASSUME NEW x \in Exchange, Link(x) PROVE Goal
  <2>1. handler[x] = "checked" /\ (conn' = conn \/ (x \in Streams /\ conn' = Set(conn, x, "open")))
    BY <1>4 DEF Link, Exchange
  <2>2. x \in Streams => conn[x] = "none" /\ x \in Conns
    BY <1>1, <2>1, NotACall DEF Unmade
  <2>3. QED
    BY <1>1, <2>1, <2>2 DEF Set
<1>5. ASSUME NEW w \in Ws, RecvClose(w) PROVE Goal
  <2>1. /\ recv[w] = "failed" /\ scheduled' = scheduled \cup {w}
        /\ conn' = Set(conn, w, IF conn[w] = "open" THEN "closing" ELSE conn[w])
        /\ recv' = Set(recv, w, IF w \in scheduled THEN "idle" ELSE "post")
    BY <1>5 DEF RecvClose
  <2>2. c # w => conn'[c] = conn[c]
    BY <1>1, <2>1 DEF Set
  <2>3. CASE c = w /\ conn[w] # "open"
    BY <1>1, <2>1, <2>3 DEF Set
  <2>4. CASE c = w /\ conn[w] = "open"
    <3>1. w \notin scheduled
      BY <1>1, <2>4 DEF Listed
    <3>2. conn'[c] = "closing" /\ recv'[c] = "post" /\ c \notin Streams
      BY <1>1, <2>1, <2>4, <3>1, NotACall DEF Set, TypeOK
    <3>3. QED
      BY <2>1, <2>4, <3>2
  <2>5. QED
    BY <2>2, <2>3, <2>4
<1>6. ASSUME NEW d \in Conns, CloseConn(d) PROVE Goal
  <2>1. /\ d \in opened /\ CloseLocked({d}) /\ scheduled' = scheduled \cup {d} /\ {d} \in SUBSET Conns
        /\ d \in scheduled \/ later2(Call("onclose", d, 0))
    BY <1>6 DEF CloseConn
  <2>2. /\ conn'[c] # conn[c] => c = d /\ conn[c] = "open" /\ conn'[c] = "closing"
        /\ c \in Ws /\ c = d /\ conn[c] = "open" => recv'[c] # "pending"
    BY <1>1, <2>1, Closed
  <2>3. CASE c = d /\ conn[c] = "open" /\ conn'[c] = "closing"
    <3>1. posted' = posted \cup {Call("onclose", c, 0)}
      BY <1>1, <2>1, <2>3, CallTypes, Later DEF Listed
    <3>2. Closing(c)'
      <4>1. Call("onclose", c, 0) \in posted'
        BY <3>1
      <4>2. QED
        BY <4>1 DEF Closing, Call
    <3>3. log[c] # <<>>
      BY <1>1, <2>1, <2>3 DEF Logged
    <3>4. c \in Streams => handler[c] # "linked" /\ \A e \in posted : e.fn = "onrequest" => e.arg # c
      BY <1>1, <3>3 DEF Opening
    <3>5. QED
      BY <2>1, <2>2, <2>3, <3>2, <3>4
  <2>4. QED
    BY <2>2, <2>3
<1>7. ASSUME NEW cs \in SUBSET Conns, NEW last \in {<<>>, <<Call("cleanup", Top, 0)>>},
             CloseAll(cs, last), state = "stopped"
      PROVE  Goal
  <2>1. CloseLocked(cs) /\ scheduled' = scheduled \cup cs
    BY <1>7 DEF CloseAll
  <2>2. /\ conn'[c] # conn[c] => c \in cs /\ conn[c] = "open" /\ conn'[c] = "closing"
        /\ c \in Ws /\ c \in cs /\ conn[c] = "open" => recv'[c] # "pending"
    BY <1>1, <2>1, Closed
  <2>3. CASE c \in cs /\ conn[c] = "open" /\ conn'[c] = "closing"
    <3>1. c \in cs \ scheduled
      BY <1>1, <2>3 DEF Listed
    <3>2. Call("onclose", c, 0) \in posted'
      BY <1>1, <1>7, <3>1, ClosedAll
    <3>3. Closing(c)'
      BY <3>2 DEF Closing, Call
    <3>4. c \in Streams => handler[c] # "linked" /\ \A e \in posted : e.fn = "onrequest" => e.arg # c
      BY <1>1, <1>7 DEF Stopped
    <3>5. QED
      BY <2>1, <2>2, <2>3, <3>3, <3>4
  <2>4. QED
    BY <2>2, <2>3
<1>8. ASSUME StopConns \/ StopStreams PROVE Goal
  <2>1. conns \cap Ws \in SUBSET Conns /\ conns \cap Streams \in SUBSET Conns
    BY <1>1 DEF TypeOK
  <2>2. state = "stopped"
    BY <1>1, <1>8 DEF StopConns, StopStreams, Stopped, Steps
  <2>3. QED
    BY <1>7, <1>8, <2>1, <2>2 DEF StopConns, StopStreams
<1>9. ASSUME RunCleanup \/ ReturnClose PROVE Goal
  BY <1>9, CleanupStarts
<1>10. ASSUME Free PROVE Goal
  BY <1>1, <1>10 DEF Free, Listed, Set
<1>11. ASSUME FreeServer PROVE Goal
  BY <1>1, <1>11, NothingLeft DEF FreeServer
<1>12. CASE Network
  BY <1>2, <1>3, <1>12 DEF Network, RecvDone, Enter
<1>13. CASE Callback
  BY <1>2, <1>4, <1>5, <1>13 DEF Callback, PostOpen, Rearm, PostMessage, RecvAgain, PostClose, Check,
                                 PostRequest
<1>14. CASE Program
  BY <1>2, <1>6, <1>14 DEF Program, Start, Stop, Close, SendDone, WsSend, StreamSend
<1>15. CASE Stopping
  BY <1>2, <1>8, <1>15 DEF Stopping, StopHttp, StopPending, StopAccept, StopWait
<1>16. CASE Loop
  BY <1>2, <1>9, <1>11, <1>16 DEF Loop, RunOnOpen, RunOnMessage, Skip, RunOnClose, RunHandler
<1>17. CASE Return
  BY <1>2, <1>9, <1>10, <1>17 DEF Return, ReturnOpen, ReturnHandler
<1>18. QED
  BY <1>12, <1>13, <1>14, <1>15, <1>16, <1>17 DEF Next

LEMMA RecvChanges ==
  ASSUME IInv, QuietInv, Next, NEW w \in Ws
  PROVE  \/ recv'[w] = recv[w]
         \/ recv[w] # "idle" /\ recv[w] # "post" /\ recv'[w] \in {"failed", "rearm", "idle"}
         \/ recv[w] = "pending" /\ recv'[w] = "got" /\ conn' = conn /\ w \notin scheduled'
         \/ recv'[w] = "pending" /\ conn' = conn /\ conn[w] = "open"
         \/ /\ recv[w] = "failed" /\ recv'[w] = "post" /\ w \notin scheduled
            /\ UNCHANGED <<queue, frame, accepted>> /\ conn'[w] \notin {"closed", "freed"}
         \/ recv[w] = "post" /\ recv'[w] = "idle" /\ Closing(w)'
<1> DEFINE Goal ==
         \/ recv'[w] = recv[w]
         \/ recv[w] # "idle" /\ recv[w] # "post" /\ recv'[w] \in {"failed", "rearm", "idle"}
         \/ recv[w] = "pending" /\ recv'[w] = "got" /\ conn' = conn /\ w \notin scheduled'
         \/ recv'[w] = "pending" /\ conn' = conn /\ conn[w] = "open"
         \/ /\ recv[w] = "failed" /\ recv'[w] = "post" /\ w \notin scheduled
            /\ UNCHANGED <<queue, frame, accepted>> /\ conn'[w] \notin {"closed", "freed"}
         \/ recv[w] = "post" /\ recv'[w] = "idle" /\ Closing(w)'
<1>1. /\ Typed /\ TypeOK /\ Listed /\ Ended /\ Receiving /\ w \in Conns
      /\ recv \in [Ws -> {"idle", "pending", "got", "rearm", "failed", "post"}]
      /\ conn \in [Conns -> {"none", "open", "closing", "closed", "freed"}]
  BY Opened, NotACall DEF QuietInv, TypeOK
<1>2. ASSUME recv' = recv PROVE Goal
  BY <1>2
<1>3. ASSUME NEW v \in Ws, RecvDone(v) PROVE Goal
  <2>1. /\ recv[v] = "pending" /\ UNCHANGED <<conn, scheduled>>
        /\ recv' = Set(recv, v, "got") \/ recv' = Set(recv, v, "failed")
    BY <1>3 DEF RecvDone
  <2>2. conn[v] = "open" /\ v \notin scheduled
    BY <1>1, <2>1, NotACall DEF Receiving, Listed
  <2>3. QED
    BY <1>1, <2>1, <2>2 DEF Set
<1>4. ASSUME NEW v \in Ws, PostMessage(v) \/ RecvAgain(v) PROVE Goal
  BY <1>1, <1>4 DEF PostMessage, RecvAgain, Set
<1>5. ASSUME NEW v \in Ws, RecvClose(v) PROVE Goal
  <2>1. /\ recv[v] = "failed" /\ UNCHANGED <<queue, frame, accepted>>
        /\ conn' = Set(conn, v, IF conn[v] = "open" THEN "closing" ELSE conn[v])
        /\ recv' = Set(recv, v, IF v \in scheduled THEN "idle" ELSE "post")
    BY <1>5 DEF RecvClose
  <2>2. CASE v = w /\ w \in scheduled
    BY <1>1, <2>1, <2>2 DEF Set
  <2>3. CASE v = w /\ w \notin scheduled
    <3>1. conn[w] \notin {"closed", "freed"}
      BY <1>1, <2>3 DEF Ended
    <3>2. conn'[w] \notin {"closed", "freed"} /\ recv'[w] = "post"
      BY <1>1, <2>1, <2>3, <3>1 DEF Set
    <3>3. QED
      BY <2>1, <2>3, <3>2
  <2>4. CASE v # w
    BY <1>1, <2>1, <2>4 DEF Set
  <2>5. QED
    BY <2>2, <2>3, <2>4
<1>6. ASSUME NEW v \in Ws, PostClose(v) PROVE Goal
  <2>1. recv[v] = "post" /\ later2(Call("onclose", v, 0)) /\ recv' = Set(recv, v, "idle")
    BY <1>6 DEF PostClose
  <2>2. Call("onclose", v, 0) \in posted'
    BY <1>1, <2>1, CallTypes, NotACall, Later
  <2>3. Closing(v)'
    BY <2>2 DEF Closing, Call
  <2>4. QED
    BY <1>1, <2>1, <2>3 DEF Set
<1>7. ASSUME NEW cs \in SUBSET Conns, CloseLocked(cs) PROVE Goal
  BY <1>1, <1>7, Closed
<1>8. ASSUME NEW c \in Conns, CloseConn(c) PROVE Goal
  BY <1>7, <1>8 DEF CloseConn
<1>9. ASSUME StopConns \/ StopStreams PROVE Goal
  <2>1. conns \cap Ws \in SUBSET Conns /\ conns \cap Streams \in SUBSET Conns
    BY <1>1 DEF TypeOK
  <2>2. QED
    BY <1>7, <1>9, <2>1 DEF StopConns, StopStreams, CloseAll
<1>10. ASSUME RunCleanup \/ ReturnClose PROVE Goal
  BY <1>10, CleanupStarts
<1>11. ASSUME ReturnOpen PROVE Goal
  BY <1>1, <1>11 DEF ReturnOpen, Set
<1> HIDE DEF Goal
<1>12. ASSUME Network PROVE Goal
  BY <1>2, <1>3, <1>12 DEF Network, Accept, Enter
<1>13. ASSUME Callback PROVE Goal
  BY <1>2, <1>4, <1>5, <1>6, <1>13 DEF Callback, PostOpen, Rearm, Check, Link, PostRequest
<1>14. ASSUME Program PROVE Goal
  BY <1>2, <1>8, <1>14 DEF Program, Start, Stop, Close, SendDone, WsSend, StreamSend
<1>15. ASSUME Stopping PROVE Goal
  BY <1>2, <1>9, <1>15 DEF Stopping, StopHttp, StopPending, StopAccept, StopWait
<1>16. ASSUME Loop PROVE Goal
  BY <1>2, <1>10, <1>16 DEF Loop, RunOnOpen, RunOnMessage, Skip, RunOnClose, RunHandler, FreeServer
<1>17. ASSUME Return PROVE Goal
  BY <1>2, <1>10, <1>11, <1>17 DEF Return, ReturnHandler, Free
<1>18. Goal
  BY <1>12, <1>13, <1>14, <1>15, <1>16, <1>17 DEF Next
<1>19. QED
  BY <1>18 DEF Goal

\* A new frame is the call at the head of the queue.
LEMMA FrameChanges ==
  ASSUME IInv, Next, frame' # frame
  PROVE  /\ frame' = Idle \/ frame' \in posted
         /\ frame'.fn = "onclose" => Pop /\ queue # <<>> /\ frame' = Head(queue)
<1> DEFINE Goal == /\ frame' = Idle \/ frame' \in posted
                   /\ frame'.fn = "onclose" => Pop /\ queue # <<>> /\ frame' = Head(queue)
<1>1. Typed
  BY Opened
<1>2. ASSUME queue # <<>>, Pop, frame' = Idle \/ frame' = Head(queue) PROVE Goal
  BY <1>1, <1>2, Taken, NotACall
<1>3. ASSUME frame' = Idle PROVE Goal
  BY <1>3, NotACall
<1>4. CASE Network
  BY <1>4 DEF Network, Accept, RecvDone, Enter
<1>5. CASE Callback
  BY <1>5 DEF Callback, PostOpen, Rearm, PostMessage, RecvAgain, RecvClose, PostClose, Check, Link,
              PostRequest
<1>6. CASE Program
  BY <1>6 DEF Program, Start, Stop, Close, SendDone, WsSend, StreamSend, CloseConn
<1>7. CASE Stopping
  BY <1>7 DEF Stopping, StopHttp, StopPending, StopAccept, StopConns, StopWait, StopStreams
<1>8. CASE Loop
  BY <1>2, <1>8 DEF Loop, RunOnOpen, RunOnMessage, Skip, RunOnClose, RunCleanup, RunHandler, FreeServer,
                    Due, Runs
<1>9. CASE Return
  BY <1>3, <1>9 DEF Return, ReturnOpen, ReturnHandler, ReturnClose, Free
<1>10. QED
  BY <1>4, <1>5, <1>6, <1>7, <1>8, <1>9 DEF Next

\* A closing call is newly posted only for a connection without a message on
\* its way.
LEMMA NewlyClosing ==
  ASSUME IInv, QuietInv, Quiet, Next, NEW c \in Conns, Closing(c)', ~ Closing(c)
  PROVE  /\ c \in scheduled' /\ accepted' # c /\ conn'[c] \notin {"closed", "freed"}
         /\ c \in Ws => recv'[c] \notin {"got", "post"}
<1>1. /\ Typed /\ TypeOK /\ Opening /\ Logged /\ Ending /\ Unmade /\ Listed /\ Ending' /\ Ended
      /\ recv \in [Ws -> {"idle", "pending", "got", "rearm", "failed", "post"}]
  BY Opened, Inductive DEF QuietInv, TypeOK, IInv, LifeInv
<1>2. PICK e \in posted' : e.fn = "onclose" /\ e.arg = c /\ e \notin posted
  <2>1. ~ (frame'.fn = "onclose" /\ frame'.arg = c)
    <3>1. CASE frame' = frame
      BY <3>1 DEF Closing
    <3>2. CASE frame' # frame /\ frame' = Idle
      BY <3>2, NotACall
    <3>3. CASE frame' # frame /\ frame' \in posted
      BY <3>3 DEF Closing
    <3>4. QED
      BY <3>1, <3>2, <3>3, FrameChanges
  <2>2. QED
    BY <2>1 DEF Closing
<1>3. Closes(e)
  BY <1>2, OrderKept
<1>4. c \in scheduled'
  BY <1>1, <1>2 DEF Ending
<1>5. CASE PostClose(c) /\ c \in Ws
  <2>1. recv[c] = "post" /\ recv' = Set(recv, c, "idle") /\ UNCHANGED <<accepted, conn>>
    BY <1>5 DEF PostClose
  <2>2. accepted # c
    BY <1>1, <1>5, <2>1, NotACall DEF Logged, Opening, Unmade
  <2>3. recv'[c] = "idle"
    BY <1>1, <1>5, <2>1 DEF Set
  <2>4. c \in scheduled /\ conn[c] \notin {"closed", "freed"}
    BY <1>1, <1>5, <2>1 DEF Ending, Ended
  <2>5. QED
    BY <1>4, <2>1, <2>2, <2>3, <2>4
<1>6. ASSUME c \notin scheduled, NEW cs \in SUBSET Conns, c \in cs, CloseLocked(cs),
             accepted' = accepted, accepted # c, c \in Ws => recv[c] # "got"
      PROVE  /\ accepted' # c /\ conn'[c] \notin {"closed", "freed"}
             /\ c \in Ws => recv'[c] \notin {"got", "post"}
  <2>1. c \in Ws => recv[c] # "post"
    BY <1>1, <1>6 DEF Ending
  <2>2. conn[c] \notin {"closed", "freed"}
    BY <1>1, <1>6 DEF Ended
  <2>3. QED
    BY <1>1, <1>6, <2>1, <2>2, Closed
<1>7. CASE c \notin scheduled /\ CloseConn(c)
  <2>1. /\ {c} \in SUBSET Conns /\ c \in {c} /\ CloseLocked({c}) /\ accepted' = accepted
        /\ c \in opened /\ QuietConns({c})
    BY <1>7 DEF CloseConn
  <2>2. accepted # c
    BY <1>1, <2>1, NotACall DEF Logged, Opening, Unmade
  <2>3. c \in Ws => recv[c] # "got"
    BY <2>1 DEF QuietConns
  <2>4. QED
    BY <1>4, <1>6, <1>7, <2>1, <2>2, <2>3
<1>8. CASE c \notin scheduled /\ StopConns
  <2>1. /\ at = "conns" /\ CloseAll(conns \cap Ws, <<>>) /\ QuietConns(conns) /\ accepted' = accepted
    BY <1>8 DEF StopConns
  <2>2. conns \cap Ws \in SUBSET Conns /\ CloseLocked(conns \cap Ws) /\ scheduled' = scheduled \cup (conns \cap Ws)
    BY <1>1, <2>1 DEF CloseAll, TypeOK
  <2>3. c \in conns \cap Ws
    BY <1>4, <1>8, <2>2
  <2>4. accepted # c
    BY <1>1, <2>1, NotACall DEF Opening, Unmade
  <2>5. recv[c] # "got"
    BY <2>1, <2>3 DEF QuietConns
  <2>6. QED
    BY <1>4, <1>6, <1>8, <2>1, <2>2, <2>3, <2>4, <2>5
<1>9. CASE c \notin scheduled /\ StopStreams
  <2>1. \E last : CloseAll(conns \cap Streams, last) /\ accepted' = accepted
    BY <1>9 DEF StopStreams
  <2>2. /\ conns \cap Streams \in SUBSET Conns /\ CloseLocked(conns \cap Streams)
        /\ scheduled' = scheduled \cup (conns \cap Streams)
    BY <1>1, <2>1 DEF CloseAll, TypeOK
  <2>3. c \in conns \cap Streams /\ c \notin Ws /\ accepted # c
    BY <1>1, <1>4, <1>9, <2>2, NotACall DEF TypeOK
  <2>4. QED
    BY <1>4, <1>6, <1>9, <2>1, <2>2, <2>3
<1>10. QED
  BY <1>2, <1>3, <1>5, <1>7, <1>8, <1>9 DEF Closes

LEMMA Monotone ==
  ASSUME IInv, Next
  PROVE  /\ scheduled \subseteq scheduled'
         /\ accepted' = accepted \/ accepted' = Top \/ (accepted' \in Ws /\ conn[accepted'] = "none")
<1> DEFINE Goal ==
         /\ scheduled \subseteq scheduled'
         /\ accepted' = accepted \/ accepted' = Top \/ (accepted' \in Ws /\ conn[accepted'] = "none")
<1>1. CASE Network
  BY <1>1 DEF Network, Accept, RecvDone, Enter
<1>2. CASE Callback
  BY <1>2 DEF Callback, PostOpen, Rearm, PostMessage, RecvAgain, RecvClose, PostClose, Check, Link,
              PostRequest
<1>3. CASE Program
  BY <1>3 DEF Program, Start, Stop, Close, SendDone, WsSend, StreamSend, CloseConn
<1>4. CASE Stopping
  BY <1>4 DEF Stopping, StopHttp, StopPending, StopAccept, StopConns, StopWait, StopStreams, CloseAll
<1>5. CASE Loop
  BY <1>5 DEF Loop, RunOnOpen, RunOnMessage, Skip, RunOnClose, RunCleanup, RunHandler, FreeServer
<1>6. CASE Return
  BY <1>6 DEF Return, ReturnOpen, ReturnHandler, ReturnClose, Free
<1>7. QED
  BY <1>1, <1>2, <1>3, <1>4, <1>5, <1>6 DEF Next

\* Only NNG's threads move a handler callback.
LEMMA HandlerMoves ==
  ASSUME Next
  PROVE  handler' = handler \/ \E x \in Exchange : Link(x) \/ Enter(x) \/ Check(x) \/ PostRequest(x)
<1>1. CASE Network
  BY <1>1 DEF Network, Accept, RecvDone
<1>2. CASE Callback
  BY <1>2 DEF Callback, PostOpen, Rearm, PostMessage, RecvAgain, RecvClose, PostClose
<1>3. CASE Program
  BY <1>3 DEF Program, Start, Stop, Close, SendDone, WsSend, StreamSend, CloseConn
<1>4. CASE Stopping
  BY <1>4 DEF Stopping, StopHttp, StopPending, StopAccept, StopConns, StopWait, StopStreams
<1>5. CASE Loop
  BY <1>5 DEF Loop, RunOnOpen, RunOnMessage, Skip, RunOnClose, RunCleanup, RunHandler, FreeServer
<1>6. CASE Return
  BY <1>6 DEF Return, ReturnOpen, ReturnHandler, ReturnClose, Free
<1>7. QED
  BY <1>1, <1>2, <1>3, <1>4, <1>5, <1>6 DEF Next

\* Only its own steps end a stop.
LEMMA StaysInStop ==
  ASSUME Next, at \in Steps, ~ Stopping
  PROVE  at' = at
<1> USE DEF Steps
<1>1. CASE Network
  BY <1>1 DEF Network, Accept, RecvDone, Enter
<1>2. CASE Callback
  BY <1>2 DEF Callback, PostOpen, Rearm, PostMessage, RecvAgain, RecvClose, PostClose, Check, Link,
              PostRequest
<1>3. CASE Program
  BY <1>3 DEF Program, Start, Stop, Close, SendDone, WsSend, StreamSend, CloseConn, InCode
<1>4. CASE Loop
  BY <1>4 DEF Loop, RunOnOpen, RunOnMessage, Skip, RunOnClose, RunCleanup, RunHandler, FreeServer, Due
<1>5. CASE Return
  BY <1>5 DEF Return, ReturnOpen, ReturnHandler, ReturnClose, Free
<1>6. QED
  BY <1>1, <1>2, <1>3, <1>4, <1>5 DEF Next

-----------------------------------------------------------------------------
(* The parts of the invariant are kept.                                      *)

LEMMA EndedKept ==
  ASSUME IInv, QuietInv, Quiet, Next
  PROVE  Ended'
<1>1. /\ Typed /\ TypeOK /\ Listed /\ Unmade /\ Ended
  BY Opened DEF QuietInv
<1> SUFFICES ASSUME NEW c \in Conns, Closing(c)' \/ conn'[c] \in {"closed", "freed"}
             PROVE  /\ c \in scheduled' /\ accepted' # c
                    /\ c \in Ws => recv'[c] \notin {"got", "post"}
  BY DEF Ended
<1>2. CASE Closing(c) \/ conn[c] \in {"closed", "freed"}
  <2>1. c \in scheduled /\ accepted # c /\ (c \in Ws => recv[c] \notin {"got", "post"})
    BY <1>1, <1>2 DEF Ended
  <2>2. c \in scheduled'
    BY <2>1, Monotone
  <2>3. conn[c] # "none"
    BY <1>1, <1>2 DEF Unmade, Closing
  <2>4. accepted' # c
    BY <2>1, <2>3, Monotone, NotACall
  <2>5. c \in Ws => recv'[c] \notin {"got", "post"}
    BY <2>1, <2>2, RecvChanges
  <2>6. QED
    BY <2>2, <2>4, <2>5
<1>3. CASE ~ (Closing(c) \/ conn[c] \in {"closed", "freed"})
  <2>1. conn'[c] \notin {"closed", "freed"}
    BY <1>3, ConnChanges
  <2>2. QED
    BY <1>3, <2>1, NewlyClosing
<1>4. QED
  BY <1>2, <1>3

LEMMA SilentKept ==
  ASSUME IInv, QuietInv, Next
  PROVE  Silent'
<1>1. /\ Typed /\ queue \in Seq(Posts) /\ Ordered(queue, Finally) /\ Listed /\ Ending /\ Opening /\ Unmade
      /\ Ended /\ Silent /\ Requested
  BY Opened DEF QuietInv
<1> SUFFICES ASSUME NEW c \in Conns
             PROVE  /\ conn'[c] \in {"closed", "freed"} \/ (frame'.fn = "onclose" /\ frame'.arg = c) =>
                         \A e \in posted' : e.arg # c
                    /\ conn'[c] = "freed" => frame'.arg # c
  BY DEF Silent
<1>2. ASSUME NEW e \in posted', e \notin posted,
             conn[c] \in {"closed", "freed"} \/ Closing(c)
      PROVE  e.arg # c
  <2>1. e \in Posts /\ MayPost(e)
    BY <1>2, OrderKept
  <2>2. c \in scheduled /\ accepted # c /\ (c \in Ws => recv[c] \notin {"got", "post"})
    BY <1>1, <1>2 DEF Ended
  <2>3. c \in Streams => handler[c] # "linked"
    BY <1>1, <2>2, NotACall DEF Requested, Listed
  <2>4. SUFFICES ASSUME e.arg = c PROVE FALSE
    OBVIOUS
  <2>5. QED
    BY <2>1, <2>2, <2>3, <2>4, PostTypes, NotACall DEF MayPost
<1>3. CASE conn[c] \in {"closed", "freed"} \/ (frame.fn = "onclose" /\ frame.arg = c)
  <2>1. \A e \in posted : e.arg # c
    BY <1>1, <1>3 DEF Silent
  <2>2. \A e \in posted' : e.arg # c
    BY <1>2, <1>3, <2>1 DEF Closing
  <2>3. conn'[c] = "freed" => frame'.arg # c
    <3>1. CASE Free /\ frame.arg = c
      BY <3>1, NotACall DEF Free
    <3>2. CASE ~ (Free /\ frame.arg = c)
      <4>1. conn'[c] = "freed" => conn[c] = "freed"
        BY <3>2, ConnChanges
      <4>2. conn[c] = "freed" => frame.arg # c
        BY <1>1 DEF Silent
      <4>3. frame' = frame \/ frame' = Idle \/ frame' \in posted
        BY FrameChanges
      <4>4. QED
        BY <2>1, <4>1, <4>2, <4>3, NotACall
    <3>3. QED
      BY <3>1, <3>2
  <2>4. QED
    BY <2>2, <2>3
<1>4. CASE ~ (conn[c] \in {"closed", "freed"} \/ (frame.fn = "onclose" /\ frame.arg = c))
  <2>1. conn'[c] # "freed"
    BY <1>4, ConnChanges
  <2>2. ASSUME frame' # frame, frame'.fn = "onclose", frame'.arg = c PROVE \A e \in posted' : e.arg # c
    <3>1. Pop /\ queue # <<>> /\ frame' = Head(queue)
      BY <2>2, FrameChanges
    <3>2. \A e \in posted' : e \in Finally[Head(queue)]
      BY <1>1, <3>1, Taken
    <3>3. Head(queue) \in Posts
      BY <1>1, <3>1, Taken
    <3>4. QED
      BY <2>2, <3>1, <3>2, <3>3 DEF Finally
  <2>3. conn'[c] \in {"closed", "freed"} => frame'.fn = "onclose" /\ frame'.arg = c
    BY <1>4, ConnChanges
  <2>4. QED
    BY <1>4, <2>1, <2>2, <2>3
<1>5. QED
  BY <1>3, <1>4

LEMMA RequestedKept ==
  ASSUME IInv, QuietInv, Next
  PROVE  Requested'
<1>1. /\ Typed /\ TypeOK /\ Listed /\ Ending /\ Requested
      /\ handler \in [Exchange -> {"none", "called", "checked", "linked", "done", "astray"}]
      /\ conn \in [Conns -> {"none", "open", "closing", "closed", "freed"}]
  BY Opened DEF QuietInv, TypeOK
<1>2. ASSUME NEW s \in Streams, conn[s] = "open", handler[s] = "linked" \/ \E e \in posted : e.fn = "onrequest" /\ e.arg = s
      PROVE  conn'[s] = "open"
  <2>1. ~ Closing(s)
    BY <1>1, <1>2, NotACall DEF Listed, Ended, QuietInv
  <2>2. QED
    BY <1>2, <2>1, ConnChanges, NotACall
<1>3. ASSUME NEW e \in posted', e.fn = "onrequest" PROVE conn'[e.arg] = "open"
  <2>1. e \in posted \/ (e \in Posts /\ handler[e.arg] = "linked")
    BY <1>3, OrderKept DEF MayPost
  <2>2. e.arg \in Streams
    BY <1>1, <1>3, <2>1, Facts, PostTypes
  <2>3. QED
    BY <1>1, <1>2, <1>3, <2>1, <2>2 DEF Requested
<1>4. ASSUME NEW s \in Streams, handler'[s] = "linked" PROVE conn'[s] = "open"
  <2>1. CASE handler[s] = "linked"
    BY <1>1, <1>2, <2>1 DEF Requested
  <2>2. CASE handler[s] # "linked"
    <3>1. \E x \in Exchange : Link(x) \/ Enter(x) \/ Check(x) \/ PostRequest(x)
      BY <1>4, <2>2, HandlerMoves
    <3>2. Link(s)
      BY <1>1, <1>4, <2>2, <3>1 DEF Link, Enter, Check, PostRequest, Set, Exchange
    <3>3. QED
      BY <1>1, <3>2, NotACall DEF Link, Set
  <2>3. QED
    BY <2>1, <2>2
<1>5. QED
  BY <1>3, <1>4 DEF Requested

LEMMA CoveredKept ==
  ASSUME IInv, QuietInv, Next
  PROVE  Covered'
<1>1. Covered /\ Silent
  BY DEF QuietInv
<1> SUFFICES ASSUME NEW c \in Conns, conn'[c] = "closing"
             PROVE  Closing(c)' \/ (c \in Ws /\ recv'[c] = "post")
  BY DEF Covered
<1>2. CASE conn[c] = "closing"
  <2>1. CASE Closing(c)
    <3>1. ~ (Free /\ frame.arg = c)
      BY Opened, <1>2 DEF Listed, Free
    <3>2. QED
      BY <2>1, <3>1, ClosingLasts
  <2>2. CASE c \in Ws /\ recv[c] = "post"
    BY <2>2, RecvChanges
  <2>3. QED
    BY <1>1, <1>2, <2>1, <2>2 DEF Covered
<1>3. CASE conn[c] # "closing"
  BY <1>3, ConnChanges
<1>4. QED
  BY <1>2, <1>3

\* In conn_cleanup R does nothing else.
LEMMA InCleanup ==
  ASSUME Next, at = "free"
  PROVE  Free \/ UNCHANGED <<at, frame>>
<1>1. CASE Network
  BY <1>1 DEF Network, Accept, RecvDone, Enter
<1>2. CASE Callback
  BY <1>2 DEF Callback, PostOpen, Rearm, PostMessage, RecvAgain, RecvClose, PostClose, Check, Link,
              PostRequest
<1>3. CASE Program
  BY <1>3 DEF Program, Start, Stop, Close, SendDone, WsSend, StreamSend, CloseConn, InCode
<1>4. CASE Stopping
  BY <1>4 DEF Stopping, StopHttp, StopPending, StopAccept, StopConns, StopWait, StopStreams
<1>5. CASE Loop
  BY <1>5 DEF Loop, RunOnOpen, RunOnMessage, Skip, RunOnClose, RunCleanup, RunHandler, FreeServer, Due
<1>6. CASE Return
  BY <1>6 DEF Return, ReturnOpen, ReturnHandler, ReturnClose
<1>7. QED
  BY <1>1, <1>2, <1>3, <1>4, <1>5, <1>6 DEF Next

LEMMA ReceivingKept ==
  ASSUME IInv, QuietInv, Next
  PROVE  Receiving'
<1>1. Listed /\ Listed' /\ Ended /\ Receiving
  BY Opened, Inductive DEF QuietInv, IInv, LifeInv
<1> SUFFICES ASSUME NEW w \in Ws
             PROVE  /\ recv'[w] = "pending" => conn'[w] = "open"
                    /\ w \in conns' \/ recv'[w] = "idle" \/ (at' = "free" /\ frame'.arg = w)
  BY DEF Receiving
<1>2. w \in Conns
  BY NotACall
<1>3. recv'[w] = "pending" => conn'[w] = "open"
  <2>1. SUFFICES ASSUME recv'[w] = "pending" PROVE conn'[w] = "open"
    OBVIOUS
  <2>2. conn[w] = "open"
    BY <1>1, <2>1, RecvChanges DEF Receiving
  <2>3. ~ Closing(w)
    BY <1>1, <1>2, <2>2 DEF Ended, Listed
  <2>4. QED
    BY <1>2, <2>1, <2>2, <2>3, ConnChanges
<1>4. w \in conns' \/ recv'[w] = "idle" \/ (at' = "free" /\ frame'.arg = w)
  <2>1. SUFFICES ASSUME w \notin conns', recv'[w] # "idle" PROVE at' = "free" /\ frame'.arg = w
    OBVIOUS
  <2>2. conn'[w] \notin {"open", "closing"}
    BY <1>1, <1>2, <2>1 DEF Listed
  <2>3. recv[w] # "idle" \/ conn[w] = "open"
    BY <2>1, RecvChanges
  <2>4. CASE w \in conns
    BY <1>1, <1>2, <2>2, <2>4, ConnChanges DEF Listed
  <2>5. CASE w \notin conns
    <3>1. recv[w] # "idle" /\ at = "free" /\ frame.arg = w
      BY <1>1, <1>2, <2>3, <2>5 DEF Receiving, Listed
    <3>2. ~ Free
      BY <3>1 DEF Free
    <3>3. QED
      BY <3>1, <3>2, InCleanup
  <2>6. QED
    BY <2>4, <2>5
<1>5. QED
  BY <1>3, <1>4

LEMMA StoppedKept ==
  ASSUME IInv, QuietInv, Quiet, Next
  PROVE  Stopped'
<1>1. /\ Typed /\ TypeOK /\ Listed /\ Listed' /\ Ended /\ Receiving /\ Stopped
      /\ state \in {"created", "started", "stopped"}
      /\ handler \in [Exchange -> {"none", "called", "checked", "linked", "done", "astray"}]
      /\ opened \subseteq conns
  BY Opened, Inductive DEF QuietInv, TypeOK, IInv, LifeInv
<1>2. ASSUME state' = "created"
      PROVE  /\ ~serving' /\ accept' = "off" /\ conns' = {} /\ at' \notin Steps
             /\ \A x \in Exchange : handler'[x] = "none"
             /\ \A e \in posted' : e.fn = "cleanup"
  <2>1. state = "created"
    BY <1>2 DEF Next, Network, Callback, Program, Stopping, Loop, Return, Accept, RecvDone, Enter,
         PostOpen, Rearm, PostMessage, RecvAgain, RecvClose, PostClose, Check, Link, PostRequest,
         Start, Stop, Close, SendDone, WsSend, StreamSend, CloseConn, StopHttp, StopPending,
         StopAccept, StopConns, StopWait, StopStreams, RunOnOpen, RunOnMessage, Skip, RunOnClose,
         RunCleanup, RunHandler, FreeServer, ReturnOpen, ReturnHandler, ReturnClose, Free
  <2>2. /\ ~serving /\ accept = "off" /\ conns = {} /\ at \notin Steps
        /\ \A x \in Exchange : handler[x] = "none"
        /\ \A e \in posted : e.fn = "cleanup"
    BY <1>1, <2>1 DEF Stopped
  <2>3. ASSUME NEW e \in posted', e \notin posted PROVE e.fn = "cleanup"
    <3>1. e \in Posts /\ MayPost(e)
      BY <2>3, OrderKept
    <3>2. \A w \in Ws : recv[w] \notin {"got", "post"}
      BY <1>1, <2>2, NotACall DEF Receiving, Ended, Listed
    <3>3. QED
      BY <2>2, <3>1, <3>2, PostTypes DEF MayPost, Exchange
  <2> DEFINE Goal == /\ ~serving' /\ accept' = "off" /\ conns' = {} /\ at' \notin Steps
                     /\ \A x \in Exchange : handler'[x] = "none"
  <2>4. ASSUME Network PROVE Goal
    BY <2>2, <2>4 DEF Network, Accept, RecvDone, Enter
  <2>5. ASSUME Callback PROVE Goal
    BY <2>2, <2>5 DEF Callback, PostOpen, Rearm, PostMessage, RecvAgain, RecvClose, PostClose, Check,
                      Link, PostRequest
  <2>6. ASSUME Program PROVE Goal
    <3>1. opened = {}
      BY <1>1, <2>2
    <3>2. CASE Start \/ Stop
      BY <1>2, <2>1, <3>2 DEF Start, Stop
    <3>3. CASE Close
      BY <2>1, <2>2, <3>3 DEF Close
    <3>4. CASE SendDone
      BY <2>2, <3>4 DEF SendDone, Steps
    <3>5. QED
      BY <2>6, <3>1, <3>2, <3>3, <3>4 DEF Program, WsSend, StreamSend, CloseConn
  <2>7. ASSUME Stopping PROVE Goal
    BY <2>2, <2>7 DEF Stopping, StopHttp, StopPending, StopAccept, StopConns, StopWait, StopStreams,
                      Steps
  <2>8. ASSUME Loop PROVE Goal
    BY <2>2, <2>8 DEF Loop, RunOnOpen, RunOnMessage, Skip, RunOnClose, RunCleanup, RunHandler,
                      FreeServer, Cleanup, Steps
  <2>9. ASSUME Return PROVE Goal
    BY <2>2, <2>9 DEF Return, ReturnOpen, ReturnHandler, ReturnClose, Free, Cleanup, Steps
  <2>10. QED
    BY <2>2, <2>3, <2>4, <2>5, <2>6, <2>7, <2>8, <2>9 DEF Next
<1>3. at' \in Steps => state' = "stopped"
  <2> DEFINE Goal == at' \in Steps => state' = "stopped"
  <2>1. at \in Steps => state = "stopped"
    BY <1>1 DEF Stopped
  <2>2. CASE Network
    BY <2>1, <2>2 DEF Network, Accept, RecvDone, Enter
  <2>3. CASE Callback
    BY <2>1, <2>3 DEF Callback, PostOpen, Rearm, PostMessage, RecvAgain, RecvClose, PostClose, Check,
                      Link, PostRequest
  <2>4. CASE Program
    BY <2>1, <2>4 DEF Program, Start, Stop, Close, SendDone, WsSend, StreamSend, CloseConn, InCode,
                      Steps
  <2>5. CASE Stopping
    BY <2>1, <2>5 DEF Stopping, StopHttp, StopPending, StopAccept, StopConns, StopWait, StopStreams,
                      Steps
  <2>6. CASE Loop
    BY <2>1, <2>6 DEF Loop, RunOnOpen, RunOnMessage, Skip, RunOnClose, RunCleanup, RunHandler,
                      FreeServer, Cleanup, Steps
  <2>7. CASE Return
    BY <2>1, <2>7 DEF Return, ReturnOpen, ReturnHandler, ReturnClose, Free, Cleanup, Steps
  <2>8. QED
    BY <2>2, <2>3, <2>4, <2>5, <2>6, <2>7 DEF Next
<1> DEFINE Goal ==
       /\ \A s \in Streams : handler'[s] \notin {"checked", "linked"}
       /\ \A e \in posted' : e.fn # "onrequest"
       /\ at' \notin {"http", "pending", "accept"} => accept' = "off"
       /\ at' \notin {"http", "pending", "accept", "conns"} => conns' \cap Ws \subseteq scheduled'
       /\ at' \notin {"http", "pending", "accept", "conns", "wait"} =>
            \A w \in Ws : recv'[w] = "idle"
       /\ at' \notin Steps => conns' \subseteq scheduled'
\* The stop begins: no stream is on its way (QuietStop).
<1>4. ASSUME state' = "stopped", state # "stopped" PROVE Goal
  <2>1. Stop \/ (Close /\ state = "started")
    BY <1>4 DEF Next, Network, Callback, Program, Stopping, Loop, Return, Accept, RecvDone, Enter,
         PostOpen, Rearm, PostMessage, RecvAgain, RecvClose, PostClose, Check, Link, PostRequest,
         Start, Close, SendDone, WsSend, StreamSend, CloseConn, StopHttp, StopPending,
         StopAccept, StopConns, StopWait, StopStreams, RunOnOpen, RunOnMessage, Skip, RunOnClose,
         RunCleanup, RunHandler, FreeServer, ReturnOpen, ReturnHandler, ReturnClose, Free
  <2>2. at' = "http" /\ QuietStop /\ UNCHANGED <<handler, queue>>
    BY <2>1 DEF Stop, Close
  <2>3. posted' = posted
    BY <2>2 DEF posted
  <2>4. \A e \in posted : e.fn # "onrequest"
    BY <1>1, <2>2, Facts DEF QuietStop, Queued, posted, Elements
  <2>5. QED
    BY <2>2, <2>3, <2>4 DEF QuietStop, Steps
<1>5. ASSUME state = "stopped" PROVE Goal
  <2>1. /\ \A s \in Streams : handler[s] \notin {"checked", "linked"}
        /\ \A e \in posted : e.fn # "onrequest"
        /\ at \notin {"http", "pending", "accept"} => accept = "off"
        /\ at \notin {"http", "pending", "accept", "conns"} => conns \cap Ws \subseteq scheduled
        /\ at \notin {"http", "pending", "accept", "conns", "wait"} => \A w \in Ws : recv[w] = "idle"
        /\ at \notin Steps => conns \subseteq scheduled
    BY <1>1, <1>5 DEF Stopped
  <2>2. \A s \in Streams : handler'[s] \notin {"checked", "linked"}
    <3>1. ASSUME NEW s \in Streams PROVE handler'[s] \notin {"checked", "linked"}
      <4>1. handler' = handler \/ \E x \in Exchange : Link(x) \/ Enter(x) \/ Check(x) \/ PostRequest(x)
        BY HandlerMoves
      <4>2. QED
        BY <1>1, <1>5, <2>1, <4>1 DEF Link, Enter, Check, PostRequest, Set, Exchange
    <3>2. QED
      BY <3>1
  <2>3. \A e \in posted' : e.fn # "onrequest"
    <3>1. ASSUME NEW e \in posted', e \notin posted, e.fn = "onrequest" PROVE FALSE
      <4>1. e \in Posts /\ MayPost(e)
        BY <3>1, OrderKept
      <4>2. e.arg \in Streams /\ handler[e.arg] = "linked"
        BY <3>1, <4>1, PostTypes DEF MayPost
      <4>3. QED
        BY <2>1, <4>2
    <3>2. QED
      BY <2>1, <3>1
  <2>4. at' \notin {"http", "pending", "accept"} => accept' = "off"
    <3>1. CASE Network
      BY <2>1, <3>1 DEF Network, Accept, RecvDone, Enter
    <3>2. CASE Callback
      BY <2>1, <3>2 DEF Callback, PostOpen, Rearm, PostMessage, RecvAgain, RecvClose, PostClose, Check,
                        Link, PostRequest
    <3>3. CASE Program
      BY <1>5, <2>1, <3>3 DEF Program, Start, Stop, Close, SendDone, WsSend, StreamSend, CloseConn,
                              InCode
    <3>4. CASE Stopping
      BY <2>1, <3>4 DEF Stopping, StopHttp, StopPending, StopAccept, StopConns, StopWait, StopStreams
    <3>5. CASE Loop
      BY <2>1, <3>5 DEF Loop, RunOnOpen, RunOnMessage, Skip, RunOnClose, RunCleanup, RunHandler,
                        FreeServer, Cleanup, Due
    <3>6. CASE Return
      BY <2>1, <3>6 DEF Return, ReturnOpen, ReturnHandler, ReturnClose, Free, Cleanup
    <3>7. QED
      BY <3>1, <3>2, <3>3, <3>4, <3>5, <3>6 DEF Next
  <2>5. /\ at' \notin {"http", "pending", "accept", "conns"} => conns' \cap Ws \subseteq scheduled'
        /\ at' \notin Steps => conns' \subseteq scheduled'
    <3> DEFINE Lists == /\ at' \notin {"http", "pending", "accept", "conns"} =>
                             conns' \cap Ws \subseteq scheduled'
                        /\ at' \notin Steps => conns' \subseteq scheduled'
    <3>1. scheduled \subseteq scheduled' /\ conns \subseteq Conns /\ Conns \subseteq Ws \cup Streams
      BY <1>1, Monotone, NotACall DEF TypeOK
    <3>2. ASSUME conns' \subseteq conns, at' = at \/ {at, at'} \subseteq {"user", "send", "free"}
          PROVE  Lists
      BY <2>1, <3>1, <3>2 DEF Steps
    <3>3. CASE Network
      <4>1. ASSUME NEW w \in Ws, Accept(w) PROVE Lists
        <5>1. at' = at /\ at \in {"http", "pending", "accept"}
          BY <2>1, <4>1 DEF Accept
        <5>2. QED
          BY <5>1 DEF Steps
      <4>2. QED
        BY <3>2, <3>3, <4>1 DEF Network, RecvDone, Enter
    <3>4. CASE Callback
      <4>1. ASSUME NEW x \in Exchange, Link(x) PROVE conns' \subseteq conns /\ at' = at
        BY <2>1, <4>1 DEF Link, Exchange
      <4>2. QED
        BY <3>2, <3>4, <4>1 DEF Callback, PostOpen, Rearm, PostMessage, RecvAgain, RecvClose, PostClose,
                                Check, PostRequest
    <3>5. CASE Program
      BY <1>5, <3>2, <3>5 DEF Program, Start, Stop, Close, SendDone, WsSend, StreamSend, CloseConn,
                              InCode
    <3>6. CASE Stopping
      <4>1. CASE StopConns
        BY <3>1, <4>1 DEF StopConns, CloseAll, Steps
      <4>2. CASE StopWait
        BY <2>1, <3>1, <4>2 DEF StopWait, Steps
      <4>3. CASE StopStreams
        <5>1. /\ conns' = conns /\ scheduled' = scheduled \cup (conns \cap Streams)
              /\ conns \cap Ws \subseteq scheduled
          BY <2>1, <4>3 DEF StopStreams, CloseAll
        <5>2. QED
          BY <3>1, <5>1
      <4>4. CASE StopHttp \/ StopPending \/ StopAccept
        BY <4>4 DEF StopHttp, StopPending, StopAccept, Steps
      <4>5. QED
        BY <3>6, <4>1, <4>2, <4>3, <4>4 DEF Stopping
    <3>7. CASE Loop
      BY <3>2, <3>7 DEF Loop, RunOnOpen, RunOnMessage, Skip, RunOnClose, RunCleanup, RunHandler,
                        FreeServer, Cleanup, Due
    <3>8. CASE Return
      BY <3>2, <3>8 DEF Return, ReturnOpen, ReturnHandler, ReturnClose, Free, Cleanup
    <3>9. QED
      BY <3>3, <3>4, <3>5, <3>6, <3>7, <3>8 DEF Next
  <2>6. ASSUME at' \notin {"http", "pending", "accept", "conns", "wait"}, NEW w \in Ws
        PROVE  recv'[w] = "idle"
    <3>1. w \in Conns
      BY NotACall
    <3>2. CASE StopWait
      BY <1>1, <3>2 DEF StopWait, Receiving
    <3>3. CASE ~ StopWait
      <4>1. at \notin {"http", "pending", "accept", "conns", "wait"}
        <5>1. CASE Stopping
          BY <2>6, <3>3, <5>1 DEF Stopping, StopHttp, StopPending, StopAccept, StopConns, StopStreams
        <5>2. CASE ~ Stopping
          BY <2>6, <5>2, StaysInStop DEF Steps
        <5>3. QED
          BY <5>1, <5>2
      <4>2. recv[w] = "idle" /\ (w \in conns => w \in scheduled)
        BY <2>1, <4>1
      <4>3. conn[w] # "open"
        BY <1>1, <3>1, <4>2 DEF Listed
      <4>4. QED
        BY <4>2, <4>3, RecvChanges
    <3>4. QED
      BY <3>2, <3>3
  <2>7. QED
    BY <2>2, <2>3, <2>4, <2>5, <2>6
<1>6. QED
  BY <1>2, <1>3, <1>4, <1>5 DEF Stopped

\* What changes the server itself, and when R's program enters a stop.
LEMMA ServerMoves ==
  ASSUME Next
  PROVE  /\ handle' = handle \/ Close
         /\ state' = state \/ Start \/ Stop \/ Close
         /\ gone' = gone \/ FreeServer
         /\ serving' = serving \/ Start \/ StopHttp \/ FreeServer
         /\ at' \in Steps => at \in Steps \/ Stop \/ Close
         /\ \/ conns' \subseteq conns
            \/ accept = "armed"
            \/ \E x \in Exchange : handler[x] = "checked"
<1> DEFINE Goal == /\ handle' = handle \/ Close
                   /\ state' = state \/ Start \/ Stop \/ Close
                   /\ gone' = gone \/ FreeServer
                   /\ serving' = serving \/ Start \/ StopHttp \/ FreeServer
                   /\ at' \in Steps => at \in Steps \/ Stop \/ Close
                   /\ \/ conns' \subseteq conns
                      \/ accept = "armed"
                      \/ \E x \in Exchange : handler[x] = "checked"
<1>1. ASSUME Network PROVE Goal
  BY <1>1 DEF Network, Accept, RecvDone, Enter
<1>2. ASSUME Callback PROVE Goal
  BY <1>2 DEF Callback, PostOpen, Rearm, PostMessage, RecvAgain, RecvClose, PostClose, Check, Link,
              PostRequest
<1>3. ASSUME Program PROVE Goal
  BY <1>3 DEF Program, Start, SendDone, WsSend, StreamSend, CloseConn, Stop, Close, Steps
<1>4. ASSUME Stopping PROVE Goal
  BY <1>4 DEF Stopping, StopHttp, StopPending, StopAccept, StopConns, StopWait, StopStreams, CloseAll,
              Steps
<1>5. ASSUME Loop PROVE Goal
  <2>1. CASE FreeServer
    BY <2>1 DEF FreeServer
  <2>2. CASE ~ FreeServer
    BY <1>5, <2>2 DEF Loop, RunOnOpen, RunOnMessage, Skip, RunOnClose, RunCleanup, RunHandler, Cleanup,
                      Steps
  <2>3. QED
    BY <2>1, <2>2
<1>6. ASSUME Return PROVE Goal
  BY <1>6 DEF Return, ReturnOpen, ReturnHandler, ReturnClose, Free, Cleanup, Steps
<1>7. QED
  BY <1>1, <1>2, <1>3, <1>4, <1>5, <1>6 DEF Next

\* Once the server is freed, nobody has a call to post.
LEMMA NobodyPosts ==
  ASSUME IInv, QuietInv, gone, NEW e \in Posts
  PROVE  ~ MayPost(e)
<1>1. /\ Receiving /\ Stopped /\ Cleaned /\ state \in {"created", "started", "stopped"}
  BY Opened DEF QuietInv
<1>2. /\ ~handle /\ at \notin Steps /\ conns = {} /\ frame = Idle /\ state # "started"
      /\ \A x \in Exchange : handler[x] \notin {"checked", "linked"}
  BY <1>1 DEF Cleaned
<1>3. accept = "off"
  BY <1>1, <1>2 DEF Stopped, Steps
<1>4. \A w \in Ws : recv[w] = "idle"
  BY <1>1, <1>2, NotACall DEF Receiving
<1>5. QED
  BY <1>2, <1>3, <1>4, PostTypes DEF MayPost, Exchange

LEMMA CleanedKept ==
  ASSUME IInv, QuietInv, Quiet, Next
  PROVE  Cleaned'
<1>1. /\ Typed /\ queue \in Seq(Posts) /\ queue' \in Seq(Posts) /\ Listed /\ Stopped /\ Cleaned
      /\ state \in {"created", "started", "stopped"}
      /\ handler \in [Exchange -> {"none", "called", "checked", "linked", "done", "astray"}]
  BY Opened, Inductive DEF QuietInv, TypeOK, IInv, LifeInv, Typed
<1>2. ASSUME ~handle'
      PROVE  state' # "started" /\ \A x \in Exchange : handler'[x] \notin {"checked", "linked"}
  <2>1. CASE Close
    BY <2>1 DEF Close, QuietClose
  <2>2. CASE ~ Close
    <3>1. ~handle /\ state # "started" /\ \A x \in Exchange : handler[x] \notin {"checked", "linked"}
      BY <1>1, <1>2, <2>2, ServerMoves DEF Cleaned
    <3>2. state' = state
      BY <2>2, <3>1, ServerMoves DEF Start, Stop
    <3>3. ASSUME NEW x \in Exchange PROVE handler'[x] \notin {"checked", "linked"}
      <4>1. state = "created" => handler[x] = "none"
        BY <1>1 DEF Stopped
      <4>2. handler' = handler \/ \E y \in Exchange : Link(y) \/ Enter(y) \/ Check(y) \/ PostRequest(y)
        BY HandlerMoves
      <4>3. QED
        BY <1>1, <3>1, <4>1, <4>2 DEF Link, Enter, Check, PostRequest, Set
    <3>4. QED
      BY <3>1, <3>2, <3>3
  <2>3. QED
    BY <2>1, <2>2
<1>3. ASSUME NEW e \in posted', e.fn = "cleanup" PROVE ~handle' /\ at' \notin Steps
  <2>1. CASE e \in posted
    <3>1. ~handle /\ at \notin Steps
      BY <1>1, <1>3, <2>1 DEF Cleaned
    <3>2. ~ Close /\ ~ Stop
      BY <3>1 DEF Close, Stop
    <3>3. QED
      BY <3>1, <3>2, ServerMoves
  <2>2. CASE e \notin posted
    BY <1>3, <2>2, OrderKept
  <2>3. QED
    BY <2>1, <2>2
<1>4. ASSUME gone'
      PROVE  /\ ~handle' /\ ~serving' /\ queue' = <<>> /\ at' \notin Steps /\ conns' = {} /\ frame' = Idle
  <2>1. CASE FreeServer
    <3>1. /\ Head(queue).fn = "cleanup" /\ queue # <<>> /\ Pop /\ at = "user" /\ frame = Idle
          /\ UNCHANGED <<handle, at, frame>> /\ ~serving' /\ conns' = {}
      BY <2>1 DEF FreeServer, Due
    <3>2. Head(queue) \in posted
      BY <1>1, <3>1, Taken
    <3>3. ~handle
      BY <1>1, <3>1, <3>2 DEF Cleaned
    <3>4. queue' = <<>>
      BY <2>1, NothingLeft
    <3>5. QED
      BY <3>1, <3>3, <3>4 DEF Steps
  <2>2. CASE ~ FreeServer
    <3>1. gone
      BY <1>4, <2>2, ServerMoves
    <3>2. /\ ~handle /\ ~serving /\ queue = <<>> /\ at \notin Steps /\ conns = {} /\ frame = Idle
          /\ state # "started" /\ \A x \in Exchange : handler[x] \notin {"checked", "linked"}
      BY <1>1, <3>1 DEF Cleaned
    <3>3. posted = {}
      BY <3>2, EmptySeq DEF posted, Elements
    <3>4. posted' = {}
      BY <3>1, <3>3, OrderKept, NobodyPosts
    <3>5. queue' = <<>>
      <4>1. queue' = <<>> \/ 1 \in 1..Len(queue')
        BY <1>1, EmptySeq, LenProperties
      <4>2. posted' = Elements(queue')
        BY DEF posted
      <4>3. QED
        BY <3>4, <4>1, <4>2 DEF Elements
    <3>6. frame' = Idle
      BY <3>2, <3>3, FrameChanges
    <3>7. ~handle' /\ ~serving' /\ at' \notin Steps
      <4>1. ~ Close /\ ~ Stop /\ ~ Start /\ ~ StopHttp
        BY <3>2 DEF Close, Stop, Start, StopHttp, Steps
      <4>2. QED
        BY <2>2, <3>2, <4>1, ServerMoves
    <3>8. accept = "off"
      BY <1>1, <3>2 DEF Stopped, Steps
    <3>9. conns' = {}
      BY <3>2, <3>8, ServerMoves
    <3>10. QED
      BY <3>5, <3>6, <3>7, <3>9
  <2>3. QED
    BY <2>1, <2>2
<1>5. QED
  BY <1>2, <1>3, <1>4 DEF Cleaned

-----------------------------------------------------------------------------
(* The theorems.                                                             *)

LEMMA QuietInitially == Init => QuietInv
<1> SUFFICES ASSUME Init PROVE QuietInv
  OBVIOUS
<1> USE DEF Init
<1>1. /\ posted = {} /\ frame = Idle /\ frame.fn = "none" /\ at = "user"
      /\ \A c \in Conns : frame.arg # c /\ accepted # c /\ ~ Closing(c)
  BY NotACall DEF posted, Elements, Closing
<1>2. Ordered(queue, Finally)
  BY DEF Ordered
<1>3. Ended /\ Silent /\ Covered
  BY <1>1 DEF Ended, Silent, Covered
<1>4. Requested /\ Receiving
  BY <1>1, NotACall DEF Requested, Receiving, Exchange
<1>5. Stopped /\ Cleaned
  BY <1>1 DEF Stopped, Cleaned, Steps
<1>6. QED
  BY <1>2, <1>3, <1>4, <1>5 DEF QuietInv

LEMMA QuietInductive ==
  ASSUME Quiet
  PROVE  IInv /\ QuietInv /\ [Next]_vars => QuietInv'
<1>1. ASSUME IInv, QuietInv, Next PROVE QuietInv'
  <2>1. Ordered(queue, Finally)'
    <3>1. Ordered(queue', Finally)
      BY <1>1, OrderKept
    <3>2. QED
      BY <3>1 DEF Ordered
  <2>2. QED
    BY <1>1, <2>1, EndedKept, SilentKept, RequestedKept, CoveredKept, ReceivingKept, StoppedKept,
       CleanedKept DEF QuietInv
<1>2. ASSUME QuietInv, UNCHANGED vars PROVE QuietInv'
  <2>1. /\ UNCHANGED <<server, accepts, handler, life, receives, wire, requests, queue, rthread, log>>
        /\ posted' = posted /\ QuietInv
        /\ \A c \in Conns : Closing(c)' = Closing(c)
    BY <1>2 DEF vars, posted, Closing
  <2>2. Ordered(queue, Finally)'
    BY <2>1 DEF QuietInv, Ordered
  <2>3. Ended' /\ Silent' /\ Requested'
    BY <2>1 DEF QuietInv, Ended, Silent, Requested
  <2>4. Covered' /\ Receiving'
    BY <2>1 DEF QuietInv, Covered, Receiving
  <2>5. Stopped' /\ Cleaned'
    BY <2>1 DEF QuietInv, Stopped, Cleaned
  <2>6. QED
    BY <2>2, <2>3, <2>4, <2>5 DEF QuietInv
<1>3. QED
  BY <1>1, <1>2

\* The order of the queue, and all that could break it.
THEOREM QuietInvariantHolds ==
  ASSUME Quiet
  PROVE  Spec => []QuietInv
<1>1. IInv /\ QuietInv /\ [Next]_vars => QuietInv'
  BY QuietInductive
<1>2. QED
  BY <1>1, QuietInitially, InvariantHolds, PTL DEF Spec

\* A connection that conn_cleanup has freed is known to nobody, when R closes
\* connections and the server while no callback still has its call to post
\* (CONN_STATE_CLOSED is "fully closed, safe to free", nanonext.h:273).
THEOREM SafelyFreed ==
  ASSUME Quiet
  PROVE  Spec => []SafeToFree
<1>1. IInv /\ QuietInv => SafeToFree
  <2> SUFFICES ASSUME IInv, QuietInv, NEW c \in Conns, conn[c] = "freed"
               PROVE  /\ \A i \in 1..Len(queue) : queue[i].arg # c
                      /\ frame.arg # c /\ c \notin opened
                      /\ c \in Ws => recv[c] = "idle"
    BY DEF SafeToFree
  <2>1. Listed /\ TypeOK /\ Silent /\ Receiving
    BY Opened DEF QuietInv
  <2>2. \A i \in 1..Len(queue) : queue[i].arg # c
    BY <2>1 DEF Silent, posted, Elements
  <2>3. frame.arg # c
    BY <2>1 DEF Silent
  <2>4. c \notin conns
    BY <2>1 DEF Listed
  <2>5. QED
    BY <2>1, <2>2, <2>3, <2>4 DEF TypeOK, Receiving
<1>2. QED
  BY <1>1, InvariantHolds, QuietInvariantHolds, PTL

\* When http_server_cleanup frees the server no call about it is posted or still
\* to be posted: it "runs after all pending later2 callbacks due to FIFO
\* ordering" (server.c:341), if R closed the server while no callback had its
\* call to post.  A handler callback that has not looked at the server's state
\* yet is not waited for, and not covered.
THEOREM CleanupComesLast ==
  ASSUME Quiet
  PROVE  Spec => []CleanupIsLast
<1>1. IInv /\ QuietInv => CleanupIsLast
  <2> SUFFICES ASSUME IInv, QuietInv, gone
               PROVE  /\ queue = <<>> /\ accept = "off"
                      /\ \A w \in Ws : recv[w] = "idle"
                      /\ \A x \in Exchange : handler[x] \notin {"checked", "linked"}
    BY DEF CleanupIsLast
  <2>1. Receiving /\ Stopped /\ Cleaned /\ state \in {"created", "started", "stopped"}
    BY Opened DEF QuietInv
  <2>2. /\ queue = <<>> /\ at \notin Steps /\ conns = {} /\ frame = Idle /\ state # "started"
        /\ \A x \in Exchange : handler[x] \notin {"checked", "linked"}
    BY <2>1 DEF Cleaned
  <2>3. accept = "off"
    BY <2>1, <2>2 DEF Stopped, Steps
  <2>4. \A w \in Ws : recv[w] = "idle"
    BY <2>1, <2>2, NotACall DEF Receiving
  <2>5. QED
    BY <2>2, <2>3, <2>4
<1>2. QED
  BY <1>1, InvariantHolds, QuietInvariantHolds, PTL
=============================================================================
