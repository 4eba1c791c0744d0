------------------------ MODULE DispatcherFlowProofs ------------------------
(***************************************************************************)
(* What is under way in the dispatcher: its sends, each task's message on  *)
(* the way to its daemon and back, the sync barrier, the sleeping R thread *)
(* and the steps of the shutdown.                                          *)
(***************************************************************************)
EXTENDS DispatcherProofs

USE DEF counters, queue, barrier, signals, replies, host, rthread, network, history

AfterPoly == {"closePipes", "freeSenders", "closeReplies", "closeQueue", "closeRep", "freed"}

\* Nothing starts once d->stopped is set, no handler drains, and each step of
\* dispatch_shutdown has put an end to something.
Stages ==
  /\ ~mtx.held => mtx = Free
  /\ mtx.held => ~stopped
  /\ ~InUse => stopped
  /\ ~InUse /\ main # "stopHost" => host_aio = "off"
  /\ main \in AfterPoly =>
       /\ up = {} /\ arrived = {} /\ uwq = <<>> /\ sig_aio = "idle"
       /\ \A p \in Pipes : init_aio[p] # "sending"
  /\ main \in AfterPoly \ {"closePipes"} => PipeCallbacksDone
  /\ main \in AfterPoly \ {"closePipes", "freeSenders"} =>
       \A p \in Pipes : slot[p].state = "NONE" /\ init_aio[p] = "idle"
  /\ main \in {"closeQueue", "closeRep", "freed"} => reply_active = {}
  /\ Fresh \in open => host_ctx = Fresh
  /\ main \in {"closeRep", "freed"} => inq = <<>> /\ Fresh \notin open

-----------------------------------------------------------------------------
(* The lock, the stop and the shutdown.                                      *)

LEMMA AppendElements ==
  ASSUME NEW S, NEW q \in Seq(S), NEW x \in S
  PROVE  /\ Len(Append(q, x)) = Len(q) + 1 /\ Len(q) \in Nat /\ Append(q, x)[Len(q) + 1] = x
         /\ \A i \in 1..Len(Append(q, x)) : i = Len(q) + 1 \/ (i \in 1..Len(q) /\ Append(q, x)[i] = q[i])
  BY AppendProperties, LenProperties

LEMMA LockTypes ==
  ASSUME IInv
  PROVE  /\ mtx \in [held : BOOLEAN, dequeued : BOOLEAN, ctx : Nat, msg : Int]
         /\ ~Free.held /\ ~Free.dequeued /\ Free.ctx = Fresh /\ Free.msg = NoAnswer
         /\ stopped \in BOOLEAN
         /\ slot \in [Pipes -> Slot]
         /\ init_aio \in [Pipes -> {"idle", "sending", "done", "failed"}]
         /\ phase \in [Pipes -> {"none", "attached", "added", "removed"}]
         /\ chan \in [Pipes -> Seq(Int)] /\ daemon \in [Pipes -> Int]
         /\ arrived \subseteq [pipe : Pipes, msg : Task, marker : BOOLEAN]
         /\ uwq \in Seq([pipe : Pipes, msg : Int]) /\ up \subseteq Pipes
         /\ count \in Nat /\ sync_generation \in Nat /\ sig_list \in Seq(Pipes)
  BY DispatcherAssumption DEF IInv, TypeOK, TypeHandlers, TypeDaemons, TypeNetwork, TypeSends, TypeQueue, Free

\* How the lock, the stop and the R thread go on.
LEMMA ControlMoves ==
  ASSUME IInv, Stages, Next
  PROVE  /\ stopped => stopped'
         /\ mtx.held => stopped' = stopped
         /\ mtx' = Free \/ (~stopped /\ ~stopped' /\ mtx'.held)
         /\ ~InUse /\ main # "stopHost" => host_aio' = host_aio
         /\ \/ main' = main
            \/ InUse /\ InUse'
            \/ Stop /\ main = "run" /\ main' = "stopHost" /\ stopped'
            \/ StopHost /\ main' = "stopRecv" /\ host_aio' = "off"
            \/ /\ ~InUse /\ main # "stopHost" /\ ~InUse' /\ main' # "stopHost"
               /\ \/ StopRecv \/ StopSig \/ ClosePoly \/ PolyClosed \/ FreeSenders
                  \/ CloseReplies \/ CloseQueue \/ CloseRep
<1> DEFINE Goal ==
         /\ stopped => stopped'
         /\ mtx.held => stopped' = stopped
         /\ mtx' = Free \/ (~stopped /\ ~stopped' /\ mtx'.held)
         /\ ~InUse /\ main # "stopHost" => host_aio' = host_aio
         /\ \/ main' = main
            \/ InUse /\ InUse'
            \/ Stop /\ main = "run" /\ main' = "stopHost" /\ stopped'
            \/ StopHost /\ main' = "stopRecv" /\ host_aio' = "off"
            \/ /\ ~InUse /\ main # "stopHost" /\ ~InUse' /\ main' # "stopHost"
               /\ \/ StopRecv \/ StopSig \/ ClosePoly \/ PolyClosed \/ FreeSenders
                  \/ CloseReplies \/ CloseQueue \/ CloseRep
<1>1. /\ mtx \in [held : BOOLEAN, dequeued : BOOLEAN, ctx : Nat, msg : Int]
      /\ ~Free.held /\ stopped \in BOOLEAN
      /\ mtx.held \/ mtx = Free
      /\ mtx.held => ~stopped
      /\ ~InUse => stopped
      /\ ~InUse /\ main # "stopHost" => host_aio = "off"
  BY LockTypes DEF Stages
<1>2. ASSUME UNCHANGED <<main, mtx, stopped, host_aio>> PROVE Goal
  BY <1>1, <1>2
<1>3. ASSUME DrainStep \/ DrainEnd PROVE Goal
  BY <1>1, <1>3 DEF DrainStep, DrainEnd
<1>4. ASSUME \E p \in Pipes : HandleConnect(p) \/ InitCb(p) \/ HandleDisconnect(p) PROVE Goal
  BY <1>1, <1>4 DEF HandleConnect, InitCb, HandleDisconnect, Unlock, DrainThen, Locking
<1>5. ASSUME (\E o \in orphan : SendConnReset(o)) \/ SigCb PROVE Goal
  BY <1>2, <1>5 DEF SendConnReset, SigCb, Unlock
<1>6. ASSUME RearmHost PROVE Goal
  BY <1>1, <1>6 DEF RearmHost, Locking
<1>7. ASSUME \E m \in arrived : HandleDaemonRecv(m) PROVE Goal
  BY <1>1, <1>7 DEF HandleDaemonRecv, Unlock, DrainThen, Locking
<1>8. ASSUME \E h \in Headers(count + 1) : HandleHostRecv(h) PROVE Goal
  <2>1. UNCHANGED <<mtx, stopped, main>> /\ host_aio = "recv"
    BY <1>8 DEF HandleHostRecv, Unlock
  <2>2. QED
    BY <1>1, <2>1 DEF InUse
<1>9. ASSUME \E id \in CancelIds : CancelDirect(id) PROVE Goal
  BY <1>2, <1>9 DEF CancelDirect
<1>10. ASSUME Gate \/ (\E n \in Targets : Wait(n)) \/ Recheck PROVE Goal
  BY <1>1, <1>10 DEF Gate, Wait, Recheck, RThreadOnly, InUse, Sleeping
<1>11. ASSUME Stop PROVE Goal
  BY <1>1, <1>11 DEF Stop, Locking, InUse
<1>12. ASSUME Shutdown PROVE Goal
  BY <1>1, <1>12 DEF Shutdown, StopHost, StopRecv, StopSig, ClosePoly, PolyClosed, FreeSenders,
         CloseReplies, CloseQueue, CloseRep, RThreadOnly, InUse
<1>13. ASSUME Network \/ Freed \/ (\E p \in Pipes : PipeStart(p) \/ Crash(p))
              \/ (\E p \in Pipes, marker \in Markers : DaemonReply(p, marker)) PROVE Goal
  BY <1>2, <1>13 DEF Network, Route, DaemonTake, ReplySent, Freed, vars, PipeStart, Crash, PipeDown,
                     DaemonReply, NetworkOnly
<1>14. QED
  BY <1>3, <1>4, <1>5, <1>6, <1>7, <1>8, <1>9, <1>10, <1>11, <1>12, <1>13 DEF Next, Callback

\* Once d->stopped is set, no handler starts or sends anything.
LEMMA OnceStopped ==
  ASSUME IInv, Stages, Next, stopped
  PROVE  /\ mtx' = Free /\ mtx = Free /\ stopped'
         /\ arrived' \subseteq arrived \/ up # {}
         /\ up' \subseteq up \/ main \notin AfterPoly
         /\ uwq = <<>> => uwq' = <<>> /\ (sig_aio = "idle" => sig_aio' = "idle")
         /\ inq = <<>> => inq' = <<>>
         /\ Fresh \in open' => Fresh \in open \/ host_aio = "rearm"
         /\ orphan = {} /\ PipeCallbacksDone => orphan' = {}
         /\ orphan = {} /\ reply_active = {} => reply_active' = {}
<1> DEFINE Goal ==
         /\ arrived' \subseteq arrived \/ up # {}
         /\ up' \subseteq up \/ main \notin AfterPoly
         /\ uwq = <<>> => uwq' = <<>> /\ (sig_aio = "idle" => sig_aio' = "idle")
         /\ inq = <<>> => inq' = <<>>
         /\ Fresh \in open' => Fresh \in open \/ host_aio = "rearm"
         /\ orphan = {} /\ PipeCallbacksDone => orphan' = {}
         /\ orphan = {} /\ reply_active = {} => reply_active' = {}
<1>1. mtx = Free /\ mtx' = Free /\ stopped' /\ ~mtx.held /\ stopped
  BY LockTypes, ControlMoves DEF Stages
<1>2. ASSUME \E p \in Pipes : HandleConnect(p) \/ InitCb(p) \/ HandleDisconnect(p) PROVE Goal
  <2>1. CASE \E p \in Pipes : HandleConnect(p) \/ InitCb(p)
    BY <1>1, <2>1 DEF HandleConnect, InitCb
  <2>2. CASE \E p \in Pipes : HandleDisconnect(p)
    BY <2>2 DEF HandleDisconnect, PipeCallbacksDone
  <2>3. QED
    BY <1>2, <2>1, <2>2
<1>3. ASSUME \E o \in orphan : SendConnReset(o) PROVE Goal
  BY <1>3 DEF SendConnReset, ReplySend
<1>4. ASSUME RearmHost \/ SigCb PROVE Goal
  BY <1>1, <1>4 DEF RearmHost, SigCb
<1>5. ASSUME \E m \in arrived : HandleDaemonRecv(m) PROVE Goal
  BY <1>1, <1>5 DEF HandleDaemonRecv
<1>6. ASSUME \E h \in Headers(count + 1) : HandleHostRecv(h) PROVE Goal
  BY <1>1, <1>6 DEF HandleHostRecv
<1>7. ASSUME \E id \in CancelIds : CancelDirect(id) PROVE Goal
  <2>1. PICK id \in CancelIds : CancelDirect(id)
    BY <1>7
  <2>2. /\ UNCHANGED <<arrived, up, orphan, reply_active>> /\ open' \subseteq open
        /\ uwq' = uwq /\ sig_aio' = sig_aio
    BY <1>1, <2>1 DEF CancelDirect, QueueSignal, CancelInq
  <2>3. inq = <<>> => inq' = <<>>
    BY <2>1, EmptySeq DEF CancelDirect, CancelInq
  <2>4. QED
    BY <2>2, <2>3
<1>8. ASSUME Gate \/ (\E n \in Targets : Wait(n)) \/ Recheck \/ Stop \/ Freed PROVE Goal
  BY <1>8 DEF Gate, Wait, Recheck, RThreadOnly, Stop, Freed, vars
<1>9. ASSUME Shutdown PROVE Goal
  <2>1. CASE StopHost \/ StopRecv \/ ClosePoly \/ PolyClosed \/ FreeSenders
    BY <2>1 DEF StopHost, StopRecv, ClosePoly, PolyClosed, FreeSenders, RThreadOnly
  <2>2. CASE StopSig
    <3>1. uwq = <<>> => UNCHANGED <<uwq, sig_aio>>
      BY <2>2, EmptySeq DEF StopSig
    <3>2. QED
      BY <2>2, <3>1 DEF StopSig
  <2>3. CASE CloseReplies \/ CloseQueue \/ CloseRep
    BY <2>3 DEF CloseReplies, CloseQueue, CloseRep, RThreadOnly
  <2>4. QED
    BY <1>9, <2>1, <2>2, <2>3 DEF Shutdown
<1>10. ASSUME Network PROVE Goal
  BY <1>10 DEF Network, Route, DaemonTake, PipeDown, ReplySent, NetworkOnly
<1>11. ASSUME \/ \E p \in Pipes : PipeStart(p) \/ Crash(p)
              \/ \E p \in Pipes, marker \in Markers : DaemonReply(p, marker)
       PROVE  Goal
  BY <1>11 DEF PipeStart, Crash, PipeDown, DaemonReply, NetworkOnly, InUse, AfterPoly
<1>12. ~DrainStep /\ ~DrainEnd
  BY <1>1 DEF DrainStep, DrainEnd
<1>13. Goal
  BY <1>2, <1>3, <1>4, <1>5, <1>6, <1>7, <1>8, <1>9, <1>10, <1>11, <1>12 DEF Next, Callback
<1>14. QED
  BY <1>1, <1>13

-----------------------------------------------------------------------------
(* How the slot, the init send and the phase of a pipe change.               *)

LEMMA PhaseChanges ==
  ASSUME IInv, Next, NEW p \in Pipes
  PROVE  \/ phase'[p] = phase[p]
         \/ phase[p] = "none" /\ phase'[p] = "attached" /\ main \notin AfterPoly
         \/ phase[p] = "attached" /\ phase'[p] = "added" /\ HandleConnect(p)
         \/ phase[p] = "added" /\ phase'[p] = "removed" /\ HandleDisconnect(p) /\ p \notin up
<1> DEFINE Goal ==
         \/ phase'[p] = phase[p]
         \/ phase[p] = "none" /\ phase'[p] = "attached" /\ main \notin AfterPoly
         \/ phase[p] = "attached" /\ phase'[p] = "added" /\ HandleConnect(p)
         \/ phase[p] = "added" /\ phase'[p] = "removed" /\ HandleDisconnect(p) /\ p \notin up
<1>1. phase \in [Pipes -> {"none", "attached", "added", "removed"}]
  BY LockTypes
<1>2. ASSUME UNCHANGED phase PROVE Goal
  BY <1>2
<1>3. ASSUME NEW q \in Pipes, HandleConnect(q) \/ HandleDisconnect(q) PROVE Goal
  <2>1. CASE HandleConnect(q)
    <3>1. phase[q] = "attached" /\ phase' = [phase EXCEPT ![q] = "added"]
      BY <2>1 DEF HandleConnect
    <3>2. QED
      BY <1>1, <2>1, <3>1
  <2>2. CASE HandleDisconnect(q)
    <3>1. phase[q] = "added" /\ phase' = [phase EXCEPT ![q] = "removed"] /\ q \notin up
      BY <2>2 DEF HandleDisconnect
    <3>2. QED
      BY <1>1, <2>2, <3>1
  <2>3. QED
    BY <1>3, <2>1, <2>2
<1>4. ASSUME NEW q \in Pipes, PipeStart(q) PROVE Goal
  BY <1>1, <1>4 DEF PipeStart, InUse, AfterPoly
<1>5. ASSUME DrainStep \/ DrainEnd \/ RearmHost \/ SigCb PROVE Goal
  BY <1>5 DEF DrainStep, DrainEnd, RearmHost, SigCb
<1>6. ASSUME \/ \E q \in Pipes : InitCb(q)
             \/ \E o \in orphan : SendConnReset(o)
             \/ \E m \in arrived : HandleDaemonRecv(m)
      PROVE  Goal
  BY <1>6 DEF InitCb, SendConnReset, HandleDaemonRecv
<1>7. ASSUME \/ \E h \in Headers(count + 1) : HandleHostRecv(h)
             \/ \E id \in CancelIds : CancelDirect(id)
      PROVE  Goal
  BY <1>7 DEF HandleHostRecv, CancelDirect
<1>8. ASSUME Gate \/ (\E n \in Targets : Wait(n)) \/ Recheck \/ Stop \/ Freed PROVE Goal
  BY <1>8 DEF Gate, Wait, Recheck, RThreadOnly, Stop, Freed, vars
<1>9. ASSUME Shutdown PROVE Goal
  BY <1>9 DEF Shutdown, StopHost, StopRecv, StopSig, ClosePoly, PolyClosed, FreeSenders,
         CloseReplies, CloseQueue, CloseRep, RThreadOnly
<1>10. ASSUME Network \/ (\E q \in Pipes : Crash(q))
              \/ (\E q \in Pipes, marker \in Markers : DaemonReply(q, marker)) PROVE Goal
  BY <1>10 DEF Network, Route, DaemonTake, PipeDown, ReplySent, NetworkOnly, Crash, DaemonReply
<1>11. QED
  BY <1>3, <1>4, <1>5, <1>6, <1>7, <1>8, <1>9, <1>10 DEF Next, Callback

\* The init send's aio is in use from HandleConnect to InitCb.
LEMMA InitAioChanges ==
  ASSUME IInv, Next, NEW p \in Pipes
  PROVE  \/ init_aio'[p] = init_aio[p]
         \/ init_aio'[p] = "idle" /\ InitCb(p)
         \/ /\ init_aio'[p] = "sending" /\ HandleConnect(p) /\ ~stopped
            /\ slot'[p].state = "INIT" /\ uwq' = Append(uwq, [pipe |-> p, msg |-> InitMsg])
         \/ init_aio'[p] = "done" /\ Route /\ Head(uwq) = [pipe |-> p, msg |-> InitMsg]
         \/ init_aio[p] = "sending" /\ init_aio'[p] = "failed" /\ ClosePoly
<1> DEFINE Goal ==
         \/ init_aio'[p] = init_aio[p]
         \/ init_aio'[p] = "idle" /\ InitCb(p)
         \/ /\ init_aio'[p] = "sending" /\ HandleConnect(p) /\ ~stopped
            /\ slot'[p].state = "INIT" /\ uwq' = Append(uwq, [pipe |-> p, msg |-> InitMsg])
         \/ init_aio'[p] = "done" /\ Route /\ Head(uwq) = [pipe |-> p, msg |-> InitMsg]
         \/ init_aio[p] = "sending" /\ init_aio'[p] = "failed" /\ ClosePoly
<1>1. /\ init_aio \in [Pipes -> {"idle", "sending", "done", "failed"}]
      /\ uwq \in Seq([pipe : Pipes, msg : Int]) /\ slot \in [Pipes -> Slot]
  BY LockTypes
<1>2. ASSUME NEW q \in Pipes, HandleConnect(q) PROVE Goal
  <2>1. \/ UNCHANGED init_aio
        \/ /\ ~stopped
           /\ slot' = [slot EXCEPT ![q] = [state |-> "INIT", msgid |-> 0,
                                           gen |-> sync_generation - 1, ctx |-> Fresh]]
           /\ init_aio' = [init_aio EXCEPT ![q] = "sending"]
           /\ uwq' = Append(uwq, [pipe |-> q, msg |-> InitMsg])
    BY <1>2 DEF HandleConnect
  <2>2. QED
    BY <1>1, <1>2, <2>1
<1>3. ASSUME NEW q \in Pipes, InitCb(q) PROVE Goal
  <2>1. init_aio' = [init_aio EXCEPT ![q] = "idle"]
    BY <1>3 DEF InitCb
  <2>2. QED
    BY <1>1, <1>3, <2>1
<1>4. ASSUME Route PROVE Goal
  <2>1. /\ Head(uwq) \in [pipe : Pipes, msg : Int]
        /\ init_aio' = IF Head(uwq).msg = InitMsg THEN [init_aio EXCEPT ![Head(uwq).pipe] = "done"]
                                                 ELSE init_aio
    BY <1>1, <1>4, HeadTailProperties DEF Route
  <2>2. CASE Head(uwq).msg = InitMsg /\ Head(uwq).pipe = p
    <3>1. Head(uwq) = [pipe |-> p, msg |-> InitMsg]
      BY <2>1, <2>2
    <3>2. QED
      BY <1>1, <1>4, <2>1, <2>2, <3>1
  <2>3. CASE ~ (Head(uwq).msg = InitMsg /\ Head(uwq).pipe = p)
    BY <1>1, <2>1, <2>3
  <2>4. QED
    BY <2>2, <2>3
<1>5. ASSUME ClosePoly PROVE Goal
  <2>1. init_aio' = [q \in Pipes |-> IF init_aio[q] = "sending" THEN "failed" ELSE init_aio[q]]
    BY <1>5 DEF ClosePoly
  <2>2. QED
    BY <1>5, <2>1
<1>6. ASSUME UNCHANGED init_aio PROVE Goal
  BY <1>6
<1>7. ASSUME DrainStep \/ DrainEnd \/ RearmHost \/ SigCb PROVE UNCHANGED init_aio
  BY <1>7 DEF DrainStep, DrainEnd, RearmHost, SigCb
<1>8. ASSUME \/ \E q \in Pipes : HandleDisconnect(q)
             \/ \E o \in orphan : SendConnReset(o)
             \/ \E m \in arrived : HandleDaemonRecv(m)
      PROVE  UNCHANGED init_aio
  BY <1>8 DEF HandleDisconnect, SendConnReset, HandleDaemonRecv
<1>9. ASSUME \/ \E h \in Headers(count + 1) : HandleHostRecv(h)
             \/ \E id \in CancelIds : CancelDirect(id)
      PROVE  UNCHANGED init_aio
  BY <1>9 DEF HandleHostRecv, CancelDirect
<1>10. ASSUME Gate \/ (\E n \in Targets : Wait(n)) \/ Recheck \/ Stop \/ Freed PROVE UNCHANGED init_aio
  BY <1>10 DEF Gate, Wait, Recheck, RThreadOnly, Stop, Freed, vars
<1>11. ASSUME Shutdown, ~ClosePoly PROVE UNCHANGED init_aio
  BY <1>11 DEF Shutdown, StopHost, StopRecv, StopSig, PolyClosed, FreeSenders,
         CloseReplies, CloseQueue, CloseRep, RThreadOnly
<1>12. ASSUME Network, ~Route PROVE UNCHANGED init_aio
  BY <1>12 DEF Network, DaemonTake, PipeDown, ReplySent
<1>13. ASSUME \/ \E q \in Pipes : PipeStart(q) \/ Crash(q)
              \/ \E q \in Pipes, marker \in Markers : DaemonReply(q, marker)
       PROVE  UNCHANGED init_aio
  BY <1>13 DEF PipeStart, PipeDown, Crash, DaemonReply
<1> HIDE DEF Goal
<1>14. Goal
  BY <1>2, <1>3, <1>4, <1>5, <1>6, <1>7, <1>8, <1>9, <1>10, <1>11, <1>12, <1>13 DEF Next, Callback
<1>15. QED
  BY <1>14 DEF Goal

\* The request at the head of the queue, and the next one, are tasks.
LEMMA HeadTask ==
  ASSUME IInv, inq # <<>>
  PROVE  Head(inq) \in Task /\ header[Head(inq)] \in Header
<1>1. inq \in Seq(Task) /\ header \in Seq(Header) /\ \A i \in 1..Len(inq) : inq[i] <= Len(header)
  BY DEF IInv, TypeOK, TypeQueue, Linked
<1>2. Head(inq) \in Task /\ Head(inq) = inq[1] /\ 1 \in 1..Len(inq)
  BY <1>1, HeadTailProperties, LenProperties, EmptySeq
<1>3. Head(inq) \in 1..Len(header)
  BY <1>1, <1>2 DEF Task
<1>4. QED
  BY <1>1, <1>2, <1>3, ElementOfSeq

LEMMA NewTask ==
  ASSUME IInv, count < MaxTasks, NEW h \in Headers(count + 1)
  PROVE  count + 1 \in Task /\ h \in Header
<1>1. /\ h \in [msgid : {count + 1}, sync : SyncKinds, len : Sizes]
      /\ count + 1 \in 1..MaxTasks /\ count + 1 \in Nat
  BY DispatcherAssumption DEF Headers, IInv, TypeOK, TypeQueue
<1>2. h.msgid \in Nat /\ h.sync \in BOOLEAN /\ h.len \in Nat
  BY <1>1, DispatcherAssumption DEF DispatcherAssumption
<1>3. QED
  BY <1>1, <1>2 DEF Header, Task

\* A slot goes from NONE through INIT and IDLE, and from there to BUSY with each
\* task and back, until it is removed.
LEMMA SlotChanges ==
  ASSUME IInv, Next, NEW p \in Pipes
  PROVE  \/ slot'[p] = slot[p]
         \/ /\ HandleConnect(p) /\ ~stopped
            /\ slot'[p] = [state |-> "INIT", msgid |-> 0, gen |-> sync_generation - 1, ctx |-> Fresh]
         \/ /\ InitCb(p) /\ init_aio[p] = "done" /\ slot[p].state = "INIT"
            /\ slot'[p] = [slot[p] EXCEPT !.state = "IDLE"]
         \/ /\ p \in IdleDaemons /\ (mtx.held \/ ~stopped)
            /\ DrainStep \/ \E h \in Headers(count + 1) : HandleHostRecv(h)
            /\ \E t \in Task, h \in Header :
                 AssignTask(p, t, h) /\ slot'[p] = TaskSlot(p, t, h)
         \/ /\ slot[p].state = "BUSY" /\ ~stopped
            /\ slot'[p] = [slot[p] EXCEPT !.state = "IDLE", !.msgid = 0, !.ctx = Fresh]
            /\ \E m \in arrived : m.pipe = p /\ HandleDaemonRecv(m) /\ ~m.marker
         \/ /\ slot'[p] = NoSlot
            /\ \/ HandleDisconnect(p) /\ slot[p].state # "NONE"
               \/ /\ slot[p].state = "BUSY" /\ ~stopped
                  /\ \E m \in arrived : m.pipe = p /\ HandleDaemonRecv(m) /\ m.marker
               \/ FreeSenders
<1> DEFINE Goal ==
         \/ slot'[p] = slot[p]
         \/ /\ HandleConnect(p) /\ ~stopped
            /\ slot'[p] = [state |-> "INIT", msgid |-> 0, gen |-> sync_generation - 1, ctx |-> Fresh]
         \/ /\ InitCb(p) /\ init_aio[p] = "done" /\ slot[p].state = "INIT"
            /\ slot'[p] = [slot[p] EXCEPT !.state = "IDLE"]
         \/ /\ p \in IdleDaemons /\ (mtx.held \/ ~stopped)
            /\ DrainStep \/ \E h \in Headers(count + 1) : HandleHostRecv(h)
            /\ \E t \in Task, h \in Header :
                 AssignTask(p, t, h) /\ slot'[p] = TaskSlot(p, t, h)
         \/ /\ slot[p].state = "BUSY" /\ ~stopped
            /\ slot'[p] = [slot[p] EXCEPT !.state = "IDLE", !.msgid = 0, !.ctx = Fresh]
            /\ \E m \in arrived : m.pipe = p /\ HandleDaemonRecv(m) /\ ~m.marker
         \/ /\ slot'[p] = NoSlot
            /\ \/ HandleDisconnect(p) /\ slot[p].state # "NONE"
               \/ /\ slot[p].state = "BUSY" /\ ~stopped
                  /\ \E m \in arrived : m.pipe = p /\ HandleDaemonRecv(m) /\ m.marker
               \/ FreeSenders
<1>1. /\ slot \in [Pipes -> Slot] /\ arrived \subseteq [pipe : Pipes, msg : Task, marker : BOOLEAN]
      /\ inq \in Seq(Task) /\ header \in Seq(Header) /\ count \in 0..MaxTasks
      /\ Len(header) = count /\ \A i \in 1..Len(inq) : inq[i] <= count
  BY LockTypes DEF IInv, TypeOK, TypeQueue, Linked
<1>2. ASSUME NEW q \in Pipes, HandleConnect(q) PROVE Goal
  BY <1>1, <1>2 DEF HandleConnect
<1>3. ASSUME NEW q \in Pipes, InitCb(q) PROVE Goal
  <2>1. \/ UNCHANGED slot
        \/ /\ init_aio[q] = "done" /\ slot[q].state = "INIT"
           /\ slot' = [slot EXCEPT ![q].state = "IDLE"]
    BY <1>3 DEF InitCb
  <2>2. QED
    BY <1>1, <1>3, <2>1
<1>4. ASSUME NEW q \in Pipes, HandleDisconnect(q) PROVE Goal
  <2>1. UNCHANGED slot \/ (slot[q].state # "NONE" /\ slot' = [slot EXCEPT ![q] = NoSlot])
    BY <1>4 DEF HandleDisconnect, RemoveDaemon
  <2>2. QED
    BY <1>1, <1>4, <2>1
<1>5. ASSUME NEW m \in arrived, HandleDaemonRecv(m) PROVE Goal
  <2>1. \/ UNCHANGED slot
        \/ /\ ~stopped /\ slot[m.pipe].state = "BUSY" /\ m.marker
           /\ slot' = [slot EXCEPT ![m.pipe] = NoSlot]
        \/ /\ ~stopped /\ slot[m.pipe].state = "BUSY" /\ ~m.marker
           /\ slot' = [slot EXCEPT ![m.pipe].state = "IDLE", ![m.pipe].msgid = 0,
                                   ![m.pipe].ctx = Fresh]
    BY <1>5 DEF HandleDaemonRecv, RemoveDaemon
  <2>2. m.pipe \in Pipes
    BY <1>1
  <2>3. CASE m.pipe = p
    BY <1>1, <1>5, <2>1, <2>3
  <2>4. CASE m.pipe # p
    BY <1>1, <2>1, <2>2, <2>4
  <2>5. QED
    BY <2>3, <2>4
<1>6. ASSUME NEW q \in IdleDaemons, NEW t \in Task, NEW h \in Header, AssignTask(q, t, h),
             mtx.held \/ ~stopped, DrainStep \/ \E k \in Headers(count + 1) : HandleHostRecv(k)
      PROVE  Goal
  <2>1. slot' = [slot EXCEPT ![q] = TaskSlot(q, t, h)] /\ q \in Pipes
    BY <1>6 DEF AssignTask, IdleDaemons
  <2>2. QED
    BY <1>1, <1>6, <2>1
<1>7. ASSUME DrainStep PROVE Goal
  <2>1. /\ mtx.held /\ inq # <<>>
        /\ \E q \in IdleDaemons : AssignTask(q, Head(inq), header[Head(inq)])
    BY <1>7 DEF DrainStep, DrainDone
  <2>2. QED
    BY <1>6, <1>7, <2>1, HeadTask
<1>8. ASSUME NEW h \in Headers(count + 1), HandleHostRecv(h) PROVE Goal
  <2>1. /\ count < MaxTasks
        /\ \/ UNCHANGED slot
           \/ ~stopped /\ \E q \in IdleDaemons : AssignTask(q, count + 1, h)
    BY <1>8 DEF HandleHostRecv
  <2>2. QED
    BY <1>6, <1>8, <2>1, NewTask
<1>9. ASSUME FreeSenders PROVE Goal
  BY <1>9 DEF FreeSenders
<1>10. ASSUME UNCHANGED slot PROVE Goal
  BY <1>10
<1>11. ASSUME DrainEnd \/ RearmHost \/ SigCb PROVE UNCHANGED slot
  BY <1>11 DEF DrainEnd, RearmHost, SigCb
<1>12. ASSUME \/ \E o \in orphan : SendConnReset(o)
              \/ \E id \in CancelIds : CancelDirect(id)
       PROVE  UNCHANGED slot
  BY <1>12 DEF SendConnReset, CancelDirect
<1>13. ASSUME Gate \/ (\E n \in Targets : Wait(n)) \/ Recheck \/ Stop \/ Freed PROVE UNCHANGED slot
  BY <1>13 DEF Gate, Wait, Recheck, RThreadOnly, Stop, Freed, vars
<1>14. ASSUME Shutdown, ~FreeSenders PROVE UNCHANGED slot
  BY <1>14 DEF Shutdown, StopHost, StopRecv, StopSig, ClosePoly, PolyClosed, CloseReplies,
         CloseQueue, CloseRep, RThreadOnly
<1>15. ASSUME Network PROVE UNCHANGED slot
  BY <1>15 DEF Network, Route, DaemonTake, PipeDown, ReplySent, NetworkOnly
<1>16. ASSUME \/ \E q \in Pipes : PipeStart(q) \/ Crash(q)
              \/ \E q \in Pipes, marker \in Markers : DaemonReply(q, marker)
       PROVE  UNCHANGED slot
  BY <1>16 DEF PipeStart, PipeDown, Crash, DaemonReply, NetworkOnly
<1> HIDE DEF Goal
<1>17. Goal
  BY <1>2, <1>3, <1>4, <1>5, <1>7, <1>8, <1>9, <1>10, <1>11, <1>12, <1>13, <1>14, <1>15, <1>16
     DEF Next, Callback
<1>18. QED
  BY <1>17 DEF Goal

-----------------------------------------------------------------------------
(* The poly socket's sends.                                                  *)

entries == {uwq[i] : i \in 1..Len(uwq)}

\* A send occurs once in a queue of sends, unless it is a signal.
SentOnce(q) == \A i, j \in 1..Len(q) : i # j /\ q[i] = q[j] => q[i].msg = Signal

LEMMA TaskEntries ==
  ASSUME NEW p \in Pipes
  PROVE  TaskSending(p) <=> \E e \in entries : e.pipe = p /\ e.msg \in Task
  BY DEF TaskSending, entries

\* What the poly socket has to send changes in these ways only.
LEMMA UwqChanges ==
  ASSUME IInv, Stages, Next
  PROVE  \/ uwq' = uwq
         \/ Route /\ uwq # <<>> /\ uwq' = Tail(uwq)
         \/ ClosePoly /\ uwq' = <<>>
         \/ StopSig /\ \E i \in 1..Len(uwq) : uwq[i].msg = Signal /\ uwq' = RemoveAt(uwq, i)
         \/ ~stopped /\ \E p \in Pipes : uwq' = Append(uwq, [pipe |-> p, msg |-> Signal])
         \/ /\ ~stopped
            /\ \E p \in Pipes :
                 /\ HandleConnect(p) /\ uwq' = Append(uwq, [pipe |-> p, msg |-> InitMsg])
                 /\ init_aio'[p] = "sending" /\ slot'[p].state = "INIT"
         \/ /\ ~stopped
            /\ \E p \in IdleDaemons, t \in Task :
                 /\ DrainStep \/ \E h \in Headers(count + 1) : HandleHostRecv(h)
                 /\ ~TaskSending(p) /\ uwq' = Append(uwq, [pipe |-> p, msg |-> t])
                 /\ slot'[p].state = "BUSY" /\ slot'[p].ctx = t
<1> DEFINE Goal ==
         \/ uwq' = uwq
         \/ Route /\ uwq # <<>> /\ uwq' = Tail(uwq)
         \/ ClosePoly /\ uwq' = <<>>
         \/ StopSig /\ \E i \in 1..Len(uwq) : uwq[i].msg = Signal /\ uwq' = RemoveAt(uwq, i)
         \/ ~stopped /\ \E p \in Pipes : uwq' = Append(uwq, [pipe |-> p, msg |-> Signal])
         \/ /\ ~stopped
            /\ \E p \in Pipes :
                 /\ HandleConnect(p) /\ uwq' = Append(uwq, [pipe |-> p, msg |-> InitMsg])
                 /\ init_aio'[p] = "sending" /\ slot'[p].state = "INIT"
         \/ /\ ~stopped
            /\ \E p \in IdleDaemons, t \in Task :
                 /\ DrainStep \/ \E h \in Headers(count + 1) : HandleHostRecv(h)
                 /\ ~TaskSending(p) /\ uwq' = Append(uwq, [pipe |-> p, msg |-> t])
                 /\ slot'[p].state = "BUSY" /\ slot'[p].ctx = t
<1>1. /\ slot \in [Pipes -> Slot] /\ init_aio \in [Pipes -> {"idle", "sending", "done", "failed"}]
      /\ sig_list \in Seq(Pipes) /\ (mtx.held => ~stopped)
      /\ arrived \subseteq [pipe : Pipes, msg : Task, marker : BOOLEAN]
  BY LockTypes DEF Stages
<1>2. ASSUME NEW p \in Pipes, HandleConnect(p) PROVE Goal
  <2>1. \/ uwq' = uwq
        \/ /\ ~stopped
           /\ slot' = [slot EXCEPT ![p] = [state |-> "INIT", msgid |-> 0,
                                           gen |-> sync_generation - 1, ctx |-> Fresh]]
           /\ init_aio' = [init_aio EXCEPT ![p] = "sending"]
           /\ uwq' = Append(uwq, [pipe |-> p, msg |-> InitMsg])
    BY <1>2 DEF HandleConnect
  <2>2. ASSUME ~ UNCHANGED uwq
        PROVE  slot'[p].state = "INIT" /\ init_aio'[p] = "sending"
    BY <1>1, <2>1, <2>2
  <2>3. QED
    BY <1>2, <2>1, <2>2
<1>3. ASSUME NEW p \in Pipes, QueueSignal(p) PROVE Goal
  BY <1>3 DEF QueueSignal
<1>4. ASSUME NEW m \in arrived, HandleDaemonRecv(m) PROVE Goal
  <2>1. m.pipe \in Pipes
    BY <1>1
  <2>2. uwq' = uwq \/ QueueSignal(m.pipe)
    BY <1>4 DEF HandleDaemonRecv
  <2>3. QED
    BY <1>3, <2>1, <2>2
<1>5. ASSUME NEW id \in CancelIds, CancelDirect(id) PROVE Goal
  <2>1. uwq' = uwq \/ \E p \in Pipes : QueueSignal(p)
    BY <1>5 DEF CancelDirect, RunningAs, Busy
  <2>2. QED
    BY <1>3, <2>1
<1>6. ASSUME SigCb PROVE Goal
  <2>1. \/ uwq' = uwq
        \/ ~stopped /\ sig_list # <<>> /\ uwq' = Append(uwq, [pipe |-> Head(sig_list), msg |-> Signal])
    BY <1>6 DEF SigCb
  <2>2. sig_list # <<>> => Head(sig_list) \in Pipes
    <3>1. sig_list \in Seq(Pipes)
      BY <1>1
    <3>2. QED
      BY <3>1, HeadTailProperties
  <2>3. QED
    BY <2>1, <2>2
<1>7. ASSUME NEW p \in IdleDaemons, NEW t \in Task, NEW h \in Header, AssignTask(p, t, h), ~stopped,
             DrainStep \/ \E k \in Headers(count + 1) : HandleHostRecv(k)
      PROVE  Goal
  <2>1. p \in Pipes /\ slot' = [slot EXCEPT ![p] = TaskSlot(p, t, h)]
    BY <1>7 DEF AssignTask, IdleDaemons
  <2>2. ~TaskSending(p) /\ uwq' = Append(uwq, [pipe |-> p, msg |-> t])
    BY <1>7 DEF AssignTask, StartSend
  <2>3. slot'[p].state = "BUSY" /\ slot'[p].ctx = t
    BY <1>1, <2>1 DEF TaskSlot
  <2>4. QED
    BY <1>7, <2>2, <2>3
<1>8. ASSUME DrainStep PROVE Goal
  <2>1. /\ mtx.held /\ inq # <<>>
        /\ \E q \in IdleDaemons : AssignTask(q, Head(inq), header[Head(inq)])
    BY <1>8 DEF DrainStep, DrainDone
  <2>2. PICK q \in IdleDaemons : AssignTask(q, Head(inq), header[Head(inq)])
    BY <2>1
  <2>3. ~stopped /\ Head(inq) \in Task /\ header[Head(inq)] \in Header
    BY <1>1, <2>1, HeadTask
  <2> HIDE DEF Goal
  <2>4. QED
    BY <1>7, <1>8, <2>2, <2>3
<1>9. ASSUME NEW h \in Headers(count + 1), HandleHostRecv(h) PROVE Goal
  <2>1. /\ count < MaxTasks
        /\ \/ UNCHANGED uwq
           \/ ~stopped /\ \E q \in IdleDaemons : AssignTask(q, count + 1, h)
    BY <1>9 DEF HandleHostRecv
  <2>2. QED
    BY <1>7, <1>9, <2>1, NewTask
<1>10. ASSUME Route \/ ClosePoly PROVE Goal
  BY <1>10 DEF Route, ClosePoly
<1>11. ASSUME StopSig PROVE Goal
  BY <1>11 DEF StopSig
<1>12. ASSUME UNCHANGED uwq PROVE Goal
  BY <1>12
<1>13. ASSUME DrainEnd \/ RearmHost PROVE UNCHANGED uwq
  BY <1>13 DEF DrainEnd, RearmHost
<1>14. ASSUME \/ \E q \in Pipes : InitCb(q) \/ HandleDisconnect(q)
              \/ \E o \in orphan : SendConnReset(o)
       PROVE  UNCHANGED uwq
  BY <1>14 DEF InitCb, HandleDisconnect, SendConnReset
<1>15. ASSUME Gate \/ (\E n \in Targets : Wait(n)) \/ Recheck \/ Stop \/ Freed PROVE UNCHANGED uwq
  BY <1>15 DEF Gate, Wait, Recheck, RThreadOnly, Stop, Freed, vars
<1>16. ASSUME Shutdown, ~ClosePoly, ~StopSig PROVE UNCHANGED uwq
  BY <1>16 DEF Shutdown, StopHost, StopRecv, PolyClosed, FreeSenders, CloseReplies,
         CloseQueue, CloseRep, RThreadOnly
<1>17. ASSUME Network, ~Route PROVE UNCHANGED uwq
  BY <1>17 DEF Network, DaemonTake, PipeDown, ReplySent
<1>18. ASSUME \/ \E q \in Pipes : PipeStart(q) \/ Crash(q)
              \/ \E q \in Pipes, marker \in Markers : DaemonReply(q, marker)
       PROVE  UNCHANGED uwq
  BY <1>18 DEF PipeStart, PipeDown, Crash, DaemonReply
<1> HIDE DEF Goal
<1>19. Goal
  BY <1>2, <1>4, <1>5, <1>6, <1>8, <1>9, <1>10, <1>11, <1>12, <1>13, <1>14, <1>15, <1>16, <1>17, <1>18
     DEF Next, Callback
<1>20. QED
  BY <1>19 DEF Goal

LEMMA TailElements ==
  ASSUME NEW S, NEW q \in Seq(S), q # <<>>
  PROVE  /\ Len(Tail(q)) = Len(q) - 1 /\ Len(q) \in Nat /\ 1 \in 1..Len(q) /\ Head(q) = q[1]
         /\ \A i \in 1..Len(Tail(q)) : i + 1 \in 1..Len(q) /\ Tail(q)[i] = q[i + 1]
<1>1. Len(q) \in Nat /\ Len(q) # 0 /\ Len(Tail(q)) = Len(q) - 1 /\ Head(q) = q[1]
  BY HeadTailProperties, LenProperties, EmptySeq
<1>2. QED
  BY <1>1, HeadTailProperties

\* What may join the sends.
LEMMA EntryChanges ==
  ASSUME IInv, Stages, Next, NEW e \in entries'
  PROVE  \/ e \in entries
         \/ e.msg = Signal /\ ~stopped
         \/ /\ e.msg = InitMsg /\ e.pipe \in Pipes /\ HandleConnect(e.pipe) /\ ~stopped
            /\ init_aio'[e.pipe] = "sending"
         \/ /\ e.pipe \in IdleDaemons /\ e.msg \in Task /\ ~TaskSending(e.pipe) /\ ~stopped
            /\ uwq' = Append(uwq, e) /\ slot'[e.pipe].state = "BUSY" /\ slot'[e.pipe].ctx = e.msg
            /\ DrainStep \/ \E h \in Headers(count + 1) : HandleHostRecv(h)
<1> DEFINE Goal ==
         \/ e \in entries
         \/ e.msg = Signal /\ ~stopped
         \/ /\ e.msg = InitMsg /\ e.pipe \in Pipes /\ HandleConnect(e.pipe) /\ ~stopped
            /\ init_aio'[e.pipe] = "sending"
         \/ /\ e.pipe \in IdleDaemons /\ e.msg \in Task /\ ~TaskSending(e.pipe) /\ ~stopped
            /\ uwq' = Append(uwq, e) /\ slot'[e.pipe].state = "BUSY" /\ slot'[e.pipe].ctx = e.msg
            /\ DrainStep \/ \E h \in Headers(count + 1) : HandleHostRecv(h)
<1>1. PICK k \in 1..Len(uwq') : e = uwq'[k]
  BY DEF entries
<1>2. uwq \in Seq([pipe : Pipes, msg : Int])
  BY LockTypes
<1>3. ASSUME uwq' = uwq PROVE Goal
  BY <1>1, <1>3 DEF entries
<1>4. ASSUME uwq # <<>>, uwq' = Tail(uwq) PROVE Goal
  BY <1>1, <1>2, <1>4, TailElements DEF entries
<1>5. ASSUME uwq' = <<>> PROVE Goal
  BY <1>1, <1>5, EmptySeq
<1>6. ASSUME NEW i \in 1..Len(uwq), uwq' = RemoveAt(uwq, i) PROVE Goal
  <2> DEFINE S == [pipe : Pipes, msg : Int]
  <2>1. uwq \in Seq(S)
    BY <1>2
  <2> HIDE DEF S
  <2>2. \A j \in 1..Len(RemoveAt(uwq, i)) : \E l \in 1..Len(uwq) : RemoveAt(uwq, i)[j] = uwq[l]
    BY <2>1, RemoveAtProperties, ZenonT(60)
  <2>3. QED
    BY <1>1, <1>6, <2>2 DEF entries
<1>7. ASSUME NEW x \in [pipe : Pipes, msg : Int], uwq' = Append(uwq, x) PROVE e \in entries \/ e = x
  <2>1. /\ uwq'[Len(uwq) + 1] = x
        /\ \A i \in 1..Len(uwq') : i = Len(uwq) + 1 \/ (i \in 1..Len(uwq) /\ uwq'[i] = uwq[i])
    BY <1>2, <1>7, AppendElements
  <2>2. QED
    BY <1>1, <2>1 DEF entries
<1>8. ASSUME NEW p \in Pipes, ~stopped, uwq' = Append(uwq, [pipe |-> p, msg |-> Signal]) PROVE Goal
  <2>1. [pipe |-> p, msg |-> Signal] \in [pipe : Pipes, msg : Int]
    BY DEF Signal
  <2>2. QED
    BY <1>7, <1>8, <2>1
<1>9. ASSUME NEW p \in Pipes, ~stopped, HandleConnect(p), init_aio'[p] = "sending",
             uwq' = Append(uwq, [pipe |-> p, msg |-> InitMsg]) PROVE Goal
  <2>1. [pipe |-> p, msg |-> InitMsg] \in [pipe : Pipes, msg : Int]
    BY DEF InitMsg
  <2>2. QED
    BY <1>7, <1>9, <2>1
<1>10. ASSUME NEW p \in IdleDaemons, NEW t \in Task, ~stopped, ~TaskSending(p),
              DrainStep \/ \E h \in Headers(count + 1) : HandleHostRecv(h),
              uwq' = Append(uwq, [pipe |-> p, msg |-> t]),
              slot'[p].state = "BUSY", slot'[p].ctx = t PROVE Goal
  <2>1. [pipe |-> p, msg |-> t] \in [pipe : Pipes, msg : Int]
    BY DEF Task, IdleDaemons
  <2>2. e \in entries \/ e = [pipe |-> p, msg |-> t]
    BY <1>7, <1>10, <2>1
  <2>3. ASSUME e = [pipe |-> p, msg |-> t] PROVE Goal
    <3>1. e.pipe = p /\ e.msg = t
      BY <2>3
    <3>2. QED
      BY <1>10, <2>3, <3>1
  <2>4. QED
    BY <2>2, <2>3
<1> HIDE DEF Goal
<1>11. Goal
  BY <1>3, <1>4, <1>5, <1>6, <1>8, <1>9, <1>10, UwqChanges
<1>12. QED
  BY <1>11 DEF Goal

\* The task sends of a pipe.
LEMMA SendingChanges ==
  ASSUME IInv, Stages, Next, NEW p \in Pipes, TaskSending(p)'
  PROVE  TaskSending(p) \/ (p \in IdleDaemons /\ slot'[p].state = "BUSY" /\ ~stopped)
<1>1. PICK e \in entries' : e.pipe = p /\ e.msg \in Task
  BY DEF TaskSending, entries
<1>2. CASE e \in entries
  BY <1>1, <1>2, TaskEntries
<1>3. CASE e.msg = Signal \/ e.msg = InitMsg
  BY <1>1, <1>3 DEF Signal, InitMsg, Task
<1>4. QED
  BY <1>1, <1>2, <1>3, EntryChanges


-----------------------------------------------------------------------------
(* A message is sent once, unless it is a signal, and the init message while *)
(* its aio is in use.                                                        *)

Sends ==
  /\ SentOnce(uwq)
  /\ \A e \in entries : e.msg = InitMsg => init_aio[e.pipe] = "sending"
  /\ \A p \in Pipes : phase[p] \in {"none", "attached"} => init_aio[p] = "idle"

LEMMA HeadOfInit ==
  ASSUME IInv, Sends, NEW p \in Pipes
  PROVE  Route /\ Head(uwq) = [pipe |-> p, msg |-> InitMsg] => init_aio[p] = "sending"
<1>1. uwq \in Seq([pipe : Pipes, msg : Int])
  BY LockTypes
<1>2. ASSUME uwq # <<>>, Head(uwq) = [pipe |-> p, msg |-> InitMsg] PROVE init_aio[p] = "sending"
  <2>1. Head(uwq) \in entries
    BY <1>1, <1>2, TailElements DEF entries
  <2>2. Head(uwq).msg = InitMsg /\ Head(uwq).pipe = p
    BY <1>2
  <2>3. QED
    BY <2>1, <2>2 DEF Sends
<1>3. QED
  BY <1>2 DEF Route

LEMMA SentOnceChanges ==
  ASSUME NEW S, NEW q \in Seq(S), SentOnce(q)
  PROVE  /\ q # <<>> => SentOnce(Tail(q))
         /\ q # <<>> /\ Head(q).msg # Signal => \A i \in 1..Len(Tail(q)) : Tail(q)[i] # Head(q)
         /\ \A i \in 1..Len(q) : SentOnce(RemoveAt(q, i))
         /\ \A x \in S : x.msg = Signal \/ (\A i \in 1..Len(q) : q[i] # x) => SentOnce(Append(q, x))
<1>1. ASSUME q # <<>>
      PROVE  /\ SentOnce(Tail(q))
             /\ Head(q).msg # Signal => \A i \in 1..Len(Tail(q)) : Tail(q)[i] # Head(q)
  <2>1. /\ Len(Tail(q)) = Len(q) - 1 /\ Len(q) \in Nat /\ Head(q) = q[1]
        /\ \A i \in 1..Len(Tail(q)) : i + 1 \in 1..Len(q) /\ Tail(q)[i] = q[i + 1] /\ i + 1 # 1
    BY <1>1, TailElements
  <2>2. \A i, j \in 1..Len(Tail(q)) : i # j => i + 1 # j + 1
    BY <2>1
  <2>3. QED
    BY <1>1, <2>1, <2>2 DEF SentOnce
<1>2. ASSUME NEW k \in 1..Len(q) PROVE SentOnce(RemoveAt(q, k))
  <2> DEFINE r == RemoveAt(q, k)
             from(i) == IF i < k THEN i ELSE i + 1
  <2>1. /\ Len(q) \in Nat /\ Len(r) = Len(q) - 1
        /\ \A i \in 1..Len(r) : r[i] = q[from(i)]
    BY RemoveAtElements
  <2>2. \A i, j \in 1..Len(r) : from(i) \in 1..Len(q) /\ (i # j => from(i) # from(j))
    BY <2>1
  <2> HIDE DEF r, from
  <2>3. SentOnce(r)
    BY <2>1, <2>2 DEF SentOnce
  <2>4. QED
    BY <2>3 DEF r
<1>3. ASSUME NEW x \in S, x.msg = Signal \/ \A i \in 1..Len(q) : q[i] # x PROVE SentOnce(Append(q, x))
  <2> DEFINE r == Append(q, x)
  <2>1. /\ Len(q) \in Nat /\ Len(r) = Len(q) + 1 /\ r[Len(q) + 1] = x
        /\ \A i \in 1..Len(q) : r[i] = q[i]
    BY AppendProperties, LenProperties
  <2> HIDE DEF r
  <2>2. \A i \in 1..Len(r) : i \in 1..Len(q) \/ i = Len(q) + 1
    BY <2>1
  <2>3. SentOnce(r)
    BY <1>3, <2>1, <2>2 DEF SentOnce
  <2>4. QED
    BY <2>3 DEF r
<1>4. QED
  BY <1>1, <1>2, <1>3

LEMMA SendsNext ==
  ASSUME IInv, Stages, Sends, Next
  PROVE  Sends'
<1>1. /\ uwq \in Seq([pipe : Pipes, msg : Int])
      /\ init_aio \in [Pipes -> {"idle", "sending", "done", "failed"}]
      /\ phase \in [Pipes -> {"none", "attached", "added", "removed"}]
  BY LockTypes
<1>2. SentOnce(uwq) /\ \A i \in 1..Len(uwq) : uwq[i].msg = InitMsg => init_aio[uwq[i].pipe] = "sending"
  BY DEF Sends, entries
<1>3. SentOnce(uwq)'
  <2>1. ASSUME NEW p \in Pipes, HandleConnect(p), uwq' = Append(uwq, [pipe |-> p, msg |-> InitMsg])
        PROVE  SentOnce(uwq)'
    <3>1. init_aio[p] = "idle"
      BY <2>1 DEF HandleConnect, Sends
    <3>2. \A i \in 1..Len(uwq) : uwq[i] # [pipe |-> p, msg |-> InitMsg]
      BY <1>2, <3>1
    <3>3. [pipe |-> p, msg |-> InitMsg] \in [pipe : Pipes, msg : Int]
      BY DEF InitMsg
    <3>4. SentOnce(Append(uwq, [pipe |-> p, msg |-> InitMsg]))
      BY <1>1, <1>2, <3>2, <3>3, SentOnceChanges
    <3>5. QED
      BY <2>1, <3>4 DEF SentOnce
  <2>2. ASSUME NEW p \in IdleDaemons, NEW t \in Task, ~TaskSending(p),
               uwq' = Append(uwq, [pipe |-> p, msg |-> t])
        PROVE  SentOnce(uwq)'
    <3>1. \A i \in 1..Len(uwq) : uwq[i] # [pipe |-> p, msg |-> t]
      BY <2>2 DEF TaskSending
    <3>2. [pipe |-> p, msg |-> t] \in [pipe : Pipes, msg : Int]
      BY DEF Task, IdleDaemons
    <3>3. SentOnce(Append(uwq, [pipe |-> p, msg |-> t]))
      BY <1>1, <1>2, <3>1, <3>2, SentOnceChanges
    <3>4. QED
      BY <2>2, <3>3 DEF SentOnce
  <2>3. ASSUME NEW p \in Pipes, uwq' = Append(uwq, [pipe |-> p, msg |-> Signal])
        PROVE  SentOnce(uwq)'
    <3>1. [pipe |-> p, msg |-> Signal] \in [pipe : Pipes, msg : Int] /\ [pipe |-> p, msg |-> Signal].msg = Signal
      BY DEF Signal
    <3>2. SentOnce(Append(uwq, [pipe |-> p, msg |-> Signal]))
      BY <1>1, <1>2, <3>1, SentOnceChanges
    <3>3. QED
      BY <2>3, <3>2 DEF SentOnce
  <2>4. ASSUME NEW i \in 1..Len(uwq), uwq' = RemoveAt(uwq, i) PROVE SentOnce(uwq)'
    <3>1. SentOnce(RemoveAt(uwq, i))
      BY <1>1, <1>2, SentOnceChanges
    <3>2. QED
      BY <2>4, <3>1 DEF SentOnce
  <2>5. ASSUME uwq # <<>>, uwq' = Tail(uwq) PROVE SentOnce(uwq)'
    <3>1. SentOnce(Tail(uwq))
      BY <1>1, <1>2, <2>5, SentOnceChanges
    <3>2. QED
      BY <2>5, <3>1 DEF SentOnce
  <2>6. ASSUME uwq' = <<>> PROVE SentOnce(uwq)'
    BY <2>6, EmptySeq DEF SentOnce
  <2>7. ASSUME uwq' = uwq PROVE SentOnce(uwq)'
    BY <1>2, <2>7 DEF SentOnce
  <2>8. QED
    BY <2>1, <2>2, <2>3, <2>4, <2>5, <2>6, <2>7, UwqChanges
<1>4. ASSUME NEW e \in entries', e.msg = InitMsg PROVE init_aio'[e.pipe] = "sending"
  <2>1. CASE e \in entries
    <3>1. init_aio[e.pipe] = "sending" /\ e \in [pipe : Pipes, msg : Int]
      <4>1. PICK i \in 1..Len(uwq) : e = uwq[i]
        BY <2>1 DEF entries
      <4>2. e \in [pipe : Pipes, msg : Int]
        BY <1>1, <4>1, ElementOfSeq
      <4>3. QED
        BY <1>4, <2>1, <4>2 DEF Sends
    <3>2. e.pipe \in Pipes /\ e = [pipe |-> e.pipe, msg |-> InitMsg]
      BY <1>4, <3>1
    <3>3. ~InitCb(e.pipe)
      BY <3>1 DEF InitCb
    <3>4. ~ClosePoly
      <4>1. ClosePoly => uwq' = <<>>
        BY DEF ClosePoly
      <4>2. QED
        BY <1>4, <4>1, EmptySeq DEF entries
    <3>5. ~ (Route /\ Head(uwq) = [pipe |-> e.pipe, msg |-> InitMsg])
      <4>1. ASSUME Route, Head(uwq) = e PROVE FALSE
        <5>1. uwq # <<>> /\ uwq' = Tail(uwq) /\ e.msg # Signal
          BY <1>4, <4>1 DEF Route, InitMsg, Signal
        <5>2. \A i \in 1..Len(Tail(uwq)) : Tail(uwq)[i] # Head(uwq)
          BY <1>1, <1>2, <4>1, <5>1, SentOnceChanges
        <5>3. QED
          BY <4>1, <5>1, <5>2 DEF entries
      <4>2. QED
        BY <3>2, <4>1
    <3>6. QED
      BY <3>1, <3>2, <3>3, <3>4, <3>5, InitAioChanges
  <2>2. CASE e \notin entries
    BY <1>4, <2>2, EntryChanges DEF Signal, InitMsg, Task
  <2>3. QED
    BY <2>1, <2>2
<1>5. ASSUME NEW p \in Pipes, phase'[p] \in {"none", "attached"} PROVE init_aio'[p] = "idle"
  <2>1. phase[p] \in {"none", "attached"} /\ ~HandleConnect(p)
    <3>1. ~HandleConnect(p)
      BY <1>1, <1>5 DEF HandleConnect
    <3>2. QED
      BY <1>5, <3>1, PhaseChanges
  <2>2. init_aio[p] = "idle"
    BY <2>1 DEF Sends
  <2>3. QED
    BY <2>1, <2>2, HeadOfInit, InitAioChanges
<1>6. QED
  BY <1>3, <1>4, <1>5 DEF Sends
-----------------------------------------------------------------------------
(* A sender's aios are in use only while the sender is in a slot or retired. *)

SenderKept ==
  \A p \in Pipes :
    init_aio[p] # "idle" \/ TaskSending(p) => slot[p].state # "NONE" \/ p \in retired

\* Reaping takes senders with both aios at rest from the retired list, and a
\* daemon that is removed puts its sender there.
LEMMA RetiredChanges ==
  ASSUME IInv, Next, NEW p \in Pipes
  PROVE  /\ p \in retired => \/ p \in retired'
                             \/ init_aio[p] = "idle" /\ ~TaskSending(p)
                             \/ FreeSenders
         /\ slot[p].state # "NONE" /\ slot'[p].state = "NONE" =>
              \/ p \in retired'
              \/ init_aio[p] = "idle" /\ ~TaskSending(p)
              \/ FreeSenders
<1> DEFINE Goal ==
         /\ p \in retired => \/ p \in retired'
                             \/ init_aio[p] = "idle" /\ ~TaskSending(p)
                             \/ FreeSenders
         /\ slot[p].state # "NONE" /\ slot'[p].state = "NONE" =>
              \/ p \in retired'
              \/ init_aio[p] = "idle" /\ ~TaskSending(p)
              \/ FreeSenders
<1>1. slot \in [Pipes -> Slot] /\ arrived \subseteq [pipe : Pipes, msg : Task, marker : BOOLEAN]
  BY LockTypes
<1>2. ASSUME NEW q \in Pipes, HandleConnect(q) PROVE Goal
  <2>1. /\ retired' = Reap(retired)
        /\ \/ UNCHANGED slot
           \/ slot' = [slot EXCEPT ![q] = [state |-> "INIT", msgid |-> 0,
                                           gen |-> sync_generation - 1, ctx |-> Fresh]]
    BY <1>2 DEF HandleConnect
  <2>2. slot'[p].state = slot[p].state \/ slot'[p].state = "INIT"
    <3>1. CASE UNCHANGED slot
      BY <3>1
    <3>2. CASE ~ UNCHANGED slot /\ p = q
      BY <1>1, <2>1, <3>2
    <3>3. CASE ~ UNCHANGED slot /\ p # q
      BY <1>1, <2>1, <3>3
    <3>4. QED
      BY <3>1, <3>2, <3>3
  <2>3. QED
    BY <2>1, <2>2 DEF Reap
<1>3. ASSUME NEW q \in Pipes, InitCb(q) PROVE Goal
  <2>1. retired' = retired /\ (UNCHANGED slot \/ slot' = [slot EXCEPT ![q].state = "IDLE"])
    BY <1>3 DEF InitCb
  <2>2. slot'[p].state = slot[p].state \/ slot'[p].state = "IDLE"
    <3>1. CASE UNCHANGED slot
      BY <3>1
    <3>2. CASE slot' = [slot EXCEPT ![q].state = "IDLE"]
      BY <1>1, <3>2
    <3>3. QED
      BY <2>1, <3>1, <3>2
  <2>3. QED
    BY <2>1, <2>2
<1>4. ASSUME NEW q \in Pipes, HandleDisconnect(q) PROVE Goal
  <2>1. \/ UNCHANGED <<slot, retired>>
        \/ /\ retired' = retired \cup {q} \/ retired' = Reap(retired \cup {q})
           /\ slot' = [slot EXCEPT ![q] = NoSlot]
    BY <1>4 DEF HandleDisconnect, RemoveDaemon
  <2>2. slot' = [slot EXCEPT ![q] = NoSlot] /\ q # p => slot'[p] = slot[p]
    BY <1>1
  <2>3. QED
    BY <2>1, <2>2 DEF Reap
<1>5. ASSUME NEW m \in arrived, HandleDaemonRecv(m) PROVE Goal
  <2>1. \/ UNCHANGED <<slot, retired>>
        \/ retired' = retired \cup {m.pipe} /\ slot' = [slot EXCEPT ![m.pipe] = NoSlot]
        \/ /\ retired' = retired
           /\ slot' = [slot EXCEPT ![m.pipe].state = "IDLE", ![m.pipe].msgid = 0,
                                   ![m.pipe].ctx = Fresh]
    BY <1>5 DEF HandleDaemonRecv, RemoveDaemon
  <2>2. m.pipe \in Pipes
    BY <1>1
  <2>3. CASE UNCHANGED <<slot, retired>>
    BY <2>3
  <2>4. CASE retired' = retired \cup {m.pipe} /\ slot' = [slot EXCEPT ![m.pipe] = NoSlot]
    BY <1>1, <2>2, <2>4
  <2>5. CASE /\ retired' = retired
             /\ slot' = [slot EXCEPT ![m.pipe].state = "IDLE", ![m.pipe].msgid = 0,
                                     ![m.pipe].ctx = Fresh]
    <3>1. slot'[p].state = slot[p].state \/ slot'[p].state = "IDLE"
      BY <1>1, <2>2, <2>5
    <3>2. QED
      BY <2>5, <3>1
  <2>6. QED
    BY <2>1, <2>3, <2>4, <2>5
<1>6. ASSUME DrainStep \/ \E h \in Headers(count + 1) : HandleHostRecv(h) PROVE Goal
  <2>1. /\ retired' = retired
        /\ UNCHANGED slot \/ \E q \in IdleDaemons : \E t, h : slot' = [slot EXCEPT ![q] = TaskSlot(q, t, h)]
    BY <1>6 DEF DrainStep, HandleHostRecv, AssignTask
  <2>2. slot'[p].state = slot[p].state \/ slot'[p].state = "BUSY"
    BY <1>1, <2>1 DEF TaskSlot, IdleDaemons
  <2>3. QED
    BY <2>1, <2>2
<1>7. ASSUME NEW o \in orphan, SendConnReset(o) PROVE Goal
  BY <1>7 DEF SendConnReset, Reap
<1>8. ASSUME UNCHANGED <<slot, retired>> PROVE Goal
  BY <1>8
<1>9. ASSUME FreeSenders PROVE Goal
  BY <1>9
<1>10. ASSUME DrainEnd \/ RearmHost \/ SigCb \/ (\E id \in CancelIds : CancelDirect(id))
       PROVE  UNCHANGED <<slot, retired>>
  BY <1>10 DEF DrainEnd, RearmHost, SigCb, CancelDirect
<1>11. ASSUME Gate \/ (\E n \in Targets : Wait(n)) \/ Recheck \/ Stop \/ Freed
       PROVE  UNCHANGED <<slot, retired>>
  BY <1>11 DEF Gate, Wait, Recheck, RThreadOnly, Stop, Freed, vars
<1>12. ASSUME Shutdown, ~FreeSenders PROVE UNCHANGED <<slot, retired>>
  BY <1>12 DEF Shutdown, StopHost, StopRecv, StopSig, ClosePoly, PolyClosed, CloseReplies,
         CloseQueue, CloseRep, RThreadOnly
<1>13. ASSUME Network PROVE UNCHANGED <<slot, retired>>
  BY <1>13 DEF Network, Route, DaemonTake, PipeDown, ReplySent, NetworkOnly
<1>14. ASSUME \/ \E q \in Pipes : PipeStart(q) \/ Crash(q)
              \/ \E q \in Pipes, marker \in Markers : DaemonReply(q, marker)
       PROVE  UNCHANGED <<slot, retired>>
  BY <1>14 DEF PipeStart, PipeDown, Crash, DaemonReply, NetworkOnly
<1> HIDE DEF Goal
<1>15. Goal
  BY <1>2, <1>3, <1>4, <1>5, <1>6, <1>7, <1>8, <1>9, <1>10, <1>11, <1>12, <1>13, <1>14
     DEF Next, Callback
<1>16. QED
  BY <1>15 DEF Goal

\* Nothing is sent on behalf of a sender that has been freed.
LEMMA SenderKeptNext ==
  ASSUME IInv, Stages, Sends, SenderKept, Next
  PROVE  SenderKept'
<1>1. SUFFICES ASSUME NEW p \in Pipes, init_aio'[p] # "idle" \/ TaskSending(p)'
               PROVE  slot'[p].state # "NONE" \/ p \in retired'
  BY DEF SenderKept
<1>2. slot \in [Pipes -> Slot] /\ init_aio \in [Pipes -> {"idle", "sending", "done", "failed"}]
  BY LockTypes
<1>3. CASE slot'[p].state \in {"INIT", "BUSY"}
  BY <1>3
<1>4. CASE slot'[p].state \notin {"INIT", "BUSY"}
  <2>1. init_aio[p] # "idle" \/ TaskSending(p)
    <3>1. TaskSending(p)' => TaskSending(p)
      BY <1>4, SendingChanges
    <3>2. ~ (Route /\ Head(uwq) = [pipe |-> p, msg |-> InitMsg]) \/ init_aio[p] = "sending"
      BY HeadOfInit
    <3>3. init_aio'[p] # "idle" => init_aio[p] # "idle"
      <4>1. CASE init_aio'[p] = init_aio[p]
        BY <4>1
      <4>2. CASE slot'[p].state = "INIT"
        BY <1>4, <4>2
      <4>3. QED
        BY <3>2, <4>1, <4>2, InitAioChanges
    <3>4. QED
      BY <1>1, <3>1, <3>3
  <2>2. slot[p].state # "NONE" \/ p \in retired
    BY <2>1 DEF SenderKept
  <2>3. ASSUME FreeSenders PROVE FALSE
    <3>1. main = "freeSenders" /\ init_aio[p] = "idle"
      BY <2>2, <2>3 DEF FreeSenders
    <3>2. uwq = <<>>
      BY <3>1 DEF Stages, AfterPoly
    <3>3. ~TaskSending(p)
      BY <3>2, EmptySeq DEF TaskSending
    <3>4. QED
      BY <2>1, <3>1, <3>3
  <2>4. QED
    BY <1>2, <1>4, <2>1, <2>2, <2>3, RetiredChanges DEF Slot
<1>5. QED
  BY <1>3, <1>4

-----------------------------------------------------------------------------
(* The steps of the shutdown.                                                *)

\* Only the context opened last may be the one to receive the next request.
LEMMA FreshChanges ==
  ASSUME IInv, Next
  PROVE  Fresh \in open' => host_ctx' = Fresh \/ (Fresh \in open /\ host_ctx' = host_ctx)
<1> DEFINE Goal == Fresh \in open' => host_ctx' = Fresh \/ (Fresh \in open /\ host_ctx' = host_ctx)
<1>1. count \in Nat
  BY LockTypes
<1>2. ASSUME UNCHANGED host_ctx, open' \subseteq open PROVE Goal
  BY <1>2
<1>3. ASSUME DrainStep \/ DrainEnd \/ SigCb PROVE UNCHANGED host_ctx /\ open' \subseteq open
  BY <1>3 DEF DrainStep, DrainEnd, SigCb, ReplySend
<1>4. ASSUME \/ \E p \in Pipes : HandleConnect(p) \/ InitCb(p) \/ HandleDisconnect(p)
             \/ \E o \in orphan : SendConnReset(o)
      PROVE  UNCHANGED host_ctx /\ open' \subseteq open
  BY <1>4 DEF HandleConnect, InitCb, HandleDisconnect, SendConnReset, ReplySend
<1>5. ASSUME RearmHost PROVE Goal
  BY <1>5 DEF RearmHost
<1>6. ASSUME \E m \in arrived : HandleDaemonRecv(m) PROVE UNCHANGED host_ctx /\ open' \subseteq open
  BY <1>6 DEF HandleDaemonRecv, ReplySend
<1>7. ASSUME \E h \in Headers(count + 1) : HandleHostRecv(h) PROVE Goal
  BY <1>1, <1>7 DEF HandleHostRecv, Fresh
<1>8. ASSUME \E id \in CancelIds : CancelDirect(id) PROVE UNCHANGED host_ctx /\ open' \subseteq open
  BY <1>8 DEF CancelDirect, CancelInq
<1>9. ASSUME Gate \/ (\E n \in Targets : Wait(n)) \/ Recheck \/ Stop \/ Freed
      PROVE  UNCHANGED host_ctx /\ open' \subseteq open
  BY <1>9 DEF Gate, Wait, Recheck, RThreadOnly, Stop, Freed, vars
<1>10. ASSUME Shutdown PROVE UNCHANGED host_ctx /\ open' \subseteq open
  BY <1>10 DEF Shutdown, StopHost, StopRecv, StopSig, ClosePoly, PolyClosed, FreeSenders, CloseReplies,
         CloseQueue, CloseRep, RThreadOnly
<1>11. ASSUME Network PROVE UNCHANGED host_ctx /\ open' \subseteq open
  BY <1>11 DEF Network, Route, DaemonTake, PipeDown, ReplySent, NetworkOnly
<1>12. ASSUME \/ \E q \in Pipes : PipeStart(q) \/ Crash(q)
              \/ \E q \in Pipes, marker \in Markers : DaemonReply(q, marker)
       PROVE  UNCHANGED host_ctx /\ open' \subseteq open
  BY <1>12 DEF PipeStart, PipeDown, Crash, DaemonReply, NetworkOnly
<1> HIDE DEF Goal
<1>13. Goal
  BY <1>2, <1>3, <1>4, <1>5, <1>6, <1>7, <1>8, <1>9, <1>10, <1>11, <1>12 DEF Next, Callback
<1>14. QED
  BY <1>13 DEF Goal

LEMMA StagesNext ==
  ASSUME IInv, Stages, Sends, SenderKept, Next
  PROVE  Stages'
<1>1. /\ mtx \in [held : BOOLEAN, dequeued : BOOLEAN, ctx : Nat, msg : Int] /\ ~Free.held
      /\ slot \in [Pipes -> Slot]
      /\ init_aio \in [Pipes -> {"idle", "sending", "done", "failed"}]
      /\ phase \in [Pipes -> {"none", "attached", "added", "removed"}]
  BY LockTypes
<1>2. (~mtx'.held => mtx' = Free) /\ (mtx'.held => ~stopped')
  BY <1>1, ControlMoves
<1>3. ~InUse' => stopped'
  <2>1. ~InUse => stopped'
    BY ControlMoves DEF Stages
  <2>2. ~InUse' => ~InUse \/ stopped'
    BY ControlMoves DEF InUse, StopHost
  <2>3. QED
    BY <2>1, <2>2
<1>4. ~InUse' /\ main' # "stopHost" => host_aio' = "off"
  <2>1. ~InUse /\ main # "stopHost" => host_aio' = "off"
    BY ControlMoves DEF Stages
  <2>2. ~InUse' /\ main' # "stopHost" => (~InUse /\ main # "stopHost") \/ host_aio' = "off"
    BY ControlMoves DEF InUse
  <2>3. QED
    BY <2>1, <2>2
<1>5. Fresh \in open' => host_ctx' = Fresh
  BY FreshChanges DEF Stages
<1>6. main \in AfterPoly => stopped
  BY DEF Stages, AfterPoly, InUse
<1>7. ASSUME main' \in AfterPoly
      PROVE  /\ up' = {} /\ arrived' = {} /\ uwq' = <<>> /\ sig_aio' = "idle"
             /\ \A p \in Pipes : init_aio'[p] # "sending"
  <2>1. main \in AfterPoly \/ ClosePoly
    BY <1>7, ControlMoves DEF AfterPoly, InUse, StopHost, StopRecv, StopSig, Stop, PolyClosed,
                              FreeSenders, CloseReplies, CloseQueue, CloseRep
  <2>2. CASE main \in AfterPoly
    <3>1. up = {} /\ arrived = {} /\ uwq = <<>> /\ sig_aio = "idle" /\ stopped
      BY <1>6, <2>2 DEF Stages
    <3>2. up' = {} /\ (arrived' \subseteq arrived \/ up # {})
      BY <2>2, <3>1, OnceStopped
    <3>3. uwq' = <<>> /\ sig_aio' = "idle"
      BY <3>1, OnceStopped
    <3>4. ASSUME NEW p \in Pipes PROVE init_aio'[p] # "sending"
      BY <2>2, <3>1, InitAioChanges DEF Stages
    <3>5. QED
      BY <2>2, <3>1, <3>2, <3>3, <3>4, OnceStopped
  <2>3. CASE ClosePoly
    BY <2>3 DEF ClosePoly
  <2>4. QED
    BY <2>1, <2>2, <2>3
<1>8. ASSUME main' \in AfterPoly \ {"closePipes"} PROVE PipeCallbacksDone'
  <2>1. PolyClosed \/ main \in AfterPoly \ {"closePipes"}
    BY <1>8, ControlMoves DEF AfterPoly, InUse, StopHost, StopRecv, StopSig, Stop, ClosePoly,
                              FreeSenders, CloseReplies, CloseQueue, CloseRep
  <2>2. CASE PolyClosed
    BY <2>2 DEF PolyClosed, PipeCallbacksDone, RThreadOnly
  <2>3. CASE main \in AfterPoly \ {"closePipes"}
    <3>1. PipeCallbacksDone /\ stopped
      BY <1>6, <2>3 DEF Stages
    <3>2. orphan' = {}
      BY <3>1, OnceStopped DEF PipeCallbacksDone
    <3>3. \A p \in Pipes : phase'[p] \in {"none", "removed"}
      BY <2>3, <3>1, PhaseChanges DEF PipeCallbacksDone
    <3>4. QED
      BY <3>2, <3>3 DEF PipeCallbacksDone
  <2>4. QED
    BY <2>1, <2>2, <2>3
<1>9. ASSUME main' \in AfterPoly \ {"closePipes", "freeSenders"}, NEW p \in Pipes
      PROVE  slot'[p].state = "NONE" /\ init_aio'[p] = "idle"
  <2>1. FreeSenders \/ main \in AfterPoly \ {"closePipes", "freeSenders"}
    BY <1>9, ControlMoves DEF AfterPoly, InUse, StopHost, StopRecv, StopSig, Stop, ClosePoly,
                              PolyClosed, CloseReplies, CloseQueue, CloseRep
  <2>2. CASE FreeSenders
    <3>1. slot' = [q \in Pipes |-> NoSlot] /\ init_aio' = init_aio
          /\ (slot[p].state # "NONE" \/ p \in retired => init_aio[p] = "idle")
      BY <2>2 DEF FreeSenders
    <3>2. QED
      BY <3>1 DEF SenderKept, NoSlot
  <2>3. CASE main \in AfterPoly \ {"closePipes", "freeSenders"}
    <3>1. /\ stopped /\ uwq = <<>> /\ phase[p] \in {"none", "removed"}
          /\ slot[p].state = "NONE" /\ init_aio[p] = "idle"
      BY <1>6, <2>3 DEF Stages, PipeCallbacksDone, AfterPoly
    <3>2. ~HandleConnect(p) /\ ~InitCb(p) /\ ~Route /\ p \notin IdleDaemons
      BY <3>1 DEF HandleConnect, InitCb, Route, IdleDaemons
    <3>3. slot'[p] = slot[p] \/ slot'[p] = NoSlot
      BY <3>1, <3>2, SlotChanges
    <3>4. init_aio'[p] = "idle"
      BY <3>1, <3>2, InitAioChanges
    <3>5. QED
      BY <3>1, <3>3, <3>4 DEF NoSlot
  <2>4. QED
    BY <2>1, <2>2, <2>3
<1>10. ASSUME main' \in {"closeQueue", "closeRep", "freed"} PROVE reply_active' = {}
  <2>1. CloseReplies \/ main \in {"closeQueue", "closeRep", "freed"}
    BY <1>10, ControlMoves DEF InUse, StopHost, StopRecv, StopSig, Stop, ClosePoly,
                              PolyClosed, FreeSenders, CloseQueue, CloseRep
  <2>2. CASE CloseReplies
    BY <2>2 DEF CloseReplies
  <2>3. CASE main \in {"closeQueue", "closeRep", "freed"}
    <3>1. reply_active = {} /\ orphan = {} /\ stopped
      BY <1>6, <2>3 DEF Stages, AfterPoly, PipeCallbacksDone
    <3>2. QED
      BY <3>1, OnceStopped
  <2>4. QED
    BY <2>1, <2>2, <2>3
<1>11. ASSUME main' \in {"closeRep", "freed"} PROVE inq' = <<>> /\ Fresh \notin open'
  <2>1. CloseQueue \/ main \in {"closeRep", "freed"}
    BY <1>11, ControlMoves DEF InUse, StopHost, StopRecv, StopSig, Stop, ClosePoly,
                              PolyClosed, FreeSenders, CloseReplies, CloseRep
  <2>2. CASE CloseQueue
    <3>1. inq' = <<>> /\ host_ctx \notin open' /\ open' \subseteq open
      BY <2>2 DEF CloseQueue
    <3>2. QED
      BY <3>1 DEF Stages
  <2>3. CASE main \in {"closeRep", "freed"}
    <3>1. inq = <<>> /\ Fresh \notin open /\ stopped /\ host_aio = "off"
      BY <1>6, <2>3 DEF Stages, AfterPoly, InUse
    <3>2. QED
      BY <3>1, OnceStopped
  <2>4. QED
    BY <2>1, <2>2, <2>3
<1>12. QED
  BY <1>2, <1>3, <1>4, <1>5, <1>7, <1>8, <1>9, <1>10, <1>11 DEF Stages

-----------------------------------------------------------------------------
(* A task's message on the way to its daemon and back.                       *)

\* The message is with the poly socket (TaskSending), in the pipe, with the
\* daemon, or read from the pipe with its callback due.
OnWay(p) == \E i \in 1..Len(chan[p]) : chan[p][i] \in Task
With(p)  == daemon[p] \in Task
Back(p)  == \E m \in arrived : m.pipe = p

Untasked(p) == ~TaskSending(p) /\ ~OnWay(p) /\ ~With(p) /\ ~Back(p)

\* The messages of a busy daemon are of its own task, and at one point.
OneTask(p) ==
  /\ \A e \in entries : e.pipe = p /\ e.msg \in Task => e.msg = slot[p].ctx
  /\ \A i \in 1..Len(chan[p]) : chan[p][i] \in Task => chan[p][i] = slot[p].ctx
  /\ \A i, j \in 1..Len(chan[p]) : chan[p][i] \in Task /\ chan[p][j] \in Task => i = j
  /\ With(p) => daemon[p] = slot[p].ctx
  /\ \A m \in arrived : m.pipe = p => m.msg = slot[p].ctx
  /\ \A m, n \in arrived : m.pipe = p /\ n.pipe = p => m = n
  /\ TaskSending(p) => ~OnWay(p) /\ ~With(p) /\ ~Back(p)
  /\ OnWay(p) => ~With(p) /\ ~Back(p)
  /\ With(p) => ~Back(p)

\* A daemon without a task has none on its way, in its hands or on its way back.
Flow ==
  \A p \in Pipes :
    /\ slot[p].state \in {"INIT", "IDLE"} \/ phase[p] \in {"none", "attached"} => Untasked(p)
    /\ slot[p].state = "BUSY" => OneTask(p)

\* The messages in a pipe.
LEMMA ChanChanges ==
  ASSUME IInv, Next, NEW p \in Pipes
  PROVE  \/ chan'[p] = chan[p]
         \/ chan'[p] = <<>> /\ daemon'[p] = daemon[p]
         \/ /\ uwq # <<>> /\ uwq' = Tail(uwq) /\ Head(uwq).pipe = p
            /\ chan'[p] = Append(chan[p], Head(uwq).msg) /\ UNCHANGED <<daemon, arrived>>
         \/ DaemonTake(p) /\ chan[p] # <<>> /\ chan'[p] = Tail(chan[p])
<1> DEFINE Goal ==
         \/ chan'[p] = chan[p]
         \/ chan'[p] = <<>> /\ daemon'[p] = daemon[p]
         \/ /\ uwq # <<>> /\ uwq' = Tail(uwq) /\ Head(uwq).pipe = p
            /\ chan'[p] = Append(chan[p], Head(uwq).msg) /\ UNCHANGED <<daemon, arrived>>
         \/ DaemonTake(p) /\ chan[p] # <<>> /\ chan'[p] = Tail(chan[p])
<1>1. chan \in [Pipes -> Seq(Int)] /\ uwq \in Seq([pipe : Pipes, msg : Int])
  BY LockTypes
<1>2. ASSUME NEW q \in Pipes, HandleConnect(q) PROVE Goal
  BY <1>1, <1>2 DEF HandleConnect
<1>3. ASSUME NEW q \in Pipes, PipeDown(q), UNCHANGED daemon PROVE Goal
  BY <1>1, <1>3 DEF PipeDown
<1>4. ASSUME NEW q \in Pipes, DaemonTake(q) PROVE Goal
  <2>1. \/ PipeDown(q) /\ UNCHANGED daemon
        \/ chan[q] # <<>> /\ chan' = [chan EXCEPT ![q] = Tail(chan[q])]
    BY <1>4 DEF DaemonTake
  <2>2. CASE chan[q] # <<>> /\ chan' = [chan EXCEPT ![q] = Tail(chan[q])]
    BY <1>1, <1>4, <2>2
  <2>3. QED
    BY <1>3, <2>1, <2>2
<1>5. ASSUME Route PROVE Goal
  <2>1. /\ uwq # <<>> /\ uwq' = Tail(uwq) /\ UNCHANGED <<daemon, arrived>>
        /\ \/ chan' = chan
           \/ chan' = [chan EXCEPT ![Head(uwq).pipe] = Append(chan[Head(uwq).pipe], Head(uwq).msg)]
    BY <1>5 DEF Route
  <2>2. Head(uwq) \in [pipe : Pipes, msg : Int]
    BY <1>1, <2>1, HeadTailProperties
  <2>3. QED
    BY <1>1, <2>1, <2>2
<1>6. ASSUME ClosePoly PROVE Goal
  BY <1>6 DEF ClosePoly
<1>7. ASSUME UNCHANGED chan PROVE Goal
  BY <1>7
<1>8. ASSUME DrainStep \/ DrainEnd \/ RearmHost \/ SigCb PROVE UNCHANGED chan
  BY <1>8 DEF DrainStep, DrainEnd, RearmHost, SigCb
<1>9. ASSUME \/ \E q \in Pipes : InitCb(q) \/ HandleDisconnect(q)
             \/ \E o \in orphan : SendConnReset(o)
             \/ \E m \in arrived : HandleDaemonRecv(m)
      PROVE  UNCHANGED chan
  BY <1>9 DEF InitCb, HandleDisconnect, SendConnReset, HandleDaemonRecv
<1>10. ASSUME \/ \E h \in Headers(count + 1) : HandleHostRecv(h)
              \/ \E id \in CancelIds : CancelDirect(id)
       PROVE  UNCHANGED chan
  BY <1>10 DEF HandleHostRecv, CancelDirect
<1>11. ASSUME Gate \/ (\E n \in Targets : Wait(n)) \/ Recheck \/ Stop \/ Freed PROVE UNCHANGED chan
  BY <1>11 DEF Gate, Wait, Recheck, RThreadOnly, Stop, Freed, vars
<1>12. ASSUME Shutdown, ~ClosePoly PROVE UNCHANGED chan
  BY <1>12 DEF Shutdown, StopHost, StopRecv, StopSig, PolyClosed, FreeSenders, CloseReplies,
         CloseQueue, CloseRep, RThreadOnly
<1>13. ASSUME (\E r \in reply_active : ReplySent(r)) \/ (\E q \in Pipes : PipeStart(q))
              \/ (\E q \in Pipes, marker \in Markers : DaemonReply(q, marker))
       PROVE  UNCHANGED chan
  BY <1>13 DEF ReplySent, PipeStart, DaemonReply
<1>14. ASSUME NEW q \in Pipes, Crash(q) PROVE Goal
  BY <1>3, <1>14 DEF Crash
<1> HIDE DEF Goal
<1>15. Goal
  BY <1>2, <1>4, <1>5, <1>6, <1>7, <1>8, <1>9, <1>10, <1>11, <1>12, <1>13, <1>14 DEF Next, Callback, Network
<1>16. QED
  BY <1>15 DEF Goal

\* What a daemon works on.
LEMMA DaemonChanges ==
  ASSUME IInv, Next, NEW p \in Pipes
  PROVE  \/ daemon'[p] = daemon[p]
         \/ daemon'[p] \notin Task
         \/ /\ DaemonTake(p) /\ chan[p] # <<>> /\ chan'[p] = Tail(chan[p])
            /\ Head(chan[p]) \in Task /\ daemon'[p] = Head(chan[p])
            /\ UNCHANGED <<uwq, arrived>>
<1> DEFINE Goal ==
         \/ daemon'[p] = daemon[p]
         \/ daemon'[p] \notin Task
         \/ /\ DaemonTake(p) /\ chan[p] # <<>> /\ chan'[p] = Tail(chan[p])
            /\ Head(chan[p]) \in Task /\ daemon'[p] = Head(chan[p])
            /\ UNCHANGED <<uwq, arrived>>
<1>1. chan \in [Pipes -> Seq(Int)] /\ daemon \in [Pipes -> Int]
  BY LockTypes
<1>2. ASSUME NEW q \in Pipes, DaemonTake(q) PROVE Goal
  <2>1. \/ UNCHANGED daemon
        \/ daemon' = [daemon EXCEPT ![q] = Ready]
        \/ /\ chan[q] # <<>> /\ chan' = [chan EXCEPT ![q] = Tail(chan[q])] /\ Head(chan[q]) \in Task
           /\ daemon' = [daemon EXCEPT ![q] = Head(chan[q])] /\ UNCHANGED <<uwq, arrived>>
    BY <1>2 DEF DaemonTake, PipeDown
  <2>2. CASE daemon' = [daemon EXCEPT ![q] = Ready]
    BY <1>1, <2>2 DEF Ready, Task
  <2>3. CASE /\ chan[q] # <<>> /\ chan' = [chan EXCEPT ![q] = Tail(chan[q])] /\ Head(chan[q]) \in Task
             /\ daemon' = [daemon EXCEPT ![q] = Head(chan[q])] /\ UNCHANGED <<uwq, arrived>>
    BY <1>1, <1>2, <2>3
  <2>4. QED
    BY <2>1, <2>2, <2>3
<1>3. ASSUME NEW q \in Pipes, NEW marker, DaemonReply(q, marker) PROVE Goal
  <2>1. daemon' = [daemon EXCEPT ![q] = IF marker THEN Leaving ELSE Ready]
    BY <1>3 DEF DaemonReply
  <2>2. QED
    BY <1>1, <2>1 DEF Ready, Leaving, Task
<1>4. ASSUME UNCHANGED daemon PROVE Goal
  BY <1>4
<1>5. ASSUME DrainStep \/ DrainEnd \/ RearmHost \/ SigCb PROVE UNCHANGED daemon
  BY <1>5 DEF DrainStep, DrainEnd, RearmHost, SigCb
<1>6. ASSUME \/ \E q \in Pipes : HandleConnect(q) \/ InitCb(q) \/ HandleDisconnect(q)
             \/ \E o \in orphan : SendConnReset(o)
             \/ \E m \in arrived : HandleDaemonRecv(m)
      PROVE  UNCHANGED daemon
  BY <1>6 DEF HandleConnect, InitCb, HandleDisconnect, SendConnReset, HandleDaemonRecv
<1>7. ASSUME \/ \E h \in Headers(count + 1) : HandleHostRecv(h)
             \/ \E id \in CancelIds : CancelDirect(id)
      PROVE  UNCHANGED daemon
  BY <1>7 DEF HandleHostRecv, CancelDirect
<1>8. ASSUME Gate \/ (\E n \in Targets : Wait(n)) \/ Recheck \/ Stop \/ Freed PROVE UNCHANGED daemon
  BY <1>8 DEF Gate, Wait, Recheck, RThreadOnly, Stop, Freed, vars
<1>9. ASSUME Shutdown PROVE UNCHANGED daemon
  BY <1>9 DEF Shutdown, StopHost, StopRecv, StopSig, ClosePoly, PolyClosed, FreeSenders, CloseReplies,
         CloseQueue, CloseRep, RThreadOnly
<1>10. ASSUME Route \/ (\E r \in reply_active : ReplySent(r))
              \/ (\E q \in Pipes : PipeStart(q) \/ Crash(q))
       PROVE  UNCHANGED daemon
  BY <1>10 DEF Route, ReplySent, PipeStart, Crash
<1> HIDE DEF Goal
<1>11. Goal
  BY <1>2, <1>3, <1>4, <1>5, <1>6, <1>7, <1>8, <1>9, <1>10 DEF Next, Callback, Network
<1>12. QED
  BY <1>11 DEF Goal

\* The daemons' messages whose callback is due.
LEMMA ArrivedChanges ==
  ASSUME IInv, Next
  PROVE  \/ arrived' \subseteq arrived
         \/ \E p \in Pipes, marker \in Markers :
              /\ DaemonReply(p, marker) /\ daemon[p] \in Task /\ daemon'[p] \notin Task
              /\ arrived' = arrived \cup {[pipe |-> p, msg |-> daemon[p], marker |-> marker]}
              /\ UNCHANGED <<uwq, chan>>
<1> DEFINE Goal ==
         \/ arrived' \subseteq arrived
         \/ \E p \in Pipes, marker \in Markers :
              /\ DaemonReply(p, marker) /\ daemon[p] \in Task /\ daemon'[p] \notin Task
              /\ arrived' = arrived \cup {[pipe |-> p, msg |-> daemon[p], marker |-> marker]}
              /\ UNCHANGED <<uwq, chan>>
<1>1. daemon \in [Pipes -> Int]
  BY LockTypes
<1>2. ASSUME NEW p \in Pipes, NEW marker \in Markers, DaemonReply(p, marker) PROVE Goal
  <2>1. /\ daemon[p] \in Task /\ UNCHANGED <<uwq, chan>>
        /\ arrived' = arrived \cup {[pipe |-> p, msg |-> daemon[p], marker |-> marker]}
        /\ daemon' = [daemon EXCEPT ![p] = IF marker THEN Leaving ELSE Ready]
    BY <1>2 DEF DaemonReply
  <2>2. daemon'[p] \notin Task
    BY <1>1, <2>1 DEF Leaving, Ready, Task
  <2>3. QED
    BY <1>2, <2>1, <2>2
<1>3. ASSUME arrived' \subseteq arrived PROVE Goal
  BY <1>3
<1>4. ASSUME DrainStep \/ DrainEnd \/ RearmHost \/ SigCb PROVE arrived' \subseteq arrived
  BY <1>4 DEF DrainStep, DrainEnd, RearmHost, SigCb
<1>5. ASSUME \/ \E q \in Pipes : HandleConnect(q) \/ InitCb(q) \/ HandleDisconnect(q)
             \/ \E o \in orphan : SendConnReset(o)
             \/ \E m \in arrived : HandleDaemonRecv(m)
      PROVE  arrived' \subseteq arrived
  BY <1>5 DEF HandleConnect, InitCb, HandleDisconnect, SendConnReset, HandleDaemonRecv
<1>6. ASSUME \/ \E h \in Headers(count + 1) : HandleHostRecv(h)
             \/ \E id \in CancelIds : CancelDirect(id)
      PROVE  arrived' \subseteq arrived
  BY <1>6 DEF HandleHostRecv, CancelDirect
<1>7. ASSUME Gate \/ (\E n \in Targets : Wait(n)) \/ Recheck \/ Stop \/ Freed PROVE arrived' \subseteq arrived
  BY <1>7 DEF Gate, Wait, Recheck, RThreadOnly, Stop, Freed, vars
<1>8. ASSUME Shutdown PROVE arrived' \subseteq arrived
  BY <1>8 DEF Shutdown, StopHost, StopRecv, StopSig, ClosePoly, PolyClosed, FreeSenders, CloseReplies,
         CloseQueue, CloseRep, RThreadOnly
<1>9. ASSUME Network PROVE arrived' \subseteq arrived
  BY <1>9 DEF Network, Route, DaemonTake, PipeDown, ReplySent
<1>10. ASSUME \E q \in Pipes : PipeStart(q) \/ Crash(q) PROVE arrived' \subseteq arrived
  BY <1>10 DEF PipeStart, Crash, PipeDown
<1> HIDE DEF Goal
<1>11. Goal
  BY <1>2, <1>3, <1>4, <1>5, <1>6, <1>7, <1>8, <1>9, <1>10 DEF Next, Callback
<1>12. QED
  BY <1>11 DEF Goal

\* A task gets into a pipe from the sends, and to the daemon from its pipe.
LEMMA OnWayChanges ==
  ASSUME IInv, Next, NEW p \in Pipes, OnWay(p)'
  PROVE  \/ OnWay(p)
         \/ /\ TaskSending(p)
            /\ uwq # <<>> /\ uwq' = Tail(uwq) /\ Head(uwq).pipe = p /\ Head(uwq).msg \in Task
<1>1. chan[p] \in Seq(Int) /\ uwq \in Seq([pipe : Pipes, msg : Int])
  BY LockTypes
<1>2. CASE chan'[p] = chan[p]
  BY <1>2 DEF OnWay
<1>3. CASE chan'[p] = <<>>
  BY <1>3, EmptySeq DEF OnWay
<1>4. CASE chan[p] # <<>> /\ chan'[p] = Tail(chan[p])
  BY <1>1, <1>4, TailElements DEF OnWay
<1>5. CASE /\ uwq # <<>> /\ uwq' = Tail(uwq) /\ Head(uwq).pipe = p
           /\ chan'[p] = Append(chan[p], Head(uwq).msg)
  <2>1. Head(uwq) \in [pipe : Pipes, msg : Int] /\ Head(uwq) \in entries
    BY <1>1, <1>5, TailElements, HeadTailProperties DEF entries
  <2>2. Head(uwq).msg \in Task => TaskSending(p)
    BY <1>5, <2>1, TaskEntries
  <2>3. Head(uwq).msg \notin Task => OnWay(p)
    <3>1. /\ Len(chan'[p]) = Len(chan[p]) + 1 /\ Len(chan[p]) \in Nat
          /\ chan'[p][Len(chan[p]) + 1] = Head(uwq).msg
          /\ \A i \in 1..Len(chan'[p]) : i = Len(chan[p]) + 1 \/ (i \in 1..Len(chan[p]) /\ chan'[p][i] = chan[p][i])
      BY <1>1, <1>5, <2>1, AppendElements
    <3>2. QED
      BY <3>1 DEF OnWay
  <2>4. QED
    BY <1>5, <2>2, <2>3
<1>6. QED
  BY <1>2, <1>3, <1>4, <1>5, ChanChanges

LEMMA WithChanges ==
  ASSUME IInv, Next, NEW p \in Pipes, With(p)'
  PROVE  \/ daemon'[p] = daemon[p]
         \/ OnWay(p) /\ chan[p] # <<>> /\ chan'[p] = Tail(chan[p]) /\ chan[p][1] \in Task
            /\ daemon'[p] = chan[p][1] /\ UNCHANGED <<uwq, arrived>>
<1>1. chan[p] \in Seq(Int)
  BY LockTypes
<1>2. ASSUME chan[p] # <<>>, Head(chan[p]) \in Task
      PROVE  OnWay(p) /\ Head(chan[p]) = chan[p][1]
  BY <1>1, <1>2, TailElements DEF OnWay
<1>3. QED
  BY <1>2, DaemonChanges DEF With

LEMMA BackChanges ==
  ASSUME IInv, Next, NEW p \in Pipes, Back(p)'
  PROVE  Back(p) \/ With(p)
<1>1. CASE arrived' \subseteq arrived
  BY <1>1 DEF Back
<1>2. ASSUME NEW q \in Pipes, NEW marker, daemon[q] \in Task,
             arrived' = arrived \cup {[pipe |-> q, msg |-> daemon[q], marker |-> marker]}
      PROVE  Back(p) \/ With(p)
  <2>1. PICK m \in arrived' : m.pipe = p
    BY DEF Back
  <2>2. CASE m \in arrived
    BY <2>1, <2>2 DEF Back
  <2>3. CASE m = [pipe |-> q, msg |-> daemon[q], marker |-> marker]
    BY <1>2, <2>1, <2>3 DEF With
  <2>4. QED
    BY <1>2, <2>1, <2>2, <2>3
<1>3. QED
  BY <1>1, <1>2, ArrivedChanges

\* A daemon that is given nothing comes by nothing.
LEMMA UntaskedStays ==
  ASSUME IInv, Stages, Next, NEW p \in Pipes, Untasked(p), p \notin IdleDaemons \/ slot'[p].state # "BUSY"
  PROVE  Untasked(p)'
<1>1. ~TaskSending(p)'
  BY SendingChanges DEF Untasked
<1>2. ~OnWay(p)'
  BY OnWayChanges DEF Untasked
<1>3. ~With(p)'
  BY WithChanges DEF Untasked, With
<1>4. ~Back(p)'
  BY BackChanges DEF Untasked
<1>5. QED
  BY <1>1, <1>2, <1>3, <1>4 DEF Untasked

\* The task of a daemon that stays busy moves on to the next point.
LEMMA OneTaskStays ==
  ASSUME IInv, Stages, Sends, Next, NEW p \in Pipes, OneTask(p), slot[p].state = "BUSY", slot'[p] = slot[p]
  PROVE  OneTask(p)'
<1>1. /\ chan \in [Pipes -> Seq(Int)] /\ uwq \in Seq([pipe : Pipes, msg : Int])
      /\ chan[p] \in Seq(Int) /\ p \notin IdleDaemons /\ SentOnce(uwq)
  BY LockTypes DEF IdleDaemons, Sends
<1>2. ASSUME NEW e \in entries', e.pipe = p, e.msg \in Task
      PROVE  e \in entries /\ e.msg = slot[p].ctx
  <2>1. e \in entries
    BY <1>1, <1>2, EntryChanges DEF Signal, InitMsg, Task
  <2>2. QED
    BY <1>2, <2>1 DEF OneTask
\* the sends when the poly socket has taken this daemon's task from them
<1>3. ASSUME uwq # <<>>, uwq' = Tail(uwq), Head(uwq).pipe = p, Head(uwq).msg \in Task
      PROVE  ~TaskSending(p)' /\ TaskSending(p) /\ Head(uwq).msg = slot[p].ctx
  <2>1. Head(uwq) \in [pipe : Pipes, msg : Int] /\ Head(uwq) \in entries
    BY <1>1, <1>3, TailElements, HeadTailProperties DEF entries
  <2>2. TaskSending(p) /\ Head(uwq).msg = slot[p].ctx
    BY <1>3, <2>1, TaskEntries DEF OneTask
  <2>3. ASSUME TaskSending(p)' PROVE FALSE
    <3>1. PICK i \in 1..Len(uwq') : uwq'[i].pipe = p /\ uwq'[i].msg \in Task
      BY <2>3 DEF TaskSending
    <3>2. uwq'[i] \in entries' /\ uwq'[i] \in entries
      BY <1>2, <3>1 DEF entries
    <3>3. uwq'[i].msg = slot[p].ctx
      BY <1>2, <3>1, <3>2
    <3>4. uwq'[i] = Head(uwq)
      <4>1. PICK j \in 1..Len(uwq) : uwq'[i] = uwq[j]
        BY <3>2 DEF entries
      <4>2. uwq[j] \in [pipe : Pipes, msg : Int]
        BY <1>1, ElementOfSeq
      <4>3. uwq'[i] = [pipe |-> p, msg |-> slot[p].ctx]
        BY <3>1, <3>3, <4>1, <4>2
      <4>4. Head(uwq) = [pipe |-> p, msg |-> slot[p].ctx]
        BY <1>3, <2>1, <2>2
      <4>5. QED
        BY <4>3, <4>4
    <3>5. Head(uwq).msg # Signal
      BY <1>3 DEF Signal, Task
    <3>6. \A k \in 1..Len(Tail(uwq)) : Tail(uwq)[k] # Head(uwq)
      BY <1>1, <1>3, <3>5, SentOnceChanges
    <3>7. QED
      BY <1>3, <3>1, <3>4, <3>6
  <2>4. QED
    BY <2>2, <2>3
\* the pipe
<1>4. /\ \A i \in 1..Len(chan'[p]) : chan'[p][i] \in Task => chan'[p][i] = slot[p].ctx
      /\ \A i, j \in 1..Len(chan'[p]) : chan'[p][i] \in Task /\ chan'[p][j] \in Task => i = j
  <2>1. CASE chan'[p] = chan[p]
    BY <2>1 DEF OneTask
  <2>2. CASE chan'[p] = <<>>
    BY <2>2, EmptySeq
  <2>3. CASE chan[p] # <<>> /\ chan'[p] = Tail(chan[p])
    <3>1. /\ Len(chan'[p]) = Len(chan[p]) - 1 /\ Len(chan[p]) \in Nat
          /\ \A i \in 1..Len(chan'[p]) : i + 1 \in 1..Len(chan[p]) /\ chan'[p][i] = chan[p][i + 1]
      BY <1>1, <2>3, TailElements
    <3>2. \A i, j \in 1..Len(chan'[p]) : i + 1 = j + 1 => i = j
      BY <3>1
    <3>3. QED
      BY <3>1, <3>2 DEF OneTask
  <2>4. CASE /\ uwq # <<>> /\ uwq' = Tail(uwq) /\ Head(uwq).pipe = p
             /\ chan'[p] = Append(chan[p], Head(uwq).msg)
    <3>1. Head(uwq).msg \in Int
      <4>1. Head(uwq) \in [pipe : Pipes, msg : Int]
        BY <1>1, <2>4, HeadTailProperties
      <4>2. QED
        BY <4>1
    <3>2. /\ Len(chan'[p]) = Len(chan[p]) + 1 /\ Len(chan[p]) \in Nat
          /\ chan'[p][Len(chan[p]) + 1] = Head(uwq).msg
          /\ \A i \in 1..Len(chan'[p]) : i = Len(chan[p]) + 1 \/ (i \in 1..Len(chan[p]) /\ chan'[p][i] = chan[p][i])
      BY <1>1, <2>4, <3>1, AppendElements
    <3>3. CASE Head(uwq).msg \in Task
      <4>1. Head(uwq).msg = slot[p].ctx /\ ~OnWay(p)
        BY <1>3, <2>4, <3>3 DEF OneTask
      <4>2. \A i \in 1..Len(chan[p]) : chan[p][i] \notin Task
        BY <4>1 DEF OnWay
      <4>3. QED
        BY <3>2, <4>1, <4>2
    <3>4. CASE Head(uwq).msg \notin Task
      BY <3>2, <3>4 DEF OneTask
    <3>5. QED
      BY <3>3, <3>4
  <2>5. QED
    BY <2>1, <2>2, <2>3, <2>4, ChanChanges
\* the daemon
<1>5. With(p)' => daemon'[p] = slot[p].ctx
  <2>1. ASSUME chan[p] # <<>>, chan[p][1] \in Task PROVE chan[p][1] = slot[p].ctx
    <3>1. 1 \in 1..Len(chan[p])
      BY <1>1, <2>1, TailElements
    <3>2. QED
      BY <2>1, <3>1 DEF OneTask
  <2>2. QED
    BY <2>1, WithChanges DEF With, OneTask
\* the way back
<1>6. /\ \A m \in arrived' : m.pipe = p => m.msg = slot[p].ctx
      /\ \A m, n \in arrived' : m.pipe = p /\ n.pipe = p => m = n
  <2>1. CASE arrived' \subseteq arrived
    BY <2>1 DEF OneTask
  <2>2. ASSUME NEW q \in Pipes, NEW marker, daemon[q] \in Task,
               arrived' = arrived \cup {[pipe |-> q, msg |-> daemon[q], marker |-> marker]}
        PROVE  /\ \A m \in arrived' : m.pipe = p => m.msg = slot[p].ctx
               /\ \A m, n \in arrived' : m.pipe = p /\ n.pipe = p => m = n
    <3>1. CASE q # p
      <4>1. \A m \in arrived' : m.pipe = p => m \in arrived
        BY <2>2, <3>1
      <4>2. QED
        BY <4>1 DEF OneTask
    <3>2. CASE q = p
      <4>1. With(p) /\ ~Back(p) /\ daemon[p] = slot[p].ctx
        BY <2>2, <3>2 DEF With, OneTask
      <4>2. \A m \in arrived' : m.pipe = p => m = [pipe |-> p, msg |-> daemon[p], marker |-> marker]
        BY <2>2, <3>2, <4>1 DEF Back
      <4>3. QED
        BY <4>1, <4>2
    <3>3. QED
      BY <3>1, <3>2
  <2>3. QED
    BY <2>1, <2>2, ArrivedChanges
\* one point at a time
<1>7. TaskSending(p)' => TaskSending(p)
  BY <1>1, SendingChanges
<1>8. TaskSending(p)' => ~OnWay(p)' /\ ~With(p)' /\ ~Back(p)'
  <2>1. SUFFICES ASSUME TaskSending(p)'
                 PROVE  ~OnWay(p)' /\ ~With(p)' /\ ~Back(p)'
    OBVIOUS
  <2>2. TaskSending(p) /\ ~OnWay(p) /\ ~With(p) /\ ~Back(p)
    BY <1>7, <2>1 DEF OneTask
  <2>3. ~With(p)' /\ ~Back(p)'
    BY <2>2, WithChanges, BackChanges DEF With
  <2>4. ~OnWay(p)'
    BY <1>3, <2>1, <2>2, OnWayChanges
  <2>5. QED
    BY <2>3, <2>4
<1>9. OnWay(p)' => ~With(p)' /\ ~Back(p)'
  <2>1. SUFFICES ASSUME OnWay(p)' PROVE ~With(p)' /\ ~Back(p)'
    OBVIOUS
  <2>2. ~With(p) /\ ~Back(p)
    BY <2>1, OnWayChanges DEF OneTask
  <2>3. ~Back(p)'
    BY <2>2, BackChanges
  <2>4. ASSUME With(p)' PROVE FALSE
    <3>1. chan[p] # <<>> /\ chan'[p] = Tail(chan[p]) /\ chan[p][1] \in Task
      BY <2>2, <2>4, WithChanges DEF With
    <3>2. /\ Len(chan[p]) \in Nat /\ 1 \in 1..Len(chan[p])
          /\ \A i \in 1..Len(chan'[p]) : i + 1 \in 1..Len(chan[p]) /\ chan'[p][i] = chan[p][i + 1] /\ i + 1 # 1
      BY <1>1, <3>1, TailElements
    <3>3. PICK i \in 1..Len(chan'[p]) : chan'[p][i] \in Task
      BY <2>1 DEF OnWay
    <3>4. QED
      BY <3>1, <3>2, <3>3 DEF OneTask
  <2>5. QED
    BY <2>3, <2>4
<1>10. With(p)' => ~Back(p)'
  <2>1. SUFFICES ASSUME With(p)', Back(p)' PROVE FALSE
    OBVIOUS
  <2>2. CASE UNCHANGED arrived /\ OnWay(p)
    BY <2>1, <2>2 DEF OneTask, Back
  <2>3. CASE daemon'[p] = daemon[p]
    <3>1. With(p) /\ ~Back(p)
      BY <2>1, <2>3 DEF With, OneTask
    <3>2. PICK q \in Pipes, marker \in Markers :
            /\ daemon'[q] \notin Task
            /\ arrived' = arrived \cup {[pipe |-> q, msg |-> daemon[q], marker |-> marker]}
      BY <2>1, <3>1, ArrivedChanges DEF Back
    <3>3. q = p
      BY <2>1, <3>1, <3>2 DEF Back
    <3>4. QED
      BY <2>1, <3>2, <3>3 DEF With
  <2>4. QED
    BY <2>1, <2>2, <2>3, WithChanges
<1>11. QED
  BY <1>2, <1>4, <1>5, <1>6, <1>8, <1>9, <1>10 DEF OneTask

LEMMA FlowNext ==
  ASSUME IInv, Stages, Sends, Flow, Next
  PROVE  Flow'
<1> SUFFICES ASSUME NEW p \in Pipes
             PROVE  /\ slot'[p].state \in {"INIT", "IDLE"} \/ phase'[p] \in {"none", "attached"} => Untasked(p)'
                    /\ slot'[p].state = "BUSY" => OneTask(p)'
  BY DEF Flow
<1>1. /\ slot \in [Pipes -> Slot] /\ slot[p] \in Slot
      /\ chan \in [Pipes -> Seq(Int)] /\ uwq \in Seq([pipe : Pipes, msg : Int])
      /\ arrived \subseteq [pipe : Pipes, msg : Task, marker : BOOLEAN]
  BY LockTypes
\* a daemon back from its task
<1>2. ASSUME slot[p].state = "BUSY", slot'[p] = [slot[p] EXCEPT !.state = "IDLE", !.msgid = 0, !.ctx = Fresh],
             NEW m \in arrived, m.pipe = p, HandleDaemonRecv(m), ~stopped, ~m.marker
      PROVE  Untasked(p)'
  <2>1. OneTask(p) /\ Back(p)
    BY <1>2 DEF Flow, Back
  <2>2. ~TaskSending(p) /\ ~OnWay(p) /\ ~With(p) /\ \A n \in arrived : n.pipe = p => n = m
    BY <1>2, <2>1 DEF OneTask
  <2>3. arrived' = arrived \ {m} /\ UNCHANGED <<uwq, chan, daemon>>
    BY <1>2 DEF HandleDaemonRecv
  <2>4. QED
    BY <2>2, <2>3 DEF Untasked, TaskSending, OnWay, With, Back
\* a daemon that is given a task
<1>3. ASSUME p \in IdleDaemons, NEW t \in Task, NEW h \in Header, AssignTask(p, t, h), slot'[p] = TaskSlot(p, t, h),
             DrainStep \/ \E k \in Headers(count + 1) : HandleHostRecv(k)
      PROVE  OneTask(p)'
  <2>1. Untasked(p)
    BY <1>3 DEF Flow, IdleDaemons
  <2>2. UNCHANGED <<chan, daemon, arrived>> /\ slot'[p].ctx = t
    BY <1>3 DEF DrainStep, HandleHostRecv, TaskSlot
  <2>3. ~OnWay(p)' /\ ~With(p)' /\ ~Back(p)'
    BY <2>1, <2>2 DEF Untasked, OnWay, With, Back
  <2>4. ASSUME NEW e \in entries', e.pipe = p, e.msg \in Task PROVE e.msg = t
    <3>1. e \notin entries
      BY <2>1, <2>4, TaskEntries DEF Untasked
    <3>2. slot'[e.pipe].ctx = e.msg
      BY <2>4, <3>1, EntryChanges DEF Signal, InitMsg, Task
    <3>3. QED
      BY <2>2, <2>4, <3>2
  <2>5. QED
    BY <2>2, <2>3, <2>4 DEF OneTask, OnWay, With, Back
<1>4. ASSUME phase'[p] \in {"none", "attached"} PROVE Untasked(p)'
  <2>1. phase[p] \in {"none", "attached"}
    BY <1>4, PhaseChanges
  <2>2. Untasked(p) /\ p \notin IdleDaemons
    BY <2>1 DEF Flow, IdleDaemons, IInv, Linked
  <2>3. QED
    BY <2>2, UntaskedStays
<1>5. ASSUME slot'[p].state \in {"INIT", "IDLE"} PROVE Untasked(p)'
  <2>1. CASE slot[p].state = "BUSY"
    <3>1. \E m \in arrived : /\ m.pipe = p /\ HandleDaemonRecv(m) /\ ~m.marker /\ ~stopped
                             /\ slot'[p] = [slot[p] EXCEPT !.state = "IDLE", !.msgid = 0, !.ctx = Fresh]
      <4>1. ~HandleConnect(p)
        BY <2>1 DEF HandleConnect, IInv, Linked
      <4>2. p \notin IdleDaemons /\ NoSlot.state = "NONE" /\ slot'[p] # slot[p]
        BY <1>5, <2>1 DEF IdleDaemons, NoSlot
      <4>3. QED
        BY <1>5, <2>1, <4>1, <4>2, SlotChanges
    <3>2. QED
      BY <1>2, <2>1, <3>1
  <2>2. CASE slot[p].state \in {"INIT", "IDLE"}
    BY <1>5, <2>2, UntaskedStays DEF Flow
  <2>3. CASE slot[p].state = "NONE"
    <3>1. HandleConnect(p)
      <4>1. p \notin IdleDaemons /\ NoSlot.state = "NONE" /\ slot'[p] # slot[p]
        BY <1>5, <2>3 DEF IdleDaemons, NoSlot
      <4>2. QED
        BY <1>5, <2>3, <4>1, SlotChanges
    <3>2. phase[p] = "attached"
      BY <3>1 DEF HandleConnect
    <3>3. QED
      BY <1>5, <3>2, UntaskedStays DEF Flow
  <2>4. QED
    BY <1>1, <2>1, <2>2, <2>3 DEF Slot
<1>6. ASSUME slot'[p].state = "BUSY" PROVE OneTask(p)'
  <2>1. CASE slot'[p] = slot[p]
    BY <1>6, <2>1, OneTaskStays DEF Flow
  <2>2. CASE slot'[p] # slot[p]
    <3>1. /\ p \in IdleDaemons
          /\ DrainStep \/ \E h \in Headers(count + 1) : HandleHostRecv(h)
          /\ \E t \in Task, h \in Header : AssignTask(p, t, h) /\ slot'[p] = TaskSlot(p, t, h)
      <4>1. /\ NoSlot.state # "BUSY"
            /\ [slot[p] EXCEPT !.state = "IDLE"].state # "BUSY"
            /\ [slot[p] EXCEPT !.state = "IDLE", !.msgid = 0, !.ctx = Fresh].state # "BUSY"
            /\ [state |-> "INIT", msgid |-> 0, gen |-> sync_generation - 1, ctx |-> Fresh].state # "BUSY"
        BY <1>1 DEF NoSlot, Slot
      <4>2. QED
        BY <1>6, <2>2, <4>1, SlotChanges
    <3>2. QED
      BY <1>3, <3>1
  <2>3. QED
    BY <2>1, <2>2
<1>7. QED
  BY <1>4, <1>5, <1>6

-----------------------------------------------------------------------------
(* The inductive invariant and what follows from it                          *)

FlowInv == IInv /\ Stages /\ Sends /\ SenderKept /\ Flow

LEMMA InitFlowInv == Init => FlowInv
<1> SUFFICES ASSUME Init PROVE FlowInv
  OBVIOUS
<1>1. IInv
  BY InitIInv
<1>2. /\ entries = {} /\ \A p \in Pipes : ~TaskSending(p) /\ ~OnWay(p) /\ ~With(p) /\ ~Back(p)
      /\ \A p \in Pipes : slot[p].state = "NONE" /\ init_aio[p] = "idle"
  BY EmptySeq DEF Init, entries, TaskSending, OnWay, With, Back, NoSlot, NewDaemon, Task
<1>3. Stages
  BY DEF Init, Stages, Free, InUse, AfterPoly
<1>4. Sends /\ SenderKept
  <2>1. SentOnce(uwq)
    BY EmptySeq DEF Init, SentOnce
  <2>2. QED
    BY <1>2, <2>1 DEF Sends, SenderKept
<1>5. Flow
  BY <1>2 DEF Flow, Untasked
<1>6. QED
  BY <1>1, <1>3, <1>4, <1>5 DEF FlowInv

LEMMA NextFlowInv == FlowInv /\ [Next]_vars => FlowInv'
<1>1. ASSUME FlowInv, Next PROVE FlowInv'
  BY <1>1, NextIInv, StagesNext, SendsNext, SenderKeptNext, FlowNext DEF FlowInv
<1>2. ASSUME FlowInv, UNCHANGED vars PROVE FlowInv'
  <2>1. IInv'
    BY <1>2, NextIInv DEF FlowInv
  <2>2. Stages'
    BY <1>2 DEF FlowInv, vars, Stages, InUse, PipeCallbacksDone
  <2>3. Sends' /\ SenderKept'
    BY <1>2 DEF FlowInv, vars, Sends, SenderKept, SentOnce, entries, TaskSending
  <2>4. Flow'
    BY <1>2 DEF FlowInv, vars, Flow, Untasked, OneTask, entries, TaskSending, OnWay, With, Back
  <2>5. QED
    BY <2>1, <2>2, <2>3, <2>4 DEF FlowInv
<1>3. QED
  BY <1>1, <1>2

\* Whatever the daemons, the host and the R session do, each task's message is
\* at one point of its way, each send occurs once, and each step of
\* dispatch_shutdown has ended what it waited for.
THEOREM FlowInvariance == Spec => []FlowInv
<1>1. Init => FlowInv
  BY InitFlowInv
<1>2. FlowInv /\ [Next]_vars => FlowInv'
  BY NextFlowInv
<1>3. QED
  BY <1>1, <1>2, PTL DEF Spec

\* dispatch_start_send's nng_aio_wait, under d->mtx, never has to wait: a daemon
\* that may be given a task has no send under way.
THEOREM NeverWaitsToSend == Spec => []StartSendNeverBlocks
<1>1. FlowInv => StartSendNeverBlocks
  BY DEF FlowInv, Flow, Untasked, StartSendNeverBlocks
<1>2. QED
  BY <1>1, FlowInvariance, PTL

\* dispatch_reap_retired and dispatch_shutdown free no sender whose init send
\* or task send is in progress or has its callback due.
THEOREM SendersOutliveSends == Spec => []SenderNotFreed
<1>1. FlowInv => SenderNotFreed
  BY DEF FlowInv, SenderKept, SenderNotFreed
<1>2. QED
  BY <1>1, FlowInvariance, PTL

\* Once dispatch_shutdown has freed the dispatcher, no callback of it runs and
\* none of its aios is in use.
THEOREM NothingRunsAfterFree == Spec => []NothingAfterFree
<1>1. FlowInv => NothingAfterFree
  BY LockTypes DEF FlowInv, Stages, AfterPoly, InUse, PipeCallbacksDone, NothingAfterFree
<1>2. QED
  BY <1>1, FlowInvariance, PTL

-----------------------------------------------------------------------------
(* The sync barrier                                                          *)

Sync(i) == header[dispatched[i].task].sync

\* While the tasks last assigned are all sync tasks the barrier is up, and those
\* of their daemons that are still there belong to its generation.
Barred ==
  \A i \in 1..Len(dispatched) :
    /\ dispatched[i].task <= count
    /\ phase[dispatched[i].pipe] \notin {"none", "attached"}
    /\ (\A k \in i..Len(dispatched) : Sync(k)) =>
         /\ syncing
         /\ \/ slot[dispatched[i].pipe].state = "NONE"
            \/ slot[dispatched[i].pipe].gen = sync_generation

\* Tasks are assigned, and the barrier raised and lifted, in AssignTask only,
\* with the header that was read of the task.
LEMMA AssignChanges ==
  ASSUME IInv, Next
  PROVE  \/ UNCHANGED <<dispatched, syncing, sync_generation>>
         \/ \E p \in IdleDaemons, t \in Task, h \in Header :
              /\ AssignTask(p, t, h) /\ UNCHANGED phase
              /\ t <= count' /\ header'[t] = h
<1> DEFINE Same == UNCHANGED <<dispatched, syncing, sync_generation>>
           Goal == \/ Same
                   \/ \E p \in IdleDaemons, t \in Task, h \in Header :
                        /\ AssignTask(p, t, h) /\ UNCHANGED phase
                        /\ t <= count' /\ header'[t] = h
<1>1. /\ inq \in Seq(Task) /\ header \in Seq(Header) /\ count \in 0..MaxTasks
      /\ Len(header) = count /\ \A i \in 1..Len(inq) : inq[i] <= count
  BY DEF IInv, TypeOK, TypeQueue, Linked
<1>2. ASSUME DrainStep PROVE Goal
  <2>1. /\ inq # <<>> /\ UNCHANGED <<phase, header, count>>
        /\ \E p \in IdleDaemons : AssignTask(p, Head(inq), header[Head(inq)])
    BY <1>2 DEF DrainStep, DrainDone
  <2>2. Head(inq) <= count
    BY <1>1, <2>1, TailElements
  <2>3. QED
    BY <2>1, <2>2, HeadTask
<1>3. ASSUME NEW h \in Headers(count + 1), HandleHostRecv(h) PROVE Goal
  <2>1. \/ Same
        \/ /\ count < MaxTasks /\ count' = count + 1 /\ header' = Append(header, h) /\ UNCHANGED phase
           /\ \E p \in IdleDaemons : AssignTask(p, count + 1, h)
    BY <1>3 DEF HandleHostRecv
  <2>2. CASE /\ count < MaxTasks /\ count' = count + 1 /\ header' = Append(header, h) /\ UNCHANGED phase
             /\ \E p \in IdleDaemons : AssignTask(p, count + 1, h)
    <3>1. count + 1 \in Task /\ h \in Header
      BY <2>2, NewTask
    <3>2. header'[count + 1] = h /\ count + 1 <= count'
      BY <1>1, <2>2, <3>1, AppendElements
    <3>3. QED
      BY <2>2, <3>1, <3>2
  <2>3. QED
    BY <2>1, <2>2
<1>4. ASSUME DrainEnd \/ RearmHost \/ SigCb PROVE Same
  BY <1>4 DEF DrainEnd, RearmHost, SigCb
<1>5. ASSUME \/ \E q \in Pipes : HandleConnect(q) \/ InitCb(q) \/ HandleDisconnect(q)
             \/ \E o \in orphan : SendConnReset(o)
             \/ \E m \in arrived : HandleDaemonRecv(m)
      PROVE  Same
  BY <1>5 DEF HandleConnect, InitCb, HandleDisconnect, SendConnReset, HandleDaemonRecv
<1>6. ASSUME \E id \in CancelIds : CancelDirect(id) PROVE Same
  BY <1>6 DEF CancelDirect
<1>7. ASSUME Gate \/ (\E n \in Targets : Wait(n)) \/ Recheck \/ Stop \/ Freed PROVE Same
  BY <1>7 DEF Gate, Wait, Recheck, RThreadOnly, Stop, Freed, vars
<1>8. ASSUME Shutdown PROVE Same
  BY <1>8 DEF Shutdown, StopHost, StopRecv, StopSig, ClosePoly, PolyClosed, FreeSenders, CloseReplies,
         CloseQueue, CloseRep, RThreadOnly
<1>9. ASSUME Network PROVE Same
  BY <1>9 DEF Network, Route, DaemonTake, PipeDown, ReplySent, NetworkOnly
<1>10. ASSUME \/ \E q \in Pipes : PipeStart(q) \/ Crash(q)
              \/ \E q \in Pipes, marker \in Markers : DaemonReply(q, marker)
       PROVE  Same
  BY <1>10 DEF PipeStart, PipeDown, Crash, DaemonReply, NetworkOnly
<1>11. Goal
  <2> HIDE DEF Goal
  <2>1. Same => Goal
    BY DEF Goal
  <2> HIDE DEF Same
  <2>2. QED
    BY <1>2, <1>3, <1>4, <1>5, <1>6, <1>7, <1>8, <1>9, <1>10, <2>1 DEF Next, Callback
<1>12. QED
  BY <1>11

\* The headers read so far stay.
LEMMA HeaderStays ==
  ASSUME IInv, Next
  PROVE  /\ count \in Nat /\ count' \in Nat /\ count <= count'
         /\ \A t \in Nat : 1 <= t /\ t <= count => header'[t] = header[t]
<1> DEFINE Goal == count <= count' /\ \A t \in Nat : 1 <= t /\ t <= count => header'[t] = header[t]
<1>1. /\ header \in Seq(Header) /\ count \in Nat /\ Len(header) = count
  BY DispatcherAssumption DEF IInv, TypeOK, TypeQueue, Linked
<1>2. IInv'
  BY NextIInv
<1>3. count' \in Nat
  BY <1>2, DispatcherAssumption DEF IInv, TypeOK, TypeQueue
<1>4. ASSUME NEW h \in Headers(count + 1), HandleHostRecv(h) PROVE Goal
  <2>1. \/ UNCHANGED <<count, header>>
        \/ count < MaxTasks /\ count' = count + 1 /\ header' = Append(header, h)
    BY <1>4 DEF HandleHostRecv
  <2>2. CASE count < MaxTasks /\ count' = count + 1 /\ header' = Append(header, h)
    <3>1. h \in Header
      BY <2>2, NewTask
    <3>2. \A t \in Nat : 1 <= t /\ t <= count => t \in 1..Len(header)
      BY <1>1
    <3>3. \A i \in 1..Len(header) : header'[i] = header[i]
      BY <1>1, <2>2, <3>1, AppendProperties
    <3>4. QED
      BY <1>1, <2>2, <3>2, <3>3
  <2>3. QED
    BY <1>1, <2>1, <2>2
<1>5. ASSUME UNCHANGED <<count, header>> PROVE Goal
  BY <1>1, <1>5
<1>6. ASSUME DrainStep \/ DrainEnd \/ RearmHost \/ SigCb PROVE UNCHANGED <<count, header>>
  BY <1>6 DEF DrainStep, DrainEnd, RearmHost, SigCb
<1>7. ASSUME \/ \E q \in Pipes : HandleConnect(q) \/ InitCb(q) \/ HandleDisconnect(q)
             \/ \E o \in orphan : SendConnReset(o)
             \/ \E m \in arrived : HandleDaemonRecv(m)
      PROVE  UNCHANGED <<count, header>>
  BY <1>7 DEF HandleConnect, InitCb, HandleDisconnect, SendConnReset, HandleDaemonRecv
<1>8. ASSUME \E id \in CancelIds : CancelDirect(id) PROVE UNCHANGED <<count, header>>
  BY <1>8 DEF CancelDirect
<1>9. ASSUME Gate \/ (\E n \in Targets : Wait(n)) \/ Recheck \/ Stop \/ Freed PROVE UNCHANGED <<count, header>>
  BY <1>9 DEF Gate, Wait, Recheck, RThreadOnly, Stop, Freed, vars
<1>10. ASSUME Shutdown PROVE UNCHANGED <<count, header>>
  BY <1>10 DEF Shutdown, StopHost, StopRecv, StopSig, ClosePoly, PolyClosed, FreeSenders, CloseReplies,
         CloseQueue, CloseRep, RThreadOnly
<1>11. ASSUME Network PROVE UNCHANGED <<count, header>>
  BY <1>11 DEF Network, Route, DaemonTake, PipeDown, ReplySent, NetworkOnly
<1>12. ASSUME \/ \E q \in Pipes : PipeStart(q) \/ Crash(q)
              \/ \E q \in Pipes, marker \in Markers : DaemonReply(q, marker)
       PROVE  UNCHANGED <<count, header>>
  BY <1>12 DEF PipeStart, PipeDown, Crash, DaemonReply, NetworkOnly
<1> HIDE DEF Goal
<1>13. Goal
  BY <1>4, <1>5, <1>6, <1>7, <1>8, <1>9, <1>10, <1>11, <1>12 DEF Next, Callback
<1>14. QED
  BY <1>1, <1>3, <1>13 DEF Goal

\* A daemon that has been given a task keeps its generation until it is given
\* another or is gone.
LEMMA GenerationStays ==
  ASSUME IInv, Next, NEW p \in Pipes, phase[p] \notin {"none", "attached"}
  PROVE  \/ slot[p].state = "NONE" /\ slot'[p].state = "NONE"
         \/ slot'[p].state = "NONE"
         \/ slot[p].state # "NONE" /\ slot'[p].gen = slot[p].gen
         \/ \E t \in Task, h \in Header : AssignTask(p, t, h)
<1>1. slot[p] \in Slot /\ NoSlot.state = "NONE"
  BY LockTypes DEF NoSlot
<1>2. ~HandleConnect(p)
  BY DEF HandleConnect
<1>3. [slot[p] EXCEPT !.state = "IDLE"].gen = slot[p].gen
      /\ [slot[p] EXCEPT !.state = "IDLE", !.msgid = 0, !.ctx = Fresh].gen = slot[p].gen
  BY <1>1 DEF Slot
<1>4. \/ slot'[p] = slot[p]
      \/ slot[p].state # "NONE" /\ slot'[p].gen = slot[p].gen
      \/ slot'[p] = NoSlot
      \/ \E t \in Task, h \in Header : AssignTask(p, t, h)
  BY <1>2, <1>3, SlotChanges
<1>5. QED
  BY <1>1, <1>4

LEMMA BarrierNext ==
  ASSUME IInv, Barred, SyncBarrier, Next
  PROVE  Barred' /\ SyncBarrier'
<1>1. /\ dispatched \in Seq([pipe : Pipes, task : Task]) /\ Len(dispatched) \in Nat
      /\ \A i \in 1..Len(dispatched) : dispatched[i].pipe \in Pipes /\ dispatched[i].task \in Task
      /\ slot \in [Pipes -> Slot] /\ \A p \in Pipes : slot[p].state = "IDLE" => phase[p] \notin {"none", "attached"}
  <2>1. dispatched \in Seq([pipe : Pipes, task : Task]) /\ slot \in [Pipes -> Slot]
    BY DEF IInv, TypeOK, TypeHistory, TypeDaemons
  <2>2. \A i \in 1..Len(dispatched) : dispatched[i] \in [pipe : Pipes, task : Task]
    BY <2>1, ElementOfSeq
  <2>3. QED
    BY <2>1, <2>2, LenProperties DEF IInv, Linked
<1>2. \A i \in 1..Len(dispatched) : header'[dispatched[i].task].sync = Sync(i) /\ dispatched[i].task <= count'
  <2>1. \A i \in 1..Len(dispatched) : dispatched[i].task \in Nat /\ 1 <= dispatched[i].task /\ dispatched[i].task <= count
    BY <1>1, DispatcherAssumption DEF Barred, Task
  <2>2. QED
    BY <2>1, HeaderStays DEF Sync
<1>3. \A p \in Pipes : phase[p] \notin {"none", "attached"} => phase'[p] \notin {"none", "attached"}
  BY PhaseChanges
<1>4. CASE UNCHANGED <<dispatched, syncing, sync_generation>>
  <2>1. \A i \in 1..Len(dispatched') : Sync(i)' = Sync(i)
    BY <1>2, <1>4 DEF Sync
  <2>2. ASSUME NEW i \in 1..Len(dispatched')
        PROVE  /\ dispatched'[i].task <= count'
               /\ phase'[dispatched'[i].pipe] \notin {"none", "attached"}
               /\ (\A k \in i..Len(dispatched') : Sync(k)') =>
                    /\ syncing'
                    /\ \/ slot'[dispatched'[i].pipe].state = "NONE"
                       \/ slot'[dispatched'[i].pipe].gen = sync_generation'
    <3> DEFINE p == dispatched[i].pipe
    <3>1. p \in Pipes /\ phase[p] \notin {"none", "attached"} /\ i \in 1..Len(dispatched)
      BY <1>1, <1>4, <2>2 DEF Barred
    <3>2. \A k \in i..Len(dispatched) : k \in 1..Len(dispatched)
      BY <1>1, <3>1
    <3>3. (\A k \in i..Len(dispatched') : Sync(k)') => syncing /\ (slot[p].state = "NONE" \/ slot[p].gen = sync_generation)
      BY <1>4, <2>1, <3>1, <3>2 DEF Barred
    <3>4. ASSUME NEW t \in Task, NEW h \in Header, AssignTask(p, t, h) PROVE FALSE
      <4>1. /\ dispatched' = Append(dispatched, [pipe |-> p, task |-> t])
            /\ [pipe |-> p, task |-> t] \in [pipe : Pipes, task : Task]
        BY <3>1, <3>4 DEF AssignTask
      <4>2. Len(dispatched') = Len(dispatched) + 1
        BY <1>1, <4>1, AppendElements
      <4>3. QED
        BY <1>1, <1>4, <4>2
    <3>5. \/ slot'[p].state = "NONE" \/ (slot[p].state # "NONE" /\ slot'[p].gen = slot[p].gen)
      BY <3>1, <3>4, GenerationStays
    <3>6. QED
      BY <1>2, <1>3, <1>4, <2>2, <3>1, <3>3, <3>5
  <2>3. Barred'
    BY <2>2 DEF Barred
  <2>4. SyncBarrier'
    <3> SUFFICES ASSUME NEW i \in 1..Len(dispatched), NEW j \in 1..Len(dispatched), i < j,
                        dispatched[i].pipe = dispatched[j].pipe, Sync(i)
                 PROVE  \E k \in (i + 1)..(j - 1) : ~Sync(k)'
      BY <1>4, <2>1 DEF SyncBarrier, Sync
    <3>1. PICK k \in (i + 1)..(j - 1) : ~Sync(k)
      BY DEF SyncBarrier, Sync
    <3>2. k \in 1..Len(dispatched')
      BY <1>1, <1>4
    <3>3. QED
      BY <2>1, <3>1, <3>2
  <2>5. QED
    BY <2>3, <2>4
<1>5. ASSUME NEW p \in IdleDaemons, NEW t \in Task, NEW h \in Header,
             AssignTask(p, t, h), UNCHANGED phase, t <= count', header'[t] = h
      PROVE  Barred' /\ SyncBarrier'
  <2>0. PICK n \in Nat : n = Len(dispatched)
    BY <1>1
  <2>1. /\ p \in Pipes /\ phase'[p] \notin {"none", "attached"}
        /\ ~(syncing /\ slot[p].gen = sync_generation) /\ slot[p].state = "IDLE"
    BY <1>1, <1>5 DEF IdleDaemons
  <2>2. /\ dispatched' = Append(dispatched, [pipe |-> p, task |-> t]) /\ MarkSync(h.sync)
        /\ slot' = [slot EXCEPT ![p] = TaskSlot(p, t, h)]
    BY <1>5 DEF AssignTask
  <2>3. /\ n \in Nat /\ Len(dispatched') = n + 1 /\ dispatched'[n + 1] = [pipe |-> p, task |-> t]
        /\ \A i \in 1..n : dispatched'[i] = dispatched[i]
    <3>1. [pipe |-> p, task |-> t] \in [pipe : Pipes, task : Task]
      BY <2>1
    <3>2. QED
      BY <1>1, <2>0, <2>2, <3>1, AppendProperties
  <2>4. Sync(n + 1)' = h.sync /\ \A i \in 1..n : Sync(i)' = Sync(i)
    BY <1>2, <1>5, <2>0, <2>3 DEF Sync
  <2>5. h.sync => syncing' /\ sync_generation' = sync_generation /\ slot'[p].gen = sync_generation
    BY <1>1, <2>1, <2>2 DEF MarkSync, TaskSlot
  <2>6. \A q \in Pipes \ {p} : slot'[q] = slot[q]
    BY <1>1, <2>2
  <2>7. ASSUME NEW i \in 1..(n + 1)
        PROVE  /\ dispatched'[i].task <= count'
               /\ phase'[dispatched'[i].pipe] \notin {"none", "attached"}
               /\ (\A k \in i..(n + 1) : Sync(k)') =>
                    /\ syncing'
                    /\ \/ slot'[dispatched'[i].pipe].state = "NONE"
                       \/ slot'[dispatched'[i].pipe].gen = sync_generation'
    <3>1. CASE i = n + 1
      <4>1. n + 1 \in i..(n + 1)
        BY <2>3, <3>1
      <4>2. QED
        BY <1>5, <2>1, <2>3, <2>4, <2>5, <3>1, <4>1
    <3>2. CASE i # n + 1
      <4>1. i \in 1..n /\ n + 1 \in i..(n + 1) /\ \A k \in i..n : k \in 1..n /\ k \in i..(n + 1)
        BY <2>3, <3>2
      <4>2. dispatched[i].pipe \in Pipes /\ phase[dispatched[i].pipe] \notin {"none", "attached"}
        BY <1>1, <2>0, <4>1 DEF Barred
      <4>3. ASSUME \A k \in i..(n + 1) : Sync(k)'
            PROVE  /\ syncing'
                   /\ \/ slot'[dispatched[i].pipe].state = "NONE"
                      \/ slot'[dispatched[i].pipe].gen = sync_generation'
        <5>1. h.sync /\ \A k \in i..n : Sync(k)
          BY <2>4, <4>1, <4>3
        <5>2. slot[dispatched[i].pipe].state = "NONE" \/ slot[dispatched[i].pipe].gen = sync_generation
          BY <2>0, <4>1, <5>1 DEF Barred
        <5>3. QED
          BY <2>5, <2>6, <4>2, <5>1, <5>2
      <4>4. dispatched'[i] = dispatched[i] /\ dispatched[i].task <= count'
        BY <1>2, <2>0, <2>3, <4>1
      <4>5. QED
        BY <1>5, <4>2, <4>3, <4>4
    <3>3. QED
      BY <3>1, <3>2
  <2>8. Barred'
    BY <2>3, <2>7 DEF Barred
  <2>9. ASSUME NEW i \in 1..(n + 1), NEW j \in 1..(n + 1), i < j,
               dispatched'[i].pipe = dispatched'[j].pipe, Sync(i)'
        PROVE  \E k \in (i + 1)..(j - 1) : ~Sync(k)'
    <3>1. i \in 1..n /\ Sync(i)
      BY <2>3, <2>4, <2>9
    <3>2. CASE j \in 1..n
      <4>1. dispatched[i].pipe = dispatched[j].pipe
        BY <2>3, <2>9, <3>1, <3>2
      <4>2. PICK k \in (i + 1)..(j - 1) : ~Sync(k)
        BY <2>0, <2>9, <3>1, <3>2, <4>1 DEF SyncBarrier, Sync
      <4>3. k \in 1..n
        BY <2>3, <3>1, <3>2
      <4>4. QED
        BY <2>4, <4>2, <4>3
    <3>3. CASE j = n + 1
      <4>1. dispatched[i].pipe = p
        BY <2>3, <2>9, <3>1, <3>3
      <4>2. ~ \A k \in i..n : Sync(k)
        BY <2>0, <2>1, <3>1, <4>1 DEF Barred
      <4>3. PICK k \in i..n : ~Sync(k)
        BY <4>2
      <4>4. k # i
        BY <3>1, <4>3
      <4>5. k \in (i + 1)..(j - 1) /\ k \in 1..n
        BY <2>3, <3>1, <3>3, <4>4
      <4>6. QED
        BY <2>4, <4>3, <4>5
    <3>4. QED
      BY <2>3, <3>2, <3>3
  <2>10. SyncBarrier'
    BY <2>3, <2>9 DEF SyncBarrier, Sync
  <2>11. QED
    BY <2>8, <2>10
<1>6. QED
  BY <1>4, <1>5, AssignChanges

\* A daemon that was given a sync task is given nothing more by
\* dispatch_assign_task until another daemon has got a task that is not sync.
THEOREM SyncBarrierHolds == Spec => []SyncBarrier
<1> DEFINE Inv == IInv /\ Barred /\ SyncBarrier
<1>1. Init => Inv
  <2>1. Init => Barred /\ SyncBarrier
    BY EmptySeq DEF Init, Barred, SyncBarrier
  <2>2. QED
    BY <2>1, InitIInv
<1>2. Inv /\ [Next]_vars => Inv'
  <2>1. ASSUME Inv, Next PROVE Inv'
    BY <2>1, NextIInv, BarrierNext
  <2>2. ASSUME Inv, UNCHANGED vars PROVE Inv'
    BY <2>2, NextIInv DEF vars, Barred, Sync, SyncBarrier
  <2>3. QED
    BY <2>1, <2>2
<1>3. Inv => SyncBarrier
  OBVIOUS
<1>4. QED
  BY <1>1, <1>2, <1>3, PTL DEF Spec

-----------------------------------------------------------------------------
(* The sleeping R thread                                                     *)

\* A sleeper that has not been woken has something to wait for, unless the
\* drain in progress will wake it at its end.
Roused ==
  /\ main = "gate" => LimitBytes > 0
  /\ Sleeping /\ ~woken => \/ Blocked(main)
                           \/ main = "gate" /\ ~stopped /\ mtx.dequeued

LEMMA RousedNext ==
  ASSUME IInv, Stages, Roused, Next
  PROVE  Roused'
<1>1. /\ mtx \in [held : BOOLEAN, dequeued : BOOLEAN, ctx : Nat, msg : Int]
      /\ ~Free.held /\ ~Free.dequeued
      /\ outq_count \in Nat /\ want \in Nat /\ queued_bytes \in Int /\ LimitBytes \in Nat
      /\ woken \in BOOLEAN /\ stopped \in BOOLEAN
      /\ mtx.held => ~stopped
  BY LockTypes, DispatcherAssumption
     DEF DispatcherAssumption, IInv, TypeOK, TypeCounters, TypeRThread, Stages
<1> DEFINE Goal == Roused'
\* steps that the sleeper's condition does not notice
<1>2. ASSUME UNCHANGED <<main, want, woken, stopped, mtx>>, outq_count' = outq_count, queued_bytes' = queued_bytes
      PROVE  Goal
  BY <1>2 DEF Roused, Sleeping, Blocked
\* steps that wake it
<1>3. ASSUME UNCHANGED <<main, want>>, Wake PROVE Goal
  BY <1>3 DEF Roused, Sleeping, Wake
<1>4. ASSUME DrainStep PROVE Goal
  <2>1. UNCHANGED <<main, want, woken, stopped, outq_count>> /\ mtx' = [mtx EXCEPT !.dequeued = TRUE] /\ mtx.held
    BY <1>4 DEF DrainStep
  <2>2. mtx'.dequeued /\ ~stopped
    BY <1>1, <2>1
  <2>3. QED
    BY <2>1, <2>2 DEF Roused, Sleeping, Blocked
<1>5. ASSUME DrainEnd PROVE Goal
  <2>1. /\ UNCHANGED <<main, want, stopped, outq_count, queued_bytes>>
        /\ IF mtx.dequeued THEN WakeGate ELSE UNCHANGED woken
    BY <1>5 DEF DrainEnd
  <2>2. CASE mtx.dequeued /\ LimitBytes > 0
    BY <1>3, <2>1, <2>2 DEF WakeGate
  <2>3. CASE mtx.dequeued /\ ~(LimitBytes > 0)
    BY <2>1, <2>3 DEF WakeGate, Roused, Sleeping, Blocked
  <2>4. CASE ~mtx.dequeued
    BY <2>1, <2>4 DEF Roused, Sleeping, Blocked
  <2>5. QED
    BY <2>2, <2>3, <2>4
<1>6. ASSUME NEW p \in Pipes, HandleConnect(p) \/ InitCb(p) \/ HandleDisconnect(p) PROVE Goal
  <2>1. CASE HandleConnect(p)
    BY <1>2, <2>1 DEF HandleConnect, Unlock
  <2>2. CASE InitCb(p)
    <3>1. UNCHANGED <<main, want>> /\ (Wake \/ UNCHANGED <<outq_count, queued_bytes, woken, stopped, mtx>>)
      BY <2>2 DEF InitCb
    <3>2. QED
      BY <1>2, <1>3, <3>1
  <2>3. CASE HandleDisconnect(p)
    <3>1. UNCHANGED <<main, want>> /\ (Wake \/ UNCHANGED <<outq_count, queued_bytes, woken, stopped, mtx>>)
      BY <2>3 DEF HandleDisconnect, Unlock
    <3>2. QED
      BY <1>2, <1>3, <3>1
  <2>4. QED
    BY <1>6, <2>1, <2>2, <2>3
<1>7. ASSUME (\E o \in orphan : SendConnReset(o)) \/ SigCb PROVE Goal
  BY <1>2, <1>7 DEF SendConnReset, SigCb, Unlock
<1>8. ASSUME RearmHost PROVE Goal
  <2>1. /\ UNCHANGED <<main, want, outq_count, queued_bytes, mtx>>
        /\ Wake \/ UNCHANGED <<stopped, woken>>
    BY <1>8 DEF RearmHost
  <2>2. QED
    BY <1>2, <1>3, <2>1
<1>9. ASSUME NEW m \in arrived, HandleDaemonRecv(m) PROVE Goal
  <2>1. /\ UNCHANGED <<main, want, stopped, queued_bytes>> /\ mtx = Free
        /\ Wake \/ UNCHANGED <<outq_count, woken>>
    BY <1>9 DEF HandleDaemonRecv, Locking
  <2>2. ~mtx.dequeued
    BY <1>1, <2>1
  <2>3. CASE UNCHANGED <<outq_count, woken>>
    BY <2>1, <2>2, <2>3 DEF Roused, Sleeping, Blocked
  <2>4. QED
    BY <1>3, <2>1, <2>3
<1>10. ASSUME NEW h \in Headers(count + 1), HandleHostRecv(h) PROVE Goal
  <2>1. /\ UNCHANGED <<main, want, woken, stopped, outq_count, mtx>> /\ mtx = Free
        /\ queued_bytes' = queued_bytes \/ (count < MaxTasks /\ queued_bytes' = queued_bytes + h.len)
    BY <1>10 DEF HandleHostRecv, Unlock, Locking, Enqueue
  <2>2. count < MaxTasks => h.len \in Nat
    BY NewTask DEF Header
  <2>3. queued_bytes' \in Int /\ queued_bytes' >= queued_bytes /\ ~mtx.dequeued
    BY <1>1, <2>1, <2>2
  <2>4. Blocked(main) /\ Sleeping => Blocked(main)'
    <3>1. queued_bytes >= LimitBytes => queued_bytes' >= LimitBytes
      BY <1>1, <2>3
    <3>2. QED
      BY <2>1, <3>1 DEF Blocked, Sleeping
  <2>5. QED
    BY <2>1, <2>3, <2>4 DEF Roused, Sleeping
<1>11. ASSUME NEW id \in CancelIds, CancelDirect(id) PROVE Goal
  <2>1. /\ UNCHANGED <<main, want, stopped, outq_count, mtx>>
        /\ WakeGate \/ UNCHANGED <<queued_bytes, woken>>
    BY <1>11 DEF CancelDirect, CancelInq
  <2>2. CASE UNCHANGED <<queued_bytes, woken>>
    BY <1>2, <2>1, <2>2
  <2>3. CASE WakeGate /\ LimitBytes > 0
    BY <1>3, <2>1, <2>3 DEF WakeGate
  <2>4. CASE WakeGate /\ ~(LimitBytes > 0)
    BY <2>1, <2>4 DEF WakeGate, Roused, Sleeping, Blocked
  <2>5. QED
    BY <2>1, <2>2, <2>3, <2>4
<1>12. ASSUME Gate \/ Recheck \/ \E n \in Targets : Wait(n) PROVE Goal
  <2>1. CASE Gate
    BY <2>1 DEF Gate, RThreadOnly, Roused, Sleeping, Blocked
  <2>2. CASE Recheck
    BY <2>2 DEF Recheck, RThreadOnly, Roused, Sleeping, Blocked
  <2>3. CASE \E n \in Targets : Wait(n)
    BY <2>3 DEF Wait, RThreadOnly, Roused, Sleeping, Blocked
  <2>4. QED
    BY <1>12, <2>1, <2>2, <2>3
<1>13. ASSUME main' \notin {"gate", "wait"} PROVE Goal
  BY <1>13 DEF Roused, Sleeping
<1>14. ASSUME Stop \/ Shutdown PROVE Goal
  BY <1>13, <1>14 DEF Stop, Shutdown, StopHost, StopRecv, StopSig, ClosePoly, PolyClosed, FreeSenders,
         CloseReplies, CloseQueue, CloseRep
<1>15. ASSUME Network \/ Freed PROVE Goal
  BY <1>2, <1>15 DEF Network, Route, DaemonTake, PipeDown, ReplySent, NetworkOnly, Freed, vars
<1>16. ASSUME \/ \E q \in Pipes : PipeStart(q) \/ Crash(q)
              \/ \E q \in Pipes, marker \in Markers : DaemonReply(q, marker)
       PROVE  Goal
  BY <1>2, <1>16 DEF PipeStart, PipeDown, Crash, DaemonReply, NetworkOnly
<1> HIDE DEF Goal
<1>17. Goal
  BY <1>4, <1>5, <1>6, <1>7, <1>8, <1>9, <1>10, <1>11, <1>12, <1>14, <1>15, <1>16 DEF Next, Callback
<1>18. QED
  BY <1>17 DEF Goal

\* The R thread never sleeps in rnng_dispatcher_gate or rnng_dispatcher_wait
\* with nothing left to wait for and no wake-up on the way: each section under
\* d->mtx that could let it go on wakes it.
THEOREM WakeupsAreNotLost == Spec => []NoLostWakeup
<1>1. Init => FlowInv /\ Roused
  BY InitFlowInv DEF Init, Roused, Sleeping
<1>2. FlowInv /\ Roused /\ [Next]_vars => (FlowInv /\ Roused)'
  <2>1. ASSUME FlowInv, Roused, Next PROVE Roused'
    BY <2>1, RousedNext DEF FlowInv
  <2>2. ASSUME Roused, UNCHANGED vars PROVE Roused'
    BY <2>2 DEF vars, Roused, Sleeping, Blocked
  <2>3. QED
    BY <2>1, <2>2, NextFlowInv
<1>3. FlowInv /\ Roused => NoLostWakeup
  BY DEF Roused, NoLostWakeup, Free
<1>4. QED
  BY <1>1, <1>2, <1>3, PTL DEF Spec
=============================================================================
