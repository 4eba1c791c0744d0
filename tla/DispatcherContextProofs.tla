----------------------- MODULE DispatcherContextProofs -----------------------
(***************************************************************************)
(* The contexts of the REP socket and the answers to the host's requests,  *)
(* for any number of daemons and requests.                                 *)
(*                                                                         *)
(* Every step of the dispatcher moves at most one request between the      *)
(* places that hold its context: the queue, a busy daemon, a handler that  *)
(* drains, dispatch_handle_disconnect, a reply holder.  The moves are      *)
(* stated once; the properties follow from them.                           *)
(***************************************************************************)
EXTENDS DispatcherFlowProofs, DispatcherQueueProofs

USE DEF counters, queue, barrier, signals, replies, host, rthread, network, history

-----------------------------------------------------------------------------
(* The moves                                                                 *)

jobs == {[worker |-> p, task |-> slot[p].ctx] : p \in Busy}

\* The reply that the handler holding the lock sends after draining.
ending == IF mtx.ctx # Fresh THEN {[task |-> mtx.ctx, msg |-> mtx.msg]} ELSE {}

\* The open contexts that belong to a request.
claims == open \ {Fresh}

\* dispatch_reply_send_locked: the holders whose sends are done are harvested.
Replies(t, m) ==
  \/ /\ reply_active' = {r \in reply_active : r.busy} \cup {[ctx |-> t, msg |-> m, busy |-> TRUE]}
     /\ claims' = claims \ {r.ctx : r \in {r \in reply_active : ~r.busy}}
  \/ /\ MayFail
     /\ claims' = claims \ {t}
     /\ UNCHANGED reply_active

Stays ==
  UNCHANGED <<inq, jobs, reply_active, orphan, ending, claims, count, header, answers>>

Arrives ==
  /\ ~stopped /\ count < MaxTasks
  /\ count' = count + 1
  /\ \E h \in Header : h.msgid = count + 1 /\ header' = Append(header, h)
  /\ claims' = claims \cup {count + 1}
  /\ \/ inq' = Append(inq, count + 1) /\ UNCHANGED jobs
     \/ /\ \E p \in IdleDaemons : jobs' = jobs \cup {[worker |-> p, task |-> count + 1]}
        /\ mtx = Free /\ UNCHANGED inq
  /\ UNCHANGED <<reply_active, orphan, ending, answers, stopped>>

Starts ==
  /\ ~stopped /\ inq # <<>>
  /\ \E p \in IdleDaemons : jobs' = jobs \cup {[worker |-> p, task |-> Head(inq)]}
  /\ inq' = Tail(inq)
  /\ UNCHANGED <<reply_active, orphan, ending, claims, count, header, answers, stopped>>

Cancelled ==
  /\ \E i \in 1..Len(inq) :
       /\ inq' = RemoveAt(inq, i)
       /\ claims' = claims \ {inq[i]}
       /\ header[inq[i]].msgid \in CancelIds /\ cancels'[header[inq[i]].msgid] > 0
  /\ UNCHANGED <<jobs, reply_active, orphan, ending, count, header, answers, stopped>>

\* A reply is taken by a handler that drains, ...
Returns(j) ==
  /\ j \in jobs
  /\ jobs' = jobs \ {j}
  /\ mtx = Free /\ ending' = {[task |-> j.task, msg |-> j.task]}
  /\ UNCHANGED <<inq, reply_active, orphan, claims, count, header, answers, stopped>>

\* ... or sent at once when its daemon leaves.
Leaves(j) ==
  /\ j \in jobs
  /\ jobs' = jobs \ {j}
  /\ Replies(j.task, j.task)
  /\ UNCHANGED <<inq, orphan, ending, count, header, answers, stopped>>

Loses(j) ==
  /\ j \in jobs
  /\ jobs' = jobs \ {j}
  /\ orphan' = orphan \cup {[ctx |-> j.task, close |-> stopped]}
  /\ UNCHANGED <<inq, reply_active, ending, claims, count, header, answers, stopped>>

Resets(o) ==
  /\ o \in orphan
  /\ orphan' = orphan \ {o}
  /\ \/ Replies(o.ctx, ConnReset)
     \/ (o.close \/ MayFail) /\ claims' = claims \ {o.ctx} /\ UNCHANGED reply_active
  /\ UNCHANGED <<inq, jobs, ending, count, header, answers, stopped>>

Ends ==
  /\ mtx.ctx # Fresh
  /\ Replies(mtx.ctx, mtx.msg)
  /\ ending' = {}
  /\ UNCHANGED <<inq, jobs, orphan, count, header, answers, stopped>>

Delivers(r) ==
  /\ r \in reply_active /\ r.busy
  /\ reply_active' = (reply_active \ {r}) \cup {[r EXCEPT !.busy = FALSE]}
  /\ answers' = [answers EXCEPT ![r.ctx] = r.msg]
  /\ UNCHANGED <<inq, jobs, orphan, ending, claims, count, header, stopped>>

\* dispatch_shutdown
Drops ==
  /\ stopped
  /\ \/ jobs' = {} /\ claims' = claims \ Running /\ UNCHANGED <<inq, reply_active>>
     \/ /\ orphan = {} /\ mtx = Free
        /\ reply_active' = {} /\ claims' = claims \ Replying /\ UNCHANGED <<inq, jobs>>
     \/ /\ jobs = {} /\ reply_active = {} /\ orphan = {} /\ mtx = Free
        /\ inq' = <<>> /\ claims' = claims \ ({host_ctx} \cup Queued)
        /\ UNCHANGED <<jobs, reply_active>>
  /\ UNCHANGED <<orphan, ending, count, header, answers, stopped>>

\* Giving one slot another state.
LEMMA JobsUpdate ==
  ASSUME slot \in [Pipes -> Slot], NEW p \in Pipes, NEW s \in Slot, slot' = [slot EXCEPT ![p] = s]
  PROVE  /\ s.state = "BUSY" /\ slot[p].state # "BUSY" =>
              jobs' = jobs \cup {[worker |-> p, task |-> s.ctx]}
         /\ s.state # "BUSY" => jobs' = jobs \ {[worker |-> p, task |-> slot[p].ctx]}
         /\ s.state # "BUSY" /\ slot[p].state # "BUSY" => jobs' = jobs
         /\ slot[p].state = "BUSY" => [worker |-> p, task |-> slot[p].ctx] \in jobs
<1>1. \A q \in Pipes : slot'[q] = IF q = p THEN s ELSE slot[q]
  OBVIOUS
<1>2. Busy' = IF s.state = "BUSY" THEN Busy \cup {p} ELSE Busy \ {p}
  BY <1>1 DEF Busy
<1>3. p \in Busy <=> slot[p].state = "BUSY"
  BY DEF Busy
<1>4. \A q \in Busy : q \in Pipes
  BY DEF Busy
<1>5. ASSUME s.state = "BUSY", slot[p].state # "BUSY"
      PROVE  jobs' = jobs \cup {[worker |-> p, task |-> s.ctx]}
  BY <1>1, <1>2, <1>3, <1>4, <1>5 DEF jobs
<1>6. ASSUME s.state # "BUSY"
      PROVE  jobs' = jobs \ {[worker |-> p, task |-> slot[p].ctx]}
  <2>1. Busy' = Busy \ {p} /\ \A q \in Busy' : slot'[q].ctx = slot[q].ctx /\ q # p
    BY <1>1, <1>2, <1>4, <1>6
  <2>2. jobs' = {[worker |-> q, task |-> slot[q].ctx] : q \in Busy'}
    BY <2>1 DEF jobs
  <2>3. QED
    BY <2>1, <2>2 DEF jobs
<1>7. ASSUME slot[p].state # "BUSY" PROVE [worker |-> p, task |-> slot[p].ctx] \notin jobs
  BY <1>3, <1>7 DEF jobs
<1>8. slot[p].state = "BUSY" => [worker |-> p, task |-> slot[p].ctx] \in jobs
  BY <1>3 DEF jobs
<1>9. QED
  BY <1>5, <1>6, <1>7, <1>8

Move ==
  \/ Stays \/ Arrives \/ Starts \/ Cancelled
  \/ \E j \in jobs : Returns(j) \/ Leaves(j) \/ Loses(j)
  \/ \E o \in orphan : Resets(o)
  \/ Ends
  \/ \E r \in reply_active : Delivers(r)
  \/ Drops

LEMMA RepliesSent ==
  ASSUME NEW t \in Nat, NEW m, t # Fresh, ReplySend(t, m)
  PROVE  Replies(t, m)
<1>1. /\ {r \in reply_active : r.busy} = reply_active \ {r \in reply_active : ~r.busy}
      /\ \A S : (open \ S) \ {Fresh} = claims \ S
  BY DEF claims
<1>2. CASE /\ reply_active' = (reply_active \ {r \in reply_active : ~r.busy}) \cup
                                {[ctx |-> t, msg |-> m, busy |-> TRUE]}
           /\ open' = open \ {r.ctx : r \in {r \in reply_active : ~r.busy}}
  BY <1>1, <1>2 DEF Replies, claims
<1>3. CASE MayFail /\ open' = open \ {t} /\ UNCHANGED reply_active
  BY <1>1, <1>3 DEF Replies, claims
<1>4. QED
  BY <1>2, <1>3 DEF ReplySend

LEMMA JobTypes ==
  ASSUME IInv
  PROVE  /\ \A j \in jobs : j.worker \in Pipes /\ j.task \in Task /\ slot[j.worker].state = "BUSY"
                            /\ slot[j.worker].ctx = j.task /\ j = [worker |-> j.worker, task |-> j.task]
         /\ Running = {j.task : j \in jobs}
<1>1. \A p \in Busy : p \in Pipes /\ slot[p].state = "BUSY" /\ slot[p].ctx \in Task
  BY DEF Busy, IInv, Linked
<1>2. ASSUME NEW j \in jobs
      PROVE  /\ j.worker \in Pipes /\ j.task \in Task /\ slot[j.worker].state = "BUSY"
             /\ slot[j.worker].ctx = j.task /\ j = [worker |-> j.worker, task |-> j.task]
  <2>1. PICK p \in Busy : j = [worker |-> p, task |-> slot[p].ctx]
    BY DEF jobs
  <2>2. j.worker = p /\ j.task = slot[p].ctx
    BY <2>1
  <2>3. QED
    BY <1>1, <2>1, <2>2
<1>3. \A p \in Busy : [worker |-> p, task |-> slot[p].ctx] \in jobs
                    /\ [worker |-> p, task |-> slot[p].ctx].task = slot[p].ctx
  BY DEF jobs
<1>4. Running \subseteq {j.task : j \in jobs}
  BY <1>3 DEF Running
<1>5. \A j \in jobs : j.worker \in Busy
  BY <1>2 DEF Busy
<1>6. {j.task : j \in jobs} \subseteq Running
  BY <1>2, <1>5 DEF Running
<1>7. QED
  BY <1>2, <1>4, <1>6

\* Every step of the dispatcher and its surroundings makes one move.
LEMMA Moves ==
  ASSUME IInv, Stages, Flow, Next
  PROVE  Move
<1>1. /\ slot \in [Pipes -> Slot] /\ NoSlot \in Slot /\ NoSlot.state = "NONE"
      /\ arrived \subseteq [pipe : Pipes, msg : Task, marker : BOOLEAN]
      /\ mtx \in [held : BOOLEAN, dequeued : BOOLEAN, ctx : Nat, msg : Int]
      /\ (mtx.held => ~stopped) /\ Free.ctx = Fresh /\ Free.msg = NoAnswer
      /\ sync_generation \in Nat /\ count \in Nat
      /\ \A p \in Pipes : slot[p] \in Slot
      /\ \A p \in Pipes : phase[p] = "attached" => slot[p].state = "NONE"
  <2>1. NoSlot \in Slot /\ NoSlot.state = "NONE"
    BY DEF NoSlot, Slot, Fresh
  <2>2. mtx.held => ~stopped
    BY DEF Stages
  <2>3. \A p \in Pipes : phase[p] = "attached" => slot[p].state = "NONE"
    BY DEF IInv, Linked
  <2>4. slot \in [Pipes -> Slot]
    BY LockTypes
  <2>5. \A p \in Pipes : slot[p] \in Slot
    BY <2>4
  <2>6. QED
    BY <2>1, <2>2, <2>3, <2>4, <2>5, LockTypes
<1>2. ASSUME UNCHANGED <<inq, slot, reply_active, orphan, mtx, open, count, header, answers>> PROVE Stays
  BY <1>2 DEF Stays, jobs, Busy, ending, claims
<1>3. ASSUME NEW p \in IdleDaemons, NEW t \in Task, NEW h \in Header, AssignTask(p, t, h)
      PROVE  jobs' = jobs \cup {[worker |-> p, task |-> t]}
  <2>1. /\ p \in Pipes /\ slot[p].state = "IDLE" /\ slot' = [slot EXCEPT ![p] = TaskSlot(p, t, h)]
    BY <1>3 DEF AssignTask, IdleDaemons
  <2>2. TaskSlot(p, t, h) \in Slot /\ TaskSlot(p, t, h).state = "BUSY" /\ TaskSlot(p, t, h).ctx = t
    BY <1>1, <2>1 DEF TaskSlot, Slot, Header, Task
  <2> DEFINE s == TaskSlot(p, t, h)
  <2>3. s \in Slot /\ s.state = "BUSY" /\ s.ctx = t /\ slot' = [slot EXCEPT ![p] = s]
    BY <2>1, <2>2
  <2> HIDE DEF s
  <2>4. slot \in [Pipes -> Slot] /\ slot[p].state # "BUSY"
    BY <1>1, <2>1
  <2>5. QED
    BY <2>1, <2>3, <2>4, JobsUpdate
<1>4. ASSUME DrainStep PROVE Starts
  <2>1. /\ mtx.held /\ inq # <<>> /\ inq' = Tail(inq) /\ mtx' = [mtx EXCEPT !.dequeued = TRUE]
        /\ UNCHANGED <<reply_active, orphan, open, count, header, answers, stopped>>
    BY <1>4 DEF DrainStep, DrainDone
  <2>2. PICK p \in IdleDaemons : AssignTask(p, Head(inq), header[Head(inq)])
    BY <1>4 DEF DrainStep
  <2>3. jobs' = jobs \cup {[worker |-> p, task |-> Head(inq)]}
    BY <1>3, <2>1, <2>2, HeadTask
  <2>4. mtx'.ctx = mtx.ctx /\ mtx'.msg = mtx.msg
    BY <1>1, <2>1
  <2>5. QED
    BY <1>1, <2>1, <2>3, <2>4 DEF Starts, ending, claims
<1>5. ASSUME DrainEnd PROVE Stays \/ Ends
  <2>1. /\ mtx' = Free /\ UNCHANGED <<inq, slot, orphan, count, header, answers, stopped>>
        /\ IF mtx.ctx # Fresh THEN ReplySend(mtx.ctx, mtx.msg) ELSE UNCHANGED replies
    BY <1>5 DEF DrainEnd
  <2>2. UNCHANGED jobs /\ ending' = {}
    BY <1>1, <2>1 DEF jobs, Busy, ending
  <2>3. CASE mtx.ctx # Fresh
    BY <1>1, <2>1, <2>2, <2>3, RepliesSent DEF Ends
  <2>4. CASE mtx.ctx = Fresh
    BY <2>1, <2>2, <2>4 DEF Stays, ending, claims
  <2>5. QED
    BY <2>3, <2>4
<1>6. ASSUME NEW p \in Pipes, HandleConnect(p) PROVE Stays
  <2>1. /\ UNCHANGED <<inq, reply_active, orphan, mtx, open, count, header, answers>>
        /\ phase[p] = "attached"
        /\ \/ UNCHANGED slot
           \/ slot' = [slot EXCEPT ![p] = [state |-> "INIT", msgid |-> 0,
                                           gen |-> sync_generation - 1, ctx |-> Fresh]]
    BY <1>6 DEF HandleConnect, Unlock
  <2>2. [state |-> "INIT", msgid |-> 0, gen |-> sync_generation - 1, ctx |-> Fresh] \in Slot
    BY <1>1 DEF Slot, Fresh
  <2>3. jobs' = jobs
    <3>1. CASE UNCHANGED slot
      BY <3>1 DEF jobs, Busy
    <3>2. CASE ~ UNCHANGED slot
      <4> DEFINE s == [state |-> "INIT", msgid |-> 0, gen |-> sync_generation - 1, ctx |-> Fresh]
      <4>1. slot' = [slot EXCEPT ![p] = s] /\ s \in Slot /\ s.state # "BUSY" /\ slot[p].state # "BUSY"
        BY <1>1, <2>1, <2>2, <3>2
      <4> HIDE DEF s
      <4>2. QED
        BY <1>1, <4>1, JobsUpdate
    <3>3. QED
      BY <3>1, <3>2
  <2>4. QED
    BY <2>1, <2>3 DEF Stays, ending, claims
<1>7. ASSUME NEW p \in Pipes, InitCb(p) PROVE Stays
  <2>1. /\ UNCHANGED <<inq, reply_active, orphan, open, count, header, answers>> /\ mtx = Free
        /\ \/ UNCHANGED slot
           \/ slot[p].state = "INIT" /\ slot' = [slot EXCEPT ![p].state = "IDLE"]
        /\ mtx' = mtx \/ DrainThen(Fresh, NoAnswer)
    BY <1>7 DEF InitCb, Locking, Unlock
  <2>2. /\ [slot[p] EXCEPT !.state = "IDLE"] \in Slot
        /\ [slot[p] EXCEPT !.state = "IDLE"].state = "IDLE"
    BY <1>1 DEF Slot
  <2>3. jobs' = jobs
    <3>1. CASE UNCHANGED slot
      BY <3>1 DEF jobs, Busy
    <3>2. CASE slot[p].state = "INIT" /\ slot' = [slot EXCEPT ![p].state = "IDLE"]
      <4>1. slot' = [slot EXCEPT ![p] = [slot[p] EXCEPT !.state = "IDLE"]]
        BY <3>2
      <4>2. QED
        BY <1>1, <2>2, <3>2, <4>1, JobsUpdate
    <3>3. QED
      BY <2>1, <3>1, <3>2
  <2>4. ending' = ending
    BY <1>1, <2>1 DEF ending, DrainThen
  <2>5. QED
    BY <2>1, <2>3, <2>4 DEF Stays, claims
<1>8. ASSUME NEW p \in Pipes, HandleDisconnect(p) PROVE Stays \/ \E j \in jobs : Loses(j)
  <2>1. /\ UNCHANGED <<inq, reply_active, mtx, open, count, header, answers, stopped>>
        /\ \/ UNCHANGED <<slot, orphan>>
           \/ /\ slot[p].state = "BUSY" /\ slot' = [slot EXCEPT ![p] = NoSlot]
              /\ orphan' = orphan \cup {[ctx |-> slot[p].ctx, close |-> stopped]}
           \/ /\ slot[p].state \in {"INIT", "IDLE"} /\ slot' = [slot EXCEPT ![p] = NoSlot]
              /\ orphan' = orphan
    BY <1>8 DEF HandleDisconnect, RemoveDaemon, Unlock
  <2>2. UNCHANGED <<ending, claims>>
    BY <2>1 DEF ending, claims
  <2>3. CASE UNCHANGED <<slot, orphan>>
    BY <1>2, <2>1, <2>3
  <2>4. CASE /\ slot[p].state = "BUSY" /\ slot' = [slot EXCEPT ![p] = NoSlot]
             /\ orphan' = orphan \cup {[ctx |-> slot[p].ctx, close |-> stopped]}
    <3> DEFINE j == [worker |-> p, task |-> slot[p].ctx]
    <3>1. j \in jobs /\ jobs' = jobs \ {j}
      BY <1>1, <2>4, JobsUpdate
    <3>2. j.task = slot[p].ctx
      OBVIOUS
    <3>3. Loses(j)
      BY <2>1, <2>2, <2>4, <3>1, <3>2 DEF Loses
    <3>4. QED
      BY <3>1, <3>3
  <2>5. CASE /\ slot[p].state \in {"INIT", "IDLE"} /\ slot' = [slot EXCEPT ![p] = NoSlot]
             /\ orphan' = orphan
    <3>1. jobs' = jobs
      BY <1>1, <2>5, JobsUpdate
    <3>2. QED
      BY <2>1, <2>2, <2>5, <3>1 DEF Stays
  <2>6. QED
    BY <2>1, <2>3, <2>4, <2>5
<1>9. ASSUME NEW o \in orphan, SendConnReset(o) PROVE Resets(o)
  <2>1. /\ UNCHANGED <<inq, slot, mtx, count, header, answers, stopped>>
        /\ orphan' = orphan \ {o}
        /\ \/ ReplySend(o.ctx, ConnReset)
           \/ (o.close \/ MayFail) /\ open' = open \ {o.ctx} /\ UNCHANGED reply_active
    BY <1>9 DEF SendConnReset, Unlock
  <2>2. UNCHANGED <<jobs, ending>>
    BY <2>1 DEF jobs, Busy, ending
  <2>3. o.ctx \in Nat /\ o.ctx # Fresh
    BY DEF IInv, TypeOK, TypeContexts, Task, Fresh
  <2>4. open' = open \ {o.ctx} => claims' = claims \ {o.ctx}
    BY DEF claims
  <2>5. QED
    BY <2>1, <2>2, <2>3, <2>4, RepliesSent DEF Resets
<1>10. ASSUME RearmHost PROVE Stays
  <2>1. /\ UNCHANGED <<inq, slot, reply_active, orphan, mtx, count, header, answers>>
        /\ open' = open \/ open' = open \cup {Fresh}
    BY <1>10 DEF RearmHost
  <2>2. QED
    BY <2>1 DEF Stays, jobs, Busy, ending, claims
<1>11. ASSUME NEW h \in Headers(count + 1), HandleHostRecv(h) PROVE Stays \/ Arrives
  <2>1. \/ UNCHANGED <<inq, slot, reply_active, orphan, mtx, open, count, header, answers>>
        \/ /\ ~stopped /\ count < MaxTasks /\ mtx = Free
           /\ count' = count + 1 /\ header' = Append(header, h)
           /\ open' = (open \ {Fresh}) \cup {count + 1}
           /\ UNCHANGED <<reply_active, orphan, mtx, answers, stopped>>
           /\ \/ (\E p \in IdleDaemons : AssignTask(p, count + 1, h)) /\ UNCHANGED inq
              \/ inq' = Append(inq, count + 1) /\ UNCHANGED slot
    BY <1>11 DEF HandleHostRecv, Unlock, Locking, Enqueue
  <2>2. CASE /\ ~stopped /\ count < MaxTasks /\ mtx = Free
             /\ count' = count + 1 /\ header' = Append(header, h)
             /\ open' = (open \ {Fresh}) \cup {count + 1}
             /\ UNCHANGED <<reply_active, orphan, mtx, answers, stopped>>
             /\ \/ (\E p \in IdleDaemons : AssignTask(p, count + 1, h)) /\ UNCHANGED inq
                \/ inq' = Append(inq, count + 1) /\ UNCHANGED slot
    <3>1. count + 1 \in Task /\ h \in Header /\ h.msgid = count + 1
      BY <2>2, NewTask DEF Headers
    <3>2. claims' = claims \cup {count + 1} /\ UNCHANGED ending
      BY <1>1, <2>2 DEF claims, ending, Fresh
    <3>3. \/ inq' = Append(inq, count + 1) /\ UNCHANGED jobs
          \/ /\ \E p \in IdleDaemons : jobs' = jobs \cup {[worker |-> p, task |-> count + 1]}
             /\ UNCHANGED inq
      <4>1. UNCHANGED slot => UNCHANGED jobs
        BY DEF jobs, Busy
      <4>2. QED
        BY <1>3, <2>2, <3>1, <4>1
    <3>4. QED
      BY <2>2, <3>1, <3>2, <3>3 DEF Arrives
  <2>3. QED
    BY <1>2, <2>1, <2>2
<1>12. ASSUME NEW m \in arrived, HandleDaemonRecv(m)
       PROVE  Stays \/ \E j \in jobs : Returns(j) \/ Leaves(j)
  <2> DEFINE p == m.pipe
             j == [worker |-> p, task |-> slot[p].ctx]
             s == [slot[p] EXCEPT !.state = "IDLE", !.msgid = 0, !.ctx = Fresh]
  <2>1. p \in Pipes /\ slot[p] \in Slot
    BY <1>1
  <2>2. UNCHANGED <<inq, orphan, count, header, answers, stopped>> /\ mtx = Free
    BY <1>12 DEF HandleDaemonRecv, Locking
  <2>3. \/ UNCHANGED <<slot, reply_active, open, mtx>>
        \/ /\ slot[p].state = "BUSY" /\ slot' = [slot EXCEPT ![p] = NoSlot]
           /\ ReplySend(slot[p].ctx, m.msg) /\ UNCHANGED mtx
        \/ /\ slot[p].state = "BUSY"
           /\ slot' = [slot EXCEPT ![p].state = "IDLE", ![p].msgid = 0, ![p].ctx = Fresh]
           /\ DrainThen(slot[p].ctx, m.msg) /\ UNCHANGED <<reply_active, open>>
    BY <1>12 DEF HandleDaemonRecv, RemoveDaemon, Unlock
  <2>4. ASSUME slot[p].state = "BUSY" PROVE m.msg = slot[p].ctx /\ slot[p].ctx \in Nat /\ slot[p].ctx # Fresh
    BY <2>1, <2>4 DEF Flow, OneTask, IInv, Linked, Task, Fresh
  <2>5. s \in Slot /\ s.state = "IDLE"
    BY <2>1 DEF Slot, Fresh
  <2>6. j.task = slot[p].ctx
    OBVIOUS
  <2>7. CASE UNCHANGED <<slot, reply_active, open, mtx>>
    BY <1>2, <2>2, <2>7
  <2>8. CASE /\ slot[p].state = "BUSY" /\ slot' = [slot EXCEPT ![p] = NoSlot]
             /\ ReplySend(slot[p].ctx, m.msg) /\ UNCHANGED mtx
    <3>1. j \in jobs /\ jobs' = jobs \ {j}
      BY <1>1, <2>1, <2>8, JobsUpdate
    <3>2. Replies(j.task, j.task)
      BY <2>4, <2>6, <2>8, RepliesSent
    <3>3. Leaves(j)
      BY <2>2, <2>8, <3>1, <3>2 DEF Leaves, ending
    <3>4. QED
      BY <3>1, <3>3
  <2>9. CASE /\ slot[p].state = "BUSY"
             /\ slot' = [slot EXCEPT ![p].state = "IDLE", ![p].msgid = 0, ![p].ctx = Fresh]
             /\ DrainThen(slot[p].ctx, m.msg) /\ UNCHANGED <<reply_active, open>>
    <3>1. slot' = [slot EXCEPT ![p] = s]
      BY <1>1, <2>1, <2>9
    <3>2. j \in jobs /\ jobs' = jobs \ {j}
      BY <1>1, <2>1, <2>5, <2>9, <3>1, JobsUpdate
    <3>3. ending' = {[task |-> j.task, msg |-> j.task]}
      BY <2>4, <2>6, <2>9 DEF DrainThen, ending
    <3>4. Returns(j)
      BY <2>2, <2>9, <3>2, <3>3 DEF Returns, claims
    <3>5. QED
      BY <3>2, <3>4
  <2>10. QED
    BY <2>3, <2>7, <2>8, <2>9
<1>13. ASSUME NEW id \in CancelIds, CancelDirect(id) PROVE Stays \/ Cancelled
  <2>1. /\ UNCHANGED <<slot, reply_active, orphan, mtx, count, header, answers, stopped>>
        /\ cancels' = [cancels EXCEPT ![id] = @ + 1]
        /\ \/ UNCHANGED <<inq, open>>
           \/ \E i \in 1..Len(inq) : /\ header[inq[i]].msgid = id
                                     /\ inq' = RemoveAt(inq, i) /\ open' = open \ {inq[i]}
    BY <1>13 DEF CancelDirect, CancelInq
  <2>2. cancels'[id] > 0
    BY <2>1 DEF IInv, TypeOK, TypeHistory
  <2>3. CASE UNCHANGED <<inq, open>>
    BY <1>2, <2>1, <2>3
  <2>4. ASSUME NEW i \in 1..Len(inq), header[inq[i]].msgid = id,
               inq' = RemoveAt(inq, i), open' = open \ {inq[i]}
        PROVE  Cancelled
    <3>1. UNCHANGED <<jobs, ending>> /\ claims' = claims \ {inq[i]}
      BY <2>1, <2>4 DEF jobs, Busy, ending, claims
    <3>2. QED
      BY <2>1, <2>2, <2>4, <3>1 DEF Cancelled
  <2>5. QED
    BY <2>1, <2>3, <2>4
<1>14. ASSUME SigCb \/ Gate \/ (\E n \in Targets : Wait(n)) \/ Recheck \/ Stop \/ Freed PROVE Stays
  BY <1>2, <1>14 DEF SigCb, Gate, Wait, Recheck, RThreadOnly, Stop, Freed, vars
<1>15. ASSUME StopHost \/ StopRecv \/ StopSig \/ ClosePoly \/ PolyClosed \/ CloseRep PROVE Stays
  BY <1>2, <1>15 DEF StopHost, StopRecv, StopSig, ClosePoly, PolyClosed, CloseRep, RThreadOnly
<1>16. ASSUME FreeSenders \/ CloseReplies \/ CloseQueue PROVE Drops
  <2>1. stopped
    BY <1>16 DEF FreeSenders, CloseReplies, CloseQueue, Stages, InUse
  <2>2. CASE FreeSenders
    <3>1. /\ slot' = [q \in Pipes |-> NoSlot] /\ open' = open \ {slot[q].ctx : q \in Busy}
          /\ UNCHANGED <<inq, reply_active, orphan, mtx, count, header, answers, stopped>>
      BY <2>2 DEF FreeSenders
    <3>2. jobs' = {}
      BY <1>1, <3>1 DEF jobs, Busy
    <3>3. claims' = claims \ Running /\ UNCHANGED ending
      BY <3>1 DEF claims, Running, ending
    <3>4. QED
      BY <2>1, <3>1, <3>2, <3>3 DEF Drops
  <2>3. CASE CloseReplies
    <3>1. /\ reply_active' = {} /\ open' = open \ {r.ctx : r \in reply_active}
          /\ UNCHANGED <<inq, slot, orphan, mtx, count, header, answers, stopped>>
          /\ main = "closeReplies"
      BY <2>3 DEF CloseReplies
    <3>2. claims' = claims \ Replying /\ UNCHANGED <<jobs, ending>>
      BY <3>1 DEF claims, Replying, jobs, Busy, ending
    <3>3. orphan = {} /\ mtx = Free
      BY <2>1, <3>1 DEF Stages, AfterPoly, PipeCallbacksDone
    <3>4. QED
      BY <2>1, <3>1, <3>2, <3>3 DEF Drops
  <2>4. CASE CloseQueue
    <3>1. /\ inq' = <<>> /\ open' = open \ ({host_ctx} \cup {inq[i] : i \in 1..Len(inq)})
          /\ UNCHANGED <<slot, reply_active, orphan, mtx, count, header, answers, stopped>>
          /\ main = "closeQueue"
      BY <2>4 DEF CloseQueue
    <3>2. claims' = claims \ ({host_ctx} \cup Queued) /\ UNCHANGED <<jobs, ending>>
      BY <3>1 DEF claims, Queued, jobs, Busy, ending
    <3>3. reply_active = {} /\ orphan = {} /\ mtx = Free
      BY <2>1, <3>1 DEF Stages, AfterPoly, PipeCallbacksDone
    <3>4. jobs = {}
      BY <3>1 DEF Stages, AfterPoly, jobs, Busy
    <3>5. QED
      BY <2>1, <3>1, <3>2, <3>3, <3>4 DEF Drops
  <2>5. QED
    BY <1>16, <2>2, <2>3, <2>4
<1>17. ASSUME NEW r \in reply_active, ReplySent(r) PROVE Delivers(r)
  BY <1>17 DEF ReplySent, NetworkOnly, Delivers, jobs, Busy, ending, claims
<1>18. ASSUME Route \/ \E p \in Pipes : DaemonTake(p) \/ PipeStart(p) \/ Crash(p) PROVE Stays
  BY <1>2, <1>18 DEF Route, DaemonTake, PipeStart, Crash, PipeDown, NetworkOnly
<1>19. ASSUME \E p \in Pipes, marker \in Markers : DaemonReply(p, marker) PROVE Stays
  BY <1>2, <1>19 DEF DaemonReply, NetworkOnly
<1>20. Shutdown => \/ StopHost \/ StopRecv \/ StopSig \/ ClosePoly \/ PolyClosed \/ CloseRep
                   \/ FreeSenders \/ CloseReplies \/ CloseQueue
  BY DEF Shutdown
<1>21. QED
  BY <1>4, <1>5, <1>6, <1>7, <1>8, <1>9, <1>10, <1>11, <1>12, <1>13, <1>14, <1>15, <1>16, <1>17,
     <1>18, <1>19, <1>20 DEF Next, Callback, Network, Move

-----------------------------------------------------------------------------
(* Every open context is in one place                                        *)

Elements(q) == {q[i] : i \in 1..Len(q)}
Distinct(q) == \A i, j \in 1..Len(q) : q[i] = q[j] => i = j

\* Five places that share nothing make up the whole.
Apart(Q, W, R, O, F, whole) ==
  /\ whole = Q \cup W \cup R \cup O \cup F
  /\ Q \cap W = {} /\ Q \cap R = {} /\ Q \cap O = {} /\ Q \cap F = {}
  /\ W \cap R = {} /\ W \cap O = {} /\ W \cap F = {}
  /\ R \cap O = {} /\ R \cap F = {}
  /\ O \cap F = {}

\* A request is once in the queue, with one busy daemon, in one reply holder and
\* with one dispatch_handle_disconnect, and in only one of these places.
Placed ==
  /\ Distinct(inq)
  /\ \A j, k \in jobs : j.task = k.task => j = k
  /\ \A r, s \in reply_active : r.ctx = s.ctx => r = s
  /\ \A o, n \in orphan : o.ctx = n.ctx => o = n
  /\ Apart(Queued, Running, Replying, Orphaned, Finishing, claims)
  /\ claims \subseteq 1..count

LEMMA QueueMoves ==
  ASSUME NEW S, NEW q \in Seq(S), Distinct(q)
  PROVE  /\ \A x \in S : x \notin Elements(q) =>
              Distinct(Append(q, x)) /\ Elements(Append(q, x)) = Elements(q) \cup {x}
         /\ q # <<>> => /\ Head(q) \in Elements(q)
                        /\ Distinct(Tail(q)) /\ Elements(Tail(q)) = Elements(q) \ {Head(q)}
         /\ \A i \in 1..Len(q) :
              Distinct(RemoveAt(q, i)) /\ Elements(RemoveAt(q, i)) = Elements(q) \ {q[i]}
<1>1. ASSUME NEW x \in S, x \notin Elements(q)
      PROVE  Distinct(Append(q, x)) /\ Elements(Append(q, x)) = Elements(q) \cup {x}
  <2> DEFINE r == Append(q, x)
  <2>1. /\ Len(r) = Len(q) + 1 /\ Len(q) \in Nat /\ r[Len(q) + 1] = x
        /\ \A i \in 1..Len(r) : i = Len(q) + 1 \/ (i \in 1..Len(q) /\ r[i] = q[i])
        /\ \A i \in 1..Len(q) : i \in 1..Len(r) /\ r[i] = q[i]
    BY AppendElements, AppendProperties
  <2> HIDE DEF r
  <2>2. Distinct(r)
    BY <1>1, <2>1 DEF Distinct, Elements
  <2>3. Elements(r) = Elements(q) \cup {x}
    <3>1. Len(q) + 1 \in 1..Len(r)
      BY <2>1
    <3>2. Elements(r) \subseteq Elements(q) \cup {x}
      BY <2>1 DEF Elements
    <3>3. Elements(q) \cup {x} \subseteq Elements(r)
      BY <2>1, <3>1 DEF Elements
    <3>4. QED
      BY <3>2, <3>3
  <2>4. QED
    BY <2>2, <2>3 DEF r
<1>2. ASSUME q # <<>>
      PROVE  /\ Head(q) \in Elements(q)
             /\ Distinct(Tail(q)) /\ Elements(Tail(q)) = Elements(q) \ {Head(q)}
  <2>1. /\ Len(Tail(q)) = Len(q) - 1 /\ Len(q) \in Nat /\ 1 \in 1..Len(q) /\ Head(q) = q[1]
        /\ \A i \in 1..Len(Tail(q)) : i + 1 \in 1..Len(q) /\ Tail(q)[i] = q[i + 1]
    BY <1>2, TailElements
  <2>2. Distinct(Tail(q))
    <3>1. \A i, j \in 1..Len(Tail(q)) : i + 1 = j + 1 => i = j
      BY <2>1
    <3>2. QED
      BY <2>1, <3>1 DEF Distinct
  <2>3. ASSUME NEW x \in Elements(Tail(q)) PROVE x \in Elements(q) \ {Head(q)}
    <3>1. PICK i \in 1..Len(Tail(q)) : x = Tail(q)[i]
      BY DEF Elements
    <3>2. x = q[i + 1] /\ i + 1 \in 1..Len(q) /\ i + 1 # 1
      BY <2>1, <3>1
    <3>3. QED
      BY <2>1, <3>2 DEF Distinct, Elements
  <2>4. ASSUME NEW x \in Elements(q) \ {Head(q)} PROVE x \in Elements(Tail(q))
    <3>1. PICK i \in 1..Len(q) : x = q[i]
      BY DEF Elements
    <3>2. i # 1
      BY <2>1, <2>4, <3>1
    <3>3. i - 1 \in 1..Len(Tail(q)) /\ (i - 1) + 1 = i
      BY <2>1, <3>2
    <3>4. Tail(q)[i - 1] = x
      BY <2>1, <3>1, <3>3
    <3>5. QED
      BY <3>3, <3>4 DEF Elements
  <2>5. QED
    BY <2>1, <2>2, <2>3, <2>4 DEF Elements
<1>3. ASSUME NEW k \in 1..Len(q)
      PROVE  Distinct(RemoveAt(q, k)) /\ Elements(RemoveAt(q, k)) = Elements(q) \ {q[k]}
  <2> DEFINE r == RemoveAt(q, k)
             from(i) == IF i < k THEN i ELSE i + 1
  <2>1. /\ Len(q) \in Nat /\ Len(r) = Len(q) - 1
        /\ \A i \in 1..Len(r) : r[i] = q[from(i)]
    BY RemoveAtElements
  <2>2. \A i, j \in 1..Len(r) : from(i) \in 1..Len(q) /\ from(i) # k /\ (from(i) = from(j) => i = j)
    BY <2>1
  <2>3. \A n \in 1..Len(q) : n # k => \E i \in 1..Len(r) : from(i) = n
    <3>1. SUFFICES ASSUME NEW n \in 1..Len(q), n # k PROVE \E i \in 1..Len(r) : from(i) = n
      OBVIOUS
    <3>2. CASE n < k
      <4>1. n \in 1..Len(r) /\ from(n) = n
        BY <2>1, <3>2
      <4>2. QED
        BY <4>1
    <3>3. CASE n > k
      <4>1. n - 1 \in 1..Len(r) /\ from(n - 1) = n
        BY <2>1, <3>3
      <4>2. QED
        BY <4>1
    <3>4. QED
      BY <2>1, <3>1, <3>2, <3>3
  <2> HIDE DEF r, from
  <2>4. Distinct(r)
    BY <2>1, <2>2 DEF Distinct
  <2>5. Elements(r) \subseteq Elements(q) \ {q[k]}
    BY <2>1, <2>2 DEF Distinct, Elements
  <2>6. ASSUME NEW x \in Elements(q) \ {q[k]} PROVE x \in Elements(r)
    <3>1. PICK n \in 1..Len(q) : x = q[n] /\ n # k
      BY <2>6 DEF Elements
    <3>2. PICK i \in 1..Len(r) : from(i) = n
      BY <2>3, <3>1
    <3>3. QED
      BY <2>1, <3>1, <3>2 DEF Elements
  <2>7. QED
    BY <2>4, <2>5, <2>6 DEF r
<1>4. QED
  BY <1>1, <1>2, <1>3

\* What sending a reply does to the places.
LEMMA RepliesMoves ==
  ASSUME Placed, NEW t, NEW m, Replies(t, m), t \notin Replying
  PROVE  /\ \A r, s \in reply_active' : r.ctx = s.ctx => r = s
         /\ \/ \E C \in SUBSET Replying :
                 Replying' = (Replying \ C) \cup {t} /\ claims' = claims \ C
            \/ Replying' = Replying /\ claims' = claims \ {t}
<1> DEFINE new  == [ctx |-> t, msg |-> m, busy |-> TRUE]
           done == {r \in reply_active : ~r.busy}
           C    == {r.ctx : r \in done}
<1>1. \A r, s \in reply_active : r.ctx = s.ctx => r = s
  BY DEF Placed
<1>2. CASE /\ reply_active' = {r \in reply_active : r.busy} \cup {new}
           /\ claims' = claims \ C
  <2>1. new.ctx = t /\ \A r \in reply_active : r.ctx # t
    BY DEF Replying
  <2>2. \A r, s \in reply_active' : r.ctx = s.ctx => r = s
    BY <1>1, <1>2, <2>1
  <2>3. C \in SUBSET Replying
    BY DEF Replying
  <2>4. ASSUME NEW r \in reply_active, r.busy PROVE r.ctx \notin C
    BY <1>1, <2>4
  <2>5. Replying' = {r.ctx : r \in {r \in reply_active : r.busy}} \cup {t}
    BY <1>2, <2>1 DEF Replying
  <2>6. {r.ctx : r \in {r \in reply_active : r.busy}} = Replying \ C
    BY <2>4 DEF Replying
  <2>7. QED
    BY <1>2, <2>2, <2>3, <2>5, <2>6
<1>3. CASE MayFail /\ claims' = claims \ {t} /\ UNCHANGED reply_active
  BY <1>1, <1>3 DEF Replying
<1>4. QED
  BY <1>2, <1>3 DEF Replies

\* The places named by what they hold.
LEMMA Names ==
  /\ Running = {j.task : j \in jobs} /\ Running' = {j.task : j \in jobs'}
  /\ Finishing = {e.task : e \in ending} /\ Finishing' = {e.task : e \in ending'}
  /\ Queued = Elements(inq) /\ Queued' = Elements(inq')
<1>1. /\ \A p \in Busy : [worker |-> p, task |-> slot[p].ctx].task = slot[p].ctx
      /\ \A p \in Busy' : [worker |-> p, task |-> slot'[p].ctx].task = slot'[p].ctx
  OBVIOUS
<1>2. Running = {j.task : j \in jobs} /\ Running' = {j.task : j \in jobs'}
  BY <1>1 DEF Running, jobs
<1>3. Finishing = {e.task : e \in ending} /\ Finishing' = {e.task : e \in ending'}
  <2>1. ASSUME NEW t, NEW m PROVE {e.task : e \in {[task |-> t, msg |-> m]}} = {t}
    OBVIOUS
  <2>2. Finishing = {e.task : e \in ending}
    BY <2>1 DEF Finishing, ending
  <2>3. Finishing' = {e.task : e \in ending'}
    BY <2>1 DEF Finishing, ending
  <2>4. QED
    BY <2>2, <2>3
<1>4. Queued = Elements(inq) /\ Queued' = Elements(inq')
  BY DEF Queued, Elements
<1>5. QED
  BY <1>2, <1>3, <1>4

\* A job ends, or a new one starts.
LEMMA JobMoves ==
  ASSUME Placed
  PROVE  /\ \A j \in jobs : jobs' = jobs \ {j} =>
              /\ \A k, l \in jobs' : k.task = l.task => k = l
              /\ Running' = Running \ {j.task} /\ j.task \in Running
         /\ \A p, t : t \notin Running /\ jobs' = jobs \cup {[worker |-> p, task |-> t]} =>
              /\ \A k, l \in jobs' : k.task = l.task => k = l
              /\ Running' = Running \cup {t}
<1>1. \A j, k \in jobs : j.task = k.task => j = k
  BY DEF Placed
<1>2. Running = {j.task : j \in jobs} /\ Running' = {j.task : j \in jobs'}
  BY Names
<1>3. ASSUME NEW j \in jobs, jobs' = jobs \ {j}
      PROVE  /\ \A k, l \in jobs' : k.task = l.task => k = l
             /\ Running' = Running \ {j.task} /\ j.task \in Running
  BY <1>1, <1>2, <1>3
<1>4. ASSUME NEW p, NEW t, t \notin Running, jobs' = jobs \cup {[worker |-> p, task |-> t]}
      PROVE  /\ \A k, l \in jobs' : k.task = l.task => k = l
             /\ Running' = Running \cup {t}
  <2>1. [worker |-> p, task |-> t].task = t /\ \A j \in jobs : j.task # t
    BY <1>2, <1>4
  <2>2. QED
    BY <1>1, <1>2, <1>4, <2>1
<1>5. QED
  BY <1>3, <1>4

\* A lost daemon's context is taken by a dispatch_handle_disconnect, or leaves it.
LEMMA OrphanMoves ==
  ASSUME Placed
  PROVE  /\ \A o \in orphan : orphan' = orphan \ {o} =>
              /\ \A n, l \in orphan' : n.ctx = l.ctx => n = l
              /\ Orphaned' = Orphaned \ {o.ctx} /\ o.ctx \in Orphaned
         /\ \A t, c : t \notin Orphaned /\ orphan' = orphan \cup {[ctx |-> t, close |-> c]} =>
              /\ \A n, l \in orphan' : n.ctx = l.ctx => n = l
              /\ Orphaned' = Orphaned \cup {t}
<1>1. \A n, l \in orphan : n.ctx = l.ctx => n = l
  BY DEF Placed
<1>2. ASSUME NEW o \in orphan, orphan' = orphan \ {o}
      PROVE  /\ \A n, l \in orphan' : n.ctx = l.ctx => n = l
             /\ Orphaned' = Orphaned \ {o.ctx} /\ o.ctx \in Orphaned
  BY <1>1, <1>2 DEF Orphaned
<1>3. ASSUME NEW t, NEW c, t \notin Orphaned, orphan' = orphan \cup {[ctx |-> t, close |-> c]}
      PROVE  /\ \A n, l \in orphan' : n.ctx = l.ctx => n = l
             /\ Orphaned' = Orphaned \cup {t}
  <2>1. [ctx |-> t, close |-> c].ctx = t /\ \A o \in orphan : o.ctx # t
    BY <1>3 DEF Orphaned
  <2>2. QED
    BY <1>1, <1>3, <2>1 DEF Orphaned
<1>4. QED
  BY <1>2, <1>3

\* The reply of a handler that drained.
LEMMA EndingMoves ==
  /\ ending' = {} => Finishing' = {}
  /\ \A t, m : ending' = {[task |-> t, msg |-> m]} => Finishing' = {t}
  /\ ending' = ending => Finishing' = Finishing
  /\ mtx = Free => Finishing = {}
<1>1. ASSUME NEW t, NEW m PROVE {e.task : e \in {[task |-> t, msg |-> m]}} = {t}
  OBVIOUS
<1>2. mtx = Free => Finishing = {}
  BY DEF Finishing, Free
<1>3. QED
  BY <1>1, <1>2, Names

\* What a daemon holds is, then, in a reply holder or lost with its request.
LEMMA ReplyFrom ==
  ASSUME Placed, NEW t \in Running \cup Orphaned \cup Finishing, NEW m, Replies(t, m)
  PROVE  /\ \A r, s \in reply_active' : r.ctx = s.ctx => r = s
         /\ t \in Running => Apart(Queued, Running \ {t}, Replying', Orphaned, Finishing, claims')
         /\ t \in Orphaned => Apart(Queued, Running, Replying', Orphaned \ {t}, Finishing, claims')
         /\ t \in Finishing => Apart(Queued, Running, Replying', Orphaned, Finishing \ {t}, claims')
         /\ claims' \subseteq claims
<1>1. Apart(Queued, Running, Replying, Orphaned, Finishing, claims)
  BY DEF Placed
<1>2. t \notin Replying
  BY <1>1 DEF Apart
<1>3. /\ \A r, s \in reply_active' : r.ctx = s.ctx => r = s
      /\ \/ \E C \in SUBSET Replying :
              Replying' = (Replying \ C) \cup {t} /\ claims' = claims \ C
         \/ Replying' = Replying /\ claims' = claims \ {t}
  BY <1>2, RepliesMoves
<1>4. QED
  BY <1>1, <1>3 DEF Apart

LEMMA PlacedNext ==
  ASSUME IInv, Placed, Move
  PROVE  Placed'
<1> DEFINE Goal == Placed'
<1>1. /\ inq \in Seq(Task) /\ count \in Nat
      /\ Apart(Queued, Running, Replying, Orphaned, Finishing, claims)
      /\ Distinct(inq) /\ claims \subseteq 1..count
      /\ \A j, k \in jobs : j.task = k.task => j = k
      /\ \A r, s \in reply_active : r.ctx = s.ctx => r = s
      /\ \A o, n \in orphan : o.ctx = n.ctx => o = n
  BY DEF IInv, TypeOK, TypeQueue, Placed
<1>2. /\ UNCHANGED inq => UNCHANGED Queued
      /\ UNCHANGED jobs => UNCHANGED Running
      /\ UNCHANGED reply_active => UNCHANGED Replying
      /\ UNCHANGED orphan => UNCHANGED Orphaned
      /\ UNCHANGED ending => UNCHANGED Finishing
      /\ Queued = Elements(inq) /\ Queued' = Elements(inq')
  BY Names DEF Replying, Orphaned
<1>3. ASSUME Stays PROVE Goal
  BY <1>1, <1>2, <1>3 DEF Stays, Placed
<1>4. ASSUME Arrives PROVE Goal
  <2>1. PICK t \in Nat : t = count + 1
    BY <1>1
  <2>2. /\ count' = t /\ claims' = claims \cup {t} /\ UNCHANGED <<reply_active, orphan, ending>>
        /\ \/ inq' = Append(inq, t) /\ UNCHANGED jobs
           \/ /\ \E p \in IdleDaemons : jobs' = jobs \cup {[worker |-> p, task |-> t]}
              /\ UNCHANGED inq
    BY <1>4, <2>1 DEF Arrives
  <2>3. t \in Task
    BY <1>1, <1>4, <2>1, DispatcherAssumption DEF Arrives, DispatcherAssumption, Task
  <2>4. t \notin claims /\ claims' \subseteq 1..count'
    BY <1>1, <2>1, <2>2
  <2>5. t \notin Queued /\ t \notin Running
    BY <1>1, <2>4 DEF Apart
  <2>6. CASE inq' = Append(inq, t) /\ UNCHANGED jobs
    <3>1. Distinct(inq') /\ Queued' = Queued \cup {t}
      BY <1>1, <1>2, <2>4, <2>5, <2>6, <2>3, QueueMoves
    <3>2. Apart(Queued', Running', Replying', Orphaned', Finishing', claims')
      BY <1>1, <1>2, <2>2, <2>4, <2>6, <3>1 DEF Apart
    <3>3. QED
      BY <1>1, <2>2, <2>4, <2>6, <3>1, <3>2 DEF Placed
  <2>7. ASSUME NEW p \in IdleDaemons, jobs' = jobs \cup {[worker |-> p, task |-> t]}, UNCHANGED inq
        PROVE  Goal
    <3>1. (\A k, l \in jobs' : k.task = l.task => k = l) /\ Running' = Running \cup {t}
      BY <2>5, <2>7, JobMoves
    <3>2. Apart(Queued', Running', Replying', Orphaned', Finishing', claims')
      BY <1>1, <1>2, <2>2, <2>4, <2>7, <3>1 DEF Apart
    <3>3. QED
      BY <1>1, <2>2, <2>4, <2>7, <3>1, <3>2 DEF Placed
  <2>8. QED
    BY <2>2, <2>6, <2>7
<1>5. ASSUME Starts PROVE Goal
  <2> DEFINE t == Head(inq)
  <2>1. /\ inq # <<>> /\ inq' = Tail(inq)
        /\ UNCHANGED <<reply_active, orphan, ending, claims, count>>
    BY <1>5 DEF Starts
  <2>2. PICK p \in IdleDaemons : jobs' = jobs \cup {[worker |-> p, task |-> t]}
    BY <1>5 DEF Starts
  <2>3. t \in Queued /\ Distinct(inq') /\ Queued' = Queued \ {t}
    BY <1>1, <1>2, <2>1, QueueMoves
  <2> HIDE DEF t
  <2>4. t \notin Running
    BY <1>1, <2>3 DEF Apart
  <2>5. (\A k, l \in jobs' : k.task = l.task => k = l) /\ Running' = Running \cup {t}
    BY <2>2, <2>4, JobMoves
  <2>6. Apart(Queued', Running', Replying', Orphaned', Finishing', claims')
    BY <1>1, <1>2, <2>1, <2>3, <2>5 DEF Apart
  <2>7. QED
    BY <1>1, <2>1, <2>3, <2>5, <2>6 DEF Placed
<1>6. ASSUME Cancelled PROVE Goal
  <2>1. PICK i \in 1..Len(inq) : inq' = RemoveAt(inq, i) /\ claims' = claims \ {inq[i]}
    BY <1>6 DEF Cancelled
  <2>2. UNCHANGED <<jobs, reply_active, orphan, ending, count>>
    BY <1>6 DEF Cancelled
  <2>3. Distinct(inq') /\ Queued' = Queued \ {inq[i]}
    BY <1>1, <1>2, <2>1, QueueMoves
  <2>4. inq[i] \in Queued
    BY <2>1 DEF Queued
  <2>5. Apart(Queued', Running', Replying', Orphaned', Finishing', claims')
    BY <1>1, <1>2, <2>1, <2>2, <2>3, <2>4 DEF Apart
  <2>6. QED
    BY <1>1, <2>1, <2>2, <2>3, <2>5 DEF Placed
<1>7. ASSUME NEW j \in jobs, Returns(j) PROVE Goal
  <2>1. /\ jobs' = jobs \ {j} /\ mtx = Free /\ ending' = {[task |-> j.task, msg |-> j.task]}
        /\ UNCHANGED <<inq, reply_active, orphan, claims, count>>
    BY <1>7 DEF Returns
  <2>2. /\ \A k, l \in jobs' : k.task = l.task => k = l
        /\ Running' = Running \ {j.task} /\ j.task \in Running
    BY <2>1, JobMoves
  <2>3. Finishing = {} /\ Finishing' = Finishing \cup {j.task}
    BY <2>1, EndingMoves
  <2>4. Apart(Queued', Running', Replying', Orphaned', Finishing', claims')
    BY <1>1, <1>2, <2>1, <2>2, <2>3 DEF Apart
  <2>5. QED
    BY <1>1, <2>1, <2>2, <2>4 DEF Placed
<1>8. ASSUME NEW j \in jobs, Leaves(j) PROVE Goal
  <2>1. /\ jobs' = jobs \ {j} /\ Replies(j.task, j.task)
        /\ UNCHANGED <<inq, orphan, ending, count>>
    BY <1>8 DEF Leaves
  <2>2. /\ \A k, l \in jobs' : k.task = l.task => k = l
        /\ Running' = Running \ {j.task} /\ j.task \in Running
    BY <2>1, JobMoves
  <2>3. /\ \A r, s \in reply_active' : r.ctx = s.ctx => r = s
        /\ Apart(Queued, Running \ {j.task}, Replying', Orphaned, Finishing, claims')
        /\ claims' \subseteq claims
    BY <2>1, <2>2, ReplyFrom
  <2>4. QED
    BY <1>1, <1>2, <2>1, <2>2, <2>3 DEF Placed
<1>9. ASSUME NEW j \in jobs, Loses(j) PROVE Goal
  <2>1. /\ jobs' = jobs \ {j} /\ orphan' = orphan \cup {[ctx |-> j.task, close |-> stopped]}
        /\ UNCHANGED <<inq, reply_active, ending, claims, count>>
    BY <1>9 DEF Loses
  <2>2. /\ \A k, l \in jobs' : k.task = l.task => k = l
        /\ Running' = Running \ {j.task} /\ j.task \in Running
    BY <2>1, JobMoves
  <2>3. j.task \notin Orphaned
    BY <1>1, <2>2 DEF Apart
  <2>4. (\A n, l \in orphan' : n.ctx = l.ctx => n = l) /\ Orphaned' = Orphaned \cup {j.task}
    BY <2>1, <2>3, OrphanMoves
  <2>5. Apart(Queued', Running', Replying', Orphaned', Finishing', claims')
    BY <1>1, <1>2, <2>1, <2>2, <2>4 DEF Apart
  <2>6. QED
    BY <1>1, <2>1, <2>2, <2>4, <2>5 DEF Placed
<1>10. ASSUME NEW o \in orphan, Resets(o) PROVE Goal
  <2>1. /\ orphan' = orphan \ {o} /\ UNCHANGED <<inq, jobs, ending, count>>
        /\ Replies(o.ctx, ConnReset) \/ (claims' = claims \ {o.ctx} /\ UNCHANGED reply_active)
    BY <1>10 DEF Resets
  <2>2. /\ \A n, l \in orphan' : n.ctx = l.ctx => n = l
        /\ Orphaned' = Orphaned \ {o.ctx} /\ o.ctx \in Orphaned
    BY <2>1, OrphanMoves
  <2>3. CASE Replies(o.ctx, ConnReset)
    <3>1. /\ \A r, s \in reply_active' : r.ctx = s.ctx => r = s
          /\ Apart(Queued, Running, Replying', Orphaned \ {o.ctx}, Finishing, claims')
          /\ claims' \subseteq claims
      BY <2>2, <2>3, ReplyFrom
    <3>2. QED
      BY <1>1, <1>2, <2>1, <2>2, <3>1 DEF Placed
  <2>4. CASE claims' = claims \ {o.ctx} /\ UNCHANGED reply_active
    <3>1. Apart(Queued', Running', Replying', Orphaned', Finishing', claims')
      BY <1>1, <1>2, <2>1, <2>2, <2>4 DEF Apart
    <3>2. QED
      BY <1>1, <2>1, <2>2, <2>4, <3>1 DEF Placed
  <2>5. QED
    BY <2>1, <2>3, <2>4
<1>11. ASSUME Ends PROVE Goal
  <2>1. /\ mtx.ctx # Fresh /\ Replies(mtx.ctx, mtx.msg) /\ ending' = {}
        /\ UNCHANGED <<inq, jobs, orphan, count>>
    BY <1>11 DEF Ends
  <2>2. Finishing = {mtx.ctx} /\ Finishing' = Finishing \ {mtx.ctx}
    BY <2>1, EndingMoves DEF Finishing
  <2>3. /\ \A r, s \in reply_active' : r.ctx = s.ctx => r = s
        /\ Apart(Queued, Running, Replying', Orphaned, Finishing \ {mtx.ctx}, claims')
        /\ claims' \subseteq claims
    BY <2>1, <2>2, ReplyFrom
  <2>4. QED
    BY <1>1, <1>2, <2>1, <2>2, <2>3 DEF Placed
<1>12. ASSUME NEW r \in reply_active, Delivers(r) PROVE Goal
  <2> DEFINE s == [r EXCEPT !.busy = FALSE]
  <2>1. /\ reply_active' = (reply_active \ {r}) \cup {s}
        /\ UNCHANGED <<inq, jobs, orphan, ending, claims, count>>
    BY <1>12 DEF Delivers
  <2>2. r \in [ctx : Task, msg : Int, busy : BOOLEAN]
    BY DEF IInv, TypeOK, TypeContexts
  <2>3. s.ctx = r.ctx
    BY <2>2
  <2> HIDE DEF s
  <2>4. (\A a, b \in reply_active' : a.ctx = b.ctx => a = b) /\ Replying' = Replying
    BY <1>1, <2>1, <2>3 DEF Replying
  <2>5. QED
    BY <1>1, <1>2, <2>1, <2>4 DEF Placed
<1>13. ASSUME Drops PROVE Goal
  <2>1. UNCHANGED <<orphan, ending, count>>
    BY <1>13 DEF Drops
  <2>2. CASE jobs' = {} /\ claims' = claims \ Running /\ UNCHANGED <<inq, reply_active>>
    <3>1. Running' = {}
      BY <2>2, Names
    <3>2. Apart(Queued', Running', Replying', Orphaned', Finishing', claims')
      BY <1>1, <1>2, <2>1, <2>2, <3>1 DEF Apart
    <3>3. QED
      BY <1>1, <2>1, <2>2, <3>2 DEF Placed
  <2>3. CASE reply_active' = {} /\ claims' = claims \ Replying /\ UNCHANGED <<inq, jobs>>
    <3>1. Replying' = {}
      BY <2>3 DEF Replying
    <3>2. Apart(Queued', Running', Replying', Orphaned', Finishing', claims')
      BY <1>1, <1>2, <2>1, <2>3, <3>1 DEF Apart
    <3>3. QED
      BY <1>1, <2>1, <2>3, <3>2 DEF Placed
  <2>4. CASE /\ jobs = {} /\ reply_active = {} /\ orphan = {} /\ mtx = Free
             /\ inq' = <<>> /\ claims' = claims \ ({host_ctx} \cup Queued)
             /\ UNCHANGED <<jobs, reply_active>>
    <3>1. Running = {} /\ Replying = {} /\ Orphaned = {} /\ Finishing = {}
      BY <2>4, Names, EndingMoves DEF Replying, Orphaned
    <3>2. claims = Queued
      BY <1>1, <3>1 DEF Apart
    <3>3. Len(inq') = 0 /\ Queued' = {} /\ Distinct(inq')
      BY <2>4 DEF Queued, Distinct
    <3>4. claims' = claims \ Queued
      BY <2>4, <3>2
    <3>5. Apart(Queued', Running', Replying', Orphaned', Finishing', claims')
      BY <1>1, <1>2, <2>1, <2>4, <3>3, <3>4 DEF Apart
    <3>6. QED
      BY <1>1, <2>1, <2>4, <3>3, <3>4, <3>5 DEF Placed
  <2>5. QED
    BY <1>13, <2>2, <2>3, <2>4 DEF Drops
<1>14. QED
  BY <1>3, <1>4, <1>5, <1>6, <1>7, <1>8, <1>9, <1>10, <1>11, <1>12, <1>13 DEF Move

ContextInv == FlowInv /\ Placed

LEMMA InitPlaced == Init => Placed
<1> SUFFICES ASSUME Init PROVE Placed
  OBVIOUS
<1>1. inq = <<>> /\ Len(inq) = 0 /\ reply_active = {} /\ orphan = {} /\ open = {Fresh}
  BY DEF Init
<1>2. Busy = {}
  BY DEF Init, Busy, NoSlot
<1>3. jobs = {} /\ Running = {}
  BY <1>2 DEF jobs, Running
<1>4. Finishing = {} /\ claims = {}
  BY <1>1 DEF Init, Free, Finishing, claims
<1>5. Queued = {} /\ Replying = {} /\ Orphaned = {}
  BY <1>1 DEF Queued, Replying, Orphaned
<1>6. QED
  BY <1>1, <1>3, <1>4, <1>5 DEF Placed, Distinct, Apart

LEMMA NextContextInv == ContextInv /\ [Next]_vars => ContextInv'
<1>1. ContextInv /\ [Next]_vars => FlowInv'
  BY NextFlowInv DEF ContextInv
<1>2. ASSUME ContextInv, Next PROVE Placed'
  BY <1>2, Moves, PlacedNext DEF ContextInv, FlowInv
<1>3. ASSUME ContextInv, UNCHANGED vars PROVE Placed'
  <2>1. Stays
    BY <1>3 DEF vars, Stays, jobs, Busy, ending, claims
  <2>2. QED
    BY <1>3, <2>1, PlacedNext DEF ContextInv, FlowInv, Move
<1>4. QED
  BY <1>1, <1>2, <1>3 DEF ContextInv

\* Whatever the handlers, the drain and the shutdown do, every open context of a
\* request has one place: no two of d->inq_head, the slots, the reply holders and
\* the handlers under way hold the same request.
THEOREM ContextInvariance == Spec => []ContextInv
<1>1. Init => ContextInv
  BY InitFlowInv, InitPlaced DEF ContextInv
<1>2. ContextInv /\ [Next]_vars => ContextInv'
  BY NextContextInv
<1>3. QED
  BY <1>1, <1>2, PTL DEF Spec

LEMMA SizeOfUnion ==
  ASSUME NEW S, NEW T, IsFiniteSet(S), IsFiniteSet(T), S \cap T = {}
  PROVE  IsFiniteSet(S \cup T) /\ Cardinality(S \cup T) = Cardinality(S) + Cardinality(T)
<1>1. /\ IsFiniteSet(S \cup T)
      /\ Cardinality(S \cup T) = Cardinality(S) + Cardinality(T) - Cardinality(S \cap T)
  BY FS_Union, Zenon
<1>2. Cardinality(S \cap T) = 0
  BY FS_EmptySet
<1>3. Cardinality(S) \in Nat /\ Cardinality(T) \in Nat
  BY FS_CardinalityType
<1>4. QED
  BY <1>1, <1>2, <1>3

LEMMA SizeOfParts ==
  ASSUME NEW Q, NEW W, NEW R, NEW O, NEW F, NEW whole,
         Apart(Q, W, R, O, F, whole), IsFiniteSet(whole)
  PROVE  /\ IsFiniteSet(Q) /\ IsFiniteSet(W) /\ IsFiniteSet(R) /\ IsFiniteSet(O) /\ IsFiniteSet(F)
         /\ Cardinality(whole) =
              Cardinality(Q) + Cardinality(W) + Cardinality(R) + Cardinality(O) + Cardinality(F)
<1>1. Q \in SUBSET whole /\ W \in SUBSET whole /\ R \in SUBSET whole /\ O \in SUBSET whole /\ F \in SUBSET whole
  BY DEF Apart
<1>2. IsFiniteSet(Q) /\ IsFiniteSet(W) /\ IsFiniteSet(R) /\ IsFiniteSet(O) /\ IsFiniteSet(F)
  BY <1>1, FS_Subset
<1>3. /\ Cardinality(Q) \in Nat /\ Cardinality(W) \in Nat /\ Cardinality(R) \in Nat
      /\ Cardinality(O) \in Nat /\ Cardinality(F) \in Nat /\ Cardinality({}) = 0
  BY <1>2, FS_CardinalityType, FS_EmptySet
<1>4. IsFiniteSet(Q \cup W) /\ Cardinality(Q \cup W) = Cardinality(Q) + Cardinality(W)
  <2>1. Q \cap W = {}
    BY DEF Apart
  <2>2. QED
    BY <1>2, <1>3, <2>1, SizeOfUnion
<1>5. /\ IsFiniteSet((Q \cup W) \cup R)
      /\ Cardinality((Q \cup W) \cup R) = Cardinality(Q) + Cardinality(W) + Cardinality(R)
  <2>1. (Q \cup W) \cap R = {}
    BY DEF Apart
  <2>2. QED
    BY <1>2, <1>3, <1>4, <2>1, SizeOfUnion
<1>6. /\ IsFiniteSet(((Q \cup W) \cup R) \cup O)
      /\ Cardinality(((Q \cup W) \cup R) \cup O)
           = Cardinality(Q) + Cardinality(W) + Cardinality(R) + Cardinality(O)
  <2>1. ((Q \cup W) \cup R) \cap O = {}
    BY DEF Apart
  <2>2. QED
    BY <1>2, <1>3, <1>5, <2>1, SizeOfUnion
<1>7. /\ IsFiniteSet((((Q \cup W) \cup R) \cup O) \cup F)
      /\ Cardinality((((Q \cup W) \cup R) \cup O) \cup F)
           = Cardinality(Q) + Cardinality(W) + Cardinality(R) + Cardinality(O) + Cardinality(F)
  <2>1. (((Q \cup W) \cup R) \cup O) \cap F = {}
    BY DEF Apart
  <2>2. QED
    BY <1>2, <1>3, <1>6, <2>1, SizeOfUnion
<1>8. whole = (((Q \cup W) \cup R) \cup O) \cup F
  BY DEF Apart
<1>9. QED
  BY <1>2, <1>7, <1>8

\* Every open context of the REP socket is in exactly one place: in the queue,
\* with one busy daemon, with a handler or with one reply holder.  None is lost
\* and none is answered or closed twice, in any order of the callbacks.
THEOREM ContextsHeldOnce == Spec => []ContextHeldOnce
<1>1. ContextInv => ContextHeldOnce
  <2> SUFFICES ASSUME ContextInv PROVE ContextHeldOnce
    OBVIOUS
  <2>1. /\ Placed /\ Apart(Queued, Running, Replying, Orphaned, Finishing, claims)
        /\ inq \in Seq(Task) /\ count \in Nat
    BY DEF ContextInv, FlowInv, Placed, IInv, TypeOK, TypeQueue
  <2>2. IsFiniteSet(claims)
    <3>1. claims \in SUBSET (1..count) /\ IsFiniteSet(1..count)
      BY <2>1, FS_Interval DEF Placed
    <3>2. QED
      BY <3>1, FS_Subset
  <2>3. /\ IsFiniteSet(Queued) /\ IsFiniteSet(Running) /\ IsFiniteSet(Replying) /\ IsFiniteSet(Orphaned)
        /\ Cardinality(claims) =
             Cardinality(Queued) + Cardinality(Running) + Cardinality(Replying)
               + Cardinality(Orphaned) + Cardinality(Finishing)
    BY <2>1, <2>2, SizeOfParts
  <2>4. Len(inq) = Cardinality(Queued)
    <3> DEFINE f == [i \in 1..Len(inq) |-> inq[i]]
    <3>1. f \in [1..Len(inq) -> Queued] /\ Len(inq) \in Nat
      BY <2>1, LenProperties DEF Queued
    <3>2. \A i, j \in 1..Len(inq) : f[i] = f[j] => i = j
      BY <2>1 DEF Placed, Distinct
    <3>3. \A t \in Queued : \E i \in 1..Len(inq) : f[i] = t
      BY DEF Queued
    <3> HIDE DEF f
    <3>4. Cardinality(1..Len(inq)) = Cardinality(Queued)
      BY <2>3, <3>1, <3>2, <3>3, SameSize
    <3>5. \A n \in Nat : Cardinality(1..n) = n
      BY FS_Interval
    <3>6. QED
      BY <3>1, <3>4, <3>5
  <2>5. Cardinality(Busy) = Cardinality(Running)
    <3> DEFINE f == [p \in Busy |-> slot[p].ctx]
    <3>1. f \in [Busy -> Running]
      BY DEF Running
    <3>2. ASSUME NEW p \in Busy, NEW q \in Busy, slot[p].ctx = slot[q].ctx PROVE p = q
      <4> DEFINE j == [worker |-> p, task |-> slot[p].ctx]
                 k == [worker |-> q, task |-> slot[q].ctx]
      <4>1. j \in jobs /\ k \in jobs /\ j.task = k.task
        BY <3>2 DEF jobs
      <4>2. j = k
        BY <2>1, <4>1 DEF Placed
      <4>3. j.worker = p /\ k.worker = q
        OBVIOUS
      <4>4. QED
        BY <4>2, <4>3
    <3>3. \A p, q \in Busy : f[p] = f[q] => p = q
      BY <3>2
    <3>4. \A t \in Running : \E p \in Busy : f[p] = t
      BY DEF Running
    <3> HIDE DEF f
    <3>5. QED
      BY <2>3, <3>1, <3>3, <3>4, SameSize
  <2>6. Cardinality(reply_active) = Cardinality(Replying)
    <3> DEFINE f == [r \in reply_active |-> r.ctx]
    <3>1. f \in [reply_active -> Replying] /\ \A t \in Replying : \E r \in reply_active : f[r] = t
      BY DEF Replying
    <3>2. \A r, s \in reply_active : f[r] = f[s] => r = s
      BY <2>1 DEF Placed
    <3> HIDE DEF f
    <3>3. QED
      BY <2>3, <3>1, <3>2, SameSize
  <2>7. Cardinality(orphan) = Cardinality(Orphaned)
    <3> DEFINE f == [o \in orphan |-> o.ctx]
    <3>1. f \in [orphan -> Orphaned] /\ \A t \in Orphaned : \E o \in orphan : f[o] = t
      BY DEF Orphaned
    <3>2. \A o, n \in orphan : f[o] = f[n] => o = n
      BY <2>1 DEF Placed
    <3> HIDE DEF f
    <3>3. QED
      BY <2>3, <3>1, <3>2, SameSize
  <2>8. open \ {Fresh} = claims
    BY DEF claims
  <2>9. claims = Queued \cup Running \cup Replying \cup Orphaned \cup Finishing
    BY <2>1 DEF Apart
  <2>10. Cardinality(open \ {Fresh}) =
           Len(inq) + Cardinality(Busy) + Cardinality(reply_active)
             + Cardinality(orphan) + Cardinality(Finishing)
    BY <2>3, <2>4, <2>5, <2>6, <2>7, <2>8
  <2>11. QED
    BY <2>8, <2>9, <2>10 DEF ContextHeldOnce
<1>2. QED
  BY <1>1, ContextInvariance, PTL

\* When dispatch_shutdown closes the REP socket every context is closed, so that
\* nng_close does not wait for one.
THEOREM RepClosesAtOnce == Spec => []RepCloseNeverBlocks
<1>1. ContextInv => RepCloseNeverBlocks
  <2> SUFFICES ASSUME ContextInv, main = "closeRep" PROVE open = {}
    BY DEF RepCloseNeverBlocks
  <2>1. /\ \A p \in Pipes : slot[p].state = "NONE"
        /\ reply_active = {} /\ inq = <<>> /\ Fresh \notin open /\ orphan = {}
        /\ mtx = Free
    BY DEF ContextInv, FlowInv, Stages, AfterPoly, PipeCallbacksDone, InUse
  <2>2. Len(inq) = 0 /\ Busy = {}
    BY <2>1 DEF Busy
  <2>3. Queued = {} /\ Running = {} /\ Replying = {} /\ Orphaned = {} /\ Finishing = {}
    BY <2>1, <2>2 DEF Queued, Running, Replying, Orphaned, Finishing, Free
  <2>4. claims = {}
    BY <2>3 DEF ContextInv, Placed, Apart
  <2>5. QED
    BY <2>1, <2>4 DEF claims
<1>2. QED
  BY <1>1, ContextInvariance, PTL

-----------------------------------------------------------------------------
(* The bytes in the queue                                                    *)

sizes == [t \in Queued |-> header[t].len]

Sized ==
  /\ IsFiniteSet(Units(Queued, sizes))
  /\ main \notin {"closeRep", "freed"} => queued_bytes = SumOver(Queued, sizes)
  /\ queued_bytes <= peak_queued_bytes

\* How the queue changes, with the byte counts.
LEMMA BytesChanges ==
  ASSUME IInv, Next
  PROVE  \/ UNCHANGED <<inq, queued_bytes, peak_queued_bytes>>
            /\ (main \in {"closeRep", "freed"} => main' \in {"closeRep", "freed"})
         \/ /\ inq # <<>> /\ inq' = Tail(inq) /\ main' = main
            /\ Dequeue(Head(inq)) /\ UNCHANGED peak_queued_bytes
         \/ /\ \E i \in 1..Len(inq) : inq' = RemoveAt(inq, i) /\ Dequeue(inq[i])
            /\ UNCHANGED <<peak_queued_bytes, main>>
         \/ /\ \E h \in Header : header' = Append(header, h) /\ Enqueue(count + 1, h)
            /\ count + 1 \in Task /\ main' = main
         \/ /\ inq' = <<>> /\ main' = "closeRep"
            /\ UNCHANGED <<queued_bytes, peak_queued_bytes>>
<1> DEFINE Goal ==
         \/ UNCHANGED <<inq, queued_bytes, peak_queued_bytes>>
            /\ (main \in {"closeRep", "freed"} => main' \in {"closeRep", "freed"})
         \/ /\ inq # <<>> /\ inq' = Tail(inq) /\ main' = main
            /\ Dequeue(Head(inq)) /\ UNCHANGED peak_queued_bytes
         \/ /\ \E i \in 1..Len(inq) : inq' = RemoveAt(inq, i) /\ Dequeue(inq[i])
            /\ UNCHANGED <<peak_queued_bytes, main>>
         \/ /\ \E h \in Header : header' = Append(header, h) /\ Enqueue(count + 1, h)
            /\ count + 1 \in Task /\ main' = main
         \/ /\ inq' = <<>> /\ main' = "closeRep"
            /\ UNCHANGED <<queued_bytes, peak_queued_bytes>>
<1>1. ASSUME DrainStep PROVE Goal
  BY <1>1 DEF DrainStep, DrainDone
<1>2. ASSUME NEW h \in Headers(count + 1), HandleHostRecv(h) PROVE Goal
  <2>1. CASE UNCHANGED <<inq, queued_bytes, peak_queued_bytes>>
    BY <1>2, <2>1 DEF HandleHostRecv
  <2>2. CASE ~ UNCHANGED <<inq, queued_bytes, peak_queued_bytes>>
    <3>1. count < MaxTasks /\ header' = Append(header, h) /\ Enqueue(count + 1, h) /\ main' = main
      BY <1>2, <2>2 DEF HandleHostRecv
    <3>2. count + 1 \in Task /\ h \in Header
      BY <3>1, NewTask
    <3>3. QED
      BY <3>1, <3>2
  <2>3. QED
    BY <2>1, <2>2
<1>3. ASSUME NEW id \in CancelIds, CancelDirect(id) PROVE Goal
  BY <1>3 DEF CancelDirect, CancelInq
<1>4. ASSUME Shutdown PROVE Goal
  <2>1. CASE CloseQueue
    BY <2>1 DEF CloseQueue
  <2>2. CASE ~CloseQueue
    BY <1>4, <2>2 DEF Shutdown, StopHost, StopRecv, StopSig, ClosePoly, PolyClosed, FreeSenders,
         CloseReplies, CloseRep, RThreadOnly
  <2>3. QED
    BY <2>1, <2>2
<1>5. ASSUME UNCHANGED <<inq, queued_bytes, peak_queued_bytes>>,
             main \in {"closeRep", "freed"} => main' \in {"closeRep", "freed"}
      PROVE  Goal
  BY <1>5
<1> DEFINE Same == /\ UNCHANGED <<inq, queued_bytes, peak_queued_bytes>>
                   /\ main \in {"closeRep", "freed"} => main' \in {"closeRep", "freed"}
<1>6. ASSUME DrainEnd \/ RearmHost \/ SigCb \/ Freed PROVE Same
  BY <1>6 DEF DrainEnd, RearmHost, SigCb, Freed, vars
<1>7. ASSUME \/ \E q \in Pipes : HandleConnect(q) \/ InitCb(q) \/ HandleDisconnect(q)
             \/ \E o \in orphan : SendConnReset(o)
             \/ \E m \in arrived : HandleDaemonRecv(m)
      PROVE  Same
  BY <1>7 DEF HandleConnect, InitCb, HandleDisconnect, SendConnReset, HandleDaemonRecv
<1>8. ASSUME Gate \/ (\E n \in Targets : Wait(n)) \/ Recheck \/ Stop PROVE Same
  BY <1>8 DEF Gate, Wait, Recheck, RThreadOnly, Stop, Sleeping
<1>9. ASSUME Network PROVE Same
  BY <1>9 DEF Network, Route, DaemonTake, PipeDown, ReplySent, NetworkOnly
<1>10. ASSUME \/ \E q \in Pipes : PipeStart(q) \/ Crash(q)
              \/ \E q \in Pipes, marker \in Markers : DaemonReply(q, marker)
       PROVE  Same
  BY <1>10 DEF PipeStart, PipeDown, Crash, DaemonReply, NetworkOnly
<1> HIDE DEF Goal
<1>11. Goal
  BY <1>1, <1>2, <1>3, <1>4, <1>5, <1>6, <1>7, <1>8, <1>9, <1>10 DEF Next, Callback
<1>12. QED
  BY <1>11 DEF Goal

\* The number of bytes goes with the requests that join and leave the queue.
LEMMA SizedNext ==
  ASSUME ContextInv, Sized, Next
  PROVE  Sized'
<1>1. /\ IInv /\ Distinct(inq) /\ inq \in Seq(Task) /\ header \in Seq(Header) /\ Len(header) = count
      /\ count \in Nat /\ queued_bytes \in Int /\ peak_queued_bytes \in Int
      /\ \A i \in 1..Len(inq) : inq[i] <= count
  <2>1. IInv /\ Distinct(inq)
    BY DEF ContextInv, FlowInv, Placed
  <2>2. inq \in Seq(Task) /\ header \in Seq(Header) /\ count \in Nat
    BY <2>1, LockTypes DEF IInv, TypeOK, TypeQueue
  <2>3. queued_bytes \in Int /\ peak_queued_bytes \in Int
    BY <2>1 DEF IInv, TypeOK, TypeCounters
  <2>4. QED
    BY <2>1, <2>2, <2>3 DEF IInv, Linked
<1>2. \A t \in Queued : t \in 1..count /\ t \in Task /\ header[t].len \in Nat
                        /\ header'[t] = header[t]
  <2>1. SUFFICES ASSUME NEW t \in Queued
                 PROVE  t \in 1..count /\ t \in Task /\ header[t].len \in Nat /\ header'[t] = header[t]
    OBVIOUS
  <2>2. t \in Task /\ t \in 1..count
    <3>1. PICK i \in 1..Len(inq) : t = inq[i]
      BY DEF Queued
    <3>2. t \in Task /\ t <= count
      BY <1>1, <3>1, ElementOfSeq
    <3>3. \A n \in Task : n \in Nat /\ 1 <= n
      BY DispatcherAssumption DEF DispatcherAssumption, Task
    <3>4. count \in Nat
      BY <1>1
    <3>5. QED
      BY <3>2, <3>3, <3>4
  <2>3. header[t] \in Header
    BY <1>1, <2>2, ElementOfSeq
  <2>4. header'[t] = header[t]
    BY <1>1, <2>2, HeaderStays
  <2>5. QED
    BY <2>2, <2>3, <2>4 DEF Header
<1>3. Queued = Elements(inq) /\ Queued' = Elements(inq')
  BY DEF Queued, Elements
\* what the requests that stay in the queue add up to
<1>4. ASSUME NEW S \in SUBSET Queued, S \subseteq Queued'
      PROVE  Units(S, sizes') = Units(S, sizes) /\ SumOver(S, sizes') = SumOver(S, sizes)
  <2>1. \A t \in S : sizes'[t] = sizes[t]
    BY <1>2, <1>4 DEF sizes
  <2>2. QED
    BY <2>1, SumOfSame
<1>5. CASE UNCHANGED <<inq, queued_bytes, peak_queued_bytes>>
           /\ (main \in {"closeRep", "freed"} => main' \in {"closeRep", "freed"})
  <2>1. Queued' = Queued
    BY <1>5 DEF Queued
  <2>2. Units(Queued', sizes') = Units(Queued, sizes) /\ SumOver(Queued', sizes') = SumOver(Queued, sizes)
    BY <1>4, <2>1
  <2>3. QED
    BY <1>5, <2>2 DEF Sized
\* a request leaves the queue
<1>6. ASSUME NEW t \in Queued, Queued' = Queued \ {t}, Dequeue(t), UNCHANGED <<peak_queued_bytes, main>>
      PROVE  Sized'
  <2>1. sizes[t] = header[t].len /\ sizes[t] \in Nat
    BY <1>2 DEF sizes
  <2>2. /\ IsFiniteSet(Units(Queued \ {t}, sizes))
        /\ SumOver(Queued \ {t}, sizes) = SumOver(Queued, sizes) - sizes[t]
    BY <2>1, SumWithOneLess DEF Sized
  <2>3. /\ Units(Queued', sizes') = Units(Queued \ {t}, sizes)
        /\ SumOver(Queued', sizes') = SumOver(Queued \ {t}, sizes)
    BY <1>4, <1>6
  <2>4. queued_bytes' = queued_bytes - sizes[t]
    BY <1>6, <2>1 DEF Dequeue
  <2>5. QED
    BY <1>1, <1>6, <2>1, <2>2, <2>3, <2>4 DEF Sized
<1>7. CASE /\ inq # <<>> /\ inq' = Tail(inq) /\ main' = main
           /\ Dequeue(Head(inq)) /\ UNCHANGED peak_queued_bytes
  <2>1. Head(inq) \in Queued /\ Queued' = Queued \ {Head(inq)}
    BY <1>1, <1>3, <1>7, QueueMoves
  <2>2. QED
    BY <1>6, <1>7, <2>1
<1>8. ASSUME NEW i \in 1..Len(inq), inq' = RemoveAt(inq, i), Dequeue(inq[i]),
             UNCHANGED <<peak_queued_bytes, main>>
      PROVE  Sized'
  <2>1. inq[i] \in Queued /\ Queued' = Queued \ {inq[i]}
    BY <1>1, <1>3, <1>8, QueueMoves DEF Queued
  <2>2. QED
    BY <1>6, <1>8, <2>1
\* a request joins it
<1>9. ASSUME NEW h \in Header, header' = Append(header, h), Enqueue(count + 1, h),
             count + 1 \in Task, main' = main
      PROVE  Sized'
  <2> DEFINE t == count + 1
  <2>1. t \notin Queued /\ t \in Task
    BY <1>1, <1>2, <1>9
  <2>2. inq' = Append(inq, t) /\ Queued' = Queued \cup {t}
    <3>1. inq' = Append(inq, t)
      BY <1>9 DEF Enqueue
    <3>2. QED
      BY <1>1, <1>3, <2>1, <3>1, QueueMoves
  <2>3. header'[t] = h /\ h.len \in Nat
    BY <1>1, <1>9, AppendProperties DEF Header
  <2>4. sizes'[t] = h.len /\ sizes'[t] \in Nat
    BY <2>2, <2>3 DEF sizes
  <2>5. /\ queued_bytes' = queued_bytes + h.len
        /\ peak_queued_bytes' = IF queued_bytes' > peak_queued_bytes
                                THEN queued_bytes' ELSE peak_queued_bytes
    BY <1>9 DEF Enqueue
  <2> HIDE DEF t
  <2>6. Units(Queued, sizes') = Units(Queued, sizes) /\ SumOver(Queued, sizes') = SumOver(Queued, sizes)
    BY <1>4, <2>2
  <2>7. /\ IsFiniteSet(Units(Queued \cup {t}, sizes'))
        /\ SumOver(Queued \cup {t}, sizes') = SumOver(Queued, sizes') + sizes'[t]
    BY <2>1, <2>4, <2>6, SumWithOneMore DEF Sized
  <2>8. QED
    BY <1>1, <1>9, <2>2, <2>4, <2>5, <2>6, <2>7 DEF Sized
\* dispatch_shutdown has emptied it
<1>10. CASE inq' = <<>> /\ main' = "closeRep" /\ UNCHANGED <<queued_bytes, peak_queued_bytes>>
  <2>1. Queued' = {}
    BY <1>10, EmptySeq DEF Queued
  <2>2. Units(Queued', sizes') = {}
    BY <2>1 DEF Units
  <2>3. QED
    BY <1>10, <2>2, FS_EmptySet DEF Sized
<1>11. QED
  BY <1>1, <1>5, <1>7, <1>8, <1>9, <1>10, BytesChanges

\* d->queued_bytes, which the gate compares with its budget, is the size of the
\* messages in the queue and never above the recorded peak, after any sequence of
\* enqueues, drains and cancellations, for requests of any sizes.
THEOREM QueuedBytesAreExact == Spec => []QueuedBytesExact
<1>1. Init => ContextInv /\ Sized
  <2> SUFFICES ASSUME Init PROVE Sized
    BY InitFlowInv, InitPlaced DEF ContextInv
  <2>1. Queued = {} /\ queued_bytes = 0 /\ peak_queued_bytes = 0
    BY EmptySeq DEF Init, Queued
  <2>2. Units(Queued, sizes) = {}
    BY <2>1 DEF Units
  <2>3. QED
    BY <2>1, <2>2, FS_EmptySet DEF Sized, SumOver
<1>2. ContextInv /\ Sized /\ [Next]_vars => (ContextInv /\ Sized)'
  <2>1. ASSUME ContextInv, Sized, UNCHANGED vars PROVE Sized'
    <3>1. UNCHANGED <<inq, header, main, queued_bytes, peak_queued_bytes>>
      BY <2>1 DEF vars
    <3>2. Queued' = Queued /\ sizes' = sizes
      BY <3>1 DEF Queued, sizes
    <3>3. QED
      BY <2>1, <3>1, <3>2 DEF Sized
  <2>2. QED
    BY <2>1, NextContextInv, SizedNext
<1>3. ContextInv /\ Sized => QueuedBytesExact
  BY DEF Sized, QueuedBytesExact, Intact, sizes
<1>4. QED
  BY <1>1, <1>2, <1>3, PTL DEF Spec

-----------------------------------------------------------------------------
(* The answers                                                               *)

\* The host has the answer of a task whose reply was sent, and of no other task
\* that has a context.  A disconnect closes a context only after the stop.
Told ==
  /\ \A r \in reply_active : /\ r.msg # NoAnswer
                             /\ r.busy => answers[r.ctx] = NoAnswer
                             /\ ~r.busy => answers[r.ctx] = r.msg
  /\ \A e \in ending : e.msg # NoAnswer
  /\ \A t \in claims \ Replying : answers[t] = NoAnswer
  /\ \A t \in Task : t > count => answers[t] = NoAnswer
  /\ \A o \in orphan : o.close => stopped

\* Sending a reply closes only the contexts of tasks that were answered.
LEMMA RepliesTold ==
  ASSUME IInv, Placed, Told, NEW t \in claims, t \notin Replying,
         NEW m, m # NoAnswer, Replies(t, m), UNCHANGED answers
  PROVE  /\ \A r \in reply_active' : /\ r.msg # NoAnswer
                                     /\ r.busy => answers'[r.ctx] = NoAnswer
                                     /\ ~r.busy => answers'[r.ctx] = r.msg
         /\ \A x \in claims' \ Replying' : answers'[x] = NoAnswer
         /\ \A x \in claims \ claims' : MayFail \/ answers[x] # NoAnswer
<1>1. answers[t] = NoAnswer
  BY DEF Told
<1>2. \/ \E C \in SUBSET Replying : Replying' = (Replying \ C) \cup {t} /\ claims' = claims \ C
      \/ Replying' = Replying /\ claims' = claims \ {t}
  BY RepliesMoves
<1>3. claims' \ Replying' \subseteq claims \ Replying
  BY <1>2
<1>4. \A x \in claims' \ Replying' : answers'[x] = NoAnswer
  BY <1>3 DEF Told
<1>5. CASE /\ reply_active' = {r \in reply_active : r.busy} \cup {[ctx |-> t, msg |-> m, busy |-> TRUE]}
           /\ claims' = claims \ {r.ctx : r \in {r \in reply_active : ~r.busy}}
  <2> DEFINE new == [ctx |-> t, msg |-> m, busy |-> TRUE]
  <2>1. new.ctx = t /\ new.msg = m /\ new.busy
    OBVIOUS
  <2>2. \A r \in reply_active' : r = new \/ r \in reply_active
    BY <1>5
  <2> HIDE DEF new
  <2>3. \A r \in reply_active' : /\ r.msg # NoAnswer
                                 /\ r.busy => answers'[r.ctx] = NoAnswer
                                 /\ ~r.busy => answers'[r.ctx] = r.msg
    BY <1>1, <2>1, <2>2 DEF Told
  <2>4. \A x \in claims \ claims' : answers[x] # NoAnswer
    BY <1>5 DEF Told
  <2>5. QED
    BY <1>4, <2>3, <2>4
<1>6. CASE MayFail /\ claims' = claims \ {t} /\ UNCHANGED reply_active
  BY <1>4, <1>6 DEF Told
<1>7. QED
  BY <1>5, <1>6 DEF Replies

LEMMA Claimed ==
  ASSUME IInv, Placed
  PROVE  /\ \A t \in Queued \cup Running \cup Orphaned \cup Finishing : t \in claims /\ t \notin Replying
         /\ \A t \in claims : t \in Task /\ t \in Nat /\ t # Fresh
         /\ \A j \in jobs : j.task \in Running
         /\ \A o \in orphan : o.ctx \in Orphaned
         /\ mtx.ctx # Fresh => mtx.ctx \in Finishing
<1>1. /\ claims \subseteq 1..count /\ count \in Nat /\ count <= MaxTasks /\ MaxTasks \in Nat
      /\ Apart(Queued, Running, Replying, Orphaned, Finishing, claims)
  BY DispatcherAssumption DEF Placed, IInv, TypeOK, TypeQueue, DispatcherAssumption
<1>2. \A t \in Queued \cup Running \cup Orphaned \cup Finishing : t \in claims /\ t \notin Replying
  BY <1>1 DEF Apart
<1>3. \A t \in claims : t \in Task /\ t \in Nat /\ t # Fresh
  BY <1>1 DEF Task, Fresh
<1>4. \A j \in jobs : j.task \in Running
  BY Names
<1>5. (\A o \in orphan : o.ctx \in Orphaned) /\ (mtx.ctx # Fresh => mtx.ctx \in Finishing)
  BY DEF Orphaned, Finishing
<1>6. QED
  BY <1>2, <1>3, <1>4, <1>5

LEMMA ToldNext ==
  ASSUME IInv, Placed, Told, Move, Placed', stopped => stopped'
  PROVE  Told'
<1> DEFINE Goal == Told'
<1>1. /\ answers \in [Task -> Int] /\ count \in Nat
      /\ \A r \in reply_active : r \in [ctx : Task, msg : Int, busy : BOOLEAN]
  BY DEF IInv, TypeOK, TypeQueue, TypeHistory, TypeContexts
<1>2. /\ UNCHANGED reply_active => UNCHANGED Replying
      /\ Apart(Queued, Running, Replying, Orphaned, Finishing, claims)
  BY DEF Replying, Placed
<1>3. /\ \A r \in reply_active : /\ r.msg # NoAnswer
                                 /\ r.busy => answers[r.ctx] = NoAnswer
                                 /\ ~r.busy => answers[r.ctx] = r.msg
      /\ \A e \in ending : e.msg # NoAnswer
      /\ \A t \in claims \ Replying : answers[t] = NoAnswer
      /\ \A t \in Task : t > count => answers[t] = NoAnswer
      /\ \A o \in orphan : o.close => stopped'
  BY DEF Told
<1>4. ASSUME UNCHANGED <<reply_active, answers, count>>,
             claims' \subseteq claims,
             \A e \in ending' : e.msg # NoAnswer,
             \A o \in orphan' : o.close => stopped'
      PROVE  Goal
  BY <1>2, <1>3, <1>4 DEF Told
<1>5. ASSUME NEW t \in claims \ Replying, NEW m, m # NoAnswer, Replies(t, m),
             UNCHANGED <<answers, count>>,
             ending' \subseteq ending, orphan' \subseteq orphan
      PROVE  Goal
  <2>1. /\ \A r \in reply_active' : /\ r.msg # NoAnswer
                                    /\ r.busy => answers'[r.ctx] = NoAnswer
                                    /\ ~r.busy => answers'[r.ctx] = r.msg
        /\ \A x \in claims' \ Replying' : answers'[x] = NoAnswer
    BY <1>5, RepliesTold
  <2>2. QED
    BY <1>3, <1>5, <2>1 DEF Told
<1>6. ASSUME Stays PROVE Goal
  BY <1>3, <1>4, <1>6 DEF Stays
<1>7. ASSUME Arrives PROVE Goal
  <2>1. /\ count' = count + 1 /\ claims' = claims \cup {count + 1} /\ count < MaxTasks
        /\ UNCHANGED <<reply_active, orphan, ending, answers>>
    BY <1>7 DEF Arrives
  <2>2. answers[count + 1] = NoAnswer
    BY <1>1, <1>3, <2>1, DispatcherAssumption DEF DispatcherAssumption, Task
  <2>3. \A t \in Task : t > count' => t > count
    BY <1>1, <2>1 DEF Task
  <2>4. QED
    BY <1>2, <1>3, <2>1, <2>2, <2>3 DEF Told
<1>8. ASSUME Starts \/ Cancelled \/ Drops PROVE Goal
  <2>1. UNCHANGED <<orphan, ending, answers, count>> /\ claims' \subseteq claims
    BY <1>8 DEF Starts, Cancelled, Drops
  <2>2. CASE UNCHANGED reply_active
    BY <1>3, <1>4, <2>1, <2>2
  <2>3. CASE reply_active' = {} /\ claims' = claims \ Replying
    <3>1. claims' \ Replying' \subseteq claims \ Replying
      BY <2>3
    <3>2. QED
      BY <1>3, <2>1, <2>3, <3>1 DEF Told
  <2>4. QED
    BY <1>8, <2>2, <2>3 DEF Starts, Cancelled, Drops
<1>9. ASSUME NEW j \in jobs, Returns(j) PROVE Goal
  <2>1. /\ ending' = {[task |-> j.task, msg |-> j.task]}
        /\ UNCHANGED <<reply_active, orphan, claims, count, answers>>
    BY <1>9 DEF Returns
  <2>2. j.task # NoAnswer
    BY Claimed DEF NoAnswer
  <2>3. \A e \in ending' : e.msg # NoAnswer
    BY <2>1, <2>2
  <2>4. QED
    BY <1>3, <1>4, <2>1, <2>3
<1>10. ASSUME NEW j \in jobs, Leaves(j) PROVE Goal
  <2>1. Replies(j.task, j.task) /\ UNCHANGED <<orphan, ending, count, answers>>
    BY <1>10 DEF Leaves
  <2>2. j.task \in claims \ Replying /\ j.task # NoAnswer
    BY Claimed DEF NoAnswer
  <2>3. QED
    BY <1>5, <2>1, <2>2
<1>11. ASSUME NEW j \in jobs, Loses(j) PROVE Goal
  <2>1. /\ orphan' = orphan \cup {[ctx |-> j.task, close |-> stopped]}
        /\ UNCHANGED <<reply_active, ending, claims, count, answers>>
    BY <1>11 DEF Loses
  <2>2. \A o \in orphan' : o.close => stopped'
    BY <1>3, <2>1
  <2>3. QED
    BY <1>3, <1>4, <2>1, <2>2
<1>12. ASSUME NEW o \in orphan, Resets(o) PROVE Goal
  <2>1. /\ orphan' = orphan \ {o} /\ UNCHANGED <<ending, count, answers>>
        /\ Replies(o.ctx, ConnReset) \/ (claims' = claims \ {o.ctx} /\ UNCHANGED reply_active)
    BY <1>12 DEF Resets
  <2>2. o.ctx \in claims \ Replying /\ ConnReset # NoAnswer
    BY Claimed DEF NoAnswer, ConnReset
  <2>3. QED
    BY <1>3, <1>4, <1>5, <2>1, <2>2
<1>13. ASSUME Ends PROVE Goal
  <2>1. /\ mtx.ctx # Fresh /\ Replies(mtx.ctx, mtx.msg) /\ ending' = {}
        /\ UNCHANGED <<orphan, count, answers>>
    BY <1>13 DEF Ends
  <2>2. mtx.ctx \in claims \ Replying
    BY <2>1, Claimed
  <2>3. mtx.msg # NoAnswer
    <3>1. [task |-> mtx.ctx, msg |-> mtx.msg] \in ending
      BY <2>1 DEF ending
    <3>2. QED
      BY <1>3, <3>1
  <2>4. QED
    BY <1>5, <2>1, <2>2, <2>3
<1>14. ASSUME NEW r \in reply_active, Delivers(r) PROVE Goal
  <2> DEFINE s == [r EXCEPT !.busy = FALSE]
  <2>1. /\ reply_active' = (reply_active \ {r}) \cup {s} /\ r.busy
        /\ answers' = [answers EXCEPT ![r.ctx] = r.msg]
        /\ UNCHANGED <<orphan, ending, claims, count>>
    BY <1>14 DEF Delivers
  <2>2. s.ctx = r.ctx /\ s.msg = r.msg /\ ~s.busy /\ r.ctx \in Task /\ r.ctx \in Replying
    BY <1>1 DEF Replying
  <2> HIDE DEF s
  <2>3. \A t \in Task : answers'[t] = IF t = r.ctx THEN r.msg ELSE answers[t]
    BY <1>1, <2>1
  <2>4. \A q \in reply_active : q # r => q.ctx # r.ctx /\ q.ctx \in Task
    BY <1>1 DEF Placed
  <2>5. \A q \in reply_active' : /\ q.msg # NoAnswer
                                 /\ q.busy => answers'[q.ctx] = NoAnswer
                                 /\ ~q.busy => answers'[q.ctx] = q.msg
    BY <1>3, <2>1, <2>2, <2>3, <2>4
  <2>6. \A t \in claims \ Replying : t # r.ctx /\ t \in Task
    BY <2>2, Claimed
  <2>7. Replying' = Replying
    BY <2>1, <2>2 DEF Replying
  <2>8. r.ctx <= count /\ \A t \in Task : t > count => t # r.ctx
    BY <1>1, <1>2, <2>2 DEF Placed, Apart, Task
  <2>9. \A t \in Task : t > count' => answers'[t] = NoAnswer
    BY <1>3, <2>1, <2>3, <2>8
  <2>10. \A t \in claims' \ Replying' : answers'[t] = NoAnswer
    BY <1>3, <2>1, <2>3, <2>6, <2>7
  <2>11. QED
    BY <1>3, <2>1, <2>5, <2>9, <2>10 DEF Told
<1>15. QED
  BY <1>6, <1>7, <1>8, <1>9, <1>10, <1>11, <1>12, <1>13, <1>14 DEF Move

\* A context is closed when its task was answered or cancelled, when a reply
\* could not be allocated, or in the shutdown; and the host keeps its answers.
LEMMA ClaimsClosed ==
  ASSUME IInv, Placed, Told, Move
  PROVE  /\ \A t \in claims \ claims' :
              \/ answers[t] # NoAnswer \/ MayFail \/ stopped
              \/ t \in Queued /\ header[t].msgid \in CancelIds /\ cancels'[header[t].msgid] > 0
         /\ \A t \in Task : answers[t] # NoAnswer => answers'[t] # NoAnswer
         /\ \A t \in 1..count' : t \in 1..count \/ t \in claims'
<1> DEFINE Goal ==
         /\ \A t \in claims \ claims' :
              \/ answers[t] # NoAnswer \/ MayFail \/ stopped
              \/ t \in Queued /\ header[t].msgid \in CancelIds /\ cancels'[header[t].msgid] > 0
         /\ \A t \in Task : answers[t] # NoAnswer => answers'[t] # NoAnswer
         /\ \A t \in 1..count' : t \in 1..count \/ t \in claims'
<1>1. count \in Nat /\ answers \in [Task -> Int]
  BY DEF IInv, TypeOK, TypeQueue, TypeHistory
<1>2. ASSUME NEW t \in claims \ Replying, NEW m, m # NoAnswer, Replies(t, m),
             UNCHANGED <<answers, count>>
      PROVE  Goal
  <2>1. \A x \in claims \ claims' : MayFail \/ answers[x] # NoAnswer
    BY <1>2, RepliesTold
  <2>2. QED
    BY <1>2, <2>1
<1>3. ASSUME UNCHANGED <<answers, count>>, claims \subseteq claims' \/ stopped PROVE Goal
  BY <1>3
<1>4. ASSUME Stays \/ Starts \/ Drops PROVE Goal
  BY <1>3, <1>4 DEF Stays, Starts, Drops
<1>5. ASSUME Arrives PROVE Goal
  BY <1>1, <1>5 DEF Arrives
<1>6. ASSUME Cancelled PROVE Goal
  BY <1>6 DEF Cancelled, Queued
<1>7. ASSUME NEW j \in jobs, Returns(j) \/ Loses(j) PROVE Goal
  BY <1>3, <1>7 DEF Returns, Loses
<1>8. ASSUME NEW j \in jobs, Leaves(j) PROVE Goal
  <2>1. Replies(j.task, j.task) /\ UNCHANGED <<count, answers>>
    BY <1>8 DEF Leaves
  <2>2. j.task \in claims \ Replying /\ j.task # NoAnswer
    BY Claimed DEF NoAnswer
  <2>3. QED
    BY <1>2, <2>1, <2>2
<1>9. ASSUME NEW o \in orphan, Resets(o) PROVE Goal
  <2>1. /\ UNCHANGED <<count, answers>>
        /\ \/ Replies(o.ctx, ConnReset)
           \/ (o.close \/ MayFail) /\ claims' = claims \ {o.ctx}
    BY <1>9 DEF Resets
  <2>2. o.ctx \in claims \ Replying /\ ConnReset # NoAnswer
    BY Claimed DEF NoAnswer, ConnReset
  <2>3. o.close => stopped
    BY DEF Told
  <2>4. QED
    BY <1>2, <2>1, <2>2, <2>3
<1>10. ASSUME Ends PROVE Goal
  <2>1. mtx.ctx # Fresh /\ Replies(mtx.ctx, mtx.msg) /\ UNCHANGED <<count, answers>>
    BY <1>10 DEF Ends
  <2>2. mtx.ctx \in claims \ Replying
    BY <2>1, Claimed
  <2>3. [task |-> mtx.ctx, msg |-> mtx.msg] \in ending
    BY <2>1 DEF ending
  <2>4. mtx.msg # NoAnswer
    BY <2>3 DEF Told
  <2>5. QED
    BY <1>2, <2>1, <2>2, <2>4
<1>11. ASSUME NEW r \in reply_active, Delivers(r) PROVE Goal
  BY <1>1, <1>11 DEF Delivers, Told
<1>12. QED
  BY <1>4, <1>5, <1>6, <1>7, <1>8, <1>9, <1>10, <1>11 DEF Move

\* The number of cancellations only grows.
LEMMA CancelsGrow ==
  ASSUME IInv, Next, NEW id \in CancelIds, cancels[id] > 0
  PROVE  cancels'[id] > 0
<1>1. cancels \in [CancelIds -> Nat]
  BY DEF IInv, TypeOK, TypeHistory
<1>2. ASSUME NEW d \in CancelIds, CancelDirect(d) PROVE cancels'[id] > 0
  <2>1. cancels' = [cancels EXCEPT ![d] = @ + 1]
    BY <1>2 DEF CancelDirect
  <2>2. QED
    BY <1>1, <2>1
<1>3. ASSUME UNCHANGED cancels PROVE cancels'[id] > 0
  BY <1>3
<1>4. Callback => UNCHANGED cancels
  BY DEF Callback, DrainStep, DrainEnd, HandleConnect, InitCb, HandleDisconnect, SendConnReset,
         RearmHost, HandleDaemonRecv, SigCb
<1>5. Shutdown => UNCHANGED cancels
  BY DEF Shutdown, StopHost, StopRecv, StopSig, ClosePoly, PolyClosed, FreeSenders, CloseReplies,
         CloseQueue, CloseRep, RThreadOnly
<1>6. Network \/ (\E p \in Pipes : PipeStart(p) \/ Crash(p))
        \/ (\E p \in Pipes, marker \in Markers : DaemonReply(p, marker)) => UNCHANGED cancels
  BY DEF Network, Route, DaemonTake, ReplySent, PipeStart, Crash, PipeDown, DaemonReply, NetworkOnly
<1>7. (\E h \in Headers(count + 1) : HandleHostRecv(h)) \/ Gate \/ (\E n \in Targets : Wait(n))
        \/ Recheck \/ Stop \/ Freed => UNCHANGED cancels
  BY DEF HandleHostRecv, Gate, Wait, Recheck, RThreadOnly, Stop, Freed, vars
<1>8. QED
  BY <1>2, <1>3, <1>4, <1>5, <1>6, <1>7 DEF Next

\* The host numbers its requests.
Numbered == \A t \in 1..count : header[t].msgid = t

LEMMA NumberedNext ==
  ASSUME IInv, Numbered, Move, Next
  PROVE  Numbered'
<1>1. /\ header \in Seq(Header) /\ count \in Nat /\ count' \in Nat /\ Len(header) = count
      /\ \A t \in 1..count : header'[t] = header[t]
  BY HeaderStays DEF IInv, TypeOK, TypeQueue, Linked
<1>2. CASE count' = count
  BY <1>1, <1>2 DEF Numbered
<1>3. CASE Arrives
  <2>1. PICK h \in Header : h.msgid = count + 1 /\ header' = Append(header, h)
    BY <1>3 DEF Arrives
  <2>2. header'[count + 1] = h
    BY <1>1, <2>1, AppendElements
  <2>3. \A t \in 1..count' : t \in 1..count \/ t = count + 1
    BY <1>1, <1>3 DEF Arrives
  <2>4. QED
    BY <1>1, <2>1, <2>2, <2>3 DEF Numbered
<1>4. QED
  BY <1>2, <1>3 DEF Move, Stays, Starts, Cancelled, Returns, Leaves, Loses, Resets, Ends, Delivers, Drops

AnswersInv == ContextInv /\ Told /\ Numbered /\ NoRequestAbandoned

LEMMA AbandonedNext ==
  ASSUME AnswersInv, Next, Move, stopped => stopped'
  PROVE  NoRequestAbandoned'
<1> SUFFICES ASSUME ~stopped', ~MayFail, NEW t \in 1..count'
             PROVE  \/ t \in open'
                    \/ answers'[t] # NoAnswer
                    \/ t \in CancelIds /\ cancels'[t] > 0
  BY DEF NoRequestAbandoned
<1>1. IInv /\ Placed /\ Told /\ Numbered /\ ~stopped
  BY DEF AnswersInv, ContextInv, FlowInv
<1>2. t \in claims' => t \in open'
  BY DEF claims
<1>3. /\ \A x \in claims \ claims' :
           \/ answers[x] # NoAnswer
           \/ x \in Queued /\ header[x].msgid \in CancelIds /\ cancels'[header[x].msgid] > 0
      /\ \A x \in Task : answers[x] # NoAnswer => answers'[x] # NoAnswer
      /\ \A x \in 1..count' : x \in 1..count \/ x \in claims'
  BY <1>1, ClaimsClosed, Zenon
<1>4. \A x \in 1..count : x \in open \/ answers[x] # NoAnswer \/ (x \in CancelIds /\ cancels[x] > 0)
  BY <1>1, Zenon DEF AnswersInv, NoRequestAbandoned
<1>5. ASSUME t \in 1..count
      PROVE  \/ t \in open' \/ answers'[t] # NoAnswer \/ (t \in CancelIds /\ cancels'[t] > 0)
  <2>1. t \in open \/ answers[t] # NoAnswer \/ (t \in CancelIds /\ cancels[t] > 0)
    BY <1>5, <1>4
  <2>2. count \in Nat /\ count <= MaxTasks /\ MaxTasks \in Nat
    BY <1>1, DispatcherAssumption DEF IInv, TypeOK, TypeQueue, DispatcherAssumption
  <2>3. t \in Task /\ t # Fresh
    BY <1>5, <2>2 DEF Task, Fresh
  <2>4. CASE t \in open
    <3>1. t \in claims
      BY <2>3, <2>4 DEF claims
    <3>2. header[t].msgid = t
      BY <1>1, <1>5 DEF Numbered
    <3>3. t \in claims' \/ answers[t] # NoAnswer \/ (t \in CancelIds /\ cancels'[t] > 0)
      BY <1>3, <3>1, <3>2
    <3>4. QED
      BY <1>2, <1>3, <2>3, <3>3
  <2>5. CASE answers[t] # NoAnswer
    BY <1>3, <2>3, <2>5
  <2>6. CASE t \in CancelIds /\ cancels[t] > 0
    BY <1>1, <2>6, CancelsGrow
  <2>7. QED
    BY <2>1, <2>4, <2>5, <2>6
<1>6. QED
  BY <1>2, <1>5, <1>3

LEMMA NextAnswersInv == AnswersInv /\ [Next]_vars => AnswersInv'
<1>1. ASSUME AnswersInv, Next PROVE AnswersInv'
  <2>1. IInv /\ Stages /\ Flow /\ Placed /\ Told /\ Numbered
    BY <1>1 DEF AnswersInv, ContextInv, FlowInv
  <2>2. ContextInv' /\ Placed'
    BY <1>1, NextContextInv DEF AnswersInv, ContextInv
  <2>3. Move /\ (stopped => stopped')
    BY <1>1, <2>1, Moves, ControlMoves
  <2>4. Told' /\ Numbered' /\ NoRequestAbandoned'
    BY <1>1, <2>1, <2>2, <2>3, ToldNext, NumberedNext, AbandonedNext
  <2>5. QED
    BY <2>2, <2>4 DEF AnswersInv
<1>2. ASSUME AnswersInv, UNCHANGED vars PROVE AnswersInv'
  <2>1. ContextInv'
    BY <1>2, NextContextInv DEF AnswersInv
  <2>2. UNCHANGED <<claims, Replying, ending>>
    BY <1>2 DEF vars, claims, Replying, ending
  <2>3. Told' /\ Numbered' /\ NoRequestAbandoned'
    BY <1>2, <2>2 DEF AnswersInv, vars, Told, Numbered, NoRequestAbandoned
  <2>4. QED
    BY <2>1, <2>3 DEF AnswersInv
<1>3. QED
  BY <1>1, <1>2

LEMMA InitAnswersInv == Init => AnswersInv
<1> SUFFICES ASSUME Init PROVE AnswersInv
  OBVIOUS
<1>1. ContextInv
  BY InitFlowInv, InitPlaced DEF ContextInv
<1>2. reply_active = {} /\ orphan = {} /\ ending = {} /\ claims = {} /\ count = 0
  BY DEF Init, ending, Free, claims
<1>3. \A t \in Task : answers[t] = NoAnswer
  BY DEF Init
<1>4. Told
  BY <1>2, <1>3 DEF Told
<1>5. 1..count = {}
  BY <1>2
<1>6. QED
  BY <1>1, <1>4, <1>5 DEF AnswersInv, Numbered, NoRequestAbandoned

\* While dispatch_reply_send's message is on its way the host has no answer to
\* that request, a request that was not settled has none either, and one is given
\* up unanswered only for a cancellation, for want of memory or by the stop.
THEOREM AnswersInvariance == Spec => []AnswersInv
<1>1. Init => AnswersInv
  BY InitAnswersInv
<1>2. AnswersInv /\ [Next]_vars => AnswersInv'
  BY NextAnswersInv
<1>3. QED
  BY <1>1, <1>2, PTL DEF Spec

\* A request is answered, or its context closed without an answer, only when it
\* was cancelled or the dispatcher stopped (when memory does not run out).
THEOREM NoneAbandoned == Spec => []NoRequestAbandoned
<1>1. AnswersInv => NoRequestAbandoned
  BY DEF AnswersInv
<1>2. QED
  BY <1>1, AnswersInvariance, PTL

-----------------------------------------------------------------------------
(* The task pool                                                             *)

sent == {[task |-> r.ctx, msg |-> r.msg] : r \in {a \in reply_active : a.busy}}
lost == {[task |-> o.ctx, msg |-> ConnReset] : o \in orphan}

\* The answers on their way to the host.
onway == sent \cup lost \cup ending

\* The pool's running tasks and answers, as ImplementsPool maps them.
LEMMA PoolState ==
  /\ {[task |-> r.ctx, msg |-> r.msg] : r \in {a \in reply_active : a.busy}}
       \cup {[task |-> o.ctx, msg |-> ConnReset] : o \in orphan}
       \cup {[task |-> t, msg |-> mtx.msg] : t \in Finishing} = onway
  /\ ({[task |-> r.ctx, msg |-> r.msg] : r \in {a \in reply_active : a.busy}}
       \cup {[task |-> o.ctx, msg |-> ConnReset] : o \in orphan}
       \cup {[task |-> t, msg |-> mtx.msg] : t \in Finishing})' = onway'
  /\ {[worker |-> p, task |-> slot[p].ctx] : p \in Busy} = jobs
  /\ {[worker |-> p, task |-> slot[p].ctx] : p \in Busy}' = jobs'
<1>1. \A t, m : {[task |-> x, msg |-> m] : x \in {t}} = {[task |-> t, msg |-> m]}
  OBVIOUS
<1>2. ending = {[task |-> t, msg |-> mtx.msg] : t \in Finishing}
  BY <1>1 DEF ending, Finishing
<1>3. ending' = {[task |-> t, msg |-> mtx'.msg] : t \in Finishing'}
  BY <1>1 DEF ending, Finishing
<1>4. QED
  BY <1>2, <1>3 DEF onway, sent, lost, jobs

LEMMA PoolRests ==
  ASSUME UNCHANGED <<count, inq, jobs, onway, answers, stopped>>
  PROVE  UNCHANGED Pool!vars
  BY PoolState DEF Pool!vars

LEMMA PoolShut ==
  ASSUME ~stopped, stopped' = TRUE, UNCHANGED <<count, inq, jobs, onway, answers>>
  PROVE  Pool!Next
<1>1. Pool!Shut
  BY PoolState DEF Pool!Shut
<1>2. QED
  BY <1>1 DEF Pool!Next

LEMMA PoolArrives ==
  ASSUME ~stopped, count < MaxTasks, count' = count + 1,
         \/ inq' = Append(inq, count + 1) /\ UNCHANGED jobs
         \/ /\ inq = <<>>
            /\ \E p \in Pipes : /\ \A j \in jobs : j.worker # p
                                /\ jobs' = jobs \cup {[worker |-> p, task |-> count + 1]}
            /\ UNCHANGED inq,
         UNCHANGED <<onway, answers, stopped>>
  PROVE  Pool!Next
<1>1. Pool!Arrive
  BY PoolState DEF Pool!Arrive, Pool!Unoccupied
<1>2. QED
  BY <1>1 DEF Pool!Next

LEMMA PoolStarts ==
  ASSUME ~stopped, inq # <<>>, inq' = Tail(inq), UNCHANGED <<count, onway, answers, stopped>>,
         NEW p \in Pipes, \A j \in jobs : j.worker # p,
         jobs' = jobs \cup {[worker |-> p, task |-> Head(inq)]}
  PROVE  Pool!Next
<1>1. Pool!Start(p)
  BY PoolState DEF Pool!Start, Pool!Unoccupied
<1>2. QED
  BY <1>1 DEF Pool!Next

LEMMA PoolFinishes ==
  ASSUME NEW j \in jobs, jobs' = jobs \ {j},
         \/ onway' = onway \cup {[task |-> j.task, msg |-> j.task]}
         \/ onway' = onway \cup {[task |-> j.task, msg |-> ConnReset]}
         \/ MayFail /\ UNCHANGED onway,
         UNCHANGED <<count, inq, answers, stopped>>
  PROVE  Pool!Next
<1>1. Pool!Finish(j)
  BY PoolState DEF Pool!Finish, Pool!Reset, ConnReset
<1>2. QED
  BY <1>1, PoolState DEF Pool!Next

LEMMA PoolAnswers ==
  ASSUME NEW s \in onway, answers[s.task] = NoAnswer,
         answers' = [answers EXCEPT ![s.task] = s.msg], onway' = onway \ {s},
         UNCHANGED <<count, inq, jobs, stopped>>
  PROVE  Pool!Next
<1>1. Pool!Answer(s)
  BY PoolState DEF Pool!Answer, Pool!NoAnswer, NoAnswer
<1>2. QED
  BY <1>1, PoolState DEF Pool!Next

LEMMA PoolLoses ==
  ASSUME NEW s \in onway, stopped \/ MayFail, onway' = onway \ {s},
         UNCHANGED <<count, inq, jobs, answers, stopped>>
  PROVE  Pool!Next
<1>1. Pool!Lose(s)
  BY PoolState DEF Pool!Lose
<1>2. QED
  BY <1>1, PoolState DEF Pool!Next

LEMMA PoolCancels ==
  ASSUME NEW i \in 1..Len(inq), inq' = RemoveAt(inq, i),
         UNCHANGED <<count, jobs, onway, answers, stopped>>
  PROVE  Pool!Next
<1>1. Pool!Cancel
  BY PoolState DEF Pool!Cancel, Pool!RemoveAt, RemoveAt
<1>2. QED
  BY <1>1 DEF Pool!Next

LEMMA PoolDiscards ==
  ASSUME stopped,
         \/ inq' = <<>> /\ UNCHANGED <<jobs, onway>>
         \/ jobs' = {} /\ UNCHANGED <<inq, onway>>
         \/ onway' = {} /\ UNCHANGED <<inq, jobs>>,
         UNCHANGED <<count, answers, stopped>>
  PROVE  Pool!Next
<1>1. Pool!Discard
  BY PoolState DEF Pool!Discard
<1>2. QED
  BY <1>1 DEF Pool!Next

LEMMA SentMoves ==
  ASSUME NEW t, NEW m, Replies(t, m)
  PROVE  sent' = sent \cup {[task |-> t, msg |-> m]} \/ (MayFail /\ sent' = sent)
<1>1. CASE reply_active' = {r \in reply_active : r.busy} \cup {[ctx |-> t, msg |-> m, busy |-> TRUE]}
  <2> DEFINE new == [ctx |-> t, msg |-> m, busy |-> TRUE]
  <2>1. new.busy /\ new.ctx = t /\ new.msg = m
    OBVIOUS
  <2> HIDE DEF new
  <2>2. {a \in reply_active' : a.busy} = {a \in reply_active : a.busy} \cup {new}
    BY <1>1, <2>1 DEF new
  <2>3. sent' = {[task |-> r.ctx, msg |-> r.msg] : r \in {a \in reply_active : a.busy} \cup {new}}
    BY <2>2 DEF sent
  <2>4. sent' = sent \cup {[task |-> new.ctx, msg |-> new.msg]}
    BY <2>3 DEF sent
  <2>5. QED
    BY <2>1, <2>4
<1>2. CASE MayFail /\ UNCHANGED reply_active
  BY <1>2 DEF sent
<1>3. QED
  BY <1>1, <1>2 DEF Replies

\* An answer on its way is in the hands of one handler or reply holder.
LEMMA OneAnswer ==
  ASSUME IInv, Placed
  PROVE  /\ \A s \in sent : s.task \in Replying
         /\ \A s \in lost : s.task \in Orphaned
         /\ \A s \in ending : s.task \in Finishing
         /\ \A s \in sent, n \in lost \cup ending : s # n
         /\ \A s \in lost, n \in ending : s # n
<1>1. \A s \in sent : s.task \in Replying
  BY DEF sent, Replying
<1>2. \A s \in lost : s.task \in Orphaned
  BY DEF lost, Orphaned
<1>3. \A s \in ending : s.task \in Finishing
  BY Names
<1>4. Apart(Queued, Running, Replying, Orphaned, Finishing, claims)
  BY DEF Placed
<1>5. QED
  BY <1>1, <1>2, <1>3, <1>4 DEF Apart

LEMMA LostMoves ==
  ASSUME Placed, NEW o \in orphan, orphan' = orphan \ {o}
  PROVE  lost' = lost \ {[task |-> o.ctx, msg |-> ConnReset]} /\ [task |-> o.ctx, msg |-> ConnReset] \in lost
<1>1. \A n \in orphan : n.ctx = o.ctx => n = o
  BY DEF Placed
<1>2. \A n \in orphan : [task |-> n.ctx, msg |-> ConnReset].task = n.ctx
  OBVIOUS
<1>3. [task |-> o.ctx, msg |-> ConnReset] \in lost
  BY DEF lost
<1>4. lost' = {[task |-> n.ctx, msg |-> ConnReset] : n \in orphan \ {o}}
  BY DEF lost
<1>5. ASSUME NEW s \in lost', s = [task |-> o.ctx, msg |-> ConnReset] PROVE FALSE
  <2>1. PICK n \in orphan \ {o} : s = [task |-> n.ctx, msg |-> ConnReset]
    BY <1>4
  <2>2. n.ctx = o.ctx
    BY <1>2, <1>5, <2>1
  <2>3. QED
    BY <1>1, <2>1, <2>2
<1>6. lost' \subseteq lost
  BY <1>4 DEF lost
<1>7. ASSUME NEW s \in lost, s # [task |-> o.ctx, msg |-> ConnReset] PROVE s \in lost'
  BY <1>4, <1>7 DEF lost
<1>8. QED
  BY <1>3, <1>5, <1>6, <1>7

\* Every step is a step of the pool, or leaves it as it is.
LEMMA PoolNext ==
  ASSUME IInv, IInv', Placed, Told, Move, WorkConserving, stopped => stopped'
  PROVE  Pool!Next \/ UNCHANGED Pool!vars
<1> DEFINE Goal == Pool!Next \/ UNCHANGED Pool!vars
<1>1. stopped \in BOOLEAN /\ stopped' \in BOOLEAN /\ count \in Nat
  BY DEF IInv, TypeOK, TypeDaemons, TypeQueue
<1>2. /\ UNCHANGED reply_active => UNCHANGED sent
      /\ UNCHANGED orphan => UNCHANGED lost
      /\ UNCHANGED <<sent, lost, ending>> => UNCHANGED onway
      /\ onway = sent \cup lost \cup ending /\ onway' = sent' \cup lost' \cup ending'
  BY DEF sent, lost, onway
<1>3. ASSUME NEW p \in IdleDaemons PROVE p \in Pipes /\ \A j \in jobs : j.worker # p
  BY JobTypes DEF IdleDaemons
<1>4. ASSUME Stays PROVE Goal
  <2>1. UNCHANGED <<count, inq, jobs, onway, answers>>
    BY <1>2, <1>4 DEF Stays
  <2>2. stopped' = stopped \/ (~stopped /\ stopped' = TRUE)
    BY <1>1
  <2>3. QED
    BY <2>1, <2>2, PoolRests, PoolShut
<1>5. ASSUME Arrives PROVE Goal
  <2>1. /\ ~stopped /\ count < MaxTasks /\ count' = count + 1
        /\ UNCHANGED <<reply_active, orphan, ending, answers, stopped>>
    BY <1>5 DEF Arrives
  <2>2. \/ inq' = Append(inq, count + 1) /\ UNCHANGED jobs
        \/ /\ inq = <<>>
           /\ \E p \in Pipes : /\ \A j \in jobs : j.worker # p
                               /\ jobs' = jobs \cup {[worker |-> p, task |-> count + 1]}
           /\ UNCHANGED inq
    <3>1. ASSUME mtx = Free, NEW p \in IdleDaemons PROVE inq = <<>>
      BY <2>1, <3>1 DEF WorkConserving
    <3>2. QED
      BY <1>3, <1>5, <3>1 DEF Arrives
  <2>3. UNCHANGED onway
    BY <1>2, <2>1
  <2>4. QED
    BY <2>1, <2>2, <2>3, PoolArrives
<1>6. ASSUME Starts PROVE Goal
  <2>1. /\ ~stopped /\ inq # <<>> /\ inq' = Tail(inq)
        /\ UNCHANGED <<reply_active, orphan, ending, count, answers, stopped>>
    BY <1>6 DEF Starts
  <2>2. PICK p \in IdleDaemons : jobs' = jobs \cup {[worker |-> p, task |-> Head(inq)]}
    BY <1>6 DEF Starts
  <2>3. QED
    BY <1>2, <1>3, <2>1, <2>2, PoolStarts
<1>7. ASSUME Cancelled PROVE Goal
  <2>1. PICK i \in 1..Len(inq) : inq' = RemoveAt(inq, i)
    BY <1>7 DEF Cancelled
  <2>2. UNCHANGED <<jobs, reply_active, orphan, ending, count, answers, stopped>>
    BY <1>7 DEF Cancelled
  <2>3. QED
    BY <1>2, <2>1, <2>2, PoolCancels
<1>8. ASSUME NEW j \in jobs, Returns(j) PROVE Goal
  <2>1. /\ jobs' = jobs \ {j} /\ mtx = Free /\ ending' = {[task |-> j.task, msg |-> j.task]}
        /\ UNCHANGED <<inq, reply_active, orphan, count, answers, stopped>>
    BY <1>8 DEF Returns
  <2>2. ending = {}
    BY <2>1 DEF ending, Free
  <2>3. onway' = onway \cup {[task |-> j.task, msg |-> j.task]}
    BY <1>2, <2>1, <2>2
  <2>4. QED
    BY <2>1, <2>3, PoolFinishes
<1>9. ASSUME NEW j \in jobs, Leaves(j) PROVE Goal
  <2>1. /\ jobs' = jobs \ {j} /\ Replies(j.task, j.task)
        /\ UNCHANGED <<inq, orphan, ending, count, answers, stopped>>
    BY <1>9 DEF Leaves
  <2>2. sent' = sent \cup {[task |-> j.task, msg |-> j.task]} \/ (MayFail /\ sent' = sent)
    BY <2>1, SentMoves
  <2>3. \/ onway' = onway \cup {[task |-> j.task, msg |-> j.task]}
        \/ MayFail /\ UNCHANGED onway
    BY <1>2, <2>1, <2>2
  <2>4. QED
    BY <2>1, <2>3, PoolFinishes
<1>10. ASSUME NEW j \in jobs, Loses(j) PROVE Goal
  <2> DEFINE o == [ctx |-> j.task, close |-> stopped]
  <2>1. /\ jobs' = jobs \ {j} /\ orphan' = orphan \cup {o}
        /\ UNCHANGED <<inq, reply_active, ending, count, answers, stopped>>
    BY <1>10 DEF Loses
  <2>2. o.ctx = j.task
    OBVIOUS
  <2> HIDE DEF o
  <2>3. lost' = lost \cup {[task |-> j.task, msg |-> ConnReset]}
    BY <2>1, <2>2 DEF lost
  <2>4. onway' = onway \cup {[task |-> j.task, msg |-> ConnReset]}
    BY <1>2, <2>1, <2>3
  <2>5. QED
    BY <2>1, <2>4, PoolFinishes
<1>11. ASSUME NEW o \in orphan, Resets(o) PROVE Goal
  <2> DEFINE s == [task |-> o.ctx, msg |-> ConnReset]
  <2>1. /\ orphan' = orphan \ {o}
        /\ UNCHANGED <<inq, jobs, ending, count, answers, stopped>>
        /\ Replies(o.ctx, ConnReset) \/ ((o.close \/ MayFail) /\ UNCHANGED reply_active)
    BY <1>11 DEF Resets
  <2>2. lost' = lost \ {s} /\ s \in lost
    BY <2>1, LostMoves
  <2>3. sent' = sent \cup {s} \/ ((o.close \/ MayFail) /\ sent' = sent)
    BY <1>2, <2>1, SentMoves
  <2> HIDE DEF s
  <2>4. s \notin sent /\ s \notin ending
    BY <2>2, OneAnswer
  <2>5. CASE sent' = sent \cup {s}
    <3>1. UNCHANGED onway
      BY <1>2, <2>1, <2>2, <2>5
    <3>2. QED
      BY <2>1, <3>1, PoolRests
  <2>6. CASE (o.close \/ MayFail) /\ sent' = sent
    <3>1. s \in onway /\ onway' = onway \ {s}
      BY <1>2, <2>1, <2>2, <2>4, <2>6
    <3>2. stopped \/ MayFail
      BY <2>6, Zenon DEF Told
    <3>3. QED
      BY <2>1, <3>1, <3>2, PoolLoses
  <2>7. QED
    BY <2>3, <2>5, <2>6, Zenon
<1>12. ASSUME Ends PROVE Goal
  <2> DEFINE s == [task |-> mtx.ctx, msg |-> mtx.msg]
  <2>1. /\ mtx.ctx # Fresh /\ Replies(mtx.ctx, mtx.msg) /\ ending' = {}
        /\ UNCHANGED <<inq, jobs, orphan, count, answers, stopped>>
    BY <1>12 DEF Ends
  <2>2. ending = {s}
    BY <2>1 DEF ending
  <2>3. sent' = sent \cup {s} \/ (MayFail /\ sent' = sent)
    BY <2>1, SentMoves
  <2> HIDE DEF s
  <2>4. s \notin sent /\ s \notin lost
    BY <2>2, OneAnswer
  <2>5. CASE sent' = sent \cup {s}
    <3>1. UNCHANGED onway
      BY <1>2, <2>1, <2>2, <2>5
    <3>2. QED
      BY <2>1, <3>1, PoolRests
  <2>6. CASE MayFail /\ sent' = sent
    <3>1. s \in onway /\ onway' = onway \ {s}
      BY <1>2, <2>1, <2>2, <2>4, <2>6
    <3>2. QED
      BY <2>1, <2>6, <3>1, PoolLoses
  <2>7. QED
    BY <2>3, <2>5, <2>6
<1>13. ASSUME NEW r \in reply_active, Delivers(r) PROVE Goal
  <2> DEFINE s == [task |-> r.ctx, msg |-> r.msg]
             q == [r EXCEPT !.busy = FALSE]
  <2>1. /\ reply_active' = (reply_active \ {r}) \cup {q} /\ r.busy
        /\ answers' = [answers EXCEPT ![r.ctx] = r.msg]
        /\ UNCHANGED <<inq, jobs, orphan, ending, count, stopped>>
    BY <1>13 DEF Delivers
  <2>2. r \in [ctx : Task, msg : Int, busy : BOOLEAN]
    BY DEF IInv, TypeOK, TypeContexts
  <2>3. ~q.busy /\ s.task = r.ctx /\ s.msg = r.msg
    BY <2>2
  <2> HIDE DEF q
  <2>4. {a \in reply_active' : a.busy} = {a \in reply_active : a.busy} \ {r}
    BY <2>1, <2>3
  <2>5. \A a \in reply_active : a # r => [task |-> a.ctx, msg |-> a.msg] # s
    <3>1. \A a \in reply_active : a.ctx = r.ctx => a = r
      BY DEF Placed
    <3>2. \A a \in reply_active : [task |-> a.ctx, msg |-> a.msg].task = a.ctx
      OBVIOUS
    <3>3. QED
      BY <2>3, <3>1, <3>2
  <2>6. s \in sent
    BY <2>1 DEF sent
  <2>7. sent' = {[task |-> a.ctx, msg |-> a.msg] : a \in {a \in reply_active : a.busy} \ {r}}
    BY <2>4 DEF sent
  <2>8. sent' = sent \ {s}
    <3>1. s \notin sent'
      BY <2>5, <2>7
    <3>2. sent' \subseteq sent
      BY <2>7 DEF sent
    <3>3. ASSUME NEW x \in sent, x # s PROVE x \in sent'
      BY <2>7, <3>3 DEF sent
    <3>4. QED
      BY <3>1, <3>2, <3>3
  <2> HIDE DEF s
  <2>9. s \notin lost /\ s \notin ending
    BY <2>6, OneAnswer
  <2>10. s \in onway /\ onway' = onway \ {s}
    BY <1>2, <2>1, <2>6, <2>8, <2>9
  <2>11. answers[s.task] = NoAnswer /\ answers' = [answers EXCEPT ![s.task] = s.msg]
    BY <2>1, <2>3 DEF Told
  <2>12. QED
    BY <2>1, <2>10, <2>11, PoolAnswers
<1>14. ASSUME Drops PROVE Goal
  <2>1. stopped /\ UNCHANGED <<orphan, ending, count, answers, stopped>>
    BY <1>14 DEF Drops
  <2>2. CASE jobs' = {} /\ UNCHANGED <<inq, reply_active>>
    BY <1>2, <2>1, <2>2, PoolDiscards
  <2>3. CASE orphan = {} /\ mtx = Free /\ reply_active' = {} /\ UNCHANGED <<inq, jobs>>
    <3>1. sent' = {} /\ lost = {} /\ ending = {}
      BY <2>3 DEF sent, lost, ending, Free
    <3>2. onway' = {}
      BY <1>2, <2>1, <3>1
    <3>3. QED
      BY <2>1, <2>3, <3>2, PoolDiscards
  <2>4. CASE inq' = <<>> /\ UNCHANGED <<jobs, reply_active>>
    BY <1>2, <2>1, <2>4, PoolDiscards
  <2>5. QED
    BY <1>14, <2>2, <2>3, <2>4 DEF Drops
<1>15. QED
  BY <1>4, <1>5, <1>6, <1>7, <1>8, <1>9, <1>10, <1>11, <1>12, <1>13, <1>14 DEF Move

LEMMA PoolInit ==
  ASSUME Init
  PROVE  Pool!Init
<1>1. reply_active = {} /\ orphan = {} /\ ending = {} /\ jobs = {}
  <2>1. Busy = {}
    BY DEF Init, Busy, NoSlot
  <2>2. QED
    BY <2>1 DEF Init, ending, Free, jobs
<1>2. onway = {}
  BY <1>1 DEF onway, sent, lost
<1>3. QED
  BY <1>1, <1>2, PoolState DEF Init, Pool!Init, Pool!NoAnswer, NoAnswer, Task

\* The dispatcher implements the task pool: whatever its callbacks do between
\* them, requests are started in the order they arrive, each by one idle daemon
\* and only when nothing is ahead of it, and answered once, with their own result
\* or with the connection-reset error.
THEOREM PoolImplemented == Spec => ImplementsPool
<1>1. Init => Pool!Init
  BY PoolInit
<1>2. AnswersInv /\ AnswersInv' /\ WorkConserving /\ [Next]_vars => [Pool!Next]_(Pool!vars)
  <2>1. ASSUME AnswersInv, AnswersInv', WorkConserving, Next PROVE Pool!Next \/ UNCHANGED Pool!vars
    <3>1. IInv /\ IInv' /\ Stages /\ Flow /\ Placed /\ Told
      BY <2>1 DEF AnswersInv, ContextInv, FlowInv
    <3>2. Move /\ (stopped => stopped')
      BY <2>1, <3>1, Moves, ControlMoves
    <3>3. QED
      BY <2>1, <3>1, <3>2, PoolNext
  <2>2. ASSUME UNCHANGED vars PROVE UNCHANGED Pool!vars
    <3>1. UNCHANGED <<count, inq, jobs, onway, answers, stopped>>
      BY <2>2 DEF vars, jobs, Busy, onway, sent, lost, ending
    <3>2. QED
      BY <3>1, PoolRests
  <2>3. QED
    BY <2>1, <2>2
<1>3. QED
  BY <1>1, <1>2, AnswersInvariance, QueueWorkConserving, PTL DEF Spec, ImplementsPool, Pool!Spec
=============================================================================
