----------------------- MODULE DispatcherQueueProofs -----------------------
(***************************************************************************)
(* What waits: no request in the queue while a daemon could take it, and   *)
(* no task behind a full send queue of its daemon, for any number of       *)
(* daemons and requests.                                                   *)
(*                                                                         *)
(* The first is inductive over the types: most actions touch neither the   *)
(* queue nor what makes a daemon eligible; some take daemons out of the    *)
(* array or requests out of the queue; a handler that makes a daemon       *)
(* eligible keeps the lock and drains, and the drain ends only when the    *)
(* property holds.  The second needs what the sends and the pipes hold.    *)
(***************************************************************************)
EXTENDS DispatcherFlowProofs

USE DEF counters, queue, barrier, signals, replies, host, rthread, network, history

\* An action that adds nothing to the queue, makes no daemon eligible, and does
\* not unlock after a drain, keeps the queue work-conserving.
LEMMA NothingNewToDo ==
  ASSUME WorkConserving,
         mtx' = Free => mtx = Free,
         ~stopped' => ~stopped,
         inq = <<>> => inq' = <<>>,
         IdleDaemons' \subseteq IdleDaemons
  PROVE  WorkConserving'
  BY DEF WorkConserving

\* Eligibility is decided by the slots and the sync barrier alone.
LEMMA IdleFromSlots ==
  ASSUME UNCHANGED <<slot, syncing, sync_generation>>
  PROVE  IdleDaemons' = IdleDaemons
  BY DEF IdleDaemons

\* A daemon whose slot is removed, or is being initialised, is not eligible.
LEMMA IdleShrinks ==
  ASSUME NEW p \in Pipes, slot \in [Pipes -> Slot],
         NEW s \in Slot, s.state # "IDLE", slot' = [slot EXCEPT ![p] = s],
         UNCHANGED <<syncing, sync_generation>>
  PROVE  IdleDaemons' \subseteq IdleDaemons
<1> SUFFICES ASSUME NEW q \in IdleDaemons' PROVE q \in IdleDaemons
  OBVIOUS
<1>1. q \in Pipes /\ slot'[q].state = "IDLE"
  BY DEF IdleDaemons
<1>2. q # p
  BY <1>1
<1>3. slot'[q] = slot[q]
  BY <1>1, <1>2
<1>4. QED
  BY <1>1, <1>3 DEF IdleDaemons

\* The lock is not free while a drain is pending.
LEMMA DrainHoldsLock ==
  ASSUME NEW t, NEW m, DrainThen(t, m)
  PROVE  mtx' # Free
<1>1. mtx'.held
  BY DEF DrainThen
<1>2. ~Free.held
  BY DEF Free
<1>3. QED
  BY <1>1, <1>2

\* A drain ends when the queue is empty or nobody is eligible, and does not
\* give up the lock before that.
LEMMA DrainConserves ==
  ASSUME IInv, WorkConserving, DrainStep \/ DrainEnd
  PROVE  WorkConserving'
<1>1. CASE DrainStep
  <2>1. mtx'.held
    BY <1>1 DEF DrainStep, IInv, TypeOK, TypeHandlers
  <2>2. ~Free.held
    BY DEF Free
  <2>3. QED
    BY <2>1, <2>2 DEF WorkConserving
<1>2. CASE DrainEnd
  <2>1. IdleDaemons' = IdleDaemons
    BY <1>2, IdleFromSlots DEF DrainEnd, barrier
  <2>2. inq = <<>> \/ IdleDaemons = {}
    BY <1>2 DEF DrainEnd, DrainDone
  <2>3. inq' = inq
    BY <1>2 DEF DrainEnd
  <2>4. QED
    BY <2>1, <2>2, <2>3 DEF WorkConserving
<1>3. QED
  BY <1>1, <1>2

\* The handlers of daemons that come, go and reply.
LEMMA DaemonsConserve ==
  ASSUME IInv, WorkConserving, NEW p \in Pipes,
         HandleConnect(p) \/ InitCb(p) \/ HandleDisconnect(p)
  PROVE  WorkConserving'
<1>1. slot \in [Pipes -> Slot] /\ NoSlot \in Slot
  BY DEF IInv, TypeOK, TypeDaemons, NoSlot, Slot, Fresh
<1>2. CASE HandleConnect(p)
  <2>1. UNCHANGED <<inq, stopped, mtx, syncing, sync_generation>>
    BY <1>2 DEF HandleConnect, barrier, Unlock
  <2>2. IdleDaemons' \subseteq IdleDaemons
    <3>1. CASE UNCHANGED slot
      BY <3>1, <2>1, IdleFromSlots
    <3>2. CASE slot' = [slot EXCEPT ![p] = [state |-> "INIT", msgid |-> 0,
                                            gen |-> sync_generation - 1, ctx |-> Fresh]]
      <4> DEFINE s == [state |-> "INIT", msgid |-> 0, gen |-> sync_generation - 1,
                       ctx |-> Fresh]
      <4>1. s \in Slot
        BY DEF IInv, TypeOK, TypeDaemons, Slot, Fresh
      <4>2. QED
        BY <3>2, <4>1, <2>1, <1>1, IdleShrinks
    <3>3. QED
      BY <1>2, <3>1, <3>2 DEF HandleConnect
  <2>3. QED
    BY <2>1, <2>2, NothingNewToDo
<1>3. CASE InitCb(p)
  <2>1. UNCHANGED <<inq, stopped, syncing, sync_generation>>
    BY <1>3 DEF InitCb, barrier
  <2>2. CASE ~(init_aio[p] = "done" /\ slot[p].state = "INIT")
    <3>1. UNCHANGED <<slot, mtx>>
      BY <1>3, <2>2 DEF InitCb
    <3>2. QED
      BY <2>1, <3>1, IdleFromSlots, NothingNewToDo
  <2>3. CASE init_aio[p] = "done" /\ slot[p].state = "INIT"
    <3>1. CASE stopped
      BY <2>1, <3>1 DEF WorkConserving
    <3>2. CASE ~stopped
      <4>1. DrainThen(Fresh, NoAnswer)
        BY <1>3, <2>3, <3>2 DEF InitCb
      <4>2. QED
        BY <4>1, DrainHoldsLock DEF WorkConserving
    <3>3. QED
      BY <3>1, <3>2
  <2>4. QED
    BY <2>2, <2>3
<1>4. CASE HandleDisconnect(p)
  <2>1. UNCHANGED <<inq, stopped, mtx, syncing, sync_generation>>
    BY <1>4 DEF HandleDisconnect, barrier, Unlock
  <2>2. slot' = slot \/ slot' = [slot EXCEPT ![p] = NoSlot]
    BY <1>4 DEF HandleDisconnect, RemoveDaemon
  <2>3. NoSlot.state # "IDLE"
    BY DEF NoSlot
  <2>4. IdleDaemons' \subseteq IdleDaemons
    BY <2>1, <2>2, <2>3, <1>1, IdleFromSlots, IdleShrinks
  <2>5. QED
    BY <2>1, <2>4, NothingNewToDo
<1>5. QED
  BY <1>2, <1>3, <1>4

\* A result either drains, or removes the daemon that sent it.
LEMMA DaemonRecvConserves ==
  ASSUME IInv, WorkConserving, NEW m \in arrived, HandleDaemonRecv(m)
  PROVE  WorkConserving'
<1>1. slot \in [Pipes -> Slot] /\ NoSlot \in Slot /\ m.pipe \in Pipes
  BY DEF IInv, TypeOK, TypeDaemons, TypeNetwork, NoSlot, Slot, Fresh
<1>2. UNCHANGED <<inq, stopped, syncing, sync_generation>>
  BY DEF HandleDaemonRecv, barrier, queue
<1>3. \/ UNCHANGED <<slot, mtx>>
      \/ RemoveDaemon(m.pipe) /\ UNCHANGED mtx
      \/ DrainThen(slot[m.pipe].ctx, m.msg)
  BY DEF HandleDaemonRecv, Unlock
<1>4. CASE UNCHANGED <<slot, mtx>>
  BY <1>2, <1>4, IdleFromSlots, NothingNewToDo
<1>5. CASE RemoveDaemon(m.pipe) /\ UNCHANGED mtx
  <2>1. slot' = [slot EXCEPT ![m.pipe] = NoSlot]
    BY <1>5 DEF RemoveDaemon
  <2>2. NoSlot.state # "IDLE"
    BY DEF NoSlot
  <2>3. IdleDaemons' \subseteq IdleDaemons
    BY <2>1, <2>2, <1>1, <1>2, IdleShrinks
  <2>4. QED
    BY <1>2, <1>5, <2>3, NothingNewToDo
<1>6. CASE DrainThen(slot[m.pipe].ctx, m.msg)
  BY <1>6, DrainHoldsLock DEF WorkConserving
<1>7. QED
  BY <1>3, <1>4, <1>5, <1>6

\* A request is queued only when nobody is eligible, and assigned only from an
\* empty queue.
LEMMA HostRecvConserves ==
  ASSUME IInv, WorkConserving, NEW h, HandleHostRecv(h)
  PROVE  WorkConserving'
<1>1. mtx = Free /\ mtx' = mtx
  BY DEF HandleHostRecv, Locking, Unlock
<1>2. CASE stopped
  <2>1. stopped'
    BY <1>2 DEF HandleHostRecv
  <2>2. QED
    BY <2>1 DEF WorkConserving
<1>3. CASE ~stopped /\ IdleDaemons = {}
  <2>1. UNCHANGED <<slot, syncing, sync_generation>>
    BY <1>3 DEF HandleHostRecv, barrier
  <2>2. IdleDaemons' = {}
    BY <1>3, <2>1, IdleFromSlots
  <2>3. QED
    BY <2>2 DEF WorkConserving
<1>4. CASE ~stopped /\ IdleDaemons # {}
  <2>1. inq = <<>>
    BY <1>1, <1>4 DEF WorkConserving
  <2>2. inq' = inq
    BY <1>4 DEF HandleHostRecv, queue
  <2>3. QED
    BY <2>1, <2>2 DEF WorkConserving
<1>5. QED
  BY <1>2, <1>3, <1>4

\* A cancellation touches no slot, and empties the queue at most.
LEMMA CancelConserves ==
  ASSUME IInv, WorkConserving, NEW id \in CancelIds, CancelDirect(id)
  PROVE  WorkConserving'
<1>1. UNCHANGED <<slot, stopped, mtx, syncing, sync_generation>>
  BY DEF CancelDirect, barrier
<1>2. inq = <<>> => inq' = <<>>
  <2> SUFFICES ASSUME inq = <<>> PROVE inq' = inq
    OBVIOUS
  <2>1. 1..Len(inq) = {}
    OBVIOUS
  <2>2. QED
    BY <2>1 DEF CancelDirect
<1>3. QED
  BY <1>1, <1>2, IdleFromSlots, NothingNewToDo

\* The steps of dispatch_shutdown come after d->stopped is set or, at least,
\* leave no daemon and no request behind.
LEMMA ShutdownConserves ==
  ASSUME IInv, WorkConserving, Shutdown
  PROVE  WorkConserving'
<1>1. CASE StopHost \/ StopRecv \/ StopSig \/ ClosePoly \/ CloseReplies
  <2>1. UNCHANGED <<slot, inq, stopped, mtx, syncing, sync_generation>>
    BY <1>1 DEF StopHost, StopRecv, StopSig, ClosePoly, CloseReplies, barrier
  <2>2. QED
    BY <2>1, IdleFromSlots, NothingNewToDo
<1>2. CASE PolyClosed \/ CloseRep
  <2>1. UNCHANGED <<slot, inq, stopped, mtx, syncing, sync_generation>>
    BY <1>2 DEF PolyClosed, CloseRep, RThreadOnly, barrier
  <2>2. QED
    BY <2>1, IdleFromSlots, NothingNewToDo
<1>3. CASE FreeSenders
  <2>1. slot' = [p \in Pipes |-> NoSlot]
    BY <1>3 DEF FreeSenders
  <2>2. IdleDaemons' = {}
    BY <2>1 DEF IdleDaemons, NoSlot
  <2>3. QED
    BY <2>2 DEF WorkConserving
<1>4. CASE CloseQueue
  BY <1>4 DEF CloseQueue, WorkConserving
<1>5. QED
  BY <1>1, <1>2, <1>3, <1>4 DEF Shutdown

\* Steps that touch neither slots, queue, barrier nor lock.
LEMMA OthersConserve ==
  ASSUME IInv, WorkConserving,
         \/ \E o \in orphan : SendConnReset(o)
         \/ RearmHost \/ SigCb \/ Network \/ Gate \/ Recheck \/ Stop
         \/ \E n \in Targets : Wait(n)
         \/ \E p \in Pipes : PipeStart(p) \/ Crash(p)
         \/ \E p \in Pipes, marker \in Markers : DaemonReply(p, marker)
         \/ UNCHANGED vars
  PROVE  WorkConserving'
<1>1. /\ UNCHANGED <<slot, inq, mtx, syncing, sync_generation>>
      /\ ~stopped' => ~stopped
  <2>1. CASE \/ \E o \in orphan : SendConnReset(o)
             \/ RearmHost \/ SigCb \/ Stop
    BY <2>1 DEF SendConnReset, RearmHost, SigCb, Stop, Unlock, barrier
  <2>2. CASE Gate \/ Recheck \/ \E n \in Targets : Wait(n)
    BY <2>2 DEF Gate, Recheck, Wait, RThreadOnly, barrier
  <2>3. CASE Network
    BY <2>3 DEF Network, Route, DaemonTake, PipeDown, ReplySent, NetworkOnly, barrier
  <2>4. CASE \/ \E p \in Pipes : PipeStart(p) \/ Crash(p)
             \/ \E p \in Pipes, marker \in Markers : DaemonReply(p, marker)
    BY <2>4 DEF PipeStart, Crash, PipeDown, DaemonReply, NetworkOnly, barrier
  <2>5. CASE UNCHANGED vars
    BY <2>5 DEF vars
  <2>6. QED
    BY <2>1, <2>2, <2>3, <2>4, <2>5
<1>2. QED
  BY <1>1, IdleFromSlots, NothingNewToDo

\* No request waits in the queue while a daemon could take it, whenever the lock
\* is free and the dispatcher is not stopped: no order of connects, results,
\* disconnects, cancellations and arrivals lets dispatch_drain_locked miss one.
THEOREM QueueWorkConserving == Spec => []WorkConserving
<1>1. Init => WorkConserving
  BY DEF Init, WorkConserving
<1>2. IInv /\ WorkConserving /\ [Next]_vars => WorkConserving'
  <2> SUFFICES ASSUME IInv, WorkConserving, [Next]_vars PROVE WorkConserving'
    OBVIOUS
  <2>1. CASE Callback
    BY <2>1, DrainConserves, DaemonsConserve, DaemonRecvConserves, OthersConserve
       DEF Callback
  <2>2. CASE \/ \E h \in Headers(count + 1) : HandleHostRecv(h)
             \/ \E id \in CancelIds : CancelDirect(id)
             \/ Shutdown
    BY <2>2, HostRecvConserves, CancelConserves, ShutdownConserves
  <2>3. CASE \/ Gate \/ (\E n \in Targets : Wait(n)) \/ Recheck \/ Stop \/ Network
             \/ \E p \in Pipes : PipeStart(p) \/ Crash(p)
             \/ \E p \in Pipes, marker \in Markers : DaemonReply(p, marker)
             \/ UNCHANGED vars
    BY <2>3, OthersConserve
  <2>4. QED
    BY <2>1, <2>2, <2>3 DEF Next, Freed
<1>3. QED
  BY <1>1, <1>2, Invariance, PTL DEF Spec

-----------------------------------------------------------------------------
(* Sums and numbers of occurrences, as sizes of sets                         *)

\* A set is as large as one that it is mapped to one to one.
LEMMA SameSize ==
  ASSUME NEW S, NEW T, IsFiniteSet(T), NEW f \in [S -> T],
         \A a, b \in S : f[a] = f[b] => a = b,
         \A t \in T : \E a \in S : f[a] = t
  PROVE  Cardinality(S) = Cardinality(T)
<1>1. f \in Injection(S, T)
  BY DEF Injection, IsInjective
<1>2. f \in Surjection(S, T)
  BY DEF Surjection
<1>3. QED
  BY <1>1, <1>2, FS_Injection

\* An element that joins S adds its f to the sum.
LEMMA SumWithOneMore ==
  ASSUME NEW S, NEW x, x \notin S, NEW f, f[x] \in Nat, IsFiniteSet(Units(S, f))
  PROVE  /\ IsFiniteSet(Units(S \cup {x}, f))
         /\ SumOver(S, f) \in Nat
         /\ SumOver(S \cup {x}, f) = SumOver(S, f) + f[x]
<1> DEFINE U == Units(S, f)
           V == {x} \X (1..f[x])
<1>1. IsFiniteSet(V) /\ Cardinality(V) = f[x]
  <2>1. IsFiniteSet({x}) /\ Cardinality({x}) = 1
    BY FS_Singleton
  <2>2. IsFiniteSet(1..f[x]) /\ Cardinality(1..f[x]) = f[x]
    BY FS_Interval
  <2>3. /\ IsFiniteSet({x} \X (1..f[x]))
        /\ Cardinality({x} \X (1..f[x])) = Cardinality({x}) * Cardinality(1..f[x])
    BY <2>1, <2>2, FS_Product, Zenon
  <2>4. QED
    BY <2>1, <2>2, <2>3
<1>2. U \cap V = {}
  BY DEF Units
<1>3. Units(S \cup {x}, f) = U \cup V
  BY DEF Units
<1> HIDE DEF U, V
<1>4. /\ IsFiniteSet(U \cup V)
      /\ Cardinality(U \cup V) = Cardinality(U) + Cardinality(V) - Cardinality(U \cap V)
  BY <1>1, FS_Union, Zenon DEF U
<1>5. Cardinality(U \cap V) = 0 /\ Cardinality(U) \in Nat
  BY <1>2, FS_EmptySet, FS_CardinalityType DEF U
<1>6. Cardinality(U \cup V) = Cardinality(U) + f[x]
  BY <1>1, <1>4, <1>5
<1>7. /\ SumOver(S, f) = Cardinality(U) /\ SumOver(S \cup {x}, f) = Cardinality(U \cup V)
      /\ Units(S \cup {x}, f) = U \cup V
  BY <1>3 DEF U, SumOver
<1>8. QED
  BY <1>4, <1>5, <1>6, <1>7

\* An element that leaves S takes its f from the sum.
LEMMA SumWithOneLess ==
  ASSUME NEW S, NEW x \in S, NEW f, f[x] \in Nat, IsFiniteSet(Units(S, f))
  PROVE  /\ IsFiniteSet(Units(S \ {x}, f))
         /\ SumOver(S \ {x}, f) \in Nat
         /\ SumOver(S \ {x}, f) = SumOver(S, f) - f[x]
<1> DEFINE R == S \ {x}
<1>1. x \notin R /\ R \cup {x} = S /\ Units(R, f) \in SUBSET Units(S, f)
  BY DEF Units
<1>2. IsFiniteSet(Units(R, f))
  BY <1>1, FS_Subset
<1> HIDE DEF R
<1>3. SumOver(R, f) \in Nat /\ SumOver(S, f) = SumOver(R, f) + f[x]
  BY <1>1, <1>2, SumWithOneMore
<1>4. QED
  BY <1>2, <1>3 DEF R

\* The sum depends on f within S only.
LEMMA SumOfSame ==
  ASSUME NEW S, NEW f, NEW g, \A x \in S : f[x] = g[x]
  PROVE  Units(S, f) = Units(S, g) /\ SumOver(S, f) = SumOver(S, g)
<1>1. {{x} \X (1..f[x]) : x \in S} = {{x} \X (1..g[x]) : x \in S}
  OBVIOUS
<1>2. QED
  BY <1>1 DEF Units, SumOver

-----------------------------------------------------------------------------
(* The send queues of the daemons.                                           *)
(*                                                                           *)
(* A task is dropped when its daemon's send queue is full at the time the    *)
(* poly socket routes it.  The queue then holds no other task (OneTask), and *)
(* the init message only if it holds nothing else, because signals are made  *)
(* for busy daemons and the init message goes before the first task.  So it  *)
(* is full of signals, of which there are no more than cancellations.        *)

Sig(p) == [pipe |-> p, msg |-> Signal]

\* How often y occurs in q.
Times(q, y) == Cardinality({i \in 1..Len(q) : q[i] = y})

\* The signals to a daemon, in dispatch_sig_cb's list and on their way.
SignalsTo(p) == Times(uwq, Sig(p)) + Times(chan[p], Signal) + Times(sig_list, p)

Unsignalled(p) ==
  /\ \A i \in 1..Len(uwq) : uwq[i] # Sig(p)
  /\ \A i \in 1..Len(chan[p]) : chan[p][i] # Signal
  /\ \A i \in 1..Len(sig_list) : sig_list[i] # p

LEMMA TimesIn ==
  ASSUME NEW S, NEW q \in Seq(S), NEW y
  PROVE  /\ IsFiniteSet({i \in 1..Len(q) : q[i] = y}) /\ Times(q, y) \in Nat
         /\ (\A i \in 1..Len(q) : q[i] # y) => Times(q, y) = 0
         /\ (\A i \in 1..Len(q) : q[i] = y) => Times(q, y) = Len(q)
<1> DEFINE I == {i \in 1..Len(q) : q[i] = y}
<1>1. Len(q) \in Nat
  BY LenProperties
<1>2. IsFiniteSet(1..Len(q)) /\ Cardinality(1..Len(q)) = Len(q)
  BY <1>1, FS_Interval
<1>3. I \in SUBSET (1..Len(q))
  OBVIOUS
<1>4. IsFiniteSet(I)
  BY <1>2, <1>3, FS_Subset
<1>5. Cardinality(I) \in Nat
  BY <1>4, FS_CardinalityType
<1>6. ASSUME \A i \in 1..Len(q) : q[i] # y PROVE I = {}
  BY <1>6
<1>7. ASSUME \A i \in 1..Len(q) : q[i] = y PROVE I = 1..Len(q)
  BY <1>7
<1>8. Times(q, y) = Cardinality(I)
  BY DEF Times
<1>9. Cardinality({}) = 0
  BY FS_EmptySet
<1> HIDE DEF I
<1>10. QED
  BY <1>2, <1>4, <1>5, <1>6, <1>7, <1>8, <1>9 DEF I

LEMMA TimesAppend ==
  ASSUME NEW S, NEW q \in Seq(S), NEW x \in S, NEW y
  PROVE  Times(Append(q, x), y) = Times(q, y) + (IF x = y THEN 1 ELSE 0)
<1> DEFINE r == Append(q, x)
           I == {i \in 1..Len(q) : q[i] = y}
           J == {i \in 1..Len(r) : r[i] = y}
<1>1. /\ Len(r) = Len(q) + 1 /\ Len(q) \in Nat /\ r[Len(q) + 1] = x
      /\ \A i \in 1..Len(q) : r[i] = q[i]
  BY AppendProperties, LenProperties
<1>2. IsFiniteSet(I) /\ Cardinality(I) \in Nat
  BY TimesIn DEF Times
<1>3. Times(r, y) = Cardinality(J) /\ Times(q, y) = Cardinality(I)
  BY DEF Times
<1> HIDE DEF r
<1>4. J = IF x = y THEN I \cup {Len(q) + 1} ELSE I
  <2>1. 1..Len(r) = (1..Len(q)) \cup {Len(q) + 1}
    BY <1>1
  <2>2. QED
    BY <1>1, <2>1
<1>5. Len(q) + 1 \notin I
  BY <1>1
<1> HIDE DEF I, J
<1>6. Cardinality(I \cup {Len(q) + 1}) = Cardinality(I) + 1
  BY <1>2, <1>5, FS_AddElement
<1>7. QED
  BY <1>2, <1>3, <1>4, <1>6 DEF r

LEMMA TimesTail ==
  ASSUME NEW S, NEW q \in Seq(S), q # <<>>, NEW y
  PROVE  Times(Tail(q), y) = Times(q, y) - (IF Head(q) = y THEN 1 ELSE 0)
<1> DEFINE r == Tail(q)
           I == {i \in 1..Len(q) : q[i] = y}
           J == {i \in 1..Len(r) : r[i] = y}
           f == [j \in J |-> j + 1]
<1>1. /\ Len(r) = Len(q) - 1 /\ Len(q) \in Nat /\ 1 \in 1..Len(q) /\ Head(q) = q[1]
      /\ \A i \in 1..Len(r) : i + 1 \in 1..Len(q) /\ r[i] = q[i + 1]
  BY TailElements
<1>2. IsFiniteSet(I) /\ Cardinality(I) \in Nat
  BY TimesIn DEF Times
<1>3. Times(r, y) = Cardinality(J) /\ Times(q, y) = Cardinality(I)
  BY DEF Times
<1> HIDE DEF r
<1>4. \A j \in J : j \in Int /\ j + 1 \in I \ {1}
  BY <1>1
<1>5. \A i \in I \ {1} : i - 1 \in J /\ (i - 1) + 1 = i
  <2>1. SUFFICES ASSUME NEW i \in I \ {1} PROVE i - 1 \in J /\ (i - 1) + 1 = i
    OBVIOUS
  <2>2. i - 1 \in 1..Len(r) /\ (i - 1) + 1 = i
    BY <1>1
  <2>3. r[i - 1] = q[(i - 1) + 1]
    BY <1>1, <2>2
  <2>4. QED
    BY <2>2, <2>3
<1>6. Cardinality(J) = Cardinality(I \ {1})
  <2>1. f \in [J -> I \ {1}]
    BY <1>4
  <2>2. \A j, k \in J : f[j] = f[k] => j = k
    BY <1>4
  <2>3. \A i \in I \ {1} : \E j \in J : f[j] = i
    BY <1>5
  <2> HIDE DEF f
  <2>4. IsFiniteSet(I \ {1})
    BY <1>2, FS_RemoveElement
  <2> HIDE DEF I, J
  <2>5. QED
    BY <2>1, <2>2, <2>3, <2>4, SameSize
<1>7. 1 \in I <=> Head(q) = y
  BY <1>1
<1> HIDE DEF I, J
<1>8. Cardinality(I \ {1}) = IF 1 \in I THEN Cardinality(I) - 1 ELSE Cardinality(I)
  BY <1>2, FS_RemoveElement
<1>9. QED
  BY <1>2, <1>3, <1>6, <1>7, <1>8 DEF r

\* A cancellation adds one to their number.
LEMMA OneMoreCancellation ==
  ASSUME IInv, IsFiniteSet(Units(CancelIds, cancels)),
         NEW id \in CancelIds, cancels' = [cancels EXCEPT ![id] = @ + 1]
  PROVE  /\ IsFiniteSet(Units(CancelIds, cancels'))
         /\ Cancellations' = Cancellations + 1
<1> DEFINE R == CancelIds \ {id}
<1>1. cancels \in [CancelIds -> Nat]
  BY DEF IInv, TypeOK, TypeHistory
<1>2. id \notin R /\ R \cup {id} = CancelIds /\ \A x \in R : cancels'[x] = cancels[x]
  BY <1>1
<1>3. cancels[id] \in Nat /\ cancels'[id] = cancels[id] + 1 /\ cancels'[id] \in Nat
  BY <1>1
<1>4. /\ IsFiniteSet(Units(R, cancels)) /\ SumOver(R, cancels) \in Nat
      /\ SumOver(R, cancels) = SumOver(CancelIds, cancels) - cancels[id]
  BY <1>3, SumWithOneLess
<1> HIDE DEF R
<1>5. Units(R, cancels') = Units(R, cancels) /\ SumOver(R, cancels') = SumOver(R, cancels)
  BY <1>2, SumOfSame
<1>6. id \notin R /\ cancels'[id] \in Nat /\ IsFiniteSet(Units(R, cancels'))
  BY <1>2, <1>3, <1>4, <1>5
<1>7. /\ IsFiniteSet(Units(R \cup {id}, cancels'))
      /\ SumOver(R \cup {id}, cancels') = SumOver(R, cancels') + cancels'[id]
  BY <1>6, SumWithOneMore
<1>8. IsFiniteSet(Units(CancelIds, cancels')) /\ SumOver(CancelIds, cancels') = SumOver(R, cancels) + cancels'[id]
  BY <1>2, <1>5, <1>7
<1>9. SumOver(CancelIds, cancels) = SumOver(R, cancels) + cancels[id]
  <2>1. SumOver(R \cup {id}, cancels) = SumOver(R, cancels) + cancels[id]
    BY <1>2, <1>3, <1>4, SumWithOneMore
  <2>2. QED
    BY <1>2, <2>1
<1>10. SumOver(CancelIds, cancels') = SumOver(CancelIds, cancels) + 1
  BY <1>3, <1>4, <1>8, <1>9
<1>11. QED
  BY <1>8, <1>10 DEF Cancellations

\* A signal is made for a busy daemon, by a cancellation or by its marked reply.
Caused(q) ==
  /\ slot[q].state = "BUSY"
  /\ \/ \E id \in CancelIds : cancels' = [cancels EXCEPT ![id] = @ + 1]
     \/ slot'[q] = NoSlot /\ UNCHANGED cancels

\* What an action does to the sends and to dispatch_sig_cb's list.
SendMoves ==
  \/ UNCHANGED <<uwq, sig_list>>
  \/ Route /\ uwq # <<>> /\ uwq' = Tail(uwq) /\ UNCHANGED <<sig_list, cancels>>
  \/ \E q \in Pipes : uwq' = Append(uwq, Sig(q)) /\ UNCHANGED sig_list /\ Caused(q)
  \/ \E q \in Pipes : sig_list' = Append(sig_list, q) /\ UNCHANGED uwq /\ Caused(q)
  \/ /\ sig_list # <<>> /\ sig_list' = Tail(sig_list)
     /\ uwq' = Append(uwq, Sig(Head(sig_list))) /\ UNCHANGED cancels
  \/ /\ \E q \in Pipes : /\ uwq' = Append(uwq, [pipe |-> q, msg |-> InitMsg])
                         /\ HandleConnect(q) /\ slot'[q].state = "INIT"
     /\ UNCHANGED <<sig_list, cancels>>
  \/ /\ \E q \in IdleDaemons, t \in Task : /\ uwq' = Append(uwq, [pipe |-> q, msg |-> t])
                                           /\ slot'[q].state = "BUSY" /\ slot'[q].ctx = t
     /\ UNCHANGED <<sig_list, cancels>>

LEMMA SignalCaused ==
  ASSUME IInv, NEW q \in Pipes, QueueSignal(q), Caused(q)
  PROVE  SendMoves
  BY DEF QueueSignal, SendMoves, Sig

LEMMA SendMovesNext ==
  ASSUME IInv, Stages, Next, ~stopped'
  PROVE  SendMoves
<1>1. /\ slot \in [Pipes -> Slot] /\ sig_list \in Seq(Pipes)
      /\ arrived \subseteq [pipe : Pipes, msg : Task, marker : BOOLEAN]
      /\ ~stopped /\ InUse
  BY LockTypes, ControlMoves DEF Stages
<1>2. ASSUME NEW p \in Pipes, HandleConnect(p) PROVE SendMoves
  <2>1. \/ UNCHANGED <<uwq, sig_list>>
        \/ /\ slot' = [slot EXCEPT ![p] = [state |-> "INIT", msgid |-> 0,
                                           gen |-> sync_generation - 1, ctx |-> Fresh]]
           /\ uwq' = Append(uwq, [pipe |-> p, msg |-> InitMsg])
           /\ UNCHANGED <<sig_list, cancels>>
    BY <1>2 DEF HandleConnect
  <2>2. ASSUME slot' = [slot EXCEPT ![p] = [state |-> "INIT", msgid |-> 0,
                                            gen |-> sync_generation - 1, ctx |-> Fresh]]
        PROVE  slot'[p].state = "INIT"
    BY <1>1, <2>2
  <2>3. QED
    BY <1>2, <2>1, <2>2 DEF SendMoves
<1>3. ASSUME NEW m \in arrived, HandleDaemonRecv(m) PROVE SendMoves
  <2>1. m.pipe \in Pipes
    BY <1>1
  <2>2. \/ UNCHANGED <<uwq, sig_list>>
        \/ /\ slot[m.pipe].state = "BUSY" /\ slot' = [slot EXCEPT ![m.pipe] = NoSlot]
           /\ QueueSignal(m.pipe) /\ UNCHANGED cancels
    BY <1>3 DEF HandleDaemonRecv, RemoveDaemon
  <2>3. ASSUME slot[m.pipe].state = "BUSY", slot' = [slot EXCEPT ![m.pipe] = NoSlot], UNCHANGED cancels
        PROVE  Caused(m.pipe)
    BY <1>1, <2>1, <2>3 DEF Caused
  <2>4. QED
    BY <2>1, <2>2, <2>3, SignalCaused DEF SendMoves
<1>4. ASSUME NEW id \in CancelIds, CancelDirect(id) PROVE SendMoves
  <2>1. cancels' = [cancels EXCEPT ![id] = @ + 1]
    BY <1>4 DEF CancelDirect
  <2>2. UNCHANGED <<uwq, sig_list>> \/ \E q \in Busy : QueueSignal(q)
    BY <1>4 DEF CancelDirect, RunningAs
  <2>3. \A q \in Busy : q \in Pipes /\ Caused(q)
    BY <2>1 DEF Busy, Caused
  <2>4. QED
    BY <2>2, <2>3, SignalCaused DEF SendMoves
<1>5. ASSUME SigCb PROVE SendMoves
  <2>1. \/ UNCHANGED <<uwq, sig_list>>
        \/ /\ sig_list # <<>> /\ sig_list' = Tail(sig_list)
           /\ uwq' = Append(uwq, [pipe |-> Head(sig_list), msg |-> Signal]) /\ UNCHANGED cancels
    BY <1>5 DEF SigCb
  <2>2. QED
    BY <2>1 DEF SendMoves, Sig
<1>6. ASSUME NEW p \in IdleDaemons, NEW t \in Task, NEW h \in Header, AssignTask(p, t, h),
             UNCHANGED <<sig_list, cancels>>
      PROVE  SendMoves
  <2>1. p \in Pipes /\ slot' = [slot EXCEPT ![p] = TaskSlot(p, t, h)]
    BY <1>6 DEF AssignTask, IdleDaemons
  <2>2. uwq' = Append(uwq, [pipe |-> p, msg |-> t])
    BY <1>6 DEF AssignTask, StartSend
  <2>3. slot'[p].state = "BUSY" /\ slot'[p].ctx = t
    BY <1>1, <2>1 DEF TaskSlot
  <2>4. QED
    BY <1>6, <2>2, <2>3 DEF SendMoves
<1>7. ASSUME DrainStep PROVE SendMoves
  <2>1. inq # <<>> /\ UNCHANGED <<sig_list, cancels>>
    BY <1>7 DEF DrainStep, DrainDone
  <2>2. PICK q \in IdleDaemons : AssignTask(q, Head(inq), header[Head(inq)])
    BY <1>7 DEF DrainStep
  <2>3. Head(inq) \in Task /\ header[Head(inq)] \in Header
    BY <2>1, HeadTask
  <2>4. QED
    BY <1>6, <2>1, <2>2, <2>3
<1>8. ASSUME NEW h \in Headers(count + 1), HandleHostRecv(h) PROVE SendMoves
  <2>1. /\ count < MaxTasks /\ UNCHANGED <<sig_list, cancels>>
        /\ UNCHANGED uwq \/ \E q \in IdleDaemons : AssignTask(q, count + 1, h)
    BY <1>8 DEF HandleHostRecv
  <2>2. count + 1 \in Task /\ h \in Header
    BY <2>1, NewTask
  <2>3. QED
    BY <1>6, <2>1, <2>2 DEF SendMoves
<1>9. ASSUME Route PROVE SendMoves
  BY <1>9 DEF Route, NetworkOnly, SendMoves
<1>10. ASSUME UNCHANGED <<uwq, sig_list>> PROVE SendMoves
  BY <1>10 DEF SendMoves
<1>11. ASSUME DrainEnd \/ RearmHost PROVE UNCHANGED <<uwq, sig_list>>
  BY <1>11 DEF DrainEnd, RearmHost
<1>12. ASSUME \/ \E q \in Pipes : InitCb(q) \/ HandleDisconnect(q)
              \/ \E o \in orphan : SendConnReset(o)
       PROVE  UNCHANGED <<uwq, sig_list>>
  BY <1>12 DEF InitCb, HandleDisconnect, SendConnReset
<1>13. ASSUME Gate \/ (\E n \in Targets : Wait(n)) \/ Recheck \/ Stop \/ Freed
       PROVE  UNCHANGED <<uwq, sig_list>>
  BY <1>13 DEF Gate, Wait, Recheck, RThreadOnly, Stop, Freed, vars
<1>14. ~Shutdown
  BY <1>1 DEF InUse, Shutdown, StopHost, StopRecv, StopSig, ClosePoly, PolyClosed, FreeSenders,
         CloseReplies, CloseQueue, CloseRep
<1>15. ASSUME Network, ~Route PROVE UNCHANGED <<uwq, sig_list>>
  BY <1>15 DEF Network, DaemonTake, PipeDown, ReplySent, NetworkOnly
<1>16. ASSUME \/ \E q \in Pipes : PipeStart(q) \/ Crash(q)
              \/ \E q \in Pipes, marker \in Markers : DaemonReply(q, marker)
       PROVE  UNCHANGED <<uwq, sig_list>>
  BY <1>16 DEF PipeStart, PipeDown, Crash, DaemonReply, NetworkOnly
<1>17. QED
  BY <1>2, <1>3, <1>4, <1>5, <1>7, <1>8, <1>9, <1>10, <1>11, <1>12, <1>13, <1>14, <1>15, <1>16
     DEF Next, Callback

-----------------------------------------------------------------------------
(* What an action does to a pipe.                                            *)

\* Nothing that is on its way on the pipe moves, unless its callback is run.
Still(p) ==
  /\ chan'[p] = chan[p] /\ daemon'[p] = daemon[p]
  /\ \A m \in arrived' : m.pipe = p => m \in arrived
  /\ \A m \in arrived : m.pipe = p => m \in arrived' \/ slot'[p].state # "BUSY"
  /\ p \in up => p \in up'
  /\ p \in up' => p \in up \/ phase[p] = "none"
  /\ Route /\ Head(uwq).pipe = p => p \notin up \/ Len(chan[p]) > SendDepth

\* The connection is lost.
Cut(p) ==
  /\ chan'[p] = <<>> /\ daemon'[p] = daemon[p] /\ p \notin up'
  /\ \A m \in arrived' : m.pipe = p => m \in arrived

\* The poly socket passes a message on to the pipe.
Routed(p) ==
  /\ p \in up /\ uwq # <<>> /\ Head(uwq).pipe = p
  /\ uwq' = Tail(uwq) /\ chan'[p] = Append(chan[p], Head(uwq).msg)
  /\ UNCHANGED <<slot, up, phase, daemon, arrived, sig_list, cancels>>

\* The daemon reads a message.
Taken(p) ==
  /\ p \in up /\ chan[p] # <<>> /\ chan'[p] = Tail(chan[p])
  /\ \/ Head(chan[p]) = Signal /\ daemon'[p] = daemon[p]
     \/ Head(chan[p]) = InitMsg /\ daemon'[p] = Ready
     \/ Head(chan[p]) \in Task /\ daemon[p] = Ready /\ daemon'[p] = Head(chan[p])
  /\ UNCHANGED <<slot, uwq, up, phase, arrived, sig_list, cancels>>

\* The daemon replies.
Replied(p) ==
  /\ p \in up /\ daemon[p] \in Task /\ daemon'[p] \in {Leaving, Ready}
  /\ \E marker \in Markers :
       arrived' = arrived \cup {[pipe |-> p, msg |-> daemon[p], marker |-> marker]}
  /\ UNCHANGED <<slot, uwq, up, phase, chan, sig_list, cancels>>

PipeMoves(p) == Still(p) \/ Cut(p) \/ Routed(p) \/ Taken(p) \/ Replied(p)

\* A pipe whose messages, and whose daemon and its replies, an action leaves alone.
LEMMA StillOf ==
  ASSUME NEW p \in Pipes, UNCHANGED <<chan, daemon, arrived, up>>, ~Route
  PROVE  PipeMoves(p)
  BY DEF PipeMoves, Still

LEMMA RouteMoves ==
  ASSUME IInv, NEW p \in Pipes, Route
  PROVE  PipeMoves(p)
<1>1. /\ chan \in [Pipes -> Seq(Int)] /\ uwq \in Seq([pipe : Pipes, msg : Int])
      /\ uwq # <<>> /\ uwq' = Tail(uwq) /\ UNCHANGED <<slot, up, phase, daemon, arrived, sig_list, cancels>>
      /\ chan' = IF Head(uwq).pipe \in up /\ Len(chan[Head(uwq).pipe]) <= SendDepth
                 THEN [chan EXCEPT ![Head(uwq).pipe] = Append(@, Head(uwq).msg)] ELSE chan
  BY LockTypes DEF Route, NetworkOnly
<1>2. Head(uwq) \in [pipe : Pipes, msg : Int] /\ Len(chan[p]) \in Nat /\ SendDepth \in Nat
  BY <1>1, HeadTailProperties, LenProperties, DispatcherAssumption DEF DispatcherAssumption
<1>3. CASE Head(uwq).pipe = p /\ p \in up /\ Len(chan[p]) <= SendDepth
  <2>1. chan'[p] = Append(chan[p], Head(uwq).msg)
    BY <1>1, <1>3
  <2>2. QED
    BY <1>1, <1>3, <2>1 DEF PipeMoves, Routed
<1>4. CASE ~ (Head(uwq).pipe = p /\ p \in up /\ Len(chan[p]) <= SendDepth)
  <2>1. chan'[p] = chan[p]
    BY <1>1, <1>2, <1>4
  <2>2. Head(uwq).pipe = p => p \notin up \/ Len(chan[p]) > SendDepth
    BY <1>2, <1>4
  <2>3. QED
    BY <1>1, <2>1, <2>2 DEF PipeMoves, Still
<1>5. QED
  BY <1>3, <1>4

LEMMA DownMoves ==
  ASSUME IInv, NEW p \in Pipes, NEW q \in Pipes, PipeDown(q), UNCHANGED daemon, ~Route
  PROVE  PipeMoves(p)
<1>1. /\ chan \in [Pipes -> Seq(Int)] /\ up' = up \ {q} /\ chan' = [chan EXCEPT ![q] = <<>>]
      /\ arrived' = arrived \/ arrived' = {m \in arrived : m.pipe # q}
  BY LockTypes DEF PipeDown
<1>2. CASE p = q
  BY <1>1, <1>2 DEF PipeMoves, Cut
<1>3. CASE p # q
  BY <1>1, <1>3 DEF PipeMoves, Still
<1>4. QED
  BY <1>2, <1>3

LEMMA TakeMoves ==
  ASSUME IInv, NEW p \in Pipes, NEW q \in Pipes, DaemonTake(q), ~Route
  PROVE  PipeMoves(p)
<1>1. chan \in [Pipes -> Seq(Int)] /\ daemon \in [Pipes -> Int]
  BY LockTypes
<1>2. CASE PipeDown(q) /\ UNCHANGED daemon
  BY <1>2, DownMoves
<1>3. CASE /\ \/ Head(chan[q]) = Signal /\ daemon[q] # Leaving /\ UNCHANGED daemon
              \/ Head(chan[q]) = InitMsg /\ daemon' = [daemon EXCEPT ![q] = Ready]
              \/ /\ Head(chan[q]) \in Task /\ daemon[q] = Ready
                 /\ daemon' = [daemon EXCEPT ![q] = Head(chan[q])]
           /\ chan' = [chan EXCEPT ![q] = Tail(@)]
           /\ UNCHANGED <<slot, uwq, up, phase, arrived, sig_list, cancels>>
  <2>1. CASE p = q
    <3>1. p \in up /\ chan[p] # <<>>
      BY <2>1 DEF DaemonTake
    <3>2. chan'[p] = Tail(chan[p])
      BY <1>1, <1>3, <2>1
    <3>3. \/ Head(chan[p]) = Signal /\ daemon'[p] = daemon[p]
          \/ Head(chan[p]) = InitMsg /\ daemon'[p] = Ready
          \/ Head(chan[p]) \in Task /\ daemon[p] = Ready /\ daemon'[p] = Head(chan[p])
      BY <1>1, <1>3, <2>1
    <3>4. QED
      BY <1>3, <3>1, <3>2, <3>3 DEF PipeMoves, Taken
  <2>2. CASE p # q
    <3>1. chan'[p] = chan[p] /\ daemon'[p] = daemon[p]
      BY <1>1, <1>3, <2>2
    <3>2. QED
      BY <1>3, <3>1 DEF PipeMoves, Still
  <2>3. QED
    BY <2>1, <2>2
<1>4. QED
  BY <1>2, <1>3 DEF DaemonTake, NetworkOnly

LEMMA ReplyMoves ==
  ASSUME IInv, NEW p \in Pipes, NEW q \in Pipes, NEW marker \in Markers, DaemonReply(q, marker), ~Route
  PROVE  PipeMoves(p)
<1>1. /\ daemon \in [Pipes -> Int]
      /\ q \in up /\ daemon[q] \in Task
      /\ arrived' = arrived \cup {[pipe |-> q, msg |-> daemon[q], marker |-> marker]}
      /\ daemon' = [daemon EXCEPT ![q] = IF marker THEN Leaving ELSE Ready]
      /\ UNCHANGED <<slot, uwq, up, phase, chan, sig_list, cancels>>
  BY LockTypes DEF DaemonReply, NetworkOnly
<1>2. CASE p = q
  BY <1>1, <1>2 DEF PipeMoves, Replied
<1>3. CASE p # q
  <2>1. daemon'[p] = daemon[p] /\ \A m \in arrived' : m.pipe = p => m \in arrived
    BY <1>1, <1>3
  <2>2. QED
    BY <1>1, <2>1 DEF PipeMoves, Still
<1>4. QED
  BY <1>2, <1>3

\* A daemon whose reply is handled is not busy afterwards.
LEMMA RecvMoves ==
  ASSUME IInv, ~stopped, NEW p \in Pipes, NEW m \in arrived, HandleDaemonRecv(m), ~Route
  PROVE  PipeMoves(p)
<1>1. /\ slot \in [Pipes -> Slot] /\ slot[p] \in Slot /\ m.pipe \in Pipes
      /\ arrived' = arrived \ {m} /\ UNCHANGED <<chan, daemon, up>>
  BY LockTypes DEF HandleDaemonRecv
<1>2. \/ slot[m.pipe].state # "BUSY" /\ UNCHANGED slot
      \/ slot' = [slot EXCEPT ![m.pipe] = NoSlot]
      \/ slot' = [slot EXCEPT ![m.pipe].state = "IDLE", ![m.pipe].msgid = 0, ![m.pipe].ctx = Fresh]
  BY DEF HandleDaemonRecv, RemoveDaemon
<1>3. ASSUME p = m.pipe PROVE slot'[p].state # "BUSY"
  <2>1. CASE slot[m.pipe].state # "BUSY" /\ UNCHANGED slot
    BY <1>3, <2>1
  <2>2. CASE slot' = [slot EXCEPT ![m.pipe] = NoSlot]
    BY <1>1, <1>3, <2>2 DEF NoSlot
  <2>3. CASE slot' = [slot EXCEPT ![m.pipe].state = "IDLE", ![m.pipe].msgid = 0, ![m.pipe].ctx = Fresh]
    BY <1>1, <1>3, <2>3 DEF Slot
  <2>4. QED
    BY <1>2, <2>1, <2>2, <2>3
<1>4. QED
  BY <1>1, <1>3 DEF PipeMoves, Still

LEMMA PipeMovesNext ==
  ASSUME IInv, Stages, Next, ~stopped', NEW p \in Pipes
  PROVE  PipeMoves(p)
<1>1. ~stopped /\ InUse
  BY ControlMoves DEF Stages
<1>2. CASE Route
  BY <1>2, RouteMoves
<1> SUFFICES ASSUME ~Route PROVE PipeMoves(p)
  BY <1>2
<1>3. ASSUME NEW q \in Pipes, HandleConnect(q) PROVE PipeMoves(p)
  <2>1. /\ chan \in [Pipes -> Seq(Int)] /\ UNCHANGED <<daemon, arrived>>
        /\ \/ UNCHANGED <<up, chan>>
           \/ up' = up \ {q} /\ chan' = [chan EXCEPT ![q] = <<>>]
    BY <1>3, LockTypes DEF HandleConnect
  <2>2. CASE UNCHANGED <<up, chan>>
    BY <2>1, <2>2, StillOf
  <2>3. CASE up' = up \ {q} /\ chan' = [chan EXCEPT ![q] = <<>>]
    <3>1. CASE p = q
      BY <2>1, <2>3, <3>1 DEF PipeMoves, Cut
    <3>2. CASE p # q
      BY <2>1, <2>3, <3>2 DEF PipeMoves, Still
    <3>3. QED
      BY <3>1, <3>2
  <2>4. QED
    BY <2>1, <2>2, <2>3
<1>4. ASSUME NEW m \in arrived, HandleDaemonRecv(m) PROVE PipeMoves(p)
  BY <1>1, <1>4, RecvMoves
<1>5. ASSUME NEW q \in Pipes, PipeStart(q) PROVE PipeMoves(p)
  <2>1. phase[q] = "none" /\ up' = up \cup {q} /\ UNCHANGED <<chan, daemon, arrived>>
    BY <1>5 DEF PipeStart
  <2>2. QED
    BY <2>1 DEF PipeMoves, Still
<1>6. ASSUME NEW q \in Pipes, Crash(q) PROVE PipeMoves(p)
  BY <1>6, DownMoves DEF Crash
<1>7. ASSUME NEW q \in Pipes, DaemonTake(q) PROVE PipeMoves(p)
  BY <1>7, TakeMoves
<1>8. ASSUME NEW q \in Pipes, NEW marker \in Markers, DaemonReply(q, marker) PROVE PipeMoves(p)
  BY <1>8, ReplyMoves
<1>9. ASSUME UNCHANGED <<chan, daemon, arrived, up>> PROVE PipeMoves(p)
  BY <1>9, StillOf
<1>10. ASSUME DrainStep \/ DrainEnd \/ RearmHost \/ SigCb PROVE UNCHANGED <<chan, daemon, arrived, up>>
  BY <1>10 DEF DrainStep, DrainEnd, RearmHost, SigCb
<1>11. ASSUME \/ \E q \in Pipes : InitCb(q) \/ HandleDisconnect(q)
              \/ \E o \in orphan : SendConnReset(o)
       PROVE  UNCHANGED <<chan, daemon, arrived, up>>
  BY <1>11 DEF InitCb, HandleDisconnect, SendConnReset
<1>12. ASSUME \/ \E h \in Headers(count + 1) : HandleHostRecv(h)
              \/ \E id \in CancelIds : CancelDirect(id)
       PROVE  UNCHANGED <<chan, daemon, arrived, up>>
  BY <1>12 DEF HandleHostRecv, CancelDirect
<1>13. ASSUME \/ Gate \/ (\E n \in Targets : Wait(n)) \/ Recheck \/ Stop \/ Freed
              \/ \E r \in reply_active : ReplySent(r)
       PROVE  UNCHANGED <<chan, daemon, arrived, up>>
  BY <1>13 DEF Gate, Wait, Recheck, RThreadOnly, Stop, Freed, vars, ReplySent
<1>14. ~Shutdown
  BY <1>1 DEF InUse, Shutdown, StopHost, StopRecv, StopSig, ClosePoly, PolyClosed, FreeSenders,
         CloseReplies, CloseQueue, CloseRep
<1>15. QED
  BY <1>3, <1>4, <1>5, <1>6, <1>7, <1>8, <1>9, <1>10, <1>11, <1>12, <1>13, <1>14
     DEF Next, Callback, Network

\* A slot is taken from a daemon that is connected only with its reply.
LEMMA RemovedWhenDown ==
  ASSUME IInv, Stages, Next, ~stopped', NEW p \in Pipes, p \in up, slot'[p] = NoSlot,
         slot[p].state \in {"INIT", "IDLE"}
  PROVE  FALSE
<1>1. /\ slot \in [Pipes -> Slot] /\ slot[p] \in Slot /\ ~stopped /\ InUse
      /\ arrived \subseteq [pipe : Pipes, msg : Task, marker : BOOLEAN]
  BY LockTypes, ControlMoves DEF Stages
<1>2. slot'[p] # slot[p] /\ slot'[p].state = "NONE"
  BY DEF NoSlot
<1>3. ASSUME NEW q \in Pipes, HandleConnect(q) PROVE FALSE
  <2>1. q # p
    BY <1>3 DEF HandleConnect, IInv, Linked
  <2>2. UNCHANGED slot \/ slot' = [slot EXCEPT ![q] = [state |-> "INIT", msgid |-> 0,
                                                       gen |-> sync_generation - 1, ctx |-> Fresh]]
    BY <1>3 DEF HandleConnect
  <2>3. QED
    BY <1>1, <1>2, <2>1, <2>2
<1>4. ASSUME NEW q \in Pipes, InitCb(q) PROVE FALSE
  <2>1. UNCHANGED slot \/ slot' = [slot EXCEPT ![q].state = "IDLE"]
    BY <1>4 DEF InitCb
  <2>2. QED
    BY <1>1, <1>2, <2>1 DEF Slot
<1>5. ASSUME NEW q \in Pipes, HandleDisconnect(q) PROVE FALSE
  <2>1. q # p /\ (UNCHANGED slot \/ slot' = [slot EXCEPT ![q] = NoSlot])
    BY <1>5 DEF HandleDisconnect, RemoveDaemon
  <2>2. QED
    BY <1>1, <1>2, <2>1
<1>6. ASSUME NEW m \in arrived, HandleDaemonRecv(m) PROVE FALSE
  <2>1. m.pipe \in Pipes
    BY <1>1
  <2>2. \/ UNCHANGED slot
        \/ slot[m.pipe].state = "BUSY" /\ slot' = [slot EXCEPT ![m.pipe] = NoSlot]
        \/ slot' = [slot EXCEPT ![m.pipe].state = "IDLE", ![m.pipe].msgid = 0, ![m.pipe].ctx = Fresh]
    BY <1>6 DEF HandleDaemonRecv, RemoveDaemon
  <2>3. ASSUME slot' = [slot EXCEPT ![m.pipe].state = "IDLE", ![m.pipe].msgid = 0, ![m.pipe].ctx = Fresh]
        PROVE  FALSE
    BY <1>1, <1>2, <2>1, <2>3 DEF Slot
  <2>4. ASSUME slot[m.pipe].state = "BUSY", slot' = [slot EXCEPT ![m.pipe] = NoSlot] PROVE FALSE
    BY <1>1, <1>2, <2>1, <2>4
  <2>5. QED
    BY <1>2, <2>2, <2>3, <2>4
<1>7. ASSUME NEW q \in IdleDaemons, NEW t, NEW h, AssignTask(q, t, h) PROVE FALSE
  <2>1. q \in Pipes /\ slot' = [slot EXCEPT ![q] = TaskSlot(q, t, h)]
    BY <1>7 DEF AssignTask, IdleDaemons
  <2>2. QED
    BY <1>1, <1>2, <2>1 DEF TaskSlot
<1>8. ~DrainStep /\ \A h \in Headers(count + 1) : HandleHostRecv(h) => UNCHANGED slot
  BY <1>7 DEF DrainStep, HandleHostRecv
<1>9. ASSUME DrainEnd \/ RearmHost \/ SigCb \/ (\E o \in orphan : SendConnReset(o)) PROVE UNCHANGED slot
  BY <1>9 DEF DrainEnd, RearmHost, SigCb, SendConnReset
<1>10. ASSUME \/ \E id \in CancelIds : CancelDirect(id)
              \/ Gate \/ (\E n \in Targets : Wait(n)) \/ Recheck \/ Stop \/ Freed
       PROVE  UNCHANGED slot
  BY <1>10 DEF CancelDirect, Gate, Wait, Recheck, RThreadOnly, Stop, Freed, vars
<1>11. ~Shutdown
  BY <1>1 DEF InUse, Shutdown, StopHost, StopRecv, StopSig, ClosePoly, PolyClosed, FreeSenders,
         CloseReplies, CloseQueue, CloseRep
<1>12. ASSUME \/ Network \/ (\E q \in Pipes : PipeStart(q) \/ Crash(q))
              \/ \E q \in Pipes, marker \in Markers : DaemonReply(q, marker)
       PROVE  UNCHANGED slot
  BY <1>12 DEF Network, Route, DaemonTake, PipeDown, ReplySent, PipeStart, Crash, DaemonReply, NetworkOnly
<1>13. QED
  BY <1>2, <1>3, <1>4, <1>5, <1>6, <1>8, <1>9, <1>10, <1>11, <1>12 DEF Next, Callback

\* The host cancels once at a time.
LEMMA CancelMoves ==
  ASSUME Next
  PROVE  UNCHANGED cancels \/ \E id \in CancelIds : cancels' = [cancels EXCEPT ![id] = @ + 1]
<1>1. ASSUME DrainStep \/ DrainEnd \/ RearmHost \/ SigCb \/ (\E o \in orphan : SendConnReset(o))
      PROVE  UNCHANGED cancels
  BY <1>1 DEF DrainStep, DrainEnd, RearmHost, SigCb, SendConnReset
<1>2. ASSUME \/ \E p \in Pipes : HandleConnect(p) \/ InitCb(p) \/ HandleDisconnect(p)
             \/ \E m \in arrived : HandleDaemonRecv(m)
             \/ \E h \in Headers(count + 1) : HandleHostRecv(h)
      PROVE  UNCHANGED cancels
  BY <1>2 DEF HandleConnect, InitCb, HandleDisconnect, HandleDaemonRecv, HandleHostRecv
<1>3. ASSUME Gate \/ (\E n \in Targets : Wait(n)) \/ Recheck \/ Stop \/ Freed \/ Shutdown
      PROVE  UNCHANGED cancels
  BY <1>3 DEF Gate, Wait, Recheck, RThreadOnly, Stop, Freed, vars, Shutdown, StopHost, StopRecv, StopSig,
         ClosePoly, PolyClosed, FreeSenders, CloseReplies, CloseQueue, CloseRep
<1>4. ASSUME \/ Network \/ (\E p \in Pipes : PipeStart(p) \/ Crash(p))
             \/ \E p \in Pipes, marker \in Markers : DaemonReply(p, marker)
      PROVE  UNCHANGED cancels
  BY <1>4 DEF Network, Route, DaemonTake, PipeDown, ReplySent, PipeStart, Crash, DaemonReply, NetworkOnly
<1>5. ASSUME \E id \in CancelIds : CancelDirect(id)
      PROVE  \E id \in CancelIds : cancels' = [cancels EXCEPT ![id] = @ + 1]
  BY <1>5 DEF CancelDirect
<1>6. QED
  BY <1>1, <1>2, <1>3, <1>4, <1>5 DEF Next, Callback

-----------------------------------------------------------------------------
(* The init message goes before the first task, and signals come after it.   *)

\* What is sent is a task, the init message or a signal.
Kinds == \A e \in entries : e.msg \in Task \cup {InitMsg, Signal}

\* A daemon before its init message has replied to nothing; none was to be
\* interrupted before its first task; and no signal is ahead of that task.
Quiet(p) ==
  /\ ~Back(p)
  /\ slot[p].state \in {"INIT", "IDLE"} => Unsignalled(p)
  /\ \A i \in 1..Len(uwq) : uwq[i].pipe = p /\ uwq[i].msg \in Task =>
       /\ \A j \in 1..Len(chan[p]) : chan[p][j] # Signal
       /\ \A j \in 1..(i - 1) : uwq[j] # Sig(p)

Early(p) ==
  /\ p \notin up => chan[p] = <<>>
  /\ phase[p] \in {"none", "attached"} =>
       /\ daemon[p] = NewDaemon /\ chan[p] = <<>> /\ Unsignalled(p)
       /\ \A e \in entries : e.pipe # p
  /\ [pipe |-> p, msg |-> InitMsg] \in entries =>
       daemon[p] = NewDaemon /\ chan[p] = <<>> /\ (p \notin up \/ slot[p].state = "INIT")
  /\ \A i \in 1..Len(chan[p]) :
       /\ chan[p][i] \in Task \cup {InitMsg, Signal}
       /\ chan[p][i] = InitMsg => i = 1 /\ daemon[p] = NewDaemon
  /\ daemon[p] = NewDaemon => Quiet(p)

LEMMA KindsNext ==
  ASSUME IInv, Stages, Next, Kinds
  PROVE  Kinds'
  BY EntryChanges DEF Kinds

LEMMA HeadEntry ==
  ASSUME IInv, uwq # <<>>
  PROVE  /\ Head(uwq) \in entries /\ Head(uwq) = uwq[1] /\ 1 \in 1..Len(uwq)
         /\ Head(uwq) = [pipe |-> Head(uwq).pipe, msg |-> Head(uwq).msg]
         /\ Head(uwq).pipe \in Pipes /\ Head(uwq).msg \in Int
<1>1. uwq \in Seq([pipe : Pipes, msg : Int])
  BY LockTypes
<1>2. Head(uwq) = uwq[1] /\ 1 \in 1..Len(uwq) /\ Head(uwq) \in [pipe : Pipes, msg : Int]
  BY <1>1, TailElements, HeadTailProperties
<1>3. QED
  BY <1>2 DEF entries

\* A message in the pipe was there before, or the poly socket has passed it on.
LEMMA ChanElements ==
  ASSUME IInv, NEW p \in Pipes, PipeMoves(p), NEW i \in 1..Len(chan'[p])
  PROVE  \/ i \in 1..Len(chan[p]) /\ chan'[p][i] = chan[p][i]
         \/ Taken(p) /\ i + 1 \in 1..Len(chan[p]) /\ chan'[p][i] = chan[p][i + 1]
         \/ Routed(p) /\ i = Len(chan[p]) + 1 /\ chan'[p][i] = Head(uwq).msg
<1>1. chan[p] \in Seq(Int) /\ uwq \in Seq([pipe : Pipes, msg : Int])
  BY LockTypes
<1>2. CASE Still(p) \/ Replied(p)
  BY <1>2 DEF Still, Replied
<1>3. CASE Cut(p)
  BY <1>3, EmptySeq DEF Cut
<1>4. CASE Taken(p)
  BY <1>1, <1>4, TailElements DEF Taken
<1>5. CASE Routed(p)
  <2>1. Head(uwq).msg \in Int /\ chan'[p] = Append(chan[p], Head(uwq).msg)
    BY <1>1, <1>5, HeadEntry DEF Routed
  <2>2. /\ Len(chan'[p]) = Len(chan[p]) + 1 /\ Len(chan[p]) \in Nat
        /\ chan'[p][Len(chan[p]) + 1] = Head(uwq).msg
        /\ \A j \in 1..Len(chan'[p]) : j = Len(chan[p]) + 1 \/ (j \in 1..Len(chan[p]) /\ chan'[p][j] = chan[p][j])
    BY <1>1, <2>1, AppendElements
  <2>3. QED
    BY <1>5, <2>2
<1>6. QED
  BY <1>2, <1>3, <1>4, <1>5 DEF PipeMoves

\* A daemon that is not busy is not sent a signal.
LEMMA UnsignalledStays ==
  ASSUME IInv, NEW p \in Pipes, PipeMoves(p), SendMoves, slot[p].state # "BUSY", Unsignalled(p)
  PROVE  Unsignalled(p)'
<1>1. /\ uwq \in Seq([pipe : Pipes, msg : Int]) /\ sig_list \in Seq(Pipes)
      /\ \A q \in Pipes : /\ Sig(q) \in [pipe : Pipes, msg : Int] /\ Sig(q).pipe = q /\ Sig(q).msg = Signal
                          /\ Caused(q) => q # p
  BY LockTypes DEF Sig, Signal, Caused
<1> DEFINE NoneSent == \A i \in 1..Len(uwq') : uwq'[i] # Sig(p)
           NoneListed == \A i \in 1..Len(sig_list') : sig_list'[i] # p
<1>2. ASSUME NEW x \in [pipe : Pipes, msg : Int], x # Sig(p), uwq' = Append(uwq, x) PROVE NoneSent
  BY <1>1, <1>2, AppendElements DEF Unsignalled
<1>3. ASSUME UNCHANGED uwq PROVE NoneSent
  BY <1>3 DEF Unsignalled
<1>4. ASSUME UNCHANGED sig_list PROVE NoneListed
  BY <1>4 DEF Unsignalled
<1>5. ASSUME sig_list # <<>>, sig_list' = Tail(sig_list) PROVE NoneListed /\ Head(sig_list) # p /\ Head(sig_list) \in Pipes
  BY <1>1, <1>5, TailElements, HeadTailProperties DEF Unsignalled
<1>6. ASSUME uwq # <<>>, uwq' = Tail(uwq), UNCHANGED sig_list PROVE NoneSent /\ NoneListed
  <2>1. \A i \in 1..Len(uwq') : i + 1 \in 1..Len(uwq) /\ uwq'[i] = uwq[i + 1]
    BY <1>1, <1>6, TailElements
  <2>2. QED
    BY <1>4, <1>6, <2>1 DEF Unsignalled
<1>7. ASSUME NEW q \in Pipes, uwq' = Append(uwq, Sig(q)), UNCHANGED sig_list, Caused(q)
      PROVE  NoneSent /\ NoneListed
  <2>1. Sig(q) # Sig(p)
    BY <1>1, <1>7
  <2>2. QED
    BY <1>1, <1>2, <1>4, <1>7, <2>1
<1>8. ASSUME NEW q \in Pipes, sig_list' = Append(sig_list, q), UNCHANGED uwq, Caused(q)
      PROVE  NoneSent /\ NoneListed
  <2>1. q # p
    BY <1>1, <1>8
  <2>2. NoneListed
    BY <1>1, <1>8, <2>1, AppendElements DEF Unsignalled
  <2>3. QED
    BY <1>3, <1>8, <2>2
<1>9. ASSUME sig_list # <<>>, sig_list' = Tail(sig_list), uwq' = Append(uwq, Sig(Head(sig_list)))
      PROVE  NoneSent /\ NoneListed
  <2>1. NoneListed /\ Sig(Head(sig_list)) \in [pipe : Pipes, msg : Int] /\ Sig(Head(sig_list)) # Sig(p)
    BY <1>1, <1>5, <1>9
  <2>2. QED
    BY <1>2, <1>9, <2>1
<1>10. ASSUME NEW q \in Pipes, uwq' = Append(uwq, [pipe |-> q, msg |-> InitMsg]), UNCHANGED sig_list
       PROVE  NoneSent /\ NoneListed
  <2>1. [pipe |-> q, msg |-> InitMsg] \in [pipe : Pipes, msg : Int] /\ [pipe |-> q, msg |-> InitMsg] # Sig(p)
    BY DEF Sig, InitMsg, Signal
  <2>2. QED
    BY <1>2, <1>4, <1>10, <2>1
<1>11. ASSUME NEW q \in Pipes, NEW t \in Task, uwq' = Append(uwq, [pipe |-> q, msg |-> t]), UNCHANGED sig_list
       PROVE  NoneSent /\ NoneListed
  <2>1. [pipe |-> q, msg |-> t] \in [pipe : Pipes, msg : Int] /\ [pipe |-> q, msg |-> t] # Sig(p)
    BY DEF Sig, Task, Signal
  <2>2. QED
    BY <1>2, <1>4, <1>11, <2>1
<1>12. ASSUME NEW i \in 1..Len(chan'[p]) PROVE chan'[p][i] # Signal
  <2>1. ASSUME Routed(p) PROVE Head(uwq).msg # Signal
    <3>1. Head(uwq) = uwq[1] /\ 1 \in 1..Len(uwq) /\ Head(uwq) = [pipe |-> Head(uwq).pipe, msg |-> Head(uwq).msg]
      BY <1>1, <2>1, HeadEntry, TailElements DEF Routed
    <3>2. QED
      BY <2>1, <3>1 DEF Routed, Unsignalled, Sig
  <2>2. QED
    BY <1>12, <2>1, ChanElements DEF Unsignalled
<1> HIDE DEF NoneSent, NoneListed
<1>13. NoneSent /\ NoneListed
  BY <1>3, <1>4, <1>6, <1>7, <1>8, <1>9, <1>10, <1>11 DEF SendMoves, NoneSent, IdleDaemons
<1>14. QED
  BY <1>12, <1>13 DEF Unsignalled, NoneSent, NoneListed

\* A slot is idle after a connect, or after a reply of its daemon.
LEMMA IdleComesFrom ==
  ASSUME IInv, Next, NEW p \in Pipes, slot'[p].state \in {"INIT", "IDLE"}
  PROVE  \/ slot[p].state \in {"INIT", "IDLE"}
         \/ slot[p].state = "BUSY" /\ Back(p)
         \/ slot[p].state = "NONE" /\ phase[p] = "attached"
<1>1. slot[p] \in Slot
  BY LockTypes
<1>2. NoSlot.state = "NONE" /\ (p \in IdleDaemons => slot[p].state = "IDLE")
  BY DEF NoSlot, IdleDaemons
<1>3. HandleConnect(p) => phase[p] = "attached" /\ slot[p].state = "NONE"
  BY DEF HandleConnect, IInv, Linked
<1>4. (\E m \in arrived : m.pipe = p) => Back(p)
  BY DEF Back
<1>5. QED
  BY <1>1, <1>2, <1>3, <1>4, SlotChanges DEF Slot

\* A send is known by its pipe and its message.
LEMMA SendIs ==
  ASSUME NEW q \in Seq([pipe : Pipes, msg : Int]), NEW i \in 1..Len(q)
  PROVE  q[i] = [pipe |-> q[i].pipe, msg |-> q[i].msg] /\ q[i].pipe \in Pipes
<1>1. q[i] \in [pipe : Pipes, msg : Int]
  BY ElementOfSeq
<1>2. QED
  BY <1>1

LEMMA SendsTyped ==
  ASSUME IInv, Next
  PROVE  uwq' \in Seq([pipe : Pipes, msg : Int])
<1>1. IInv'
  BY NextIInv
<1>2. QED
  BY <1>1 DEF IInv, TypeOK, TypeSends

\* Before its callback has run, nothing is sent to a pipe.
LEMMA BeforeConnect ==
  ASSUME IInv, Stages, Next, NEW p \in Pipes, PipeMoves(p), SendMoves, Early(p),
         phase'[p] \in {"none", "attached"}
  PROVE  /\ daemon'[p] = NewDaemon /\ chan'[p] = <<>> /\ Unsignalled(p)'
         /\ \A e \in entries' : e.pipe # p
<1>1. /\ phase[p] \in {"none", "attached"} /\ slot[p].state = "NONE"
      /\ phase \in [Pipes -> {"none", "attached", "added", "removed"}]
  BY PhaseChanges, LockTypes DEF IInv, Linked
<1>2. /\ daemon[p] = NewDaemon /\ chan[p] = <<>> /\ Unsignalled(p)
      /\ \A e \in entries : e.pipe # p
  BY <1>1 DEF Early
<1>3. Unsignalled(p)'
  BY <1>1, <1>2, UnsignalledStays
<1>4. daemon'[p] = NewDaemon /\ chan'[p] = <<>>
  <2>1. ~Routed(p)
    BY <1>2, HeadEntry DEF Routed
  <2>2. ~Taken(p) /\ ~Replied(p)
    BY <1>2 DEF Taken, Replied, NewDaemon, Task
  <2>3. QED
    BY <1>2, <2>1, <2>2 DEF PipeMoves, Still, Cut
<1>5. ASSUME NEW e \in entries', e.pipe = p PROVE FALSE
  <2>1. e.msg # Signal
    <3>1. PICK i \in 1..Len(uwq') : e = uwq'[i]
      BY DEF entries
    <3>2. e = [pipe |-> p, msg |-> e.msg]
      BY <1>5, <3>1, SendsTyped, SendIs
    <3>3. QED
      BY <1>3, <3>1, <3>2 DEF Unsignalled, Sig
  <2>2. ~HandleConnect(p)
    BY <1>1 DEF HandleConnect
  <2>3. p \notin IdleDaemons
    BY <1>1 DEF IdleDaemons
  <2>4. QED
    BY <1>2, <1>5, <2>1, <2>2, <2>3, EntryChanges
<1>6. QED
  BY <1>3, <1>4, <1>5

\* Until the init message is passed on, nothing else is.
LEMMA BeforeInit ==
  ASSUME FlowInv, Kinds, Next, ~stopped', NEW p \in Pipes, Early(p),
         [pipe |-> p, msg |-> InitMsg] \in entries'
  PROVE  daemon'[p] = NewDaemon /\ chan'[p] = <<>> /\ (p \notin up' \/ slot'[p].state = "INIT")
<1> DEFINE e == [pipe |-> p, msg |-> InitMsg]
<1>1. IInv /\ Stages /\ Sends /\ Flow /\ PipeMoves(p)
  BY PipeMovesNext DEF FlowInv
<1>2. e.pipe = p /\ e.msg = InitMsg /\ InitMsg # Signal /\ InitMsg \notin Task
  BY DEF InitMsg, Signal, Task
<1>3. CASE e \in entries
  <2>1. /\ daemon[p] = NewDaemon /\ chan[p] = <<>> /\ (p \notin up \/ slot[p].state = "INIT")
        /\ init_aio[p] = "sending" /\ phase[p] \notin {"none", "attached"}
    BY <1>1, <1>2, <1>3 DEF Early, Sends
  <2>2. ~Routed(p)
    <3>1. ASSUME Routed(p) PROVE FALSE
      <4>1. /\ p \in up /\ uwq # <<>> /\ uwq' = Tail(uwq)
            /\ Head(uwq) = [pipe |-> p, msg |-> Head(uwq).msg] /\ Head(uwq) \in entries
            /\ Head(uwq) = uwq[1] /\ 1 \in 1..Len(uwq)
        BY <1>1, <3>1, HeadEntry DEF Routed
      <4>2. Untasked(p) /\ Unsignalled(p)
        BY <1>1, <2>1, <4>1 DEF Flow, Early, Quiet
      <4>3. Head(uwq).msg \notin Task
        BY <4>1, <4>2, TaskEntries DEF Untasked
      <4>4. Head(uwq).msg # Signal
        BY <4>1, <4>2 DEF Unsignalled, Sig
      <4>5. Head(uwq) = e
        BY <4>1, <4>3, <4>4 DEF Kinds
      <4>6. \A i \in 1..Len(Tail(uwq)) : Tail(uwq)[i] # e
        <5>1. uwq \in Seq([pipe : Pipes, msg : Int])
          BY <1>1, LockTypes
        <5>2. QED
          BY <1>1, <1>2, <4>1, <4>5, <5>1, SentOnceChanges DEF Sends
      <4>7. QED
        BY <4>1, <4>6 DEF entries
    <3>2. QED
      BY <3>1
  <2>3. ~Taken(p) /\ ~Replied(p)
    BY <2>1 DEF Taken, Replied, NewDaemon, Task
  <2>4. /\ daemon'[p] = NewDaemon /\ chan'[p] = <<>> /\ (p \in up' => p \in up)
    BY <1>1, <2>1, <2>2, <2>3 DEF PipeMoves, Still, Cut
  <2>5. ASSUME p \in up' PROVE slot'[p].state = "INIT"
    <3>1. p \in up /\ slot[p].state = "INIT"
      BY <2>1, <2>4, <2>5
    <3>2. ~HandleConnect(p) /\ ~InitCb(p) /\ p \notin IdleDaemons
      BY <2>1, <3>1 DEF HandleConnect, InitCb, IdleDaemons
    <3>3. slot'[p] # NoSlot
      BY <1>1, <3>1, RemovedWhenDown
    <3>4. QED
      BY <1>1, <3>1, <3>2, <3>3, SlotChanges
  <2>6. QED
    BY <2>4, <2>5
<1>4. CASE e \notin entries
  <2>1. HandleConnect(p) /\ init_aio'[p] = "sending"
    BY <1>1, <1>2, <1>4, EntryChanges
  <2>2. phase[p] = "attached"
    BY <2>1 DEF HandleConnect
  <2>3. /\ daemon[p] = NewDaemon /\ chan[p] = <<>> /\ init_aio[p] = "idle"
        /\ \A x \in entries : x.pipe # p
    BY <1>1, <2>2 DEF Early, Sends
  <2>4. slot'[p].state = "INIT"
    BY <1>1, <2>1, <2>3, InitAioChanges
  <2>5. ~Routed(p) /\ ~Taken(p) /\ ~Replied(p)
    BY <1>1, <2>3, HeadEntry DEF Routed, Taken, Replied, NewDaemon, Task
  <2>6. daemon'[p] = NewDaemon /\ chan'[p] = <<>>
    BY <1>1, <2>3, <2>5 DEF PipeMoves, Still, Cut
  <2>7. QED
    BY <2>4, <2>6
<1>5. QED
  BY <1>3, <1>4

\* The init message is the first of its pipe, and its daemon has not read it.
LEMMA InitFirst ==
  ASSUME FlowInv, Kinds, Next, ~stopped', NEW p \in Pipes, Early(p), NEW i \in 1..Len(chan'[p])
  PROVE  /\ chan'[p][i] \in Task \cup {InitMsg, Signal}
         /\ chan'[p][i] = InitMsg => i = 1 /\ daemon'[p] = NewDaemon
<1>1. IInv /\ PipeMoves(p) /\ chan[p] \in Seq(Int)
  BY PipeMovesNext, LockTypes DEF FlowInv
<1>2. \A j \in 1..Len(chan[p]) :
        /\ chan[p][j] \in Task \cup {InitMsg, Signal}
        /\ chan[p][j] = InitMsg => j = 1 /\ daemon[p] = NewDaemon
  BY DEF Early
<1>3. CASE Routed(p)
  <2>1. UNCHANGED daemon /\ Head(uwq) \in entries /\ Head(uwq) = [pipe |-> p, msg |-> Head(uwq).msg]
        /\ chan'[p] = Append(chan[p], Head(uwq).msg) /\ Head(uwq).msg \in Int
    BY <1>1, <1>3, HeadEntry DEF Routed
  <2>2. \/ i \in 1..Len(chan[p]) /\ chan'[p][i] = chan[p][i]
        \/ i = Len(chan[p]) + 1 /\ chan'[p][i] = Head(uwq).msg
    BY <1>1, <2>1, AppendElements
  <2>3. CASE i \in 1..Len(chan[p]) /\ chan'[p][i] = chan[p][i]
    BY <1>2, <2>1, <2>3
  <2>4. CASE i = Len(chan[p]) + 1 /\ chan'[p][i] = Head(uwq).msg
    <3>1. Head(uwq).msg \in Task \cup {InitMsg, Signal}
      BY <2>1 DEF Kinds
    <3>2. ASSUME Head(uwq).msg = InitMsg PROVE chan[p] = <<>> /\ daemon[p] = NewDaemon
      <4>1. [pipe |-> p, msg |-> InitMsg] \in entries
        BY <2>1, <3>2
      <4>2. QED
        BY <4>1 DEF Early
    <3>3. QED
      BY <2>1, <2>4, <3>1, <3>2, EmptySeq
  <2>5. QED
    BY <2>2, <2>3, <2>4
<1>4. CASE Taken(p)
  <2>1. chan[p] # <<>> /\ chan'[p] = Tail(chan[p])
    BY <1>4 DEF Taken
  <2>2. i + 1 \in 1..Len(chan[p]) /\ chan'[p][i] = chan[p][i + 1] /\ i + 1 # 1
    BY <1>1, <2>1, TailElements
  <2>3. QED
    BY <1>2, <2>2
<1>5. CASE Still(p)
  BY <1>2, <1>5 DEF Still
<1>6. CASE Cut(p)
  BY <1>6, EmptySeq DEF Cut
<1>7. CASE Replied(p)
  <2>1. UNCHANGED chan /\ daemon[p] # NewDaemon
    BY <1>7 DEF Replied, NewDaemon, Task
  <2>2. QED
    BY <1>2, <2>1
<1>8. QED
  BY <1>1, <1>3, <1>4, <1>5, <1>6, <1>7 DEF PipeMoves

\* What is ahead of a task among the sends was ahead of it before.
LEMMA Ahead ==
  ASSUME IInv, SendMoves, NEW i \in 1..Len(uwq'), uwq'[i].msg \in Task
  PROVE  \/ \E k \in 1..Len(uwq) :
              /\ uwq'[i] = uwq[k]
              /\ \A j \in 1..(i - 1) : \E l \in 1..(k - 1) : uwq'[j] = uwq[l]
              /\ uwq # <<>> /\ uwq' = Tail(uwq) => 1 \in 1..(k - 1)
         \/ /\ uwq'[i].pipe \in IdleDaemons /\ Len(uwq') # Len(Tail(uwq))
            /\ \A j \in 1..(i - 1) : j \in 1..Len(uwq) /\ uwq'[j] = uwq[j]
<1> DEFINE Before ==
             \E k \in 1..Len(uwq) :
               /\ uwq'[i] = uwq[k]
               /\ \A j \in 1..(i - 1) : \E l \in 1..(k - 1) : uwq'[j] = uwq[l]
               /\ uwq # <<>> /\ uwq' = Tail(uwq) => 1 \in 1..(k - 1)
           New ==
             /\ uwq'[i].pipe \in IdleDaemons /\ Len(uwq') # Len(Tail(uwq))
             /\ \A j \in 1..(i - 1) : j \in 1..Len(uwq) /\ uwq'[j] = uwq[j]
<1>1. uwq \in Seq([pipe : Pipes, msg : Int]) /\ Len(uwq) \in Nat /\ sig_list \in Seq(Pipes)
  BY LockTypes, LenProperties
<1>2. uwq # <<>> => Len(Tail(uwq)) = Len(uwq) - 1
  BY <1>1, TailElements
<1>3. CASE UNCHANGED uwq
  <2>1. ~ (uwq # <<>> /\ uwq' = Tail(uwq))
    BY <1>1, <1>2, <1>3
  <2>2. i \in 1..Len(uwq) /\ uwq'[i] = uwq[i] /\ \A j \in 1..(i - 1) : uwq'[j] = uwq[j]
    BY <1>3
  <2>3. Before
    BY <2>1, <2>2
  <2>4. QED
    BY <2>3
<1>4. CASE uwq # <<>> /\ uwq' = Tail(uwq)
  <2>1. \A j \in 1..Len(uwq') : j + 1 \in 1..Len(uwq) /\ uwq'[j] = uwq[j + 1]
    BY <1>1, <1>4, TailElements
  <2>2. \A j \in 1..(i - 1) : j \in 1..Len(uwq') /\ j + 1 \in 1..((i + 1) - 1)
    BY <1>1, <1>2, <1>4
  <2>3. 1 \in 1..((i + 1) - 1) /\ i + 1 \in 1..Len(uwq) /\ uwq'[i] = uwq[i + 1]
    BY <1>1, <2>1
  <2>4. \A j \in 1..(i - 1) : \E l \in 1..((i + 1) - 1) : uwq'[j] = uwq[l]
    BY <2>1, <2>2
  <2>5. Before
    BY <2>3, <2>4
  <2>6. QED
    BY <2>5
<1>5. ASSUME NEW x \in [pipe : Pipes, msg : Int], uwq' = Append(uwq, x),
             x.msg \notin Task \/ x.pipe \in IdleDaemons
      PROVE  Before \/ New
  <2>1. /\ Len(uwq') = Len(uwq) + 1 /\ uwq'[Len(uwq) + 1] = x
        /\ \A j \in 1..Len(uwq') : j = Len(uwq) + 1 \/ (j \in 1..Len(uwq) /\ uwq'[j] = uwq[j])
    BY <1>1, <1>5, AppendElements
  <2>2. \A j \in 1..(i - 1) : j \in 1..Len(uwq) /\ uwq'[j] = uwq[j]
    BY <1>1, <2>1
  <2>3. uwq # <<>> => Len(uwq') # Len(Tail(uwq))
    BY <1>1, <1>2, <2>1
  <2>4. CASE i \in 1..Len(uwq) /\ uwq'[i] = uwq[i]
    <3>1. Before
      BY <2>2, <2>3, <2>4
    <3>2. QED
      BY <3>1
  <2>5. CASE i = Len(uwq) + 1
    <3>1. uwq'[i].pipe \in IdleDaemons
      BY <1>5, <2>1, <2>5
    <3>2. Len(uwq') # Len(Tail(uwq))
      <4>1. CASE uwq = <<>>
        <5>1. Tail(uwq) = <<>> /\ Len(uwq) = 0
          BY <4>1, EmptySeq
        <5>2. QED
          BY <2>1, <4>1, <5>1
      <4>2. QED
        BY <2>3, <4>1
    <3>3. QED
      BY <2>2, <3>1, <3>2
  <2>6. QED
    BY <2>1, <2>4, <2>5
<1>6. ASSUME NEW q \in Pipes, uwq' = Append(uwq, Sig(q)) PROVE Before \/ New
  <2>1. Sig(q) \in [pipe : Pipes, msg : Int] /\ Sig(q).msg \notin Task
    BY DEF Sig, Signal, Task
  <2>2. QED
    BY <1>5, <1>6, <2>1
<1>7. ASSUME NEW q \in Pipes, uwq' = Append(uwq, [pipe |-> q, msg |-> InitMsg]) PROVE Before \/ New
  <2>1. [pipe |-> q, msg |-> InitMsg] \in [pipe : Pipes, msg : Int] /\ InitMsg \notin Task
    BY DEF InitMsg, Task
  <2>2. QED
    BY <1>5, <1>7, <2>1
<1>8. ASSUME NEW q \in IdleDaemons, NEW t \in Task, uwq' = Append(uwq, [pipe |-> q, msg |-> t])
      PROVE  Before \/ New
  <2>1. [pipe |-> q, msg |-> t] \in [pipe : Pipes, msg : Int]
    BY DEF Task, IdleDaemons
  <2>2. QED
    BY <1>5, <1>8, <2>1
<1>9. sig_list # <<>> => Head(sig_list) \in Pipes
  BY <1>1, HeadTailProperties
<1>10. ASSUME UNCHANGED uwq \/ (uwq # <<>> /\ uwq' = Tail(uwq)) PROVE Before \/ New
  BY <1>3, <1>4, <1>10
<1> HIDE DEF Before, New
<1>11. Before \/ New
  BY <1>6, <1>7, <1>8, <1>9, <1>10 DEF SendMoves
<1>12. QED
  BY <1>11 DEF Before, New

LEMMA QuietStays ==
  ASSUME FlowInv, Kinds, Next, ~stopped', NEW p \in Pipes, Early(p), daemon'[p] = NewDaemon
  PROVE  Quiet(p)'
<1>1. IInv /\ Stages /\ PipeMoves(p) /\ SendMoves /\ slot[p] \in Slot
  BY PipeMovesNext, SendMovesNext, LockTypes DEF FlowInv
<1>2. daemon[p] = NewDaemon
  BY <1>1 DEF PipeMoves, Still, Cut, Routed, Taken, Replied, NewDaemon, Ready, Leaving, Task
<1>3. Quiet(p) /\ ~With(p)
  BY <1>2 DEF Early, With, NewDaemon, Task
<1>4. ~Back(p)'
  BY <1>1, <1>3, BackChanges DEF Quiet
<1>5. ASSUME slot'[p].state \in {"INIT", "IDLE"} PROVE Unsignalled(p)'
  <2>1. slot[p].state # "BUSY" /\ Unsignalled(p)
    BY <1>1, <1>3, <1>5, IdleComesFrom DEF Quiet, Early
  <2>2. QED
    BY <1>1, <2>1, UnsignalledStays
<1>6. ASSUME NEW i \in 1..Len(uwq'), uwq'[i].pipe = p, uwq'[i].msg \in Task
      PROVE  /\ \A j \in 1..Len(chan'[p]) : chan'[p][j] # Signal
             /\ \A j \in 1..(i - 1) : uwq'[j] # Sig(p)
  <2>1. CASE \E k \in 1..Len(uwq) :
               /\ uwq'[i] = uwq[k]
               /\ \A j \in 1..(i - 1) : \E l \in 1..(k - 1) : uwq'[j] = uwq[l]
               /\ uwq # <<>> /\ uwq' = Tail(uwq) => 1 \in 1..(k - 1)
    <3>1. PICK k \in 1..Len(uwq) :
               /\ uwq'[i] = uwq[k]
               /\ \A j \in 1..(i - 1) : \E l \in 1..(k - 1) : uwq'[j] = uwq[l]
               /\ uwq # <<>> /\ uwq' = Tail(uwq) => 1 \in 1..(k - 1)
      BY <2>1
    <3>2. /\ \A j \in 1..Len(chan[p]) : chan[p][j] # Signal
          /\ \A j \in 1..(k - 1) : uwq[j] # Sig(p)
      BY <1>3, <1>6, <3>1 DEF Quiet
    <3>3. ASSUME Routed(p) PROVE Head(uwq).msg # Signal
      <4>1. /\ Head(uwq) = uwq[1] /\ Head(uwq) = [pipe |-> p, msg |-> Head(uwq).msg]
            /\ 1 \in 1..(k - 1)
        BY <1>1, <3>1, <3>3, HeadEntry DEF Routed
      <4>2. QED
        BY <3>2, <4>1 DEF Sig
    <3>4. \A j \in 1..Len(chan'[p]) : chan'[p][j] # Signal
      BY <1>1, <3>2, <3>3, ChanElements
    <3>5. QED
      BY <3>1, <3>2, <3>4
  <2>2. CASE /\ uwq'[i].pipe \in IdleDaemons /\ Len(uwq') # Len(Tail(uwq))
             /\ \A j \in 1..(i - 1) : j \in 1..Len(uwq) /\ uwq'[j] = uwq[j]
    <3>1. Unsignalled(p)
      BY <1>3, <1>6, <2>2 DEF Quiet, IdleDaemons
    <3>2. ~Routed(p)
      BY <2>2 DEF Routed
    <3>3. \A j \in 1..Len(chan'[p]) : chan'[p][j] # Signal
      BY <1>1, <3>1, <3>2, ChanElements DEF Unsignalled
    <3>4. QED
      BY <2>2, <3>1, <3>3 DEF Unsignalled
  <2>3. QED
    BY <1>1, <1>6, <2>1, <2>2, Ahead
<1>7. QED
  BY <1>4, <1>5, <1>6 DEF Quiet, Sig

LEMMA EarlyNext ==
  ASSUME FlowInv, Kinds, Next, ~stopped', NEW p \in Pipes, Early(p)
  PROVE  Early(p)'
<1>1. IInv /\ Stages /\ PipeMoves(p) /\ SendMoves
  BY PipeMovesNext, SendMovesNext DEF FlowInv
<1>2. p \notin up' => chan'[p] = <<>>
  BY <1>1 DEF PipeMoves, Still, Cut, Routed, Taken, Replied, Early
<1>3. phase'[p] \in {"none", "attached"} =>
        /\ daemon'[p] = NewDaemon /\ chan'[p] = <<>> /\ Unsignalled(p)'
        /\ \A e \in entries' : e.pipe # p
  BY <1>1, BeforeConnect
<1>4. [pipe |-> p, msg |-> InitMsg] \in entries' =>
        daemon'[p] = NewDaemon /\ chan'[p] = <<>> /\ (p \notin up' \/ slot'[p].state = "INIT")
  BY BeforeInit
<1>5. \A i \in 1..Len(chan'[p]) :
        /\ chan'[p][i] \in Task \cup {InitMsg, Signal}
        /\ chan'[p][i] = InitMsg => i = 1 /\ daemon'[p] = NewDaemon
  BY InitFirst
<1>6. daemon'[p] = NewDaemon => Quiet(p)'
  BY QuietStays
<1>7. QED
  BY <1>2, <1>3, <1>4, <1>5, <1>6 DEF Early, NewDaemon, InitMsg, Signal, Task

-----------------------------------------------------------------------------
(* There are no more signals to a daemon than cancellations.                 *)

Tally ==
  /\ IsFiniteSet(Units(CancelIds, cancels))
  /\ \A p \in Pipes : slot[p].state # "NONE" => SignalsTo(p) <= Cancellations

LEMMA CancellationsGrow ==
  ASSUME IInv, Next, IsFiniteSet(Units(CancelIds, cancels))
  PROVE  /\ IsFiniteSet(Units(CancelIds, cancels'))
         /\ Cancellations \in Nat /\ Cancellations' \in Nat /\ Cancellations <= Cancellations'
<1>1. Cancellations \in Nat
  BY FS_CardinalityType DEF Cancellations, SumOver
<1>2. CASE UNCHANGED cancels
  <2>1. Cancellations' = Cancellations
    BY <1>2 DEF Cancellations
  <2>2. QED
    BY <1>1, <1>2, <2>1
<1>3. ASSUME NEW id \in CancelIds, cancels' = [cancels EXCEPT ![id] = @ + 1]
      PROVE  IsFiniteSet(Units(CancelIds, cancels')) /\ Cancellations' = Cancellations + 1
  BY <1>3, OneMoreCancellation
<1>4. CASE \E id \in CancelIds : cancels' = [cancels EXCEPT ![id] = @ + 1]
  <2>1. PICK id \in CancelIds : cancels' = [cancels EXCEPT ![id] = @ + 1]
    BY <1>4
  <2>2. IsFiniteSet(Units(CancelIds, cancels')) /\ Cancellations' = Cancellations + 1
    BY <1>3, <2>1, Zenon
  <2>3. QED
    BY <1>1, <2>2
<1>5. QED
  BY <1>2, <1>4, CancelMoves

\* A signal gets into a pipe from the sends.
LEMMA ChanSignals ==
  ASSUME IInv, NEW p \in Pipes, PipeMoves(p)
  PROVE  /\ Times(chan[p], Signal) \in Nat /\ Times(chan'[p], Signal) \in Nat
         /\ \/ Times(chan'[p], Signal) <= Times(chan[p], Signal)
            \/ /\ uwq # <<>> /\ uwq' = Tail(uwq) /\ Head(uwq) = Sig(p)
               /\ Times(chan'[p], Signal) = Times(chan[p], Signal) + 1
<1>1. chan[p] \in Seq(Int) /\ <<>> \in Seq(Int) /\ Times(chan[p], Signal) \in Nat
  BY LockTypes, TimesIn, EmptySeq
<1>2. CASE Still(p) \/ Replied(p)
  BY <1>1, <1>2 DEF Still, Replied
<1>3. CASE Cut(p)
  <2>1. Len(<<>>) = 0 /\ 1..0 = {}
    BY EmptySeq
  <2>2. \A i \in 1..Len(<<>>) : <<>>[i] # Signal
    BY <2>1
  <2>3. Times(<<>>, Signal) = 0
    BY <1>1, <2>2, TimesIn, Zenon
  <2>4. QED
    BY <1>1, <1>3, <2>3 DEF Cut
<1>4. CASE Taken(p)
  <2>1. chan[p] # <<>> /\ chan'[p] = Tail(chan[p])
    BY <1>4 DEF Taken
  <2>2. Times(Tail(chan[p]), Signal) = Times(chan[p], Signal) - (IF Head(chan[p]) = Signal THEN 1 ELSE 0)
    BY <1>1, <2>1, TimesTail
  <2>3. Times(Tail(chan[p]), Signal) \in Nat
    BY <1>1, <2>1, TimesIn, HeadTailProperties
  <2>4. QED
    BY <1>1, <2>1, <2>2, <2>3
<1>5. CASE Routed(p)
  <2>1. /\ uwq # <<>> /\ uwq' = Tail(uwq) /\ chan'[p] = Append(chan[p], Head(uwq).msg)
        /\ Head(uwq) = [pipe |-> p, msg |-> Head(uwq).msg] /\ Head(uwq).msg \in Int
    BY <1>5, HeadEntry DEF Routed
  <2>2. Times(chan'[p], Signal) = Times(chan[p], Signal) + (IF Head(uwq).msg = Signal THEN 1 ELSE 0)
    BY <1>1, <2>1, TimesAppend
  <2>3. Head(uwq).msg = Signal => Head(uwq) = Sig(p)
    BY <2>1 DEF Sig
  <2>4. QED
    BY <1>1, <2>1, <2>2, <2>3
<1>6. QED
  BY <1>2, <1>3, <1>4, <1>5 DEF PipeMoves

\* A daemon of whom nothing is known gets no signal.
LEMMA NoSignals ==
  ASSUME IInv, NEW p \in Pipes, Unsignalled(p)
  PROVE  SignalsTo(p) = 0
<1>1. Times(uwq, Sig(p)) = 0 /\ Times(chan[p], Signal) = 0 /\ Times(sig_list, p) = 0
  <2>1. uwq \in Seq([pipe : Pipes, msg : Int]) /\ chan[p] \in Seq(Int) /\ sig_list \in Seq(Pipes)
    BY LockTypes
  <2>2. QED
    BY <2>1, TimesIn DEF Unsignalled
<1>2. QED
  BY <1>1 DEF SignalsTo

\* Signals move from the list to the sends, from there to the pipe, and on to the
\* daemon; a new one is one more cancellation's, or that of a daemon that has left.
LEMMA SignalsGrow ==
  ASSUME IInv, Next, NEW p \in Pipes, PipeMoves(p), SendMoves,
         IsFiniteSet(Units(CancelIds, cancels)), SignalsTo(p) <= Cancellations, slot'[p].state # "NONE"
  PROVE  SignalsTo(p)' <= Cancellations'
<1> DEFINE u == Times(uwq, Sig(p))   u2 == Times(uwq', Sig(p))
           c == Times(chan[p], Signal)   c2 == Times(chan'[p], Signal)
           l == Times(sig_list, p)   l2 == Times(sig_list', p)
           n == Cancellations   n2 == Cancellations'
<1>1. /\ uwq \in Seq([pipe : Pipes, msg : Int]) /\ sig_list \in Seq(Pipes)
      /\ \A q \in Pipes : Sig(q) \in [pipe : Pipes, msg : Int]
      /\ \A q \in Pipes : Sig(q) = Sig(p) <=> q = p
  BY LockTypes DEF Sig, Signal
<1>2. u \in Nat /\ c \in Nat /\ l \in Nat /\ n \in Nat /\ n2 \in Nat /\ n <= n2 /\ u + c + l <= n
  <2>1. u \in Nat /\ l \in Nat
    BY <1>1, TimesIn
  <2>2. c \in Nat
    BY ChanSignals
  <2>3. QED
    BY <2>1, <2>2, CancellationsGrow DEF SignalsTo
<1>3. /\ c2 \in Nat
      /\ \/ c2 <= c
         \/ uwq # <<>> /\ uwq' = Tail(uwq) /\ Head(uwq) = Sig(p) /\ c2 = c + 1
  BY ChanSignals
<1>4. uwq # <<>> => Len(Tail(uwq)) = Len(uwq) - 1 /\ Len(uwq) \in Nat
  BY <1>1, TailElements
<1>5. Len(uwq) \in Nat
  BY <1>1, LenProperties
<1>6. ASSUME NEW x \in [pipe : Pipes, msg : Int], uwq' = Append(uwq, x)
      PROVE  u2 = u + (IF x = Sig(p) THEN 1 ELSE 0) /\ c2 <= c
  <2>1. u2 = u + (IF x = Sig(p) THEN 1 ELSE 0)
    <3>1. uwq \in Seq([pipe : Pipes, msg : Int]) /\ x \in [pipe : Pipes, msg : Int]
      BY <1>1, <1>6
    <3>2. Times(Append(uwq, x), Sig(p)) = Times(uwq, Sig(p)) + (IF x = Sig(p) THEN 1 ELSE 0)
      BY <3>1, TimesAppend
    <3>3. QED
      BY <1>6, <3>2
  <2>2. Len(uwq') = Len(uwq) + 1
    BY <1>1, <1>6, AppendElements
  <2>3. ~ (uwq # <<>> /\ uwq' = Tail(uwq))
    BY <1>4, <1>5, <2>2
  <2> HIDE DEF u, u2, c, c2
  <2>4. QED
    BY <1>3, <2>1, <2>3
<1>7. ASSUME NEW q \in Pipes, Caused(q) PROVE q = p => n2 = n + 1
  <2>1. ASSUME NEW id \in CancelIds, cancels' = [cancels EXCEPT ![id] = @ + 1] PROVE n2 = n + 1
    BY <2>1, OneMoreCancellation
  <2>2. slot'[q] = NoSlot => q # p
    BY DEF NoSlot
  <2>3. QED
    BY <1>7, <2>1, <2>2 DEF Caused
<1>8. (UNCHANGED uwq => u2 = u) /\ (UNCHANGED sig_list => l2 = l)
  OBVIOUS
<1>9. ASSUME uwq # <<>>, uwq' = Tail(uwq) PROVE u2 = u - (IF Head(uwq) = Sig(p) THEN 1 ELSE 0)
  BY <1>1, <1>9, TimesTail
<1>10. ASSUME sig_list # <<>>, sig_list' = Tail(sig_list)
       PROVE  Head(sig_list) \in Pipes /\ l2 = l - (IF Head(sig_list) = p THEN 1 ELSE 0)
  BY <1>1, <1>10, TimesTail, HeadTailProperties
<1>11. ASSUME NEW q \in Pipes, sig_list' = Append(sig_list, q) PROVE l2 = l + (IF q = p THEN 1 ELSE 0)
  BY <1>1, <1>11, TimesAppend
<1> HIDE DEF u, u2, c, c2, l, l2, n, n2
<1> DEFINE Goal == u2 + c2 + l2 <= n2
<1>12. ASSUME UNCHANGED <<uwq, sig_list>> PROVE Goal
  <2>1. c2 <= c
    <3>1. ~ (uwq # <<>> /\ uwq' = Tail(uwq))
      BY <1>4, <1>5, <1>12
    <3>2. QED
      BY <1>3, <3>1
  <2>2. u2 = u /\ l2 = l
    BY <1>8, <1>12
  <2>3. QED
    BY <1>2, <1>3, <2>1, <2>2
<1>13. ASSUME uwq # <<>>, uwq' = Tail(uwq), UNCHANGED sig_list PROVE Goal
  <2>1. u2 = u - (IF Head(uwq) = Sig(p) THEN 1 ELSE 0) /\ l2 = l
    BY <1>8, <1>9, <1>13
  <2>2. c2 <= c + (IF Head(uwq) = Sig(p) THEN 1 ELSE 0)
    BY <1>2, <1>3
  <2>3. QED
    BY <1>2, <1>3, <2>1, <2>2
<1>14. ASSUME NEW q \in Pipes, uwq' = Append(uwq, Sig(q)), UNCHANGED sig_list, Caused(q) PROVE Goal
  <2>1. u2 = u + (IF q = p THEN 1 ELSE 0) /\ c2 <= c
    BY <1>1, <1>6, <1>14
  <2>2. (q = p => n2 = n + 1) /\ l2 = l
    BY <1>7, <1>8, <1>14
  <2>3. QED
    BY <1>2, <1>3, <2>1, <2>2
<1>15. ASSUME NEW q \in Pipes, sig_list' = Append(sig_list, q), UNCHANGED uwq, Caused(q) PROVE Goal
  <2>1. l2 = l + (IF q = p THEN 1 ELSE 0) /\ u2 = u
    BY <1>8, <1>11, <1>15
  <2>2. q = p => n2 = n + 1
    BY <1>7, <1>15
  <2>3. c2 <= c
    <3>1. ~ (uwq # <<>> /\ uwq' = Tail(uwq))
      BY <1>4, <1>5, <1>15
    <3>2. QED
      BY <1>3, <3>1
  <2>4. QED
    BY <1>2, <1>3, <2>1, <2>2, <2>3
<1>16. ASSUME sig_list # <<>>, sig_list' = Tail(sig_list), uwq' = Append(uwq, Sig(Head(sig_list)))
       PROVE  Goal
  <2>1. Head(sig_list) \in Pipes /\ l2 = l - (IF Head(sig_list) = p THEN 1 ELSE 0)
    BY <1>10, <1>16
  <2>2. u2 = u + (IF Head(sig_list) = p THEN 1 ELSE 0) /\ c2 <= c
    BY <1>1, <1>6, <1>16, <2>1
  <2>3. QED
    BY <1>2, <1>3, <2>1, <2>2
<1>17. ASSUME NEW x \in [pipe : Pipes, msg : Int], x.msg # Signal, uwq' = Append(uwq, x), UNCHANGED sig_list
       PROVE  Goal
  <2>1. x # Sig(p)
    BY <1>17 DEF Sig
  <2>2. u2 = u /\ c2 <= c /\ l2 = l
    BY <1>2, <1>6, <1>8, <1>17, <2>1
  <2>3. QED
    BY <1>2, <1>3, <2>2
<1>18. ASSUME NEW q \in Pipes, uwq' = Append(uwq, [pipe |-> q, msg |-> InitMsg]), UNCHANGED sig_list
       PROVE  Goal
  <2>1. [pipe |-> q, msg |-> InitMsg] \in [pipe : Pipes, msg : Int] /\ InitMsg # Signal
    BY DEF InitMsg, Signal
  <2>2. QED
    BY <1>17, <1>18, <2>1
<1>19. ASSUME NEW q \in IdleDaemons, NEW t \in Task, uwq' = Append(uwq, [pipe |-> q, msg |-> t]),
              UNCHANGED sig_list
       PROVE  Goal
  <2>1. [pipe |-> q, msg |-> t] \in [pipe : Pipes, msg : Int] /\ t # Signal
    BY DEF Task, Signal, IdleDaemons
  <2>2. QED
    BY <1>17, <1>19, <2>1
<1> HIDE DEF Goal
<1>20. Goal
  BY <1>12, <1>13, <1>14, <1>15, <1>16, <1>18, <1>19 DEF SendMoves
<1>21. QED
  BY <1>20 DEF Goal, SignalsTo, u2, c2, l2, n2, Sig

LEMMA TallyNext ==
  ASSUME FlowInv, Next, ~stopped', Tally, \A p \in Pipes : Early(p)
  PROVE  Tally'
<1>1. IInv /\ IInv' /\ Stages
  BY NextFlowInv DEF FlowInv
<1>2. /\ IsFiniteSet(Units(CancelIds, cancels')) /\ Cancellations' \in Nat
  BY <1>1, CancellationsGrow DEF Tally
<1>3. ASSUME NEW p \in Pipes, slot'[p].state # "NONE"
      PROVE  SignalsTo(p)' <= Cancellations'
  <2>1. PipeMoves(p) /\ SendMoves
    BY <1>1, PipeMovesNext, SendMovesNext
  <2>2. CASE slot[p].state # "NONE"
    BY <1>1, <1>3, <2>1, <2>2, SignalsGrow DEF Tally
  <2>3. CASE slot[p].state = "NONE"
    <3>1. HandleConnect(p)
      <4>1. p \notin IdleDaemons /\ NoSlot.state = "NONE" /\ slot'[p] # slot[p]
        BY <1>3, <2>3 DEF IdleDaemons, NoSlot
      <4>2. QED
        BY <1>1, <1>3, <2>3, <4>1, SlotChanges
    <3>2. Unsignalled(p)
      BY <3>1 DEF HandleConnect, Early
    <3>3. SignalsTo(p) = 0
      BY <1>1, <3>2, NoSignals
    <3>4. Cancellations \in Nat
      BY <1>1, CancellationsGrow DEF Tally
    <3>5. SignalsTo(p) <= Cancellations
      BY <3>3, <3>4
    <3>6. QED
      BY <1>1, <1>3, <2>1, <3>5, SignalsGrow DEF Tally
  <2>4. QED
    BY <2>2, <2>3
<1>4. QED
  BY <1>2, <1>3 DEF Tally

-----------------------------------------------------------------------------
(* No task is dropped.                                                       *)

\* A send stays until the poly socket takes it.
LEMMA EntryKept ==
  ASSUME IInv, SendMoves, NEW e \in entries
  PROVE  e \in entries' \/ (Route /\ uwq # <<>> /\ Head(uwq) = e)
<1>1. uwq \in Seq([pipe : Pipes, msg : Int]) /\ sig_list \in Seq(Pipes)
  BY LockTypes
<1>2. PICK i \in 1..Len(uwq) : e = uwq[i]
  BY DEF entries
<1>3. CASE UNCHANGED uwq
  BY <1>3 DEF entries
<1>4. ASSUME NEW x \in [pipe : Pipes, msg : Int], uwq' = Append(uwq, x) PROVE e \in entries'
  <2>1. i \in 1..Len(uwq') /\ uwq'[i] = uwq[i]
    BY <1>1, <1>2, <1>4, AppendProperties, LenProperties
  <2>2. QED
    BY <1>2, <2>1 DEF entries
<1>5. ASSUME uwq # <<>>, uwq' = Tail(uwq), Head(uwq) # e PROVE e \in entries'
  <2>1. /\ Len(Tail(uwq)) = Len(uwq) - 1 /\ Len(uwq) \in Nat /\ Head(uwq) = uwq[1]
        /\ \A j \in 1..Len(Tail(uwq)) : Tail(uwq)[j] = uwq[j + 1]
    BY <1>1, <1>5, TailElements
  <2>2. i # 1
    BY <1>2, <1>5, <2>1
  <2>3. i - 1 \in 1..Len(uwq') /\ (i - 1) + 1 = i
    BY <1>5, <2>1, <2>2
  <2>4. uwq'[i - 1] = e
    BY <1>2, <1>5, <2>1, <2>3
  <2>5. QED
    BY <2>3, <2>4 DEF entries
<1>6. \A q \in Pipes : Sig(q) \in [pipe : Pipes, msg : Int] /\ [pipe |-> q, msg |-> InitMsg] \in [pipe : Pipes, msg : Int]
  BY DEF Sig, Signal, InitMsg
<1>7. \A q \in IdleDaemons, t \in Task : [pipe |-> q, msg |-> t] \in [pipe : Pipes, msg : Int]
  BY DEF IdleDaemons, Task
<1>8. sig_list # <<>> => Head(sig_list) \in Pipes
  BY <1>1, HeadTailProperties
<1>9. QED
  BY <1>3, <1>4, <1>5, <1>6, <1>7, <1>8 DEF SendMoves

\* When the poly socket comes to a task its daemon's send queue is not full.
LEMMA Room ==
  ASSUME FlowInv, Tally, NEW p \in Pipes, Early(p), slot[p].state = "BUSY", Cancellations <= SendDepth,
         uwq # <<>>, Head(uwq) = [pipe |-> p, msg |-> slot[p].ctx]
  PROVE  Len(chan[p]) <= SendDepth
<1>1. /\ IInv /\ OneTask(p) /\ slot[p].ctx \in Task
      /\ SendDepth \in Nat \ {0} /\ chan[p] \in Seq(Int) /\ Len(chan[p]) \in Nat
  BY LockTypes, LenProperties, DispatcherAssumption DEF FlowInv, Flow, IInv, Linked, DispatcherAssumption
<1>2. Head(uwq) \in entries /\ Head(uwq) = uwq[1] /\ 1 \in 1..Len(uwq)
  BY <1>1, HeadEntry
<1>3. ~OnWay(p)
  BY <1>1, <1>2, TaskEntries DEF OneTask
<1>4. \A i \in 1..Len(chan[p]) : chan[p][i] = InitMsg \/ chan[p][i] = Signal
  BY <1>3 DEF Early, OnWay
<1>5. CASE \E i \in 1..Len(chan[p]) : chan[p][i] = InitMsg
  <2>1. daemon[p] = NewDaemon
    BY <1>5 DEF Early
  <2>2. \A i \in 1..Len(chan[p]) : chan[p][i] # Signal
    <3>1. uwq[1].pipe = p /\ uwq[1].msg \in Task
      BY <1>1, <1>2
    <3>2. Quiet(p)
      BY <2>1 DEF Early
    <3>3. QED
      BY <1>2, <3>1, <3>2 DEF Quiet
  <2>3. \A i \in 1..Len(chan[p]) : i = 1
    <3>1. \A i \in 1..Len(chan[p]) : chan[p][i] = InitMsg => i = 1
      BY DEF Early
    <3>2. QED
      BY <1>4, <2>2, <3>1
  <2>4. ~ (Len(chan[p]) > 1)
    <3>1. Len(chan[p]) > 1 => 2 \in 1..Len(chan[p])
      BY <1>1
    <3>2. QED
      BY <2>3, <3>1
  <2>5. QED
    BY <1>1, <2>4
<1>6. CASE \A i \in 1..Len(chan[p]) : chan[p][i] = Signal
  <2>1. Times(chan[p], Signal) = Len(chan[p])
    BY <1>1, <1>6, TimesIn
  <2>2. Times(uwq, Sig(p)) \in Nat /\ Times(sig_list, p) \in Nat
    <3>1. uwq \in Seq([pipe : Pipes, msg : Int]) /\ sig_list \in Seq(Pipes)
      BY <1>1, LockTypes
    <3>2. QED
      BY <3>1, TimesIn
  <2>3. SignalsTo(p) <= Cancellations
    BY DEF Tally
  <2>4. Cancellations \in Nat
    BY FS_CardinalityType DEF Tally, Cancellations, SumOver
  <2>5. QED
    BY <1>1, <2>1, <2>2, <2>3, <2>4 DEF SignalsTo
<1>7. QED
  BY <1>4, <1>5, <1>6

\* The message of a task moves on as its send, in the pipe, with the daemon and back.
LEMMA Delivery ==
  ASSUME FlowInv, Kinds, Tally, Next, ~stopped', NEW p \in Pipes, Early(p), TaskNotDropped,
         Cancellations' <= SendDepth, slot'[p].state = "BUSY", p \in up'
  PROVE  UnderWay(p)'
<1>1. /\ IInv /\ Stages /\ PipeMoves(p) /\ SendMoves /\ ~stopped
      /\ slot[p] \in Slot /\ chan[p] \in Seq(Int) /\ SendDepth \in Nat
  BY PipeMovesNext, SendMovesNext, ControlMoves, LockTypes, DispatcherAssumption
     DEF FlowInv, DispatcherAssumption
<1>2. Cancellations <= SendDepth
  BY <1>1, CancellationsGrow DEF Tally
\* a daemon that is given its task
<1>3. CASE slot'[p] # slot[p]
  <2>1. PICK t \in Task, h \in Header : AssignTask(p, t, h) /\ slot'[p] = TaskSlot(p, t, h)
    <3>1. /\ NoSlot.state # "BUSY"
          /\ [slot[p] EXCEPT !.state = "IDLE"].state # "BUSY"
          /\ [slot[p] EXCEPT !.state = "IDLE", !.msgid = 0, !.ctx = Fresh].state # "BUSY"
          /\ [state |-> "INIT", msgid |-> 0, gen |-> sync_generation - 1, ctx |-> Fresh].state # "BUSY"
      BY <1>1 DEF NoSlot, Slot
    <3>2. QED
      BY <1>1, <1>3, <3>1, SlotChanges
  <2>2. slot'[p].ctx = t /\ uwq' = Append(uwq, [pipe |-> p, msg |-> t])
    BY <2>1 DEF TaskSlot, AssignTask, StartSend
  <2>3. uwq \in Seq([pipe : Pipes, msg : Int]) /\ [pipe |-> p, msg |-> t] \in [pipe : Pipes, msg : Int]
    BY <1>1, LockTypes DEF Task
  <2>4. Len(uwq) + 1 \in 1..Len(uwq') /\ uwq'[Len(uwq) + 1] = [pipe |-> p, msg |-> t]
    BY <2>2, <2>3, AppendElements
  <2>5. QED
    BY <2>2, <2>4 DEF UnderWay
\* a daemon that has one
<1>4. CASE slot'[p] = slot[p]
  <2> DEFINE t == slot[p].ctx
  <2>1. slot[p].state = "BUSY" /\ t \in Task /\ phase[p] # "none" /\ slot'[p].ctx = t
    BY <1>1, <1>4 DEF IInv, Linked
  <2>2. ~Cut(p) /\ p \in up
    BY <1>1, <2>1 DEF PipeMoves, Cut, Still, Routed, Taken, Replied
  <2>3. UnderWay(p)
    BY <1>1, <1>2, <2>1, <2>2 DEF TaskNotDropped, Busy
  <2> HIDE DEF t
  <2>4. ASSUME NEW i \in 1..Len(uwq), uwq[i] = [pipe |-> p, msg |-> t] PROVE UnderWay(p)'
    <3> DEFINE e == [pipe |-> p, msg |-> t]
    <3>1. CASE e \in entries'
      BY <2>1, <3>1 DEF entries, UnderWay, t
    <3>2. CASE Route /\ uwq # <<>> /\ Head(uwq) = e
      <4>1. Head(uwq).pipe = p /\ Head(uwq).msg = t
        BY <3>2
      <4>2. Len(chan[p]) <= SendDepth /\ Len(chan[p]) \in Nat
        BY <1>1, <1>2, <2>1, <3>2, Room, LenProperties DEF t
      <4>3. CASE Routed(p)
        <5>1. chan'[p] = Append(chan[p], t) /\ t \in Int
          BY <2>1, <4>1, <4>3 DEF Routed, Task
        <5>2. Len(chan[p]) + 1 \in 1..Len(chan'[p]) /\ chan'[p][Len(chan[p]) + 1] = t
          BY <1>1, <5>1, AppendElements
        <5>3. QED
          BY <2>1, <5>2 DEF UnderWay
      <4>4. ~Still(p)
        BY <1>1, <2>2, <3>2, <4>1, <4>2 DEF Still
      <4>5. CASE Taken(p) \/ Replied(p)
        <5>1. UNCHANGED uwq
          BY <4>5 DEF Taken, Replied
        <5>2. QED
          BY <2>1, <2>4, <5>1 DEF UnderWay
      <4>6. QED
        BY <1>1, <2>2, <4>3, <4>4, <4>5 DEF PipeMoves
    <3>3. e \in entries
      BY <2>4 DEF entries
    <3>4. QED
      BY <1>1, <3>1, <3>2, <3>3, EntryKept
  <2>5. ASSUME NEW i \in 1..Len(chan[p]), chan[p][i] = t PROVE UnderWay(p)'
    <3>1. CASE Still(p) \/ Replied(p)
      BY <2>1, <2>5, <3>1 DEF Still, Replied, UnderWay
    <3>2. CASE Routed(p)
      <4>1. chan'[p] = Append(chan[p], Head(uwq).msg) /\ Head(uwq).msg \in Int
        BY <1>1, <3>2, HeadEntry DEF Routed
      <4>2. i \in 1..Len(chan'[p]) /\ chan'[p][i] = t
        BY <1>1, <2>5, <4>1, AppendProperties, LenProperties
      <4>3. QED
        BY <2>1, <4>2 DEF UnderWay
    <3>3. CASE Taken(p)
      <4>1. /\ Len(chan'[p]) = Len(chan[p]) - 1 /\ Len(chan[p]) \in Nat /\ Head(chan[p]) = chan[p][1]
            /\ \A j \in 1..Len(chan'[p]) : chan'[p][j] = chan[p][j + 1]
        BY <1>1, <3>3, TailElements DEF Taken
      <4>2. CASE i = 1
        <5>1. Head(chan[p]) \in Task /\ Head(chan[p]) = t
          BY <2>1, <2>5, <4>1, <4>2
        <5>2. daemon'[p] = t
          BY <3>3, <5>1 DEF Taken, Task, Signal, InitMsg
        <5>3. QED
          BY <2>1, <5>2 DEF UnderWay
      <4>3. CASE i # 1
        <5>1. i - 1 \in 1..Len(chan'[p]) /\ (i - 1) + 1 = i
          BY <4>1, <4>3
        <5>2. chan'[p][i - 1] = t
          BY <2>5, <4>1, <5>1
        <5>3. QED
          BY <2>1, <5>1, <5>2 DEF UnderWay
      <4>4. QED
        BY <4>2, <4>3
    <3>4. QED
      BY <1>1, <2>2, <3>1, <3>2, <3>3 DEF PipeMoves
  <2>6. ASSUME daemon[p] = t PROVE UnderWay(p)'
    <3>1. CASE Still(p) \/ Routed(p)
      <4>1. daemon'[p] = daemon[p]
        BY <3>1 DEF Still, Routed
      <4>2. QED
        BY <2>1, <2>6, <4>1 DEF UnderWay
    <3>2. CASE Taken(p)
      <4>1. 1 \in 1..Len(chan[p]) /\ Head(chan[p]) = chan[p][1]
        BY <1>1, <3>2, TailElements DEF Taken
      <4>2. Head(chan[p]) # InitMsg
        BY <2>1, <2>6, <4>1 DEF Early, NewDaemon, Task
      <4>3. daemon'[p] = t
        BY <2>1, <2>6, <3>2, <4>2 DEF Taken, Ready, Task
      <4>4. QED
        BY <2>1, <4>3 DEF UnderWay
    <3>3. CASE Replied(p)
      <4>1. PICK marker \in Markers :
              arrived' = arrived \cup {[pipe |-> p, msg |-> daemon[p], marker |-> marker]}
        BY <3>3 DEF Replied
      <4>2. [pipe |-> p, msg |-> daemon[p], marker |-> marker] \in arrived'
        BY <4>1
      <4>3. \E m \in arrived' : m.pipe = p /\ m.msg = t
        BY <2>6, <4>2
      <4>4. QED
        BY <2>1, <4>3 DEF UnderWay
    <3>4. QED
      BY <1>1, <2>2, <3>1, <3>2, <3>3 DEF PipeMoves
  <2>7. ASSUME NEW m \in arrived, m.pipe = p, m.msg = t PROVE UnderWay(p)'
    <3>1. m \in arrived'
      BY <1>1, <1>4, <2>1, <2>2, <2>7 DEF PipeMoves, Still, Routed, Taken, Replied
    <3>2. QED
      BY <2>1, <2>7, <3>1 DEF UnderWay
  <2>8. QED
    BY <2>3, <2>4, <2>5, <2>6, <2>7 DEF UnderWay, t
<1>5. QED
  BY <1>3, <1>4

\* What the send queues hold, until dispatch_shutdown begins.
SendInv == ~stopped => Kinds /\ Tally /\ \A p \in Pipes : Early(p)

LEMMA InitSendInv == Init => SendInv /\ TaskNotDropped
<1> SUFFICES ASSUME Init PROVE SendInv /\ TaskNotDropped
  OBVIOUS
<1>1. entries = {} /\ \A p \in Pipes : chan[p] = <<>> /\ daemon[p] = NewDaemon /\ slot[p].state = "NONE"
  BY EmptySeq DEF Init, entries, NoSlot
<1>2. Kinds
  BY <1>1 DEF Kinds
<1>3. Tally
  <2>1. Units(CancelIds, cancels) = {}
    <3>1. \A id \in CancelIds : {id} \X (1..cancels[id]) = {}
      BY DEF Init
    <3>2. QED
      BY <3>1 DEF Units
  <2>2. QED
    BY <1>1, <2>1, FS_EmptySet DEF Tally
<1>4. ASSUME NEW p \in Pipes PROVE Early(p)
  <2>1. Len(<<>>) = 0 /\ 1..0 = {} /\ uwq = <<>> /\ sig_list = <<>> /\ arrived = {}
    BY EmptySeq DEF Init
  <2>2. Unsignalled(p) /\ Quiet(p)
    BY <1>1, <2>1 DEF Unsignalled, Quiet, Back
  <2>3. QED
    BY <1>1, <2>1, <2>2 DEF Early
<1>5. TaskNotDropped
  BY <1>1 DEF TaskNotDropped, Busy
<1>6. QED
  BY <1>2, <1>3, <1>4, <1>5 DEF SendInv

LEMMA NextSendInv == FlowInv /\ SendInv /\ TaskNotDropped /\ [Next]_vars => SendInv' /\ TaskNotDropped'
<1>1. ASSUME FlowInv, SendInv, TaskNotDropped, Next PROVE SendInv' /\ TaskNotDropped'
  <2>1. SUFFICES ASSUME ~stopped' PROVE SendInv' /\ TaskNotDropped'
    BY DEF SendInv, TaskNotDropped
  <2>2. IInv /\ Stages /\ Kinds /\ Tally /\ \A p \in Pipes : Early(p)
    BY <1>1, <2>1, ControlMoves DEF SendInv, FlowInv
  <2>3. Kinds'
    BY <1>1, <2>2, KindsNext
  <2>4. Tally'
    BY <1>1, <2>1, <2>2, TallyNext
  <2>5. \A p \in Pipes : Early(p)'
    BY <1>1, <2>1, <2>2, EarlyNext
  <2>6. TaskNotDropped'
    <3>1. ASSUME NEW p \in Pipes, Cancellations' <= SendDepth, slot'[p].state = "BUSY", p \in up'
          PROVE  UnderWay(p)'
      BY <1>1, <2>1, <2>2, <3>1, Delivery
    <3>2. QED
      BY <3>1 DEF TaskNotDropped, Busy
  <2>7. QED
    BY <2>3, <2>4, <2>5, <2>6 DEF SendInv
<1>2. ASSUME SendInv, TaskNotDropped, UNCHANGED vars PROVE SendInv' /\ TaskNotDropped'
  <2>1. SendInv'
    BY <1>2 DEF vars, SendInv, Kinds, Tally, Early, Quiet, Unsignalled, SignalsTo, Cancellations, Back, entries
  <2>2. TaskNotDropped'
    BY <1>2 DEF vars, TaskNotDropped, Cancellations, UnderWay, Busy
  <2>3. QED
    BY <2>1, <2>2
<1>3. QED
  BY <1>1, <1>2

\* dispatch_start_send's message always reaches the daemon, or is on its way to
\* it, with it or on its way back, unless the host has cancelled more often than
\* the send queue of a pipe is deep: for any number of daemons, requests and
\* signals, and any depth but zero.
THEOREM TasksAreNotDropped == Spec => []TaskNotDropped
<1>1. Init => SendInv /\ TaskNotDropped
  BY InitSendInv
<1>2. FlowInv /\ SendInv /\ TaskNotDropped /\ [Next]_vars => SendInv' /\ TaskNotDropped'
  BY NextSendInv
<1>3. QED
  BY <1>1, <1>2, FlowInvariance, PTL DEF Spec
=============================================================================
