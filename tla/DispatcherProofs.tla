-------------------------- MODULE DispatcherProofs --------------------------
(***************************************************************************)
(* Type correctness of the dispatcher and the exactness of its counters,   *)
(* for any number of daemons, requests, cancellations and reply holders.   *)
(***************************************************************************)
EXTENDS Dispatcher, FiniteSetTheorems, SequenceTheorems, TLAPS

-----------------------------------------------------------------------------
(* The inductive invariant *)

\* A header is kept of every request so far, and every context in the queue,
\* in a busy slot or with a handler belongs to such a request.  A pipe has no
\* slot before its ADD_POST callback.
Linked ==
  /\ Len(header) = count
  /\ \A i \in 1..Len(inq) : inq[i] <= count
  /\ \A p \in Pipes : slot[p].state = "BUSY" => slot[p].ctx \in Task
  /\ mtx.ctx # Fresh => mtx.ctx \in Task
  /\ \A p \in Pipes : phase[p] \in {"none", "attached"} => slot[p].state = "NONE"

\* The counters bound the state they count, even while dispatch_shutdown takes
\* that state apart.
Covered ==
  /\ Cardinality(Connected) <= outq_count
  /\ Cardinality(Busy) <= executing
  /\ Len(inq) <= inq_count

IInv == TypeOK /\ Linked /\ Covered /\ CountersExact

USE DEF Task, Fresh, InitMsg, Signal, ConnReset, NoAnswer, NewDaemon, Leaving, Ready

-----------------------------------------------------------------------------
(* The operators the actions share *)

\* Unlinking a queued request, as dispatch_cancel_inq does, moves those behind
\* it up by one place.
LEMMA RemoveAtElements ==
  ASSUME NEW S, NEW s \in Seq(S), NEW i \in 1..Len(s)
  PROVE  /\ RemoveAt(s, i) \in Seq(S)
         /\ Len(RemoveAt(s, i)) = Len(s) - 1 /\ Len(s) \in Nat
         /\ \A j \in 1..(Len(s) - 1) : RemoveAt(s, i)[j] = s[IF j < i THEN j ELSE j + 1]
<1> DEFINE a == SubSeq(s, 1, i - 1)
           b == SubSeq(s, i + 1, Len(s))
<1>1. Len(s) \in Nat /\ i \in Int
  BY LenProperties
<1>2. a \in Seq(S) /\ Len(a) = i - 1 /\ \A j \in 1..(i - 1) : a[j] = s[j]
  BY SubSeqProperties
<1>3. b \in Seq(S) /\ Len(b) = Len(s) - i /\ \A j \in 1..(Len(s) - i) : b[j] = s[i + j]
  BY SubSeqProperties
<1>4. RemoveAt(s, i) = a \o b
  BY DEF RemoveAt
<1> HIDE DEF a, b
<1>5. /\ a \o b \in Seq(S) /\ Len(a \o b) = Len(a) + Len(b)
      /\ \A j \in 1..Len(a) + Len(b) : (a \o b)[j] = IF j <= Len(a) THEN a[j] ELSE b[j - Len(a)]
  BY <1>2, <1>3, ConcatProperties, Zenon
<1>6. ASSUME NEW j \in 1..(Len(s) - 1)
      PROVE  (a \o b)[j] = s[IF j < i THEN j ELSE j + 1]
  <2>1. CASE j <= i - 1
    BY <1>1, <1>2, <1>3, <1>5, <2>1
  <2>2. CASE ~(j <= i - 1)
    <3>1. j - Len(a) \in 1..(Len(s) - i) /\ i + (j - Len(a)) = j + 1
      BY <1>1, <1>2, <2>2
    <3>2. b[j - Len(a)] = s[j + 1]
      BY <1>3, <3>1
    <3>3. (a \o b)[j] = b[j - Len(a)] /\ ~(j < i)
      BY <1>1, <1>2, <1>3, <1>5, <2>2
    <3>4. QED
      BY <3>2, <3>3
  <2>3. QED
    BY <2>1, <2>2
<1>7. Len(a \o b) = Len(s) - 1
  BY <1>1, <1>2, <1>3, <1>5
<1>8. QED
  BY <1>1, <1>4, <1>5, <1>6, <1>7

LEMMA RemoveAtProperties ==
  ASSUME NEW S, NEW s \in Seq(S), NEW i \in 1..Len(s)
  PROVE  /\ RemoveAt(s, i) \in Seq(S)
         /\ Len(RemoveAt(s, i)) = Len(s) - 1
         /\ \A j \in 1..Len(RemoveAt(s, i)) :
              \E k \in 1..Len(s) : RemoveAt(s, i)[j] = s[k]
<1>1. /\ RemoveAt(s, i) \in Seq(S) /\ Len(RemoveAt(s, i)) = Len(s) - 1 /\ Len(s) \in Nat
      /\ \A j \in 1..(Len(s) - 1) : RemoveAt(s, i)[j] = s[IF j < i THEN j ELSE j + 1]
  BY RemoveAtElements
<1>2. \A j \in 1..(Len(s) - 1) : (IF j < i THEN j ELSE j + 1) \in 1..Len(s)
  BY <1>1
<1>3. QED
  BY <1>1, <1>2

\* The daemons of a state are finitely many, and giving one slot another state
\* moves the number of them by at most one.
LEMMA SlotCounts ==
  ASSUME slot \in [Pipes -> Slot], slot' \in [Pipes -> Slot], NEW p \in Pipes,
         \A q \in Pipes \ {p} : slot'[q] = slot[q]
  PROVE  /\ Cardinality(Busy) \in Nat /\ Cardinality(Connected) \in Nat
         /\ Cardinality(Busy') = Cardinality(Busy)
              - (IF slot[p].state = "BUSY" THEN 1 ELSE 0)
              + (IF slot'[p].state = "BUSY" THEN 1 ELSE 0)
         /\ Cardinality(Connected') = Cardinality(Connected)
              - (IF slot[p].state \in {"IDLE", "BUSY"} THEN 1 ELSE 0)
              + (IF slot'[p].state \in {"IDLE", "BUSY"} THEN 1 ELSE 0)
<1>1. IsFiniteSet(Busy) /\ IsFiniteSet(Connected)
  BY DispatcherAssumption, FS_Subset DEF DispatcherAssumption, Busy, Connected
<1>2. /\ Busy' = IF slot'[p].state = "BUSY" THEN Busy \cup {p} ELSE Busy \ {p}
      /\ p \in Busy <=> slot[p].state = "BUSY"
  BY DEF Busy
<1>3. /\ Connected' = IF slot'[p].state \in {"IDLE", "BUSY"} THEN Connected \cup {p}
                                                            ELSE Connected \ {p}
      /\ p \in Connected <=> slot[p].state \in {"IDLE", "BUSY"}
  BY DEF Connected
<1>4. Cardinality(Busy) \in Nat /\ Cardinality(Connected) \in Nat
  BY <1>1, FS_CardinalityType
<1>5. /\ Cardinality(Busy \cup {p}) = IF p \in Busy THEN Cardinality(Busy) ELSE Cardinality(Busy) + 1
      /\ Cardinality(Busy \ {p}) = IF p \in Busy THEN Cardinality(Busy) - 1 ELSE Cardinality(Busy)
      /\ Cardinality(Connected \cup {p}) = IF p \in Connected THEN Cardinality(Connected)
                                                             ELSE Cardinality(Connected) + 1
      /\ Cardinality(Connected \ {p}) = IF p \in Connected THEN Cardinality(Connected) - 1
                                                          ELSE Cardinality(Connected)
  BY <1>1, FS_AddElement, FS_RemoveElement
<1>6. QED
  BY <1>2, <1>3, <1>4, <1>5

\* Starting a task on an idle daemon makes one more daemon busy.
LEMMA AssignTaskProperties ==
  ASSUME TypeDaemons, TypeCounters, TypeSends, TypeHistory,
         NEW p \in IdleDaemons, NEW t \in Task, NEW h \in Header,
         AssignTask(p, t, h)
  PROVE  /\ slot' \in [Pipes -> Slot] /\ syncing' \in BOOLEAN /\ sync_generation' \in Nat
         /\ uwq' \in Seq([pipe : Pipes, msg : Int])
         /\ dispatched' \in Seq([pipe : Pipes, task : Task])
         /\ executing' = executing + 1
         /\ Cardinality(Busy) \in Nat /\ Cardinality(Connected) \in Nat
         /\ Cardinality(Busy') = Cardinality(Busy) + 1
         /\ Cardinality(Connected') = Cardinality(Connected)
         /\ \A q \in Pipes : /\ slot[q].state = "NONE" => slot'[q] = slot[q]
                             /\ \/ slot'[q].ctx = t
                                \/ slot'[q] = slot[q]
<1>1. p \in Pipes /\ slot[p].state = "IDLE"
  BY DEF IdleDaemons
<1>2. TaskSlot(p, t, h) \in Slot /\ TaskSlot(p, t, h).state = "BUSY" /\ TaskSlot(p, t, h).ctx = t
  BY <1>1 DEF TaskSlot, Slot, Header, TypeDaemons
<1>3. slot' = [slot EXCEPT ![p] = TaskSlot(p, t, h)] /\ executing' = executing + 1
  BY DEF AssignTask
<1>4. syncing' \in BOOLEAN /\ sync_generation' \in Nat
  <2>1. MarkSync(h.sync) /\ syncing \in BOOLEAN /\ sync_generation \in Nat
    BY DEF AssignTask, TypeDaemons
  <2>2. CASE h.sync /\ syncing' = TRUE /\ UNCHANGED sync_generation
    BY <2>1, <2>2
  <2>3. CASE ~h.sync /\ syncing /\ syncing' = FALSE /\ sync_generation' = sync_generation + 1
    <3>1. syncing' \in BOOLEAN
      BY <2>3
    <3>2. sync_generation \in Nat /\ sync_generation' = sync_generation + 1
      BY <2>1, <2>3
    <3>3. QED
      BY <3>1, <3>2
  <2>4. CASE ~h.sync /\ ~syncing /\ UNCHANGED barrier
    BY <2>1, <2>4 DEF barrier
  <2>5. QED
    BY <2>1, <2>2, <2>3, <2>4 DEF MarkSync
<1>5. uwq' \in Seq([pipe : Pipes, msg : Int])
  <2>1. [pipe |-> p, msg |-> t] \in [pipe : Pipes, msg : Int]
    BY <1>1
  <2>2. QED
    BY <2>1, AppendProperties DEF AssignTask, StartSend, TypeSends
<1>6. dispatched' \in Seq([pipe : Pipes, task : Task])
  <2>1. [pipe |-> p, task |-> t] \in [pipe : Pipes, task : Task]
    BY <1>1
  <2>2. QED
    BY <2>1, AppendProperties DEF AssignTask, TypeHistory
<1>7. /\ Cardinality(Busy) \in Nat /\ Cardinality(Connected) \in Nat
      /\ Cardinality(Busy') = Cardinality(Busy) + 1
      /\ Cardinality(Connected') = Cardinality(Connected)
  <2>1. /\ slot \in [Pipes -> Slot] /\ slot' \in [Pipes -> Slot]
        /\ \A q \in Pipes \ {p} : slot'[q] = slot[q]
        /\ slot'[p].state = "BUSY"
    BY <1>1, <1>2, <1>3 DEF TypeDaemons
  <2>2. QED
    BY <1>1, <2>1, SlotCounts
<1>8. QED
  BY <1>1, <1>2, <1>3, <1>4, <1>5, <1>6, <1>7 DEF TypeDaemons

\* The reply holders hold contexts of requests, whatever is harvested.
LEMMA ReplySendType ==
  ASSUME TypeContexts, NEW t \in Task, NEW m \in Int, ReplySend(t, m)
  PROVE  /\ reply_active' \subseteq [ctx : Task, msg : Int, busy : BOOLEAN]
         /\ open' \subseteq Nat
<1>1. [ctx |-> t, msg |-> m, busy |-> TRUE] \in [ctx : Task, msg : Int, busy : BOOLEAN]
  OBVIOUS
<1>2. QED
  BY <1>1 DEF ReplySend, TypeContexts

\* A signal is sent, waits for the one being sent, or is dropped.
LEMMA QueueSignalType ==
  ASSUME TypeSends, NEW p \in Pipes, QueueSignal(p)
  PROVE  TypeSends'
<1>1. [pipe |-> p, msg |-> Signal] \in [pipe : Pipes, msg : Int]
  OBVIOUS
<1>2. CASE UNCHANGED <<uwq, signals>>
  BY <1>2 DEF TypeSends, signals
<1>3. CASE /\ sig_aio' = "sending" /\ UNCHANGED sig_list
           /\ uwq' = Append(uwq, [pipe |-> p, msg |-> Signal])
  BY <1>1, <1>3, AppendProperties DEF TypeSends
<1>4. CASE sig_list' = Append(sig_list, p) /\ UNCHANGED <<uwq, sig_aio>>
  BY <1>4, AppendProperties DEF TypeSends
<1>5. QED
  BY <1>2, <1>3, <1>4 DEF QueueSignal

\* Nobody but the R thread moves it, and it goes to sleep or wakes with woken set.
LEMMA WakeType ==
  ASSUME TypeRThread, UNCHANGED rthread, Wake \/ UNCHANGED woken
  PROVE  TypeRThread'
<1>1. woken' \in BOOLEAN
  <2>1. CASE Wake
    <3>1. CASE Sleeping
      BY <2>1, <3>1 DEF Wake, Sleeping
    <3>2. CASE ~Sleeping
      BY <2>1, <3>2 DEF Wake, Sleeping
    <3>3. QED
      BY <3>1, <3>2
  <2>2. CASE UNCHANGED woken
    BY <2>2 DEF TypeRThread
  <2>3. QED
    BY <2>1, <2>2
<1>2. QED
  BY <1>1 DEF TypeRThread, rthread

-----------------------------------------------------------------------------
(* Actions that touch neither slots nor queue *)

\* What such an action must respect for the counters to stay exact.
LEMMA Frame ==
  ASSUME IInv,
         UNCHANGED <<slot, inq, header, count, inq_count, outq_count, executing>>,
         mtx'.ctx # Fresh => mtx'.ctx \in Task,
         \A p \in Pipes : phase'[p] \in {"none", "attached"}
                           => phase[p] \in {"none", "attached"},
         Intact' => Intact
  PROVE  Linked' /\ Covered' /\ CountersExact'
<1>1. Busy' = Busy /\ Connected' = Connected
  BY DEF Busy, Connected
<1>2. Linked'
  BY DEF IInv, Linked
<1>3. Covered'
  BY <1>1 DEF IInv, Covered
<1>4. CountersExact'
  BY <1>1 DEF IInv, CountersExact
<1>5. QED
  BY <1>2, <1>3, <1>4

\* The invariant holds initially: no slot, no request, and only the fresh context.
LEMMA InitIInv == Init => IInv
<1> SUFFICES ASSUME Init PROVE IInv
  OBVIOUS
<1>1. TypeOK
  <2>1. NoSlot \in Slot
    BY DEF NoSlot, Slot
  <2>2. TypeDaemons
    BY <2>1 DEF Init, TypeDaemons
  <2>3. TypeQueue /\ TypeCounters
    BY DispatcherAssumption, EmptySeq DEF DispatcherAssumption, Init, TypeQueue, TypeCounters
  <2>4. TypeHandlers
    BY DEF Init, Free, TypeHandlers
  <2>5. TypeSends
    BY EmptySeq DEF Init, TypeSends
  <2>6. TypeContexts /\ TypeRThread
    <3>1. open \subseteq Nat
      BY DEF Init
    <3>2. QED
      BY <3>1 DEF Init, TypeContexts, TypeRThread
  <2>7. TypeNetwork
    BY EmptySeq DEF Init, TypeNetwork
  <2>8. TypeHistory
    BY EmptySeq DEF Init, TypeHistory
  <2>9. QED
    BY <2>2, <2>3, <2>4, <2>5, <2>6, <2>7, <2>8 DEF TypeOK
<1>2. Busy = {} /\ Connected = {}
  BY DEF Init, Busy, Connected, NoSlot
<1>3. Linked
  BY DEF Init, Linked, Free, NoSlot
<1>4. Covered /\ CountersExact
  BY <1>2, FS_EmptySet DEF Init, Covered, CountersExact
<1>5. QED
  BY <1>1, <1>3, <1>4 DEF IInv

\* The end of a drain, with the reply it may send.
LEMMA DrainEndIInv ==
  ASSUME IInv, DrainEnd
  PROVE  IInv'
<1> USE DEF IInv, TypeOK
<1>1. TypeContexts'
  <2>1. CASE mtx.ctx = Fresh
    BY <2>1 DEF DrainEnd, TypeContexts, replies
  <2>2. CASE mtx.ctx # Fresh
    BY <2>2, ReplySendType DEF DrainEnd, Linked, TypeHandlers, TypeContexts
  <2>3. QED
    BY <2>1, <2>2
<1>2. TypeRThread'
  BY WakeType DEF DrainEnd, WakeGate, TypeRThread
<1>3. TypeHandlers'
  BY DEF DrainEnd, Free, TypeHandlers
<1>4. /\ TypeDaemons' /\ TypeQueue' /\ TypeCounters'
      /\ TypeSends' /\ TypeNetwork' /\ TypeHistory'
  BY DEF DrainEnd, TypeDaemons, TypeQueue, TypeCounters, TypeSends, TypeNetwork,
         TypeHistory, counters, barrier, signals, network, history
<1>5. Linked' /\ Covered' /\ CountersExact'
  BY Frame DEF DrainEnd, Free, counters, rthread, network, Intact
<1>6. QED
  BY <1>1, <1>2, <1>3, <1>4, <1>5

\* The reply for a lost task.
LEMMA SendConnResetIInv ==
  ASSUME IInv, NEW o \in orphan, SendConnReset(o)
  PROVE  IInv'
<1> USE DEF IInv, TypeOK
<1>1. TypeContexts'
  <2>1. o.ctx \in Task /\ orphan' \subseteq [ctx : Task, close : BOOLEAN]
    BY DEF SendConnReset, TypeContexts
  <2>2. CASE ReplySend(o.ctx, ConnReset)
    BY <2>1, <2>2, ReplySendType DEF TypeContexts
  <2>3. CASE open' = open \ {o.ctx} /\ UNCHANGED reply_active
    BY <2>1, <2>3 DEF TypeContexts
  <2>4. QED
    BY <2>2, <2>3 DEF SendConnReset
<1>2. TypeHandlers'
  BY DEF SendConnReset, Reap, Unlock, TypeHandlers
<1>3. /\ TypeDaemons' /\ TypeQueue' /\ TypeCounters' /\ TypeSends'
      /\ TypeRThread' /\ TypeNetwork' /\ TypeHistory'
  BY DEF SendConnReset, TypeDaemons, TypeQueue, TypeCounters, TypeSends,
         TypeRThread, TypeNetwork, TypeHistory, counters, barrier, signals,
         rthread, network, history
<1>4. Linked' /\ Covered' /\ CountersExact'
  BY Frame DEF SendConnReset, Unlock, TypeHandlers, Linked, counters, rthread, network,
         Intact
<1>5. QED
  BY <1>1, <1>2, <1>3, <1>4

\* A context for the next request.
LEMMA RearmHostIInv ==
  ASSUME IInv, RearmHost
  PROVE  IInv'
<1> USE DEF IInv, TypeOK
<1>1. TypeContexts'
  <2>1. open' \subseteq Nat
    <3>1. open \subseteq Nat /\ {Fresh} \subseteq Nat
      BY DEF TypeContexts
    <3>2. open' = open \cup {Fresh} \/ open' = open
      BY DEF RearmHost
    <3>3. QED
      BY <3>1, <3>2
  <2>2. QED
    BY <2>1 DEF RearmHost, TypeContexts
<1>2. TypeDaemons'
  BY DEF RearmHost, barrier, TypeDaemons
<1>3. TypeQueue'
  BY DEF RearmHost, counters, TypeQueue
<1>4. TypeHandlers'
  BY DEF RearmHost, TypeHandlers
<1>5. TypeRThread'
  BY WakeType DEF RearmHost, rthread, TypeRThread
<1>6. TypeCounters' /\ TypeSends' /\ TypeNetwork' /\ TypeHistory'
  BY DEF RearmHost, TypeCounters, TypeSends, TypeNetwork, TypeHistory, counters,
         barrier, signals, network, history
<1>7. Linked' /\ Covered' /\ CountersExact'
  BY Frame DEF RearmHost, TypeHandlers, Linked, counters, rthread, network, Intact
<1>8. QED
  BY <1>1, <1>2, <1>3, <1>4, <1>5, <1>6, <1>7

\* The next waiting signal.
LEMMA SigCbIInv ==
  ASSUME IInv, SigCb
  PROVE  IInv'
<1> USE DEF IInv, TypeOK
<1>1. TypeSends'
  <2>1. CASE sig_list # <<>> /\ sig_aio' = "sending" /\ sig_list' = Tail(sig_list)
             /\ uwq' = Append(uwq, [pipe |-> Head(sig_list), msg |-> Signal])
    <3>1. Head(sig_list) \in Pipes /\ Tail(sig_list) \in Seq(Pipes)
      BY <2>1, HeadTailProperties DEF TypeSends
    <3>2. [pipe |-> Head(sig_list), msg |-> Signal] \in [pipe : Pipes, msg : Int]
      BY <3>1
    <3>3. QED
      BY <2>1, <3>1, <3>2, AppendProperties DEF TypeSends
  <2>2. CASE sig_aio' = "idle" /\ UNCHANGED <<sig_list, uwq>>
    BY <2>2 DEF TypeSends
  <2>3. QED
    BY <2>1, <2>2 DEF SigCb
<1>2. /\ TypeDaemons' /\ TypeQueue' /\ TypeCounters' /\ TypeHandlers'
      /\ TypeContexts' /\ TypeRThread' /\ TypeNetwork' /\ TypeHistory'
  <2>1. TypeDaemons' /\ TypeQueue' /\ TypeCounters' /\ TypeHandlers'
    BY DEF SigCb, TypeDaemons, TypeQueue, TypeCounters, TypeHandlers, counters, barrier,
           rthread
  <2>2. TypeContexts' /\ TypeRThread' /\ TypeNetwork' /\ TypeHistory'
    BY DEF SigCb, TypeContexts, TypeRThread, TypeNetwork, TypeHistory, replies, rthread,
           network, history
  <2>3. QED
    BY <2>1, <2>2
<1>3. Linked' /\ Covered' /\ CountersExact'
  BY Frame DEF SigCb, Linked, counters, rthread, network, Intact
<1>4. QED
  BY <1>1, <1>2, <1>3

\* The R thread sleeps in rnng_dispatcher_gate, which touches no counter.
LEMMA GateIInv ==
  ASSUME IInv, Gate
  PROVE  IInv'
<1> USE DEF IInv, TypeOK
<1>1. TypeRThread'
  BY DispatcherAssumption DEF Gate, DispatcherAssumption, RThreadOnly, rthread, TypeRThread
<1>2. /\ TypeDaemons' /\ TypeQueue' /\ TypeCounters' /\ TypeHandlers'
      /\ TypeSends' /\ TypeContexts' /\ TypeNetwork' /\ TypeHistory'
  BY DEF Gate, TypeDaemons, TypeQueue, TypeCounters, TypeHandlers, TypeSends,
         TypeContexts, TypeNetwork, TypeHistory, RThreadOnly, counters, barrier,
         signals, replies, network, history
<1>3. Linked' /\ Covered' /\ CountersExact'
  BY Frame DEF Gate, RThreadOnly, Linked, Sleeping, counters, network, Intact
<1>4. QED
  BY <1>1, <1>2, <1>3

\* The R thread sleeps in rnng_dispatcher_wait, which touches no counter.
LEMMA WaitIInv ==
  ASSUME IInv, NEW n \in Targets, Wait(n)
  PROVE  IInv'
<1> USE DEF IInv, TypeOK
<1>1. TypeRThread'
  BY DispatcherAssumption DEF Wait, DispatcherAssumption, RThreadOnly, rthread, TypeRThread
<1>2. /\ TypeDaemons' /\ TypeQueue' /\ TypeCounters' /\ TypeHandlers'
      /\ TypeSends' /\ TypeContexts' /\ TypeNetwork' /\ TypeHistory'
  BY DEF Wait, TypeDaemons, TypeQueue, TypeCounters, TypeHandlers, TypeSends,
         TypeContexts, TypeNetwork, TypeHistory, RThreadOnly, counters, barrier,
         signals, replies, network, history
<1>3. Linked' /\ Covered' /\ CountersExact'
  BY Frame DEF Wait, RThreadOnly, Linked, Sleeping, counters, network, Intact
<1>4. QED
  BY <1>1, <1>2, <1>3

\* The R thread checks its condition again and may leave its sleep.
LEMMA RecheckIInv ==
  ASSUME IInv, Recheck
  PROVE  IInv'
<1> USE DEF IInv, TypeOK
<1>1. TypeRThread'
  <2>1. CASE UNCHANGED rthread
    BY <2>1 DEF Recheck, rthread, TypeRThread
  <2>2. CASE main' = "run" /\ want' = 0
    BY <2>2 DEF Recheck, TypeRThread
  <2>3. QED
    BY <2>1, <2>2 DEF Recheck
<1>2. /\ TypeDaemons' /\ TypeQueue' /\ TypeCounters' /\ TypeHandlers'
      /\ TypeSends' /\ TypeContexts' /\ TypeNetwork' /\ TypeHistory'
  BY DEF Recheck, TypeDaemons, TypeQueue, TypeCounters, TypeHandlers, TypeSends,
         TypeContexts, TypeNetwork, TypeHistory, RThreadOnly, counters, barrier,
         signals, replies, network, history
<1>3. Linked' /\ Covered' /\ CountersExact'
  BY Frame DEF Recheck, RThreadOnly, Linked, Sleeping, counters, network, Intact
<1>4. QED
  BY <1>1, <1>2, <1>3

\* nng_close of the poly socket returns, which changes only where the R thread is.
LEMMA PolyClosedIInv ==
  ASSUME IInv, PolyClosed
  PROVE  IInv'
<1> USE DEF IInv, TypeOK
<1>1. TypeRThread'
  BY DispatcherAssumption DEF PolyClosed, DispatcherAssumption, RThreadOnly, rthread, TypeRThread
<1>2. /\ TypeDaemons' /\ TypeQueue' /\ TypeCounters' /\ TypeHandlers'
      /\ TypeSends' /\ TypeContexts' /\ TypeNetwork' /\ TypeHistory'
  BY DEF PolyClosed, TypeDaemons, TypeQueue, TypeCounters, TypeHandlers,
         TypeSends, TypeContexts, TypeNetwork, TypeHistory, RThreadOnly,
         counters, barrier, signals, replies, network, history
<1>3. Linked' /\ Covered' /\ CountersExact'
  BY Frame DEF PolyClosed, RThreadOnly, Linked, Sleeping, counters, network, Intact
<1>4. QED
  BY <1>1, <1>2, <1>3

\* The REP socket closes, the last step of dispatch_shutdown.
LEMMA CloseRepIInv ==
  ASSUME IInv, CloseRep
  PROVE  IInv'
<1> USE DEF IInv, TypeOK
<1>1. TypeRThread'
  BY DispatcherAssumption DEF CloseRep, DispatcherAssumption, RThreadOnly, rthread, TypeRThread
<1>2. /\ TypeDaemons' /\ TypeQueue' /\ TypeCounters' /\ TypeHandlers'
      /\ TypeSends' /\ TypeContexts' /\ TypeNetwork' /\ TypeHistory'
  BY DEF CloseRep, TypeDaemons, TypeQueue, TypeCounters, TypeHandlers, TypeSends,
         TypeContexts, TypeNetwork, TypeHistory, RThreadOnly, counters, barrier,
         signals, replies, network, history
<1>3. Linked' /\ Covered' /\ CountersExact'
  BY Frame DEF CloseRep, RThreadOnly, Linked, Sleeping, counters, network, Intact
<1>4. QED
  BY <1>1, <1>2, <1>3

\* dispatcher_handle_release sets d->stopped.
LEMMA StopIInv ==
  ASSUME IInv, Stop
  PROVE  IInv'
<1> USE DEF IInv, TypeOK
<1>1. TypeRThread'
  BY DEF Stop, TypeRThread
<1>2. TypeDaemons'
  BY DEF Stop, barrier, TypeDaemons
<1>3. /\ TypeQueue' /\ TypeCounters' /\ TypeHandlers' /\ TypeSends'
      /\ TypeContexts' /\ TypeNetwork' /\ TypeHistory'
  BY DEF Stop, TypeQueue, TypeCounters, TypeHandlers, TypeSends, TypeContexts,
         TypeNetwork, TypeHistory, counters, barrier, signals, replies, network,
         history
<1>4. Linked' /\ Covered' /\ CountersExact'
  BY Frame DEF Stop, Linked, counters, network, Intact
<1>5. QED
  BY <1>1, <1>2, <1>3, <1>4

\* The host receive is stopped.
LEMMA StopHostIInv ==
  ASSUME IInv, StopHost
  PROVE  IInv'
<1> USE DEF IInv, TypeOK
<1>1. TypeRThread'
  BY DEF StopHost, TypeRThread
<1>2. TypeHandlers'
  BY DEF StopHost, TypeHandlers
<1>3. /\ TypeDaemons' /\ TypeQueue' /\ TypeCounters' /\ TypeSends'
      /\ TypeContexts' /\ TypeNetwork' /\ TypeHistory'
  BY DEF StopHost, TypeDaemons, TypeQueue, TypeCounters, TypeSends, TypeContexts,
         TypeNetwork, TypeHistory, counters, barrier, signals, replies, network,
         history
<1>4. Linked' /\ Covered' /\ CountersExact'
  BY Frame DEF StopHost, Linked, counters, network, Intact
<1>5. QED
  BY <1>1, <1>2, <1>3, <1>4

\* The daemon receives are stopped, what they had not handled is gone.
LEMMA StopRecvIInv ==
  ASSUME IInv, StopRecv
  PROVE  IInv'
<1> USE DEF IInv, TypeOK
<1>1. TypeRThread'
  BY DEF StopRecv, TypeRThread
<1>2. TypeNetwork'
  BY DEF StopRecv, TypeNetwork
<1>3. /\ TypeDaemons' /\ TypeQueue' /\ TypeCounters' /\ TypeHandlers'
      /\ TypeSends' /\ TypeContexts' /\ TypeHistory'
  BY DEF StopRecv, TypeDaemons, TypeQueue, TypeCounters, TypeHandlers, TypeSends,
         TypeContexts, TypeHistory, counters, barrier, signals, replies, network,
         history
<1>4. Linked' /\ Covered' /\ CountersExact'
  BY Frame DEF StopRecv, Linked, counters, network, Intact
<1>5. QED
  BY <1>1, <1>2, <1>3, <1>4

\* The signal send is stopped, its callback still due if it was sending.
LEMMA StopSigIInv ==
  ASSUME IInv, StopSig
  PROVE  IInv'
<1> USE DEF IInv, TypeOK
<1>1. TypeRThread'
  BY DEF StopSig, TypeRThread
<1>2. TypeSends'
  <2>1. sig_aio' \in {"idle", "sending", "done"} /\ sig_list' \in Seq(Pipes)
    BY DEF StopSig, TypeSends
  <2>2. uwq' \in Seq([pipe : Pipes, msg : Int])
    BY RemoveAtProperties DEF StopSig, TypeSends
  <2>3. QED
    BY <2>1, <2>2 DEF TypeSends
<1>3. /\ TypeDaemons' /\ TypeQueue' /\ TypeCounters' /\ TypeHandlers'
      /\ TypeContexts' /\ TypeNetwork' /\ TypeHistory'
  BY DEF StopSig, TypeDaemons, TypeQueue, TypeCounters, TypeHandlers,
         TypeContexts, TypeNetwork, TypeHistory, counters, barrier, signals,
         replies, network, history
<1>4. Linked' /\ Covered' /\ CountersExact'
  BY Frame DEF StopSig, Linked, counters, network, Intact
<1>5. QED
  BY <1>1, <1>2, <1>3, <1>4

\* The poly socket closes: pipes are lost, sends abort, counters stay.
LEMMA ClosePolyIInv ==
  ASSUME IInv, ClosePoly
  PROVE  IInv'
<1> USE DEF IInv, TypeOK
<1>1. TypeRThread'
  BY DEF ClosePoly, TypeRThread
<1>2. TypeHandlers'
  BY DEF ClosePoly, TypeHandlers
<1>3. TypeSends'
  BY EmptySeq DEF ClosePoly, signals, TypeSends
<1>4. TypeNetwork'
  BY EmptySeq DEF ClosePoly, TypeNetwork
<1>5. TypeDaemons' /\ TypeQueue' /\ TypeCounters' /\ TypeContexts' /\ TypeHistory'
  BY DEF ClosePoly, TypeDaemons, TypeQueue, TypeCounters, TypeContexts,
         TypeHistory, counters, barrier, signals, replies, network, history
<1>6. Linked' /\ Covered' /\ CountersExact'
  BY Frame DEF ClosePoly, Linked, counters, network, Intact
<1>7. QED
  BY <1>1, <1>2, <1>3, <1>4, <1>5, <1>6

\* The reply holders are freed and their contexts closed.
LEMMA CloseRepliesIInv ==
  ASSUME IInv, CloseReplies
  PROVE  IInv'
<1> USE DEF IInv, TypeOK
<1>1. TypeRThread'
  BY DEF CloseReplies, TypeRThread
<1>2. TypeContexts'
  BY DEF CloseReplies, TypeContexts
<1>3. /\ TypeDaemons' /\ TypeQueue' /\ TypeCounters' /\ TypeHandlers'
      /\ TypeSends' /\ TypeNetwork' /\ TypeHistory'
  BY DEF CloseReplies, TypeDaemons, TypeQueue, TypeCounters, TypeHandlers,
         TypeSends, TypeNetwork, TypeHistory, counters, barrier, signals,
         replies, network, history
<1>4. Linked' /\ Covered' /\ CountersExact'
  BY Frame DEF CloseReplies, Linked, counters, network, Intact
<1>5. QED
  BY <1>1, <1>2, <1>3, <1>4

\* A pipe attaches, before the dispatcher knows of it.
LEMMA PipeStartIInv ==
  ASSUME IInv, NEW p \in Pipes, PipeStart(p)
  PROVE  IInv'
<1> USE DEF IInv, TypeOK
<1>1. TypeNetwork'
  BY DEF PipeStart, NetworkOnly, TypeNetwork
<1>2. /\ TypeDaemons' /\ TypeQueue' /\ TypeCounters' /\ TypeHandlers'
      /\ TypeSends' /\ TypeContexts' /\ TypeRThread' /\ TypeHistory'
  BY DEF PipeStart, TypeDaemons, TypeQueue, TypeCounters, TypeHandlers,
         TypeSends, TypeContexts, TypeRThread, TypeHistory, NetworkOnly,
         counters, barrier, signals, replies, rthread, network, history
<1>3. Linked' /\ Covered' /\ CountersExact'
  BY Frame DEF PipeStart, NetworkOnly, Linked, TypeNetwork, counters, rthread, network,
         Intact
<1>4. QED
  BY <1>1, <1>2, <1>3

\* A pipe is lost, with the messages on it.
LEMMA PipeDownIInv ==
  ASSUME IInv, NEW p \in Pipes, PipeDown(p), UNCHANGED daemon
  PROVE  IInv'
<1> USE DEF IInv, TypeOK
<1>1. TypeNetwork'
  <2>1. up' \subseteq Pipes /\ arrived' \subseteq [pipe : Pipes, msg : Task, marker : BOOLEAN]
    BY DEF PipeDown, TypeNetwork
  <2>2. chan' \in [Pipes -> Seq(Int)]
    BY EmptySeq DEF PipeDown, TypeNetwork
  <2>3. QED
    BY <2>1, <2>2 DEF PipeDown, TypeNetwork
<1>2. /\ TypeDaemons' /\ TypeQueue' /\ TypeCounters' /\ TypeHandlers'
      /\ TypeSends' /\ TypeContexts' /\ TypeRThread' /\ TypeHistory'
  BY DEF PipeDown, TypeDaemons, TypeQueue, TypeCounters, TypeHandlers, TypeSends,
         TypeContexts, TypeRThread, TypeHistory, NetworkOnly, counters, barrier,
         signals, replies, rthread, network, history
<1>3. Linked' /\ Covered' /\ CountersExact'
  BY Frame DEF PipeDown, NetworkOnly, Linked, TypeNetwork, counters, rthread, network,
         Intact
<1>4. QED
  BY <1>1, <1>2, <1>3

\* The poly socket takes the head of its queue of sends.
LEMMA RouteIInv ==
  ASSUME IInv, Route
  PROVE  IInv'
<1> USE DEF IInv, TypeOK
<1>1. TypeSends'
  <2>1. uwq' \in Seq([pipe : Pipes, msg : Int])
    BY HeadTailProperties DEF Route, TypeSends
  <2>2. QED
    BY <2>1 DEF Route, NetworkOnly, TypeSends
<1>2. TypeHandlers'
  <2>1. Head(uwq) \in [pipe : Pipes, msg : Int]
    BY HeadTailProperties DEF Route, TypeSends
  <2>2. init_aio' \in [Pipes -> {"idle", "sending", "done", "failed"}]
    BY <2>1 DEF Route, TypeHandlers
  <2>3. QED
    BY <2>2 DEF Route, NetworkOnly, TypeHandlers
<1>3. TypeNetwork'
  <2>1. Head(uwq).pipe \in Pipes /\ Head(uwq).msg \in Int
    <3>1. Head(uwq) \in [pipe : Pipes, msg : Int]
      BY HeadTailProperties DEF Route, TypeSends
    <3>2. QED
      BY <3>1
  <2>2. Append(chan[Head(uwq).pipe], Head(uwq).msg) \in Seq(Int)
    BY <2>1, AppendProperties DEF TypeNetwork
  <2>3. chan' \in [Pipes -> Seq(Int)]
    BY <2>1, <2>2 DEF Route, TypeNetwork
  <2>4. QED
    BY <2>3 DEF Route, TypeNetwork
<1>4. /\ TypeDaemons' /\ TypeQueue' /\ TypeCounters'
      /\ TypeContexts' /\ TypeRThread' /\ TypeHistory'
  BY DEF Route, TypeDaemons, TypeQueue, TypeCounters, TypeContexts, TypeRThread,
         TypeHistory, NetworkOnly, counters, barrier, signals, replies, rthread,
         network, history
<1>5. Linked' /\ Covered' /\ CountersExact'
  BY Frame DEF Route, NetworkOnly, Linked, TypeNetwork, counters, rthread, network,
         Intact
<1>6. QED
  BY <1>1, <1>2, <1>3, <1>4, <1>5

\* A daemon replies to the task it runs.
LEMMA DaemonReplyIInv ==
  ASSUME IInv, NEW p \in Pipes, NEW marker \in Markers, DaemonReply(p, marker)
  PROVE  IInv'
<1> USE DEF IInv, TypeOK
<1>1. TypeNetwork'
  <2>1. [pipe |-> p, msg |-> daemon[p], marker |-> marker]
          \in [pipe : Pipes, msg : Task, marker : BOOLEAN]
    BY DispatcherAssumption DEF DispatcherAssumption, DaemonReply
  <2>2. daemon' \in [Pipes -> Int]
    BY DEF DaemonReply, TypeNetwork
  <2>3. QED
    BY <2>1, <2>2 DEF DaemonReply, TypeNetwork
<1>2. /\ TypeDaemons' /\ TypeQueue' /\ TypeCounters' /\ TypeHandlers'
      /\ TypeSends' /\ TypeContexts' /\ TypeRThread' /\ TypeHistory'
  <2>1. TypeDaemons' /\ TypeQueue' /\ TypeCounters' /\ TypeHandlers'
    BY DEF DaemonReply, TypeDaemons, TypeQueue, TypeCounters, TypeHandlers, NetworkOnly,
           counters, barrier, rthread
  <2>2. TypeSends' /\ TypeContexts' /\ TypeRThread' /\ TypeHistory'
    BY DEF DaemonReply, TypeSends, TypeContexts, TypeRThread, TypeHistory, NetworkOnly,
           signals, replies, rthread, network, history
  <2>3. QED
    BY <2>1, <2>2
<1>3. Linked' /\ Covered' /\ CountersExact'
  BY Frame DEF DaemonReply, NetworkOnly, Linked, TypeNetwork, counters, rthread,
         network, Intact
<1>4. QED
  BY <1>1, <1>2, <1>3

\* A reply reaches the host, its holder stays until it is harvested.
LEMMA ReplySentIInv ==
  ASSUME IInv, NEW r \in reply_active, ReplySent(r)
  PROVE  IInv'
<1> USE DEF IInv, TypeOK
<1>1. TypeContexts'
  <2>1. [r EXCEPT !.busy = FALSE] \in [ctx : Task, msg : Int, busy : BOOLEAN]
    BY DEF TypeContexts
  <2>2. QED
    BY <2>1 DEF ReplySent, NetworkOnly, TypeContexts
<1>2. TypeHistory'
  <2>1. r.ctx \in Task /\ r.msg \in Int
    BY DEF TypeContexts
  <2>2. QED
    BY <2>1 DEF ReplySent, NetworkOnly, TypeHistory
<1>3. /\ TypeDaemons' /\ TypeQueue' /\ TypeCounters' /\ TypeHandlers'
      /\ TypeSends' /\ TypeRThread' /\ TypeNetwork'
  <2>1. TypeDaemons' /\ TypeQueue' /\ TypeCounters'
    BY DEF ReplySent, NetworkOnly, TypeDaemons, TypeQueue, TypeCounters, counters, barrier
  <2>2. TypeHandlers' /\ TypeSends'
    BY DEF ReplySent, NetworkOnly, TypeHandlers, TypeSends
  <2>3. TypeRThread' /\ TypeNetwork'
    BY DEF ReplySent, NetworkOnly, TypeRThread, TypeNetwork, rthread, network
  <2>4. QED
    BY <2>1, <2>2, <2>3
<1>4. Linked' /\ Covered' /\ CountersExact'
  BY Frame DEF ReplySent, NetworkOnly, Linked, TypeNetwork, counters, rthread, network,
         Intact
<1>5. QED
  BY <1>1, <1>2, <1>3, <1>4

\* A daemon reads a message of its pipe.
LEMMA DaemonTakeIInv ==
  ASSUME IInv, NEW p \in Pipes, DaemonTake(p)
  PROVE  IInv'
<1>1. CASE PipeDown(p) /\ UNCHANGED daemon
  BY <1>1, PipeDownIInv
<1>2. CASE /\ \/ UNCHANGED daemon
              \/ daemon' = [daemon EXCEPT ![p] = Ready]
              \/ daemon' = [daemon EXCEPT ![p] = Head(chan[p])]
           /\ chan' = [chan EXCEPT ![p] = Tail(@)]
           /\ NetworkOnly
           /\ UNCHANGED <<init_aio, sig_aio, replies, uwq, up, phase, arrived, answers>>
  <2> USE DEF IInv, TypeOK
  <2>1. TypeNetwork'
    <3>1. chan[p] \in Seq(Int) /\ chan[p] # <<>>
      BY DEF DaemonTake, TypeNetwork
    <3>2. Head(chan[p]) \in Int /\ Tail(chan[p]) \in Seq(Int)
      BY <3>1, HeadTailProperties
    <3>3. daemon' \in [Pipes -> Int] /\ chan' \in [Pipes -> Seq(Int)]
      BY <1>2, <3>2 DEF TypeNetwork
    <3>4. QED
      BY <1>2, <3>3 DEF TypeNetwork
  <2>2. /\ TypeDaemons' /\ TypeQueue' /\ TypeCounters' /\ TypeHandlers'
        /\ TypeSends' /\ TypeContexts' /\ TypeRThread' /\ TypeHistory'
    BY <1>2 DEF TypeDaemons, TypeQueue, TypeCounters, TypeHandlers, TypeSends,
                TypeContexts, TypeRThread, TypeHistory, NetworkOnly, counters,
                barrier, signals, replies, rthread, network, history
  <2>3. Linked' /\ Covered' /\ CountersExact'
    BY <1>2, Frame DEF NetworkOnly, Linked, TypeNetwork, counters, rthread, network, Intact
  <2>4. QED
    BY <2>1, <2>2, <2>3
<1>3. QED
  BY <1>1, <1>2 DEF DaemonTake

-----------------------------------------------------------------------------
(* Actions on slots and queue *)

\* An iteration of the drain moves the head of the queue to an idle daemon.
LEMMA DrainStepIInv ==
  ASSUME IInv, DrainStep
  PROVE  IInv'
<1> USE DEF IInv, TypeOK
<1> DEFINE t == Head(inq)
<1>1. /\ inq # <<>> /\ t \in Task /\ t <= count
      /\ Tail(inq) \in Seq(Task) /\ Len(Tail(inq)) = Len(inq) - 1 /\ Len(inq) \in Nat
      /\ \A i \in 1..Len(Tail(inq)) : Tail(inq)[i] = inq[i + 1]
  <2>1. inq # <<>> /\ inq \in Seq(Task) /\ \A i \in 1..Len(inq) : inq[i] <= count
    BY DEF DrainStep, DrainDone, TypeQueue, Linked
  <2>2. Len(inq) \in Nat /\ 1 \in 1..Len(inq) /\ t = inq[1]
    BY <2>1, EmptySeq, LenProperties
  <2>3. t \in Task /\ t <= count
    BY <2>1, <2>2, ElementOfSeq
  <2>4. QED
    BY <2>1, <2>2, <2>3, HeadTailProperties
<1> HIDE DEF t
<1>2. header[t] \in Header /\ header[t].len \in Nat
  <2>1. header \in Seq(Header) /\ t \in 1..Len(header)
    BY <1>1 DEF TypeQueue, Linked
  <2>2. header[t] \in Header
    BY <2>1, ElementOfSeq
  <2>3. QED
    BY <2>2 DEF Header
<1>3. PICK p \in IdleDaemons : AssignTask(p, t, header[t])
  BY DEF DrainStep, t
<1>4. /\ slot' \in [Pipes -> Slot] /\ syncing' \in BOOLEAN /\ sync_generation' \in Nat
      /\ uwq' \in Seq([pipe : Pipes, msg : Int])
      /\ dispatched' \in Seq([pipe : Pipes, task : Task])
      /\ executing' = executing + 1
      /\ Cardinality(Busy) \in Nat /\ Cardinality(Connected) \in Nat
      /\ Cardinality(Busy') = Cardinality(Busy) + 1
      /\ Cardinality(Connected') = Cardinality(Connected)
      /\ \A q \in Pipes : /\ slot[q].state = "NONE" => slot'[q] = slot[q]
                          /\ (slot'[q].ctx = t \/ slot'[q] = slot[q])
  BY <1>1, <1>2, <1>3, AssignTaskProperties
<1>5. inq' = Tail(inq) /\ inq_count' = inq_count - 1 /\ queued_bytes' = queued_bytes - header[t].len
  BY DEF DrainStep, Dequeue, t
<1>6. TypeDaemons'
  BY <1>4 DEF DrainStep, TypeDaemons
<1>7. TypeQueue'
  BY <1>1, <1>5 DEF DrainStep, TypeQueue
<1>8. TypeCounters'
  <2>1. inq_count' \in Nat /\ executing' \in Nat
    BY <1>1, <1>4, <1>5 DEF TypeCounters, Covered
  <2>2. queued_bytes' \in Int
    BY <1>2, <1>5 DEF TypeCounters
  <2>3. QED
    BY <2>1, <2>2 DEF DrainStep, TypeCounters
<1>9. TypeHandlers'
  BY DEF DrainStep, TypeHandlers
<1>10. TypeSends'
  BY <1>4 DEF DrainStep, TypeSends, signals
<1>11. TypeHistory'
  BY <1>4 DEF DrainStep, TypeHistory
<1>12. TypeContexts' /\ TypeRThread' /\ TypeNetwork'
  BY DEF DrainStep, TypeContexts, TypeRThread, TypeNetwork, replies, rthread, network
<1>13. Linked'
  <2>1. \A i \in 1..Len(inq') : inq'[i] <= count'
    BY <1>1, <1>5 DEF DrainStep, Linked
  <2>2. \A q \in Pipes : slot'[q].state = "BUSY" => slot'[q].ctx \in Task
    <3> SUFFICES ASSUME NEW q \in Pipes, slot'[q].state = "BUSY"
                 PROVE  slot'[q].ctx \in Task
      OBVIOUS
    <3>1. CASE slot'[q].ctx = t
      BY <1>1, <3>1
    <3>2. CASE slot'[q] = slot[q]
      BY <3>2 DEF Linked
    <3>3. slot'[q].ctx = t \/ slot'[q] = slot[q]
      BY <1>4
    <3>4. QED
      BY <3>1, <3>2, <3>3
  <2>3. mtx'.ctx = mtx.ctx
    BY DEF DrainStep, TypeHandlers
  <2>4. \A q \in Pipes : phase'[q] \in {"none", "attached"} => slot'[q].state = "NONE"
    BY <1>4 DEF DrainStep, Linked, network
  <2>5. QED
    BY <2>1, <2>2, <2>3, <2>4 DEF DrainStep, Linked
<1>14. Covered'
  BY <1>1, <1>4, <1>5 DEF DrainStep, Covered, TypeCounters
<1>15. CountersExact'
  <2>1. Intact' <=> Intact
    BY DEF DrainStep, Intact, rthread
  <2>2. count' = count /\ outq_count' = outq_count
    BY DEF DrainStep
  <2>3. /\ count \in Int /\ inq_count \in Int /\ executing \in Int /\ outq_count \in Int
    BY DEF TypeCounters, TypeQueue
  <2>4. QED
    BY <1>1, <1>4, <1>5, <2>1, <2>2, <2>3 DEF CountersExact
<1>16. QED
  BY <1>6, <1>7, <1>8, <1>9, <1>10, <1>11, <1>12, <1>13, <1>14, <1>15

\* What an action that changes one slot, and no queue, must respect.
LEMMA SlotFrame ==
  ASSUME IInv, NEW p \in Pipes,
         slot' \in [Pipes -> Slot], \A q \in Pipes \ {p} : slot'[q] = slot[q],
         slot'[p].state = "BUSY" => slot'[p] = slot[p],
         phase'[p] \in {"none", "attached"} => slot'[p].state = "NONE",
         \A q \in Pipes \ {p} : phase'[q] = phase[q],
         mtx'.ctx # Fresh => mtx'.ctx \in Task,
         UNCHANGED <<inq, header, count, inq_count>>,
         executing' = executing
           - (IF slot[p].state = "BUSY" /\ slot'[p].state # "BUSY" THEN 1 ELSE 0),
         outq_count' = outq_count
           - (IF slot[p].state \in {"IDLE", "BUSY"} THEN 1 ELSE 0)
           + (IF slot'[p].state \in {"IDLE", "BUSY"} THEN 1 ELSE 0),
         Intact' => Intact
  PROVE  /\ Linked' /\ Covered' /\ CountersExact'
         /\ executing' \in Nat /\ outq_count' \in Nat
<1> USE DEF IInv, TypeOK
<1>1. slot \in [Pipes -> Slot]
  BY DEF TypeDaemons
<1>2. /\ Cardinality(Busy) \in Nat /\ Cardinality(Connected) \in Nat
      /\ Cardinality(Busy') = Cardinality(Busy)
           - (IF slot[p].state = "BUSY" THEN 1 ELSE 0)
           + (IF slot'[p].state = "BUSY" THEN 1 ELSE 0)
      /\ Cardinality(Connected') = Cardinality(Connected)
           - (IF slot[p].state \in {"IDLE", "BUSY"} THEN 1 ELSE 0)
           + (IF slot'[p].state \in {"IDLE", "BUSY"} THEN 1 ELSE 0)
  BY <1>1, SlotCounts
<1>3. /\ Cardinality(Busy') - Cardinality(Busy) = executing' - executing
      /\ Cardinality(Connected') - Cardinality(Connected) = outq_count' - outq_count
      /\ executing' \in Int /\ outq_count' \in Int /\ executing' <= executing
      /\ executing \in Nat /\ outq_count \in Nat
      /\ Cardinality(Busy') \in Int /\ Cardinality(Connected') \in Int
  BY <1>2 DEF TypeCounters
<1>4. Cardinality(Busy') \in Nat /\ Cardinality(Connected') \in Nat
  <2>1. slot' \in [Pipes -> Slot] /\ IsFiniteSet(Pipes)
    BY DispatcherAssumption DEF DispatcherAssumption
  <2>2. IsFiniteSet(Busy') /\ IsFiniteSet(Connected')
    BY <2>1, FS_Subset DEF Busy, Connected
  <2>3. QED
    BY <2>2, FS_CardinalityType
<1>5. Covered'
  BY <1>2, <1>3, <1>4 DEF Covered
<1>6. executing' \in Nat /\ outq_count' \in Nat
  BY <1>3, <1>4, <1>5 DEF Covered
<1>7. Linked'
  BY DEF Linked
<1>8. CountersExact'
  <2>1. count \in Int /\ inq_count \in Int
    BY DEF TypeQueue, TypeCounters
  <2>2. ASSUME Intact' PROVE outq_count' = Cardinality(Connected')
    BY <1>3, <1>4, <2>2 DEF CountersExact
  <2>3. ASSUME Intact' PROVE executing' = Cardinality(Busy')
    BY <1>3, <1>4, <2>3 DEF CountersExact
  <2>4. ASSUME Intact' PROVE inq_count' = Len(inq')
    BY <2>4 DEF CountersExact
  <2>5. ASSUME Intact' PROVE count' - inq_count' - executing' >= 0
    BY <1>3, <2>1, <2>5 DEF CountersExact
  <2>6. QED
    BY <2>2, <2>3, <2>4, <2>5 DEF CountersExact
<1>9. QED
  BY <1>5, <1>6, <1>7, <1>8

\* A new pipe gets a slot, or is closed.
LEMMA HandleConnectIInv ==
  ASSUME IInv, NEW p \in Pipes, HandleConnect(p)
  PROVE  IInv'
<1> USE DEF IInv, TypeOK
<1>1. slot[p].state = "NONE" /\ slot \in [Pipes -> Slot] /\ sync_generation - 1 \in Int
  BY DEF HandleConnect, Linked, TypeDaemons
<1>2. /\ slot' \in [Pipes -> Slot] /\ \A q \in Pipes \ {p} : slot'[q] = slot[q]
      /\ slot'[p].state \in {"NONE", "INIT"}
  <2>1. CASE UNCHANGED slot
    BY <1>1, <2>1
  <2>2. CASE slot' = [slot EXCEPT ![p] = [state |-> "INIT", msgid |-> 0,
                                          gen |-> sync_generation - 1, ctx |-> Fresh]]
    <3>1. [state |-> "INIT", msgid |-> 0, gen |-> sync_generation - 1, ctx |-> Fresh] \in Slot
      BY <1>1 DEF Slot
    <3>2. QED
      BY <1>1, <2>2, <3>1
  <2>3. QED
    BY <2>1, <2>2 DEF HandleConnect
<1>3. TypeDaemons'
  BY <1>1, <1>2 DEF HandleConnect, barrier, TypeDaemons
<1>4. TypeHandlers'
  BY DEF HandleConnect, Unlock, Reap, TypeHandlers
<1>5. TypeSends'
  <2>1. [pipe |-> p, msg |-> InitMsg] \in [pipe : Pipes, msg : Int]
    OBVIOUS
  <2>2. uwq' \in Seq([pipe : Pipes, msg : Int])
    <3>1. Append(uwq, [pipe |-> p, msg |-> InitMsg]) \in Seq([pipe : Pipes, msg : Int])
      BY <2>1, AppendProperties DEF TypeSends
    <3>2. uwq' = Append(uwq, [pipe |-> p, msg |-> InitMsg]) \/ uwq' = uwq
      BY DEF HandleConnect
    <3>3. QED
      BY <3>1, <3>2 DEF TypeSends
  <2>3. QED
    BY <2>2 DEF HandleConnect, signals, TypeSends
<1>6. TypeNetwork'
  <2>1. up' \subseteq Pipes /\ chan' \in [Pipes -> Seq(Int)]
    <3>1. [chan EXCEPT ![p] = <<>>] \in [Pipes -> Seq(Int)]
      BY EmptySeq DEF TypeNetwork
    <3>2. \/ up' = up /\ chan' = chan
          \/ up' = up \ {p} /\ chan' = [chan EXCEPT ![p] = <<>>]
      BY DEF HandleConnect
    <3>3. QED
      BY <3>1, <3>2 DEF TypeNetwork
  <2>2. QED
    BY <2>1 DEF HandleConnect, TypeNetwork
<1>7. TypeQueue' /\ TypeCounters' /\ TypeContexts' /\ TypeRThread' /\ TypeHistory'
  BY DEF HandleConnect, TypeQueue, TypeCounters, TypeContexts, TypeRThread,
         TypeHistory, counters, barrier, replies, rthread, history
<1>8. Linked' /\ Covered' /\ CountersExact'
  <2>1. /\ phase'[p] = "added" /\ \A q \in Pipes \ {p} : phase'[q] = phase[q]
        /\ mtx' = mtx /\ main' = main /\ UNCHANGED <<inq, header, count, inq_count, executing, outq_count>>
    BY DEF HandleConnect, Unlock, counters, rthread, TypeNetwork
  <2>2. executing \in Nat /\ outq_count \in Nat
    BY DEF TypeCounters
  <2>3. QED
    BY <1>1, <1>2, <2>1, <2>2, SlotFrame DEF Linked, Intact
<1>9. QED
  BY <1>1, <1>2, <1>3, <1>4, <1>5, <1>6, <1>7, <1>8

\* A daemon is connected once its init message is sent.
LEMMA InitCbIInv ==
  ASSUME IInv, NEW p \in Pipes, InitCb(p)
  PROVE  IInv'
<1> USE DEF IInv, TypeOK
<1>1. /\ slot' \in [Pipes -> Slot] /\ \A q \in Pipes \ {p} : slot'[q] = slot[q]
      /\ \/ UNCHANGED <<slot, outq_count>>
         \/ slot[p].state = "INIT" /\ slot'[p].state = "IDLE" /\ outq_count' = outq_count + 1
  <2>1. CASE UNCHANGED <<slot, connections, outq_count, woken, mtx>>
    BY <2>1 DEF TypeDaemons
  <2>2. CASE /\ slot[p].state = "INIT" /\ slot' = [slot EXCEPT ![p].state = "IDLE"]
             /\ outq_count' = outq_count + 1
    <3>1. slot[p] \in Slot
      BY DEF TypeDaemons
    <3>2. [slot[p] EXCEPT !.state = "IDLE"] \in Slot
      BY <3>1 DEF Slot
    <3>3. slot' = [slot EXCEPT ![p] = [slot[p] EXCEPT !.state = "IDLE"]]
      BY <2>2
    <3>4. QED
      BY <2>2, <3>1, <3>2, <3>3 DEF TypeDaemons, Slot
  <2>3. QED
    BY <2>1, <2>2 DEF InitCb
<1>2. Linked' /\ Covered' /\ CountersExact' /\ outq_count' \in Nat
  <2>1. /\ phase' = phase /\ main' = main /\ UNCHANGED <<inq, header, count, inq_count, executing>>
        /\ mtx'.ctx # Fresh => mtx'.ctx \in Task
    BY DEF InitCb, DrainThen, Unlock, network, rthread, Linked
  <2>2. executing \in Nat /\ outq_count \in Nat
    BY DEF TypeCounters
  <2>3. phase[p] \in {"none", "attached"} => slot[p].state = "NONE"
    BY DEF Linked
  <2>4. QED
    BY <1>1, <2>1, <2>2, <2>3, SlotFrame DEF Intact
<1>3. TypeDaemons'
  BY <1>1 DEF InitCb, barrier, TypeDaemons
<1>4. TypeHandlers'
  <2>1. init_aio' \in [Pipes -> {"idle", "sending", "done", "failed"}]
    BY DEF InitCb, TypeHandlers
  <2>2. mtx' \in [held : BOOLEAN, dequeued : BOOLEAN, ctx : Nat, msg : Int]
    <3>1. [held |-> TRUE, dequeued |-> FALSE, ctx |-> Fresh, msg |-> NoAnswer]
            \in [held : BOOLEAN, dequeued : BOOLEAN, ctx : Nat, msg : Int]
      OBVIOUS
    <3>2. \/ mtx' = mtx
          \/ mtx' = [held |-> TRUE, dequeued |-> FALSE, ctx |-> Fresh, msg |-> NoAnswer]
      BY DEF InitCb, DrainThen, Unlock
    <3>3. QED
      BY <3>1, <3>2 DEF TypeHandlers
  <2>3. QED
    BY <2>1, <2>2 DEF InitCb, TypeHandlers
<1>5. TypeCounters'
  <2>1. connections' \in Nat
    BY DEF InitCb, TypeCounters
  <2>2. QED
    BY <1>2, <2>1 DEF InitCb, TypeCounters
<1>6. TypeRThread'
  BY WakeType DEF InitCb
<1>7. TypeQueue' /\ TypeSends' /\ TypeContexts' /\ TypeNetwork' /\ TypeHistory'
  BY DEF InitCb, TypeQueue, TypeSends, TypeContexts, TypeNetwork, TypeHistory,
         signals, replies, network, history
<1>8. QED
  BY <1>1, <1>2, <1>3, <1>4, <1>5, <1>6, <1>7

\* A lost daemon's slot is removed, its task left to be reset.
LEMMA HandleDisconnectIInv ==
  ASSUME IInv, NEW p \in Pipes, HandleDisconnect(p)
  PROVE  IInv'
<1> USE DEF IInv, TypeOK
<1>1. /\ slot' \in [Pipes -> Slot] /\ \A q \in Pipes \ {p} : slot'[q] = slot[q]
      /\ slot'[p].state = "NONE"
      /\ executing' = executing - (IF slot[p].state = "BUSY" THEN 1 ELSE 0)
      /\ outq_count' = outq_count - (IF slot[p].state \in {"IDLE", "BUSY"} THEN 1 ELSE 0)
  <2>1. NoSlot \in Slot /\ slot \in [Pipes -> Slot] /\ NoSlot.state = "NONE"
    BY DEF NoSlot, Slot, TypeDaemons
  <2>2. executing \in Nat /\ outq_count \in Nat
    BY DEF TypeCounters
  <2>3. CASE slot[p].state = "NONE" /\ UNCHANGED <<slot, executing, outq_count>>
    BY <2>1, <2>2, <2>3
  <2>4. CASE slot[p].state = "BUSY" /\ executing' = executing - 1 /\ RemoveDaemon(p)
    BY <2>1, <2>2, <2>4 DEF RemoveDaemon
  <2>5. CASE slot[p].state \in {"INIT", "IDLE"} /\ executing' = executing /\ RemoveDaemon(p)
    BY <2>1, <2>2, <2>5 DEF RemoveDaemon
  <2>6. QED
    BY <2>3, <2>4, <2>5 DEF HandleDisconnect
<1>2. /\ Linked' /\ Covered' /\ CountersExact'
      /\ executing' \in Nat /\ outq_count' \in Nat
  <2>1. /\ \A q \in Pipes \ {p} : phase'[q] = phase[q]
        /\ mtx' = mtx /\ main' = main /\ UNCHANGED <<inq, header, count, inq_count>>
    BY DEF HandleDisconnect, Unlock, rthread, TypeNetwork
  <2>2. mtx.ctx # Fresh => mtx.ctx \in Task
    BY DEF Linked
  <2>3. executing \in Nat /\ outq_count \in Nat
    BY DEF TypeCounters
  <2>4. QED
    BY <1>1, <2>1, <2>2, <2>3, SlotFrame DEF Intact
<1>3. TypeDaemons'
  BY <1>1 DEF HandleDisconnect, barrier, TypeDaemons
<1>4. TypeHandlers'
  BY DEF HandleDisconnect, Reap, Unlock, TypeHandlers
<1>5. TypeCounters'
  BY <1>2 DEF HandleDisconnect, TypeCounters
<1>6. TypeContexts'
  <2>1. CASE UNCHANGED orphan
    BY <2>1 DEF HandleDisconnect, replies, TypeContexts
  <2>2. CASE /\ slot[p].state = "BUSY"
             /\ orphan' = orphan \cup {[ctx |-> slot[p].ctx, close |-> stopped]}
    <3>1. [ctx |-> slot[p].ctx, close |-> stopped] \in [ctx : Task, close : BOOLEAN]
      BY <2>2 DEF Linked, TypeDaemons
    <3>2. QED
      BY <2>2, <3>1 DEF HandleDisconnect, replies, TypeContexts
  <2>3. QED
    BY <2>1, <2>2 DEF HandleDisconnect
<1>7. TypeRThread'
  BY WakeType DEF HandleDisconnect
<1>8. TypeNetwork'
  BY DEF HandleDisconnect, TypeNetwork
<1>9. TypeQueue' /\ TypeSends' /\ TypeHistory'
  BY DEF HandleDisconnect, TypeQueue, TypeSends, TypeHistory, signals, history
<1>10. QED
  BY <1>1, <1>2, <1>3, <1>4, <1>5, <1>6, <1>7, <1>8, <1>9

\* A result frees its daemon, or removes it when it is the daemon's last.
LEMMA HandleDaemonRecvIInv ==
  ASSUME IInv, NEW m \in arrived, HandleDaemonRecv(m)
  PROVE  IInv'
<1> USE DEF IInv, TypeOK
<1>1. m.pipe \in Pipes /\ m.msg \in Task /\ m.msg \in Int
  BY DEF TypeNetwork
<1>2. /\ slot' \in [Pipes -> Slot] /\ \A q \in Pipes \ {m.pipe} : slot'[q] = slot[q]
      /\ \/ UNCHANGED <<slot, executing, outq_count>>
         \/ /\ slot[m.pipe].state = "BUSY" /\ executing' = executing - 1
            /\ \/ slot'[m.pipe].state = "NONE" /\ outq_count' = outq_count - 1
               \/ slot'[m.pipe].state = "IDLE" /\ outq_count' = outq_count
  <2>1. CASE UNCHANGED <<slot, executing, outq_count>>
    BY <2>1 DEF TypeDaemons
  <2>2. CASE slot[m.pipe].state = "BUSY" /\ executing' = executing - 1 /\ RemoveDaemon(m.pipe)
    <3>1. NoSlot \in Slot /\ slot \in [Pipes -> Slot] /\ NoSlot.state = "NONE"
      BY DEF NoSlot, Slot, TypeDaemons
    <3>2. QED
      BY <1>1, <2>2, <3>1 DEF RemoveDaemon
  <2>3. CASE /\ slot[m.pipe].state = "BUSY" /\ executing' = executing - 1
             /\ slot' = [slot EXCEPT ![m.pipe].state = "IDLE", ![m.pipe].msgid = 0,
                                     ![m.pipe].ctx = Fresh]
             /\ outq_count' = outq_count
    <3>1. slot[m.pipe] \in Slot
      BY <1>1 DEF TypeDaemons
    <3>2. [slot[m.pipe] EXCEPT !.state = "IDLE", !.msgid = 0, !.ctx = Fresh] \in Slot
      BY <3>1 DEF Slot
    <3>3. slot' = [slot EXCEPT ![m.pipe] =
                     [slot[m.pipe] EXCEPT !.state = "IDLE", !.msgid = 0, !.ctx = Fresh]]
      BY <1>1, <2>3 DEF TypeDaemons
    <3>4. QED
      BY <1>1, <2>3, <3>1, <3>2, <3>3 DEF TypeDaemons, Slot
  <2>4. QED
    BY <2>1, <2>2, <2>3 DEF HandleDaemonRecv
<1>3. /\ Linked' /\ Covered' /\ CountersExact'
      /\ executing' \in Nat /\ outq_count' \in Nat
  <2>1. phase' = phase /\ main' = main /\ UNCHANGED <<inq, header, count, inq_count>>
    BY DEF HandleDaemonRecv, queue, rthread
  <2>2. mtx'.ctx # Fresh => mtx'.ctx \in Task
    <3>1. CASE mtx' = mtx
      BY <3>1 DEF Linked
    <3>2. CASE slot[m.pipe].state = "BUSY" /\ DrainThen(slot[m.pipe].ctx, m.msg)
      BY <1>1, <3>2 DEF DrainThen, Linked
    <3>3. QED
      BY <3>1, <3>2 DEF HandleDaemonRecv, Unlock
  <2>3. executing \in Nat /\ outq_count \in Nat
    BY DEF TypeCounters
  <2>4. phase[m.pipe] \in {"none", "attached"} => slot[m.pipe].state = "NONE"
    BY <1>1 DEF Linked
  <2>5. QED
    BY <1>1, <1>2, <2>1, <2>2, <2>3, <2>4, SlotFrame DEF Intact
<1>4. TypeDaemons'
  BY <1>2 DEF HandleDaemonRecv, barrier, TypeDaemons
<1>5. TypeHandlers'
  <2>1. retired' \subseteq Pipes
    BY <1>1 DEF HandleDaemonRecv, TypeHandlers
  <2>2. [held |-> TRUE, dequeued |-> FALSE, ctx |-> slot[m.pipe].ctx, msg |-> m.msg]
          \in [held : BOOLEAN, dequeued : BOOLEAN, ctx : Nat, msg : Int]
    BY <1>1 DEF TypeDaemons, Slot
  <2>3. mtx' \in [held : BOOLEAN, dequeued : BOOLEAN, ctx : Nat, msg : Int]
    BY <2>2 DEF HandleDaemonRecv, DrainThen, Unlock, TypeHandlers
  <2>4. QED
    BY <2>1, <2>3 DEF HandleDaemonRecv, TypeHandlers
<1>6. TypeCounters'
  BY <1>3 DEF HandleDaemonRecv, queue, TypeCounters
<1>7. TypeSends'
  <2>1. CASE QueueSignal(m.pipe)
    BY <1>1, <2>1, QueueSignalType
  <2>2. CASE UNCHANGED <<uwq, signals>>
    BY <2>2 DEF signals, TypeSends
  <2>3. QED
    BY <2>1, <2>2 DEF HandleDaemonRecv
<1>8. TypeContexts'
  <2>1. CASE slot[m.pipe].state = "BUSY" /\ ReplySend(slot[m.pipe].ctx, m.msg)
    <3>1. slot[m.pipe].ctx \in Task
      BY <1>1, <2>1 DEF Linked
    <3>2. QED
      BY <1>1, <2>1, <3>1, ReplySendType DEF HandleDaemonRecv, TypeContexts
  <2>2. CASE UNCHANGED replies
    BY <2>2 DEF HandleDaemonRecv, replies, TypeContexts
  <2>3. QED
    BY <2>1, <2>2 DEF HandleDaemonRecv
<1>9. TypeRThread'
  BY WakeType DEF HandleDaemonRecv
<1>10. TypeNetwork'
  BY DEF HandleDaemonRecv, TypeNetwork
<1>11. TypeQueue' /\ TypeHistory'
  BY DEF HandleDaemonRecv, TypeQueue, TypeHistory, queue, history
<1>12. QED
  BY <1>1, <1>2, <1>3, <1>4, <1>5, <1>6, <1>7, <1>8, <1>9, <1>10, <1>11

\* A cancellation signals a daemon or unlinks a queued request.
LEMMA CancelDirectIInv ==
  ASSUME IInv, NEW id \in CancelIds, CancelDirect(id)
  PROVE  IInv'
<1> USE DEF IInv, TypeOK
<1>1. /\ inq' \in Seq(Task) /\ Len(inq) \in Nat /\ Len(inq') \in Nat
      /\ \A j \in 1..Len(inq') : inq'[j] <= count
      /\ \/ UNCHANGED <<inq, inq_count, queued_bytes>>
         \/ /\ Len(inq') = Len(inq) - 1 /\ inq_count' = inq_count - 1
            /\ queued_bytes' \in Int
  <2>1. Len(inq) \in Nat
    BY LenProperties DEF TypeQueue
  <2>2. CASE UNCHANGED <<inq, inq_count, queued_bytes>>
    BY <2>1, <2>2 DEF TypeQueue, Linked
  <2>3. CASE \E i \in 1..Len(inq) : CancelInq(i)
    <3>1. PICK i \in 1..Len(inq) : CancelInq(i)
      BY <2>3
    <3>2. inq' = RemoveAt(inq, i) /\ Dequeue(inq[i])
      BY <3>1 DEF CancelInq
    <3>3. /\ inq' \in Seq(Task) /\ Len(inq') = Len(inq) - 1
          /\ \A j \in 1..Len(inq') : \E k \in 1..Len(inq) : inq'[j] = inq[k]
      <4>1. inq \in Seq(Task)
        BY DEF TypeQueue
      <4>2. /\ RemoveAt(inq, i) \in Seq(Task) /\ Len(RemoveAt(inq, i)) = Len(inq) - 1
            /\ \A j \in 1..Len(RemoveAt(inq, i)) :
                 \E k \in 1..Len(inq) : RemoveAt(inq, i)[j] = inq[k]
        BY <4>1, RemoveAtProperties, ZenonT(60)
      <4>3. QED
        BY <3>2, <4>2, Zenon
    <3>4. Len(inq') \in Nat
      BY <3>3, LenProperties
    <3>5. \A j \in 1..Len(inq') : inq'[j] <= count
      BY <3>3 DEF Linked
    <3>6. header[inq[i]].len \in Nat
      <4>1. header \in Seq(Header) /\ inq[i] \in 1..Len(header)
        <5>1. inq[i] \in Task /\ inq[i] <= count
          BY ElementOfSeq DEF TypeQueue, Linked
        <5>2. QED
          BY <5>1 DEF TypeQueue, Linked
      <4>2. header[inq[i]] \in Header
        BY <4>1, ElementOfSeq
      <4>3. QED
        BY <4>2 DEF Header
    <3>7. queued_bytes' \in Int /\ inq_count' = inq_count - 1
      BY <3>2, <3>6 DEF Dequeue, TypeCounters
    <3>8. QED
      BY <2>1, <3>3, <3>4, <3>5, <3>7
  <2>4. QED
    BY <2>2, <2>3 DEF CancelDirect
<1>2. TypeQueue'
  BY <1>1 DEF CancelDirect, TypeQueue
<1>3. TypeCounters'
  <2>1. inq_count' \in Nat
    BY <1>1 DEF Covered, TypeCounters
  <2>2. queued_bytes' \in Int
    BY <1>1 DEF TypeCounters
  <2>3. QED
    BY <2>1, <2>2 DEF CancelDirect, TypeCounters
<1>4. TypeSends'
  <2>1. CASE \E p \in RunningAs(id) : QueueSignal(p)
    BY <2>1, QueueSignalType DEF RunningAs, Busy
  <2>2. CASE UNCHANGED <<uwq, signals>>
    BY <2>2 DEF signals, TypeSends
  <2>3. QED
    BY <2>1, <2>2 DEF CancelDirect
<1>5. TypeContexts'
  <2>1. open' \subseteq open
    BY DEF CancelDirect, CancelInq
  <2>2. QED
    BY <2>1 DEF CancelDirect, TypeContexts
<1>6. TypeRThread'
  BY WakeType DEF CancelDirect, CancelInq, WakeGate
<1>7. TypeHistory'
  <2>1. cancels' = [cancels EXCEPT ![id] = @ + 1]
    BY DEF CancelDirect
  <2>2. QED
    BY <2>1 DEF CancelDirect, TypeHistory
<1>8. TypeDaemons' /\ TypeHandlers' /\ TypeNetwork'
  BY DEF CancelDirect, TypeDaemons, TypeHandlers, TypeNetwork, barrier, network
<1>9. Linked'
  <2>1. \A j \in 1..Len(inq') : inq'[j] <= count'
    BY <1>1 DEF CancelDirect
  <2>2. QED
    BY <2>1 DEF CancelDirect, network, Linked
<1>10. Covered' /\ CountersExact'
  <2>1. Busy' = Busy /\ Connected' = Connected
    BY DEF CancelDirect, Busy, Connected
  <2>2. UNCHANGED <<executing, outq_count, count, main>>
    BY DEF CancelDirect, rthread
  <2>3. /\ inq_count \in Int /\ inq_count' - Len(inq') = inq_count - Len(inq)
        /\ inq_count' \in Int /\ inq_count' <= inq_count
    BY <1>1 DEF TypeCounters
  <2>4. executing \in Int /\ count \in Int
    BY DEF TypeCounters, TypeQueue
  <2>5. Covered'
    BY <1>1, <2>1, <2>2, <2>3 DEF Covered
  <2>6. CountersExact'
    BY <1>1, <2>1, <2>2, <2>3, <2>4 DEF CountersExact, Intact
  <2>7. QED
    BY <2>5, <2>6
<1>11. QED
  BY <1>1, <1>2, <1>3, <1>4, <1>5, <1>6, <1>7, <1>8, <1>9, <1>10

\* dispatch_shutdown takes slots and queue apart, after the last use of the counters.
LEMMA FreeSendersIInv ==
  ASSUME IInv, FreeSenders
  PROVE  IInv'
<1> USE DEF IInv, TypeOK
<1>1. TypeDaemons'
  <2>1. NoSlot \in Slot
    BY DEF NoSlot, Slot
  <2>2. QED
    BY <2>1 DEF FreeSenders, barrier, TypeDaemons
<1>2. TypeHandlers'
  BY DEF FreeSenders, TypeHandlers
<1>3. TypeContexts'
  BY DEF FreeSenders, TypeContexts
<1>4. TypeRThread'
  BY DEF FreeSenders, TypeRThread
<1>5. TypeQueue' /\ TypeCounters' /\ TypeSends' /\ TypeNetwork' /\ TypeHistory'
  BY DEF FreeSenders, TypeQueue, TypeCounters, TypeSends, TypeNetwork,
         TypeHistory, counters, signals, network, history
<1>6. Linked'
  BY DEF FreeSenders, NoSlot, Linked, counters, network
<1>7. Covered' /\ CountersExact'
  <2>1. Busy' = {} /\ Connected' = {}
    BY DEF FreeSenders, NoSlot, Busy, Connected
  <2>2. ~Intact'
    BY DEF FreeSenders, Intact
  <2>3. QED
    BY <2>1, <2>2, FS_EmptySet DEF FreeSenders, counters, Covered, CountersExact, TypeCounters
<1>8. QED
  BY <1>1, <1>2, <1>3, <1>4, <1>5, <1>6, <1>7

\* dispatch_shutdown closes the contexts of queued requests, the counters no longer count.
LEMMA CloseQueueIInv ==
  ASSUME IInv, CloseQueue
  PROVE  IInv'
<1> USE DEF IInv, TypeOK
<1>1. TypeQueue'
  BY EmptySeq DEF CloseQueue, counters, TypeQueue
<1>2. TypeContexts'
  BY DEF CloseQueue, TypeContexts
<1>3. TypeRThread'
  BY DEF CloseQueue, TypeRThread
<1>4. /\ TypeDaemons' /\ TypeCounters' /\ TypeHandlers'
      /\ TypeSends' /\ TypeNetwork' /\ TypeHistory'
  BY DEF CloseQueue, TypeDaemons, TypeCounters, TypeHandlers, TypeSends,
         TypeNetwork, TypeHistory, counters, barrier, signals, network, history
<1>5. Linked'
  BY DEF CloseQueue, Linked, counters, network
<1>6. Covered' /\ CountersExact'
  <2>1. Busy' = Busy /\ Connected' = Connected
    BY DEF CloseQueue, Busy, Connected
  <2>2. ~Intact' /\ Len(inq') = 0
    BY DEF CloseQueue, Intact
  <2>3. QED
    BY <2>1, <2>2 DEF CloseQueue, counters, Covered, CountersExact, TypeCounters
<1>7. QED
  BY <1>1, <1>2, <1>3, <1>4, <1>5, <1>6

\* A request goes to an idle daemon, or to the end of the queue.
LEMMA HandleHostRecvIInv ==
  ASSUME IInv, NEW h \in Headers(count + 1), HandleHostRecv(h)
  PROVE  IInv'
<1> USE DEF IInv, TypeOK
<1> DEFINE t == count + 1
<1>1. t \in Task /\ count \in Nat /\ h \in Header /\ h.len \in Nat
  <2>1. count \in Nat /\ count < MaxTasks /\ MaxTasks \in Nat
    BY DispatcherAssumption DEF DispatcherAssumption, HandleHostRecv, TypeQueue
  <2>2. h \in [msgid : {t}, sync : SyncKinds, len : Sizes] /\ t \in Nat
    BY <2>1 DEF Headers
  <2>3. h.msgid \in Nat /\ h.sync \in BOOLEAN /\ h.len \in Nat
    BY <2>2, DispatcherAssumption DEF DispatcherAssumption
  <2>4. h \in Header
    BY <2>2, <2>3 DEF Header
  <2>5. QED
    BY <2>1, <2>3, <2>4
<1>2. /\ inq \in Seq(Task) /\ Len(inq) \in Nat /\ \A i \in 1..Len(inq) : inq[i] <= count
      /\ Len(header) = count /\ header \in Seq(Header)
  BY LenProperties DEF TypeQueue, Linked
<1>3. /\ UNCHANGED <<outq_count, connections, stopped, init_aio, retired, signals,
                     reply_active, orphan, rthread, woken, network, answers, cancels, mtx>>
  BY DEF HandleHostRecv, Unlock
<1>4. TypeRThread' /\ TypeNetwork'
  BY <1>3 DEF rthread, network, TypeRThread, TypeNetwork
<1>5. TypeHandlers'
  BY <1>3 DEF HandleHostRecv, TypeHandlers
<1>6. CASE UNCHANGED <<slot, queue, header, count, executing, barrier, host_ctx, open,
                       uwq, dispatched>>
  <2>1. TypeDaemons' /\ TypeQueue' /\ TypeCounters'
    BY <1>3, <1>6 DEF queue, barrier, TypeDaemons, TypeQueue, TypeCounters
  <2>2. TypeSends' /\ TypeContexts' /\ TypeHistory'
    BY <1>3, <1>6 DEF signals, TypeSends, TypeContexts, TypeHistory
  <2>3. Linked' /\ Covered' /\ CountersExact'
    BY <1>3, <1>6, Frame DEF queue, rthread, network, Linked, Intact
  <2>4. QED
    BY <1>4, <1>5, <2>1, <2>2, <2>3
<1>7. ASSUME count' = t, header' = Append(header, h), host_ctx' = t,
             open' = (open \ {Fresh}) \cup {t}
      PROVE  /\ header' \in Seq(Header) /\ Len(header') = count'
             /\ count' \in 0..MaxTasks /\ host_ctx' \in Nat
             /\ TypeContexts'
  <2>1. header' \in Seq(Header) /\ Len(header') = Len(header) + 1
    BY <1>1, <1>2, <1>7, AppendProperties
  <2>2. TypeContexts'
    BY <1>1, <1>3, <1>7 DEF TypeContexts
  <2>3. QED
    BY <1>1, <1>2, <1>7, <2>1, <2>2
<1>8. CASE /\ count' = t /\ header' = Append(header, h) /\ host_ctx' = t
           /\ open' = (open \ {Fresh}) \cup {t}
           /\ \E p \in IdleDaemons : AssignTask(p, t, h)
           /\ UNCHANGED queue
  <2>1. PICK p \in IdleDaemons : AssignTask(p, t, h)
    BY <1>8
  <2>2. /\ slot' \in [Pipes -> Slot] /\ syncing' \in BOOLEAN /\ sync_generation' \in Nat
        /\ uwq' \in Seq([pipe : Pipes, msg : Int])
        /\ dispatched' \in Seq([pipe : Pipes, task : Task])
        /\ executing' = executing + 1
        /\ Cardinality(Busy) \in Nat /\ Cardinality(Connected) \in Nat
        /\ Cardinality(Busy') = Cardinality(Busy) + 1
        /\ Cardinality(Connected') = Cardinality(Connected)
        /\ \A q \in Pipes : /\ slot[q].state = "NONE" => slot'[q] = slot[q]
                            /\ (slot'[q].ctx = t \/ slot'[q] = slot[q])
    BY <1>1, <2>1, AssignTaskProperties
  <2>3. UNCHANGED <<inq, inq_count, queued_bytes, peak_queued_bytes>>
    BY <1>8 DEF queue
  <2>4. TypeDaemons' /\ TypeQueue' /\ TypeCounters'
    BY <1>2, <1>3, <1>7, <1>8, <2>2, <2>3 DEF TypeDaemons, TypeQueue, TypeCounters
  <2>5. TypeSends' /\ TypeHistory'
    BY <1>3, <2>2 DEF signals, TypeSends, TypeHistory
  <2>6. Linked'
    <3>1. \A q \in Pipes : slot'[q].state = "BUSY" => slot'[q].ctx \in Task
      <4> SUFFICES ASSUME NEW q \in Pipes, slot'[q].state = "BUSY"
                   PROVE  slot'[q].ctx \in Task
        OBVIOUS
      <4>1. CASE slot'[q].ctx = t
        BY <1>1, <4>1
      <4>2. CASE slot'[q] = slot[q]
        BY <4>2 DEF Linked
      <4>3. QED
        BY <2>2, <4>1, <4>2
    <3>2. \A q \in Pipes : phase'[q] \in {"none", "attached"} => slot'[q].state = "NONE"
      BY <1>3, <2>2 DEF Linked, network
    <3>3. \A i \in 1..Len(inq') : inq'[i] <= count'
      <4>1. \A i \in 1..Len(inq) : inq[i] \in Int
        <5>1. \A i \in 1..Len(inq) : inq[i] \in Task
          BY <1>2, ElementOfSeq
        <5>2. QED
          BY <5>1
      <4>2. QED
        BY <1>1, <1>2, <1>8, <2>3, <4>1
    <3>4. QED
      BY <1>3, <1>7, <1>8, <3>1, <3>2, <3>3 DEF Linked
  <2>7. Covered' /\ CountersExact'
    <3>1. executing \in Nat /\ outq_count \in Nat /\ inq_count \in Nat /\ (Intact' <=> Intact)
      BY <1>3 DEF TypeCounters, rthread, Intact
    <3>2. /\ outq_count' = outq_count /\ inq_count' = inq_count /\ Len(inq') = Len(inq)
          /\ executing' = executing + 1 /\ count' = count + 1
      BY <1>3, <1>8, <2>2, <2>3
    <3>3. Covered'
      BY <2>2, <3>1, <3>2 DEF Covered
    <3>4. CountersExact'
      BY <1>1, <2>2, <3>1, <3>2 DEF CountersExact
    <3>5. QED
      BY <3>3, <3>4
  <2>8. QED
    BY <1>4, <1>5, <1>7, <1>8, <2>4, <2>5, <2>6, <2>7
<1>9. CASE /\ count' = t /\ header' = Append(header, h) /\ host_ctx' = t
           /\ open' = (open \ {Fresh}) \cup {t}
           /\ Enqueue(t, h)
           /\ UNCHANGED <<slot, executing, barrier, uwq, dispatched>>
  <2>1. /\ inq' = Append(inq, t) /\ inq_count' = inq_count + 1
        /\ queued_bytes' = queued_bytes + h.len
        /\ peak_queued_bytes' = queued_bytes' \/ peak_queued_bytes' = peak_queued_bytes
    BY <1>9 DEF Enqueue
  <2>2. /\ inq' \in Seq(Task) /\ Len(inq') = Len(inq) + 1 /\ inq'[Len(inq) + 1] = t
        /\ \A i \in 1..Len(inq) : inq'[i] = inq[i]
    BY <1>1, <1>2, <2>1, AppendProperties
  <2>3. TypeDaemons' /\ TypeQueue' /\ TypeCounters'
    <3>1. TypeCounters'
      BY <1>1, <1>3, <1>9, <2>1 DEF TypeCounters
    <3>2. QED
      BY <1>3, <1>7, <1>9, <2>2, <3>1 DEF barrier, TypeDaemons, TypeQueue
  <2>4. TypeSends' /\ TypeHistory'
    BY <1>3, <1>9 DEF signals, TypeSends, TypeHistory
  <2>5. Linked'
    <3>1. \A i \in 1..Len(inq') : inq'[i] <= count'
      <4> SUFFICES ASSUME NEW i \in 1..Len(inq') PROVE inq'[i] <= count'
        OBVIOUS
      <4>1. CASE i \in 1..Len(inq)
        <5>1. inq[i] \in Int /\ inq[i] <= count /\ inq'[i] = inq[i]
          <6>1. inq[i] \in Task
            BY <1>2, <4>1, ElementOfSeq
          <6>2. QED
            BY <1>2, <2>2, <4>1, <6>1
        <5>2. QED
          BY <1>1, <1>9, <5>1
      <4>2. CASE i = Len(inq) + 1
        BY <1>1, <1>9, <2>2, <4>2
      <4>3. QED
        BY <1>2, <2>2, <4>1, <4>2
    <3>2. QED
      BY <1>3, <1>7, <1>9, <3>1 DEF Linked, network
  <2>6. Covered' /\ CountersExact'
    <3>1. Busy' = Busy /\ Connected' = Connected
      BY <1>9 DEF Busy, Connected
    <3>2. executing \in Nat /\ outq_count \in Nat /\ inq_count \in Nat /\ (Intact' <=> Intact)
      BY <1>3 DEF TypeCounters, rthread, Intact
    <3>3. count' = count + 1 /\ UNCHANGED <<executing, outq_count>>
      BY <1>3, <1>9
    <3>4. Covered'
      BY <1>2, <2>1, <2>2, <3>1, <3>2, <3>3 DEF Covered
    <3>5. CountersExact'
      BY <1>1, <1>2, <2>1, <2>2, <3>1, <3>2, <3>3 DEF CountersExact
    <3>6. QED
      BY <3>4, <3>5
  <2>7. QED
    BY <1>4, <1>5, <1>7, <1>9, <2>3, <2>4, <2>5, <2>6
<1>10. QED
  BY <1>6, <1>8, <1>9 DEF HandleHostRecv

-----------------------------------------------------------------------------
(* The theorems *)

\* Every step, and every stutter, keeps the invariant.
LEMMA NextIInv == IInv /\ [Next]_vars => IInv'
<1> SUFFICES ASSUME IInv, [Next]_vars PROVE IInv'
  OBVIOUS
<1>1. CASE UNCHANGED vars
  <2>1. Linked' /\ Covered' /\ CountersExact'
    BY <1>1, Frame DEF IInv, Linked, Intact, vars
  <2>2. TypeDaemons' /\ TypeQueue' /\ TypeCounters' /\ TypeHandlers' /\ TypeSends'
    BY <1>1 DEF IInv, TypeOK, TypeDaemons, TypeQueue, TypeCounters, TypeHandlers, TypeSends, vars
  <2>3. TypeContexts' /\ TypeRThread' /\ TypeNetwork' /\ TypeHistory'
    BY <1>1 DEF IInv, TypeOK, TypeContexts, TypeRThread, TypeNetwork, TypeHistory, vars
  <2>4. QED
    BY <2>1, <2>2, <2>3 DEF IInv, TypeOK
<1>2. CASE Callback
  BY <1>2, DrainStepIInv, DrainEndIInv, HandleConnectIInv, InitCbIInv, HandleDisconnectIInv,
     SendConnResetIInv, RearmHostIInv, HandleDaemonRecvIInv, SigCbIInv DEF Callback
<1>3. CASE Network
  BY <1>3, RouteIInv, DaemonTakeIInv, ReplySentIInv DEF Network
<1>4. CASE Shutdown
  BY <1>4, StopHostIInv, StopRecvIInv, StopSigIInv, ClosePolyIInv, PolyClosedIInv,
     FreeSendersIInv, CloseRepliesIInv, CloseQueueIInv, CloseRepIInv DEF Shutdown
<1>5. CASE \/ \E h \in Headers(count + 1) : HandleHostRecv(h)
           \/ \E id \in CancelIds : CancelDirect(id)
  BY <1>5, HandleHostRecvIInv, CancelDirectIInv
<1>6. CASE Gate \/ (\E n \in Targets : Wait(n)) \/ Recheck \/ Stop
  BY <1>6, GateIInv, WaitIInv, RecheckIInv, StopIInv
<1>7. CASE \/ \E p \in Pipes : PipeStart(p) \/ Crash(p)
           \/ \E p \in Pipes, marker \in Markers : DaemonReply(p, marker)
  BY <1>7, PipeStartIInv, PipeDownIInv, DaemonReplyIInv DEF Crash
<1>8. QED
  BY <1>1, <1>2, <1>3, <1>4, <1>5, <1>6, <1>7 DEF Next, Freed

\* In every state of every behaviour the invariant holds.
THEOREM Invariance == Spec => []IInv
<1>1. Init => IInv
  BY InitIInv
<1>2. IInv /\ [Next]_vars => IInv'
  BY NextIInv
<1>3. QED
  BY <1>1, <1>2, PTL DEF Spec

\* Type correctness: the counters never go below zero, whatever the order of the
\* callbacks of dispatcher.c and however many daemons and requests there are.
THEOREM TypeCorrect == Spec => []TypeOK
<1>1. IInv => TypeOK
  BY DEF IInv
<1>2. QED
  BY <1>1, Invariance, PTL

\* What rnng_dispatcher_info reports is exact in every state until
\* dispatch_shutdown frees the slots.
THEOREM CountersAreExact == Spec => []CountersExact
<1>1. IInv => CountersExact
  BY DEF IInv
<1>2. QED
  BY <1>1, Invariance, PTL
=============================================================================
