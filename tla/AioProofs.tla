----------------------------- MODULE AioProofs -----------------------------
(***************************************************************************)
(* What holds of asynchronous I/O for any number of sends and receives.    *)
(*                                                                         *)
(* The hand-over of a send, the sleeper in race_aio and the taking of      *)
(* messages are right whatever R does.  That nothing is freed while it is  *)
(* in use, that the package is unloaded clean and that a promise is        *)
(* resolved once need R to keep clear of the windows that Quiet names.     *)
(*                                                                         *)
(* The invariant follows a send's owner against its callback (Handshake),  *)
(* what R's call holds on to (Calling), the result a reader may rely on    *)
(* (Results), the wait thread (WaitThread) and the sleeper (Racing); Cleared*)
(* and Resolving are what Quiet adds.                                      *)
(***************************************************************************)
EXTENDS Aio, SequenceTheorems, FiniteSetTheorems, TLAPS

Member(x, q) == \E i \in DOMAIN q : q[i] = x
Distinct(q) == \A i, j \in DOMAIN q : q[i] = q[j] => i = j

Came(s) == task[s] \in {"returning", "idle"}

\* A send is marked once one side has come, listed once the second has.
Handshake ==
  /\ \A s \in Sends : s \in mode <=> owner[s] = "finalized" \/ Came(s)
  /\ \A s \in Sends : In("free", s) => Came(s)
  /\ \A s \in Sends : task[s] \notin {"stored", "posting"}
  /\ HandedOver

\* R holds what its calls are about, and finalizes what it has dropped.
Calling ==
  /\ r.at \in {"ready", "scan", "race", "reap", "unloaded"} => r.of = NoAio
  /\ r.at \in {"keep", "check", "wait", "shared", "single"} =>
       r.of \in Recvs /\ owner[r.of] = "held"
  /\ r.at = "stop" => r.of \in Aios /\ owner[r.of] = "held"
  /\ r.at = "drain" => r.of \in Sends
  /\ r.at = "join" => r.of \in Recvs
  /\ r.at \in {"drain", "join", "free"} => r.of \in Aios /\ owner[r.of] = "dropped"
  /\ r.at = "free" /\ r.of \in Recvs => single[r.of] = "none"
  /\ \A a \in Aios : owner[a] # "held" => task[a] # "new"
  /\ \A a \in Aios : owner[a] = "freed" => task[a] = "idle" /\ a \notin data
  /\ \A v \in Recvs : owner[v] = "freed" => single[v] = "none"
  /\ \A v \in Recvs : node[v] = "live" => owner[v] = "held"

\* There is a result once the callback has stored it, and with it a message
\* until R takes it.
Results ==
  /\ \A v \in Recvs : task[v] \in {"stored", "posting", "returning", "idle"} => result[v] # "none"
  /\ \A v \in Recvs : result[v] = "ok" /\ value[v] = "none" /\ owner[v] # "freed" => v \in data
  /\ \A v \in Recvs : Member(v, queue) => result[v] # "none"

\* The wait thread waits for the aio R waits for, and clears it when it is idle.
WaitThread ==
  /\ wait_cond = "set" => shared # NoAio
  /\ waiter \in {"waiting", "woken"} => wait_cond # "idle" /\ shared # NoAio
  /\ waiter = "woken" => task[shared] = "idle"
  /\ wait_cond = "stop" => r.at \in {"reap", "unloaded"}
  /\ r.at = "shared" => IF wait_cond = "set" THEN shared = r.of ELSE task[r.of] = "idle"
  /\ \A v \in Recvs : single[v] = "done" => task[v] = "idle"

Racing == snap <= condition /\ RaceNotMissed

IInv == TypeOK /\ Handshake /\ Calling /\ Results /\ WaitThread /\ Racing

\* With R keeping clear, the wait thread's aio is held, and the package is
\* unloaded when no send is under way.
Cleared ==
  /\ shared # NoAio => owner[shared] = "held"
  /\ r.at = "unload" => r.of \in {NoAio, shared} /\ wait_cond # "set"
  /\ r.at \in {"unload", "reap", "unloaded"} => \A s \in Sends : task[s] \in {"new", "idle"}
  /\ r.at = "unloaded" => waiter = "ended" /\ free_list = <<>>

\* The node is posted by the callback that finds it or by the call that leaves it
\* after the callback, and its promise is resolved from the queue.
ResolvingOf(v) ==
  /\ task[v] \in {"new", "busy", "fired"} => result[v] = "none"
  /\ task[v] = "stored" => v \in Plain
  /\ task[v] = "posting" => node[v] = "live"
  /\ Member(v, queue) => node[v] = "live" /\ task[v] \in {"returning", "idle"}
  /\ node[v] \in {"none", "live"} => called[v] = 0
  /\ node[v] \in {"released", "collected"} =>
       called[v] = 1 /\ task[v] \in {"returning", "idle"}
  /\ In("keep", v) => node[v] = "none"
  /\ In("check", v) =>
       node[v] = "live" /\ task[v] \in {"busy", "idle"} /\ ~ Member(v, queue)

Resolving == Distinct(queue) /\ \A v \in Recvs : ResolvingOf(v)

----------------------------------------------------------------------------
(* Sequences without duplicates.                                           *)

LEMMA Pushed ==
  ASSUME NEW S, NEW q \in Seq(S), NEW x \in S
  PROVE  /\ <<x>> \o q \in Seq(S)
         /\ \A y : Member(y, <<x>> \o q) <=> y = x \/ Member(y, q)
         /\ Distinct(q) /\ ~ Member(x, q) => Distinct(<<x>> \o q)
<1> DEFINE p == <<x>> \o q
<1>1. <<x>> \in Seq(S) /\ Len(<<x>>) = 1 /\ <<x>>[1] = x
  OBVIOUS
<1>2. Len(q) \in Nat /\ DOMAIN q = 1 .. Len(q)
  BY LenProperties
<1>3. /\ p \in Seq(S) /\ Len(p) = 1 + Len(q)
      /\ \A i \in 1 .. 1 + Len(q) : p[i] = IF i <= 1 THEN <<x>>[i] ELSE q[i - 1]
  BY <1>1, ConcatProperties
<1>4. DOMAIN p = 1 .. 1 + Len(q)
  BY <1>3, LenProperties
<1>5. p[1] = x /\ \A i \in 1 .. Len(q) : p[i + 1] = q[i]
  BY <1>1, <1>2, <1>3
<1> HIDE DEF p
<1>6. \A y : Member(y, p) <=> y = x \/ Member(y, q)
  <2> SUFFICES ASSUME NEW y PROVE Member(y, p) <=> y = x \/ Member(y, q)
    OBVIOUS
  <2>1. ASSUME Member(y, p) PROVE y = x \/ Member(y, q)
    <3>1. PICK i \in 1 .. 1 + Len(q) : p[i] = y
      BY <2>1, <1>4 DEF Member
    <3>2. CASE i = 1
      BY <3>1, <3>2, <1>5
    <3>3. CASE i # 1
      <4>1. i - 1 \in 1 .. Len(q) /\ (i - 1) + 1 = i
        BY <3>3, <1>2
      <4>2. p[i] = q[i - 1]
        BY <4>1, <1>5
      <4>3. QED
        BY <3>1, <4>1, <4>2, <1>2 DEF Member
    <3>4. QED
      BY <3>2, <3>3
  <2>2. ASSUME y = x PROVE Member(y, p)
    BY <2>2, <1>2, <1>4, <1>5 DEF Member
  <2>3. ASSUME Member(y, q) PROVE Member(y, p)
    <3>1. PICK i \in 1 .. Len(q) : q[i] = y
      BY <2>3, <1>2 DEF Member
    <3>2. i + 1 \in DOMAIN p /\ p[i + 1] = y
      BY <3>1, <1>2, <1>4, <1>5
    <3>3. QED
      BY <3>2 DEF Member
  <2>4. QED
    BY <2>1, <2>2, <2>3
<1>7. ASSUME Distinct(q), ~ Member(x, q) PROVE Distinct(p)
  <2> SUFFICES ASSUME NEW i \in 1 .. 1 + Len(q), NEW j \in 1 .. 1 + Len(q), p[i] = p[j]
               PROVE  i = j
    BY <1>4 DEF Distinct
  <2>1. \A k \in 1 .. 1 + Len(q) : k # 1 => k - 1 \in 1 .. Len(q) /\ p[k] = q[k - 1]
    BY <1>2, <1>3
  <2>2. \A k \in 1 .. Len(q) : q[k] # x
    BY <1>2, <1>7 DEF Member
  <2>3. CASE i = 1 /\ j # 1
    BY <2>1, <2>2, <2>3, <1>5
  <2>4. CASE j = 1 /\ i # 1
    BY <2>1, <2>2, <2>4, <1>5
  <2>5. CASE i # 1 /\ j # 1
    <3>1. q[i - 1] = q[j - 1]
      BY <2>1, <2>5
    <3>2. i - 1 = j - 1
      BY <2>1, <2>5, <3>1, <1>2, <1>7 DEF Distinct
    <3>3. QED
      BY <3>2, <1>2
  <2>6. QED
    BY <2>3, <2>4, <2>5
<1>8. QED
  BY <1>3, <1>6, <1>7 DEF p

LEMMA Popped ==
  ASSUME NEW S, NEW q \in Seq(S), q # <<>>
  PROVE  /\ Head(q) \in S /\ Tail(q) \in Seq(S) /\ Member(Head(q), q)
         /\ \A y : Member(y, Tail(q)) => Member(y, q)
         /\ \A y : Member(y, q) => y = Head(q) \/ Member(y, Tail(q))
         /\ Distinct(q) => Distinct(Tail(q)) /\ ~ Member(Head(q), Tail(q))
<1>1. Len(q) \in Nat \ {0} /\ DOMAIN q = 1 .. Len(q)
  BY LenProperties, EmptySeq
<1>2. /\ Head(q) \in S /\ Tail(q) \in Seq(S) /\ Len(Tail(q)) = Len(q) - 1
      /\ \A i \in 1 .. Len(Tail(q)) : Tail(q)[i] = q[i + 1]
  BY HeadTailProperties
<1>3. DOMAIN Tail(q) = 1 .. Len(q) - 1
  BY <1>2, LenProperties
<1>4. Head(q) = q[1]
  OBVIOUS
<1>5. \A i \in 1 .. Len(q) - 1 : i + 1 \in DOMAIN q /\ Tail(q)[i] = q[i + 1]
  BY <1>1, <1>2
<1>6. Member(Head(q), q)
  BY <1>1, <1>4 DEF Member
<1>7. \A y : Member(y, Tail(q)) => Member(y, q)
  BY <1>3, <1>5 DEF Member
<1>8. ASSUME NEW y, Member(y, q) PROVE y = Head(q) \/ Member(y, Tail(q))
  <2>1. PICK i \in 1 .. Len(q) : q[i] = y
    BY <1>1, <1>8 DEF Member
  <2>2. CASE i = 1
    BY <2>1, <2>2, <1>4
  <2>3. CASE i # 1
    <3>1. i - 1 \in 1 .. Len(q) - 1 /\ (i - 1) + 1 = i
      BY <1>1, <2>3
    <3>2. Tail(q)[i - 1] = y
      BY <2>1, <3>1, <1>5
    <3>3. QED
      BY <3>1, <3>2, <1>3 DEF Member
  <2>4. QED
    BY <2>2, <2>3
<1>9. ASSUME Distinct(q) PROVE Distinct(Tail(q))
  <2> SUFFICES ASSUME NEW i \in 1 .. Len(q) - 1, NEW j \in 1 .. Len(q) - 1,
                      Tail(q)[i] = Tail(q)[j]
               PROVE  i = j
    BY <1>3 DEF Distinct
  <2>1. i + 1 = j + 1
    BY <1>5, <1>9 DEF Distinct
  <2>2. QED
    BY <2>1, <1>1
<1>10. ASSUME Distinct(q) PROVE ~ Member(Head(q), Tail(q))
  <2> SUFFICES ASSUME NEW i \in 1 .. Len(q) - 1, Tail(q)[i] = Head(q) PROVE FALSE
    BY <1>3 DEF Member
  <2>1. 1 \in DOMAIN q /\ q[i + 1] = q[1] /\ i + 1 \in DOMAIN q
    BY <1>1, <1>4, <1>5
  <2>2. i + 1 = 1
    BY <2>1, <1>10 DEF Distinct
  <2>3. QED
    BY <2>2, <1>1
<1>11. QED
  BY <1>2, <1>6, <1>7, <1>8, <1>9, <1>10

LEMMA Appended ==
  ASSUME NEW S, NEW q \in Seq(S), NEW x \in S
  PROVE  /\ Append(q, x) \in Seq(S)
         /\ \A y : Member(y, Append(q, x)) <=> y = x \/ Member(y, q)
         /\ Distinct(q) /\ ~ Member(x, q) => Distinct(Append(q, x))
<1> DEFINE p == Append(q, x)
<1>1. Len(q) \in Nat /\ DOMAIN q = 1 .. Len(q)
  BY LenProperties
<1>2. /\ p \in Seq(S) /\ Len(p) = Len(q) + 1
      /\ \A i \in 1 .. Len(q) : p[i] = q[i]
      /\ p[Len(q) + 1] = x
  BY AppendProperties
<1>3. DOMAIN p = 1 .. Len(q) + 1
  BY <1>2, LenProperties
<1> HIDE DEF p
<1>4. \A k \in 1 .. Len(q) + 1 : k \in 1 .. Len(q) \/ k = Len(q) + 1
  BY <1>1
<1>5. \A k \in 1 .. Len(q) : k \in 1 .. Len(q) + 1
  BY <1>1
<1>6. Len(q) + 1 \in 1 .. Len(q) + 1
  BY <1>1
<1>7. \A y : Member(y, p) <=> y = x \/ Member(y, q)
  BY <1>1, <1>2, <1>3, <1>4, <1>5, <1>6, Zenon DEF Member
<1>8. ASSUME Distinct(q), ~ Member(x, q) PROVE Distinct(p)
  <2>1. \A k \in 1 .. Len(q) : q[k] # x
    BY <1>1, <1>8 DEF Member
  <2>2. \A i, j \in 1 .. Len(q) : q[i] = q[j] => i = j
    BY <1>1, <1>8 DEF Distinct
  <2>3. QED
    BY <1>1, <1>2, <1>3, <1>4, <2>1, <2>2 DEF Distinct
<1>9. QED
  BY <1>2, <1>7, <1>8 DEF p

----------------------------------------------------------------------------
(* Types.                                                                  *)

USE DEF handshake, promise, cv, threads

LEMMA TypeInit == Init => TypeOK
  BY AioAssumption DEF Init, TypeOK, At, Ready, Aios, Tasks, Places

LEMMA AiosAre == Sends \subseteq Aios /\ Recvs \subseteq Aios /\ Sends \cap Recvs = {}
  BY AioAssumption DEF Aios

LEMMA TypeTake == ASSUME TypeOK, NEW v \in Recvs, Take(v)
                  PROVE  data' \subseteq Recvs /\ value' \in [Recvs -> {"none", "message", "error"}]
  BY DEF TypeOK, Take

LEMMA TypeTask ==
  ASSUME TypeOK, NEW a \in Aios, task[a] = "posting" => a \in Recvs,
         Fire(a) \/ Callback(a)
  PROVE  TypeOK'
<1>1. CASE Fire(a)
  BY <1>1 DEF TypeOK, Fire, Tasks
<1>2. CASE Complete(a)
  <2>1. <<a>> \o free_list \in Seq(Sends)
    BY <1>2, Pushed DEF TypeOK, Complete
  <2>2. QED
    BY <1>2, <2>1 DEF TypeOK, Complete, Tasks
<1>3. CASE Publish(a)
  BY <1>3 DEF TypeOK, Publish, Finish, Posting, Tasks
<1>4. CASE Store(a)
  BY <1>4, AioAssumption DEF TypeOK, Store, Finish, Tasks
<1>5. CASE ReadNode(a)
  BY <1>5 DEF TypeOK, ReadNode, Posting, Tasks
<1>6. CASE Post(a)
  BY <1>6 DEF TypeOK, Post, Tasks
<1>7. CASE Return(a)
  BY <1>7 DEF TypeOK, Return, Tasks
<1>8. QED
  BY <1>1, <1>2, <1>3, <1>4, <1>5, <1>6, <1>7 DEF Callback
LEMMA TypeRead ==
  ASSUME TypeOK, NEW v \in Recvs,
         \/ Get(v) \/ Promise(v) \/ Keep(v) \/ KeepPlain(v) \/ CheckPlain(v)
         \/ Call(v) \/ CallReturns(v)
  PROVE  TypeOK'
<1> USE AiosAre DEF At, Ready, Places
<1>1. CASE Get(v)
  BY <1>1, TypeTake DEF TypeOK, Get
<1>2. CASE Promise(v)
  BY <1>2 DEF TypeOK, Promise
<1>3. CASE Keep(v)
  <2>1. queue' \in Seq(Recvs)
    BY <1>3, Appended DEF TypeOK, Keep, PostIf
  <2>2. QED
    BY <1>3, <2>1 DEF TypeOK, Keep
<1>4. CASE KeepPlain(v)
  BY <1>4 DEF TypeOK, KeepPlain
<1>5. CASE CheckPlain(v)
  <2>1. queue' \in Seq(Recvs)
    BY <1>5, Appended DEF TypeOK, CheckPlain, PostIf
  <2>2. QED
    BY <1>5, <2>1 DEF TypeOK, CheckPlain
<1>6. CASE Call(v)
  BY <1>6 DEF TypeOK, Call
<1>7. CASE CallReturns(v)
  BY <1>7, TypeTake DEF TypeOK, CallReturns
<1>8. QED
  BY <1>1, <1>2, <1>3, <1>4, <1>5, <1>6, <1>7

LEMMA TypeInvoke == ASSUME TypeOK, Invoke PROVE TypeOK'
<1> DEFINE v == Head(queue)
<1>1. v \in Recvs /\ queue' \in Seq(Recvs)
  BY Popped DEF TypeOK, Invoke
<1>2. CASE node[v] = "live"
  <2>1. Take(v)
    BY <1>2 DEF Invoke
  <2>2. data' \subseteq Recvs /\ value' \in [Recvs -> {"none", "message", "error"}]
    BY <1>1, <2>1, TypeTake
  <2>3. called' \in [Recvs -> Nat] /\ node' \in [Recvs -> {"none", "live", "released", "collected"}]
    <3>1. called' = [called EXCEPT ![v] = @ + 1] /\ node' = [node EXCEPT ![v] = "released"]
      BY <1>2 DEF Invoke
    <3> HIDE DEF v
    <3>2. QED
      BY <1>1, <3>1 DEF TypeOK
  <2>4. QED
    BY <1>1, <2>2, <2>3 DEF TypeOK, Invoke
<1>3. CASE node[v] # "live"
  BY <1>1, <1>3 DEF TypeOK, Invoke
<1>4. QED
  BY <1>2, <1>3

LEMMA TypeWait ==
  ASSUME TypeOK, NEW v \in Recvs,
         Collect(v) \/ SharedReturns(v) \/ SingleReturns(v) \/ SingleDone(v)
  PROVE  TypeOK'
<1> USE AiosAre DEF At, Ready, Places
<1>1. CASE Collect(v)
  <2>1. CASE wait_cond = "idle" /\ shared' = v
    BY <1>1, <2>1 DEF TypeOK, Collect
  <2>2. CASE wait_cond = "set" /\ shared = v
    BY <1>1, <2>2 DEF TypeOK, Collect
  <2>3. CASE wait_cond = "set" /\ shared # v
    <3>1. /\ single' = [single EXCEPT ![v] = "waiting"] /\ r' = At("single", v)
          /\ UNCHANGED <<task, result, data, value, owner, handshake, promise, cv, waiter>>
          /\ UNCHANGED <<shared, wait_cond>>
      BY <1>1, <2>3 DEF Collect
    <3>2. QED
      BY <3>1 DEF TypeOK
  <2>4. QED
    BY <1>1, <2>1, <2>2, <2>3 DEF Collect
<1>2. CASE SharedReturns(v)
  BY <1>2, TypeTake DEF TypeOK, SharedReturns
<1>3. CASE SingleReturns(v)
  BY <1>3, TypeTake DEF TypeOK, SingleReturns
<1>4. CASE SingleDone(v)
  BY <1>4 DEF TypeOK, SingleDone
<1>5. QED
  BY <1>1, <1>2, <1>3, <1>4

LEMMA TypeWaiter ==
  ASSUME TypeOK, WaitStart \/ WaitWakes \/ WaitDone \/ WaitEnds \/ Interrupt
  PROVE  TypeOK'
  BY DEF TypeOK, WaitStart, WaitWakes, WaitDone, WaitEnds, Interrupt, At, Ready, Places

LEMMA TypeRace ==
  ASSUME TypeOK, Race \/ Scan \/ RaceWakes
  PROVE  TypeOK'
<1> USE DEF At, Ready, Places
<1>1. CASE Race
  BY <1>1 DEF TypeOK, Race
<1>2. CASE Scan
  BY <1>2 DEF TypeOK, Scan
<1>3. CASE RaceWakes
  BY <1>3 DEF TypeOK, RaceWakes
<1>4. QED
  BY <1>1, <1>2, <1>3

LEMMA TypeEnd ==
  ASSUME TypeOK, NEW a \in Aios,
         \/ Stop(a) \/ StopReturns(a) \/ Drop(a) \/ (a \in Recvs /\ CollectNode(a))
         \/ FinalizeSend(a) \/ (a \in Sends /\ HandOver(a)) \/ FinalizeRecv(a)
         \/ (a \in Recvs /\ Join(a)) \/ Dispose(a)
  PROVE  TypeOK'
<1> USE DEF At, Ready, Places
<1>1. CASE Stop(a) \/ StopReturns(a)
  BY <1>1 DEF TypeOK, Stop, StopReturns
<1>2. CASE Drop(a)
  BY <1>2 DEF TypeOK, Drop
<1>3. CASE a \in Recvs /\ CollectNode(a)
  BY <1>3 DEF TypeOK, CollectNode
<1>4. CASE FinalizeSend(a)
  BY <1>4 DEF TypeOK, FinalizeSend
<1>5. CASE a \in Sends /\ HandOver(a)
  <2>1. CASE a \in mode
    BY <1>5, <2>1 DEF TypeOK, HandOver
  <2>2. CASE a \notin mode
    <3>1. /\ mode' = mode \cup {a} /\ owner' = [owner EXCEPT ![a] = "finalized"]
          /\ r' = At("ready", NoAio)
          /\ UNCHANGED <<task, result, data, value, free_list, promise, cv, threads>>
      BY <1>5, <2>2 DEF HandOver
    <3>2. QED
      BY <1>5, <3>1 DEF TypeOK
  <2>3. QED
    BY <2>1, <2>2
<1>6. CASE FinalizeRecv(a)
  BY <1>6 DEF TypeOK, FinalizeRecv
<1>7. CASE a \in Recvs /\ Join(a)
  BY <1>7 DEF TypeOK, Join
<1>8. CASE Dispose(a)
  BY <1>8 DEF TypeOK, Dispose, Free
<1>9. QED
  BY <1>1, <1>2, <1>3, <1>4, <1>5, <1>6, <1>7, <1>8

LEMMA TypeUnload ==
  ASSUME TypeOK, Drain \/ Unload \/ StopThread \/ Unloaded
  PROVE  TypeOK'
<1> USE AiosAre DEF At, Places
<1>1. CASE Drain
  <2>1. Head(free_list) \in Aios /\ free_list' \in Seq(Sends)
    BY <1>1, Popped DEF TypeOK, Drain
  <2>2. owner' \in [Aios -> {"held", "dropped", "finalized", "freed"}]
    BY <1>1, <2>1 DEF TypeOK, Drain, Free
  <2>3. QED
    BY <1>1, <2>1, <2>2 DEF TypeOK, Drain
<1>2. CASE Unload
  BY <1>2 DEF TypeOK, Unload
<1>3. CASE StopThread
  BY <1>3 DEF TypeOK, StopThread
<1>4. CASE Unloaded
  BY <1>4 DEF TypeOK, Unloaded
<1>5. QED
  BY <1>1, <1>2, <1>3, <1>4

----------------------------------------------------------------------------
(* The hand-over of a send.                                                *)

\* A step that moves no send from one side of the hand-over to the other.
LEMMA HandshakeKept ==
  ASSUME Handshake, UNCHANGED <<mode, owner, free_list>>,
         \A s \in Sends : (Came(s)' <=> Came(s)) /\ task'[s] \notin {"stored", "posting"},
         \A s \in Sends : In("free", s)' => Came(s)
  PROVE  Handshake'
<1>1. \A s \in Sends : Listed(s)' <=> Listed(s)
  BY DEF Listed
<1>2. HandedOver'
  BY <1>1, Zenon DEF Handshake, HandedOver, Came
<1>3. QED
  BY <1>2 DEF Handshake

\* What R does in calls that are not about the end of an aio.
RCalls ==
  \/ \E v \in Recvs :
       \/ Get(v) \/ Promise(v) \/ Keep(v) \/ KeepPlain(v) \/ CheckPlain(v) \/ Call(v)
       \/ CallReturns(v) \/ Collect(v) \/ SharedReturns(v) \/ SingleReturns(v)
  \/ \E a \in Aios : Stop(a) \/ StopReturns(a)
  \/ Race \/ Scan \/ RaceWakes \/ Interrupt \/ Invoke

LEMMA CallsKeepAios ==
  ASSUME RCalls
  PROVE  UNCHANGED <<task, owner, mode, free_list>> /\ (r' = r \/ r'.at # "free")
<1> USE DEF At, Ready
<1>1. ASSUME NEW v \in Recvs,
             \/ Get(v) \/ Promise(v) \/ Keep(v) \/ KeepPlain(v) \/ CheckPlain(v) \/ Call(v)
             \/ CallReturns(v)
      PROVE  UNCHANGED <<task, owner, mode, free_list>> /\ (r' = r \/ r'.at # "free")
  BY <1>1 DEF Get, Promise, Keep, KeepPlain, CheckPlain, Call, CallReturns
<1>2. ASSUME NEW v \in Recvs, Collect(v) \/ SharedReturns(v) \/ SingleReturns(v)
      PROVE  UNCHANGED <<task, owner, mode, free_list>> /\ (r' = r \/ r'.at # "free")
  BY <1>2 DEF Collect, SharedReturns, SingleReturns
<1>3. ASSUME NEW a \in Aios, Stop(a) \/ StopReturns(a)
      PROVE  UNCHANGED <<task, owner, mode, free_list>> /\ (r' = r \/ r'.at # "free")
  BY <1>3 DEF Stop, StopReturns
<1>4. CASE Race \/ Scan \/ RaceWakes
  BY <1>4 DEF Race, Scan, RaceWakes
<1>5. CASE Interrupt \/ Invoke
  BY <1>5 DEF Interrupt, Invoke
<1>6. QED
  BY <1>1, <1>2, <1>3, <1>4, <1>5 DEF RCalls

LEMMA HandshakeTask ==
  ASSUME TypeOK, Handshake, Calling, NEW a \in Aios, Fire(a) \/ Callback(a)
  PROVE  Handshake'
<1> USE AiosAre
<1>1. CASE Complete(a)
  <2>1. /\ a \in Sends /\ task[a] = "fired" /\ ~ Came(a) /\ Came(a)'
        /\ UNCHANGED <<owner, r>>
        /\ \A s \in Sends \ {a} : task'[s] = task[s]
        /\ task'[a] = "returning"
    BY <1>1 DEF TypeOK, Complete, Came
  <2>2. ~ Listed(a) /\ (a \in mode <=> owner[a] = "finalized")
    BY <2>1 DEF Handshake, HandedOver, Came
  <2>3. \A s \in Sends : task'[s] \notin {"stored", "posting"}
    BY <2>1 DEF Handshake
  <2>4. \A s \in Sends : In("free", s)' => Came(s)'
    BY <2>1 DEF Handshake, Came, In
  <2>5. CASE a \in mode
    <3>1. free_list' = <<a>> \o free_list /\ mode' = mode
      BY <1>1, <2>5 DEF Complete
    <3>2. (\A s : Listed(s)' <=> s = a \/ Listed(s)) /\ Distinct(free_list')
      <4>1. Distinct(free_list) /\ ~ Member(a, free_list)
        BY <2>2 DEF Handshake, HandedOver, Distinct, Listed, Member
      <4>2. free_list \in Seq(Sends)
        BY DEF TypeOK
      <4>3. /\ \A y : Member(y, <<a>> \o free_list) <=> y = a \/ Member(y, free_list)
            /\ Distinct(<<a>> \o free_list)
        BY <2>1, <4>1, <4>2, Pushed
      <4>4. \A s : (Listed(s) <=> Member(s, free_list)) /\ (Listed(s)' <=> Member(s, free_list'))
        BY DEF Listed, Member
      <4>5. QED
        BY <3>1, <4>3, <4>4
    <3>3. HandedOver'
      <4>1. \A s \in Sends : Listed(s)' <=> owner'[s] = "finalized" /\ task'[s] \in {"returning", "idle"}
        BY <2>1, <2>2, <2>5, <3>2 DEF Handshake, HandedOver
      <4>2. QED
        BY <3>2, <4>1 DEF HandedOver, Distinct
    <3>4. \A s \in Sends : (s \in mode)' <=> owner'[s] = "finalized" \/ Came(s)'
      BY <2>1, <2>5, <3>1 DEF Handshake, Came
    <3>5. QED
      BY <2>3, <2>4, <3>3, <3>4 DEF Handshake
  <2>6. CASE a \notin mode
    <3>1. mode' = mode \cup {a} /\ free_list' = free_list
      BY <1>1, <2>6 DEF Complete
    <3>2. HandedOver'
      <4>1. \A s \in Sends : Listed(s)' <=> owner'[s] = "finalized" /\ task'[s] \in {"returning", "idle"}
        BY <2>1, <2>2, <2>6, <3>1 DEF Handshake, HandedOver, Listed
      <4>2. QED
        BY <3>1, <4>1 DEF Handshake, HandedOver
    <3>3. \A s \in Sends : (s \in mode)' <=> owner'[s] = "finalized" \/ Came(s)'
      BY <2>1, <3>1 DEF Handshake, Came
    <3>4. QED
      BY <2>3, <2>4, <3>2, <3>3 DEF Handshake
  <2>7. QED
    BY <2>5, <2>6
<1>2. ASSUME ~ Complete(a)
      PROVE  /\ UNCHANGED <<mode, owner, free_list, r>>
             /\ \A s \in Sends : (Came(s)' <=> Came(s)) /\ task'[s] \notin {"stored", "posting"}
  <2>1. CASE Fire(a)
    BY <2>1 DEF TypeOK, Handshake, Fire, Came
  <2>2. CASE Publish(a)
    BY <2>2 DEF TypeOK, Handshake, Publish, Came
  <2>3. CASE Store(a)
    BY <2>3, AioAssumption DEF TypeOK, Handshake, Store, Came
  <2>4. CASE ReadNode(a)
    BY <2>4 DEF TypeOK, Handshake, ReadNode, Came
  <2>5. CASE Post(a)
    BY <2>5 DEF TypeOK, Handshake, Post, Came
  <2>6. CASE Return(a)
    BY <2>6 DEF TypeOK, Handshake, Return, Came
  <2>7. QED
    BY <1>2, <2>1, <2>2, <2>3, <2>4, <2>5, <2>6 DEF Callback
<1>3. CASE ~ Complete(a)
  <2>1. \A s \in Sends : In("free", s)' => Came(s)
    BY <1>2, <1>3 DEF Handshake, In
  <2>2. QED
    BY <1>2, <1>3, <2>1, HandshakeKept
<1>4. QED
  BY <1>1, <1>3

LEMMA HandshakeEnd ==
  ASSUME TypeOK, Handshake, Calling, NEW a \in Aios,
         \/ Drop(a) \/ (a \in Recvs /\ CollectNode(a)) \/ FinalizeSend(a) \/ FinalizeRecv(a)
         \/ (a \in Recvs /\ Join(a)) \/ Dispose(a) \/ SingleDone(a)
  PROVE  Handshake'
<1> USE AiosAre DEF At, Ready
<1>1. CASE \/ (a \in Recvs /\ CollectNode(a)) \/ FinalizeSend(a) \/ FinalizeRecv(a)
           \/ (a \in Recvs /\ Join(a)) \/ SingleDone(a)
  <2>1. UNCHANGED <<task, mode, owner, free_list>>
    BY <1>1 DEF CollectNode, FinalizeSend, FinalizeRecv, Join, SingleDone
  <2>2. \A s \in Sends : In("free", s)' => Came(s)
    BY <1>1 DEF CollectNode, FinalizeSend, FinalizeRecv, Join, SingleDone, In, Handshake
  <2>3. QED
    BY <2>1, <2>2, HandshakeKept DEF Handshake, Came
<1>2. CASE Drop(a) \/ Dispose(a)
  <2>1. /\ UNCHANGED <<task, mode, free_list>> /\ r'.at # "free"
        /\ \A s \in Sends : owner'[s] # owner[s] =>
             owner[s] # "finalized" /\ owner'[s] # "finalized"
    <3>1. CASE Drop(a)
      BY <3>1 DEF Drop, Held, TypeOK
    <3>2. CASE Dispose(a)
      BY <3>2 DEF Dispose, Free, In, Calling, TypeOK
    <3>3. QED
      BY <1>2, <3>1, <3>2
  <2>2. \A s \in Sends : owner'[s] = "finalized" <=> owner[s] = "finalized"
    BY <2>1
  <2>3. HandedOver'
    BY <2>1, <2>2 DEF Handshake, HandedOver, Listed
  <2>4. QED
    BY <2>1, <2>2, <2>3 DEF Handshake, Came, In
<1>3. QED
  BY <1>1, <1>2

LEMMA HandshakeFinalized ==
  ASSUME TypeOK, Handshake, Calling, NEW s \in Sends, HandOver(s)
  PROVE  Handshake'
<1> USE AiosAre DEF At, Ready, In
<1>1. owner[s] = "dropped" /\ free_list = <<>> /\ UNCHANGED <<task, free_list>>
  BY DEF HandOver, Calling
<1>2. \A t : ~ Listed(t) /\ ~ Listed(t)'
  BY <1>1 DEF Listed
<1>3. CASE s \in mode
  <2>1. UNCHANGED <<mode, owner>> /\ r' = [at |-> "free", of |-> s]
    BY <1>3 DEF HandOver
  <2>2. Came(s)
    BY <1>1, <1>3 DEF Handshake
  <2>3. QED
    BY <1>1, <2>1, <2>2, HandshakeKept DEF Handshake, Came
<1>4. CASE s \notin mode
  <2>1. /\ mode' = mode \cup {s} /\ owner' = [owner EXCEPT ![s] = "finalized"]
        /\ r' = [at |-> "ready", of |-> NoAio]
    BY <1>4 DEF HandOver
  <2>2. ~ Came(s)
    BY <1>4 DEF Handshake
  <2>3. owner'[s] = "finalized" /\ \A t \in Sends \ {s} : owner'[t] = owner[t]
    BY <2>1 DEF TypeOK
  <2>4. \A t \in Sends : ~ (owner'[t] = "finalized" /\ task'[t] \in {"returning", "idle"})
    BY <1>1, <1>2, <2>2, <2>3 DEF Handshake, HandedOver, Came
  <2>5. HandedOver'
    BY <1>1, <1>2, <2>4 DEF HandedOver
  <2>6. QED
    BY <1>1, <2>1, <2>3, <2>5 DEF Handshake, Came
<1>5. QED
  BY <1>3, <1>4

\* A send that is drained was finalized, and its callback is over.
LEMMA DrainedSend ==
  ASSUME TypeOK, Handshake, Drain
  PROVE  /\ Head(free_list) \in Sends
         /\ owner[Head(free_list)] = "finalized" /\ task[Head(free_list)] = "idle"
         /\ owner' = [owner EXCEPT ![Head(free_list)] = "freed"]
         /\ \A s : Listed(s)' <=> Listed(s) /\ s # Head(free_list)
         /\ Distinct(free_list')
<1>1. free_list \in Seq(Sends) /\ free_list # <<>> /\ Distinct(free_list)
  BY DEF TypeOK, Drain, Handshake, HandedOver, Distinct
<1>2. \A s : (Listed(s) <=> Member(s, free_list)) /\ (Listed(s)' <=> Member(s, free_list'))
  BY DEF Listed, Member
<1>3. /\ Head(free_list) \in Sends /\ Member(Head(free_list), free_list)
      /\ \A y : Member(y, Tail(free_list)) => Member(y, free_list)
      /\ \A y : Member(y, free_list) => y = Head(free_list) \/ Member(y, Tail(free_list))
      /\ Distinct(Tail(free_list)) /\ ~ Member(Head(free_list), Tail(free_list))
  BY <1>1, Popped
<1>4. free_list' = Tail(free_list) /\ task[Head(free_list)] = "idle"
      /\ owner' = [owner EXCEPT ![Head(free_list)] = "freed"]
  BY DEF Drain, Free
<1>5. owner[Head(free_list)] = "finalized"
  BY <1>2, <1>3 DEF Handshake, HandedOver
<1>6. QED
  BY <1>2, <1>3, <1>4, <1>5

LEMMA HandshakeDrained ==
  ASSUME TypeOK, Handshake, Drain
  PROVE  Handshake'
<1> DEFINE h == Head(free_list)
<1>1. /\ h \in Sends /\ owner[h] = "finalized" /\ task[h] = "idle"
      /\ owner' = [owner EXCEPT ![h] = "freed"]
      /\ \A s : Listed(s)' <=> Listed(s) /\ s # h
      /\ Distinct(free_list')
  BY DrainedSend
<1>2. UNCHANGED <<task, mode, r>>
  BY DEF Drain
<1> HIDE DEF h
<1>3. owner'[h] = "freed" /\ \A s \in Sends \ {h} : owner'[s] = owner[s]
  BY <1>1, AiosAre DEF TypeOK
<1>4. HandedOver'
  <2>1. \A s \in Sends : Listed(s)' <=> owner'[s] = "finalized" /\ task'[s] \in {"returning", "idle"}
    BY <1>1, <1>2, <1>3 DEF Handshake, HandedOver
  <2>2. QED
    BY <1>1, <2>1 DEF HandedOver, Distinct
<1>5. \A s \in Sends : (s \in mode)' <=> owner'[s] = "finalized" \/ Came(s)'
  BY <1>1, <1>2, <1>3 DEF Handshake, Came
<1>6. QED
  BY <1>2, <1>4, <1>5 DEF Handshake, Came, In

LEMMA HandshakeRest ==
  ASSUME TypeOK, Handshake,
         \/ RCalls \/ WaitStart \/ WaitWakes \/ WaitDone \/ WaitEnds
         \/ Unload \/ StopThread \/ Unloaded \/ UNCHANGED vars
  PROVE  Handshake'
<1>1. UNCHANGED <<task, mode, owner, free_list>> /\ (r' = r \/ r'.at # "free")
  <2>1. CASE RCalls
    BY <2>1, CallsKeepAios
  <2>2. CASE WaitStart \/ WaitWakes \/ WaitDone \/ WaitEnds
    BY <2>2 DEF WaitStart, WaitWakes, WaitDone, WaitEnds
  <2>3. CASE Unload \/ StopThread \/ Unloaded
    BY <2>3 DEF Unload, StopThread, Unloaded, At
  <2>4. CASE UNCHANGED vars
    BY <2>4 DEF vars
  <2>5. QED
    BY <2>1, <2>2, <2>3, <2>4
<1>2. \A s \in Sends : In("free", s)' => Came(s)
  BY <1>1 DEF In, At, Handshake
<1>3. QED
  BY <1>1, <1>2, HandshakeKept DEF Handshake, Came

----------------------------------------------------------------------------
(* A step is of one of these kinds.                                        *)

TaskStep == \E a \in Aios : Fire(a) \/ Callback(a)

EndStep ==
  \E a \in Aios :
    \/ Drop(a) \/ (a \in Recvs /\ CollectNode(a)) \/ FinalizeSend(a) \/ FinalizeRecv(a)
    \/ (a \in Recvs /\ Join(a)) \/ Dispose(a) \/ (a \in Recvs /\ SingleDone(a))

WaitStep == WaitStart \/ WaitWakes \/ WaitDone \/ WaitEnds

UnloadStep == Unload \/ StopThread \/ Unloaded

LEMMA Steps ==
  ASSUME [Next]_vars
  PROVE  \/ TaskStep \/ EndStep \/ WaitStep \/ UnloadStep \/ RCalls
         \/ (\E s \in Sends : HandOver(s)) \/ Drain \/ UNCHANGED vars
<1> USE AiosAre
<1>1. CASE Threads
  BY <1>1 DEF Threads, WaitStep, EndStep
<1>2. CASE Choose
  BY <1>2 DEF Choose, RCalls, EndStep, UnloadStep
<1>3. CASE Proceed
  BY <1>3 DEF Proceed, RCalls, EndStep, UnloadStep
<1>4. QED
  BY <1>1, <1>2, <1>3 DEF Next, TaskStep, RCalls

LEMMA TypeNext ==
  ASSUME TypeOK, Handshake, [Next]_vars
  PROVE  TypeOK'
<1>1. CASE TaskStep
  <2>1. PICK a \in Aios : Fire(a) \/ Callback(a)
    BY <1>1 DEF TaskStep
  <2>2. task[a] = "posting" => a \in Recvs
    BY DEF Handshake, Aios
  <2>3. QED
    BY <2>1, <2>2, TypeTask
<1>2. CASE EndStep
  BY <1>2, TypeEnd, TypeWait DEF EndStep
<1>3. CASE WaitStep
  BY <1>3, TypeWaiter DEF WaitStep
<1>4. CASE UnloadStep
  BY <1>4, TypeUnload DEF UnloadStep
<1>5. CASE RCalls
  <2>1. ASSUME NEW v \in Recvs,
               \/ Get(v) \/ Promise(v) \/ Keep(v) \/ KeepPlain(v) \/ CheckPlain(v)
               \/ Call(v) \/ CallReturns(v)
        PROVE  TypeOK'
    BY <2>1, TypeRead
  <2>2. ASSUME NEW v \in Recvs, Collect(v) \/ SharedReturns(v) \/ SingleReturns(v)
        PROVE  TypeOK'
    BY <2>2, TypeWait
  <2>3. ASSUME NEW a \in Aios, Stop(a) \/ StopReturns(a) PROVE TypeOK'
    BY <2>3, TypeEnd
  <2>4. CASE Race \/ Scan \/ RaceWakes
    BY <2>4, TypeRace
  <2>5. CASE Interrupt
    BY <2>5, TypeWaiter
  <2>6. CASE Invoke
    BY <2>6, TypeInvoke
  <2>7. QED
    BY <1>5, <2>1, <2>2, <2>3, <2>4, <2>5, <2>6 DEF RCalls
<1>6. CASE \E s \in Sends : HandOver(s)
  BY <1>6, TypeEnd, AiosAre
<1>7. CASE Drain
  BY <1>7, TypeUnload
<1>8. CASE UNCHANGED vars
  BY <1>8 DEF TypeOK, vars
<1>9. QED
  BY <1>1, <1>2, <1>3, <1>4, <1>5, <1>6, <1>7, <1>8, Steps

LEMMA HandshakeNext ==
  ASSUME TypeOK, Handshake, Calling, [Next]_vars
  PROVE  Handshake'
<1>1. CASE TaskStep
  BY <1>1, HandshakeTask DEF TaskStep
<1>2. CASE EndStep
  BY <1>2, HandshakeEnd DEF EndStep
<1>3. CASE WaitStep \/ UnloadStep \/ RCalls \/ UNCHANGED vars
  BY <1>3, HandshakeRest DEF WaitStep, UnloadStep
<1>4. CASE \E s \in Sends : HandOver(s)
  BY <1>4, HandshakeFinalized
<1>5. CASE Drain
  BY <1>5, HandshakeDrained
<1>6. QED
  BY <1>1, <1>2, <1>3, <1>4, <1>5, Steps

----------------------------------------------------------------------------
(* What R's calls hold on to.                                              *)

LEMMA CallingTask ==
  ASSUME TypeOK, Calling, NEW a \in Aios, Fire(a) \/ Callback(a)
  PROVE  Calling'
<1>1. /\ UNCHANGED <<r, owner, node, single>>
      /\ task[a] # "idle" /\ task'[a] # "new" /\ \A b \in Aios \ {a} : task'[b] = task[b]
      /\ \A b \in data' : b \in data \/ b = a
  <2>1. CASE Fire(a)
    BY <2>1 DEF TypeOK, Fire
  <2>2. CASE Complete(a)
    BY <2>2 DEF TypeOK, Complete
  <2>3. CASE Publish(a)
    BY <2>3 DEF TypeOK, Publish, Finish, Posting
  <2>4. CASE Store(a)
    BY <2>4 DEF TypeOK, Store, Finish
  <2>5. CASE ReadNode(a)
    BY <2>5 DEF TypeOK, ReadNode, Posting
  <2>6. CASE Post(a) \/ Return(a)
    BY <2>6 DEF TypeOK, Post, Return
  <2>7. QED
    BY <2>1, <2>2, <2>3, <2>4, <2>5, <2>6 DEF Callback
<1>2. QED
  BY <1>1 DEF Calling

\* A step of R that keeps the aios and moves to a call on an aio that it holds.
LEMMA CallingKept ==
  ASSUME Calling, UNCHANGED <<task, owner>>,
         \/ r' = r \/ r' = Ready \/ r' = At("scan", NoAio) \/ r' = At("race", NoAio)
         \/ \E v \in Recvs, p \in {"keep", "check", "wait", "shared", "single"} :
              owner[v] = "held" /\ r' = At(p, v)
         \/ \E a \in Aios : owner[a] = "held" /\ r' = At("stop", a),
         data' \subseteq data,
         \A w \in Recvs : single'[w] # single[w] => owner[w] = "held",
         \A w \in Recvs : node'[w] = "live" => node[w] = "live" \/ owner[w] = "held"
  PROVE  Calling'
<1>1. CASE r' = r
  BY <1>1, AiosAre DEF Calling
<1>2. CASE r' = Ready \/ r' = At("scan", NoAio) \/ r' = At("race", NoAio)
  BY <1>2, AiosAre DEF Calling, Ready, At
<1>3. CASE \E v \in Recvs, p \in {"keep", "check", "wait", "shared", "single"} :
             owner[v] = "held" /\ r' = At(p, v)
  BY <1>3, AiosAre DEF Calling, At
<1>4. CASE \E a \in Aios : owner[a] = "held" /\ r' = At("stop", a)
  BY <1>4, AiosAre DEF Calling, At
<1>5. QED
  BY <1>1, <1>2, <1>3, <1>4

LEMMA TakeDisposes ==
  ASSUME NEW v \in Recvs, Take(v)
  PROVE  data' \subseteq data
  BY DEF Take

LEMMA CallingCalls ==
  ASSUME TypeOK, Calling, RCalls
  PROVE  Calling'
<1> USE AiosAre
<1>0. UNCHANGED <<task, owner>>
  BY CallsKeepAios
<1>1. ASSUME NEW v \in Recvs, Get(v) \/ Promise(v) \/ Call(v)
      PROVE  Calling'
  <2>1. data' \subseteq data /\ UNCHANGED <<single, node>> /\ owner[v] = "held"
    BY <1>1, TakeDisposes DEF Get, Promise, Call, Held
  <2>2. r' = r \/ \E p \in {"keep", "wait"} : r' = At(p, v)
    BY <1>1 DEF Get, Promise, Call
  <2>3. QED
    BY <1>0, <2>1, <2>2, CallingKept
<1>2. ASSUME NEW v \in Recvs, Keep(v) \/ KeepPlain(v) \/ CheckPlain(v)
      PROVE  Calling'
  <2>1. owner[v] = "held"
    BY <1>2 DEF Keep, KeepPlain, CheckPlain, In, At, Calling
  <2>2. UNCHANGED <<data, single>> /\ \A w \in Recvs : node'[w] = "live" => node[w] = "live" \/ w = v
    BY <1>2 DEF Keep, KeepPlain, CheckPlain, TypeOK
  <2>3. r' = Ready \/ r' = At("check", v)
    BY <1>2 DEF Keep, KeepPlain, CheckPlain
  <2>4. QED
    BY <1>0, <2>1, <2>2, <2>3, CallingKept
<1>3. ASSUME NEW v \in Recvs, CallReturns(v) \/ SharedReturns(v) \/ SingleReturns(v)
      PROVE  Calling'
  <2>1. data' \subseteq data /\ UNCHANGED <<single, node>> /\ r' = Ready
    BY <1>3, TakeDisposes DEF CallReturns, SharedReturns, SingleReturns
  <2>2. QED
    BY <1>0, <2>1, CallingKept
<1>4. ASSUME NEW v \in Recvs, Collect(v)
      PROVE  Calling'
  <2>1. UNCHANGED <<data, node>> /\ owner[v] = "held"
    BY <1>4 DEF Collect, Held
  <2>2. \A w \in Recvs : single'[w] # single[w] => w = v
    BY <1>4 DEF Collect, TypeOK
  <2>3. \E p \in {"shared", "single"} : r' = At(p, v)
    BY <1>4 DEF Collect
  <2>4. QED
    BY <1>0, <2>1, <2>2, <2>3, CallingKept
<1>5. ASSUME NEW a \in Aios, Stop(a) \/ StopReturns(a)
      PROVE  Calling'
  <2>1. UNCHANGED <<data, node, single>>
    BY <1>5 DEF Stop, StopReturns
  <2>2. r' = Ready \/ (owner[a] = "held" /\ r' = At("stop", a))
    BY <1>5 DEF Stop, StopReturns, Held
  <2>3. QED
    BY <1>0, <2>1, <2>2, CallingKept
<1>6. CASE Race \/ Scan \/ RaceWakes \/ Interrupt
  <2>1. UNCHANGED <<data, node, single>>
    BY <1>6 DEF Race, Scan, RaceWakes, Interrupt
  <2>2. r' = Ready \/ r' = At("scan", NoAio) \/ r' = At("race", NoAio)
    BY <1>6 DEF Race, Scan, RaceWakes, Interrupt
  <2>3. QED
    BY <1>0, <2>1, <2>2, CallingKept
<1>7. CASE Invoke
  <2> DEFINE v == Head(queue)
  <2>1. v \in Recvs
    BY <1>7, Popped DEF TypeOK, Invoke
  <2> HIDE DEF v
  <2>2. CASE node[v] = "live"
    <3>1. Take(v) /\ node' = [node EXCEPT ![v] = "released"] /\ UNCHANGED <<r, single>>
      BY <1>7, <2>2 DEF Invoke, v
    <3>2. \A w \in Recvs : node'[w] = "live" => node[w] = "live"
      BY <3>1 DEF TypeOK
    <3>3. QED
      BY <1>0, <2>1, <3>1, <3>2, TakeDisposes, CallingKept
  <2>3. CASE node[v] # "live"
    <3>1. UNCHANGED <<data, node, r, single>>
      BY <1>7, <2>3 DEF Invoke, v
    <3>2. QED
      BY <1>0, <3>1, CallingKept
  <2>4. QED
    BY <2>2, <2>3
<1>8. QED
  BY <1>1, <1>2, <1>3, <1>4, <1>5, <1>6, <1>7 DEF RCalls

LEMMA CallingEnd ==
  ASSUME TypeOK, Calling, EndStep
  PROVE  Calling'
<1> USE AiosAre DEF At, Ready
<1>1. PICK a \in Aios :
        \/ Drop(a) \/ (a \in Recvs /\ CollectNode(a)) \/ FinalizeSend(a) \/ FinalizeRecv(a)
        \/ (a \in Recvs /\ Join(a)) \/ Dispose(a) \/ (a \in Recvs /\ SingleDone(a))
  BY DEF EndStep
<1>2. CASE Drop(a)
  <2>1. /\ owner[a] = "held" /\ task[a] # "new" /\ owner' = [owner EXCEPT ![a] = "dropped"]
        /\ r = Ready /\ UNCHANGED <<task, data, node, single, r>>
        /\ a \in Recvs => node[a] # "live"
    BY <1>2 DEF Drop, Held
  <2>2. owner'[a] = "dropped" /\ \A b \in Aios \ {a} : owner'[b] = owner[b]
    BY <2>1 DEF TypeOK
  <2>3. QED
    BY <2>1, <2>2 DEF Calling
<1>3. CASE a \in Recvs /\ CollectNode(a)
  <2>1. /\ UNCHANGED <<task, data, owner, single, r>>
        /\ \A w \in Recvs : node'[w] = "live" => node[w] = "live"
    BY <1>3 DEF CollectNode, TypeOK
  <2>2. QED
    BY <2>1 DEF Calling
<1>4. CASE FinalizeSend(a) \/ FinalizeRecv(a)
  <2>1. UNCHANGED <<task, data, owner, node, single>> /\ owner[a] = "dropped"
    BY <1>4 DEF FinalizeSend, FinalizeRecv
  <2>2. \/ a \in Sends /\ r' = At("drain", a)
        \/ a \in Recvs /\ r' = At("free", a) /\ single[a] = "none"
        \/ a \in Recvs /\ r' = At("join", a)
    BY <1>4 DEF FinalizeSend, FinalizeRecv
  <2>3. QED
    BY <2>1, <2>2 DEF Calling
<1>5. CASE a \in Recvs /\ Join(a)
  <2>1. /\ UNCHANGED <<task, data, owner, node>> /\ owner[a] = "dropped"
        /\ r' = At("free", a) /\ single' = [single EXCEPT ![a] = "none"]
    BY <1>5 DEF Join, In, Calling
  <2>2. single'[a] = "none" /\ \A w \in Recvs \ {a} : single'[w] = single[w]
    BY <1>5, <2>1 DEF TypeOK
  <2>3. QED
    BY <1>5, <2>1, <2>2 DEF Calling
<1>6. CASE Dispose(a)
  <2>1. /\ owner[a] = "dropped" /\ task[a] = "idle" /\ (a \in Recvs => single[a] = "none")
        /\ owner' = [owner EXCEPT ![a] = "freed"] /\ data' = data \ {a}
        /\ UNCHANGED <<task, node, single>> /\ r' = Ready
    BY <1>6 DEF Dispose, Free, In, Calling
  <2>2. owner'[a] = "freed" /\ \A b \in Aios \ {a} : owner'[b] = owner[b]
    BY <2>1 DEF TypeOK
  <2>3. QED
    BY <2>1, <2>2 DEF Calling
<1>7. CASE a \in Recvs /\ SingleDone(a)
  <2>1. /\ UNCHANGED <<task, data, owner, node, r>> /\ single[a] = "waiting"
        /\ \A w \in Recvs \ {a} : single'[w] = single[w]
    BY <1>7 DEF SingleDone, TypeOK
  <2>2. QED
    BY <1>7, <2>1 DEF Calling
<1>8. QED
  BY <1>1, <1>2, <1>3, <1>4, <1>5, <1>6, <1>7

LEMMA CallingNext ==
  ASSUME TypeOK, Handshake, Calling, [Next]_vars
  PROVE  Calling'
<1> USE AiosAre DEF At, Ready
<1>1. CASE TaskStep
  BY <1>1, CallingTask DEF TaskStep
<1>2. CASE EndStep
  BY <1>2, CallingEnd
<1>3. CASE WaitStep \/ UnloadStep \/ UNCHANGED vars
  <2>1. UNCHANGED <<task, data, owner, node, single>>
    BY <1>3 DEF WaitStep, WaitStart, WaitWakes, WaitDone, WaitEnds, UnloadStep, Unload,
                StopThread, Unloaded, vars
  <2>2. r' = r \/ r'.at = "unload" \/ r' = At("reap", NoAio) \/ r' = At("unloaded", NoAio)
    BY <1>3 DEF WaitStep, WaitStart, WaitWakes, WaitDone, WaitEnds, UnloadStep, Unload,
                StopThread, Unloaded, vars
  <2>3. QED
    BY <2>1, <2>2 DEF Calling
<1>4. CASE RCalls
  BY <1>4, CallingCalls
<1>5. CASE \E s \in Sends : HandOver(s)
  <2>1. PICK s \in Sends : HandOver(s)
    BY <1>5
  <2>2. /\ owner[s] = "dropped" /\ UNCHANGED <<task, data, node, single>>
        /\ \/ r' = At("free", s) /\ UNCHANGED owner
           \/ r' = Ready /\ owner' = [owner EXCEPT ![s] = "finalized"]
    BY <2>1 DEF HandOver, In, Calling
  <2>3. owner'[s] # "held" /\ owner'[s] # "freed" /\ \A b \in Aios \ {s} : owner'[b] = owner[b]
    BY <2>2 DEF TypeOK
  <2>4. owner'[s] = "dropped" \/ r' = Ready
    BY <2>2
  <2>5. QED
    BY <2>2, <2>3, <2>4 DEF Calling
<1>6. CASE Drain
  <2> DEFINE h == Head(free_list)
  <2>1. /\ h \in Sends /\ owner[h] = "finalized" /\ task[h] = "idle"
        /\ owner' = [owner EXCEPT ![h] = "freed"]
    BY <1>6, DrainedSend
  <2>2. UNCHANGED <<task, data, node, single, r>>
    BY <1>6 DEF Drain
  <2> HIDE DEF h
  <2>3. owner'[h] = "freed" /\ \A b \in Aios \ {h} : owner'[b] = owner[b]
    BY <2>1 DEF TypeOK
  <2>4. h \notin data
    BY <2>1 DEF TypeOK
  <2>5. QED
    BY <2>1, <2>2, <2>3, <2>4 DEF Calling
<1>7. QED
  BY <1>1, <1>2, <1>3, <1>4, <1>5, <1>6, Steps

----------------------------------------------------------------------------
(* The result, and the message that comes with it.                         *)

LEMMA ResultsKept ==
  ASSUME Results, UNCHANGED <<result, task>>,
         \A v \in Recvs : Member(v, queue') => Member(v, queue) \/ result[v] # "none",
         \A v \in Recvs : value'[v] = "none" => value[v] = "none",
         \A v \in Recvs : owner'[v] # "freed" => owner[v] # "freed",
         \A v \in Recvs : value'[v] = "none" /\ owner'[v] # "freed" /\ v \in data => v \in data'
  PROVE  Results'
<1>1. \A v \in Recvs : Member(v, queue)' => result'[v] # "none"
  BY DEF Results, Member
<1>2. QED
  BY <1>1 DEF Results

\* R makes a value of a message or of an error, and of one receive only.
LEMMA TakeKeeps ==
  ASSUME TypeOK, NEW v \in Recvs, Take(v)
  PROVE  /\ \A w \in Recvs : value'[w] = "none" => value[w] = "none"
         /\ \A w \in Recvs : value'[w] = "none" /\ w \in data => w \in data'
  BY DEF TypeOK, Take

LEMMA PostIfAppends ==
  ASSUME TypeOK, NEW v \in Recvs, NEW done, PostIf(done, v)
  PROVE  \A w : Member(w, queue') => Member(w, queue) \/ (w = v /\ done)
<1>1. CASE done
  BY <1>1, Appended DEF TypeOK, PostIf
<1>2. CASE ~ done
  BY <1>2 DEF PostIf
<1>3. QED
  BY <1>1, <1>2

LEMMA ResultsTask ==
  ASSUME TypeOK, Handshake, Results, NEW a \in Aios, Fire(a) \/ Callback(a)
  PROVE  Results'
<1> USE AiosAre
<1>1. CASE Fire(a) \/ Complete(a) \/ Return(a) \/ ReadNode(a)
  <2>1. UNCHANGED <<result, value, data, owner, queue>>
    BY <1>1 DEF Fire, Complete, Return, ReadNode
  <2>2. \A v \in Recvs : task'[v] \in {"stored", "posting", "returning", "idle"} =>
          task[v] \in {"stored", "posting", "returning", "idle"}
    BY <1>1 DEF Fire, Complete, Return, ReadNode, Posting, TypeOK
  <2>3. QED
    BY <2>1, <2>2 DEF Results, Member
<1>2. CASE Publish(a) \/ Store(a)
  <2>1. PICK o \in {"ok", "error"} :
          /\ result' = [result EXCEPT ![a] = o]
          /\ data' = IF o = "ok" THEN data \cup {a} ELSE data
    BY <1>2 DEF Publish, Store, Finish
  <2>2. /\ a \in Recvs /\ UNCHANGED <<value, owner, queue>>
        /\ \A v \in Recvs \ {a} : task'[v] = task[v]
    BY <1>2, AioAssumption DEF Publish, Store, TypeOK
  <2>3. result'[a] = o /\ \A v \in Recvs \ {a} : result'[v] = result[v]
    BY <2>1, <2>2 DEF TypeOK
  <2>4. (o = "ok" => a \in data') /\ \A v \in Recvs : v \in data => v \in data'
    BY <2>1
  <2>5. QED
    BY <2>2, <2>3, <2>4 DEF Results, Member
<1>3. CASE Post(a)
  <2>1. /\ task[a] = "posting" /\ task'[a] = "returning" /\ \A v \in Aios \ {a} : task'[v] = task[v]
        /\ queue' = Append(queue, a) /\ UNCHANGED <<result, data, value, owner>>
    BY <1>3 DEF Post, TypeOK
  <2>2. a \in Recvs
    BY <2>1 DEF Handshake, Aios
  <2>3. \A w : Member(w, queue') => w = a \/ Member(w, queue)
    BY <2>1, <2>2, Appended DEF TypeOK
  <2>4. \A v \in Recvs : Member(v, queue') => result[v] # "none"
    BY <2>1, <2>2, <2>3 DEF Results
  <2>5. \A v \in Recvs : Member(v, queue)' => result'[v] # "none"
    BY <2>1, <2>4 DEF Member
  <2>6. QED
    BY <2>1, <2>2, <2>5 DEF Results
<1>4. QED
  BY <1>1, <1>2, <1>3 DEF Callback

LEMMA ResultsCalls ==
  ASSUME TypeOK, Results, RCalls
  PROVE  Results'
<1>1. ASSUME NEW v \in Recvs,
             Get(v) \/ CallReturns(v) \/ SharedReturns(v) \/ SingleReturns(v)
      PROVE  Results'
  <2>1. Take(v) /\ UNCHANGED <<result, task, owner, queue>>
    BY <1>1 DEF Get, CallReturns, SharedReturns, SingleReturns
  <2>2. QED
    BY <2>1, TakeKeeps, ResultsKept
<1>2. ASSUME NEW v \in Recvs, Keep(v) \/ CheckPlain(v)
      PROVE  Results'
  <2>1. PostIf(result[v] # "none", v) /\ UNCHANGED <<result, task, data, value, owner>>
    BY <1>2 DEF Keep, CheckPlain
  <2>2. QED
    BY <2>1, PostIfAppends, ResultsKept
<1>3. CASE Invoke
  <2> DEFINE v == Head(queue)
  <2>1. v \in Recvs /\ \A w : Member(w, queue') => Member(w, queue)
    BY <1>3, Popped DEF TypeOK, Invoke
  <2> HIDE DEF v
  <2>2. Take(v) \/ UNCHANGED <<value, data>>
    BY <1>3 DEF Invoke, v
  <2>3. UNCHANGED <<result, task, owner>>
    BY <1>3 DEF Invoke
  <2>4. QED
    BY <2>1, <2>2, <2>3, TakeKeeps, ResultsKept
<1>4. ASSUME UNCHANGED <<result, task, data, value, owner, queue>>
      PROVE  Results'
  BY <1>4, ResultsKept
<1>5. ASSUME NEW v \in Recvs, Promise(v) \/ KeepPlain(v) \/ Call(v) \/ Collect(v)
      PROVE  Results'
  BY <1>4, <1>5 DEF Promise, KeepPlain, Call, Collect
<1>6. ASSUME NEW a \in Aios, Stop(a) \/ StopReturns(a)
      PROVE  Results'
  BY <1>4, <1>6 DEF Stop, StopReturns
<1>7. CASE Race \/ Scan \/ RaceWakes \/ Interrupt
  BY <1>4, <1>7 DEF Race, Scan, RaceWakes, Interrupt
<1>8. QED
  BY <1>1, <1>2, <1>3, <1>5, <1>6, <1>7 DEF RCalls

LEMMA ResultsNext ==
  ASSUME TypeOK, Handshake, Calling, Results, [Next]_vars
  PROVE  Results'
<1> USE AiosAre
<1>1. CASE TaskStep
  BY <1>1, ResultsTask DEF TaskStep
<1>2. CASE RCalls
  BY <1>2, ResultsCalls
<1>3. CASE EndStep
  <2>1. PICK a \in Aios :
          \/ Drop(a) \/ (a \in Recvs /\ CollectNode(a)) \/ FinalizeSend(a) \/ FinalizeRecv(a)
          \/ (a \in Recvs /\ Join(a)) \/ Dispose(a) \/ (a \in Recvs /\ SingleDone(a))
    BY <1>3 DEF EndStep
  <2>2. UNCHANGED <<result, task, value, queue>>
    BY <2>1 DEF Drop, CollectNode, FinalizeSend, FinalizeRecv, Join, Dispose, SingleDone
  <2>3. CASE Drop(a)
    <3>1. \A v \in Recvs : owner'[v] # "freed" => owner[v] # "freed"
      BY <2>3 DEF Drop, Held, TypeOK
    <3>2. UNCHANGED data
      BY <2>3 DEF Drop
    <3>3. QED
      BY <2>2, <3>1, <3>2, ResultsKept
  <2>4. CASE Dispose(a)
    <3>1. owner' = [owner EXCEPT ![a] = "freed"] /\ data' = data \ {a}
      BY <2>4 DEF Dispose, Free
    <3>2. \A v \in Recvs : /\ owner'[v] # "freed" => owner[v] # "freed"
                           /\ owner'[v] # "freed" /\ v \in data => v \in data'
      BY <3>1 DEF TypeOK
    <3>3. QED
      BY <2>2, <3>2, ResultsKept
  <2>5. CASE ~ Drop(a) /\ ~ Dispose(a)
    <3>1. UNCHANGED <<owner, data>>
      BY <2>1, <2>5 DEF CollectNode, FinalizeSend, FinalizeRecv, Join, SingleDone
    <3>2. QED
      BY <2>2, <3>1, ResultsKept
  <2>6. QED
    BY <2>3, <2>4, <2>5
<1>4. CASE WaitStep \/ UnloadStep \/ UNCHANGED vars
  <2>1. UNCHANGED <<result, task, data, value, owner, queue>>
    BY <1>4 DEF WaitStep, WaitStart, WaitWakes, WaitDone, WaitEnds, UnloadStep, Unload,
                StopThread, Unloaded, vars
  <2>2. QED
    BY <2>1, ResultsKept
<1>5. CASE (\E s \in Sends : HandOver(s)) \/ Drain
  <2>1. UNCHANGED <<result, task, data, value, queue>>
    BY <1>5 DEF HandOver, Drain
  <2>2. \A v \in Recvs : owner'[v] = owner[v]
    <3>1. CASE Drain
      BY <3>1, DrainedSend DEF TypeOK
    <3>2. CASE \E s \in Sends : HandOver(s)
      BY <3>2 DEF HandOver, TypeOK
    <3>3. QED
      BY <1>5, <3>1, <3>2
  <2>3. QED
    BY <2>1, <2>2, ResultsKept
<1>6. QED
  BY <1>1, <1>2, <1>3, <1>4, <1>5, Steps

----------------------------------------------------------------------------
(* The wait thread.                                                        *)

LEMMA WaitKept ==
  ASSUME TypeOK, WaitThread, UNCHANGED <<task, shared, wait_cond, waiter>>,
         \/ r' = r
         \/ r.at \notin {"reap", "unloaded"} /\ r'.at # "shared"
         \/ r'.at = "unloaded",
         \A v \in Recvs : single'[v] = "done" => single[v] = "done"
  PROVE  WaitThread'
<1>1. CASE r' = r
  BY <1>1 DEF WaitThread
<1>2. CASE r.at \notin {"reap", "unloaded"} /\ r'.at # "shared"
  BY <1>2 DEF WaitThread
<1>3. CASE r'.at = "unloaded"
  BY <1>3 DEF WaitThread
<1>4. QED
  BY <1>1, <1>2, <1>3

LEMMA WaitTask ==
  ASSUME TypeOK, Calling, WaitThread, NEW a \in Aios, Fire(a) \/ Callback(a)
  PROVE  WaitThread'
<1>1. UNCHANGED <<r, shared, wait_cond, waiter, single>>
  BY DEF Fire, Callback, Complete, Publish, Store, ReadNode, Post, Return
<1>2. \A b \in Aios : task[b] = "idle" => task'[b] = "idle"
  <2>1. CASE Fire(a) \/ Complete(a) \/ Post(a) \/ Return(a)
    BY <2>1 DEF TypeOK, Fire, Complete, Post, Return
  <2>2. CASE Publish(a) \/ Store(a) \/ ReadNode(a)
    BY <2>2 DEF TypeOK, Publish, Store, ReadNode
  <2>3. QED
    BY <2>1, <2>2 DEF Callback
<1>3. r.at = "shared" => r.of \in Aios
  BY AiosAre DEF Calling
<1>4. shared # NoAio => shared \in Aios
  BY AiosAre DEF TypeOK
<1>5. QED
  BY <1>1, <1>2, <1>3, <1>4, AiosAre DEF WaitThread

LEMMA WaitCalls ==
  ASSUME TypeOK, WaitThread, RCalls
  PROVE  WaitThread'
<1> USE DEF At, Ready
<1>1. UNCHANGED task
  BY CallsKeepAios
<1>2. ASSUME NEW v \in Recvs,
             \/ Get(v) \/ Promise(v) \/ Keep(v) \/ KeepPlain(v) \/ CheckPlain(v) \/ Call(v)
             \/ CallReturns(v) \/ SharedReturns(v) \/ SingleReturns(v)
      PROVE  WaitThread'
  <2>1. UNCHANGED threads
    BY <1>2 DEF Get, Promise, Keep, KeepPlain, CheckPlain, Call, CallReturns, SharedReturns,
                SingleReturns
  <2>2. r' = r \/ (r.at \notin {"reap", "unloaded"} /\ r'.at # "shared")
    BY <1>2 DEF Get, Promise, Keep, KeepPlain, CheckPlain, Call, CallReturns, SharedReturns,
                SingleReturns, Held, In
  <2>3. QED
    BY <1>1, <2>1, <2>2, WaitKept
<1>3. ASSUME NEW v \in Recvs, Collect(v)
      PROVE  WaitThread'
  <2>1. r.at = "ready" /\ UNCHANGED <<task, waiter>> /\ v # NoAio
    BY <1>3, AioAssumption DEF Collect, Held
  <2>2. CASE wait_cond = "idle"
    <3>1. /\ shared' = v /\ wait_cond' = "set" /\ UNCHANGED single
          /\ r'.at = "shared" /\ r'.of = v
      BY <1>3, <2>2 DEF Collect
    <3>2. QED
      BY <2>1, <2>2, <3>1 DEF WaitThread
  <2>3. CASE wait_cond = "set" /\ shared = v
    <3>1. UNCHANGED <<shared, wait_cond, single>> /\ r'.at = "shared" /\ r'.of = v
      BY <1>3, <2>3 DEF Collect
    <3>2. QED
      BY <2>1, <2>3, <3>1 DEF WaitThread
  <2>4. CASE wait_cond = "set" /\ shared # v
    <3>1. /\ UNCHANGED <<shared, wait_cond>> /\ r'.at = "single"
          /\ single' = [single EXCEPT ![v] = "waiting"]
      BY <1>3, <2>4 DEF Collect
    <3>2. \A w \in Recvs : single'[w] = "done" => single[w] = "done"
      BY <3>1 DEF TypeOK
    <3>3. QED
      BY <2>1, <3>1, <3>2, WaitKept
  <2>5. QED
    BY <1>3, <2>2, <2>3, <2>4 DEF Collect
<1>4. ASSUME NEW a \in Aios, Stop(a) \/ StopReturns(a)
      PROVE  WaitThread'
  <2>1. UNCHANGED threads
    BY <1>4 DEF Stop, StopReturns
  <2>2. r.at \notin {"reap", "unloaded"} /\ r'.at # "shared"
    BY <1>4 DEF Stop, StopReturns, Held, In
  <2>3. QED
    BY <1>1, <2>1, <2>2, WaitKept
<1>5. CASE Race \/ Scan \/ RaceWakes \/ Interrupt \/ Invoke
  <2>1. UNCHANGED threads
    BY <1>5 DEF Race, Scan, RaceWakes, Interrupt, Invoke
  <2>2. r' = r \/ (r.at \notin {"reap", "unloaded"} /\ r'.at # "shared")
    BY <1>5 DEF Race, Scan, RaceWakes, Interrupt, Invoke
  <2>3. QED
    BY <1>1, <2>1, <2>2, WaitKept
<1>6. QED
  BY <1>2, <1>3, <1>4, <1>5 DEF RCalls

LEMMA WaitNext ==
  ASSUME TypeOK, Calling, WaitThread, [Next]_vars
  PROVE  WaitThread'
<1> USE AiosAre DEF At, Ready
<1>1. CASE TaskStep
  BY <1>1, WaitTask DEF TaskStep
<1>2. CASE RCalls
  BY <1>2, WaitCalls
<1>3. CASE EndStep
  <2>1. PICK a \in Aios :
          \/ Drop(a) \/ (a \in Recvs /\ CollectNode(a)) \/ FinalizeSend(a) \/ FinalizeRecv(a)
          \/ (a \in Recvs /\ Join(a)) \/ Dispose(a) \/ (a \in Recvs /\ SingleDone(a))
    BY <1>3 DEF EndStep
  <2>2. CASE a \in Recvs /\ SingleDone(a)
    <3>1. /\ UNCHANGED <<task, r, shared, wait_cond, waiter>> /\ task[a] = "idle"
          /\ \A w \in Recvs \ {a} : single'[w] = single[w]
      BY <2>2 DEF SingleDone, TypeOK
    <3>2. QED
      BY <3>1 DEF WaitThread
  <2>3. CASE Drop(a) \/ (a \in Recvs /\ CollectNode(a)) \/ FinalizeSend(a) \/ FinalizeRecv(a)
             \/ Dispose(a)
    <3>1. UNCHANGED <<task, threads>>
      BY <2>3 DEF Drop, CollectNode, FinalizeSend, FinalizeRecv, Dispose
    <3>2. r' = r \/ (r.at \notin {"reap", "unloaded"} /\ r'.at # "shared")
      BY <2>3 DEF Drop, CollectNode, FinalizeSend, FinalizeRecv, Dispose, In
    <3>3. QED
      BY <3>1, <3>2, WaitKept
  <2>4. CASE a \in Recvs /\ Join(a)
    <3>1. /\ UNCHANGED <<task, shared, wait_cond, waiter>>
          /\ r.at \notin {"reap", "unloaded"} /\ r'.at # "shared"
          /\ \A w \in Recvs : single'[w] = "done" => single[w] = "done"
      BY <2>4 DEF Join, In, TypeOK
    <3>2. QED
      BY <3>1, WaitKept
  <2>5. QED
    BY <2>1, <2>2, <2>3, <2>4
<1>4. CASE WaitStart \/ WaitWakes \/ WaitEnds
  BY <1>4 DEF WaitStart, WaitWakes, WaitEnds, WaitThread
<1>5. CASE WaitDone
  BY <1>5 DEF WaitDone, WaitThread
<1>6. CASE UnloadStep
  <2>1. CASE Unload \/ Unloaded
    BY <2>1, WaitKept DEF Unload, Unloaded
  <2>2. CASE StopThread
    BY <2>2 DEF StopThread, WaitThread
  <2>3. QED
    BY <1>6, <2>1, <2>2 DEF UnloadStep
<1>7. CASE (\E s \in Sends : HandOver(s)) \/ Drain \/ UNCHANGED vars
  <2>1. UNCHANGED <<task, threads>>
    BY <1>7 DEF HandOver, Drain, vars
  <2>2. r' = r \/ (r.at \notin {"reap", "unloaded"} /\ r'.at # "shared")
    BY <1>7 DEF HandOver, Drain, In, vars
  <2>3. QED
    BY <2>1, <2>2, WaitKept
<1>8. QED
  BY <1>1, <1>2, <1>3, <1>4, <1>5, <1>6, <1>7, Steps DEF WaitStep

----------------------------------------------------------------------------
(* The sleeper in race_aio.                                                *)

LEMMA RacingNext ==
  ASSUME TypeOK, Racing, [Next]_vars
  PROVE  Racing'
<1> USE AiosAre DEF At, Ready
<1>1. CASE UNCHANGED <<result, condition, snap>> /\ (r' = r \/ r'.at # "race")
  BY <1>1 DEF Racing, RaceNotMissed
<1>2. ASSUME NEW a \in Aios, Publish(a)
      PROVE  Racing'
  <2>1. condition' = condition + 1 /\ UNCHANGED <<snap, r>>
    BY <1>2 DEF Publish
  <2>2. snap <= condition /\ snap \in Nat /\ condition \in Nat
    BY DEF TypeOK, Racing
  <2>3. snap <= condition + 1 /\ condition + 1 # snap
    BY <2>2
  <2>4. QED
    BY <2>1, <2>3 DEF Racing, RaceNotMissed
<1>3. ASSUME NEW a \in Aios, Store(a)
      PROVE  Racing'
  <2>1. UNCHANGED <<condition, snap, r>> /\ \A v \in Signalling : result'[v] = result[v]
    BY <1>3, AioAssumption DEF Store, Finish, TypeOK, Signalling
  <2>2. QED
    BY <2>1 DEF Racing, RaceNotMissed
<1>4. CASE TaskStep
  <2>1. PICK a \in Aios : Fire(a) \/ Callback(a)
    BY <1>4 DEF TaskStep
  <2>2. CASE Fire(a) \/ Complete(a) \/ ReadNode(a) \/ Post(a) \/ Return(a)
    BY <1>1, <2>2 DEF Fire, Complete, ReadNode, Post, Return
  <2>3. QED
    BY <1>2, <1>3, <2>1, <2>2 DEF Callback
<1>5. CASE Race \/ RaceWakes
  <2>1. snap' = condition /\ condition' = condition /\ r'.at = "scan"
    BY <1>5 DEF Race, RaceWakes
  <2>2. condition \in Nat
    BY DEF TypeOK
  <2>3. QED
    BY <2>1, <2>2 DEF Racing, RaceNotMissed
<1>6. CASE Scan
  <2>1. UNCHANGED <<result, condition, snap>>
    BY <1>6 DEF Scan
  <2>2. r'.at = "race" => \A v \in Signalling : result[v] = "none"
    BY <1>6 DEF Scan, Signalling
  <2>3. QED
    BY <2>1, <2>2 DEF Racing, RaceNotMissed
<1>7. ASSUME NEW v \in Recvs,
             \/ Get(v) \/ Promise(v) \/ Keep(v) \/ KeepPlain(v) \/ CheckPlain(v) \/ Call(v)
             \/ CallReturns(v) \/ Collect(v) \/ SharedReturns(v) \/ SingleReturns(v)
      PROVE  Racing'
  BY <1>1, <1>7 DEF Get, Promise, Keep, KeepPlain, CheckPlain, Call, CallReturns, Collect,
                    SharedReturns, SingleReturns
<1>8. ASSUME NEW a \in Aios,
             \/ Stop(a) \/ StopReturns(a) \/ Drop(a) \/ CollectNode(a) \/ FinalizeSend(a)
             \/ FinalizeRecv(a) \/ Join(a) \/ Dispose(a) \/ SingleDone(a) \/ HandOver(a)
      PROVE  Racing'
  BY <1>1, <1>8 DEF Stop, StopReturns, Drop, CollectNode, FinalizeSend, FinalizeRecv, Join,
                    Dispose, SingleDone, HandOver
<1>9. CASE Interrupt \/ Invoke \/ WaitStep \/ UnloadStep \/ Drain \/ UNCHANGED vars
  BY <1>1, <1>9 DEF Interrupt, Invoke, WaitStep, WaitStart, WaitWakes, WaitDone, WaitEnds,
                    UnloadStep, Unload, StopThread, Unloaded, Drain, vars
<1>10. QED
  BY <1>4, <1>5, <1>6, <1>7, <1>8, <1>9, Steps DEF EndStep, RCalls

----------------------------------------------------------------------------
(* The invariant, and what follows from it.                                *)

LEMMA InitHolds == Init => IInv
<1> SUFFICES ASSUME Init PROVE IInv
  OBVIOUS
<1> USE AiosAre DEF At, Ready
<1>1. TypeOK
  BY TypeInit
<1>2. PICK started \in Starts :
        task = [a \in Aios |-> IF a \in started THEN "busy" ELSE "new"]
  BY DEF Init
<1>3. \A a \in Aios : task[a] \in {"busy", "new"} /\ owner[a] = "held"
  BY <1>2 DEF Init
<1>4. \A s : ~ Listed(s)
  BY DEF Init, Listed
<1>5. HandedOver
  BY <1>3, <1>4 DEF HandedOver, Init
<1>6. Handshake
  BY <1>3, <1>5 DEF Handshake, Came, Init, In
<1>7. Calling
  BY <1>3 DEF Calling, Init
<1>8. Results
  BY <1>3 DEF Results, Init, Member
<1>9. WaitThread /\ Racing
  BY <1>3 DEF WaitThread, Racing, RaceNotMissed, Init
<1>10. QED
  BY <1>1, <1>6, <1>7, <1>8, <1>9 DEF IInv

\* The inductive invariant holds of asynchronous I/O, whatever R does: no aio
\* is held, handed over or waited for but as aio.c and thread.c mean it to be.
THEOREM Invariance == Spec => []IInv
<1>1. IInv /\ [Next]_vars => IInv'
  BY TypeNext, HandshakeNext, CallingNext, ResultsNext, WaitNext, RacingNext DEF IInv
<1>2. QED
  BY InitHolds, <1>1, PTL DEF Spec

\* Every variable of aio.c and thread.c keeps its type.
THEOREM TypeCorrect == Spec => []TypeOK
<1>1. IInv => TypeOK
  BY DEF IInv
<1>2. QED
  BY Invariance, <1>1, PTL

\* A send's callback and its finalizer hand it over whichever comes first
\* (saio_complete, nano_list_do): the second disposes of it, once.
THEOREM HandOverHolds == Spec => []HandedOver
<1>1. IInv => HandedOver
  BY DEF IInv, Handshake
<1>2. QED
  BY Invariance, <1>1, PTL

\* race_aio sleeps only while none of the receives it races has a result.
THEOREM RaceHolds == Spec => []RaceNotMissed
<1>1. IInv => RaceNotMissed
  BY DEF IInv, Racing
<1>2. QED
  BY Invariance, <1>1, PTL

LEMMA TakeTakes ==
  ASSUME TypeOK, Results, NEW v \in Recvs, Take(v), owner[v] = "held", result[v] # "none",
         NEW w \in Recvs, value[w] = "none", value'[w] = "message"
  PROVE  w \in data /\ w \notin data'
<1>1. w = v /\ result[v] # "error" /\ data' = data \ {v}
  BY DEF TypeOK, Take
<1>2. result[v] = "ok"
  BY <1>1 DEF TypeOK
<1>3. QED
  BY <1>1, <1>2 DEF Results

\* create_aio_msg makes a value of a message only when there is one, and takes
\* it, from whichever call it is reached: a read, the three ways to wait, the
\* event loop.
THEOREM MessageIsTaken == Spec => MessageTaken
<1>1. ASSUME IInv, [Next]_vars
      PROVE  [\A v \in Recvs : value[v] = "none" /\ value'[v] = "message"
                => v \in data /\ v \notin data']_vars
  <2> SUFFICES ASSUME NEW w \in Recvs, value[w] = "none", value'[w] = "message"
               PROVE  w \in data /\ w \notin data'
    OBVIOUS
  <2>0. TypeOK /\ Calling /\ Results /\ WaitThread
    BY <1>1 DEF IInv
  <2> USE DEF At
  <2>1. ASSUME NEW v \in Recvs,
               Get(v) \/ CallReturns(v) \/ SharedReturns(v) \/ SingleReturns(v)
        PROVE  w \in data /\ w \notin data'
    <3>1. Take(v)
      BY <2>1 DEF Get, CallReturns, SharedReturns, SingleReturns
    <3>2. owner[v] = "held"
      BY <2>0, <2>1 DEF Get, CallReturns, SharedReturns, SingleReturns, Held, In, Calling
    <3>3. CASE Get(v)
      BY <2>0, <3>1, <3>2, <3>3, TakeTakes DEF Get, Resolved, Results
    <3>4. CASE CallReturns(v) \/ SharedReturns(v) \/ SingleReturns(v)
      <4>1. task[v] = "idle"
        BY <2>0, <3>4 DEF CallReturns, SharedReturns, SingleReturns, In, WaitThread
      <4>2. QED
        BY <2>0, <3>1, <3>2, <4>1, TakeTakes DEF Results
    <3>5. QED
      BY <2>1, <3>3, <3>4
  <2>2. CASE Invoke
    <3> DEFINE v == Head(queue)
    <3>1. v \in Recvs /\ Member(v, queue)
      BY <2>0, <2>2, Popped DEF TypeOK, Invoke
    <3>2. CASE node[v] = "live"
      <4>1. Take(v)
        BY <2>2, <3>2 DEF Invoke
      <4>2. owner[v] = "held" /\ result[v] # "none"
        BY <2>0, <3>1, <3>2 DEF Calling, Results
      <4> HIDE DEF v
      <4>3. QED
        BY <2>0, <3>1, <4>1, <4>2, TakeTakes
    <3>3. CASE node[v] # "live"
      BY <2>2, <3>3 DEF Invoke
    <3>4. QED
      BY <3>2, <3>3
  <2>3. ASSUME UNCHANGED value
        PROVE  w \in data /\ w \notin data'
    BY <2>3
  <2>4. CASE TaskStep \/ EndStep
    <3>1. UNCHANGED value
      BY <2>4 DEF TaskStep, EndStep, Fire, Callback, Complete, Publish, Store, ReadNode, Post,
                  Return, Drop, CollectNode, FinalizeSend, FinalizeRecv, Join, Dispose, SingleDone
    <3>2. QED
      BY <2>3, <3>1
  <2>5. CASE WaitStep \/ UnloadStep \/ Drain \/ (\E s \in Sends : HandOver(s)) \/ UNCHANGED vars
    <3>1. UNCHANGED value
      BY <2>5 DEF WaitStep, WaitStart, WaitWakes, WaitDone, WaitEnds, UnloadStep, Unload,
                  StopThread, Unloaded, Drain, HandOver, vars
    <3>2. QED
      BY <2>3, <3>1
  <2>6. CASE RCalls
    <3>1. ASSUME NEW v \in Recvs,
                 Promise(v) \/ Keep(v) \/ KeepPlain(v) \/ CheckPlain(v) \/ Call(v) \/ Collect(v)
          PROVE  UNCHANGED value
      BY <3>1 DEF Promise, Keep, KeepPlain, CheckPlain, Call, Collect
    <3>2. ASSUME NEW a \in Aios, Stop(a) \/ StopReturns(a)
          PROVE  UNCHANGED value
      BY <3>2 DEF Stop, StopReturns
    <3>3. CASE Race \/ Scan \/ RaceWakes \/ Interrupt
      BY <2>3, <3>3 DEF Race, Scan, RaceWakes, Interrupt
    <3>4. QED
      BY <2>1, <2>2, <2>3, <2>6, <3>1, <3>2, <3>3 DEF RCalls
  <2>7. QED
    BY <1>1, <2>2, <2>4, <2>5, <2>6, Steps
<1>2. QED
  BY Invariance, <1>1, PTL DEF Spec, MessageTaken

----------------------------------------------------------------------------
(* With R keeping clear of the windows: what the wait thread and the       *)
(* unloading of the package may rely on.                                   *)

LEMMA ClearedKept ==
  ASSUME Cleared, UNCHANGED <<task, shared, wait_cond, waiter, free_list>>,
         r' = r \/ r'.at \notin {"unload", "reap", "unloaded"},
         \A a \in Aios : owner[a] = "held" => owner'[a] = "held" \/ shared # a,
         shared # NoAio => shared \in Aios
  PROVE  Cleared'
  BY DEF Cleared

LEMMA ClearedTask ==
  ASSUME TypeOK, Cleared, NEW a \in Aios, Fire(a) \/ Callback(a)
  PROVE  Cleared'
<1> USE AiosAre
<1>1. UNCHANGED <<r, owner, shared, wait_cond, waiter>>
  BY DEF Fire, Callback, Complete, Publish, Store, ReadNode, Post, Return
<1>2. task[a] \notin {"new", "idle"} /\ \A b \in Aios \ {a} : task'[b] = task[b]
  BY DEF TypeOK, Fire, Callback, Complete, Publish, Store, ReadNode, Post, Return
<1>3. free_list' = free_list \/ a \in Sends
  BY DEF Fire, Callback, Complete, Publish, Store, ReadNode, Post, Return
<1>4. QED
  BY <1>1, <1>2, <1>3 DEF Cleared

LEMMA ClearedEnd ==
  ASSUME Quiet, TypeOK, Calling, Cleared, EndStep
  PROVE  Cleared'
<1> USE AiosAre DEF At, Ready
<1>1. PICK a \in Aios :
        \/ Drop(a) \/ (a \in Recvs /\ CollectNode(a)) \/ FinalizeSend(a) \/ FinalizeRecv(a)
        \/ (a \in Recvs /\ Join(a)) \/ Dispose(a) \/ (a \in Recvs /\ SingleDone(a))
  BY DEF EndStep
<1>2. UNCHANGED <<task, shared, wait_cond, waiter, free_list>>
  BY <1>1 DEF Drop, CollectNode, FinalizeSend, FinalizeRecv, Join, Dispose, SingleDone
<1>3. r' = r \/ r'.at \notin {"unload", "reap", "unloaded"}
  BY <1>1 DEF Drop, CollectNode, FinalizeSend, FinalizeRecv, Join, Dispose, SingleDone
<1>4. shared # NoAio => shared \in Aios
  BY DEF TypeOK
<1>5. \A b \in Aios : owner[b] = "held" => owner'[b] = "held" \/ shared # b
  <2>1. CASE Drop(a)
    BY <2>1 DEF Drop, TypeOK
  <2>2. CASE Dispose(a)
    BY <2>2 DEF Dispose, Free, In, Calling, TypeOK
  <2>3. CASE ~ Drop(a) /\ ~ Dispose(a)
    BY <1>1, <2>3 DEF CollectNode, FinalizeSend, FinalizeRecv, Join, SingleDone
  <2>4. QED
    BY <2>1, <2>2, <2>3
<1>6. QED
  BY <1>2, <1>3, <1>4, <1>5, ClearedKept

LEMMA ClearedCalls ==
  ASSUME TypeOK, Calling, Cleared, RCalls
  PROVE  Cleared'
<1> USE AiosAre DEF At, Ready
<1>1. UNCHANGED <<task, owner, free_list>>
  BY CallsKeepAios
<1>2. shared # NoAio => shared \in Aios
  BY DEF TypeOK
<1>3. ASSUME UNCHANGED <<shared, wait_cond, waiter>>,
             r' = r \/ r'.at \notin {"unload", "reap", "unloaded"}
      PROVE  Cleared'
  BY <1>1, <1>2, <1>3, ClearedKept
<1>4. ASSUME NEW v \in Recvs,
             \/ Get(v) \/ Promise(v) \/ Keep(v) \/ KeepPlain(v) \/ CheckPlain(v) \/ Call(v)
             \/ CallReturns(v) \/ SharedReturns(v) \/ SingleReturns(v)
      PROVE  Cleared'
  BY <1>3, <1>4 DEF Get, Promise, Keep, KeepPlain, CheckPlain, Call, CallReturns,
                    SharedReturns, SingleReturns
<1>5. ASSUME NEW v \in Recvs, Collect(v)
      PROVE  Cleared'
  <2>1. owner[v] = "held" /\ r'.at \notin {"unload", "reap", "unloaded"} /\ UNCHANGED waiter
    BY <1>5 DEF Collect, Held
  <2>2. shared' = v \/ shared' = shared
    BY <1>5 DEF Collect
  <2>3. QED
    BY <1>1, <2>1, <2>2 DEF Cleared
<1>6. ASSUME NEW a \in Aios, Stop(a) \/ StopReturns(a)
      PROVE  Cleared'
  BY <1>3, <1>6 DEF Stop, StopReturns
<1>7. CASE Race \/ Scan \/ RaceWakes \/ Interrupt \/ Invoke
  BY <1>3, <1>7 DEF Race, Scan, RaceWakes, Interrupt, Invoke
<1>8. QED
  BY <1>4, <1>5, <1>6, <1>7 DEF RCalls

LEMMA ClearedNext ==
  ASSUME Quiet, TypeOK, Handshake, Calling, WaitThread, Cleared, [Next]_vars
  PROVE  Cleared'
<1> USE AiosAre DEF At, Ready
<1>0. shared # NoAio => shared \in Aios
  BY DEF TypeOK
<1>1. CASE TaskStep
  BY <1>1, ClearedTask DEF TaskStep
<1>2. CASE EndStep
  BY <1>2, ClearedEnd
<1>3. CASE RCalls
  BY <1>3, ClearedCalls
<1>4. CASE WaitStart \/ WaitWakes \/ WaitEnds
  BY <1>4 DEF WaitStart, WaitWakes, WaitEnds, Cleared
<1>5. CASE WaitDone
  <2>1. /\ waiter = "woken" /\ waiter' = "asleep" /\ shared' = NoAio /\ wait_cond' = "idle"
        /\ UNCHANGED <<task, owner, free_list, r>>
    BY <1>5 DEF WaitDone
  <2>2. r.at # "unload"
    BY <2>1 DEF Cleared, WaitThread, TypeOK
  <2>3. QED
    BY <2>1, <2>2 DEF Cleared
<1>6. CASE Unload
  BY <1>6 DEF Unload, Cleared
<1>7. CASE StopThread
  BY <1>7 DEF StopThread, Cleared
<1>8. CASE Unloaded
  BY <1>8 DEF Unloaded, Cleared
<1>9. CASE \E s \in Sends : HandOver(s)
  <2>1. PICK s \in Sends : HandOver(s)
    BY <1>9
  <2>2. /\ UNCHANGED <<task, shared, wait_cond, waiter, free_list>>
        /\ r'.at \notin {"unload", "reap", "unloaded"}
        /\ owner' = owner \/ owner' = [owner EXCEPT ![s] = "finalized"]
        /\ owner[s] = "dropped"
    BY <2>1 DEF HandOver, In, Calling
  <2>3. \A b \in Aios : owner[b] = "held" => owner'[b] = "held"
    BY <2>2 DEF TypeOK
  <2>4. QED
    BY <1>0, <2>2, <2>3, ClearedKept
<1>10. CASE Drain
  <2> DEFINE h == Head(free_list)
  <2>1. h \in Sends /\ owner[h] = "finalized" /\ owner' = [owner EXCEPT ![h] = "freed"]
    BY <1>10, DrainedSend
  <2>2. UNCHANGED <<task, shared, wait_cond, waiter, r>> /\ r.at # "unloaded"
    BY <1>10 DEF Drain
  <2> HIDE DEF h
  <2>3. \A b \in Aios : owner[b] = "held" => owner'[b] = "held"
    BY <2>1 DEF TypeOK
  <2>4. QED
    BY <1>0, <2>2, <2>3 DEF Cleared
<1>11. CASE UNCHANGED vars
  BY <1>11 DEF vars, Cleared
<1>12. QED
  BY <1>1, <1>2, <1>3, <1>4, <1>5, <1>6, <1>7, <1>8, <1>9, <1>10, <1>11, Steps
     DEF WaitStep, UnloadStep

LEMMA ClearedHolds == ASSUME Quiet PROVE Spec => []Cleared
<1>1. Init => Cleared
  BY DEF Init, Cleared, Ready, At
<1>2. IInv /\ Cleared /\ [Next]_vars => Cleared'
  BY ClearedNext DEF IInv
<1>3. QED
  BY Invariance, <1>1, <1>2, PTL DEF Spec

\* With R keeping clear of an interrupted wait, nobody uses an aio that a
\* finalizer or the list has freed (nano_list_do, raio_finalizer,
\* thread_aio_finalizer).
THEOREM FreedIsUnused == ASSUME Quiet PROVE Spec => []FreedUnused
<1>1. IInv /\ Cleared => FreedUnused
  <2> SUFFICES ASSUME IInv, Cleared, NEW a \in Aios, owner[a] = "freed"
               PROVE  /\ task[a] = "idle" /\ a \notin data /\ r.of # a
                      /\ ~ Listed(a) /\ shared # a
                      /\ a \in Recvs => single[a] = "none"
    BY DEF FreedUnused
  <2>0. TypeOK /\ Handshake /\ Calling
    BY DEF IInv
  <2>1. task[a] = "idle" /\ a \notin data /\ (a \in Recvs => single[a] = "none")
    BY <2>0 DEF Calling
  <2>2. shared # a
    BY AioAssumption DEF Cleared, Aios
  <2>3. r.of # a
    BY <2>0, <2>2, AioAssumption DEF Calling, Cleared, TypeOK, Places, Aios
  <2>4. ~ Listed(a)
    <3>1. Listed(a) => a \in Sends
      BY <2>0, ElementOfSeq, LenProperties DEF Listed, TypeOK
    <3>2. QED
      BY <2>0, <3>1 DEF Handshake, HandedOver
  <2>5. QED
    BY <2>1, <2>2, <2>3, <2>4
<1>2. QED
  BY Invariance, ClearedHolds, <1>1, PTL

\* Unloaded with no send under way, the package leaves no finalized send behind
\* and no thread (nano_thread_shutdown, nano_list_do(SHUTDOWN)).
THEOREM UnloadIsClean == ASSUME Quiet PROVE Spec => []UnloadedClean
<1>1. IInv /\ Cleared => UnloadedClean
  <2> SUFFICES ASSUME IInv, Cleared, r.at = "unloaded", NEW s \in Sends
               PROVE  owner[s] # "finalized"
    BY DEF UnloadedClean, Cleared
  <2>1. HandedOver /\ Calling
    BY DEF IInv, Handshake
  <2>2. task[s] \in {"new", "idle"} /\ ~ Listed(s)
    BY DEF Cleared, Listed
  <2>3. owner[s] = "finalized" => task[s] = "idle"
    BY <2>1, <2>2, AiosAre DEF Calling
  <2>4. QED
    BY <2>1, <2>2, <2>3 DEF HandedOver
<1>2. QED
  BY Invariance, ClearedHolds, <1>1, PTL

----------------------------------------------------------------------------
(* Promises, with R keeping clear of the windows of a receive without cv.  *)

LEMMA ResolvingKept ==
  ASSUME Resolving, UNCHANGED <<task, result, node, called, queue>>,
         r' = r \/ r'.at \notin {"keep", "check"}
  PROVE  Resolving'
<1>1. Distinct(queue)' /\ \A v : Member(v, queue)' <=> Member(v, queue)
  BY DEF Resolving, Distinct, Member
<1>2. ASSUME NEW v \in Recvs PROVE ResolvingOf(v)'
  <2>1. (In("keep", v)' => In("keep", v)) /\ (In("check", v)' => In("check", v))
    BY DEF In, At
  <2>2. QED
    BY <1>1, <2>1 DEF Resolving, ResolvingOf
<1>3. QED
  BY <1>1, <1>2 DEF Resolving

\* The receives other than the one a step is about.
LEMMA ResolvingOthers ==
  ASSUME Resolving, NEW v, NEW w \in Recvs \ {v},
         task'[w] = task[w], result'[w] = result[w], node'[w] = node[w], called'[w] = called[w],
         Member(w, queue') => Member(w, queue),
         r' = r \/ r' = At("check", v) \/ r' = At("keep", v) \/ r' = Ready
  PROVE  ResolvingOf(w)'
<1>1. Member(w, queue)' => Member(w, queue)
  BY DEF Member
<1>2. (In("keep", w)' => In("keep", w)) /\ (In("check", w)' => In("check", w))
  BY DEF In, At, Ready
<1>3. QED
  BY <1>1, <1>2 DEF Resolving, ResolvingOf

LEMMA ResolvingTask ==
  ASSUME Quiet, TypeOK, Handshake, Resolving, NEW a \in Aios, Fire(a) \/ Callback(a)
  PROVE  Resolving'
<1> USE AiosAre
<1>1. /\ \A w \in Aios \ {a} : task'[w] = task[w]
      /\ \A w \in Recvs \ {a} : result'[w] = result[w]
      /\ UNCHANGED <<node, called, r>>
  <2>1. CASE Fire(a) \/ Complete(a) \/ ReadNode(a) \/ Post(a) \/ Return(a)
    BY <2>1 DEF TypeOK, Fire, Complete, ReadNode, Post, Return
  <2>2. CASE Publish(a) \/ Store(a)
    BY <2>2, AioAssumption DEF TypeOK, Publish, Store, Finish
  <2>3. QED
    BY <2>1, <2>2 DEF Callback
<1>2. CASE Post(a)
  <2>1. a \in Recvs /\ task[a] = "posting" /\ task'[a] = "returning" /\ queue' = Append(queue, a)
        /\ UNCHANGED result
    BY <1>2 DEF Post, Handshake, Aios, TypeOK
  <2>2. ResolvingOf(a) /\ ~ Member(a, queue)
    BY <2>1 DEF Resolving, ResolvingOf
  <2>3. /\ \A w : Member(w, queue') <=> w = a \/ Member(w, queue)
        /\ Distinct(queue')
    BY <2>1, <2>2, Appended DEF TypeOK, Resolving
  <2>4. ResolvingOf(a)'
    <3>1. ~ In("check", a) /\ (In("keep", a)' <=> In("keep", a)) /\ ~ In("check", a)'
      BY <1>1, <2>1, <2>2 DEF ResolvingOf, In
    <3>2. node[a] = "live"
      BY <2>1, <2>2 DEF ResolvingOf
    <3>3. QED
      BY <1>1, <2>1, <2>2, <3>1, <3>2 DEF ResolvingOf
  <2>5. \A w \in Recvs \ {a} : ResolvingOf(w)'
    BY <1>1, <2>1, <2>3, ResolvingOthers
  <2>6. Distinct(queue)'
    BY <2>3 DEF Distinct
  <2>7. QED
    BY <2>4, <2>5, <2>6 DEF Resolving
<1>3. CASE ~ Post(a)
  <2>1. UNCHANGED queue
    BY <1>3 DEF Fire, Callback, Complete, Publish, Store, ReadNode, Return
  <2>2. Distinct(queue)' /\ (Member(a, queue)' <=> Member(a, queue))
    BY <2>1 DEF Distinct, Member, Resolving
  <2>3. \A w \in Recvs \ {a} : ResolvingOf(w)'
    BY <1>1, <2>1, ResolvingOthers
  <2>4. ASSUME a \in Recvs PROVE ResolvingOf(a)'
    <3>1. ResolvingOf(a)
      BY <2>4 DEF Resolving
    <3>2. (In("keep", a)' <=> In("keep", a)) /\ (In("check", a)' <=> In("check", a))
      BY <1>1 DEF In
    <3>3. CASE Fire(a)
      <4>1. task[a] = "busy" /\ task'[a] = "fired" /\ result' = result /\ ~ In("check", a)
        BY <3>3 DEF Fire, Clear, TypeOK
      <4>2. QED
        BY <1>1, <2>2, <3>1, <3>2, <4>1 DEF ResolvingOf
    <3>4. CASE Complete(a)
      BY <2>4, <3>4 DEF Complete
    <3>5. CASE Publish(a)
      <4>1. /\ task[a] = "fired"
            /\ task'[a] = IF node[a] = "none" THEN "returning" ELSE "posting"
        BY <3>5 DEF Publish, Posting, TypeOK
      <4>2. node[a] \in {"none", "live"}
        BY <2>4, <3>1, <4>1 DEF ResolvingOf, TypeOK
      <4>3. QED
        BY <1>1, <2>2, <3>1, <3>2, <4>1, <4>2 DEF ResolvingOf
    <3>6. CASE Store(a)
      <4>1. task[a] = "fired" /\ task'[a] = "stored" /\ a \in Plain
        BY <3>6 DEF Store, TypeOK
      <4>2. node[a] \in {"none", "live"}
        BY <2>4, <3>1, <4>1 DEF ResolvingOf, TypeOK
      <4>3. QED
        BY <1>1, <2>2, <3>1, <3>2, <4>1, <4>2 DEF ResolvingOf
    <3>7. CASE ReadNode(a)
      <4>1. /\ task[a] = "stored" /\ result' = result
            /\ task'[a] = IF node[a] = "none" THEN "returning" ELSE "posting"
        BY <3>7 DEF ReadNode, Posting, TypeOK
      <4>2. node[a] \in {"none", "live"}
        BY <2>4, <3>1, <4>1 DEF ResolvingOf, TypeOK
      <4>3. QED
        BY <1>1, <2>2, <3>1, <3>2, <4>1, <4>2 DEF ResolvingOf
    <3>8. CASE Return(a)
      <4>1. task[a] = "returning" /\ task'[a] = "idle" /\ result' = result
        BY <3>8 DEF Return, TypeOK
      <4>2. QED
        BY <1>1, <2>2, <3>1, <3>2, <4>1 DEF ResolvingOf
    <3>9. QED
      BY <1>3, <3>3, <3>4, <3>5, <3>6, <3>7, <3>8 DEF Callback
  <2>5. QED
    BY <2>2, <2>3, <2>4 DEF Resolving
<1>4. QED
  BY <1>2, <1>3

LEMMA ResolvingPromise ==
  ASSUME Quiet, TypeOK, Results, Resolving, NEW v \in Recvs,
         Promise(v) \/ Keep(v) \/ KeepPlain(v) \/ CheckPlain(v) \/ CollectNode(v)
  PROVE  Resolving'
<1> USE DEF At, Ready
<1>1. /\ UNCHANGED <<task, result, called>> /\ \A w \in Recvs \ {v} : node'[w] = node[w]
      /\ r' = r \/ r' = At("check", v) \/ r' = At("keep", v) \/ r' = Ready
  BY DEF Promise, Keep, KeepPlain, CheckPlain, CollectNode, TypeOK
<1>2. ResolvingOf(v) /\ Distinct(queue)
  BY DEF Resolving
<1>3. CASE Promise(v) \/ KeepPlain(v) \/ CollectNode(v)
  <2>1. UNCHANGED queue
    BY <1>3 DEF Promise, KeepPlain, CollectNode
  <2>2. Distinct(queue)' /\ \A w : Member(w, queue)' <=> Member(w, queue)
    BY <1>2, <2>1 DEF Distinct, Member
  <2>3. \A w \in Recvs \ {v} : ResolvingOf(w)'
    BY <1>1, <2>1, ResolvingOthers
  <2>4. CASE Promise(v)
    <3>1. node[v] = "none" /\ node' = node /\ r' = At("keep", v)
      BY <2>4 DEF Promise
    <3>2. QED
      BY <1>1, <1>2, <2>2, <2>3, <3>1 DEF Resolving, ResolvingOf, In
  <2>5. CASE KeepPlain(v)
    <3>1. In("keep", v) /\ task[v] \in {"busy", "idle"} /\ node'[v] = "live" /\ r' = At("check", v)
      BY <2>5 DEF KeepPlain, TypeOK
    <3>2. QED
      BY <1>1, <1>2, <2>2, <2>3, <3>1 DEF Resolving, ResolvingOf, In
  <2>6. CASE CollectNode(v)
    <3>1. node[v] = "released" /\ node'[v] = "collected" /\ r = Ready /\ r' = r
      BY <2>6 DEF CollectNode, TypeOK
    <3>2. QED
      BY <1>1, <1>2, <2>2, <2>3, <3>1 DEF Resolving, ResolvingOf, In
  <2>7. QED
    BY <1>3, <2>4, <2>5, <2>6
<1>4. CASE Keep(v) \/ CheckPlain(v)
  <2>1. node'[v] = "live" /\ called[v] = 0 /\ ~ Member(v, queue) /\ r' = Ready
    BY <1>2, <1>4 DEF Keep, CheckPlain, ResolvingOf, TypeOK
  <2>2. result[v] # "none" => task[v] \in {"returning", "idle"}
    <3>1. CASE Keep(v)
      BY <1>2, <3>1 DEF Keep, ResolvingOf, TypeOK, Tasks, Aios
    <3>2. CASE CheckPlain(v)
      BY <1>2, <3>2 DEF CheckPlain, ResolvingOf
    <3>3. QED
      BY <1>4, <3>1, <3>2
  <2>3. queue' = IF result[v] # "none" THEN Append(queue, v) ELSE queue
    BY <1>4 DEF Keep, CheckPlain, PostIf
  <2>4. /\ Distinct(queue')
        /\ \A w : Member(w, queue') => Member(w, queue) \/ (w = v /\ result[v] # "none")
    <3>1. CASE result[v] # "none"
      BY <1>2, <2>1, <2>3, <3>1, Appended DEF TypeOK
    <3>2. CASE result[v] = "none"
      BY <1>2, <2>3, <3>2
    <3>3. QED
      BY <3>1, <3>2
  <2>5. Distinct(queue)' /\ (Member(v, queue)' => result[v] # "none")
    BY <2>1, <2>4 DEF Distinct, Member
  <2>6. ResolvingOf(v)'
    BY <1>1, <1>2, <2>1, <2>2, <2>5 DEF ResolvingOf, In
  <2>7. \A w \in Recvs \ {v} : ResolvingOf(w)'
    BY <1>1, <2>4, ResolvingOthers
  <2>8. QED
    BY <2>5, <2>6, <2>7 DEF Resolving
<1>5. QED
  BY <1>3, <1>4

LEMMA ResolvingInvoke ==
  ASSUME TypeOK, Resolving, Invoke
  PROVE  Resolving'
<1>0. /\ Head(queue) \in Recvs /\ Member(Head(queue), queue)
      /\ \A w : Member(w, queue') => Member(w, queue)
      /\ Distinct(queue') /\ ~ Member(Head(queue), queue')
  BY Popped DEF TypeOK, Invoke, Resolving
<1> PICK v \in Recvs : v = Head(queue)
  BY <1>0
<1>1. Member(v, queue) /\ ~ Member(v, queue')
  BY <1>0
<1>2. ResolvingOf(v) /\ node[v] = "live"
  BY <1>1 DEF Resolving, ResolvingOf
<1>3. /\ called' = [called EXCEPT ![v] = @ + 1] /\ node' = [node EXCEPT ![v] = "released"]
      /\ UNCHANGED <<task, result, r>> /\ r = Ready
  BY <1>2 DEF Invoke
<1>4. /\ called'[v] = called[v] + 1 /\ node'[v] = "released"
      /\ \A w \in Recvs \ {v} : called'[w] = called[w] /\ node'[w] = node[w]
  BY <1>1, <1>3 DEF TypeOK
<1>5. called'[v] = 1 /\ task'[v] \in {"returning", "idle"} /\ result'[v] = result[v]
  BY <1>1, <1>2, <1>3, <1>4 DEF ResolvingOf
<1>6. Distinct(queue)' /\ ~ Member(v, queue)'
  BY <1>0, <1>1 DEF Distinct, Member
<1>7. ResolvingOf(v)'
  BY <1>2, <1>3, <1>4, <1>5, <1>6 DEF ResolvingOf, In, At, Ready
<1>8. \A w \in Recvs \ {v} : ResolvingOf(w)'
  BY <1>0, <1>3, <1>4, ResolvingOthers
<1>9. QED
  BY <1>6, <1>7, <1>8 DEF Resolving

LEMMA ResolvingNext ==
  ASSUME Quiet, TypeOK, Handshake, Results, Resolving, [Next]_vars
  PROVE  Resolving'
<1> USE AiosAre DEF At, Ready
<1>1. CASE TaskStep
  BY <1>1, ResolvingTask DEF TaskStep
<1>2. CASE RCalls
  <2>1. ASSUME NEW v \in Recvs, Promise(v) \/ Keep(v) \/ KeepPlain(v) \/ CheckPlain(v)
        PROVE  Resolving'
    BY <2>1, ResolvingPromise
  <2>2. ASSUME NEW v \in Recvs,
               Get(v) \/ Call(v) \/ CallReturns(v) \/ Collect(v) \/ SharedReturns(v) \/ SingleReturns(v)
        PROVE  Resolving'
    <3>1. /\ UNCHANGED <<task, result, node, called, queue>>
          /\ r' = r \/ r'.at \notin {"keep", "check"}
      BY <2>2 DEF Get, Call, CallReturns, Collect, SharedReturns, SingleReturns
    <3>2. QED
      BY <3>1, ResolvingKept
  <2>3. ASSUME NEW a \in Aios, Stop(a) \/ StopReturns(a)
        PROVE  Resolving'
    BY <2>3, ResolvingKept DEF Stop, StopReturns
  <2>4. CASE Race \/ Scan \/ RaceWakes \/ Interrupt
    BY <2>4, ResolvingKept DEF Race, Scan, RaceWakes, Interrupt
  <2>5. QED
    BY <1>2, <2>1, <2>2, <2>3, <2>4, ResolvingInvoke DEF RCalls
<1>3. CASE EndStep
  <2>1. PICK a \in Aios :
          \/ Drop(a) \/ (a \in Recvs /\ CollectNode(a)) \/ FinalizeSend(a) \/ FinalizeRecv(a)
          \/ (a \in Recvs /\ Join(a)) \/ Dispose(a) \/ (a \in Recvs /\ SingleDone(a))
    BY <1>3 DEF EndStep
  <2>2. CASE a \in Recvs /\ CollectNode(a)
    BY <2>2, ResolvingPromise
  <2>3. CASE ~ (a \in Recvs /\ CollectNode(a))
    BY <2>1, <2>3, ResolvingKept
       DEF Drop, FinalizeSend, FinalizeRecv, Join, Dispose, SingleDone
  <2>4. QED
    BY <2>2, <2>3
<1>4. CASE WaitStep \/ UnloadStep \/ UNCHANGED vars
  BY <1>4, ResolvingKept DEF WaitStep, WaitStart, WaitWakes, WaitDone, WaitEnds, UnloadStep,
                             Unload, StopThread, Unloaded, vars
<1>5. CASE (\E s \in Sends : HandOver(s)) \/ Drain
  BY <1>5, ResolvingKept DEF HandOver, Drain
<1>6. QED
  BY <1>1, <1>2, <1>3, <1>4, <1>5, Steps

\* With R keeping clear, a promise is resolved by one call: posted by the callback
\* or by the call that left the node, and by one of them only.
THEOREM PromiseOnce == ASSUME Quiet PROVE Spec => []ResolvedOnce
<1>1. Init => Resolving
  <2> SUFFICES ASSUME Init PROVE Resolving
    OBVIOUS
  <2>1. \A v \in Recvs : task[v] \in {"busy", "new"}
    BY AiosAre DEF Init
  <2>2. ~ \E i \in DOMAIN queue : TRUE
    BY DEF Init
  <2>3. QED
    BY <2>1, <2>2 DEF Init, Resolving, ResolvingOf, Distinct, Member, In, Ready, At
<1>2. IInv /\ Resolving /\ [Next]_vars => Resolving'
  BY ResolvingNext DEF IInv
<1>3. IInv /\ Resolving => ResolvedOnce
  <2> SUFFICES ASSUME IInv, Resolving, NEW v \in Recvs
               PROVE  called[v] + Cardinality({i \in DOMAIN queue : queue[i] = v})
                        + (IF task[v] = "posting" THEN 1 ELSE 0) <= 1
    BY DEF ResolvedOnce
  <2> DEFINE S == {i \in DOMAIN queue : queue[i] = v}
  <2>1. ResolvingOf(v) /\ Distinct(queue) /\ node[v] \in {"none", "live", "released", "collected"}
    BY DEF Resolving, IInv, TypeOK
  <2>2. CASE Member(v, queue)
    <3>1. PICK i \in DOMAIN queue : queue[i] = v
      BY <2>2 DEF Member
    <3>2. S = {i}
      BY <2>1, <3>1 DEF Distinct
    <3>3. Cardinality(S) = 1
      BY <3>2, FS_Singleton
    <3>4. called[v] = 0 /\ task[v] # "posting"
      BY <2>1, <2>2 DEF ResolvingOf
    <3>5. QED
      BY <3>3, <3>4
  <2>3. CASE ~ Member(v, queue)
    <3>1. S = {}
      BY <2>3 DEF Member
    <3>2. Cardinality(S) = 0
      BY <3>1, FS_EmptySet
    <3>3. called[v] \in {0, 1} /\ (task[v] = "posting" => called[v] = 0)
      BY <2>1 DEF ResolvingOf
    <3>4. QED
      BY <3>2, <3>3
  <2>4. QED
    BY <2>2, <2>3
<1>4. QED
  BY Invariance, <1>1, <1>2, <1>3, PTL DEF Spec
=============================================================================
