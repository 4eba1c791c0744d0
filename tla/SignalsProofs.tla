--------------------------- MODULE SignalsProofs ---------------------------
(***************************************************************************)
(* What holds of condition variables, monitors and forwarders for any      *)
(* number of them and of pipes and signals.                                *)
(*                                                                         *)
(* The monitor's record is right whatever R does.  That nobody sleeps      *)
(* through a signal needs R neither to wait on a cv that it forwards nor   *)
(* to reset it (Quiet); that waits are matched by signals also needs       *)
(* forwarding not to come back to where it started (OneWay).  NNG's        *)
(* threads signal at any moment.  Until a signal hides from a forwarder    *)
(* that it should end, a cv holds no more than it was signalled and R took *)
(* (Matched) and its forwarder has seen no more than that (Following);     *)
(* afterwards R is in the join for good (Hung).                            *)
(***************************************************************************)
EXTENDS Signals, SequenceTheorems, TLAPS

USE DEF waits, forward, monitor

\* Forwarding goes one way: no chain of links leads back to its start.
OneWay ==
  \E rank \in [Cvs -> Int] : \A c, d \in Cvs : <<c, d>> \in Links => rank[d] < rank[c]

\* R waits on a cv without a forwarder, and replaces one that is there; who
\* sleeps is waiting, and who forwards does it along a link.
Calls ==
  /\ r.at \in {"wait", "until"} => fwd[r.on] = "none"
  /\ r.at = "cancel" => fwd[r.on] # "none"
  /\ r.at = "link" => fwd[r.on] \in {"none", "ended"}
  /\ r.at \in {"cancel", "link"} => <<r.on, r.to>> \in Links
  /\ "R" \in asleep => r.at \in {"wait", "until"}
  /\ \A c \in Cvs : c \in asleep => fwd[c] = "look"
  /\ \A c \in Cvs : fwd[c] \in {"look", "give"} => <<c, target[c]>> \in Links

SInv == TypeOK /\ Calls /\ SleepsForReason

\* A value is what signals have added and no wait has taken, or less; -1 is
\* the mark that cancels a forwarder.
Matched ==
  /\ \A c \in Cvs : value[c] + returned[c] <= signalled[c]
  /\ \A c \in Cvs : value[c] < 0 => value[c] = -1 /\ Crossing(c) /\ fwd[c] # "none"

\* A forwarder has seen a value that its cv still has, and no wait takes; it
\* ends only when it is told to.
Following ==
  /\ \A c \in Cvs : fwd[c] = "give" => incr[c] > 0
  /\ \A c \in Cvs : fwd[c] # "none" => cond[c] >= 0 /\ cond[c] + returned[c] <= signalled[c]
  /\ \A c \in Cvs : fwd[c] \in {"look", "give"} /\ value[c] >= 0 => cond[c] <= value[c]
  /\ \A c \in Cvs : fwd[c] = "ended" => Cancelling(c)

Straight == Matched /\ Following

\* A forwarder above the one that R joins has nothing to take back.
Upper(rank) ==
  \A c \in Cvs : rank[c] > rank[r.on] =>
    /\ fwd[c] = "give" => incr[c] >= 0
    /\ fwd[c] \in {"look", "give"} => cond[c] <= value[c]

\* R waits for a forwarder that no longer sees that it should end.
Hung(rank) ==
  /\ r.at = "cancel" /\ fwd[r.on] \in {"look", "give"} /\ value[r.on] >= 0
  /\ Upper(rank)

IInv(rank) ==
  /\ SInv
  /\ ~ crossed => Straight
  /\ crossed => WaitsMatched /\ Hung(rank)

----------------------------------------------------------------------------
(* Types.                                                                  *)

LEMMA TypeInit == Init => TypeOK
<1> SUFFICES ASSUME Init PROVE TypeOK
  OBVIOUS
<1>1. sent \in 0..MaxSignals /\ Grow \in Nat /\ size \in Nat /\ r \in Doing
  BY SignalsAssumption DEF Init, Ready, Doing
<1>2. ids \in Seq(Events) /\ Len(ids) <= size
  BY <1>1 DEF Init
<1>3. /\ value \in [Cvs -> Int] /\ flag \in [Cvs -> {-1, 0, 1}]
      /\ own \in [Cvs -> Nat] /\ signalled \in [Cvs -> Nat] /\ returned \in [Cvs -> Nat]
  BY DEF Init
<1>4. crossed \in BOOLEAN
  BY DEF Init
<1>5. /\ cond \in [Cvs -> Int] /\ incr \in [Cvs -> Int]
      /\ fwd \in [Cvs -> {"none", "look", "give", "ended"}] /\ target \in [Cvs -> Cvs]
  BY DEF Init
<1>6. QED
  BY <1>1, <1>2, <1>3, <1>4, <1>5 DEF Init, TypeOK

LEMMA Doings ==
  /\ Ready \in Doing
  /\ \A c \in Cvs, how \in {"wait", "until"} : [at |-> how, on |-> c] \in Doing
  /\ \A c, d \in Cvs, how \in {"cancel", "link"} : [at |-> how, on |-> c, to |-> d] \in Doing
  BY DEF Ready, Doing

\* The cv that R's call is about.
LEMMA CallsOn ==
  ASSUME TypeOK
  PROVE  /\ r.at \in {"ready", "wait", "until", "cancel", "link"}
         /\ r.at # "ready" => r.on \in Cvs
         /\ r.at \in {"cancel", "link"} => r.to \in Cvs
         /\ r.at \in {"cancel", "link"} =>
              [r EXCEPT !.at = "link"] = [at |-> "link", on |-> r.on, to |-> r.to]
<1>1. r \in Doing
  BY DEF TypeOK
<1>2. CASE r \in [at : {"ready"}]
  BY <1>2
<1>3. CASE r \in [at : {"wait", "until"}, on : Cvs]
  BY <1>3
<1>4. CASE r \in [at : {"cancel", "link"}, on : Cvs, to : Cvs]
  BY <1>4
<1>5. QED
  BY <1>1, <1>2, <1>3, <1>4 DEF Doing

LEMMA TypeRaise ==
  ASSUME TypeOK, NEW c \in Cvs, NEW n \in Int, Raise(c, n)
  PROVE  /\ value' \in [Cvs -> Int] /\ signalled' \in [Cvs -> Nat] /\ asleep' \subseteq Cvs \cup {"R"}
         /\ value'[c] = value[c] + n
         /\ signalled'[c] = IF n > 0 THEN signalled[c] + n ELSE signalled[c]
         /\ \A d \in Cvs \ {c} : value'[d] = value[d] /\ signalled'[d] = signalled[d]
         /\ crossed' \in BOOLEAN /\ crossed' = (crossed \/ Crossing(c))
         /\ asleep' \subseteq asleep /\ c \notin asleep'
         /\ Waiting(c) => "R" \notin asleep'
<1>1. value \in [Cvs -> Int] /\ signalled \in [Cvs -> Nat] /\ asleep \subseteq Cvs \cup {"R"}
  BY DEF TypeOK
<1>2. asleep' = asleep \ ({c} \cup (IF Waiting(c) THEN {"R"} ELSE {}))
  BY DEF Raise, Woken
<1>3. value' = [value EXCEPT ![c] = @ + n]
  BY DEF Raise
<1>4. signalled' = [signalled EXCEPT ![c] = IF n > 0 THEN @ + n ELSE @]
  BY DEF Raise
<1>5. asleep' \subseteq Cvs \cup {"R"} /\ asleep' \subseteq asleep /\ c \notin asleep'
  BY <1>1, <1>2
<1>6. Waiting(c) => "R" \notin asleep'
  BY <1>2
<1>7. value' \in [Cvs -> Int] /\ value'[c] = value[c] + n /\ \A d \in Cvs \ {c} : value'[d] = value[d]
  BY <1>1, <1>3
<1>8. (IF n > 0 THEN signalled[c] + n ELSE signalled[c]) \in Nat
  BY <1>1
<1>9. /\ signalled' \in [Cvs -> Nat] /\ \A d \in Cvs \ {c} : signalled'[d] = signalled[d]
      /\ signalled'[c] = IF n > 0 THEN signalled[c] + n ELSE signalled[c]
  BY <1>1, <1>4, <1>8
<1>10. crossed' \in BOOLEAN /\ crossed' = (crossed \/ Crossing(c))
  BY DEF Raise
<1>11. QED
  BY <1>5, <1>6, <1>7, <1>9, <1>10

LEMMA TypeOwn ==
  ASSUME TypeOK, NEW c \in Cvs, Own(c)
  PROVE  own' \in [Cvs -> Nat]
<1>1. own \in [Cvs -> Nat] /\ own[c] + 1 \in Nat
  BY DEF TypeOK
<1>2. QED
  BY <1>1 DEF Own

LEMMA TypeRecord ==
  ASSUME TypeOK, NEW p \in Pipes, NEW ev \in {"add", "remove"}, Record(p, ev)
  PROVE  TypeOK'
<1>1. Monitored \in Cvs /\ Grow \in Nat \ {0}
  BY SignalsAssumption
<1>2. sent' \in 0..MaxSignals
  BY SignalsAssumption DEF TypeOK, Record, Allowed
<1>3. open' \subseteq Pipes /\ UNCHANGED <<flag, returned, r, forward, known>>
  BY DEF TypeOK, Record
<1>4. CASE ids' = Append(ids, <<p, ev>>) /\ size' = Room /\ Raise(Monitored, 1) /\ Own(Monitored)
         /\ UNCHANGED lost
  <2>1. /\ value' \in [Cvs -> Int] /\ signalled' \in [Cvs -> Nat] /\ own' \in [Cvs -> Nat]
        /\ crossed' \in BOOLEAN /\ asleep' \subseteq Cvs \cup {"R"}
    BY <1>1, <1>4, TypeRaise, TypeOwn
  <2>2. ids \in Seq(Events) /\ <<p, ev>> \in Events
    BY DEF TypeOK, Events
  <2>3. ids' \in Seq(Events) /\ Len(ids') = Len(ids) + 1 /\ Len(ids) \in Nat
    BY <1>4, <2>2, AppendProperties, LenProperties
  <2>4. size' \in Nat /\ Len(ids') <= size'
    BY <1>1, <1>4, <2>3 DEF TypeOK, Room
  <2>5. QED
    BY <1>2, <1>3, <1>4, <2>1, <2>3, <2>4 DEF TypeOK
<1>5. CASE lost' = lost \cup {p} /\ UNCHANGED <<ids, size, value, own, signalled, crossed, asleep>>
  BY <1>2, <1>3, <1>5 DEF TypeOK
<1>6. QED
  BY <1>4, <1>5 DEF Record

LEMMA TypeSignal ==
  ASSUME TypeOK, NEW c \in Cvs, Signal(c) \/ PipeSignal
  PROVE  TypeOK'
<1>1. sent' \in 0..MaxSignals
  BY SignalsAssumption DEF TypeOK, Signal, PipeSignal, Allowed
<1>2. \E d \in Cvs : Raise(d, 1) /\ Own(d)
  BY SignalsAssumption DEF Signal, PipeSignal
<1>3. /\ value' \in [Cvs -> Int] /\ signalled' \in [Cvs -> Nat] /\ own' \in [Cvs -> Nat]
      /\ crossed' \in BOOLEAN /\ asleep' \subseteq Cvs \cup {"R"}
  BY <1>2, TypeRaise, TypeOwn
<1>4. flag' \in [Cvs -> {-1, 0, 1}] /\ UNCHANGED <<returned, r, forward, monitor>>
  <2>1. flag \in [Cvs -> {-1, 0, 1}]
    BY DEF TypeOK
  <2>2. QED
    BY <2>1 DEF Signal, PipeSignal
<1>5. QED
  BY <1>1, <1>3, <1>4 DEF TypeOK

LEMMA TypeWait ==
  ASSUME TypeOK, NEW c \in Cvs, NEW how \in {"wait", "until"},
         Begin(c, how) \/ Sleep \/ Decrement \/ TimeOut
  PROVE  TypeOK'
<1>1. CASE Begin(c, how)
  <2>1. r' \in Doing
    BY <1>1, Doings DEF Begin
  <2>2. QED
    BY <1>1, <2>1 DEF TypeOK, Begin
<1>2. CASE Sleep \/ TimeOut
  <2>1. r' \in Doing /\ asleep' \subseteq Cvs \cup {"R"}
    BY <1>2, Doings DEF TypeOK, Sleep, TimeOut
  <2>2. QED
    BY <1>2, <2>1 DEF TypeOK, Sleep, TimeOut
<1>3. CASE Decrement
  <2>1. r.on \in Cvs
    BY <1>3, CallsOn DEF Decrement
  <2>0. /\ value' = [value EXCEPT ![r.on] = @ - 1]
        /\ returned' = [returned EXCEPT ![r.on] = @ + 1]
    BY <1>3 DEF Decrement
  <2>2. value' \in [Cvs -> Int]
    <3>1. value \in [Cvs -> Int]
      BY DEF TypeOK
    <3>2. QED
      BY <2>0, <2>1, <3>1
  <2>3. returned \in [Cvs -> Nat] /\ returned[r.on] + 1 \in Nat
    <3>1. returned \in [Cvs -> Nat]
      BY DEF TypeOK
    <3>2. QED
      BY <2>1, <3>1
  <2>4. returned' \in [Cvs -> Nat]
    BY <2>0, <2>3
  <2>5. r' \in Doing
    BY <1>3, Doings DEF Decrement
  <2>6. QED
    BY <1>3, <2>2, <2>4, <2>5 DEF TypeOK, Decrement
<1>4. QED
  BY <1>1, <1>2, <1>3

LEMMA TypeProgram ==
  ASSUME TypeOK, NEW c \in Cvs, Reset(c) \/ Notify \/ Read
  PROVE  TypeOK'
<1>1. CASE Reset(c)
  BY <1>1 DEF TypeOK, Reset
<1>2. CASE Notify
  BY <1>2 DEF TypeOK, Notify
<1>3. CASE Read
  <2>1. known' \subseteq Pipes /\ ids' = <<>> /\ UNCHANGED <<value, flag, waits, asleep, forward, crossed, open, size, lost>>
    BY <1>3 DEF Read, After
  <2>2. ids' \in Seq(Events) /\ Len(ids') = 0
    BY <2>1
  <2>3. QED
    BY <2>1, <2>2 DEF TypeOK
<1>4. QED
  BY <1>1, <1>2, <1>3

LEMMA TypeForward ==
  ASSUME TypeOK, NEW c \in Cvs, NEW d \in Cvs, Forward(c, d) \/ Joined \/ Link
  PROVE  TypeOK'
<1>1. CASE Forward(c, d)
  <2>1. value' \in [Cvs -> Int] /\ asleep' \subseteq Cvs \cup {"R"}
    <3>1. value' = value \/ value' = [value EXCEPT ![c] = -1]
      BY <1>1 DEF Forward
    <3>2. asleep' \subseteq asleep
      BY <1>1 DEF Forward, Woken
    <3>3. value \in [Cvs -> Int] /\ asleep \subseteq Cvs \cup {"R"}
      BY DEF TypeOK
    <3>4. value' \in [Cvs -> Int]
      BY <3>1, <3>3
    <3>5. QED
      BY <3>2, <3>3, <3>4
  <2>2. r' \in Doing
    BY <1>1, Doings DEF Forward
  <2>3. UNCHANGED <<flag, sent, own, signalled, returned, forward, crossed, monitor>>
    BY <1>1 DEF Forward
  <2>4. QED
    BY <2>1, <2>2, <2>3 DEF TypeOK
<1>2. CASE Joined
  <2>1. r' \in Doing
    BY <1>2, CallsOn, Doings DEF Joined
  <2>2. QED
    BY <1>2, <2>1 DEF TypeOK, Joined
<1>3. CASE Link
  <2>1. r.on \in Cvs /\ r.to \in Cvs
    BY <1>3, CallsOn DEF Link
  <2>2. r' \in Doing
    BY <1>3, Doings DEF Link
  <2>3. /\ value' \in [Cvs -> Int] /\ fwd' \in [Cvs -> {"none", "look", "give", "ended"}]
        /\ target' \in [Cvs -> Cvs] /\ cond' \in [Cvs -> Int]
    <3>1. value' = [value EXCEPT ![r.on] = 0] /\ cond' = [cond EXCEPT ![r.on] = 0]
      BY <1>3 DEF Link
    <3>2. fwd' = [fwd EXCEPT ![r.on] = "look"] /\ target' = [target EXCEPT ![r.on] = r.to]
      BY <1>3 DEF Link
    <3>3. value' \in [Cvs -> Int] /\ cond' \in [Cvs -> Int]
      <4>1. value \in [Cvs -> Int] /\ cond \in [Cvs -> Int]
        BY DEF TypeOK
      <4>2. QED
        BY <2>1, <3>1, <4>1
    <3>4. fwd' \in [Cvs -> {"none", "look", "give", "ended"}] /\ target' \in [Cvs -> Cvs]
      BY <2>1, <3>2 DEF TypeOK
    <3>5. QED
      BY <3>3, <3>4
  <2>4. UNCHANGED <<flag, sent, own, signalled, returned, asleep, incr, crossed, monitor>>
    BY <1>3 DEF Link
  <2>5. QED
    BY <2>2, <2>3, <2>4 DEF TypeOK
<1>4. QED
  BY <1>1, <1>2, <1>3

LEMMA TypeForwarder ==
  ASSUME TypeOK, NEW c \in Cvs, Forwarder(c)
  PROVE  TypeOK'
<1>1. CASE Doze(c)
  BY <1>1 DEF TypeOK, Doze
<1>2. CASE End(c)
  BY <1>2 DEF TypeOK, End
<1>3. CASE Grown(c)
  BY <1>3 DEF TypeOK, Grown
<1>4. CASE Give(c)
  <2>1. target[c] \in Cvs /\ incr[c] \in Int
    BY DEF TypeOK
  <2>2. /\ value' \in [Cvs -> Int] /\ signalled' \in [Cvs -> Nat]
        /\ crossed' \in BOOLEAN /\ asleep' \subseteq Cvs \cup {"R"}
    BY <1>4, <2>1, TypeRaise DEF Give
  <2>3. incr' \in [Cvs -> Int]
    BY <1>4 DEF TypeOK, Give
  <2>4. fwd' \in [Cvs -> {"none", "look", "give", "ended"}]
    BY <1>4 DEF TypeOK, Give
  <2>5. UNCHANGED <<flag, sent, own, returned, r, target, cond, monitor>>
    BY <1>4 DEF Give
  <2>6. QED
    BY <2>2, <2>3, <2>4, <2>5 DEF TypeOK
<1>5. QED
  BY <1>1, <1>2, <1>3, <1>4 DEF Forwarder

LEMMA Steps ==
  ASSUME [Next]_vars
  PROVE  \/ \E c \in Cvs : Signal(c) \/ Reset(c) \/ Forwarder(c)
         \/ PipeSignal \/ \E p \in Pipes, ev \in {"add", "remove"} : Record(p, ev)
         \/ \E c \in Cvs, how \in {"wait", "until"} : Begin(c, how)
         \/ \E c, d \in Cvs : Forward(c, d)
         \/ Notify \/ Read \/ TimeOut \/ Sleep \/ Decrement \/ Joined \/ Link \/ UNCHANGED vars
<1>1. CASE Threads
  BY <1>1 DEF Threads, PipeEvent
<1>2. CASE Choose
  <2>1. \A link \in Links : link[1] \in Cvs /\ link[2] \in Cvs
    BY SignalsAssumption
  <2>2. QED
    BY <1>2, <2>1 DEF Choose
<1>3. CASE Proceed \/ (\E c \in Cvs : Forwarder(c)) \/ UNCHANGED vars
  BY <1>3 DEF Proceed
<1>4. QED
  BY <1>1, <1>2, <1>3 DEF Next

LEMMA TypeNext ==
  ASSUME TypeOK, [Next]_vars
  PROVE  TypeOK'
<1>0. Monitored \in Cvs
  BY SignalsAssumption
<1>1. CASE UNCHANGED vars
  BY <1>1 DEF vars, TypeOK
<1>2. QED
  BY <1>0, <1>1, Steps, TypeSignal, TypeRecord, TypeWait, TypeProgram, TypeForward, TypeForwarder

\* Every variable of sync.c's and thread.c's signalling keeps its type; the
\* monitor's events never exceed the room made for them.
THEOREM TypeCorrect == Spec => []TypeOK
  BY TypeInit, TypeNext, PTL DEF Spec

----------------------------------------------------------------------------
(* The monitor.                                                            *)

\* An event decides about its own pipe.
LEMMA AfterAppend ==
  ASSUME NEW pipes \in SUBSET Pipes, NEW q \in Seq(Events),
         NEW x \in Events
  PROVE  /\ x[2] = "add" => After(pipes, Append(q, x)) = After(pipes, q) \cup {x[1]}
         /\ x[2] # "add" => After(pipes, Append(q, x)) = After(pipes, q) \ {x[1]}
<1> DEFINE e == Append(q, x)
           p == x[1]
           n == Len(q) + 1
           Mine(y, s) == {i \in DOMAIN s : s[i][1] = y}
           Present(y, s) == IF Mine(y, s) = {} THEN y \in pipes
                            ELSE \E i \in Mine(y, s) : (\A j \in Mine(y, s) : j <= i) /\ s[i][2] = "add"
<1>0. p \in Pipes
  BY DEF Events
<1>1. /\ Len(q) \in Nat /\ DOMAIN q = 1 .. Len(q) /\ Len(e) = n
      /\ e \in Seq(Events)
      /\ \A i \in 1 .. Len(q) : e[i] = q[i]
      /\ e[n] = x
  BY LenProperties, AppendProperties
<1>2. DOMAIN e = 1 .. n /\ n \in Nat
  BY <1>1, LenProperties
<1> HIDE DEF e, n, p
<1>3. \A i \in 1 .. n : i \in 1 .. Len(q) \/ i = n
  BY <1>1 DEF n
<1>4. \A i \in 1 .. Len(q) : i \in 1 .. n /\ i # n
  BY <1>1 DEF n
<1>5. ASSUME NEW y \in Pipes \ {p}
      PROVE  Mine(y, e) = Mine(y, q) /\ (Present(y, e) <=> Present(y, q))
  <2>1. Mine(y, e) = Mine(y, q)
    BY <1>1, <1>2, <1>3, <1>4, <1>5 DEF p
  <2>2. \A i \in Mine(y, q) : e[i] = q[i]
    BY <1>1
  <2>3. QED
    BY <2>1, <2>2
<1>6. n \in Mine(p, e) /\ (\A j \in Mine(p, e) : j <= n) /\ (\A j \in 1 .. n : n <= j => j = n)
  BY <1>1, <1>2 DEF n, p
<1>7. Present(p, e) <=> x[2] = "add"
  <2>1. Mine(p, e) # {} /\ e[n][2] = x[2]
    BY <1>1, <1>6
  <2>2. \A i \in Mine(p, e) : (\A j \in Mine(p, e) : j <= i) => i = n
    BY <1>2, <1>6
  <2>3. Present(p, e) <=> e[n][2] = "add"
    BY <1>6, <2>1, <2>2
  <2>4. QED
    BY <2>1, <2>3
<1>8. After(pipes, e) = {y \in Pipes : Present(y, e)} /\ After(pipes, q) = {y \in Pipes : Present(y, q)}
  BY DEF After
<1> HIDE DEF Present, Mine
<1>9. /\ x[2] = "add" => After(pipes, e) = After(pipes, q) \cup {p}
      /\ x[2] # "add" => After(pipes, e) = After(pipes, q) \ {p}
  BY <1>0, <1>5, <1>7, <1>8
<1>10. QED
  BY <1>9 DEF e, p

LEMMA AfterNone ==
  ASSUME NEW pipes \in SUBSET Pipes
  PROVE  After(pipes, <<>>) = pipes
<1>1. \A p \in Pipes : {i \in DOMAIN <<>> : <<>>[i][1] = p} = {}
  OBVIOUS
<1>2. QED
  BY <1>1 DEF After

\* The record of pipe_cb_monitor is complete whatever R does: with what it has
\* read by rnng_monitor_read and what it has still to read, R knows the pipes of
\* the socket, but for the events there was no memory for.
THEOREM MonitorIsTrue == Spec => []KnownPipes
<1>1. Init => KnownPipes
  BY AfterNone DEF Init, KnownPipes
<1>2. ASSUME TypeOK, KnownPipes, [Next]_vars PROVE KnownPipes'
  <2>0. KnownPipes' <=> After(known', ids') \ lost' = open' \ lost'
    BY DEF KnownPipes, After
  <2>1. ASSUME NEW p \in Pipes, NEW ev \in {"add", "remove"}, Record(p, ev)
        PROVE  KnownPipes'
    <3>1. open' = IF ev = "add" THEN open \cup {p} ELSE open \ {p}
      BY <2>1 DEF Record
    <3>2. CASE ids' = Append(ids, <<p, ev>>) /\ UNCHANGED lost
      <4>1. known' = known /\ known \in SUBSET Pipes /\ ids \in Seq(Events)
        BY <1>2, <2>1 DEF TypeOK, Record
      <4>2. After(known, ids') = IF ev = "add" THEN After(known, ids) \cup {p}
                                 ELSE After(known, ids) \ {p}
        <5>1. PICK x \in Events : x = <<p, ev>>
          BY DEF Events
        <5>2. x[1] = p /\ x[2] = ev /\ ids' = Append(ids, x)
          BY <3>2, <5>1
        <5>3. QED
          BY <4>1, <5>2, AfterAppend
      <4>3. After(known', ids') \ lost' = open' \ lost'
        BY <1>2, <3>1, <3>2, <4>1, <4>2 DEF KnownPipes
      <4>4. QED
        BY <2>0, <4>3
    <3>3. CASE lost' = lost \cup {p} /\ UNCHANGED ids
      <4>1. known' = known
        BY <2>1 DEF Record
      <4>2. QED
        BY <1>2, <2>0, <3>1, <3>3, <4>1 DEF KnownPipes
    <3>4. QED
      BY <2>1, <3>2, <3>3 DEF Record
  <2>2. CASE Read
    <3>1. /\ known' = After(known, ids) /\ ids' = <<>> /\ UNCHANGED <<open, lost>>
          /\ After(known, ids) \in SUBSET Pipes
      BY <2>2 DEF Read, After
    <3>2. After(known', ids') = After(known, ids)
      BY <3>1, AfterNone
    <3>3. QED
      BY <1>2, <2>0, <3>1, <3>2 DEF KnownPipes
  <2>3. ASSUME UNCHANGED <<open, ids, known, lost>> PROVE KnownPipes'
    BY <1>2, <2>0, <2>3 DEF KnownPipes
  <2>4. ASSUME NEW c \in Cvs, Signal(c) \/ Reset(c) \/ Forwarder(c) PROVE KnownPipes'
    BY <2>3, <2>4 DEF Signal, Reset, Forwarder, Doze, End, Grown, Give
  <2>5. ASSUME NEW c \in Cvs, NEW d \in Cvs, NEW how \in {"wait", "until"},
               Begin(c, how) \/ Forward(c, d)
        PROVE  KnownPipes'
    BY <2>3, <2>5 DEF Begin, Forward
  <2>6. CASE PipeSignal \/ Notify \/ TimeOut \/ Sleep \/ Decrement \/ Joined \/ Link \/ UNCHANGED vars
    BY <2>3, <2>6 DEF PipeSignal, Notify, TimeOut, Sleep, Decrement, Joined, Link, vars
  <2>7. QED
    BY <1>2, <2>1, <2>2, <2>4, <2>5, <2>6, Steps
<1>3. QED
  BY TypeCorrect, <1>1, <1>2, PTL DEF Spec

----------------------------------------------------------------------------
(* Who sleeps, and where the threads are.                                  *)

\* What a raise does to those who sleep.
LEMMA SafeRaise ==
  ASSUME SInv, NEW c \in Cvs, NEW n \in Int, Raise(c, n), UNCHANGED <<r, target, cond>>,
         \A d \in Cvs : fwd'[d] = fwd[d] \/ (fwd[d] = "give" /\ fwd'[d] = "look")
  PROVE  Calls' /\ SleepsForReason'
<1>0. TypeOK /\ Calls /\ SleepsForReason
  BY DEF SInv
<1>1. /\ \A d \in Cvs \ {c} : value'[d] = value[d]
      /\ asleep' \subseteq asleep /\ c \notin asleep'
      /\ Waiting(c) => "R" \notin asleep'
  BY <1>0, TypeRaise
<1>2. r.at \in {"wait", "until", "cancel", "link"} => r.on \in Cvs
  BY <1>0, CallsOn
<1>3. Calls'
  BY <1>0, <1>1, <1>2 DEF Calls
<1>4. SleepsForReason'
  <2>1. "R" \in asleep' => "R" \in asleep /\ r.on \in Cvs /\ r.on # c
    BY <1>0, <1>1, <1>2 DEF Calls, Waiting
  <2>2. QED
    BY <1>0, <1>1, <2>1 DEF SleepsForReason
<1>5. QED
  BY <1>3, <1>4

LEMMA SafeSignal ==
  ASSUME SInv, NEW c \in Cvs, Signal(c) \/ PipeSignal
  PROVE  Calls' /\ SleepsForReason'
<1>1. UNCHANGED <<r, forward>> /\ \E d \in Cvs : Raise(d, 1)
  BY SignalsAssumption DEF Signal, PipeSignal
<1>2. QED
  BY <1>1, SafeRaise

LEMMA SafeRecord ==
  ASSUME SInv, NEW p \in Pipes, NEW ev \in {"add", "remove"}, Record(p, ev)
  PROVE  Calls' /\ SleepsForReason'
<1>1. UNCHANGED <<r, forward>> /\ Monitored \in Cvs
  BY SignalsAssumption DEF Record
<1>2. CASE Raise(Monitored, 1)
  BY <1>1, <1>2, SafeRaise
<1>3. CASE UNCHANGED <<value, asleep>>
  BY <1>1, <1>3 DEF SInv, Calls, SleepsForReason
<1>4. QED
  BY <1>2, <1>3 DEF Record

LEMMA SafeWait ==
  ASSUME SInv, Quiet, NEW c \in Cvs, NEW how \in {"wait", "until"},
         Begin(c, how) \/ Sleep \/ Decrement \/ TimeOut \/ Reset(c)
  PROVE  Calls' /\ SleepsForReason'
<1>0. TypeOK /\ Calls /\ SleepsForReason
  BY DEF SInv
<1> USE DEF Ready
<1>1. CASE Begin(c, how)
  <2>1. /\ r.at = "ready" /\ r' = [at |-> how, on |-> c] /\ fwd[c] = "none"
        /\ UNCHANGED <<value, asleep, forward>>
    BY <1>1 DEF Begin, Clear
  <2>2. "R" \notin asleep
    BY <1>0, <2>1 DEF Calls
  <2>3. QED
    BY <1>0, <2>1, <2>2 DEF Calls, SleepsForReason
<1>2. CASE Sleep
  <2>1. /\ asleep' = asleep \cup {"R"} /\ r.at \in {"wait", "until"} /\ value[r.on] = 0
        /\ UNCHANGED <<value, r, forward>>
    BY <1>2 DEF Sleep
  <2>2. QED
    BY <1>0, <2>1, SignalsAssumption DEF Calls, SleepsForReason
<1>3. CASE TimeOut
  <2>1. asleep' = asleep \ {"R"} /\ r' = [at |-> "ready"] /\ UNCHANGED <<value, forward>>
    BY <1>3 DEF TimeOut
  <2>2. QED
    BY <1>0, <2>1 DEF Calls, SleepsForReason
<1>4. CASE Decrement
  <2>1. /\ r.at \in {"wait", "until"} /\ "R" \notin asleep /\ r.on \in Cvs
        /\ r' = [at |-> "ready"] /\ UNCHANGED <<asleep, forward>>
        /\ value' = [value EXCEPT ![r.on] = @ - 1]
    BY <1>0, <1>4, CallsOn DEF Decrement
  <2>2. r.on \notin asleep
    BY <1>0, <2>1 DEF Calls
  <2>3. \A e \in Cvs \ {r.on} : value'[e] = value[e]
    BY <1>0, <2>1 DEF TypeOK
  <2>4. QED
    BY <1>0, <2>1, <2>2, <2>3 DEF Calls, SleepsForReason
<1>5. CASE Reset(c)
  <2>1. /\ r.at = "ready" /\ fwd[c] = "none" /\ value' = [value EXCEPT ![c] = 0]
        /\ UNCHANGED <<r, asleep, forward>>
    BY <1>5 DEF Reset, Clear
  <2>2. c \notin asleep /\ "R" \notin asleep
    BY <1>0, <2>1 DEF Calls
  <2>3. QED
    BY <1>0, <2>1, <2>2 DEF TypeOK, Calls, SleepsForReason
<1>6. QED
  BY <1>1, <1>2, <1>3, <1>4, <1>5

LEMMA SafeForward ==
  ASSUME SInv, NEW c \in Cvs, NEW d \in Cvs, Forward(c, d)
  PROVE  Calls' /\ SleepsForReason'
<1>0. TypeOK /\ Calls /\ SleepsForReason
  BY DEF SInv
<1>1. r.at = "ready" /\ "R" \notin asleep /\ <<c, d>> \in Links /\ UNCHANGED forward
  BY <1>0 DEF Forward, Ready, Calls
<1>2. CASE fwd[c] = "none"
  <2>1. r' = [at |-> "link", on |-> c, to |-> d] /\ UNCHANGED <<value, asleep>>
    BY <1>2 DEF Forward
  <2>2. QED
    BY <1>0, <1>1, <1>2, <2>1 DEF Calls, SleepsForReason
<1>3. CASE fwd[c] # "none"
  <2>1. /\ r' = [at |-> "cancel", on |-> c, to |-> d] /\ value' = [value EXCEPT ![c] = -1]
        /\ asleep' = asleep \ {c}
    BY <1>1, <1>3 DEF Forward, Woken, Waiting
  <2>2. \A e \in Cvs \ {c} : value'[e] = value[e]
    BY <1>0, <2>1 DEF TypeOK
  <2>3. QED
    BY <1>0, <1>1, <1>3, <2>1, <2>2 DEF Calls, SleepsForReason
<1>4. QED
  BY <1>2, <1>3

LEMMA SafeLink ==
  ASSUME SInv, Joined \/ Link
  PROVE  Calls' /\ SleepsForReason'
<1>0. TypeOK /\ Calls /\ SleepsForReason
  BY DEF SInv
<1>1. PICK c \in Cvs : c = r.on
  BY <1>0, CallsOn DEF Joined, Link
<1>2. "R" \notin asleep
  BY <1>0 DEF Joined, Link, Calls
<1>3. CASE Joined
  <2>1. /\ r.at = "cancel" /\ fwd[c] = "ended" /\ r' = [at |-> "link", on |-> c, to |-> r.to]
        /\ UNCHANGED <<value, asleep, forward>>
    BY <1>0, <1>1, <1>3, CallsOn DEF Joined
  <2>2. QED
    BY <1>0, <1>1, <1>2, <2>1 DEF Calls, SleepsForReason
<1>4. CASE Link
  <2>1. /\ r' = [at |-> "ready"] /\ <<c, r.to>> \in Links /\ fwd[c] \in {"none", "ended"}
        /\ UNCHANGED asleep
    BY <1>0, <1>1, <1>4 DEF Link, Ready, Calls
  <2>2. /\ fwd'[c] = "look" /\ target'[c] = r.to
        /\ \A e \in Cvs \ {c} : /\ fwd'[e] = fwd[e] /\ target'[e] = target[e]
                                /\ value'[e] = value[e] /\ cond'[e] = cond[e]
    BY <1>0, <1>1, <1>4 DEF Link, TypeOK
  <2>3. c \notin asleep
    BY <1>0, <2>1 DEF Calls
  <2>4. QED
    BY <1>0, <1>2, <2>1, <2>2, <2>3 DEF Calls, SleepsForReason
<1>5. QED
  BY <1>3, <1>4

LEMMA SafeForwarder ==
  ASSUME SInv, NEW c \in Cvs, Forwarder(c)
  PROVE  Calls' /\ SleepsForReason'
<1>0. TypeOK /\ Calls /\ SleepsForReason
  BY DEF SInv
<1>1. r.at # "ready" => r.on \in Cvs
  BY <1>0, CallsOn
<1>2. CASE Doze(c)
  <2>1. /\ fwd[c] = "look" /\ value[c] = cond[c] /\ asleep' = asleep \cup {c} /\ c # "R"
        /\ UNCHANGED <<value, r, forward>>
    BY <1>2, SignalsAssumption DEF Doze, Awake
  <2>2. QED
    BY <1>0, <2>1 DEF Calls, SleepsForReason
<1>3. CASE End(c) \/ Grown(c)
  <2>1. /\ fwd[c] = "look" /\ c \notin asleep /\ fwd'[c] \in {"ended", "give"}
        /\ UNCHANGED <<r, target, asleep>>
        /\ \A e \in Cvs \ {c} : fwd'[e] = fwd[e] /\ value'[e] = value[e] /\ cond'[e] = cond[e]
    BY <1>0, <1>3 DEF End, Grown, Awake, TypeOK
  <2>2. "R" \in asleep => r.on \in Cvs /\ r.on # c
    BY <1>0, <1>1, <2>1 DEF Calls
  <2>3. Calls'
    BY <1>0, <1>1, <2>1 DEF Calls
  <2>4. SleepsForReason'
    BY <1>0, <2>1, <2>2 DEF SleepsForReason
  <2>5. QED
    BY <2>3, <2>4
<1>4. CASE Give(c)
  <2>1. Raise(target[c], incr[c]) /\ target[c] \in Cvs /\ incr[c] \in Int /\ UNCHANGED <<r, target, cond>>
    BY <1>0, <1>4 DEF Give, TypeOK
  <2>2. \A e \in Cvs : fwd'[e] = fwd[e] \/ (fwd[e] = "give" /\ fwd'[e] = "look")
    BY <1>0, <1>4 DEF Give, TypeOK
  <2>3. QED
    BY <2>1, <2>2, SafeRaise
<1>5. QED
  BY <1>2, <1>3, <1>4 DEF Forwarder

\* R and the forwarders sleep for a reason after every step, when R waits only
\* on cvs that it does not forward.
LEMMA SafeNext ==
  ASSUME SInv, Quiet, [Next]_vars
  PROVE  SInv'
<1>0. TypeOK' /\ Monitored \in Cvs
  BY TypeNext, SignalsAssumption DEF SInv
<1>1. ASSUME Notify \/ Read \/ UNCHANGED vars PROVE Calls' /\ SleepsForReason'
  <2>1. UNCHANGED <<value, r, asleep, forward>>
    BY <1>1 DEF Notify, Read, vars
  <2>2. QED
    BY <2>1 DEF SInv, Calls, SleepsForReason
<1>2. Calls' /\ SleepsForReason'
  BY <1>0, <1>1, Steps, SafeSignal, SafeRecord, SafeWait, SafeForward, SafeLink, SafeForwarder
<1>3. QED
  BY <1>0, <1>2 DEF SInv

LEMMA SafeInit == Init => SInv
<1> SUFFICES ASSUME Init PROVE SInv
  OBVIOUS
<1>1. Calls /\ SleepsForReason
  BY DEF Init, Calls, SleepsForReason, Ready
<1>2. QED
  BY <1>1, TypeInit DEF SInv

\* When R neither waits on a cv that it forwards nor resets it, R never sleeps
\* on a cv that has been signalled, nor a forwarder on a value it has not
\* forwarded: the test and nng_cv_wait are under the lock that every signaller
\* takes.
THEOREM NoSignalSleptThrough ==
  ASSUME Quiet
  PROVE  Spec => []SleepsForReason
<1>1. SInv /\ [Next]_vars => SInv'
  BY SafeNext
<1>2. SInv => SleepsForReason
  BY DEF SInv
<1>3. QED
  BY SafeInit, <1>1, <1>2, PTL DEF Spec

----------------------------------------------------------------------------
(* Values and forwarders, while no signal crosses a cancellation.          *)

\* What a raise by n does to a cv whose forwarder is not told to end.
LEMMA StraightRaise ==
  ASSUME SInv, Straight, NEW c \in Cvs, NEW n \in Int, n >= 0, Raise(c, n), ~ Crossing(c),
         UNCHANGED <<returned, r, cond>>,
         \A d \in Cvs : fwd'[d] = fwd[d] \/ (fwd[d] = "give" /\ fwd'[d] = "look"),
         \A d \in Cvs : fwd'[d] = "give" => incr'[d] = incr[d]
  PROVE  Straight'
<1>0. TypeOK /\ Matched /\ Following
  BY DEF SInv, Straight
<1>1. /\ value'[c] = value[c] + n
      /\ signalled'[c] = IF n > 0 THEN signalled[c] + n ELSE signalled[c]
      /\ \A d \in Cvs \ {c} : value'[d] = value[d] /\ signalled'[d] = signalled[d]
  BY <1>0, TypeRaise
<1>2. /\ value \in [Cvs -> Int] /\ cond \in [Cvs -> Int] /\ signalled \in [Cvs -> Nat]
      /\ returned \in [Cvs -> Nat] /\ fwd \in [Cvs -> {"none", "look", "give", "ended"}]
  BY <1>0 DEF TypeOK
<1>3. value[c] >= 0
  BY <1>0, <1>2 DEF Matched
<1>4. signalled'[c] = signalled[c] + n
  BY <1>1, <1>2
<1>5. Matched'
  <2>1. \A d \in Cvs : value'[d] + returned'[d] <= signalled'[d]
    <3>1. value'[c] + returned'[c] <= signalled'[c]
      BY <1>0, <1>1, <1>2, <1>4 DEF Matched
    <3>2. QED
      BY <1>0, <1>1, <3>1 DEF Matched
  <2>2. \A d \in Cvs : value'[d] < 0 => d # c /\ value[d] < 0
    BY <1>1, <1>2, <1>3
  <2>3. \A d \in Cvs : Crossing(d) => Crossing(d)' \/ fwd[d] = "none"
    BY <1>2 DEF Crossing
  <2>4. \A d \in Cvs : fwd[d] # "none" => fwd'[d] # "none"
    OBVIOUS
  <2>5. QED
    BY <1>0, <1>1, <2>1, <2>2, <2>3, <2>4 DEF Matched
<1>6. Following'
  <2>1. /\ \A d \in Cvs : signalled[d] <= signalled'[d] /\ value[d] <= value'[d]
        /\ \A d \in Cvs : value'[d] >= 0 => value[d] >= 0 \/ d # c
    BY <1>1, <1>2, <1>3, <1>4
  <2>2. \A d \in Cvs : signalled'[d] \in Int /\ value'[d] \in Int
    BY <1>1, <1>2, <1>4
  <2>3. ASSUME NEW d \in Cvs, fwd'[d] # "none"
        PROVE  cond'[d] >= 0 /\ cond'[d] + returned'[d] <= signalled'[d]
    BY <1>0, <1>2, <2>1, <2>2, <2>3 DEF Following
  <2>4. ASSUME NEW d \in Cvs, fwd'[d] \in {"look", "give"}, value'[d] >= 0
        PROVE  cond'[d] <= value'[d]
    <3>1. value[d] >= 0
      BY <1>1, <1>3, <2>4
    <3>2. cond[d] <= value[d]
      BY <1>0, <2>4, <3>1 DEF Following
    <3>3. QED
      BY <1>2, <2>1, <2>2, <3>2
  <2>5. /\ \A d \in Cvs : fwd'[d] = "give" => incr'[d] > 0
        /\ \A d \in Cvs : fwd'[d] = "ended" => Cancelling(d)'
    BY <1>0 DEF Following, Cancelling
  <2>6. QED
    BY <2>3, <2>4, <2>5 DEF Following
<1>7. QED
  BY <1>5, <1>6 DEF Straight

LEMMA StraightSignal ==
  ASSUME SInv, Straight, ~ crossed', NEW c \in Cvs, Signal(c) \/ PipeSignal
  PROVE  Straight'
<1>1. PICK d \in Cvs : Raise(d, 1)
  BY SignalsAssumption DEF Signal, PipeSignal
<1>2. UNCHANGED <<returned, r, forward>>
  BY DEF Signal, PipeSignal
<1>3. ~ Crossing(d)
  BY <1>1 DEF Raise
<1>4. QED
  BY <1>1, <1>2, <1>3, StraightRaise

LEMMA StraightRecord ==
  ASSUME SInv, Straight, ~ crossed', NEW p \in Pipes, NEW ev \in {"add", "remove"}, Record(p, ev)
  PROVE  Straight'
<1>1. UNCHANGED <<returned, r, forward>> /\ Monitored \in Cvs
  BY SignalsAssumption DEF Record
<1>2. CASE Raise(Monitored, 1)
  <2>1. ~ Crossing(Monitored)
    BY <1>2 DEF Raise
  <2>2. QED
    BY <1>1, <1>2, <2>1, StraightRaise
<1>3. CASE UNCHANGED <<value, signalled>>
  BY <1>1, <1>3 DEF Straight, Matched, Following, Crossing, Cancelling
<1>4. QED
  BY <1>2, <1>3 DEF Record

LEMMA StraightGive ==
  ASSUME SInv, Straight, ~ crossed', NEW c \in Cvs, Give(c)
  PROVE  Straight'
<1>0. TypeOK /\ Following
  BY DEF SInv, Straight
<1>1. target[c] \in Cvs /\ incr[c] \in Int /\ incr[c] > 0
  BY <1>0 DEF TypeOK, Following, Give
<1>2. Raise(target[c], incr[c]) /\ UNCHANGED <<returned, r, cond>>
  BY DEF Give
<1>3. ~ Crossing(target[c])
  BY <1>2 DEF Raise
<1>4. /\ \A d \in Cvs : fwd'[d] = fwd[d] \/ (fwd[d] = "give" /\ fwd'[d] = "look")
      /\ \A d \in Cvs : fwd'[d] = "give" => incr'[d] = incr[d]
  BY <1>0 DEF TypeOK, Give
<1>5. incr[c] >= 0
  BY <1>1
<1>6. QED
  BY <1>1, <1>2, <1>3, <1>4, <1>5, StraightRaise

\* No value is negative, and no forwarder has ended, while R replaces none.
LEMMA StraightRest ==
  ASSUME SInv, Straight
  PROVE  /\ r.at \notin {"cancel", "link"} => \A c \in Cvs : fwd[c] # "ended"
         /\ r.at # "cancel" \/ fwd[r.on] = "ended" => \A c \in Cvs : ~ (value[c] < 0)
  BY DEF Straight, Matched, Following, Crossing, Cancelling

LEMMA StraightWait ==
  ASSUME SInv, Straight, Quiet, NEW c \in Cvs, NEW how \in {"wait", "until"},
         Begin(c, how) \/ Sleep \/ TimeOut
  PROVE  Straight'
<1>1. UNCHANGED <<value, signalled, returned, forward>>
  BY DEF Begin, Sleep, TimeOut
<1>2. r.at \notin {"cancel", "link"}
  BY DEF Begin, Sleep, TimeOut, Ready
<1>3. /\ \A d \in Cvs : fwd[d] # "ended"
      /\ \A d \in Cvs : ~ (value[d] < 0)
  BY <1>2, StraightRest
<1>4. QED
  BY <1>1, <1>3 DEF Straight, Matched, Following

\* R's wait takes one of a value that is above zero and that no forwarder sees.
LEMMA StraightDecrement ==
  ASSUME SInv, Straight, Decrement
  PROVE  Straight'
<1>0. TypeOK /\ Matched /\ Following /\ Calls
  BY DEF SInv, Straight
<1>1. PICK d \in Cvs : d = r.on
  BY <1>0, CallsOn DEF Decrement
<1>2. /\ r.at \in {"wait", "until"} /\ value[d] # 0 /\ UNCHANGED <<signalled, forward>>
      /\ value' = [value EXCEPT ![d] = @ - 1] /\ returned' = [returned EXCEPT ![d] = @ + 1]
  BY <1>1 DEF Decrement
<1>3. value \in [Cvs -> Int] /\ returned \in [Cvs -> Nat] /\ signalled \in [Cvs -> Nat]
  BY <1>0 DEF TypeOK
<1>4. /\ value'[d] = value[d] - 1 /\ returned'[d] = returned[d] + 1
      /\ \A e \in Cvs \ {d} : value'[e] = value[e] /\ returned'[e] = returned[e]
  BY <1>2, <1>3
<1>5. /\ \A e \in Cvs : fwd[e] # "ended"
      /\ \A e \in Cvs : ~ (value[e] < 0)
  BY <1>2, StraightRest
<1>6. ~ (value'[d] < 0) /\ fwd[d] = "none"
  <2>1. value[d] \in Int /\ value[d] # 0 /\ ~ (value[d] < 0)
    BY <1>2, <1>3, <1>5
  <2>2. QED
    BY <1>0, <1>1, <1>2, <1>4, <2>1 DEF Calls
<1>7. value'[d] + returned'[d] <= signalled'[d]
  <2>1. value[d] + returned[d] <= signalled[d] /\ signalled'[d] = signalled[d]
    BY <1>0, <1>2 DEF Matched
  <2>2. value[d] \in Int /\ returned[d] \in Int /\ signalled[d] \in Int
    BY <1>3
  <2>3. QED
    BY <1>4, <2>1, <2>2
<1>8. Matched'
  <2>1. \A e \in Cvs : value'[e] + returned'[e] <= signalled'[e]
    BY <1>0, <1>2, <1>4, <1>7 DEF Matched
  <2>2. \A e \in Cvs : ~ (value'[e] < 0)
    BY <1>4, <1>5, <1>6
  <2>3. QED
    BY <2>1, <2>2 DEF Matched
<1>9. Following'
  BY <1>0, <1>2, <1>4, <1>5, <1>6 DEF Following
<1>10. QED
  BY <1>8, <1>9 DEF Straight

LEMMA StraightReset ==
  ASSUME SInv, Straight, Quiet, NEW c \in Cvs, Reset(c)
  PROVE  Straight'
<1>0. TypeOK /\ Matched /\ Following
  BY DEF SInv, Straight
<1>1. /\ r = Ready /\ fwd[c] = "none" /\ value' = [value EXCEPT ![c] = 0]
      /\ UNCHANGED <<signalled, returned, r, forward>>
  BY DEF Reset, Clear
<1>2. value \in [Cvs -> Int] /\ returned \in [Cvs -> Nat] /\ signalled \in [Cvs -> Nat]
  BY <1>0 DEF TypeOK
<1>3. value'[c] = 0 /\ \A e \in Cvs \ {c} : value'[e] = value[e]
  BY <1>1, <1>2
<1>4. \A e \in Cvs : ~ (value[e] < 0) /\ fwd[e] # "ended"
  BY <1>1, StraightRest DEF Ready
<1>5. Matched'
  <2>1. value'[c] + returned'[c] <= signalled'[c]
    <3>1. value[c] + returned[c] <= signalled[c] /\ ~ (value[c] < 0)
      BY <1>0, <1>4 DEF Matched
    <3>2. QED
      BY <1>1, <1>2, <1>3, <3>1
  <2>2. \A e \in Cvs : ~ (value'[e] < 0)
    BY <1>3, <1>4
  <2>3. QED
    BY <1>0, <1>1, <1>3, <2>1, <2>2 DEF Matched
<1>6. Following'
  BY <1>0, <1>1, <1>3, <1>4 DEF Following
<1>7. QED
  BY <1>5, <1>6 DEF Straight

LEMMA StraightForward ==
  ASSUME SInv, Straight, NEW c \in Cvs, NEW d \in Cvs, Forward(c, d)
  PROVE  Straight'
<1>0. TypeOK /\ Matched /\ Following
  BY DEF SInv, Straight
<1>1. r.at = "ready" /\ UNCHANGED <<signalled, returned, forward>>
  BY DEF Forward, Ready
<1>2. \A e \in Cvs : ~ (value[e] < 0) /\ fwd[e] # "ended"
  BY <1>1, StraightRest
<1>3. CASE fwd[c] = "none"
  <2>1. UNCHANGED value
    BY <1>3 DEF Forward
  <2>2. QED
    BY <1>0, <1>1, <1>2, <2>1 DEF Straight, Matched, Following
<1>4. CASE fwd[c] # "none"
  <2>1. r' = [at |-> "cancel", on |-> c, to |-> d] /\ value' = [value EXCEPT ![c] = -1]
    BY <1>4 DEF Forward
  <2>2. value \in [Cvs -> Int] /\ returned \in [Cvs -> Nat] /\ signalled \in [Cvs -> Nat]
    BY <1>0 DEF TypeOK
  <2>3. value'[c] = -1 /\ \A e \in Cvs \ {c} : value'[e] = value[e]
    BY <2>1, <2>2
  <2>4. Matched'
    <3>1. value'[c] + returned'[c] <= signalled'[c]
      <4>1. value[c] + returned[c] <= signalled[c] /\ ~ (value[c] < 0)
        BY <1>0, <1>2 DEF Matched
      <4>2. returned'[c] = returned[c] /\ signalled'[c] = signalled[c]
        BY <1>1
      <4>3. QED
        BY <2>2, <2>3, <4>1, <4>2
    <3>2. \A e \in Cvs : value'[e] + returned'[e] <= signalled'[e]
      BY <1>0, <1>1, <2>3, <3>1 DEF Matched
    <3>3. \A e \in Cvs : value'[e] < 0 => e = c
      BY <1>2, <2>3
    <3>4. Crossing(c)' /\ fwd'[c] # "none"
      BY <1>1, <1>2, <1>4, <2>1 DEF Crossing
    <3>5. QED
      BY <2>3, <3>2, <3>3, <3>4 DEF Matched
  <2>5. Following'
    BY <1>0, <1>1, <1>2, <2>3 DEF Following
  <2>6. QED
    BY <2>4, <2>5 DEF Straight
<1>5. QED
  BY <1>3, <1>4

LEMMA StraightLink ==
  ASSUME SInv, Straight, Joined \/ Link
  PROVE  Straight'
<1>0. TypeOK /\ Matched /\ Following
  BY DEF SInv, Straight
<1>1. PICK c \in Cvs : c = r.on
  BY <1>0, CallsOn DEF Joined, Link
<1>2. /\ \A e \in Cvs : ~ (value[e] < 0)
      /\ \A e \in Cvs \ {c} : fwd[e] # "ended"
  BY <1>0, <1>1, StraightRest DEF Joined, Link, Following, Cancelling
<1>3. CASE Joined
  <2>1. /\ r' = [at |-> "link", on |-> c, to |-> r.to]
        /\ UNCHANGED <<value, signalled, returned, forward>>
    BY <1>0, <1>1, <1>3, CallsOn DEF Joined
  <2>2. QED
    BY <1>0, <1>2, <2>1 DEF Straight, Matched, Following, Cancelling
<1>4. CASE Link
  <2>1. UNCHANGED <<signalled, returned, incr>>
    BY <1>4 DEF Link
  <2>2. /\ value \in [Cvs -> Int] /\ cond \in [Cvs -> Int] /\ signalled \in [Cvs -> Nat]
        /\ returned \in [Cvs -> Nat] /\ fwd \in [Cvs -> {"none", "look", "give", "ended"}]
    BY <1>0 DEF TypeOK
  <2>3. /\ value'[c] = 0 /\ cond'[c] = 0 /\ fwd'[c] = "look"
        /\ \A e \in Cvs \ {c} : value'[e] = value[e] /\ cond'[e] = cond[e] /\ fwd'[e] = fwd[e]
    BY <1>1, <1>4, <2>2 DEF Link
  <2>4. returned[c] <= signalled[c]
    <3>1. value[c] + returned[c] <= signalled[c] /\ ~ (value[c] < 0)
      BY <1>0, <1>2 DEF Matched
    <3>2. QED
      BY <2>2, <3>1
  <2>5. Matched'
    <3>1. value'[c] + returned'[c] <= signalled'[c]
      BY <2>1, <2>2, <2>3, <2>4
    <3>2. \A e \in Cvs : ~ (value'[e] < 0)
      BY <1>2, <2>3
    <3>3. QED
      BY <1>0, <2>1, <2>3, <3>1, <3>2 DEF Matched
  <2>6. Following'
    <3>1. cond'[c] >= 0 /\ cond'[c] + returned'[c] <= signalled'[c] /\ cond'[c] <= value'[c]
      BY <2>1, <2>2, <2>3, <2>4
    <3>2. QED
      BY <1>0, <1>2, <2>1, <2>3, <3>1 DEF Following
  <2>7. QED
    BY <2>5, <2>6 DEF Straight
<1>5. QED
  BY <1>3, <1>4

LEMMA StraightForwarder ==
  ASSUME SInv, Straight, NEW c \in Cvs, Doze(c) \/ End(c) \/ Grown(c)
  PROVE  Straight'
<1>0. TypeOK /\ Matched /\ Following
  BY DEF SInv, Straight
<1>1. /\ value \in [Cvs -> Int] /\ cond \in [Cvs -> Int] /\ incr \in [Cvs -> Int]
      /\ fwd \in [Cvs -> {"none", "look", "give", "ended"}]
      /\ signalled \in [Cvs -> Nat] /\ returned \in [Cvs -> Nat]
  BY <1>0 DEF TypeOK
<1>2. fwd[c] = "look" /\ UNCHANGED <<signalled, returned, r>>
  BY DEF Doze, End, Grown, Awake
<1>3. CASE Doze(c)
  <2>1. UNCHANGED <<value, forward>>
    BY <1>3 DEF Doze
  <2>2. QED
    BY <1>0, <1>2, <2>1 DEF Straight, Matched, Following, Crossing, Cancelling
<1>4. CASE End(c)
  <2>1. /\ value[c] < 0 /\ value' = [value EXCEPT ![c] = cond[c]]
        /\ fwd' = [fwd EXCEPT ![c] = "ended"] /\ UNCHANGED <<cond, incr>>
    BY <1>4 DEF End
  <2>2. /\ value'[c] = cond[c] /\ fwd'[c] = "ended"
        /\ \A e \in Cvs \ {c} : value'[e] = value[e] /\ fwd'[e] = fwd[e]
    BY <1>1, <2>1
  <2>3. Crossing(c)
    BY <1>0, <2>1 DEF Matched
  <2>4. cond[c] >= 0 /\ cond[c] + returned[c] <= signalled[c]
    BY <1>0, <1>2 DEF Following
  <2>5. Matched'
    <3>1. \A e \in Cvs : value'[e] + returned'[e] <= signalled'[e]
      BY <1>0, <1>2, <2>2, <2>4 DEF Matched
    <3>2. \A e \in Cvs : value'[e] < 0 => e # c /\ value[e] < 0
      BY <2>2, <2>4, <1>1
    <3>3. \A e \in Cvs : Crossing(e) => e = c
      BY <2>3 DEF Crossing
    <3>4. QED
      BY <1>0, <3>1, <3>2, <3>3 DEF Matched
  <2>6. Following'
    BY <1>0, <1>2, <2>1, <2>2, <2>3, <2>4 DEF Following, Crossing, Cancelling
  <2>7. QED
    BY <2>5, <2>6 DEF Straight
<1>5. CASE Grown(c)
  <2>1. /\ value[c] >= 0 /\ value[c] # cond[c] /\ incr' = [incr EXCEPT ![c] = value[c] - cond[c]]
        /\ cond' = [cond EXCEPT ![c] = value[c]] /\ fwd' = [fwd EXCEPT ![c] = "give"]
        /\ UNCHANGED value
    BY <1>5 DEF Grown
  <2>2. /\ incr'[c] = value[c] - cond[c] /\ cond'[c] = value[c] /\ fwd'[c] = "give"
        /\ \A e \in Cvs \ {c} : incr'[e] = incr[e] /\ cond'[e] = cond[e] /\ fwd'[e] = fwd[e]
    BY <1>1, <2>1
  <2>3. cond[c] <= value[c] /\ value[c] \in Int /\ cond[c] \in Int
    BY <1>0, <1>1, <1>2, <2>1 DEF Following
  <2>4. incr'[c] > 0
    BY <2>1, <2>2, <2>3
  <2>5. Matched'
    BY <1>0, <1>2, <2>1, <2>2 DEF Matched, Crossing
  <2>6. Following'
    <3>1. cond'[c] >= 0 /\ cond'[c] + returned'[c] <= signalled'[c] /\ cond'[c] <= value'[c]
      <4>1. value[c] + returned[c] <= signalled[c] /\ value[c] <= value[c]
        BY <1>0, <1>1 DEF Matched
      <4>2. QED
        BY <1>2, <2>1, <2>2, <4>1
    <3>2. QED
      BY <1>0, <1>2, <2>1, <2>2, <2>4, <3>1 DEF Following, Cancelling
  <2>7. QED
    BY <2>5, <2>6 DEF Straight
<1>6. QED
  BY <1>3, <1>4, <1>5

LEMMA StraightNext ==
  ASSUME SInv, Straight, Quiet, ~ crossed', [Next]_vars
  PROVE  Straight'
<1>1. ASSUME Notify \/ Read \/ UNCHANGED vars PROVE Straight'
  <2>1. UNCHANGED <<value, signalled, returned, r, forward>>
    BY <1>1 DEF Notify, Read, vars
  <2>2. QED
    BY <2>1 DEF Straight, Matched, Following, Crossing, Cancelling
<1>2. Monitored \in Cvs
  BY SignalsAssumption
<1>3. QED
  BY <1>1, <1>2, Steps, StraightSignal, StraightRecord, StraightGive, StraightWait,
     StraightDecrement, StraightReset, StraightForward, StraightLink, StraightForwarder
     DEF Forwarder

----------------------------------------------------------------------------
(* Values and forwarders once a signal has crossed a cancellation.         *)

\* While values are matched, so are waits.
LEMMA StraightMatches ==
  ASSUME SInv, Straight
  PROVE  WaitsMatched
<1> SUFFICES ASSUME NEW c \in Cvs PROVE returned[c] <= signalled[c]
  BY DEF WaitsMatched
<1>0. /\ value[c] \in Int /\ returned[c] \in Nat /\ signalled[c] \in Nat /\ cond[c] \in Int
      /\ Matched /\ Following
  BY DEF SInv, Straight, TypeOK
<1>1. CASE value[c] >= 0
  BY <1>0, <1>1 DEF Matched
<1>2. CASE value[c] < 0
  <2>1. fwd[c] # "none"
    BY <1>0, <1>2 DEF Matched
  <2>2. cond[c] >= 0 /\ cond[c] + returned[c] <= signalled[c]
    BY <1>0, <2>1 DEF Following
  <2>3. QED
    BY <1>0, <2>2
<1>3. QED
  BY <1>0, <1>1, <1>2

\* A raise, or what a forwarder below takes back, leaves R in its join.
LEMMA HungRaise ==
  ASSUME SInv, WaitsMatched, NEW rank \in [Cvs -> Int], Upper(rank),
         r.at = "cancel", fwd[r.on] \in {"look", "give"},
         NEW d \in Cvs, NEW n \in Int, Raise(d, n), UNCHANGED <<returned, r, cond>>,
         n >= 0 \/ rank[d] < rank[r.on],
         value[r.on] >= 0 \/ (value[r.on] = -1 /\ d = r.on /\ n > 0),
         \A e \in Cvs : fwd'[e] = fwd[e] \/ (fwd[e] = "give" /\ fwd'[e] = "look"),
         \A e \in Cvs : fwd'[e] = "give" => incr'[e] = incr[e]
  PROVE  WaitsMatched' /\ Hung(rank)'
<1>0. /\ TypeOK /\ r.on \in Cvs /\ rank[d] \in Int /\ rank[r.on] \in Int
  BY CallsOn DEF SInv
<1>1. /\ value'[d] = value[d] + n
      /\ signalled'[d] = IF n > 0 THEN signalled[d] + n ELSE signalled[d]
      /\ \A e \in Cvs \ {d} : value'[e] = value[e] /\ signalled'[e] = signalled[e]
  BY <1>0, TypeRaise
<1>2. /\ value \in [Cvs -> Int] /\ cond \in [Cvs -> Int] /\ signalled \in [Cvs -> Nat]
      /\ returned \in [Cvs -> Nat]
  BY <1>0 DEF TypeOK
<1>3. WaitsMatched'
  <2>1. returned'[d] <= signalled'[d]
    BY <1>1, <1>2 DEF WaitsMatched
  <2>2. QED
    BY <1>1, <2>1 DEF WaitsMatched
<1>4. value'[r.on] >= 0
  <2>1. value[r.on] \in Int /\ (d = r.on => n >= 0)
    BY <1>0, <1>2
  <2>2. QED
    BY <1>0, <1>1, <2>1
<1>5. ASSUME NEW e \in Cvs, rank[e] > rank[r.on]
      PROVE  /\ fwd'[e] = "give" => incr'[e] >= 0
             /\ fwd'[e] \in {"look", "give"} => cond'[e] <= value'[e]
  <2>1. /\ fwd[e] = "give" => incr[e] >= 0
        /\ fwd[e] \in {"look", "give"} => cond[e] <= value[e]
    BY <1>5 DEF Upper
  <2>2. e = d => n >= 0
    BY <1>0, <1>5
  <2>3. value[e] <= value'[e] /\ value[e] \in Int /\ cond[e] \in Int /\ value'[e] \in Int
    BY <1>1, <1>2, <2>2
  <2>4. fwd'[e] = "give" => incr'[e] >= 0
    BY <2>1
  <2>5. fwd'[e] \in {"look", "give"} => cond'[e] <= value'[e]
    BY <2>1, <2>3
  <2>6. QED
    BY <2>4, <2>5
<1>6. Upper(rank)'
  BY <1>5 DEF Upper
<1>7. fwd'[r.on] \in {"look", "give"}
  BY <1>0
<1>8. QED
  BY <1>3, <1>4, <1>6, <1>7 DEF Hung

\* The step in which a signal hides from a forwarder that it should end.
LEMMA HungStart ==
  ASSUME SInv, Straight, NEW rank \in [Cvs -> Int], NEW d \in Cvs, NEW n \in Int, n > 0,
         Raise(d, n), Crossing(d), UNCHANGED <<returned, r, cond>>,
         \A e \in Cvs : fwd'[e] = fwd[e] \/ (fwd[e] = "give" /\ fwd'[e] = "look"),
         \A e \in Cvs : fwd'[e] = "give" => incr'[e] = incr[e]
  PROVE  WaitsMatched' /\ Hung(rank)'
<1>0. TypeOK /\ Calls /\ Matched /\ Following
  BY DEF SInv, Straight
<1>1. r.at = "cancel" /\ r.on = d /\ fwd[d] \in {"look", "give"}
  BY <1>0 DEF Crossing, Calls, TypeOK
<1>2. value[d] >= 0 \/ value[d] = -1
  BY <1>0 DEF Matched, TypeOK
<1>3. Upper(rank)
  <2>1. ASSUME NEW e \in Cvs, rank[e] > rank[r.on]
        PROVE  /\ fwd[e] = "give" => incr[e] >= 0
               /\ fwd[e] \in {"look", "give"} => cond[e] <= value[e]
    <3>1. e # d /\ value[e] \in Int /\ incr[e] \in Int
      BY <1>0, <1>1, <2>1 DEF TypeOK
    <3>2. value[e] >= 0
      BY <1>0, <1>1, <3>1 DEF Matched, Crossing
    <3>3. fwd[e] = "give" => incr[e] > 0
      BY <1>0 DEF Following
    <3>4. QED
      BY <1>0, <3>1, <3>2, <3>3 DEF Following
  <2>2. QED
    BY <2>1 DEF Upper
<1>4. WaitsMatched
  BY StraightMatches
<1>5. n >= 0
  OBVIOUS
<1>6. QED
  BY <1>1, <1>2, <1>3, <1>4, <1>5, HungRaise

\* A forwarder that looks, or ends, leaves R in its join.
LEMMA HungLook ==
  ASSUME SInv, WaitsMatched, NEW rank \in [Cvs -> Int], Hung(rank),
         NEW c \in Cvs, Doze(c) \/ End(c) \/ Grown(c)
  PROVE  WaitsMatched' /\ Hung(rank)'
<1>0. TypeOK /\ r.on \in Cvs /\ Upper(rank) /\ r.at = "cancel" /\ value[r.on] >= 0
      /\ fwd[r.on] \in {"look", "give"}
  BY CallsOn DEF SInv, Hung
<1>1. /\ value \in [Cvs -> Int] /\ cond \in [Cvs -> Int] /\ incr \in [Cvs -> Int]
      /\ fwd \in [Cvs -> {"none", "look", "give", "ended"}]
  BY <1>0 DEF TypeOK
<1>2. fwd[c] = "look" /\ UNCHANGED <<signalled, returned, r>>
  BY DEF Doze, End, Grown, Awake
<1>3. WaitsMatched'
  BY <1>2 DEF WaitsMatched
<1>4. CASE Doze(c)
  <2>1. UNCHANGED <<value, forward>>
    BY <1>4 DEF Doze
  <2>2. QED
    BY <1>0, <1>2, <1>3, <2>1 DEF Hung, Upper
<1>5. CASE End(c)
  <2>1. value[c] < 0 /\ UNCHANGED <<cond, incr>>
    BY <1>5 DEF End
  <2>2. c # r.on
    BY <1>0, <1>1, <2>1
  <2>3. fwd'[c] = "ended" /\ \A e \in Cvs \ {c} : value'[e] = value[e] /\ fwd'[e] = fwd[e]
    BY <1>1, <1>5 DEF End
  <2>4. Upper(rank)'
    BY <1>0, <1>2, <2>1, <2>3 DEF Upper
  <2>5. QED
    BY <1>0, <1>2, <1>3, <2>2, <2>3, <2>4 DEF Hung
<1>6. CASE Grown(c)
  <2>1. /\ UNCHANGED value
        /\ incr'[c] = value[c] - cond[c] /\ cond'[c] = value[c] /\ fwd'[c] = "give"
        /\ \A e \in Cvs \ {c} : incr'[e] = incr[e] /\ cond'[e] = cond[e] /\ fwd'[e] = fwd[e]
    BY <1>1, <1>6 DEF Grown
  <2>2. ASSUME rank[c] > rank[r.on] PROVE incr'[c] >= 0 /\ cond'[c] <= value'[c]
    <3>1. cond[c] <= value[c] /\ cond[c] \in Int /\ value[c] \in Int
      BY <1>0, <1>1, <1>2, <2>2 DEF Upper
    <3>2. QED
      BY <2>1, <3>1
  <2>3. Upper(rank)'
    BY <1>0, <1>2, <2>1, <2>2 DEF Upper
  <2>4. QED
    BY <1>0, <1>2, <1>3, <2>1, <2>3 DEF Hung
<1>7. QED
  BY <1>4, <1>5, <1>6

\* A step that raises d by n: a signal of one, or what a forwarder of d gives.
Lift(d, n) ==
  /\ Raise(d, n) /\ UNCHANGED <<returned, r, cond>>
  /\ \A e \in Cvs : fwd'[e] = fwd[e] \/ (fwd[e] = "give" /\ fwd'[e] = "look")
  /\ \A e \in Cvs : fwd'[e] = "give" => incr'[e] = incr[e]
  /\ n = 1 \/ \E c \in Cvs : fwd[c] = "give" /\ d = target[c] /\ n = incr[c]

\* What a step may be while R is in a join.
LEMMA LiftOrNot ==
  ASSUME SInv, [Next]_vars
  PROVE  \/ \E d \in Cvs, n \in Int : Lift(d, n)
         \/ /\ crossed' = crossed
            /\ \/ \E c \in Cvs : Doze(c) \/ End(c) \/ Grown(c)
               \/ r.at # "cancel" \/ fwd[r.on] = "ended"
               \/ UNCHANGED <<value, signalled, returned, r, forward>>
<1> DEFINE Goal == \/ \E d \in Cvs, n \in Int : Lift(d, n)
                   \/ /\ crossed' = crossed
                      /\ \/ \E c \in Cvs : Doze(c) \/ End(c) \/ Grown(c)
                         \/ r.at # "cancel" \/ fwd[r.on] = "ended"
                         \/ UNCHANGED <<value, signalled, returned, r, forward>>
<1>0. TypeOK
  BY DEF SInv
<1>1. ASSUME NEW d \in Cvs, Raise(d, 1), UNCHANGED <<returned, r, forward>> PROVE Goal
  <2>1. Lift(d, 1)
    BY <1>1 DEF Lift
  <2>2. QED
    BY <2>1
<1>2. ASSUME NEW c \in Cvs, Signal(c) \/ PipeSignal PROVE Goal
  BY <1>1, <1>2, SignalsAssumption DEF Signal, PipeSignal
<1>3. ASSUME NEW p \in Pipes, NEW ev \in {"add", "remove"}, Record(p, ev) PROVE Goal
  <2>1. UNCHANGED <<returned, r, forward>> /\ Monitored \in Cvs
    BY <1>3, SignalsAssumption DEF Record
  <2>2. CASE Raise(Monitored, 1)
    BY <1>1, <2>1, <2>2
  <2>3. CASE UNCHANGED <<value, signalled, crossed>>
    BY <2>1, <2>3
  <2>4. QED
    BY <1>3, <2>2, <2>3 DEF Record
<1>4. ASSUME NEW c \in Cvs, Give(c) PROVE Goal
  <2>1. target[c] \in Cvs /\ incr[c] \in Int
    BY <1>0 DEF TypeOK
  <2>2. /\ Raise(target[c], incr[c]) /\ UNCHANGED <<returned, r, cond>> /\ fwd[c] = "give"
        /\ \A e \in Cvs : fwd'[e] = fwd[e] \/ (fwd[e] = "give" /\ fwd'[e] = "look")
        /\ \A e \in Cvs : fwd'[e] = "give" => incr'[e] = incr[e]
    BY <1>0, <1>4 DEF Give, TypeOK
  <2>3. Lift(target[c], incr[c])
    BY <2>2 DEF Lift
  <2>4. QED
    BY <2>1, <2>3
<1>5. ASSUME NEW c \in Cvs, Doze(c) \/ End(c) \/ Grown(c) PROVE Goal
  BY <1>5 DEF Doze, End, Grown
<1>6. ASSUME NEW c \in Cvs, NEW d \in Cvs, NEW how \in {"wait", "until"},
             Begin(c, how) \/ Reset(c) \/ Forward(c, d) \/ Notify \/ Read
      PROVE  Goal
  BY <1>6 DEF Begin, Reset, Forward, Notify, Read, Ready
<1>7. ASSUME Sleep \/ TimeOut \/ Decrement \/ Joined \/ Link PROVE Goal
  BY <1>7 DEF Sleep, TimeOut, Decrement, Joined, Link
<1>8. ASSUME UNCHANGED vars PROVE Goal
  BY <1>8 DEF vars
<1>9. Monitored \in Cvs
  BY SignalsAssumption
<1>10. QED
  BY <1>2, <1>3, <1>4, <1>5, <1>6, <1>7, <1>8, <1>9, Steps DEF Forwarder

LEMMA InvNext ==
  ASSUME Quiet, NEW rank \in [Cvs -> Int],
         \A c, d \in Cvs : <<c, d>> \in Links => rank[d] < rank[c],
         IInv(rank), [Next]_vars
  PROVE  IInv(rank)'
<1>1. SInv /\ SInv' /\ TypeOK /\ Calls
  BY SafeNext DEF IInv, SInv
<1>2. CASE \E d \in Cvs, n \in Int : Lift(d, n)
  <2>1. PICK d \in Cvs, n \in Int : Lift(d, n)
    BY <1>2
  <2>2. /\ Raise(d, n) /\ UNCHANGED <<returned, r, cond>>
        /\ \A e \in Cvs : fwd'[e] = fwd[e] \/ (fwd[e] = "give" /\ fwd'[e] = "look")
        /\ \A e \in Cvs : fwd'[e] = "give" => incr'[e] = incr[e]
        /\ crossed' = (crossed \/ Crossing(d))
    BY <2>1 DEF Lift, Raise
  <2>3. CASE ~ crossed'
    BY <1>1, <2>2, <2>3, StraightNext DEF IInv
  <2>4. CASE crossed' /\ ~ crossed
    <3>1. Straight /\ Crossing(d)
      BY <2>2, <2>4 DEF IInv
    <3>2. n > 0
      BY <2>1, <3>1 DEF Lift, Straight, Following
    <3>3. QED
      BY <1>1, <2>2, <2>4, <3>1, <3>2, HungStart DEF IInv
  <2>5. CASE crossed
    <3>1. WaitsMatched /\ Hung(rank) /\ r.on \in Cvs
      BY <1>1, <2>5, CallsOn DEF IInv, Hung
    <3>2. n >= 0 \/ rank[d] < rank[r.on]
      <4>1. ASSUME NEW c \in Cvs, fwd[c] = "give", d = target[c], n = incr[c]
            PROVE  n >= 0 \/ rank[d] < rank[r.on]
        <5>1. rank[d] < rank[c] /\ rank[c] \in Int /\ rank[d] \in Int /\ rank[r.on] \in Int
          BY <1>1, <3>1, <4>1 DEF Calls
        <5>2. rank[c] > rank[r.on] => incr[c] >= 0
          BY <3>1, <4>1 DEF Hung, Upper
        <5>3. QED
          BY <4>1, <5>1, <5>2
      <4>2. QED
        BY <2>1, <4>1 DEF Lift
    <3>3. WaitsMatched' /\ Hung(rank)'
      BY <1>1, <2>2, <3>1, <3>2, HungRaise DEF Hung
    <3>4. QED
      BY <1>1, <2>2, <2>5, <3>3 DEF IInv
  <2>6. QED
    BY <2>3, <2>4, <2>5
<1>3. CASE /\ crossed' = crossed
           /\ \/ \E c \in Cvs : Doze(c) \/ End(c) \/ Grown(c)
              \/ r.at # "cancel" \/ fwd[r.on] = "ended"
              \/ UNCHANGED <<value, signalled, returned, r, forward>>
  <2>1. CASE ~ crossed
    BY <1>1, <1>3, <2>1, StraightNext DEF IInv
  <2>2. CASE crossed
    <3>1. WaitsMatched /\ Hung(rank)
      BY <2>2 DEF IInv
    <3>2. CASE \E c \in Cvs : Doze(c) \/ End(c) \/ Grown(c)
      <4>1. WaitsMatched' /\ Hung(rank)'
        BY <1>1, <3>1, <3>2, HungLook
      <4>2. QED
        BY <1>1, <1>3, <2>2, <4>1 DEF IInv
    <3>3. CASE UNCHANGED <<value, signalled, returned, r, forward>>
      <4>1. WaitsMatched' /\ Hung(rank)'
        BY <3>1, <3>3 DEF WaitsMatched, Hung, Upper
      <4>2. QED
        BY <1>1, <1>3, <2>2, <4>1 DEF IInv
    <3>4. QED
      BY <1>3, <3>1, <3>2, <3>3 DEF Hung
  <2>3. QED
    BY <2>1, <2>2
<1>4. QED
  BY <1>1, <1>2, <1>3, LiftOrNot

LEMMA InvInit ==
  ASSUME NEW rank
  PROVE  Init => IInv(rank)
<1> SUFFICES ASSUME Init PROVE IInv(rank)
  OBVIOUS
<1>1. ~ crossed /\ Matched /\ Following
  BY DEF Init, Matched, Following
<1>2. QED
  BY <1>1, SafeInit DEF IInv, Straight

\* When R neither waits on a cv that it forwards nor resets it, and forwards
\* one way, no more waits on a cv return than it has had signals, its own and
\* forwarded ones, whenever NNG's threads signal; a time-out is not a signal.
THEOREM WaitsAreMatched ==
  ASSUME Quiet, OneWay
  PROVE  Spec => []WaitsMatched
<1>1. PICK rank \in [Cvs -> Int] : \A c, d \in Cvs : <<c, d>> \in Links => rank[d] < rank[c]
  BY DEF OneWay
<1>2. IInv(rank) /\ [Next]_vars => IInv(rank)'
  BY <1>1, InvNext
<1>3. IInv(rank) => WaitsMatched
  BY StraightMatches DEF IInv
<1>4. Init => IInv(rank)
  BY InvInit
<1>5. QED
  BY <1>2, <1>3, <1>4, PTL DEF Spec

=============================================================================
