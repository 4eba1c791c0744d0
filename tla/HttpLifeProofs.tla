--------------------------- MODULE HttpLifeProofs ---------------------------
(***************************************************************************)
(* What holds of the server's connections and requests for any number of   *)
(* them, whatever R does: the callbacks of a connection run in the order   *)
(* of ConnLife, an exchange's aio is finished once, a stream ends once.    *)
(*                                                                         *)
(* The invariant follows a connection from its opening call (Unmade,       *)
(* Opening) to what R may do with it (Logged), its messages (Numbered) and *)
(* its closing call (Ending), and a request from its handler callback to   *)
(* the list and to R's callback (Answered).                                *)
(***************************************************************************)
EXTENDS HttpServer, SequenceTheorems, FiniteSetTheorems, TLAPS

Elements(q) == {q[i] : i \in 1..Len(q)}

\* after[a] is what may come after a in q.
Ordered(q, after) == \A i, j \in 1..Len(q) : i < j => q[j] \in after[q[i]]

\* The calls that may be posted.
Posts ==
  {e \in [fn : Calls, arg : Conns \cup Reqs \cup {Top}, n : 0..MaxMsgs] :
     /\ e.fn \in {"onopen", "onmessage"} => e.arg \in Ws
     /\ e.fn = "onclose" => e.arg \in Conns
     /\ e.fn = "onrequest" => e.arg \in Streams
     /\ e.fn = "handler" => e.arg \in Reqs
     /\ e.fn = "cleanup" => e.arg = Top
     /\ e.fn = "onmessage" => e.n # 0}

posted == Elements(queue)

Typed == TypeOK /\ queue \in Seq(Posts) /\ frame \in Posts \cup {Idle}

\* A connection is opened once, a request handled once, and the messages of a
\* connection are posted in the order in which they came.
InTurn ==
  [a \in Posts |->
     {b \in Posts : a.fn = b.fn /\ a.arg = b.arg =>
        /\ a.fn \notin {"onopen", "onrequest", "handler"}
        /\ a.fn = "onmessage" => a.n < b.n}]

\* A connection is listed while it is open or closing; what is scheduled to
\* be closed has been opened, and is not open.  In conn_cleanup R has let go of it.
Listed ==
  /\ \A c \in Conns :
       /\ c \in conns <=> conn[c] \in {"open", "closing"}
       /\ c \in scheduled => conn[c] \notin {"none", "open"}
       /\ conn[c] = "closing" => c \in scheduled
  /\ at = "free" =>
       /\ frame.fn \in {"onclose", "onrequest"}
       /\ conn[frame.arg] = "closed" /\ frame.arg \notin opened

\* Nothing is known of a connection before it is made.
Unmade ==
  /\ \A c \in Conns : conn[c] = "none" =>
       log[c] = <<>> /\ frame.arg # c /\ \A e \in posted : e.arg # c
  /\ \A s \in Streams :
       /\ handler[s] \in {"none", "called", "checked"} => conn[s] = "none"
       /\ handler[s] = "linked" => conn[s] # "none"
  /\ accepted = Top <=> accept # "linked"
  /\ accept = "linked" => conn[accepted] # "none"

\* The opening call of a connection is posted before anything was logged.
Opening ==
  /\ accept = "linked" => log[accepted] = <<>> /\ \A e \in posted : e.arg # accepted
  /\ \A s \in Streams : handler[s] = "linked" =>
       log[s] = <<>> /\ \A e \in posted : e.fn = "onrequest" => e.arg # s
  /\ \A e \in posted : e.fn \in {"onopen", "onrequest"} => log[e.arg] = <<>>
  /\ state = "created" \/ at = "conns" => accept = "off"

\* What needs R to have the connection comes after it.
Logged ==
  /\ \A c \in opened : log[c] # <<>>
  /\ \A w \in Ws : recv[w] # "idle" => log[w] # <<>>
  /\ \A e \in posted : e.fn = "onmessage" => log[e.arg] # <<>>
  /\ frame.fn = "onopen" => log[frame.arg] # <<>>

\* A connection is closed once, and not open any more.
Ending ==
  /\ \A e \in posted : e.fn = "onclose" => e.arg \in scheduled
  /\ \A w \in Ws : recv[w] = "post" => w \in scheduled
  /\ \A c \in Conns : log[c] # <<>> /\ Last(log[c]) = -1 =>
       /\ conn[c] \notin {"none", "open"}
       /\ c \in opened => frame.fn = "onclose" /\ frame.arg = c

\* Messages are logged in the order of their numbers.
Numbered ==
  /\ \A w \in Ws : log[w] # <<>> =>
       Last(log[w]) <= received[w] /\ (recv[w] = "got" => Last(log[w]) < received[w])
  /\ \A w \in Ws : recv[w] = "got" => received[w] # 0
  /\ \A e \in posted : e.fn = "onmessage" =>
       /\ Last(log[e.arg]) < e.n /\ e.n <= received[e.arg]
       /\ recv[e.arg] = "got" => e.n < received[e.arg]

LifeInv ==
  Typed /\ Ordered(queue, InTurn) /\ Listed /\ Unmade /\ Opening /\ Logged /\ Ending /\ Numbered

\* The aio of a request belongs to its handler callback, then to the list, then
\* to R's callback.
Answered ==
  /\ \A q \in Reqs :
       /\ handler[q] \in {"none", "called", "checked", "astray"} =>
            finished[q] = 0 /\ q \notin pending \cup cancelled
       /\ handler[q] = "linked" => q \in pending
       /\ handler[q] # "done" => (\A e \in posted : e.arg # q) /\ frame.arg # q
       /\ q \in pending => finished[q] = IF q \in cancelled THEN 1 ELSE 0
       /\ frame.arg = q => finished[q] = 0 /\ q \notin pending
       /\ finished[q] <= 1
  /\ \A e \in posted : e.fn = "handler" => e.arg \in pending
  /\ cancelled # {} => state = "stopped" /\ at \notin {"http", "pending"}
  /\ at \in {"http", "pending"} => state = "stopped"

Wired == \A s \in Streams : wire[s] = "ended" => conn[s] \notin {"none", "open"}

-----------------------------------------------------------------------------
(* The event loop's queue.                                                   *)

LEMMA Appended ==
  ASSUME NEW S, NEW q \in Seq(S), NEW e \in S
  PROVE  /\ Append(q, e) \in Seq(S)
         /\ Elements(Append(q, e)) = Elements(q) \cup {e}
         /\ \A after : Ordered(q, after) /\ (\A x \in Elements(q) : e \in after[x])
              => Ordered(Append(q, e), after)
<1> DEFINE p == Append(q, e)
<1>1. /\ p \in Seq(S) /\ Len(p) = Len(q) + 1 /\ Len(q) \in Nat
      /\ \A i \in 1..Len(q) : p[i] = q[i]
      /\ p[Len(q) + 1] = e
  BY AppendProperties, LenProperties
<1> HIDE DEF p
<1>2. \A i \in 1..Len(p) : i \in 1..Len(q) \/ i = Len(q) + 1
  BY <1>1
<1>3. \A i \in 1..Len(q) : i \in 1..Len(p) /\ i < Len(q) + 1
  BY <1>1
<1>4. Len(q) + 1 \in 1..Len(p)
  BY <1>1
<1>5. Elements(p) = Elements(q) \cup {e}
  BY <1>1, <1>2, <1>3, <1>4 DEF Elements
<1>6. ASSUME NEW after, Ordered(q, after), \A x \in Elements(q) : e \in after[x]
      PROVE  Ordered(p, after)
  <2> SUFFICES ASSUME NEW i \in 1..Len(p), NEW j \in 1..Len(p), i < j PROVE p[j] \in after[p[i]]
    BY DEF Ordered
  <2>1. i \in 1..Len(q)
    BY <1>1, <1>2
  <2>2. CASE j \in 1..Len(q)
    BY <1>1, <1>6, <2>1, <2>2 DEF Ordered
  <2>3. CASE j = Len(q) + 1
    BY <1>1, <1>6, <2>1, <2>3 DEF Elements
  <2>4. QED
    BY <1>2, <2>2, <2>3
<1>7. QED
  BY <1>1, <1>5, <1>6 DEF p

LEMMA Popped ==
  ASSUME NEW S, NEW q \in Seq(S), q # <<>>
  PROVE  /\ Head(q) \in S /\ Tail(q) \in Seq(S)
         /\ Elements(q) = Elements(Tail(q)) \cup {Head(q)}
         /\ \A after : Ordered(q, after) =>
              Ordered(Tail(q), after) /\ \A x \in Elements(Tail(q)) : x \in after[Head(q)]
<1> DEFINE p == Tail(q)
<1>1. /\ p \in Seq(S) /\ Len(p) = Len(q) - 1 /\ Len(q) \in Nat /\ Len(p) \in Nat
      /\ \A i \in 1..Len(p) : p[i] = q[i + 1]
      /\ Head(q) \in S /\ Head(q) = q[1] /\ 1 \in 1..Len(q)
  BY HeadTailProperties, LenProperties, EmptySeq
<1> HIDE DEF p
<1>2. \A i \in 1..Len(p) : i + 1 \in 1..Len(q) /\ 1 < i + 1
  BY <1>1
<1>3. \A i \in 1..Len(q) : i = 1 \/ (i - 1 \in 1..Len(p) /\ q[i] = p[i - 1])
  BY <1>1
<1>4. Elements(q) = Elements(p) \cup {Head(q)}
  <2>1. ASSUME NEW i \in 1..Len(q) PROVE q[i] \in Elements(p) \cup {Head(q)}
    BY <1>1, <1>3, <2>1 DEF Elements
  <2>2. ASSUME NEW i \in 1..Len(p) PROVE p[i] \in Elements(q)
    BY <1>1, <1>2, <2>2 DEF Elements
  <2>3. Head(q) \in Elements(q)
    BY <1>1 DEF Elements
  <2>4. Elements(q) \subseteq Elements(p) \cup {Head(q)}
    BY <2>1 DEF Elements
  <2>5. Elements(p) \subseteq Elements(q)
    BY <2>2 DEF Elements
  <2>6. QED
    BY <2>3, <2>4, <2>5
<1>5. ASSUME NEW after, Ordered(q, after)
      PROVE  Ordered(p, after) /\ \A x \in Elements(p) : x \in after[Head(q)]
  <2>1. ASSUME NEW i \in 1..Len(p), NEW j \in 1..Len(p), i < j PROVE p[j] \in after[p[i]]
    <3>1. q[j + 1] \in after[q[i + 1]]
      <4>1. i + 1 < j + 1 /\ i + 1 \in 1..Len(q) /\ j + 1 \in 1..Len(q)
        BY <1>2, <2>1
      <4>2. QED
        BY <1>5, <4>1 DEF Ordered
    <3>2. QED
      BY <1>1, <2>1, <3>1
  <2>2. ASSUME NEW i \in 1..Len(p) PROVE p[i] \in after[Head(q)]
    BY <1>1, <1>2, <1>5, <2>2 DEF Ordered
  <2>3. QED
    BY <2>1, <2>2 DEF Ordered, Elements
<1>6. QED
  BY <1>1, <1>4, <1>5 DEF p

LEMMA Concatenated ==
  ASSUME NEW S, NEW q \in Seq(S), NEW r \in Seq(S)
  PROVE  /\ q \o r \in Seq(S)
         /\ Elements(q \o r) = Elements(q) \cup Elements(r)
         /\ \A after :
              Ordered(q, after) /\ Ordered(r, after)
                /\ (\A x \in Elements(q), y \in Elements(r) : y \in after[x])
              => Ordered(q \o r, after)
<1> DEFINE p == q \o r
<1>1. /\ p \in Seq(S) /\ Len(p) = Len(q) + Len(r) /\ Len(q) \in Nat /\ Len(r) \in Nat
      /\ \A i \in 1..Len(q) + Len(r) : p[i] = IF i <= Len(q) THEN q[i] ELSE r[i - Len(q)]
  BY ConcatProperties, LenProperties
<1> HIDE DEF p
<1>2. \A i \in 1..Len(q) : i \in 1..Len(p) /\ p[i] = q[i]
  BY <1>1
<1>3. \A i \in 1..Len(r) : Len(q) + i \in 1..Len(p) /\ p[Len(q) + i] = r[i]
  <2> SUFFICES ASSUME NEW i \in 1..Len(r)
               PROVE  Len(q) + i \in 1..Len(p) /\ p[Len(q) + i] = r[i]
    OBVIOUS
  <2>1. /\ Len(q) + i \in 1..Len(q) + Len(r) /\ ~ (Len(q) + i <= Len(q))
        /\ (Len(q) + i) - Len(q) = i
    BY <1>1
  <2>2. p[Len(q) + i] = r[(Len(q) + i) - Len(q)]
    BY <1>1, <2>1
  <2>3. QED
    BY <1>1, <2>1, <2>2
<1>4. \A i \in 1..Len(p) :
        \/ i \in 1..Len(q) /\ p[i] = q[i]
        \/ i > Len(q) /\ i - Len(q) \in 1..Len(r) /\ p[i] = r[i - Len(q)]
  <2> SUFFICES ASSUME NEW i \in 1..Len(p)
               PROVE  \/ i \in 1..Len(q) /\ p[i] = q[i]
                      \/ i > Len(q) /\ i - Len(q) \in 1..Len(r) /\ p[i] = r[i - Len(q)]
    OBVIOUS
  <2>1. CASE i <= Len(q)
    BY <1>1, <2>1
  <2>2. CASE ~ (i <= Len(q))
    <3>1. i > Len(q) /\ i - Len(q) \in 1..Len(r)
      BY <1>1, <2>2
    <3>2. p[i] = r[i - Len(q)]
      BY <1>1, <2>2
    <3>3. QED
      BY <3>1, <3>2
  <2>3. QED
    BY <2>1, <2>2
<1>5. Elements(p) = Elements(q) \cup Elements(r)
  BY <1>2, <1>3, <1>4, RangeConcatenation, RangeEquality DEF Elements, p
<1>6. ASSUME NEW after, Ordered(q, after), Ordered(r, after),
             \A x \in Elements(q), y \in Elements(r) : y \in after[x]
      PROVE  Ordered(p, after)
  <2> SUFFICES ASSUME NEW i \in 1..Len(p), NEW j \in 1..Len(p), i < j PROVE p[j] \in after[p[i]]
    BY DEF Ordered
  <2>1. CASE j \in 1..Len(q) /\ p[j] = q[j]
    <3>1. i \in 1..Len(q) /\ p[i] = q[i]
      BY <1>1, <1>2, <2>1
    <3>2. QED
      BY <1>6, <2>1, <3>1 DEF Ordered
  <2>2. CASE j > Len(q) /\ j - Len(q) \in 1..Len(r) /\ p[j] = r[j - Len(q)]
    <3>1. CASE i \in 1..Len(q) /\ p[i] = q[i]
      BY <1>6, <2>2, <3>1 DEF Elements
    <3>2. CASE i > Len(q) /\ i - Len(q) \in 1..Len(r) /\ p[i] = r[i - Len(q)]
      <4>1. i - Len(q) < j - Len(q)
        BY <1>1
      <4>2. QED
        BY <1>6, <2>2, <3>2, <4>1 DEF Ordered
    <3>3. QED
      BY <1>4, <3>1, <3>2
  <2>3. QED
    BY <1>4, <2>1, <2>2
<1>7. QED
  BY <1>1, <1>5, <1>6 DEF p

\* The calls that CloseAll posts: one for each connection.
LEMMA PostedAll ==
  ASSUME NEW cs \in SUBSET Conns, NEW calls \in Posted(cs, "onclose")
  PROVE  /\ calls \in Seq(Posts)
         /\ Elements(calls) = {Call("onclose", c, 0) : c \in cs}
         /\ \A after :
              (\A c, d \in cs : c # d => Call("onclose", d, 0) \in after[Call("onclose", c, 0)])
              => Ordered(calls, after)
<1>1. IsFiniteSet(cs) /\ Cardinality(cs) \in Nat
  BY HttpServerAssumption, FS_Subset, FS_CardinalityType
<1>2. PICK order \in SetToSeqs(cs) : calls = [i \in 1..Len(order) |-> Call("onclose", order[i], 0)]
  BY DEF Posted
<1> DEFINE n == Cardinality(cs)
<1>3. /\ order \in [1..n -> cs]
      /\ \A i, j \in 1..n : i # j => order[i] # order[j]
  BY DEF SetToSeqs
<1>4. Len(order) = n
  BY <1>1, <1>3
<1>5. \A c \in cs : \E i \in 1..n : order[i] = c
  <2>1. IsFiniteSet(1..n) /\ Cardinality(1..n) = n
    BY <1>1, FS_Interval
  <2>2. order \in Injection(1..n, cs)
    BY <1>3 DEF Injection, IsInjective
  <2>3. order \in Surjection(1..n, cs)
    BY <1>1, <2>1, <2>2, FS_Injection
  <2>4. QED
    BY <2>3 DEF Surjection
<1> HIDE DEF n
<1>6. \A c \in cs : Call("onclose", c, 0) \in Posts
  BY HttpServerAssumption DEF Posts, Calls, Call
<1>7. calls \in [1..n -> Posts] /\ \A i \in 1..n : calls[i] = Call("onclose", order[i], 0)
  BY <1>2, <1>3, <1>4, <1>6
<1>8. calls \in Seq(Posts) /\ Len(calls) = n
  BY <1>1, <1>7 DEF n
<1>9. Elements(calls) = {Call("onclose", c, 0) : c \in cs}
  BY <1>3, <1>5, <1>7, <1>8 DEF Elements
<1>10. ASSUME NEW after,
              \A c, d \in cs : c # d => Call("onclose", d, 0) \in after[Call("onclose", c, 0)]
       PROVE  Ordered(calls, after)
  <2> SUFFICES ASSUME NEW i \in 1..n, NEW j \in 1..n, i < j PROVE calls[j] \in after[calls[i]]
    BY <1>8 DEF Ordered
  <2>1. order[i] # order[j] /\ order[i] \in cs /\ order[j] \in cs
    BY <1>3
  <2>2. QED
    BY <1>7, <1>10, <2>1
<1>11. QED
  BY <1>8, <1>9, <1>10

-----------------------------------------------------------------------------
(* Types.                                                                    *)

USE DEF server, accepts, life, receives, requests, rthread

LEMMA CallTypes ==
  /\ \A w \in Ws : Call("onopen", w, 0) \in Posts
  /\ \A w \in Ws, n \in 1..MaxMsgs : Call("onmessage", w, n) \in Posts
  /\ \A c \in Conns : Call("onclose", c, 0) \in Posts
  /\ \A s \in Streams : Call("onrequest", s, 0) \in Posts
  /\ \A q \in Reqs : Call("handler", q, 0) \in Posts
  /\ Call("cleanup", Top, 0) \in Posts
<1>1. MaxMsgs \in Nat
  BY HttpServerAssumption
<1>2. \A w \in Ws, n \in 1..MaxMsgs : Call("onmessage", w, n) \in Posts
  <2> SUFFICES ASSUME NEW w \in Ws, NEW n \in 1..MaxMsgs PROVE Call("onmessage", w, n) \in Posts
    OBVIOUS
  <2>1. n \in 0..MaxMsgs /\ n # 0
    BY <1>1
  <2>2. QED
    BY <2>1 DEF Posts, Calls, Call, Conns
<1>3. 0 \in 0..MaxMsgs
  BY <1>1
<1>4. QED
  BY <1>2, <1>3 DEF Posts, Calls, Call, Conns

LEMMA PostTypes ==
  ASSUME NEW e \in Posts
  PROVE  /\ e.fn \in Calls /\ e.fn # "none"
         /\ e.fn \in {"onopen", "onmessage"} => e.arg \in Ws /\ e.arg \in Conns
         /\ e.fn = "onclose" => e.arg \in Conns
         /\ e.fn = "onrequest" => e.arg \in Streams /\ e.arg \in Conns
         /\ e.fn = "handler" => e.arg \in Reqs
         /\ e.fn = "cleanup" => e.arg = Top
         /\ e.fn = "onmessage" => e.n \in 1..MaxMsgs
  BY HttpServerAssumption DEF Posts, Calls, Conns

LEMMA NotACall ==
  /\ Idle.fn = "none" /\ Idle.arg = Top
  /\ Top \notin Conns /\ Top \notin Reqs /\ Top \notin Ws /\ Top \notin Streams
  /\ Reqs \cap Conns = {} /\ Ws \cap Streams = {} /\ Reqs \cap Streams = {} /\ Reqs \cap Ws = {}
  /\ Ws \subseteq Conns /\ Streams \subseteq Conns
  /\ Conns \subseteq Ws \cup Streams
  BY HttpServerAssumption DEF Idle, Call, Conns

LEMMA QueueTypes ==
  ASSUME NEW q \in Seq(Posts)
  PROVE  \A i \in 1..Len(q) : q[i].fn \in Calls
  BY PostTypes, ElementOfSeq

\* What posting a call does to the queue.
LEMMA Later ==
  ASSUME Typed, NEW e \in Posts, later2(e)
  PROVE  /\ queue' \in Seq(Posts) /\ posted' = posted \cup {e}
         /\ \A after : Ordered(queue, after) /\ (\A x \in posted : e \in after[x])
              => Ordered(queue', after)
  BY Appended DEF Typed, later2, posted

\* What taking a call from the queue does.
LEMMA Taken ==
  ASSUME Typed, queue # <<>>, Pop
  PROVE  /\ queue' \in Seq(Posts) /\ Head(queue) \in Posts /\ Head(queue) \in posted
         /\ posted = posted' \cup {Head(queue)}
         /\ \A after : Ordered(queue, after) =>
              Ordered(queue', after) /\ \A x \in posted' : x \in after[Head(queue)]
<1>1. queue \in Seq(Posts) /\ queue' = Tail(queue)
  BY DEF Typed, Pop
<1>2. posted' = Elements(Tail(queue))
  BY <1>1 DEF posted
<1>3. posted = Elements(queue)
  BY DEF posted
<1>4. QED
  BY <1>1, <1>2, <1>3, Popped

\* What http_server_stop does for the connections of a handler.
LEMMA ClosedAll ==
  ASSUME Typed, NEW cs \in SUBSET Conns, NEW last \in {<<>>, <<Call("cleanup", Top, 0)>>},
         CloseAll(cs, last)
  PROVE  /\ queue' \in Seq(Posts)
         /\ posted' = posted \cup {Call("onclose", c, 0) : c \in cs \ scheduled} \cup Elements(last)
         /\ Elements(<<>>) = {} /\ Elements(<<Call("cleanup", Top, 0)>>) = {Call("cleanup", Top, 0)}
         /\ scheduled' = scheduled \cup cs
         /\ \A after :
              Ordered(queue, after)
                /\ (\A c, d \in cs \ scheduled : c # d => Call("onclose", d, 0) \in after[Call("onclose", c, 0)])
                /\ (\A x \in posted, c \in cs \ scheduled : Call("onclose", c, 0) \in after[x])
                /\ (last # <<>> => /\ \A x \in posted : Call("cleanup", Top, 0) \in after[x]
                                   /\ \A c \in cs \ scheduled :
                                        Call("cleanup", Top, 0) \in after[Call("onclose", c, 0)])
              => Ordered(queue', after)
<1> DEFINE new == {Call("onclose", c, 0) : c \in cs \ scheduled}
           final == <<Call("cleanup", Top, 0)>>
<1>1. PICK calls \in Posted(cs \ scheduled, "onclose") : queue' = queue \o calls \o last
  BY DEF CloseAll
<1>2. queue \in Seq(Posts)
  BY DEF Typed
<1>3. /\ calls \in Seq(Posts) /\ Elements(calls) = new
      /\ \A after :
           (\A c, d \in cs \ scheduled : c # d => Call("onclose", d, 0) \in after[Call("onclose", c, 0)])
           => Ordered(calls, after)
  BY PostedAll
<1>4. Elements(<<>>) = {}
  BY DEF Elements
<1>5. final \in Seq(Posts) /\ Len(final) = 1 /\ final[1] = Call("cleanup", Top, 0)
  BY CallTypes
<1>6. Elements(final) = {Call("cleanup", Top, 0)}
  <2>1. 1..1 = {1}
    OBVIOUS
  <2>2. QED
    BY <1>5, <2>1 DEF Elements
<1>7. \A after : Ordered(<<>>, after) /\ Ordered(final, after)
  BY <1>5 DEF Ordered
<1>8. last \in Seq(Posts) /\ \A after : Ordered(last, after)
  <2>1. <<>> \in Seq(Posts)
    BY EmptySeq
  <2>2. CASE last = <<>>
    BY <1>7, <2>1, <2>2
  <2>3. CASE last = final
    BY <1>5, <1>7, <2>3
  <2>4. QED
    BY <2>2, <2>3
<1>9. /\ queue \o calls \in Seq(Posts) /\ Elements(queue \o calls) = posted \cup new
      /\ \A after :
           Ordered(queue, after) /\ Ordered(calls, after)
             /\ (\A x \in posted, y \in new : y \in after[x])
           => Ordered(queue \o calls, after)
  <2>1. /\ queue \o calls \in Seq(Posts)
        /\ Elements(queue \o calls) = Elements(queue) \cup Elements(calls)
        /\ \A after :
             Ordered(queue, after) /\ Ordered(calls, after)
               /\ (\A x \in Elements(queue), y \in Elements(calls) : y \in after[x])
             => Ordered(queue \o calls, after)
    BY <1>2, <1>3, Concatenated
  <2>2. Elements(queue) = posted /\ Elements(calls) = new
    BY <1>3 DEF posted
  <2> HIDE DEF new
  <2>3. QED
    BY <2>1, <2>2
<1>10. /\ queue' \in Seq(Posts) /\ Elements(queue') = posted \cup new \cup Elements(last)
       /\ \A after :
            Ordered(queue \o calls, after) /\ Ordered(last, after)
              /\ (\A x \in posted \cup new, y \in Elements(last) : y \in after[x])
            => Ordered(queue', after)
  <2>1. queue' = (queue \o calls) \o last
    BY <1>1
  <2> HIDE DEF new
  <2>2. PICK r \in Seq(Posts) : r = queue \o calls /\ Elements(r) = posted \cup new
    BY <1>9
  <2>3. /\ r \o last \in Seq(Posts) /\ Elements(r \o last) = Elements(r) \cup Elements(last)
        /\ \A after :
             Ordered(r, after) /\ Ordered(last, after)
               /\ (\A x \in Elements(r), y \in Elements(last) : y \in after[x])
             => Ordered(r \o last, after)
    BY <1>8, Concatenated
  <2>4. QED
    BY <2>1, <2>2, <2>3
<1>11. ASSUME NEW after, Ordered(queue, after),
              \A c, d \in cs \ scheduled : c # d => Call("onclose", d, 0) \in after[Call("onclose", c, 0)],
              \A x \in posted, c \in cs \ scheduled : Call("onclose", c, 0) \in after[x],
              last # <<>> => /\ \A x \in posted : Call("cleanup", Top, 0) \in after[x]
                             /\ \A c \in cs \ scheduled :
                                  Call("cleanup", Top, 0) \in after[Call("onclose", c, 0)]
       PROVE  Ordered(queue', after)
  <2>1. Ordered(queue \o calls, after)
    BY <1>3, <1>9, <1>11
  <2>2. \A x \in posted \cup new, y \in Elements(last) : y \in after[x]
    <3>1. CASE last = <<>>
      BY <3>1, <1>4
    <3>2. CASE last = final
      BY <3>2, <1>5, <1>6, <1>11
    <3>3. QED
      BY <3>1, <3>2
  <2>3. QED
    BY <1>8, <1>10, <2>1, <2>2
<1>12. posted' = Elements(queue') /\ scheduled' = scheduled \cup cs
  BY DEF posted, CloseAll
<1>13. QED
  BY <1>4, <1>6, <1>10, <1>11, <1>12


LEMMA Facts ==
  ASSUME Typed
  PROVE  /\ posted \subseteq Posts
         /\ \A e \in posted :
              /\ e.fn # "none"
              /\ e.fn \in {"onopen", "onmessage"} => e.arg \in Ws
              /\ e.fn = "onclose" => e.arg \in Conns
              /\ e.fn = "onrequest" => e.arg \in Streams
              /\ e.fn = "handler" => e.arg \in Reqs
              /\ e.fn = "cleanup" => e.arg = Top
              /\ e.fn = "onmessage" => e.n \in 1..MaxMsgs
         /\ frame.fn \in {"onopen", "onmessage"} => frame.arg \in Ws
         /\ frame.fn = "onclose" => frame.arg \in Conns
         /\ frame.fn = "onrequest" => frame.arg \in Streams
         /\ frame.fn = "handler" => frame.arg \in Reqs
         /\ frame.arg \in Conns => frame # Idle
<1>1. posted \subseteq Posts
  BY ElementOfSeq DEF Typed, posted, Elements
<1>2. frame = Idle \/ frame \in Posts
  BY DEF Typed
<1>3. frame = Idle => frame.fn = "none" /\ frame.arg = Top
  BY NotACall
<1>4. \A e \in posted :
        /\ e.fn # "none"
        /\ e.fn \in {"onopen", "onmessage"} => e.arg \in Ws
        /\ e.fn = "onclose" => e.arg \in Conns
        /\ e.fn = "onrequest" => e.arg \in Streams
        /\ e.fn = "handler" => e.arg \in Reqs
        /\ e.fn = "cleanup" => e.arg = Top
        /\ e.fn = "onmessage" => e.n \in 1..MaxMsgs
  BY <1>1, PostTypes
<1>5. QED
  BY <1>1, <1>2, <1>3, <1>4, PostTypes, NotACall

\* The steps that leave R's event loop and the connections alone.
LEMMA Unmoved ==
  ASSUME LifeInv, UNCHANGED <<conn, conns, opened, scheduled, recv, received, queue, frame, log>>,
         UNCHANGED <<handler, accepted>>, accept' = "linked" <=> accept = "linked", at' # "free" \/ at' = at,
         state' = "created" \/ at' = "conns" => accept' = "off",
         TypeOK'
  PROVE  LifeInv'
<1>1. posted' = posted
  BY DEF posted
<1>2. Typed' /\ Ordered(queue, InTurn)'
  BY DEF LifeInv, Typed, Ordered
<1>3. Listed'
  BY DEF LifeInv, Listed
<1>4. Unmade'
  BY <1>1 DEF LifeInv, Unmade
<1>5. Opening'
  BY <1>1 DEF LifeInv, Opening
<1>6. Logged'
  BY <1>1 DEF LifeInv, Logged
<1>7. Ending'
  BY <1>1 DEF LifeInv, Ending
<1>8. Numbered'
  BY <1>1 DEF LifeInv, Numbered
<1>9. QED
  BY <1>2, <1>3, <1>4, <1>5, <1>6, <1>7, <1>8 DEF LifeInv

-----------------------------------------------------------------------------
(* Types and the order of the queue are kept.                                *)

LEMMA QueueKept ==
  ASSUME LifeInv, Answered, Next
  PROVE  queue' \in Seq(Posts) /\ Ordered(queue', InTurn)
<1> DEFINE Goal == queue' \in Seq(Posts) /\ Ordered(queue', InTurn)
<1>1. /\ Typed /\ TypeOK /\ queue \in Seq(Posts) /\ Ordered(queue, InTurn)
      /\ Unmade /\ Opening /\ Logged /\ Ending /\ Numbered
  BY DEF LifeInv, Typed
<1>2. ASSUME UNCHANGED queue PROVE Goal
  BY <1>1, <1>2
<1>3. ASSUME NEW e \in Posts, later2(e),
             \A x \in posted : x.fn = e.fn /\ x.arg = e.arg =>
               /\ e.fn \notin {"onopen", "onrequest", "handler"}
               /\ e.fn = "onmessage" => x.n < e.n
      PROVE  Goal
  <2>1. \A x \in posted : e \in InTurn[x]
    BY <1>1, <1>3, Facts DEF InTurn
  <2>2. QED
    BY <1>1, <1>3, <2>1, Later
<1>4. ASSUME queue # <<>>, Pop PROVE Goal
  BY <1>1, <1>4, Taken
<1>5. ASSUME NEW cs \in SUBSET Conns, NEW last \in {<<>>, <<Call("cleanup", Top, 0)>>},
             CloseAll(cs, last)
      PROVE  Goal
  <2>1. \A c, d \in Conns : c # d => Call("onclose", d, 0) \in InTurn[Call("onclose", c, 0)]
    <3>1. \A c, d \in Conns :
            c # d => /\ Call("onclose", c, 0) \in Posts /\ Call("onclose", d, 0) \in Posts
                     /\ Call("onclose", c, 0).arg # Call("onclose", d, 0).arg
      BY CallTypes DEF Call
    <3>2. QED
      BY <3>1 DEF InTurn
  <2>2. \A x \in posted, c \in Conns : Call("onclose", c, 0) \in InTurn[x]
    <3>1. \A c \in Conns : Call("onclose", c, 0) \in Posts /\ Call("onclose", c, 0).fn = "onclose"
      BY CallTypes DEF Call
    <3>2. QED
      BY <1>1, <3>1, Facts DEF InTurn
  <2>3. /\ \A x \in posted : Call("cleanup", Top, 0) \in InTurn[x]
        /\ \A c \in Conns : Call("cleanup", Top, 0) \in InTurn[Call("onclose", c, 0)]
    <3>1. Call("cleanup", Top, 0) \in Posts /\ Call("cleanup", Top, 0).fn = "cleanup"
      BY CallTypes DEF Call
    <3>2. \A c \in Conns : Call("onclose", c, 0) \in Posts /\ Call("onclose", c, 0).fn = "onclose"
      BY CallTypes DEF Call
    <3>3. QED
      BY <1>1, <3>1, <3>2, Facts DEF InTurn
  <2>4. QED
    BY <1>1, <1>5, <2>1, <2>2, <2>3, ClosedAll
<1>6. ASSUME PostOpen PROVE Goal
  <2> DEFINE e == Call("onopen", accepted, 0)
  <2>1. accept = "linked" /\ later2(e) /\ e.fn = "onopen" /\ e.arg = accepted
    BY <1>6 DEF PostOpen, Call
  <2>2. accepted \in Ws
    BY <1>1, <2>1 DEF TypeOK, Unmade
  <2>3. e \in Posts
    BY <2>2, CallTypes
  <2>4. \A x \in posted : x.arg # e.arg
    BY <1>1, <2>1 DEF Opening
  <2>5. QED
    BY <1>3, <2>1, <2>3, <2>4
<1>7. ASSUME NEW w \in Ws, PostMessage(w) PROVE Goal
  <2> DEFINE e == Call("onmessage", w, received[w])
  <2>1. recv[w] = "got" /\ (later2(e) \/ UNCHANGED queue)
        /\ e.fn = "onmessage" /\ e.arg = w /\ e.n = received[w]
    BY <1>7 DEF PostMessage, Call
  <2>2. e \in Posts
    <3>1. received[w] \in 1..MaxMsgs
      BY <1>1, <2>1, HttpServerAssumption DEF TypeOK, Numbered
    <3>2. QED
      BY <3>1, CallTypes
  <2>3. \A x \in posted : x.fn = "onmessage" /\ x.arg = w => x.n < e.n
    BY <1>1, <2>1 DEF Numbered
  <2>4. QED
    BY <1>2, <1>3, <2>1, <2>2, <2>3
<1>8. ASSUME NEW w \in Ws, PostClose(w) PROVE Goal
  <2>1. later2(Call("onclose", w, 0)) /\ Call("onclose", w, 0).fn = "onclose"
    BY <1>8 DEF PostClose, Call
  <2>2. Call("onclose", w, 0) \in Posts
    BY CallTypes, NotACall
  <2>3. QED
    BY <1>3, <2>1, <2>2
<1>9. ASSUME NEW x \in Exchange, PostRequest(x) PROVE Goal
  <2> DEFINE e == Call(IF x \in Reqs THEN "handler" ELSE "onrequest", x, 0)
  <2>1. handler[x] = "linked" /\ later2(e)
    BY <1>9 DEF PostRequest
  <2>2. CASE x \in Reqs
    <3>1. e = Call("handler", x, 0) /\ e.fn = "handler" /\ e.arg = x
      BY <2>2 DEF Call
    <3>2. e \in Posts
      BY <2>2, <3>1, CallTypes
    <3>3. \A y \in posted : y.arg # e.arg
      BY <2>1, <2>2, <3>1 DEF Answered
    <3>4. QED
      BY <1>3, <2>1, <3>1, <3>2, <3>3
  <2>3. CASE x \notin Reqs
    <3>1. e = Call("onrequest", x, 0) /\ e.fn = "onrequest" /\ e.arg = x /\ x \in Streams
      BY <2>3 DEF Call, Exchange
    <3>2. e \in Posts
      BY <3>1, CallTypes
    <3>3. \A y \in posted : y.fn = "onrequest" => y.arg # e.arg
      BY <1>1, <2>1, <3>1 DEF Opening
    <3>4. QED
      BY <1>3, <2>1, <3>1, <3>2, <3>3
  <2>4. QED
    BY <2>2, <2>3
<1>10. ASSUME NEW c \in Conns, CloseConn(c) PROVE Goal
  <2>1. (UNCHANGED queue \/ later2(Call("onclose", c, 0))) /\ Call("onclose", c, 0).fn = "onclose"
    BY <1>10 DEF CloseConn, Call
  <2>2. Call("onclose", c, 0) \in Posts
    BY CallTypes
  <2>3. QED
    BY <1>2, <1>3, <2>1, <2>2
<1>11. ASSUME Close PROVE Goal
  <2>1. (UNCHANGED queue \/ later2(Call("cleanup", Top, 0))) /\ Call("cleanup", Top, 0).fn = "cleanup"
    BY <1>11 DEF Close, Call
  <2>2. QED
    BY <1>2, <1>3, <2>1, CallTypes
<1>12. ASSUME StopConns \/ StopStreams PROVE Goal
  <2>1. conns \cap Ws \in SUBSET Conns /\ conns \cap Streams \in SUBSET Conns
    BY <1>1 DEF TypeOK
  <2>2. QED
    BY <1>5, <1>12, <2>1 DEF StopConns, StopStreams
<1>13. CASE Network
  BY <1>2, <1>13 DEF Network, Accept, RecvDone, Enter
<1>14. CASE Callback
  BY <1>2, <1>6, <1>7, <1>8, <1>9, <1>14 DEF Callback, Rearm, RecvAgain, RecvClose, Check, Link
<1>15. CASE Program
  BY <1>2, <1>10, <1>11, <1>15 DEF Program, Start, Stop, SendDone, WsSend, StreamSend
<1>16. CASE Stopping
  BY <1>2, <1>12, <1>16 DEF Stopping, StopHttp, StopPending, StopAccept, StopWait
<1>17. CASE Loop
  <2>1. queue # <<>> /\ Pop
    BY <1>17 DEF Loop, RunOnOpen, RunOnMessage, Skip, RunOnClose, RunCleanup, RunHandler,
                 FreeServer, Due
  <2>2. QED
    BY <1>4, <2>1
<1>18. CASE Return
  BY <1>2, <1>18 DEF Return, ReturnOpen, ReturnHandler, ReturnClose, Free
<1>19. QED
  BY <1>13, <1>14, <1>15, <1>16, <1>17, <1>18 DEF Next

LEMMA TypesKept ==
  ASSUME LifeInv, Next, queue' \in Seq(Posts)
  PROVE  Typed'
<1> DEFINE Goal == TypeOK' /\ frame' \in Posts \cup {Idle}
<1>1. /\ Typed /\ TypeOK /\ queue \in Seq(Posts) /\ Listed /\ frame \in Posts \cup {Idle}
      /\ \A i \in 1..Len(queue') : queue'[i].fn \in Calls
  BY QueueTypes DEF LifeInv, Typed
<1>2. ASSUME NEW w \in Ws, Accept(w) PROVE Goal
  BY <1>1, <1>2, NotACall DEF Accept, TypeOK, Set
<1>3. ASSUME PostOpen PROVE Goal
  BY <1>1, <1>3 DEF PostOpen, TypeOK
<1>4. ASSUME Rearm PROVE Goal
  BY <1>1, <1>4 DEF Rearm, TypeOK
<1>5. ASSUME NEW w \in Ws, RecvDone(w) PROVE Goal
  <2>1. /\ received' \in [Ws -> 0..MaxMsgs]
        /\ recv' \in [Ws -> {"idle", "pending", "got", "rearm", "failed", "post"}]
    <3>1. CASE received[w] < MaxMsgs /\ recv' = Set(recv, w, "got")
                 /\ received' = Set(received, w, received[w] + 1)
      <4>1. received[w] + 1 \in 0..MaxMsgs
        BY <1>1, <3>1, HttpServerAssumption DEF TypeOK
      <4>2. QED
        BY <1>1, <3>1, <4>1 DEF TypeOK, Set
    <3>2. CASE recv' = Set(recv, w, "failed") /\ UNCHANGED received
      BY <1>1, <3>2 DEF TypeOK, Set
    <3>3. QED
      BY <3>1, <3>2, <1>5 DEF RecvDone
  <2>2. QED
    BY <1>1, <1>5, <2>1 DEF RecvDone, TypeOK
<1>6. ASSUME NEW w \in Ws, PostMessage(w) PROVE Goal
  BY <1>1, <1>6 DEF PostMessage, TypeOK, Set
<1>7. ASSUME NEW w \in Ws, RecvAgain(w) PROVE Goal
  BY <1>1, <1>7 DEF RecvAgain, TypeOK, Set
<1>8. ASSUME NEW w \in Ws, RecvClose(w) PROVE Goal
  BY <1>1, <1>8, NotACall DEF RecvClose, TypeOK, Set
<1>9. ASSUME NEW w \in Ws, PostClose(w) PROVE Goal
  BY <1>1, <1>9 DEF PostClose, TypeOK, Set
<1>10. ASSUME NEW x \in Exchange, Enter(x) PROVE Goal
  BY <1>1, <1>10 DEF Enter, TypeOK, Set
<1>11. ASSUME NEW x \in Exchange, Check(x) PROVE Goal
  <2>1. handler' \in [Exchange -> {"none", "called", "checked", "linked", "done", "astray"}]
    <3>1. PICK t \in {"checked", "astray", "done"} : handler' = Set(handler, x, t)
      BY <1>11 DEF Check
    <3>2. QED
      BY <1>1, <3>1 DEF TypeOK, Set
  <2>2. finished' \in [Reqs -> Nat]
    <3>1. CASE x \in Reqs
      <4>1. finished[x] + 1 \in Nat
        BY <1>1, <3>1 DEF TypeOK
      <4>2. QED
        BY <1>1, <1>11, <3>1, <4>1 DEF Check, TypeOK, Finish, Set
    <3>2. CASE x \notin Reqs
      BY <1>1, <1>11, <3>2 DEF Check, TypeOK
    <3>3. QED
      BY <3>1, <3>2
  <2>3. QED
    BY <1>1, <1>11, <2>1, <2>2 DEF Check, TypeOK
<1>12. ASSUME NEW x \in Exchange, Link(x) PROVE Goal
  <2>1. x \notin Reqs => x \in Conns /\ x \in Streams
    BY NotACall DEF Exchange
  <2>2. handler' \in [Exchange -> {"none", "called", "checked", "linked", "done", "astray"}]
    BY <1>1, <1>12 DEF Link, TypeOK, Set
  <2>3. CASE x \in Reqs
    BY <1>1, <1>12, <2>2, <2>3 DEF Link, TypeOK
  <2>4. CASE x \notin Reqs
    <3>1. conns' = conns \cup {x} /\ conns' \subseteq Conns /\ opened \subseteq conns'
      BY <1>1, <1>12, <2>1, <2>4 DEF Link, TypeOK
    <3>2. conn' \in [Conns -> {"none", "open", "closing", "closed", "freed"}]
      BY <1>1, <1>12, <2>1, <2>4 DEF Link, TypeOK, Set
    <3>3. QED
      BY <1>1, <1>12, <2>2, <2>4, <3>1, <3>2 DEF Link, TypeOK
  <2>5. QED
    BY <2>3, <2>4
<1>13. ASSUME NEW x \in Exchange, PostRequest(x) PROVE Goal
  BY <1>1, <1>13 DEF PostRequest, TypeOK, Set
<1>14. ASSUME Start PROVE Goal
  BY <1>1, <1>14 DEF Start, TypeOK
<1>15. ASSUME Stop PROVE Goal
  BY <1>1, <1>15 DEF Stop, TypeOK
<1>16. ASSUME Close PROVE Goal
  <2>1. /\ handle' = FALSE
        /\ state' \in {"created", "started", "stopped"}
        /\ at' \in {"user", "send", "http", "pending", "accept", "conns", "wait", "streams", "free"}
        /\ UNCHANGED <<gone, serving, accepts, handler, life, receives, wire, requests, frame, log>>
    BY <1>1, <1>16 DEF Close, TypeOK
  <2>2. QED
    BY <1>1, <2>1 DEF TypeOK
<1>17. ASSUME NEW w \in Ws, WsSend(w) PROVE Goal
  BY <1>1, <1>17 DEF WsSend, TypeOK
<1>18. ASSUME SendDone PROVE Goal
  BY <1>1, <1>18 DEF SendDone, TypeOK
<1>19. ASSUME NEW s \in Streams, StreamSend(s) PROVE Goal
  BY <1>1, <1>19 DEF StreamSend, TypeOK, Set
<1>20. ASSUME NEW c \in Conns, CloseConn(c) PROVE Goal
  <2>1. wire' \in [Streams -> {"blank", "headers", "ended"}]
    BY <1>1, <1>20 DEF CloseConn, TypeOK, Set
  <2>2. /\ conn' \in [Conns -> {"none", "open", "closing", "closed", "freed"}]
        /\ recv' \in [Ws -> {"idle", "pending", "got", "rearm", "failed", "post"}]
    BY <1>1, <1>20 DEF CloseConn, TypeOK, CloseLocked, Aborted
  <2>3. QED
    BY <1>1, <1>20, <2>1, <2>2 DEF CloseConn, TypeOK
<1>21. ASSUME StopHttp PROVE Goal
  BY <1>1, <1>21 DEF StopHttp, TypeOK
<1>22. ASSUME StopPending PROVE Goal
  BY <1>1, <1>22 DEF StopPending, TypeOK
<1>23. ASSUME StopAccept PROVE Goal
  BY <1>1, <1>23 DEF StopAccept, TypeOK
<1>24. ASSUME StopConns PROVE Goal
  BY <1>1, <1>24 DEF StopConns, TypeOK, CloseAll, CloseLocked, Aborted
<1>25. ASSUME StopWait PROVE Goal
  BY <1>1, <1>25 DEF StopWait, TypeOK
<1>26. ASSUME StopStreams PROVE Goal
  BY <1>1, <1>26 DEF StopStreams, TypeOK, CloseAll, CloseLocked, Aborted
<1>27. ASSUME RunOnOpen PROVE Goal
  <2>1. Due("onopen") \/ Due("onrequest")
    BY <1>27 DEF RunOnOpen
  <2>2. Runs(Head(queue).arg, 0) /\ conn[Head(queue).arg] = "open" /\ Pop
        /\ opened' = opened \cup {Head(queue).arg}
    BY <1>27 DEF RunOnOpen
  <2>3. Head(queue) \in Posts /\ Head(queue).arg \in Conns
    BY <1>1, <2>1, <2>2, Taken, PostTypes DEF Due
  <2>4. opened' \subseteq conns
    BY <1>1, <2>2, <2>3 DEF TypeOK, Listed
  <2>5. log' \in [Conns -> Seq(Int)] /\ frame' \in Posts
    BY <1>1, <2>2, <2>3 DEF TypeOK, Runs
  <2>6. QED
    BY <1>1, <1>27, <2>4, <2>5 DEF RunOnOpen, TypeOK
<1>28. ASSUME RunOnMessage PROVE Goal
  <2>1. Head(queue) \in Posts /\ Head(queue).arg \in Conns /\ Head(queue).n \in Int
    BY <1>1, <1>28, Taken, PostTypes DEF RunOnMessage, Due
  <2>2. log' \in [Conns -> Seq(Int)] /\ frame' \in Posts
    BY <1>1, <1>28, <2>1 DEF RunOnMessage, TypeOK, Runs
  <2>3. QED
    BY <1>1, <1>28, <2>2 DEF RunOnMessage, TypeOK
<1>29. ASSUME Skip PROVE Goal
  BY <1>1, <1>29 DEF Skip, TypeOK, Pop
<1>30. ASSUME RunOnClose PROVE Goal
  <2>1. Head(queue) \in Posts /\ Head(queue).arg \in Conns
    BY <1>1, <1>30, Taken, PostTypes DEF RunOnClose, Due
  <2>2. log' \in [Conns -> Seq(Int)] /\ frame' \in Posts
    BY <1>1, <1>30, <2>1 DEF RunOnClose, TypeOK, Runs
  <2>3. QED
    BY <1>1, <1>30, <2>2 DEF RunOnClose, TypeOK
<1>31. ASSUME RunCleanup PROVE Goal
  <2>1. Head(queue) \in Posts /\ Head(queue).arg \in Conns
    BY <1>1, <1>31, Taken, PostTypes DEF RunCleanup, Due
  <2>2. frame' \in Posts
    BY <1>31, <2>1 DEF RunCleanup
  <2>3. QED
    BY <1>1, <1>31, <2>1, <2>2 DEF RunCleanup, Cleanup, Aborted, TypeOK, Set
<1>32. ASSUME RunHandler PROVE Goal
  <2>1. Head(queue) \in Posts
    BY <1>1, <1>32, Taken DEF RunHandler, Due
  <2>2. QED
    BY <1>1, <1>32, <2>1 DEF RunHandler, TypeOK
<1>33. ASSUME FreeServer PROVE Goal
  <2>1. opened' = {} /\ conns' = {} /\ gone' = TRUE /\ serving' = FALSE
    BY <1>1, <1>33 DEF FreeServer, TypeOK
  <2>2. conn' \in [Conns -> {"none", "open", "closing", "closed", "freed"}]
    BY <1>1, <1>33 DEF FreeServer, TypeOK
  <2>3. QED
    BY <1>1, <1>33, <2>1, <2>2 DEF FreeServer, TypeOK
<1>34. ASSUME ReturnOpen PROVE Goal
  BY <1>1, <1>34 DEF ReturnOpen, TypeOK, Set
<1>35. ASSUME ReturnHandler PROVE Goal
  BY <1>1, <1>35, Facts DEF ReturnHandler, TypeOK, Finish, Set
<1>36. ASSUME ReturnClose PROVE Goal
  BY <1>1, <1>36 DEF ReturnClose, TypeOK, Cleanup, Aborted, Set
<1>37. ASSUME Free PROVE Goal
  BY <1>1, <1>37 DEF Free, TypeOK, Set
<1>38. ASSUME Network PROVE Goal
  BY <1>2, <1>5, <1>10, <1>38 DEF Network
<1>39. ASSUME Callback PROVE Goal
  BY <1>3, <1>4, <1>6, <1>7, <1>8, <1>9, <1>11, <1>12, <1>13, <1>39 DEF Callback
<1>40. ASSUME Program PROVE Goal
  BY <1>14, <1>15, <1>16, <1>18, <1>17, <1>19, <1>20, <1>40 DEF Program
<1>41. ASSUME Stopping PROVE Goal
  BY <1>21, <1>22, <1>23, <1>24, <1>25, <1>26, <1>41 DEF Stopping
<1>42. ASSUME Loop PROVE Goal
  BY <1>27, <1>28, <1>29, <1>30, <1>31, <1>32, <1>33, <1>42 DEF Loop
<1>43. ASSUME Return PROVE Goal
  BY <1>34, <1>35, <1>36, <1>37, <1>43 DEF Return
<1>44. QED
  BY <1>38, <1>39, <1>40, <1>41, <1>42, <1>43 DEF Next, Typed

-----------------------------------------------------------------------------
(* What the parts of the actions do.                                         *)

LEMMA Logging ==
  ASSUME Typed, NEW c \in Conns, NEW entry \in Int, Runs(c, entry)
  PROVE  /\ frame' = Head(queue)
         /\ log'[c] # <<>> /\ Last(log'[c]) = entry
         /\ \A d \in Conns : d # c => log'[d] = log[d]
<1>1. log[c] \in Seq(Int) /\ log \in [Conns -> Seq(Int)]
  BY DEF Typed, TypeOK
<1>2. log'[c] = Append(log[c], entry) /\ \A d \in Conns : d # c => log'[d] = log[d]
  BY <1>1 DEF Runs
<1>3. /\ Len(Append(log[c], entry)) = Len(log[c]) + 1 /\ Len(log[c]) \in Nat
      /\ Append(log[c], entry)[Len(log[c]) + 1] = entry
      /\ Append(log[c], entry) # <<>>
  BY <1>1, AppendProperties, LenProperties
<1>4. log'[c] # <<>>
  BY <1>2, <1>3
<1>5. Last(log'[c]) = entry
  BY <1>2, <1>3 DEF Last
<1>6. QED
  BY <1>2, <1>4, <1>5 DEF Runs

LEMMA LastTypes ==
  ASSUME Typed
  PROVE  /\ \A c \in Conns : log[c] # <<>> => Last(log[c]) \in Int
         /\ \A w \in Ws : received[w] \in Int
<1>1. \A c \in Conns : log[c] \in Seq(Int)
  BY DEF Typed, TypeOK
<1>2. \A w \in Ws : received[w] \in 0..MaxMsgs /\ MaxMsgs \in Int
  BY HttpServerAssumption DEF Typed, TypeOK
<1>3. ASSUME NEW s \in Seq(Int), s # <<>> PROVE Last(s) \in Int
  <2>1. Len(s) \in 1..Len(s)
    BY <1>3, EmptySeq, LenProperties
  <2>2. QED
    BY <1>3, <2>1, ElementOfSeq DEF Last
<1>4. QED
  BY <1>1, <1>2, <1>3

LEMMA Closed ==
  ASSUME Typed, NEW cs \in SUBSET Conns, CloseLocked(cs)
  PROVE  /\ \A c \in Conns :
              /\ conn'[c] # conn[c] => c \in cs /\ conn[c] = "open" /\ conn'[c] = "closing"
              /\ c \in cs => conn'[c] # "open"
         /\ \A w \in Ws : recv'[w] # recv[w] =>
              w \in cs /\ conn[w] = "open" /\ recv[w] = "pending" /\ recv'[w] = "failed"
         /\ \A w \in Ws : w \in cs /\ conn[w] = "open" => recv'[w] # "pending"
  BY NotACall DEF CloseLocked, Aborted, Typed, TypeOK

LEMMA CleanedUp ==
  ASSUME Typed, NEW c \in Conns, Cleanup(c)
  PROVE  /\ conn'[c] = "closed" /\ \A d \in Conns : d # c => conn'[d] = conn[d]
         /\ conns' = conns \ {c} /\ opened' = opened \ {c} /\ at' = "free"
         /\ \A w \in Ws : recv'[w] # recv[w] =>
              w = c /\ recv[w] = "pending" /\ recv'[w] = "failed"
  BY DEF Cleanup, Aborted, Set, Typed, TypeOK

-----------------------------------------------------------------------------
(* The invariant is kept by each action.                                     *)

LEMMA AcceptStep ==
  ASSUME LifeInv, NEW w \in Ws, Accept(w), Typed', Ordered(queue, InTurn)'
  PROVE  LifeInv'
<1>1. Typed /\ TypeOK /\ queue \in Seq(Posts) /\ Listed /\ Unmade /\ Opening /\ Logged /\ Ending /\ Numbered
  BY DEF LifeInv, Typed
<1>2. posted' = posted
  BY DEF posted, Accept
<1>3. Listed'
  BY <1>1, <1>2 DEF Accept, Set, Listed, TypeOK
<1>4. Unmade'
  BY <1>1, <1>2, NotACall DEF Accept, Set, Unmade, TypeOK
<1>5. Opening'
  BY <1>1, <1>2, NotACall DEF Accept, Set, Opening, Unmade
<1>6. Logged'
  BY <1>1, <1>2 DEF Accept, Set, Logged
<1>7. Ending'
  BY <1>1, <1>2 DEF Accept, Set, Ending
<1>8. Numbered'
  BY <1>1, <1>2 DEF Accept, Set, Numbered
<1>9. QED
  BY <1>3, <1>4, <1>5, <1>6, <1>7, <1>8 DEF LifeInv

LEMMA PostOpenStep ==
  ASSUME LifeInv, PostOpen, Typed', Ordered(queue, InTurn)'
  PROVE  LifeInv'
<1>1. Typed /\ TypeOK /\ queue \in Seq(Posts) /\ Listed /\ Unmade /\ Opening /\ Logged /\ Ending /\ Numbered
  BY DEF LifeInv, Typed
<1>2. posted' = posted \cup {Call("onopen", accepted, 0)}
  BY <1>1, Later, CallTypes DEF posted, PostOpen, TypeOK, Unmade
<1>3. Listed'
  BY <1>1, <1>2 DEF PostOpen, Listed
<1>4. Unmade'
  BY <1>1, <1>2, NotACall DEF PostOpen, Unmade, Call
<1>5. Opening'
  BY <1>1, <1>2, NotACall DEF PostOpen, Opening, Call
<1>6. Logged'
  BY <1>1, <1>2, NotACall DEF PostOpen, Logged, Call
<1>7. Ending'
  BY <1>1, <1>2, NotACall DEF PostOpen, Ending, Call
<1>8. Numbered'
  BY <1>1, <1>2, NotACall DEF PostOpen, Numbered, Call
<1>9. QED
  BY <1>3, <1>4, <1>5, <1>6, <1>7, <1>8 DEF LifeInv

LEMMA RecvDoneStep ==
  ASSUME LifeInv, NEW w \in Ws, RecvDone(w), Typed', Ordered(queue, InTurn)'
  PROVE  LifeInv'
<1>1. Typed /\ TypeOK /\ queue \in Seq(Posts) /\ Listed /\ Unmade /\ Opening /\ Logged /\ Ending /\ Numbered
  BY DEF LifeInv, Typed
<1>2. posted' = posted
  BY DEF posted, RecvDone
<1>3. Listed'
  BY <1>1, <1>2 DEF RecvDone, Set, Listed
<1>4. Unmade'
  BY <1>1, <1>2 DEF RecvDone, Set, Unmade
<1>5. Opening'
  BY <1>1, <1>2 DEF RecvDone, Set, Opening
<1>6. Logged'
  BY <1>1, <1>2 DEF RecvDone, Set, Logged, TypeOK
<1>7. Ending'
  BY <1>1, <1>2 DEF RecvDone, Set, Ending, TypeOK
<1>8. Numbered'
  <2>1. ASSUME NEW v \in Ws, log'[v] # <<>> PROVE Last(log'[v]) <= received'[v] /\ (recv'[v] = "got" => Last(log'[v]) < received'[v])
    <3>1. Last(log[v]) \in Int /\ received[v] \in Int /\ log'[v] = log[v]
      BY <1>1, <2>1, LastTypes, NotACall DEF RecvDone
    <3>2. Last(log[v]) <= received[v]
      BY <1>1, <2>1 DEF RecvDone, Numbered
    <3>3. CASE v # w
      BY <1>1, <2>1, <3>3 DEF RecvDone, Numbered, Set, TypeOK
    <3>4. CASE v = w /\ received' = Set(received, w, received[w] + 1)
      <4>1. received'[v] = received[v] + 1
        BY <1>1, <3>4 DEF Set, TypeOK
      <4>2. QED
        BY <3>1, <3>2, <4>1
    <3>5. CASE v = w /\ UNCHANGED received /\ recv' = Set(recv, w, "failed")
      <4>1. recv'[v] # "got"
        BY <1>1, <3>5 DEF Set, TypeOK
      <4>2. QED
        BY <3>1, <3>2, <3>5, <4>1
    <3>6. QED
      BY <3>3, <3>4, <3>5 DEF RecvDone
  <2>2. ASSUME NEW v \in Ws, recv'[v] = "got" PROVE received'[v] # 0
    <3>1. received[w] \in Nat
      BY <1>1, HttpServerAssumption DEF TypeOK
    <3>2. QED
      BY <1>1, <2>2, <3>1 DEF RecvDone, Numbered, Set, TypeOK
  <2>3. ASSUME NEW e \in posted', e.fn = "onmessage"
        PROVE  /\ Last(log'[e.arg]) < e.n /\ e.n <= received'[e.arg]
               /\ recv'[e.arg] = "got" => e.n < received'[e.arg]
    <3>1. e \in posted /\ e.arg \in Ws /\ e.n \in 1..MaxMsgs /\ MaxMsgs \in Nat
      BY <1>1, <1>2, <2>3, Facts, HttpServerAssumption
    <3>2. /\ Last(log[e.arg]) < e.n /\ e.n <= received[e.arg] /\ log' = log
          /\ received[e.arg] \in Int /\ e.n \in Int
          /\ recv[e.arg] = "got" => e.n < received[e.arg]
      BY <1>1, <2>3, <3>1, LastTypes DEF RecvDone, Numbered
    <3>3. \/ received'[e.arg] = received[e.arg] + 1
          \/ received'[e.arg] = received[e.arg] /\ (recv'[e.arg] = "got" => recv[e.arg] = "got")
      BY <1>1, <3>1 DEF RecvDone, Set, TypeOK
    <3>4. QED
      BY <3>2, <3>3
  <2>4. QED
    BY <2>1, <2>2, <2>3 DEF Numbered
<1>9. QED
  BY <1>3, <1>4, <1>5, <1>6, <1>7, <1>8 DEF LifeInv

LEMMA PostMessageStep ==
  ASSUME LifeInv, NEW w \in Ws, PostMessage(w), Typed', Ordered(queue, InTurn)'
  PROVE  LifeInv'
<1>1. Typed /\ TypeOK /\ queue \in Seq(Posts) /\ Listed /\ Unmade /\ Opening /\ Logged /\ Ending /\ Numbered
  BY DEF LifeInv, Typed
<1>2. posted' = posted \/ posted' = posted \cup {Call("onmessage", w, received[w])}
  <2>1. received[w] \in 1..MaxMsgs
    BY <1>1, HttpServerAssumption DEF PostMessage, Numbered, TypeOK
  <2>2. Call("onmessage", w, received[w]) \in Posts
    BY <2>1, CallTypes
  <2>3. QED
    BY <1>1, <2>2, Later DEF PostMessage, posted
<1>3. Listed'
  BY <1>1, <1>2 DEF PostMessage, Set, Listed
<1>4. Unmade'
  BY <1>1, <1>2, NotACall DEF PostMessage, Set, Unmade, Call, Logged
<1>5. Opening'
  BY <1>1, <1>2, NotACall DEF PostMessage, Set, Opening, Call, Logged, Unmade
<1>6. Logged'
  BY <1>1, <1>2, NotACall DEF PostMessage, Set, Logged, Call
<1>7. Ending'
  BY <1>1, <1>2, NotACall DEF PostMessage, Set, Ending, Call
<1>8. Numbered'
  <2>1. ASSUME NEW v \in Ws, log'[v] # <<>> PROVE Last(log'[v]) <= received'[v] /\ (recv'[v] = "got" => Last(log'[v]) < received'[v])
    BY <1>1, <2>1 DEF PostMessage, Numbered, Set, TypeOK
  <2>2. ASSUME NEW v \in Ws, recv'[v] = "got" PROVE received'[v] # 0
    BY <1>1, <2>2 DEF PostMessage, Numbered, Set, TypeOK
  <2>3. ASSUME NEW e \in posted', e.fn = "onmessage"
        PROVE  /\ Last(log'[e.arg]) < e.n /\ e.n <= received'[e.arg]
               /\ recv'[e.arg] = "got" => e.n < received'[e.arg]
    <3>1. CASE e \in posted
      BY <1>1, <2>3, <3>1, Facts DEF PostMessage, Numbered, Set, TypeOK
    <3>2. CASE e = Call("onmessage", w, received[w])
      <4>1. e.arg = w /\ e.n = received[w] /\ recv'[w] = "rearm" /\ received' = received /\ log' = log
        BY <1>1, <3>2 DEF PostMessage, Call, Set, TypeOK
      <4>2. Last(log[w]) < received[w] /\ received[w] \in Int
        BY <1>1, LastTypes DEF PostMessage, Numbered, Logged
      <4>3. QED
        BY <4>1, <4>2
    <3>3. QED
      BY <1>2, <3>1, <3>2
  <2>4. QED
    BY <2>1, <2>2, <2>3 DEF Numbered
<1>9. QED
  BY <1>3, <1>4, <1>5, <1>6, <1>7, <1>8 DEF LifeInv

LEMMA RecvAgainStep ==
  ASSUME LifeInv, NEW w \in Ws, RecvAgain(w), Typed', Ordered(queue, InTurn)'
  PROVE  LifeInv'
<1>1. Typed /\ TypeOK /\ queue \in Seq(Posts) /\ Listed /\ Unmade /\ Opening /\ Logged /\ Ending /\ Numbered
  BY DEF LifeInv, Typed
<1>2. posted' = posted
  BY DEF posted, RecvAgain
<1>3. Listed'
  BY <1>1, <1>2 DEF RecvAgain, Set, Listed
<1>4. Unmade'
  BY <1>1, <1>2 DEF RecvAgain, Set, Unmade
<1>5. Opening'
  BY <1>1, <1>2 DEF RecvAgain, Set, Opening
<1>6. Logged'
  BY <1>1, <1>2 DEF RecvAgain, Set, Logged
<1>7. Ending'
  BY <1>1, <1>2 DEF RecvAgain, Set, Ending
<1>8. Numbered'
  BY <1>1, <1>2 DEF RecvAgain, Set, Numbered
<1>9. QED
  BY <1>3, <1>4, <1>5, <1>6, <1>7, <1>8 DEF LifeInv

LEMMA RecvCloseStep ==
  ASSUME LifeInv, NEW w \in Ws, RecvClose(w), Typed', Ordered(queue, InTurn)'
  PROVE  LifeInv'
<1>1. Typed /\ TypeOK /\ queue \in Seq(Posts) /\ Listed /\ Unmade /\ Opening /\ Logged /\ Ending /\ Numbered
  BY DEF LifeInv, Typed
<1>2. posted' = posted
  BY DEF posted, RecvClose
<1>3. Listed'
  BY <1>1, <1>2 DEF RecvClose, Set, Listed, TypeOK, Logged, Unmade
<1>4. Unmade'
  BY <1>1, <1>2 DEF RecvClose, Set, Unmade
<1>5. Opening'
  BY <1>1, <1>2 DEF RecvClose, Set, Opening
<1>6. Logged'
  BY <1>1, <1>2 DEF RecvClose, Set, Logged
<1>7. Ending'
  BY <1>1, <1>2 DEF RecvClose, Set, Ending
<1>8. Numbered'
  BY <1>1, <1>2 DEF RecvClose, Set, Numbered
<1>9. QED
  BY <1>3, <1>4, <1>5, <1>6, <1>7, <1>8 DEF LifeInv

LEMMA PostCloseStep ==
  ASSUME LifeInv, NEW w \in Ws, PostClose(w), Typed', Ordered(queue, InTurn)'
  PROVE  LifeInv'
<1>1. Typed /\ TypeOK /\ queue \in Seq(Posts) /\ Listed /\ Unmade /\ Opening /\ Logged /\ Ending /\ Numbered
  BY DEF LifeInv, Typed
<1>2. posted' = posted \cup {Call("onclose", w, 0)}
  BY <1>1, Later, CallTypes, NotACall DEF PostClose
<1>3. Listed'
  BY <1>1, <1>2 DEF PostClose, Set, Listed
<1>4. Unmade'
  BY <1>1, <1>2, NotACall DEF PostClose, Set, Unmade, Call, Logged
<1>5. Opening'
  BY <1>1, <1>2, NotACall DEF PostClose, Set, Opening, Call, Logged, Unmade
<1>6. Logged'
  BY <1>1, <1>2, NotACall DEF PostClose, Set, Logged, Call
<1>7. Ending'
  BY <1>1, <1>2, NotACall DEF PostClose, Set, Ending, Call
<1>8. Numbered'
  BY <1>1, <1>2, NotACall DEF PostClose, Set, Numbered, Call
<1>9. QED
  BY <1>3, <1>4, <1>5, <1>6, <1>7, <1>8 DEF LifeInv

LEMMA LinkStep ==
  ASSUME LifeInv, NEW x \in Exchange, Link(x), Typed', Ordered(queue, InTurn)'
  PROVE  LifeInv'
<1>1. Typed /\ TypeOK /\ queue \in Seq(Posts) /\ Listed /\ Unmade /\ Opening /\ Logged /\ Ending /\ Numbered
  BY DEF LifeInv, Typed
<1>2. posted' = posted
  BY DEF posted, Link
<1>3. Listed'
  BY <1>1, <1>2, Facts, NotACall DEF Link, Set, Exchange, Listed, TypeOK, Unmade
<1>4. Unmade'
  BY <1>1, <1>2, NotACall DEF Link, Set, Exchange, Unmade, TypeOK
<1>5. Opening'
  BY <1>1, <1>2, NotACall DEF Link, Set, Exchange, Opening, Unmade
<1>6. Logged'
  BY <1>1, <1>2 DEF Link, Set, Exchange, Logged
<1>7. Ending'
  BY <1>1, <1>2 DEF Link, Set, Exchange, Ending, TypeOK, Unmade
<1>8. Numbered'
  BY <1>1, <1>2 DEF Link, Set, Exchange, Numbered
<1>9. QED
  BY <1>3, <1>4, <1>5, <1>6, <1>7, <1>8 DEF LifeInv

LEMMA PostRequestStep ==
  ASSUME LifeInv, NEW x \in Exchange, PostRequest(x), Typed', Ordered(queue, InTurn)'
  PROVE  LifeInv'
<1>1. Typed /\ TypeOK /\ queue \in Seq(Posts) /\ Listed /\ Unmade /\ Opening /\ Logged /\ Ending /\ Numbered
  BY DEF LifeInv, Typed
<1>2. \E e \in Posts : later2(e) /\ posted' = posted \cup {e} /\ e.arg = x
        /\ e.fn = IF x \in Reqs THEN "handler" ELSE "onrequest"
  <2> DEFINE e == Call(IF x \in Reqs THEN "handler" ELSE "onrequest", x, 0)
  <2>1. e \in Posts
    BY CallTypes DEF Exchange
  <2>2. later2(e) /\ e.arg = x /\ e.fn = IF x \in Reqs THEN "handler" ELSE "onrequest"
    BY DEF PostRequest, Call
  <2>3. QED
    BY <1>1, <2>1, <2>2, Later
<1>3. Listed'
  BY <1>1, <1>2 DEF PostRequest, Set, Exchange, Listed
<1>4. Unmade'
  <2>1. accepted' = accepted /\ accept' = accept /\ UNCHANGED <<conn, log, frame>>
    BY DEF PostRequest
  <2>2. ASSUME NEW s \in Streams
        PROVE  /\ handler'[s] \in {"none", "called", "checked"} => conn[s] = "none"
               /\ handler'[s] = "linked" => conn[s] # "none"
    BY <1>1, <2>2 DEF PostRequest, Unmade, TypeOK, Set
  <2>3. \A c \in Conns : conn[c] = "none" => c # x
    BY <1>1, NotACall DEF PostRequest, Unmade, Exchange
  <2>4. QED
    BY <1>1, <1>2, <2>1, <2>2, <2>3 DEF Unmade
<1>5. Opening'
  BY <1>1, <1>2, NotACall DEF PostRequest, Set, Exchange, Opening, TypeOK
<1>6. Logged'
  BY <1>1, <1>2 DEF PostRequest, Set, Exchange, Logged
<1>7. Ending'
  BY <1>1, <1>2 DEF PostRequest, Set, Exchange, Ending
<1>8. Numbered'
  BY <1>1, <1>2 DEF PostRequest, Set, Exchange, Numbered
<1>9. QED
  BY <1>3, <1>4, <1>5, <1>6, <1>7, <1>8 DEF LifeInv

LEMMA CloseStep ==
  ASSUME LifeInv, Close, Typed', Ordered(queue, InTurn)'
  PROVE  LifeInv'
<1>1. Typed /\ TypeOK /\ queue \in Seq(Posts) /\ Listed /\ Unmade /\ Opening /\ Logged /\ Ending /\ Numbered
  BY DEF LifeInv, Typed
<1>2. posted' = posted \/ posted' = posted \cup {Call("cleanup", Top, 0)}
  BY <1>1, Later, CallTypes DEF posted, Close, TypeOK, Unmade
<1>3. Listed'
  BY <1>1, <1>2 DEF Close, Listed
<1>4. Unmade'
  BY <1>1, <1>2, NotACall DEF Close, Unmade, Call
<1>5. Opening'
  BY <1>1, <1>2, NotACall DEF Close, Opening, Call, Unmade
<1>6. Logged'
  BY <1>1, <1>2, NotACall DEF Close, Logged, Call
<1>7. Ending'
  BY <1>1, <1>2, NotACall DEF Close, Ending, Call
<1>8. Numbered'
  BY <1>1, <1>2, NotACall DEF Close, Numbered, Call
<1>9. QED
  BY <1>3, <1>4, <1>5, <1>6, <1>7, <1>8 DEF LifeInv

LEMMA CloseConnStep ==
  ASSUME LifeInv, NEW c \in Conns, CloseConn(c), Typed', Ordered(queue, InTurn)'
  PROVE  LifeInv'
<1>1. Typed /\ TypeOK /\ queue \in Seq(Posts) /\ Listed /\ Unmade /\ Opening /\ Logged /\ Ending /\ Numbered
  BY DEF LifeInv, Typed
<1>2. posted' = posted \/ posted' = posted \cup {Call("onclose", c, 0)}
  BY <1>1, Later, CallTypes DEF posted, CloseConn, TypeOK, Unmade
<1>3. /\ \A d \in Conns :
           /\ conn'[d] # conn[d] => d = c /\ conn[d] = "open" /\ conn'[d] = "closing"
           /\ d = c => conn'[d] # "open"
      /\ \A w \in Ws : recv'[w] # recv[w] =>
           w = c /\ conn[w] = "open" /\ recv[w] = "pending" /\ recv'[w] = "failed"
  <2>1. {c} \in SUBSET Conns
    OBVIOUS
  <2>2. QED
    BY <1>1, <2>1, Closed DEF CloseConn
<1>4. Listed'
  BY <1>1, <1>2, <1>3, Facts, NotACall DEF CloseConn, Listed, TypeOK
<1>5. Unmade'
  BY <1>1, <1>2, <1>3, NotACall DEF CloseConn, Unmade, TypeOK, Call, Logged
<1>6. Opening'
  BY <1>1, <1>2, <1>3, NotACall DEF CloseConn, Opening, Call, Logged, Unmade
<1>7. Logged'
  BY <1>1, <1>2, <1>3, NotACall DEF CloseConn, Logged, Call
<1>8. Ending'
  BY <1>1, <1>2, <1>3, NotACall DEF CloseConn, Ending, Call
<1>9. Numbered'
  BY <1>1, <1>2, <1>3, Facts, NotACall DEF CloseConn, Numbered, Call
<1>10. QED
  BY <1>4, <1>5, <1>6, <1>7, <1>8, <1>9 DEF LifeInv

LEMMA StopConnsStep ==
  ASSUME LifeInv, StopConns, Typed', Ordered(queue, InTurn)'
  PROVE  LifeInv'
<1>1. Typed /\ TypeOK /\ queue \in Seq(Posts) /\ Listed /\ Unmade /\ Opening /\ Logged /\ Ending /\ Numbered
  BY DEF LifeInv, Typed
<1>2. \A e \in posted' :
        \/ e \in posted
        \/ e.fn = "onclose" /\ e.arg \in conns \cap Ws
        \/ e.fn = "cleanup" /\ e.arg = Top
  <2>1. conns \cap Ws \in SUBSET Conns
    BY <1>1 DEF TypeOK
  <2>2. PICK last \in {<<>>, <<Call("cleanup", Top, 0)>>} : CloseAll(conns \cap Ws, last)
    BY DEF StopConns
  <2>3. /\ posted' = posted \cup {Call("onclose", c, 0) : c \in (conns \cap Ws) \ scheduled} \cup Elements(last)
        /\ Elements(<<>>) = {} /\ Elements(<<Call("cleanup", Top, 0)>>) = {Call("cleanup", Top, 0)}
    BY <1>1, <2>1, <2>2, ClosedAll
  <2>4. QED
    BY <2>2, <2>3 DEF Call
<1>3. /\ \A c \in Conns :
           /\ conn'[c] # conn[c] => c \in conns \cap Ws /\ conn[c] = "open" /\ conn'[c] = "closing"
           /\ c \in conns \cap Ws => conn'[c] # "open"
      /\ \A w \in Ws : recv'[w] # recv[w] =>
           w \in conns \cap Ws /\ conn[w] = "open" /\ recv[w] = "pending" /\ recv'[w] = "failed"
      /\ scheduled' = scheduled \cup (conns \cap Ws) /\ UNCHANGED <<conns, opened, received>>
  <2>1. conns \cap Ws \in SUBSET Conns
    BY <1>1 DEF TypeOK
  <2>2. QED
    BY <1>1, <2>1, Closed DEF StopConns, CloseAll
<1>4. Listed'
  BY <1>1, <1>2, <1>3 DEF StopConns, Listed
<1>5. Unmade'
  <2>1. UNCHANGED <<accept, accepted, handler, log, frame>>
    BY DEF StopConns
  <2>2. \A c \in Conns : conn'[c] = "none" <=> conn[c] = "none"
    BY <1>3
  <2>3. \A e \in posted', c \in Conns : conn[c] = "none" /\ e.arg = c => e \in posted
    BY <1>1, <1>2, NotACall DEF Listed
  <2>4. accept = "linked" => accepted \in Conns
    BY <1>1, NotACall DEF Unmade, TypeOK
  <2>5. QED
    BY <1>1, <2>1, <2>2, <2>3, <2>4, NotACall DEF Unmade
<1>6. Opening'
  BY <1>1, <1>2, <1>3 DEF StopConns, Opening, Unmade
<1>7. Logged'
  <2>1. UNCHANGED <<opened, log, frame>>
    BY <1>3 DEF StopConns
  <2>2. \A v \in Ws : recv'[v] # "idle" => recv[v] # "idle"
    BY <1>3
  <2>3. \A e \in posted' : e.fn = "onmessage" => e \in posted
    BY <1>2
  <2>4. QED
    BY <1>1, <2>1, <2>2, <2>3 DEF Logged
<1>8. Ending'
  BY <1>1, <1>2, <1>3 DEF StopConns, Ending
<1>9. Numbered'
  BY <1>1, <1>2, <1>3, Facts DEF StopConns, Numbered
<1>10. QED
  BY <1>4, <1>5, <1>6, <1>7, <1>8, <1>9 DEF LifeInv

LEMMA StopStreamsStep ==
  ASSUME LifeInv, StopStreams, Typed', Ordered(queue, InTurn)'
  PROVE  LifeInv'
<1>1. Typed /\ TypeOK /\ queue \in Seq(Posts) /\ Listed /\ Unmade /\ Opening /\ Logged /\ Ending /\ Numbered
  BY DEF LifeInv, Typed
<1>2. \A e \in posted' :
        \/ e \in posted
        \/ e.fn = "onclose" /\ e.arg \in conns \cap Streams
        \/ e.fn = "cleanup" /\ e.arg = Top
  <2>1. conns \cap Streams \in SUBSET Conns
    BY <1>1 DEF TypeOK
  <2>2. PICK last \in {<<>>, <<Call("cleanup", Top, 0)>>} : CloseAll(conns \cap Streams, last)
    BY DEF StopStreams
  <2>3. /\ posted' = posted \cup {Call("onclose", c, 0) : c \in (conns \cap Streams) \ scheduled} \cup Elements(last)
        /\ Elements(<<>>) = {} /\ Elements(<<Call("cleanup", Top, 0)>>) = {Call("cleanup", Top, 0)}
    BY <1>1, <2>1, <2>2, ClosedAll
  <2>4. QED
    BY <2>2, <2>3 DEF Call
<1>3. /\ \A c \in Conns :
           /\ conn'[c] # conn[c] => c \in conns \cap Streams /\ conn[c] = "open" /\ conn'[c] = "closing"
           /\ c \in conns \cap Streams => conn'[c] # "open"
      /\ \A w \in Ws : recv'[w] # recv[w] =>
           w \in conns \cap Streams /\ conn[w] = "open" /\ recv[w] = "pending" /\ recv'[w] = "failed"
      /\ scheduled' = scheduled \cup (conns \cap Streams) /\ UNCHANGED <<conns, opened, received>>
  <2>1. conns \cap Streams \in SUBSET Conns
    BY <1>1 DEF TypeOK
  <2>2. QED
    BY <1>1, <2>1, Closed DEF StopStreams, CloseAll
<1>4. Listed'
  BY <1>1, <1>2, <1>3 DEF StopStreams, Listed
<1>5. Unmade'
  <2>1. UNCHANGED <<accept, accepted, handler, log, frame>>
    BY DEF StopStreams
  <2>2. \A c \in Conns : conn'[c] = "none" <=> conn[c] = "none"
    BY <1>3
  <2>3. \A e \in posted', c \in Conns : conn[c] = "none" /\ e.arg = c => e \in posted
    BY <1>1, <1>2, NotACall DEF Listed
  <2>4. accept = "linked" => accepted \in Conns
    BY <1>1, NotACall DEF Unmade, TypeOK
  <2>5. QED
    BY <1>1, <2>1, <2>2, <2>3, <2>4, NotACall DEF Unmade
<1>6. Opening'
  <2>1. UNCHANGED <<state, accept, accepted, handler, log>> /\ at' # "conns"
    BY DEF StopStreams
  <2>2. accept = "linked" => \A e \in posted' : e.arg # accepted
    <3>1. accept = "linked" => accepted \in Ws
      BY <1>1 DEF TypeOK, Unmade
    <3>2. QED
      BY <1>1, <1>2, <3>1, NotACall DEF Opening
  <2>3. \A e \in posted' : e.fn = "onrequest" \/ e.fn = "onopen" => e \in posted
    BY <1>2
  <2>4. QED
    BY <1>1, <2>1, <2>2, <2>3 DEF Opening
<1>7. Logged'
  BY <1>1, <1>2, <1>3 DEF StopStreams, Logged
<1>8. Ending'
  BY <1>1, <1>2, <1>3 DEF StopStreams, Ending
<1>9. Numbered'
  BY <1>1, <1>2, <1>3, Facts DEF StopStreams, Numbered
<1>10. QED
  BY <1>4, <1>5, <1>6, <1>7, <1>8, <1>9 DEF LifeInv

LEMMA RunOnOpenStep ==
  ASSUME LifeInv, RunOnOpen, Typed', Ordered(queue, InTurn)'
  PROVE  LifeInv'
<1>1. Typed /\ TypeOK /\ queue \in Seq(Posts) /\ Listed /\ Unmade /\ Opening /\ Logged /\ Ending /\ Numbered
  BY DEF LifeInv, Typed
<1>2. /\ Head(queue) \in Posts /\ Head(queue) \in posted /\ posted' \subseteq posted
      /\ \A e \in posted' : e \in InTurn[Head(queue)]
  BY <1>1, Taken DEF LifeInv, RunOnOpen, Due
<1>3. /\ Head(queue).arg \in Conns /\ frame' = Head(queue)
      /\ log'[Head(queue).arg] # <<>> /\ Last(log'[Head(queue).arg]) = 0
      /\ \A d \in Conns : d # Head(queue).arg => log'[d] = log[d]
  <2>1. Head(queue).arg \in Conns /\ 0 \in Int
    BY <1>2, PostTypes DEF RunOnOpen, Due
  <2>2. Runs(Head(queue).arg, 0)
    BY DEF RunOnOpen
  <2>3. QED
    BY <1>1, <2>1, <2>2, Logging
<1>4. Listed'
  BY <1>1, <1>2, <1>3 DEF RunOnOpen, Due, Listed
<1>5. Unmade'
  BY <1>1, <1>2, <1>3 DEF RunOnOpen, Due, Unmade
<1>6. Opening'
  BY <1>1, <1>2, <1>3, Facts, NotACall DEF RunOnOpen, Due, Opening, TypeOK, InTurn, Unmade
<1>7. Logged'
  BY <1>1, <1>2, <1>3, Facts, NotACall DEF RunOnOpen, Due, Logged, TypeOK
<1>8. Ending'
  BY <1>1, <1>2, <1>3, Facts DEF RunOnOpen, Due, Ending
<1>9. Numbered'
  <2>1. ASSUME NEW v \in Ws, log'[v] # <<>> PROVE Last(log'[v]) <= received'[v] /\ (recv'[v] = "got" => Last(log'[v]) < received'[v])
    <3>1. UNCHANGED <<recv, received>> /\ received[v] \in Nat
      BY <1>1, HttpServerAssumption DEF RunOnOpen, TypeOK
    <3>2. CASE v = Head(queue).arg
      <4>1. Last(log'[v]) = 0 /\ recv[v] # "got"
        BY <1>1, <1>2, <1>3, <3>2 DEF RunOnOpen, Due, Opening, Logged
      <4>2. QED
        BY <3>1, <4>1
    <3>3. CASE v # Head(queue).arg
      <4>1. log'[v] = log[v]
        BY <1>3, <3>3, NotACall
      <4>2. QED
        BY <1>1, <2>1, <3>1, <4>1 DEF Numbered
    <3>4. QED
      BY <3>2, <3>3
  <2>2. ASSUME NEW v \in Ws, recv'[v] = "got" PROVE received'[v] # 0
    BY <1>1, <2>2 DEF RunOnOpen, Numbered
  <2>3. ASSUME NEW e \in posted', e.fn = "onmessage"
        PROVE  /\ Last(log'[e.arg]) < e.n /\ e.n <= received'[e.arg]
               /\ recv'[e.arg] = "got" => e.n < received'[e.arg]
    <3>1. e \in posted /\ e.arg \in Conns /\ log[e.arg] # <<>>
      BY <1>1, <1>2, <2>3, Facts, NotACall DEF Logged
    <3>2. e.arg # Head(queue).arg
      BY <1>1, <1>2, <3>1 DEF RunOnOpen, Due, Opening
    <3>3. log'[e.arg] = log[e.arg] /\ UNCHANGED <<recv, received>>
      BY <1>3, <3>1, <3>2 DEF RunOnOpen
    <3>4. QED
      BY <1>1, <2>3, <3>1, <3>3 DEF Numbered
  <2>4. QED
    BY <2>1, <2>2, <2>3 DEF Numbered
<1>10. QED
  BY <1>4, <1>5, <1>6, <1>7, <1>8, <1>9 DEF LifeInv

LEMMA RunOnMessageStep ==
  ASSUME LifeInv, RunOnMessage, Typed', Ordered(queue, InTurn)'
  PROVE  LifeInv'
<1>1. Typed /\ TypeOK /\ queue \in Seq(Posts) /\ Listed /\ Unmade /\ Opening /\ Logged /\ Ending /\ Numbered
  BY DEF LifeInv, Typed
<1>2. /\ Head(queue) \in Posts /\ Head(queue) \in posted /\ posted' \subseteq posted
      /\ \A e \in posted' : e \in InTurn[Head(queue)]
  BY <1>1, Taken DEF LifeInv, RunOnMessage, Due
<1>3. /\ Head(queue).arg \in Conns /\ frame' = Head(queue)
      /\ log'[Head(queue).arg] # <<>> /\ Last(log'[Head(queue).arg]) = Head(queue).n
      /\ \A d \in Conns : d # Head(queue).arg => log'[d] = log[d]
  <2>1. Head(queue).arg \in Conns /\ Head(queue).n \in Int
    BY <1>2, PostTypes DEF RunOnMessage, Due
  <2>2. Runs(Head(queue).arg, Head(queue).n)
    BY DEF RunOnMessage
  <2>3. QED
    BY <1>1, <2>1, <2>2, Logging
<1>4. Listed'
  BY <1>1, <1>2, <1>3 DEF RunOnMessage, Due, Listed
<1>5. Unmade'
  BY <1>1, <1>2, <1>3 DEF RunOnMessage, Due, Unmade
<1>6. Opening'
  BY <1>1, <1>2, <1>3, Facts, NotACall DEF RunOnMessage, Due, Opening, TypeOK, Logged, Unmade
<1>7. Logged'
  BY <1>1, <1>2, <1>3, Facts, NotACall DEF RunOnMessage, Due, Logged, TypeOK
<1>8. Ending'
  BY <1>1, <1>2, <1>3, Facts, NotACall DEF RunOnMessage, Due, Ending
<1>9. Numbered'
  <2>1. ASSUME NEW v \in Ws, log'[v] # <<>> PROVE Last(log'[v]) <= received'[v] /\ (recv'[v] = "got" => Last(log'[v]) < received'[v])
    <3>1. UNCHANGED <<recv, received>>
      BY DEF RunOnMessage
    <3>2. CASE v = Head(queue).arg
      <4>1. Head(queue).n <= received[v] /\ (recv[v] = "got" => Head(queue).n < received[v])
        BY <1>1, <1>2, <3>2 DEF RunOnMessage, Due, Numbered
      <4>2. QED
        BY <1>3, <3>1, <3>2, <4>1
    <3>3. CASE v # Head(queue).arg
      <4>1. log'[v] = log[v]
        BY <1>3, <3>3, NotACall
      <4>2. QED
        BY <1>1, <2>1, <3>1, <4>1 DEF Numbered
    <3>4. QED
      BY <3>2, <3>3
  <2>2. ASSUME NEW v \in Ws, recv'[v] = "got" PROVE received'[v] # 0
    BY <1>1, <2>2 DEF RunOnMessage, Numbered
  <2>3. ASSUME NEW e \in posted', e.fn = "onmessage"
        PROVE  /\ Last(log'[e.arg]) < e.n /\ e.n <= received'[e.arg]
               /\ recv'[e.arg] = "got" => e.n < received'[e.arg]
    <3>1. e \in posted /\ e.arg \in Conns /\ UNCHANGED <<recv, received>>
      BY <1>1, <1>2, <2>3, Facts, NotACall DEF RunOnMessage
    <3>2. Last(log[e.arg]) < e.n /\ e.n <= received[e.arg] /\ (recv[e.arg] = "got" => e.n < received[e.arg])
      BY <1>1, <2>3, <3>1 DEF Numbered
    <3>3. CASE e.arg = Head(queue).arg
      <4>1. Head(queue).fn = "onmessage" /\ Head(queue).n < e.n
        BY <1>2, <2>3, <3>3 DEF RunOnMessage, Due, InTurn
      <4>2. QED
        BY <1>3, <3>1, <3>2, <3>3, <4>1
    <3>4. CASE e.arg # Head(queue).arg
      BY <1>3, <3>1, <3>2, <3>4
    <3>5. QED
      BY <3>3, <3>4
  <2>4. QED
    BY <2>1, <2>2, <2>3 DEF Numbered
<1>10. QED
  BY <1>4, <1>5, <1>6, <1>7, <1>8, <1>9 DEF LifeInv

LEMMA SkipStep ==
  ASSUME LifeInv, Skip, Typed', Ordered(queue, InTurn)'
  PROVE  LifeInv'
<1>1. Typed /\ TypeOK /\ queue \in Seq(Posts) /\ Listed /\ Unmade /\ Opening /\ Logged /\ Ending /\ Numbered
  BY DEF LifeInv, Typed
<1>2. /\ Head(queue) \in Posts /\ Head(queue) \in posted /\ posted' \subseteq posted
      /\ \A e \in posted' : e \in InTurn[Head(queue)]
  BY <1>1, Taken DEF LifeInv, Skip, Due
<1>3. Listed'
  BY <1>1, <1>2 DEF Skip, Due, Listed
<1>4. Unmade'
  BY <1>1, <1>2 DEF Skip, Due, Unmade
<1>5. Opening'
  BY <1>1, <1>2 DEF Skip, Due, Opening
<1>6. Logged'
  BY <1>1, <1>2 DEF Skip, Due, Logged
<1>7. Ending'
  BY <1>1, <1>2 DEF Skip, Due, Ending
<1>8. Numbered'
  BY <1>1, <1>2 DEF Skip, Due, Numbered
<1>9. QED
  BY <1>3, <1>4, <1>5, <1>6, <1>7, <1>8 DEF LifeInv

LEMMA RunOnCloseStep ==
  ASSUME LifeInv, RunOnClose, Typed', Ordered(queue, InTurn)'
  PROVE  LifeInv'
<1>1. Typed /\ TypeOK /\ queue \in Seq(Posts) /\ Listed /\ Unmade /\ Opening /\ Logged /\ Ending /\ Numbered
  BY DEF LifeInv, Typed
<1>2. /\ Head(queue) \in Posts /\ Head(queue) \in posted /\ posted' \subseteq posted
      /\ \A e \in posted' : e \in InTurn[Head(queue)]
  BY <1>1, Taken DEF LifeInv, RunOnClose, Due
<1>3. /\ Head(queue).arg \in Conns /\ frame' = Head(queue)
      /\ log'[Head(queue).arg] # <<>> /\ Last(log'[Head(queue).arg]) = -1
      /\ \A d \in Conns : d # Head(queue).arg => log'[d] = log[d]
  <2>1. Head(queue).arg \in Conns /\ -1 \in Int
    BY <1>2, PostTypes DEF RunOnClose, Due
  <2>2. Runs(Head(queue).arg, -1)
    BY DEF RunOnClose
  <2>3. QED
    BY <1>1, <2>1, <2>2, Logging
<1>4. Listed'
  BY <1>1, <1>2, <1>3 DEF RunOnClose, Due, Listed
<1>5. Unmade'
  BY <1>1, <1>2, <1>3 DEF RunOnClose, Due, Unmade
<1>6. Opening'
  <2> DEFINE c == Head(queue).arg
  <2>1. /\ Head(queue).fn = "onclose" /\ c \in opened
        /\ UNCHANGED <<state, at, accept, accepted, handler>>
    BY DEF RunOnClose, Due
  <2>2. log[c] # <<>>
    BY <2>1 DEF Logged, LifeInv
  <2>3. \A d \in Conns : log[d] = <<>> => log'[d] = <<>>
    BY <1>3, <2>2
  <2>4. accept = "linked" => accepted \in Conns
    BY <1>1, NotACall DEF Unmade, TypeOK
  <2>5. \A e \in posted : e.fn \in {"onopen", "onrequest"} => e.arg \in Conns
    BY <1>1, Facts, NotACall
  <2> HIDE DEF c
  <2>6. /\ accept' = "linked" => log'[accepted'] = <<>> /\ \A e \in posted' : e.arg # accepted'
        /\ state' = "created" \/ at' = "conns" => accept' = "off"
    BY <1>1, <1>2, <2>1, <2>3, <2>4 DEF Opening
  <2>7. \A s \in Streams : handler'[s] = "linked" =>
          log'[s] = <<>> /\ \A e \in posted' : e.fn = "onrequest" => e.arg # s
    BY <1>1, <1>2, <2>1, <2>3, NotACall DEF Opening
  <2>8. \A e \in posted' : e.fn \in {"onopen", "onrequest"} => log'[e.arg] = <<>>
    BY <1>1, <1>2, <2>3, <2>5 DEF Opening
  <2>9. QED
    BY <2>6, <2>7, <2>8 DEF Opening
<1>7. Logged'
  BY <1>1, <1>2, <1>3, Facts, NotACall DEF RunOnClose, Due, Logged, TypeOK
<1>8. Ending'
  BY <1>1, <1>2, <1>3, Facts DEF RunOnClose, Due, Ending, Listed
<1>9. Numbered'
  <2>1. ASSUME NEW v \in Ws, log'[v] # <<>> PROVE Last(log'[v]) <= received'[v] /\ (recv'[v] = "got" => Last(log'[v]) < received'[v])
    <3>1. UNCHANGED <<recv, received>> /\ received[v] \in Nat
      BY <1>1, HttpServerAssumption DEF RunOnClose, TypeOK
    <3>2. CASE v = Head(queue).arg
      BY <1>3, <3>1, <3>2
    <3>3. CASE v # Head(queue).arg
      <4>1. log'[v] = log[v]
        BY <1>3, <3>3, NotACall
      <4>2. QED
        BY <1>1, <2>1, <3>1, <4>1 DEF Numbered
    <3>4. QED
      BY <3>2, <3>3
  <2>2. ASSUME NEW v \in Ws, recv'[v] = "got" PROVE received'[v] # 0
    BY <1>1, <2>2 DEF RunOnClose, Numbered
  <2>3. ASSUME NEW e \in posted', e.fn = "onmessage"
        PROVE  /\ Last(log'[e.arg]) < e.n /\ e.n <= received'[e.arg]
               /\ recv'[e.arg] = "got" => e.n < received'[e.arg]
    <3>1. e \in posted /\ e.arg \in Conns /\ UNCHANGED <<recv, received>> /\ e.n \in Int /\ e.n > 0
      BY <1>1, <1>2, <2>3, Facts, NotACall DEF RunOnClose
    <3>2. Last(log[e.arg]) < e.n /\ e.n <= received[e.arg] /\ (recv[e.arg] = "got" => e.n < received[e.arg])
      BY <1>1, <2>3, <3>1 DEF Numbered
    <3>3. CASE e.arg = Head(queue).arg
      BY <1>3, <3>1, <3>2, <3>3
    <3>4. CASE e.arg # Head(queue).arg
      BY <1>3, <3>1, <3>2, <3>4
    <3>5. QED
      BY <3>3, <3>4
  <2>4. QED
    BY <2>1, <2>2, <2>3 DEF Numbered
<1>10. QED
  BY <1>4, <1>5, <1>6, <1>7, <1>8, <1>9 DEF LifeInv

LEMMA RunCleanupStep ==
  ASSUME LifeInv, RunCleanup, Typed', Ordered(queue, InTurn)'
  PROVE  LifeInv'
<1>1. Typed /\ TypeOK /\ queue \in Seq(Posts) /\ Listed /\ Unmade /\ Opening /\ Logged /\ Ending /\ Numbered
  BY DEF LifeInv, Typed
<1>2. /\ Head(queue) \in Posts /\ Head(queue) \in posted /\ posted' \subseteq posted
      /\ \A e \in posted' : e \in InTurn[Head(queue)]
  BY <1>1, Taken DEF LifeInv, RunCleanup, Due
<1>3. Listed'
  BY <1>1, <1>2, Facts, NotACall DEF RunCleanup, Cleanup, Aborted, Set, Due, Listed, TypeOK
<1>4. Unmade'
  BY <1>1, <1>2 DEF RunCleanup, Cleanup, Aborted, Set, Due, Unmade, TypeOK
<1>5. Opening'
  BY <1>1, <1>2 DEF RunCleanup, Cleanup, Aborted, Set, Due, Opening
<1>6. Logged'
  BY <1>1, <1>2 DEF RunCleanup, Cleanup, Aborted, Set, Due, Logged
<1>7. Ending'
  BY <1>1, <1>2, Facts DEF RunCleanup, Cleanup, Aborted, Set, Due, Ending
<1>8. Numbered'
  BY <1>1, <1>2, Facts DEF RunCleanup, Cleanup, Aborted, Set, Due, Numbered
<1>9. QED
  BY <1>3, <1>4, <1>5, <1>6, <1>7, <1>8 DEF LifeInv

LEMMA RunHandlerStep ==
  ASSUME LifeInv, RunHandler, Typed', Ordered(queue, InTurn)'
  PROVE  LifeInv'
<1>1. Typed /\ TypeOK /\ queue \in Seq(Posts) /\ Listed /\ Unmade /\ Opening /\ Logged /\ Ending /\ Numbered
  BY DEF LifeInv, Typed
<1>2. /\ Head(queue) \in Posts /\ Head(queue) \in posted /\ posted' \subseteq posted
      /\ \A e \in posted' : e \in InTurn[Head(queue)]
  BY <1>1, Taken DEF LifeInv, RunHandler, Due
<1>3. Listed'
  BY <1>1, <1>2 DEF RunHandler, Due, Listed
<1>4. Unmade'
  BY <1>1, <1>2 DEF RunHandler, Due, Unmade
<1>5. Opening'
  BY <1>1, <1>2 DEF RunHandler, Due, Opening
<1>6. Logged'
  BY <1>1, <1>2 DEF RunHandler, Due, Logged
<1>7. Ending'
  BY <1>1, <1>2, Facts DEF RunHandler, Due, Ending
<1>8. Numbered'
  BY <1>1, <1>2 DEF RunHandler, Due, Numbered
<1>9. QED
  BY <1>3, <1>4, <1>5, <1>6, <1>7, <1>8 DEF LifeInv

LEMMA FreeServerStep ==
  ASSUME LifeInv, FreeServer, Typed', Ordered(queue, InTurn)'
  PROVE  LifeInv'
<1>1. Typed /\ TypeOK /\ queue \in Seq(Posts) /\ Listed /\ Unmade /\ Opening /\ Logged /\ Ending /\ Numbered
  BY DEF LifeInv, Typed
<1>2. /\ Head(queue) \in Posts /\ Head(queue) \in posted /\ posted' \subseteq posted
      /\ \A e \in posted' : e \in InTurn[Head(queue)]
  BY <1>1, Taken DEF LifeInv, FreeServer, Due
<1>3. Listed'
  BY <1>1, <1>2 DEF FreeServer, Due, Listed
<1>4. Unmade'
  BY <1>1, <1>2, NotACall DEF FreeServer, Due, Unmade, TypeOK, Listed
<1>5. Opening'
  BY <1>1, <1>2 DEF FreeServer, Due, Opening
<1>6. Logged'
  BY <1>1, <1>2 DEF FreeServer, Due, Logged
<1>7. Ending'
  BY <1>1, <1>2 DEF FreeServer, Due, Ending
<1>8. Numbered'
  BY <1>1, <1>2 DEF FreeServer, Due, Numbered
<1>9. QED
  BY <1>3, <1>4, <1>5, <1>6, <1>7, <1>8 DEF LifeInv

LEMMA ReturnOpenStep ==
  ASSUME LifeInv, ReturnOpen, Typed', Ordered(queue, InTurn)'
  PROVE  LifeInv'
<1>1. Typed /\ TypeOK /\ queue \in Seq(Posts) /\ Listed /\ Unmade /\ Opening /\ Logged /\ Ending /\ Numbered
  BY DEF LifeInv, Typed
<1>2. posted' = posted
  BY DEF posted, ReturnOpen
<1>3. Listed'
  BY <1>1, <1>2 DEF ReturnOpen, Set, Listed
<1>4. Unmade'
  BY <1>1, <1>2, NotACall DEF ReturnOpen, Set, Unmade
<1>5. Opening'
  BY <1>1, <1>2 DEF ReturnOpen, Set, Opening
<1>6. Logged'
  BY <1>1, <1>2, NotACall DEF ReturnOpen, Set, Logged
<1>7. Ending'
  BY <1>1, <1>2 DEF ReturnOpen, Set, Ending
<1>8. Numbered'
  BY <1>1, <1>2 DEF ReturnOpen, Set, Numbered
<1>9. QED
  BY <1>3, <1>4, <1>5, <1>6, <1>7, <1>8 DEF LifeInv

LEMMA ReturnHandlerStep ==
  ASSUME LifeInv, ReturnHandler, Typed', Ordered(queue, InTurn)'
  PROVE  LifeInv'
<1>1. Typed /\ TypeOK /\ queue \in Seq(Posts) /\ Listed /\ Unmade /\ Opening /\ Logged /\ Ending /\ Numbered
  BY DEF LifeInv, Typed
<1>2. posted' = posted
  BY DEF posted, ReturnHandler
<1>3. Listed'
  BY <1>1, <1>2 DEF ReturnHandler, Listed
<1>4. Unmade'
  BY <1>1, <1>2, NotACall DEF ReturnHandler, Unmade
<1>5. Opening'
  BY <1>1, <1>2 DEF ReturnHandler, Opening
<1>6. Logged'
  BY <1>1, <1>2, NotACall DEF ReturnHandler, Logged
<1>7. Ending'
  BY <1>1, <1>2 DEF ReturnHandler, Ending
<1>8. Numbered'
  BY <1>1, <1>2 DEF ReturnHandler, Numbered
<1>9. QED
  BY <1>3, <1>4, <1>5, <1>6, <1>7, <1>8 DEF LifeInv

LEMMA ReturnCloseStep ==
  ASSUME LifeInv, ReturnClose, Typed', Ordered(queue, InTurn)'
  PROVE  LifeInv'
<1>1. Typed /\ TypeOK /\ queue \in Seq(Posts) /\ Listed /\ Unmade /\ Opening /\ Logged /\ Ending /\ Numbered
  BY DEF LifeInv, Typed
<1>2. posted' = posted
  BY DEF posted, ReturnClose
<1>3. Listed'
  BY <1>1, <1>2, Facts DEF ReturnClose, Cleanup, Aborted, Set, Listed, TypeOK
<1>4. Unmade'
  BY <1>1, <1>2 DEF ReturnClose, Cleanup, Aborted, Set, Unmade, TypeOK
<1>5. Opening'
  BY <1>1, <1>2 DEF ReturnClose, Cleanup, Aborted, Set, Opening
<1>6. Logged'
  BY <1>1, <1>2 DEF ReturnClose, Cleanup, Aborted, Set, Logged
<1>7. Ending'
  BY <1>1, <1>2 DEF ReturnClose, Cleanup, Aborted, Set, Ending
<1>8. Numbered'
  BY <1>1, <1>2, Facts DEF ReturnClose, Cleanup, Aborted, Set, Numbered
<1>9. QED
  BY <1>3, <1>4, <1>5, <1>6, <1>7, <1>8 DEF LifeInv

LEMMA FreeStep ==
  ASSUME LifeInv, Free, Typed', Ordered(queue, InTurn)'
  PROVE  LifeInv'
<1>1. Typed /\ TypeOK /\ queue \in Seq(Posts) /\ Listed /\ Unmade /\ Opening /\ Logged /\ Ending /\ Numbered
  BY DEF LifeInv, Typed
<1>2. posted' = posted
  BY DEF posted, Free
<1>3. Listed'
  BY <1>1, <1>2 DEF Free, Set, Listed
<1>4. Unmade'
  BY <1>1, <1>2, NotACall DEF Free, Set, Unmade
<1>5. Opening'
  BY <1>1, <1>2 DEF Free, Set, Opening
<1>6. Logged'
  BY <1>1, <1>2, NotACall DEF Free, Set, Logged
<1>7. Ending'
  BY <1>1, <1>2 DEF Free, Set, Ending, Listed
<1>8. Numbered'
  BY <1>1, <1>2 DEF Free, Set, Numbered
<1>9. QED
  BY <1>3, <1>4, <1>5, <1>6, <1>7, <1>8 DEF LifeInv

\* The callback of a handler enters, and leaves or goes on.
LEMMA HandlerStep ==
  ASSUME LifeInv, NEW x \in Exchange, Enter(x) \/ Check(x), Typed', Ordered(queue, InTurn)'
  PROVE  LifeInv'
<1>1. Typed /\ TypeOK /\ Listed /\ Unmade /\ Opening /\ Logged /\ Ending /\ Numbered
  BY DEF LifeInv, Typed
<1>2. /\ UNCHANGED <<conn, conns, opened, scheduled, recv, received, frame, log, accept, accepted, at, state>>
      /\ posted' = posted
  BY DEF Enter, Check, posted
<1>3. \A s \in Streams :
        /\ handler'[s] # "linked" \/ handler[s] = "linked"
        /\ handler'[s] \in {"none", "called", "checked"} => handler[s] \in {"none", "called", "checked"}
  BY <1>1 DEF Enter, Check, Set, TypeOK, Exchange
<1>4. Listed'
  BY <1>1, <1>2 DEF Listed
<1>5. Unmade'
  BY <1>1, <1>2, <1>3 DEF Unmade
<1>6. Opening'
  BY <1>1, <1>2, <1>3 DEF Opening
<1>7. Logged'
  BY <1>1, <1>2 DEF Logged
<1>8. Ending'
  BY <1>1, <1>2 DEF Ending
<1>9. Numbered'
  BY <1>1, <1>2 DEF Numbered
<1>10. QED
  BY <1>4, <1>5, <1>6, <1>7, <1>8, <1>9 DEF LifeInv

LEMMA LifeKept ==
  ASSUME LifeInv, Answered, Next
  PROVE  LifeInv'
<1>1. queue' \in Seq(Posts) /\ Ordered(queue, InTurn)'
  BY QueueKept DEF Ordered
<1>2. Typed'
  BY <1>1, TypesKept
<1>3. ASSUME Rearm \/ Start \/ Stop \/ StopHttp \/ StopPending \/ StopAccept \/ StopWait
               \/ SendDone \/ (\E w \in Ws : WsSend(w)) \/ (\E s \in Streams : StreamSend(s))
      PROVE  LifeInv'
  <2>1. UNCHANGED <<conn, conns, opened, scheduled, recv, received, queue, frame, log, handler, accepted>>
    BY <1>3 DEF Rearm, Start, Stop, StopHttp, StopPending, StopAccept, StopWait, SendDone, WsSend,
                StreamSend
  <2>2. state = "created" \/ at = "conns" => accept = "off"
    BY DEF LifeInv, Opening
  <2>3. accept' = "linked" <=> accept = "linked"
    <3>1. CASE Start
      BY <2>2, <3>1 DEF Start
    <3>2. CASE ~ Start
      BY <1>3, <3>2 DEF Rearm, Stop, StopHttp, StopPending, StopAccept, StopWait, SendDone, WsSend,
                        StreamSend
    <3>3. QED
      BY <3>1, <3>2
  <2>4. state' = "created" \/ at' = "conns" => accept' = "off"
    <3>1. CASE Rearm
      BY <2>2, <3>1 DEF Rearm
    <3>2. CASE StopAccept
      BY <3>2 DEF StopAccept
    <3>3. CASE ~ Rearm /\ ~ StopAccept
      BY <1>3, <2>2, <3>3 DEF Start, Stop, StopHttp, StopPending, StopWait, SendDone, WsSend,
                             StreamSend, InCode
    <3>4. QED
      BY <3>1, <3>2, <3>3
  <2>5. at' # "free" \/ at' = at
    BY <1>3 DEF Rearm, Start, Stop, StopHttp, StopPending, StopAccept, StopWait, SendDone, WsSend,
                StreamSend
  <2>6. QED
    BY <1>2, <2>1, <2>3, <2>4, <2>5, Unmoved DEF Typed
<1>4. CASE Network
  BY <1>1, <1>2, <1>4, AcceptStep, RecvDoneStep, HandlerStep DEF Network
<1>5. CASE Callback
  BY <1>1, <1>2, <1>3, <1>5, PostOpenStep, PostMessageStep, RecvAgainStep, RecvCloseStep, PostCloseStep,
     HandlerStep, LinkStep, PostRequestStep DEF Callback
<1>6. CASE Program
  BY <1>1, <1>2, <1>3, <1>6, CloseStep, CloseConnStep DEF Program
<1>7. CASE Stopping
  BY <1>1, <1>2, <1>3, <1>7, StopConnsStep, StopStreamsStep DEF Stopping
<1>8. CASE Loop
  BY <1>1, <1>2, <1>8, RunOnOpenStep, RunOnMessageStep, SkipStep, RunOnCloseStep, RunCleanupStep,
     RunHandlerStep, FreeServerStep DEF Loop
<1>9. CASE Return
  BY <1>1, <1>2, <1>9, ReturnOpenStep, ReturnHandlerStep, ReturnCloseStep, FreeStep DEF Return
<1>10. QED
  BY <1>4, <1>5, <1>6, <1>7, <1>8, <1>9 DEF Next

-----------------------------------------------------------------------------
(* Requests and streams.                                                     *)

LEMMA AnsweredKept ==
  ASSUME LifeInv, Answered, Next
  PROVE  Answered'
<1>1. /\ Typed /\ TypeOK /\ queue \in Seq(Posts) /\ Ordered(queue, InTurn)
      /\ finished \in [Reqs -> Nat] /\ handler \in [Exchange -> {"none", "called", "checked", "linked", "done", "astray"}]
  BY DEF LifeInv, Typed, TypeOK
<1>2. ASSUME UNCHANGED <<handler, pending, cancelled, finished>>,
             \A q \in Reqs : frame'.arg = q => frame.arg = q,
             \A e \in posted' : e \in posted \/ (e.arg \notin Reqs /\ e.fn # "handler"),
             cancelled # {} => state' = "stopped" /\ at' \notin {"http", "pending"},
             at' \in {"http", "pending"} => state' = "stopped"
      PROVE  Answered'
  BY <1>1, <1>2 DEF Answered
<1>3. ASSUME NEW x \in Exchange, Enter(x) \/ Check(x) PROVE Answered'
  <2>1. UNCHANGED <<state, at, pending, cancelled, queue, frame>> /\ posted' = posted
    BY <1>3 DEF Enter, Check, posted
  <2>2. \A q \in Reqs :
          \/ handler'[q] = handler[q] /\ finished'[q] = finished[q]
          \/ /\ q = x /\ handler[q] \in {"none", "called"}
             /\ \/ handler'[q] \in {"called", "checked", "astray"} /\ finished'[q] = finished[q]
                \/ handler'[q] = "done" /\ finished'[q] = finished[q] + 1
    BY <1>1, <1>3 DEF Enter, Check, Finish, Set, Exchange
  <2>3. QED
    BY <1>1, <2>1, <2>2 DEF Answered
<1>4. ASSUME NEW x \in Exchange, Link(x) PROVE Answered'
  <2>1. UNCHANGED <<state, at, cancelled, finished, queue, frame>> /\ posted' = posted
    BY <1>4 DEF Link, posted
  <2>2. \A q \in Reqs :
          \/ q # x /\ handler'[q] = handler[q] /\ (q \in pending' <=> q \in pending)
          \/ q = x /\ handler[q] = "checked" /\ handler'[q] = "linked" /\ q \in pending'
    BY <1>1, <1>4 DEF Link, Set, Exchange
  <2>3. pending \subseteq pending'
    BY <1>4 DEF Link
  <2>4. QED
    BY <1>1, <2>1, <2>2, <2>3 DEF Answered
<1>5. ASSUME NEW x \in Exchange, PostRequest(x) PROVE Answered'
  <2>1. UNCHANGED <<state, at, pending, cancelled, finished, frame>>
    BY <1>5 DEF PostRequest
  <2>2. \E e \in Posts : posted' = posted \cup {e} /\ e.arg = x /\ (e.fn = "handler" <=> x \in Reqs)
    <3> DEFINE e == Call(IF x \in Reqs THEN "handler" ELSE "onrequest", x, 0)
    <3>1. e \in Posts
      BY CallTypes DEF Exchange
    <3>2. later2(e) /\ e.arg = x /\ (e.fn = "handler" <=> x \in Reqs)
      BY <1>5 DEF PostRequest, Call
    <3>3. QED
      BY <1>1, <3>1, <3>2, Later
  <2>3. \A q \in Reqs :
          \/ q # x /\ handler'[q] = handler[q]
          \/ q = x /\ handler[q] = "linked" /\ handler'[q] = "done"
    BY <1>1, <1>5 DEF PostRequest, Set, Exchange
  <2>4. QED
    BY <1>1, <2>1, <2>2, <2>3, Facts DEF Answered
<1>6. ASSUME StopPending PROVE Answered'
  <2>1. /\ UNCHANGED <<state, handler, pending, queue, frame>> /\ posted' = posted
        /\ at = "pending" /\ at' = "accept" /\ cancelled' = cancelled \cup pending
        /\ \A q \in Reqs : finished'[q] = IF q \in pending THEN finished[q] + 1 ELSE finished[q]
    BY <1>6 DEF StopPending, posted
  <2>2. cancelled = {} /\ state = "stopped"
    BY <2>1 DEF Answered
  <2>3. \A q \in Reqs :
          \/ q \in pending /\ finished[q] = 0 /\ finished'[q] = 1
          \/ q \notin pending /\ finished'[q] = finished[q]
    BY <2>1, <2>2 DEF Answered
  <2>4. QED
    BY <2>1, <2>2, <2>3 DEF Answered
<1>7. ASSUME RunHandler PROVE Answered'
  <2> DEFINE q == Head(queue).arg
  <2>1. /\ UNCHANGED <<state, at, handler, cancelled, finished>> /\ pending' = pending \ {q}
        /\ frame' = Idle \/ (frame' = Head(queue) /\ q \notin cancelled)
        /\ Head(queue).fn = "handler" /\ queue # <<>> /\ Pop
    BY <1>7 DEF RunHandler, Due
  <2>2. /\ Head(queue) \in Posts /\ Head(queue) \in posted /\ posted' \subseteq posted
        /\ \A e \in posted' : e \in InTurn[Head(queue)]
    BY <1>1, <2>1, Taken
  <2>3. q \in Reqs /\ q \in pending /\ handler[q] = "done"
    BY <2>1, <2>2, PostTypes DEF Answered
  <2>4. \A e \in posted' : e.fn = "handler" => e.arg # q
    BY <2>1, <2>2 DEF InTurn
  <2>5. \A r \in Reqs : frame'.arg = r => r = q /\ finished[r] = 0
    BY <2>1, <2>3, NotACall DEF Answered
  <2>6. QED
    BY <2>1, <2>2, <2>3, <2>4, <2>5 DEF Answered
<1>8. ASSUME ReturnHandler PROVE Answered'
  <2> DEFINE q == frame.arg
  <2>1. /\ UNCHANGED <<state, at, handler, pending, cancelled, queue>> /\ posted' = posted
        /\ frame' = Idle
    BY <1>8 DEF ReturnHandler, posted
  <2>2. q \in Reqs
    BY <1>1, <1>8, Facts DEF ReturnHandler
  <2>3. \A r \in Reqs : finished'[r] = IF r = q THEN finished[r] + 1 ELSE finished[r]
    BY <1>1, <1>8 DEF ReturnHandler, Finish, Set
  <2>4. handler[q] = "done" /\ q \notin pending /\ finished[q] = 0
    BY <1>1, <2>2 DEF Answered
  <2>5. \A r \in Reqs : frame'.arg # r
    BY <2>1, NotACall
  <2>6. QED
    BY <1>1, <2>1, <2>2, <2>3, <2>4, <2>5 DEF Answered
<1>9. ASSUME CloseAll(conns \cap Ws, <<>>) \/ \E last \in {<<>>, <<Call("cleanup", Top, 0)>>} : CloseAll(conns \cap Streams, last)
      PROVE  \A e \in posted' : e \in posted \/ (e.arg \notin Reqs /\ e.fn # "handler")
  <2>1. conns \cap Ws \in SUBSET Conns /\ conns \cap Streams \in SUBSET Conns
    BY <1>1 DEF TypeOK
  <2>2. PICK cs \in SUBSET Conns, last \in {<<>>, <<Call("cleanup", Top, 0)>>} : CloseAll(cs, last)
    BY <1>9, <2>1
  <2>3. /\ posted' = posted \cup {Call("onclose", c, 0) : c \in cs \ scheduled} \cup Elements(last)
        /\ Elements(<<>>) = {} /\ Elements(<<Call("cleanup", Top, 0)>>) = {Call("cleanup", Top, 0)}
    BY <1>1, <2>2, ClosedAll
  <2>4. QED
    BY <2>2, <2>3, NotACall DEF Call
<1>10. ASSUME StopConns \/ StopStreams PROVE Answered'
  <2>1. /\ UNCHANGED <<handler, pending, cancelled, finished, frame, state>>
        /\ at' \notin {"http", "pending"} /\ at \notin {"http", "pending"}
    BY <1>10 DEF StopConns, StopStreams
  <2>2. \A e \in posted' : e \in posted \/ (e.arg \notin Reqs /\ e.fn # "handler")
    BY <1>9, <1>10 DEF StopConns, StopStreams
  <2>3. QED
    BY <1>2, <2>1, <2>2 DEF Answered
<1>11. ASSUME NEW e \in Posts, later2(e) \/ UNCHANGED queue, e.arg \notin Reqs, e.fn # "handler"
       PROVE  \A x \in posted' : x \in posted \/ (x.arg \notin Reqs /\ x.fn # "handler")
  BY <1>1, <1>11, Later DEF posted
<1>12. ASSUME PostOpen PROVE Answered'
  <2>1. UNCHANGED <<handler, pending, cancelled, finished, frame, state, at>>
        /\ accept = "linked" /\ later2(Call("onopen", accepted, 0))
    BY <1>12 DEF PostOpen
  <2>2. accepted \in Ws
    BY <1>1, <2>1 DEF LifeInv, Unmade, TypeOK
  <2>3. /\ Call("onopen", accepted, 0) \in Posts
        /\ Call("onopen", accepted, 0).arg \notin Reqs /\ Call("onopen", accepted, 0).fn # "handler"
    BY <2>2, CallTypes, NotACall DEF Call
  <2>4. QED
    BY <1>2, <1>11, <2>1, <2>3 DEF Answered
<1>13. ASSUME NEW w \in Ws, PostMessage(w) PROVE Answered'
  <2>1. UNCHANGED <<handler, pending, cancelled, finished, frame, state, at>> /\ recv[w] = "got"
        /\ (later2(Call("onmessage", w, received[w])) \/ UNCHANGED queue)
    BY <1>13 DEF PostMessage
  <2>2. received[w] \in 1..MaxMsgs
    BY <1>1, <2>1, HttpServerAssumption DEF LifeInv, Numbered, TypeOK
  <2>3. /\ Call("onmessage", w, received[w]) \in Posts
        /\ Call("onmessage", w, received[w]).arg \notin Reqs
        /\ Call("onmessage", w, received[w]).fn # "handler"
    BY <2>2, CallTypes, NotACall DEF Call
  <2>4. QED
    BY <1>2, <1>11, <2>1, <2>3 DEF Answered
<1>14. ASSUME NEW c \in Conns, CloseConn(c) \/ (c \in Ws /\ PostClose(c)) PROVE Answered'
  <2>1. UNCHANGED <<handler, pending, cancelled, finished, frame, state, at>>
        /\ (later2(Call("onclose", c, 0)) \/ UNCHANGED queue)
    BY <1>14 DEF CloseConn, PostClose
  <2>2. /\ Call("onclose", c, 0) \in Posts
        /\ Call("onclose", c, 0).arg \notin Reqs /\ Call("onclose", c, 0).fn # "handler"
    BY CallTypes, NotACall DEF Call
  <2>3. QED
    BY <1>2, <1>11, <2>1, <2>2 DEF Answered
<1>15. ASSUME Close PROVE Answered'
  <2>1. /\ UNCHANGED <<handler, pending, cancelled, finished, frame>>
        /\ later2(Call("cleanup", Top, 0)) \/ UNCHANGED queue
    BY <1>15 DEF Close
  <2>2. \/ state = "started" /\ state' = "stopped" /\ at' = "http"
        \/ UNCHANGED <<state, at>>
    BY <1>15 DEF Close
  <2>3. /\ Call("cleanup", Top, 0) \in Posts
        /\ Call("cleanup", Top, 0).arg \notin Reqs /\ Call("cleanup", Top, 0).fn # "handler"
    BY CallTypes, NotACall DEF Call
  <2>4. QED
    BY <1>2, <1>11, <2>1, <2>2, <2>3 DEF Answered
<1>16. ASSUME Rearm \/ StopHttp \/ StopAccept \/ StopWait \/ SendDone
                \/ (\E w \in Ws : Accept(w) \/ RecvDone(w) \/ RecvAgain(w) \/ RecvClose(w) \/ WsSend(w))
                \/ (\E s \in Streams : StreamSend(s))
       PROVE  Answered'
  <2>1. UNCHANGED <<handler, pending, cancelled, finished, frame, state, queue>> /\ posted' = posted
    BY <1>16 DEF Rearm, StopHttp, StopAccept, StopWait, SendDone, Accept, RecvDone, RecvAgain, RecvClose,
                 WsSend, StreamSend, posted
  <2>2. \/ at' \notin {"http", "pending"} \/ at' = at
        \/ at = "http" /\ at' = "pending"
    BY <1>16 DEF Rearm, StopHttp, StopAccept, StopWait, SendDone, Accept, RecvDone, RecvAgain, RecvClose,
                 WsSend, StreamSend
  <2>3. QED
    BY <1>2, <2>1, <2>2 DEF Answered
<1>17. ASSUME Start \/ Stop PROVE Answered'
  <2>1. UNCHANGED <<handler, pending, cancelled, finished, frame, queue>> /\ posted' = posted
        /\ state # "stopped" /\ at = "user"
    BY <1>17 DEF Start, Stop, posted, InCode
  <2>2. at' = at \/ (at' = "http" /\ state' = "stopped")
    BY <1>17 DEF Start, Stop
  <2>3. QED
    BY <1>2, <2>1, <2>2 DEF Answered
<1>18. ASSUME RunOnOpen \/ RunOnMessage \/ Skip \/ RunOnClose \/ RunCleanup \/ FreeServer
       PROVE  Answered'
  <2>1. /\ UNCHANGED <<handler, pending, cancelled, finished, state>> /\ queue # <<>> /\ Pop
        /\ at' = at \/ at' = "free"
        /\ frame' = frame \/ (frame' = Head(queue) /\ Head(queue).fn \in {"onopen", "onmessage", "onclose", "onrequest"})
    BY <1>18 DEF RunOnOpen, RunOnMessage, Skip, RunOnClose, RunCleanup, FreeServer, Due, Runs, Cleanup
  <2>2. Head(queue) \in Posts /\ posted' \subseteq posted
    BY <1>1, <2>1, Taken
  <2>3. \A q \in Reqs : frame'.arg = q => frame.arg = q
    BY <2>1, <2>2, PostTypes, NotACall
  <2>4. QED
    BY <1>2, <2>1, <2>2, <2>3 DEF Answered
<1>19. ASSUME ReturnOpen \/ ReturnClose \/ Free PROVE Answered'
  <2>1. /\ UNCHANGED <<handler, pending, cancelled, finished, state>> /\ posted' = posted
        /\ at' = at \/ at' \in {"user", "free"}
        /\ frame' = frame \/ frame' = Idle
    BY <1>19 DEF ReturnOpen, ReturnClose, Free, Cleanup, posted
  <2>2. \A q \in Reqs : frame'.arg = q => frame.arg = q
    BY <2>1, NotACall
  <2>3. QED
    BY <1>2, <2>1, <2>2 DEF Answered
<1>20. CASE Network
  BY <1>3, <1>16, <1>20 DEF Network
<1>21. CASE Callback
  BY <1>3, <1>4, <1>5, <1>12, <1>13, <1>14, <1>16, <1>21, NotACall DEF Callback
<1>22. CASE Program
  BY <1>14, <1>15, <1>16, <1>17, <1>22 DEF Program
<1>23. CASE Stopping
  BY <1>6, <1>10, <1>16, <1>23 DEF Stopping
<1>24. CASE Loop
  BY <1>7, <1>18, <1>24 DEF Loop
<1>25. CASE Return
  BY <1>8, <1>19, <1>25 DEF Return
<1>26. QED
  BY <1>20, <1>21, <1>22, <1>23, <1>24, <1>25 DEF Next

\* A stream that ended is not opened again, and R does not write to it.
LEMMA WiredKept ==
  ASSUME LifeInv, Wired, Next, NEW s \in Streams
  PROVE  /\ wire'[s] = "ended" => conn'[s] \notin {"none", "open"}
         /\ wire[s] = "ended" => wire'[s] = "ended"
<1> DEFINE Goal == /\ wire'[s] = "ended" => conn'[s] \notin {"none", "open"}
                   /\ wire[s] = "ended" => wire'[s] = "ended"
<1>1. /\ Typed /\ TypeOK /\ Listed /\ Unmade
      /\ wire \in [Streams -> {"blank", "headers", "ended"}]
      /\ conn \in [Conns -> {"none", "open", "closing", "closed", "freed"}]
      /\ s \in Conns /\ s \notin Ws
  BY NotACall DEF LifeInv, Typed, TypeOK
<1>2. ASSUME wire' = wire, conn'[s] = conn[s] \/ conn'[s] \notin {"none", "open"} PROVE Goal
  BY <1>1, <1>2 DEF Wired
<1>3. ASSUME NEW c \in Conns, CloseConn(c) PROVE Goal
  <2>1. conn'[s] = conn[s] \/ conn'[s] = "closing"
    <3>1. {c} \in SUBSET Conns /\ CloseLocked({c})
      BY <1>3 DEF CloseConn
    <3>2. QED
      BY <1>1, <3>1, Closed
  <2>2. CASE wire' = wire
    BY <1>2, <2>1, <2>2
  <2>3. CASE c \in Streams /\ conn[c] = "open" /\ wire' = Set(wire, c, "ended")
    <3>1. conn'[c] # "open" /\ conn'[c] # "none"
      <4>1. {c} \in SUBSET Conns /\ CloseLocked({c}) /\ c \in {c}
        BY <1>3 DEF CloseConn
      <4>2. QED
        BY <1>1, <2>3, <4>1, Closed
    <3>2. wire'[c] = "ended" /\ (s # c => wire'[s] = wire[s])
      BY <1>1, <2>3 DEF Set
    <3>3. QED
      BY <1>1, <2>1, <3>1, <3>2 DEF Wired
  <2>4. QED
    BY <1>3, <2>2, <2>3 DEF CloseConn
<1>4. ASSUME NEW t \in Streams, StreamSend(t) PROVE Goal
  <2>1. conn[t] = "open" /\ conn' = conn /\ wire' = Set(wire, t, "headers")
    BY <1>4 DEF StreamSend
  <2>2. wire[t] # "ended" /\ wire'[t] = "headers" /\ (s # t => wire'[s] = wire[s])
    BY <1>1, <2>1 DEF Wired, Set
  <2>3. QED
    BY <1>1, <2>1, <2>2 DEF Wired
<1>5. ASSUME NEW x \in Exchange, Link(x) PROVE Goal
  <2>1. handler[x] = "checked" /\ wire' = wire /\ (conn' = conn \/ (x \in Streams /\ conn' = Set(conn, x, "open")))
    BY <1>5 DEF Link, Exchange
  <2>2. x \in Streams => conn[x] = "none"
    BY <1>1, <2>1 DEF Unmade
  <2>3. conn'[s] = conn[s] \/ conn[s] = "none"
    BY <1>1, <2>1, <2>2 DEF Set
  <2>4. QED
    BY <1>1, <2>1, <2>3 DEF Wired
<1>6. ASSUME StopConns \/ StopStreams PROVE Goal
  <2>1. conns \cap Ws \in SUBSET Conns /\ conns \cap Streams \in SUBSET Conns
    BY <1>1 DEF TypeOK
  <2>2. PICK cs \in SUBSET Conns : CloseLocked(cs)
    BY <1>6, <2>1 DEF StopConns, StopStreams, CloseAll
  <2>3. conn'[s] = conn[s] \/ conn'[s] = "closing"
    BY <1>1, <2>2, Closed
  <2>4. QED
    BY <1>2, <1>6, <2>3 DEF StopConns, StopStreams
<1>7. ASSUME RunCleanup \/ ReturnClose PROVE Goal
  <2>1. \E c : conn' = Set(conn, c, "closed") /\ wire' = wire
    BY <1>7 DEF RunCleanup, ReturnClose, Cleanup
  <2>2. conn'[s] = conn[s] \/ conn'[s] = "closed"
    BY <1>1, <2>1 DEF Set
  <2>3. QED
    BY <1>2, <2>1, <2>2
<1>8. ASSUME Free \/ FreeServer \/ (\E w \in Ws : Accept(w) \/ RecvClose(w)) PROVE Goal
  <2>1. wire' = wire
    BY <1>8 DEF Free, FreeServer, Accept, RecvClose
  <2>2. conn'[s] = conn[s] \/ conn'[s] = "freed"
    BY <1>1, <1>8 DEF Free, FreeServer, Accept, RecvClose, Set
  <2>3. QED
    BY <1>2, <2>1, <2>2
<1>9. ASSUME UNCHANGED <<wire, conn>> PROVE Goal
  BY <1>2, <1>9
<1>10. CASE Network
  BY <1>8, <1>9, <1>10 DEF Network, RecvDone, Enter
<1>11. CASE Callback
  BY <1>5, <1>8, <1>9, <1>11 DEF Callback, PostOpen, Rearm, PostMessage, RecvAgain, PostClose, Check,
                                 PostRequest
<1>12. CASE Program
  BY <1>3, <1>4, <1>9, <1>12 DEF Program, Start, Stop, Close, SendDone, WsSend
<1>13. CASE Stopping
  BY <1>6, <1>9, <1>13 DEF Stopping, StopHttp, StopPending, StopAccept, StopWait
<1>14. CASE Loop
  BY <1>7, <1>8, <1>9, <1>14 DEF Loop, RunOnOpen, RunOnMessage, Skip, RunOnClose, RunHandler
<1>15. CASE Return
  BY <1>7, <1>8, <1>9, <1>15 DEF Return, ReturnOpen, ReturnHandler
<1>16. QED
  BY <1>10, <1>11, <1>12, <1>13, <1>14, <1>15 DEF Next

-----------------------------------------------------------------------------
(* The results.                                                              *)

IInv == LifeInv /\ Answered /\ Wired

LEMMA Initially == Init => IInv
<1> SUFFICES ASSUME Init PROVE IInv
  OBVIOUS
<1> USE DEF Init
<1>1. posted = {} /\ frame.fn = "none" /\ frame.arg = Top
  BY DEF posted, Elements, Idle, Call
<1>2. Typed
  <2>1. log \in [Conns -> Seq(Int)] /\ queue \in Seq(Posts)
    BY EmptySeq
  <2>2. received \in [Ws -> 0..MaxMsgs]
    BY HttpServerAssumption
  <2>3. TypeOK
    BY <2>1, <2>2, QueueTypes DEF TypeOK
  <2>4. QED
    BY <2>1, <2>3 DEF Typed
<1>3. Ordered(queue, InTurn)
  BY DEF Ordered
<1>4. Listed
  BY DEF Listed
<1>5. Unmade /\ Opening
  BY <1>1, NotACall DEF Unmade, Opening, Exchange
<1>6. Logged /\ Ending /\ Numbered
  BY <1>1, NotACall DEF Logged, Ending, Numbered
<1>7. Answered
  <2>1. \A q \in Reqs : frame.arg # q /\ handler[q] = "none" /\ finished[q] = 0
    BY <1>1, NotACall DEF Exchange
  <2>2. QED
    BY <1>1, <2>1 DEF Answered
<1>8. Wired
  BY NotACall DEF Wired
<1>9. QED
  BY <1>2, <1>3, <1>4, <1>5, <1>6, <1>7, <1>8 DEF IInv, LifeInv

LEMMA Inductive == IInv /\ [Next]_vars => IInv'
<1>1. ASSUME IInv, Next PROVE IInv'
  <2>1. LifeInv /\ Answered /\ Wired
    BY <1>1 DEF IInv
  <2>2. Wired'
    BY <1>1, <2>1, WiredKept DEF Wired
  <2>3. QED
    BY <1>1, <2>1, <2>2, LifeKept, AnsweredKept DEF IInv
<1>2. ASSUME IInv, UNCHANGED vars PROVE IInv'
  <2>1. /\ UNCHANGED <<server, accepts, handler, life, receives, wire, requests, queue, rthread, log>>
        /\ posted' = posted /\ LifeInv /\ Answered /\ Wired
    BY <1>2 DEF vars, posted, IInv
  <2>2. Typed' /\ Ordered(queue, InTurn)' /\ Listed'
    BY <2>1 DEF LifeInv, Typed, TypeOK, Ordered, Listed
  <2>3. Unmade' /\ Opening'
    BY <2>1 DEF LifeInv, Unmade, Opening
  <2>4. Logged' /\ Ending'
    BY <2>1 DEF LifeInv, Logged, Ending
  <2>5. Numbered' /\ Answered' /\ Wired'
    BY <2>1 DEF LifeInv, Numbered, Answered, Wired
  <2>6. QED
    BY <2>2, <2>3, <2>4, <2>5 DEF IInv, LifeInv
<1>3. QED
  BY <1>1, <1>2

\* The invariant holds in every state the server reaches.
THEOREM InvariantHolds == Spec => []IInv
  BY Initially, Inductive, PTL DEF Spec

\* Every variable keeps its type: in particular each call in R's event loop is
\* one of the functions the server posts (server.c).
THEOREM TypeCorrect == Spec => []TypeOK
<1>1. IInv => TypeOK
  BY DEF IInv, LifeInv, Typed
<1>2. QED
  BY <1>1, InvariantHolds, PTL

\* However a stop, the handler callback and R's own callback interleave, the
\* aio of a request is finished at most once (http_cancel_pending_requests
\* against http_invoke_callback).
THEOREM FinishedAtMostOnce == Spec => []FinishedOnce
<1>1. IInv => FinishedOnce
  BY DEF IInv, Answered, FinishedOnce
<1>2. QED
  BY <1>1, InvariantHolds, PTL

\* Nothing is written to a stream after its terminator (rnng_conn_close,
\* rnng_stream_conn_send).
THEOREM EndIsFinal == Spec => NothingAfterEnd
<1>1. ASSUME IInv, [Next]_vars, NEW s \in Streams, wire[s] = "ended" PROVE wire'[s] = "ended"
  <2>1. LifeInv /\ Wired
    BY <1>1 DEF IInv
  <2>2. CASE Next
    BY <1>1, <2>1, <2>2, WiredKept
  <2>3. CASE UNCHANGED vars
    BY <1>1, <2>3 DEF vars
  <2>4. QED
    BY <1>1, <2>2, <2>3
<1>2. IInv /\ [Next]_vars => [\A s \in Streams : wire[s] = "ended" => wire'[s] = "ended"]_vars
  BY <1>1
<1>3. QED
  BY <1>2, InvariantHolds, PTL DEF Spec, NothingAfterEnd

LEMMA LifeStep ==
  ASSUME IInv, Next
  PROVE  Life!Next \/ UNCHANGED log
<1>1. /\ Typed /\ queue \in Seq(Posts) /\ Opening /\ Logged /\ Ending /\ Numbered
  BY DEF IInv, LifeInv, Typed
<1> DEFINE c == Head(queue).arg
<1>2. ASSUME RunOnOpen PROVE Life!Next
  <2>1. /\ queue # <<>> /\ Pop /\ Head(queue).fn \in {"onopen", "onrequest"}
        /\ log' = [log EXCEPT ![c] = Append(@, 0)]
    BY <1>2 DEF RunOnOpen, Due, Runs
  <2>2. c \in Conns /\ log[c] = <<>>
    BY <1>1, <2>1, Taken, PostTypes DEF Opening
  <2>3. Life!Open(c)
    BY <2>1, <2>2 DEF Life!Open, Life!Ran, Life!OnOpen
  <2>4. QED
    BY <2>2, <2>3 DEF Life!Next
<1>3. ASSUME RunOnMessage PROVE Life!Next
  <2>1. /\ queue # <<>> /\ Pop /\ Head(queue).fn = "onmessage" /\ conn[c] = "open"
        /\ log' = [log EXCEPT ![c] = Append(@, Head(queue).n)]
    BY <1>3 DEF RunOnMessage, Due, Runs
  <2>2. c \in Conns /\ Head(queue).n \in 1..MaxMsgs
    BY <1>1, <2>1, Taken, PostTypes
  <2>3. log[c] # <<>> /\ Last(log[c]) < Head(queue).n
    BY <1>1, <2>1, Taken DEF Logged, Numbered
  <2>4. Last(log[c]) # -1
    BY <1>1, <2>1, <2>2, <2>3 DEF Ending
  <2>5. Life!Live(c)
    BY <2>3, <2>4 DEF Life!Live, Life!OnClose, Last
  <2>6. Life!Message(c)
    BY <2>1, <2>2, <2>3, <2>5 DEF Life!Message, Life!Ran, Last
  <2>7. QED
    BY <2>2, <2>6 DEF Life!Next
<1>4. ASSUME RunOnClose PROVE Life!Next
  <2>1. /\ queue # <<>> /\ Pop /\ Head(queue).fn = "onclose" /\ c \in opened /\ frame = Idle
        /\ log' = [log EXCEPT ![c] = Append(@, -1)]
    BY <1>4 DEF RunOnClose, Due, Runs
  <2>2. c \in Conns
    BY <1>1, <2>1, Taken, PostTypes
  <2>3. log[c] # <<>> /\ Last(log[c]) # -1
    BY <1>1, <2>1, <2>2, NotACall DEF Logged, Ending
  <2>4. Life!Close(c)
    BY <2>1, <2>3 DEF Life!Close, Life!Live, Life!Ran, Life!OnClose, Last
  <2>5. QED
    BY <2>2, <2>4 DEF Life!Next
<1>5. CASE Network
  BY <1>5 DEF Network, Accept, RecvDone, Enter
<1>6. CASE Callback
  BY <1>6 DEF Callback, PostOpen, Rearm, PostMessage, RecvAgain, RecvClose, PostClose, Check, Link,
              PostRequest
<1>7. CASE Program
  BY <1>7 DEF Program, Start, Stop, Close, SendDone, WsSend, StreamSend, CloseConn
<1>8. CASE Stopping
  BY <1>8 DEF Stopping, StopHttp, StopPending, StopAccept, StopConns, StopWait, StopStreams
<1>9. CASE Loop
  BY <1>2, <1>3, <1>4, <1>9 DEF Loop, Skip, RunCleanup, RunHandler, FreeServer
<1>10. CASE Return
  BY <1>10 DEF Return, ReturnOpen, ReturnHandler, ReturnClose, Free
<1>11. QED
  BY <1>5, <1>6, <1>7, <1>8, <1>9, <1>10 DEF Next

\* R's callbacks for a connection run in the order ConnLife allows, whatever R
\* closes and whenever: the server implements it (ws_invoke_onopen,
\* ws_invoke_onmessage, conn_invoke_onclose).
THEOREM ConnLifeImplemented == Spec => ImplementsConnLife
<1>1. Init => Life!Init
  BY DEF Init, Life!Init
<1>2. IInv /\ [Next]_vars => [Life!Next]_log
  BY LifeStep DEF vars
<1>3. QED
  BY <1>1, <1>2, InvariantHolds, PTL DEF Spec, ImplementsConnLife, Life!Spec
=============================================================================
