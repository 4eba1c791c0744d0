------------------------------ MODULE ConnLife ------------------------------
(***************************************************************************)
(* What the R program sees of a server's connections: for each of them the *)
(* callbacks that ran, in order.  A connection is opened first, has its    *)
(* messages in the order they arrived, some perhaps missing, and is closed *)
(* last and once; one that was never opened is not closed either.          *)
(***************************************************************************)
EXTENDS Integers, Sequences

CONSTANTS
  Conns,
  MaxMsgs       \* bound: messages of a connection

OnOpen  == 0
OnClose == -1   \* a message is the positive number it arrived with

VARIABLE log

Init == log = [c \in Conns |-> <<>>]

Live(c) == log[c] # <<>> /\ log[c][Len(log[c])] # OnClose

Ran(c, call) == log' = [log EXCEPT ![c] = Append(@, call)]

Open(c) == log[c] = <<>> /\ Ran(c, OnOpen)

Message(c) ==
  \E k \in 1..MaxMsgs :
    /\ Live(c) /\ log[c][Len(log[c])] < k
    /\ Ran(c, k)

Close(c) == Live(c) /\ Ran(c, OnClose)

Next == \E c \in Conns : Open(c) \/ Message(c) \/ Close(c)

Spec == Init /\ [][Next]_log
=============================================================================
