------------------------------ MODULE TaskPool ------------------------------
(***************************************************************************)
(* What a dispatcher promises its host, with no sockets, threads, locks or *)
(* counters.  Requests are numbered as they arrive and are started in that *)
(* order, each by one worker that has nothing else to do.  A request that  *)
(* was started is settled with its own result or with the connection-reset *)
(* error and the host gets that answer once.  A request leaves without an  *)
(* answer only from the queue, by cancellation, when the pool is shut or   *)
(* when there is no memory for the answer.                                 *)
(***************************************************************************)
EXTENDS Integers, SequencesExt

CONSTANTS
  Workers,
  MaxTasks,     \* bound: requests the host makes
  Lossy         \* may an answer be lost for want of memory?

Reset    == 0
NoAnswer == -1

VARIABLES
  accepted,     \* number of requests so far
  waiting,      \* the queue
  running,      \* a set of records: which worker has which task
  settled,      \* a set of records: answers on their way to the host
  answer,       \* what the host received
  shut

vars == <<accepted, waiting, running, settled, answer, shut>>

Init ==
  /\ accepted = 0
  /\ waiting = <<>>
  /\ running = {}
  /\ settled = {}
  /\ answer = [t \in 1..MaxTasks |-> NoAnswer]
  /\ shut = FALSE

Unoccupied(w) == \A r \in running : r.worker # w

\* A request arrives: nobody can take it, or nobody is in front of it.
Arrive ==
  /\ ~shut /\ accepted < MaxTasks
  /\ accepted' = accepted + 1
  /\ \/ /\ waiting' = Append(waiting, accepted')
        /\ UNCHANGED running
     \/ /\ waiting = <<>>
        /\ \E w \in Workers :
             /\ Unoccupied(w)
             /\ running' = running \cup {[worker |-> w, task |-> accepted']}
        /\ UNCHANGED waiting
  /\ UNCHANGED <<settled, answer, shut>>

\* The oldest request is given to a worker.
Start(w) ==
  /\ ~shut
  /\ waiting # <<>> /\ Unoccupied(w)
  /\ running' = running \cup {[worker |-> w, task |-> Head(waiting)]}
  /\ waiting' = Tail(waiting)
  /\ UNCHANGED <<accepted, settled, answer, shut>>

\* A worker is done, or gone: its task is settled one way or the other, or its
\* answer is lost for want of memory.
Finish(r) ==
  /\ r \in running
  /\ running' = running \ {r}
  /\ \/ \E msg \in {r.task, Reset} : settled' = settled \cup {[task |-> r.task, msg |-> msg]}
     \/ Lossy /\ UNCHANGED settled
  /\ UNCHANGED <<accepted, waiting, answer, shut>>

Answer(s) ==
  /\ s \in settled /\ answer[s.task] = NoAnswer
  /\ settled' = settled \ {s}
  /\ answer' = [answer EXCEPT ![s.task] = s.msg]
  /\ UNCHANGED <<accepted, waiting, running, shut>>

Cancel ==
  /\ \E i \in 1..Len(waiting) : waiting' = RemoveAt(waiting, i)
  /\ UNCHANGED <<accepted, running, settled, answer, shut>>

Lose(s) ==
  /\ shut \/ Lossy
  /\ s \in settled
  /\ settled' = settled \ {s}
  /\ UNCHANGED <<accepted, waiting, running, answer, shut>>

Shut ==
  /\ ~shut
  /\ shut' = TRUE
  /\ UNCHANGED <<accepted, waiting, running, settled, answer>>

\* Once it is shut the pool may drop all it still has of one kind.
Discard ==
  /\ shut
  /\ \/ waiting' = <<>> /\ UNCHANGED <<running, settled>>
     \/ running' = {}   /\ UNCHANGED <<waiting, settled>>
     \/ settled' = {}   /\ UNCHANGED <<waiting, running>>
  /\ UNCHANGED <<accepted, answer, shut>>

Next ==
  \/ Arrive
  \/ \E w \in Workers : Start(w)
  \/ \E r \in running : Finish(r)
  \/ \E s \in settled : Answer(s) \/ Lose(s)
  \/ Cancel
  \/ Shut
  \/ Discard

Spec == Init /\ [][Next]_vars
=============================================================================
