------------------------------ MODULE Signals ------------------------------
(***************************************************************************)
(* Condition variables, pipe notifications and monitors (src/src/sync.c)   *)
(* and the threads that forward the signals of one condition variable to   *)
(* another (src/src/thread.c, the operator %~>%).                          *)
(*                                                                         *)
(* NNG's threads signal: completions of receives, pipe events.  R, one     *)
(* thread, waits, with or without a time limit, resets and forwards.  Each *)
(* forwarder thread sleeps while its cv has the value it saw last and adds *)
(* the difference to the other cv.  A signal wakes everyone who sleeps on  *)
(* the cv; R's own wait and reset change the value and wake nobody.        *)
(***************************************************************************)
EXTENDS Integers, Sequences

CONSTANTS
  Cvs,         \* condition variables
  Links,       \* the pairs <<cv, cv2>> that R may forward
  Pipes,       \* the pipes of a socket with a monitor
  Monitored,   \* the cv of the monitor and of pipe_notify
  Grow,        \* by how many ids a monitor's buffer grows (8 in the code)
  MaxSignals,  \* bound: signals sent by NNG's threads
  Quiet        \* TRUE: R neither waits on nor resets a cv that it forwards (Clear)

ASSUME SignalsAssumption ==
  /\ "R" \notin Cvs                  \* the name of R among the sleepers
  /\ Links \subseteq Cvs \X Cvs
  /\ Monitored \in Cvs
  /\ Grow \in Nat \ {0} /\ MaxSignals \in Nat
  /\ Quiet \in BOOLEAN

VARIABLES
  value,      \* nano_cv.condition
  flag,       \* nano_cv.flag: 1 armed by pipe_notify, -1 set by a pipe event
  sent,       \* signals sent
  own,        \* history: signals a cv has had from NNG's threads
  signalled,  \* history: signals a cv has had, its own and forwarded ones
  returned,   \* history: waits on a cv that have returned, not timed out
  r,          \* what R is doing, on which cv, and for %~>% to which other
  asleep,     \* those who sleep in nng_cv_wait: "R", or the cv of a forwarder
  fwd,        \* the forwarder of each cv: where its thread is
  target,     \* nano_thread_duo.cv2
  cond, incr, \* the forwarder's local variables
  crossed,    \* history: has a signal crossed the cancellation of a forwarder?
  open,       \* NNG: the socket's pipes
  ids, size,  \* nano_monitor: the events recorded, the room for them
  known,      \* history: the pipes R knows of from read_monitor
  lost        \* history: the pipes with an event the monitor had no memory for

waits == <<sent, own, signalled, returned, r>>
forward == <<fwd, target, cond, incr>>
monitor == <<open, ids, size, known, lost>>
vars == <<value, flag, waits, asleep, forward, crossed, monitor>>

\* What R may be doing: nothing, waiting on a cv, or replacing its forwarder.
Doing == [at : {"ready"}] \cup [at : {"wait", "until"}, on : Cvs]
           \cup [at : {"cancel", "link"}, on : Cvs, to : Cvs]

Events == Pipes \X {"add", "remove"}

TypeOK ==
  /\ value \in [Cvs -> Int] /\ flag \in [Cvs -> {-1, 0, 1}]
  /\ sent \in 0..MaxSignals
  /\ own \in [Cvs -> Nat] /\ signalled \in [Cvs -> Nat] /\ returned \in [Cvs -> Nat]
  /\ r \in Doing
  /\ asleep \subseteq Cvs \cup {"R"}
  /\ fwd \in [Cvs -> {"none", "look", "give", "ended"}]
  /\ target \in [Cvs -> Cvs]
  /\ cond \in [Cvs -> Int] /\ incr \in [Cvs -> Int] /\ crossed \in BOOLEAN
  /\ open \subseteq Pipes /\ known \subseteq Pipes /\ lost \subseteq Pipes
  /\ ids \in Seq(Events) /\ size \in Nat /\ Len(ids) <= size

Ready == [at |-> "ready"]
Waiting(c) == r.at \in {"wait", "until"} /\ r.on = c

Init ==
  /\ value = [c \in Cvs |-> 0] /\ flag = [c \in Cvs |-> 0]
  /\ sent = 0 /\ own = [c \in Cvs |-> 0]
  /\ signalled = [c \in Cvs |-> 0] /\ returned = [c \in Cvs |-> 0]
  /\ r = Ready /\ asleep = {}
  /\ fwd = [c \in Cvs |-> "none"] /\ target = [c \in Cvs |-> c]
  /\ cond = [c \in Cvs |-> 0] /\ incr = [c \in Cvs |-> 0] /\ crossed = FALSE
  /\ open = {} /\ ids = <<>> /\ size = Grow /\ known = {} /\ lost = {}

----------------------------------------------------------------------------
(* NNG's threads                                                           *)

\* A forwarder cannot follow a value that goes down: when Quiet, R neither
\* waits on a cv that it forwards nor resets it.
Clear(c) == Quiet => fwd[c] = "none"
Cancelling(c) == r.at \in {"cancel", "link"} /\ r.on = c

\* The forwarder of c is told to end and has not: a signal now hides the -1.
Crossing(c) == r.at = "cancel" /\ r.on = c /\ fwd[c] # "ended"

\* nng_cv_wake on c's cv
Woken(c) == asleep \ ({c} \cup (IF Waiting(c) THEN {"R"} ELSE {}))

\* The part every signaller has: the value, up by n, and the wake, under the lock.
Raise(c, n) ==
  /\ value' = [value EXCEPT ![c] = @ + n]
  /\ signalled' = [signalled EXCEPT ![c] = IF n > 0 THEN @ + n ELSE @]
  /\ crossed' = (crossed \/ Crossing(c))
  /\ asleep' = Woken(c)

\* A signal of an NNG thread: one of sent, and one of c's own if it raises c.
Allowed == sent < MaxSignals /\ sent' = sent + 1
Own(c) == own' = [own EXCEPT ![c] = @ + 1]

\* raio_complete and the other completions with a cv; cv_signal is the same.
Signal(c) ==
  /\ Allowed /\ Own(c)
  /\ Raise(c, 1)
  /\ UNCHANGED <<flag, returned, r, forward, monitor>>

\* A pipe is added or removed: pipe_cb_signal, if R has asked to be notified,
\* also sets the flag.
PipeSignal ==
  /\ Allowed /\ Own(Monitored)
  /\ Raise(Monitored, 1)
  /\ flag' = [flag EXCEPT ![Monitored] = IF @ > 0 THEN -1 ELSE @]
  /\ UNCHANGED <<returned, r, forward, monitor>>

\* Mutant: room is made one event too late.
BadRoom == IF Len(ids) > size THEN size + Grow ELSE size

\* pipe_cb_monitor: room is made 8 ids at a time; without memory the event is
\* dropped and the cv not signalled.
Room == IF Len(ids) >= size THEN size + Grow ELSE size

\* Mutant: an addition and a removal are recorded alike.
BadRecord(p, ev) ==
  /\ Allowed
  /\ open' = IF ev = "add" THEN open \cup {p} ELSE open \ {p}
  /\ ids' = Append(ids, <<p, "add">>) /\ size' = Room
  /\ Raise(Monitored, 1) /\ Own(Monitored)
  /\ UNCHANGED <<flag, returned, r, forward, known, lost>>

Record(p, ev) ==
  /\ Allowed
  /\ open' = IF ev = "add" THEN open \cup {p} ELSE open \ {p}
  /\ \/ /\ ids' = Append(ids, <<p, ev>>) /\ size' = Room
        /\ Raise(Monitored, 1) /\ Own(Monitored)
        /\ UNCHANGED lost
     \/ /\ Room # size
        /\ lost' = lost \cup {p}
        /\ UNCHANGED <<ids, size, value, own, signalled, crossed, asleep>>
  /\ UNCHANGED <<flag, returned, r, forward, known>>

PipeEvent(p) == Record(p, IF p \in open THEN "remove" ELSE "add")

----------------------------------------------------------------------------
(* R                                                                       *)

\* rnng_cv_wait, rnng_cv_wait_safe ("wait"), rnng_cv_until, _until_safe ("until")
Begin(c, how) ==
  /\ r = Ready
  /\ Clear(c)
  /\ r' = [at |-> how, on |-> c]
  /\ UNCHANGED <<value, flag, sent, own, signalled, returned, asleep, forward, crossed, monitor>>

Sleep ==
  /\ r.at \in {"wait", "until"} /\ "R" \notin asleep /\ value[r.on] = 0
  /\ asleep' = asleep \cup {"R"}
  /\ UNCHANGED <<value, flag, waits, forward, crossed, monitor>>

Decrement ==
  /\ r.at \in {"wait", "until"} /\ "R" \notin asleep /\ value[r.on] # 0
  /\ value' = [value EXCEPT ![r.on] = @ - 1]
  /\ returned' = [returned EXCEPT ![r.on] = @ + 1]
  /\ r' = Ready
  /\ UNCHANGED <<flag, sent, own, signalled, asleep, forward, crossed, monitor>>

\* Mutant: a time-out is taken for a signal.
BadTimeOut ==
  /\ r.at \in {"wait", "until"} /\ "R" \in asleep
  /\ asleep' = asleep \ {"R"}
  /\ value' = [value EXCEPT ![r.on] = @ - 1]
  /\ returned' = [returned EXCEPT ![r.on] = @ + 1]
  /\ r' = Ready
  /\ UNCHANGED <<flag, sent, own, signalled, forward, crossed, monitor>>

\* The time is up, or the user interrupts wait_.
TimeOut ==
  /\ r.at \in {"wait", "until"} /\ "R" \in asleep
  /\ asleep' = asleep \ {"R"}
  /\ r' = Ready
  /\ UNCHANGED <<value, flag, sent, own, signalled, returned, forward, crossed, monitor>>

\* rnng_cv_reset: re-arms a flag that was set, disarms one that was not.
Reset(c) ==
  /\ r = Ready
  /\ Clear(c)
  /\ value' = [value EXCEPT ![c] = 0]
  /\ flag' = [flag EXCEPT ![c] = IF @ < 0 THEN 1 ELSE 0]
  /\ UNCHANGED <<waits, asleep, forward, crossed, monitor>>

\* rnng_pipe_notify with flag = TRUE: arms the flag, without the lock.
Notify ==
  /\ r = Ready
  /\ flag' = [flag EXCEPT ![Monitored] = 1]
  /\ UNCHANGED <<value, waits, asleep, forward, crossed, monitor>>

\* What R knows after the events: the last of each pipe decides.
After(pipes, events) ==
  {p \in Pipes : LET mine == {i \in DOMAIN events : events[i][1] = p}
                 IN IF mine = {} THEN p \in pipes
                    ELSE \E i \in mine : (\A j \in mine : j <= i) /\ events[i][2] = "add"}

\* rnng_monitor_read
Read ==
  /\ r = Ready /\ ids # <<>>
  /\ known' = After(known, ids)
  /\ ids' = <<>>
  /\ UNCHANGED <<value, flag, waits, asleep, forward, crossed, open, size, lost>>

\* Mutant: the old forwarder is told to end but not woken.
BadForward(c, d) ==
  /\ r = Ready /\ <<c, d>> \in Links
  /\ IF fwd[c] = "none"
     THEN r' = [at |-> "link", on |-> c, to |-> d] /\ UNCHANGED value
     ELSE /\ r' = [at |-> "cancel", on |-> c, to |-> d]
          /\ value' = [value EXCEPT ![c] = -1]
  /\ UNCHANGED <<flag, sent, own, signalled, returned, asleep, forward, crossed, monitor>>

\* cv %~>% cv2, rnng_signal_thread_create: an existing forwarder is told to
\* end, by the value -1, and joined (thread_duo_finalizer); then the value is
\* reset and the new thread starts.
Forward(c, d) ==
  /\ r = Ready /\ <<c, d>> \in Links
  /\ IF fwd[c] = "none"
     THEN r' = [at |-> "link", on |-> c, to |-> d] /\ UNCHANGED <<value, asleep>>
     ELSE /\ r' = [at |-> "cancel", on |-> c, to |-> d]
          /\ value' = [value EXCEPT ![c] = -1]
          /\ asleep' = Woken(c)
  /\ UNCHANGED <<flag, sent, own, signalled, returned, forward, crossed, monitor>>

Joined ==
  /\ r.at = "cancel" /\ fwd[r.on] = "ended"
  /\ r' = [r EXCEPT !.at = "link"]
  /\ UNCHANGED <<value, flag, sent, own, signalled, returned, asleep, forward, crossed, monitor>>

Link ==
  /\ r.at = "link"
  /\ value' = [value EXCEPT ![r.on] = 0]
  /\ fwd' = [fwd EXCEPT ![r.on] = "look"]
  /\ target' = [target EXCEPT ![r.on] = r.to]
  /\ cond' = [cond EXCEPT ![r.on] = 0]
  /\ r' = Ready
  /\ UNCHANGED <<flag, sent, own, signalled, returned, asleep, incr, crossed, monitor>>

----------------------------------------------------------------------------
(* rnng_signal_thread                                                      *)

Awake(c) == fwd[c] = "look" /\ c \notin asleep

Doze(c) ==
  /\ Awake(c) /\ value[c] = cond[c]
  /\ asleep' = asleep \cup {c}
  /\ UNCHANGED <<value, flag, waits, forward, crossed, monitor>>

\* A negative value tells the thread to end; it puts the value back.
End(c) ==
  /\ Awake(c) /\ value[c] # cond[c] /\ value[c] < 0
  /\ value' = [value EXCEPT ![c] = cond[c]]
  /\ fwd' = [fwd EXCEPT ![c] = "ended"]
  /\ UNCHANGED <<flag, waits, asleep, target, cond, incr, crossed, monitor>>

\* Mutant: one signal is forwarded, however much the value has grown.
BadGrown(c) ==
  /\ Awake(c) /\ value[c] # cond[c] /\ value[c] >= 0
  /\ incr' = [incr EXCEPT ![c] = 1]
  /\ cond' = [cond EXCEPT ![c] = value[c]]
  /\ fwd' = [fwd EXCEPT ![c] = "give"]
  /\ UNCHANGED <<value, flag, waits, asleep, target, crossed, monitor>>

Grown(c) ==
  /\ Awake(c) /\ value[c] # cond[c] /\ value[c] >= 0
  /\ incr' = [incr EXCEPT ![c] = value[c] - cond[c]]
  /\ cond' = [cond EXCEPT ![c] = value[c]]
  /\ fwd' = [fwd EXCEPT ![c] = "give"]
  /\ UNCHANGED <<value, flag, waits, asleep, target, crossed, monitor>>

\* Mutant: the forwarder raises the other cv without waking it.
BadGive(c) ==
  /\ fwd[c] = "give"
  /\ value' = [value EXCEPT ![target[c]] = @ + incr[c]]
  /\ signalled' = [signalled EXCEPT ![target[c]] = @ + incr[c]]
  /\ incr' = [incr EXCEPT ![c] = 0]
  /\ fwd' = [fwd EXCEPT ![c] = "look"]
  /\ UNCHANGED <<flag, sent, own, returned, r, asleep, target, cond, crossed, monitor>>

Give(c) ==
  /\ fwd[c] = "give"
  /\ Raise(target[c], incr[c])
  /\ incr' = [incr EXCEPT ![c] = 0]
  /\ fwd' = [fwd EXCEPT ![c] = "look"]
  /\ UNCHANGED <<flag, sent, own, returned, r, target, cond, monitor>>

Forwarder(c) == Doze(c) \/ End(c) \/ Grown(c) \/ Give(c)

Threads == (\E c \in Cvs : Signal(c)) \/ PipeSignal \/ (\E p \in Pipes : PipeEvent(p))
Choose ==
  \/ \E c \in Cvs : Begin(c, "wait") \/ Begin(c, "until") \/ Reset(c)
  \/ \E link \in Links : Forward(link[1], link[2])
  \/ Notify \/ Read \/ TimeOut
Proceed == Sleep \/ Decrement \/ Joined \/ Link

Next == Threads \/ Choose \/ Proceed \/ \E c \in Cvs : Forwarder(c)

Spec == Init /\ [][Next]_vars

\* The forwarders run, and so does R in a call it need not wait in.  Nobody
\* has to signal.
FairSpec == Spec /\ WF_vars(Proceed) /\ \A c \in Cvs : WF_vars(Forwarder(c))

----------------------------------------------------------------------------
\* Nobody sleeps through a signal: R sleeps on a value of zero, a forwarder on
\* the value it has forwarded (every signaller wakes the cv, under its lock).
SleepsForReason ==
  /\ "R" \in asleep => value[r.on] = 0
  /\ \A c \in Cvs : c \in asleep => value[c] = cond[c]

\* No more waits return than there were signals: "Each signal increments the
\* value by 1. Each time wait() or until() returns (apart from due to timeout),
\* the value is decremented by 1" (R/sync.R), for signals forwarded as well.
\* A signal that hides the -1 of a cancellation makes a forwarder take from the
\* other cv, but R, which waits for that forwarder to end, waits on no cv then.
WaitsMatched == \A c \in Cvs : returned[c] <= signalled[c]

\* What R has read from the monitor, with what it has still to read, is what
\* the socket's pipes are, but for the events there was no memory for.
KnownPipes == After(known, ids) \ lost = open \ lost

\* The signals that a cv has had from forwarders
Gifts(c) == signalled[c] - own[c]

\* Signals are forwarded, every one: when a forwarder is behind its cv by some
\* amount, the other cv is in time raised by as much, unless the forwarder is
\* told to end first, or a signal crosses its cancellation.  In a chain no cv
\* gets more signals than NNG's threads have sent.
AllForwarded ==
  \A c \in Cvs, n \in 1..MaxSignals :
    fwd[c] = "look" /\ value[c] > cond[c] /\ Gifts(target[c]) + value[c] - cond[c] = n
      ~> Gifts(target[c]) >= n \/ fwd[c] = "ended" \/ crossed

\* A new forwarding target is taken: the thread of the old one ends, unless a
\* signal hides from it that it should, and R waits for it for ever.
CancelReturns == r.at = "cancel" ~> r = Ready \/ crossed

=============================================================================
