------------------------------ MODULE Channel ------------------------------
(***************************************************************************)
(* One goo channel (src/src/runtime/channels.c) and the threads that use   *)
(* it: the program's main thread and its goroutines, each on a worker of   *)
(* its own.  Every operation runs under the channel's mutex except while   *)
(* it is parked in pthread_cond_wait, so one action is one stretch of code *)
(* from taking the mutex (or from returning out of cond_wait) to the next  *)
(* cond_wait or unlock.  goo_sched_block_begin/_end, which bracket every   *)
(* cond_wait, are part of the action they run in.                          *)
(*                                                                         *)
(* A thread sits in a condition variable's wait set while it sleeps; it is *)
(* parked but no longer in the set once it has been signalled and still    *)
(* has to take the mutex back.                                             *)
(*                                                                         *)
(* An operator marked as a mutant is a wrong version of the definition     *)
(* after it; no action uses one.                                           *)
(***************************************************************************)
EXTENDS Integers, Sequences, FiniteSets

CONSTANTS
    Goroutines,     \* the goroutines, all spawned and counted at the start
    Main,           \* the main thread, which is not a goroutine
    Capacity,       \* buffer_size of goo_make_chan; 0 is a rendezvous channel
    Programs,       \* the client programs explored: thread -> operations
    Polls,          \* all-asleep polls before goo_scheduler_wait aborts (100)
    TimelyWakeups   \* no signalled thread stays off its CPU for Polls polls

Threads == Goroutines \cup {Main}

Ops == {"send", "recv", "close", "trysend", "tryrecv", "selsend", "selrecv", "nil", "wait"}

Parking == {"send_full", "send_slot", "send_taken", "recv_wait"}

PCs == {"run", "nil_block", "exited", "panicked"} \cup Parking

Outcomes == {"running", "exit", "panic", "deadlock"}

ASSUME ConstantsAssumption ==
    /\ IsFiniteSet(Goroutines)
    /\ Main \notin Goroutines
    /\ Capacity \in Nat
    /\ Programs \subseteq [Threads -> Seq(Ops)]
    /\ Polls \in Nat \ {0}
    /\ TimelyWakeups \in BOOLEAN

\* The value a thread sends with its i-th operation: every send is distinct.
Values == Threads \X Nat

\* What fresh memory holds; no operation has index 0, so no send carries it.
Garbage == <<Main, 0>>

VARIABLES
    buf, head, tail, length,    \* the ring buffer
    rv_slot, rv_full,           \* the rendezvous slot of an unbuffered channel
    closed,
    not_empty, not_full,        \* threads asleep on each condition variable
    prog, ip, pc,               \* each thread's program and place in it
    blocked, num_goroutines,    \* the scheduler's counters
    asleep_streak,              \* the local of goo_scheduler_wait
    outcome,                    \* how the process ended, or "running"
    sent, rcvd, returned        \* history: accepted, taken, sends that returned

chanVars  == <<buf, head, tail, length, rv_slot, rv_full, closed>>
waitVars  == <<not_empty, not_full>>
schedVars == <<blocked, num_goroutines, asleep_streak>>
history   == <<sent, rcvd, returned>>
vars == <<chanVars, waitVars, prog, ip, pc, schedVars, outcome, history>>

-----------------------------------------------------------------------------
\* goo_make_chan, and goo_go of every goroutine.
Init ==
    /\ buf = [i \in 0..(Capacity - 1) |-> Garbage]
    /\ head = 0 /\ tail = 0 /\ length = 0
    /\ rv_slot = Garbage /\ rv_full = FALSE
    /\ closed = FALSE
    /\ not_empty = {} /\ not_full = {}
    /\ prog \in Programs
    /\ ip = [t \in Threads |-> 1]
    /\ pc = [t \in Threads |-> "run"]
    /\ blocked = 0
    /\ num_goroutines = Cardinality(Goroutines)
    /\ asleep_streak = 0
    /\ outcome = "running"
    /\ sent = <<>> /\ rcvd = <<>> /\ returned = {}

Op(t) == IF ip[t] <= Len(prog[t]) THEN prog[t][ip[t]] ELSE "exit"

Value(t) == <<t, ip[t]>>

Asleep(t) == t \in not_empty \cup not_full

\* Signalled (or spuriously woken), but not yet back with the mutex.
Woken(t) == pc[t] \in Parking /\ ~Asleep(t)

CanRun(t) ==
    /\ outcome = "running"
    /\ pc[t] = "run" \/ Woken(t)

\* t calls op now, or is back from a cond_wait at one of the given places.
Doing(t, op, places) ==
    /\ CanRun(t)
    /\ pc[t] \in places \/ (pc[t] = "run" /\ Op(t) = op)

\* The operation is over; t goes on with its program.
Return(t) ==
    /\ ip' = [ip EXCEPT ![t] = @ + 1]
    /\ pc' = [pc EXCEPT ![t] = "run"]

\* pthread_cond_signal wakes one sleeper if there is one.
Signal(cv) == IF cv = {} THEN {{}} ELSE {cv \ {w} : w \in cv}

\* pthread_cond_broadcast wakes every sleeper.
Broadcast(cv) == {{}}

\* Mutant: the call is missing.
block_end_Skipped(t) == blocked

\* goo_sched_block_end: the counter after t has come back from cond_wait.
block_end(t) ==
    IF pc[t] \in Parking /\ t # Main /\ blocked > 0 THEN blocked - 1 ELSE blocked

\* Mutant: goroutines that have been signalled count as asleep.
NobodyAwake(t) == t = Main /\ blocked = num_goroutines

\* The main-thread check of goo_sched_block_begin.
NobodyLeft(t) == t = Main /\ num_goroutines = 0

\* goo_sched_block_begin: count a goroutine, or abort for a hopeless main.
block_begin(t, place) ==
    /\ pc' = [pc EXCEPT ![t] = place]
    /\ blocked' = IF t = Main THEN blocked ELSE block_end(t) + 1
    /\ outcome' = IF NobodyLeft(t) THEN "deadlock" ELSE outcome
    /\ UNCHANGED <<ip, num_goroutines, asleep_streak>>

\* pthread_cond_wait, reached unless block_begin ended the process.
Sleepers(cv, t) == IF NobodyLeft(t) THEN cv ELSE cv \cup {t}

Panic(t) ==
    /\ outcome' = "panic"
    /\ pc' = [pc EXCEPT ![t] = "panicked"]
    /\ blocked' = block_end(t)
    /\ UNCHANGED <<chanVars, waitVars, prog, ip, num_goroutines, asleep_streak, history>>

Unblocked(t) ==
    /\ blocked' = block_end(t)
    /\ UNCHANGED <<num_goroutines, asleep_streak, outcome>>

-----------------------------------------------------------------------------
(* goo_chan_send *)

\* Closed on entry, or by another thread while this send was parked.
SendOnClosed(t) ==
    /\ Doing(t, "send", {"send_full", "send_slot"})
    /\ closed
    /\ Panic(t)

SendWaitFull(t) ==
    /\ Doing(t, "send", {"send_full"})
    /\ Capacity > 0 /\ length >= Capacity /\ ~closed
    /\ block_begin(t, "send_full")
    /\ not_full' = Sleepers(not_full, t)
    /\ UNCHANGED <<chanVars, not_empty, prog, history>>

Advance(i) == (i + 1) % Capacity

\* Mutant: only a send that finds the ring empty signals.
SignalFirstOnly == IF length = 0 THEN Signal(not_empty) ELSE {not_empty}

\* Mutant: the sender does not signal.
SignalNobody == {not_empty}

\* The receivers that still sleep after a send has signalled one.
SignalReceiver == Signal(not_empty)

\* Copy to the tail of the ring and signal a receiver.
Enqueue(v) ==
    /\ buf' = [buf EXCEPT ![tail] = v]
    /\ tail' = Advance(tail)
    /\ length' = length + 1
    /\ not_empty' \in SignalReceiver
    /\ sent' = Append(sent, v)
    /\ UNCHANGED <<head, rv_slot, rv_full, closed, not_full, rcvd>>

\* Mutant: no test of closed after the wait.
RoomUnchecked == length < Capacity

\* Past the wait for room, and not because of a close.
Room == length < Capacity /\ ~closed

SendBuffered(t) ==
    /\ Doing(t, "send", {"send_full"})
    /\ Capacity > 0 /\ Room
    /\ Enqueue(Value(t))
    /\ returned' = returned \cup {Value(t)}
    /\ Return(t) /\ Unblocked(t)
    /\ UNCHANGED prog

SlotFree == ~rv_full /\ ~closed

SendWaitSlot(t) ==
    /\ Doing(t, "send", {"send_slot"})
    /\ Capacity = 0 /\ rv_full /\ ~closed
    /\ block_begin(t, "send_slot")
    /\ not_full' = Sleepers(not_full, t)
    /\ UNCHANGED <<chanVars, not_empty, prog, history>>

\* Park the value, signal a receiver, and go to sleep until it is taken.
SendPark(t) ==
    /\ Doing(t, "send", {"send_slot"})
    /\ Capacity = 0 /\ SlotFree
    /\ rv_slot' = Value(t)
    /\ rv_full' = TRUE
    /\ not_empty' \in SignalReceiver
    /\ sent' = Append(sent, Value(t))
    /\ block_begin(t, "send_taken")
    /\ not_full' = Sleepers(not_full, t)
    /\ UNCHANGED <<buf, head, tail, length, closed, prog, rcvd, returned>>

\* Woken with the slot full: back to sleep, whoever's value it holds.
SendWaitTaken(t) ==
    /\ CanRun(t) /\ pc[t] = "send_taken"
    /\ rv_full /\ ~closed
    /\ block_begin(t, "send_taken")
    /\ not_full' = Sleepers(not_full, t)
    /\ UNCHANGED <<chanVars, not_empty, prog, history>>

SendUntaken(t) ==
    /\ CanRun(t) /\ pc[t] = "send_taken"
    /\ rv_full /\ closed
    /\ Panic(t)

\* Mutant: any wakeup is taken for a delivery.
WokenUp == TRUE

Taken == ~rv_full

SendTaken(t) ==
    /\ CanRun(t) /\ pc[t] = "send_taken"
    /\ Taken
    /\ returned' = returned \cup {Value(t)}
    /\ Return(t) /\ Unblocked(t)
    /\ UNCHANGED <<chanVars, waitVars, prog, sent, rcvd>>

-----------------------------------------------------------------------------
(* goo_chan_recv *)

NothingToTake == IF Capacity > 0 THEN length = 0 ELSE ~rv_full

RecvWait(t) ==
    /\ Doing(t, "recv", {"recv_wait"})
    /\ NothingToTake /\ ~closed
    /\ block_begin(t, "recv_wait")
    /\ not_empty' = Sleepers(not_empty, t)
    /\ UNCHANGED <<chanVars, not_full, prog, history>>

\* Closed and drained: the zero value, status 0.
RecvClosed(t) ==
    /\ Doing(t, "recv", {"recv_wait"})
    /\ NothingToTake /\ closed
    /\ Return(t) /\ Unblocked(t)
    /\ UNCHANGED <<chanVars, waitVars, prog, history>>

\* Mutant: the wrong end of the ring is read.
Newest == buf[tail]

Oldest == buf[head]

\* Mutant: one sender is woken, of whichever kind.
SignalSender == Signal(not_full)

\* Two kinds of sender wait on not_full, so a receive wakes them all.
WakeSenders == Broadcast(not_full)

\* Copy from the head of the ring and wake every sender.
Dequeue ==
    /\ rcvd' = Append(rcvd, Oldest)
    /\ head' = Advance(head)
    /\ length' = length - 1
    /\ not_full' \in WakeSenders
    /\ UNCHANGED <<buf, tail, rv_slot, rv_full, closed, not_empty, sent, returned>>

RecvBuffered(t) ==
    /\ Doing(t, "recv", {"recv_wait"})
    /\ Capacity > 0 /\ length > 0
    /\ Dequeue
    /\ Return(t) /\ Unblocked(t)
    /\ UNCHANGED prog

RecvSlot(t) ==
    /\ Doing(t, "recv", {"recv_wait"})
    /\ Capacity = 0 /\ rv_full
    /\ rcvd' = Append(rcvd, rv_slot)
    /\ rv_full' = FALSE
    /\ not_full' \in WakeSenders
    /\ Return(t) /\ Unblocked(t)
    /\ UNCHANGED <<buf, head, tail, length, rv_slot, closed, not_empty, prog,
                   sent, returned>>

-----------------------------------------------------------------------------
(* goo_chan_close, and operations on a nil channel *)

Close(t) ==
    /\ Doing(t, "close", {})
    /\ ~closed
    /\ closed' = TRUE
    /\ not_empty' \in Broadcast(not_empty) /\ not_full' \in Broadcast(not_full)
    /\ Return(t) /\ Unblocked(t)
    /\ UNCHANGED <<buf, head, tail, length, rv_slot, rv_full, prog, history>>

CloseClosed(t) ==
    /\ Doing(t, "close", {})
    /\ closed
    /\ Panic(t)

\* goo_chan_nil_block: counted as blocked, then asleep for good.
NilBlock(t) ==
    /\ Doing(t, "nil", {})
    /\ block_begin(t, "nil_block")
    /\ UNCHANGED <<chanVars, waitVars, prog, history>>

-----------------------------------------------------------------------------
(* goo_select with a case on this channel, which polls by goo_chan_try_send *)
(* and goo_chan_try_recv: once if there is a default ("trysend",            *)
(* "tryrecv"), else again and again until the case is ready ("selsend",     *)
(* "selrecv").  A poll of the second kind that fails changes nothing and is *)
(* no step.  A try_lock fails while another thread is inside one of the     *)
(* stretches that this module makes atomic.                                 *)

Contended(t) ==
    \E u \in Threads \ {t} : CanRun(u) /\ (Woken(u) \/ Op(u) \notin {"exit", "nil", "wait"})

TrySend(t) ==
    /\ \E op \in {"trysend", "selsend"} : Doing(t, op, {})
    /\ Capacity > 0 /\ Room
    /\ Enqueue(Value(t))
    /\ returned' = returned \cup {Value(t)}
    /\ Return(t) /\ Unblocked(t)
    /\ UNCHANGED prog

TrySendClosed(t) ==
    /\ \E op \in {"trysend", "selsend"} : Doing(t, op, {})
    /\ closed
    /\ Panic(t)

TrySendNotReady(t) ==
    /\ Doing(t, "trysend", {})
    /\ Contended(t) \/ (~closed /\ length >= Capacity)
    /\ Return(t) /\ Unblocked(t)
    /\ UNCHANGED <<chanVars, waitVars, prog, history>>

TryRecv(t) ==
    /\ \E op \in {"tryrecv", "selrecv"} : Doing(t, op, {})
    /\ Capacity > 0 /\ length > 0
    /\ Dequeue
    /\ Return(t) /\ Unblocked(t)
    /\ UNCHANGED prog

\* Not ready, or ready with the zero value of a closed channel: no value moves.
TryRecvNothing(t) ==
    /\ \/ Doing(t, "tryrecv", {}) /\ (Contended(t) \/ length = 0)
       \/ Doing(t, "selrecv", {}) /\ closed /\ length = 0
    /\ Return(t) /\ Unblocked(t)
    /\ UNCHANGED <<chanVars, waitVars, prog, history>>

-----------------------------------------------------------------------------
(* The end of a thread, and goo_scheduler_wait *)

\* goroutine_wrapper returns into goo_goroutine_exit.
GoroutineExit(t) ==
    /\ Doing(t, "exit", {}) /\ t # Main
    /\ pc' = [pc EXCEPT ![t] = "exited"]
    /\ num_goroutines' = num_goroutines - 1
    /\ UNCHANGED <<chanVars, waitVars, prog, ip, blocked, asleep_streak, outcome, history>>

\* main's return ends the process, whatever its goroutines are doing.
MainReturn ==
    /\ Doing(Main, "exit", {})
    /\ outcome' = "exit"
    /\ pc' = [pc EXCEPT ![Main] = "exited"]
    /\ UNCHANGED <<chanVars, waitVars, prog, ip, schedVars, history>>

\* Mutant: off by one: main counted as a goroutine.
AllButOneAsleep == num_goroutines > 0 /\ blocked = num_goroutines + 1

\* The poll's all_asleep; this module never has a goroutine in the ready queue.
AllAsleep == num_goroutines > 0 /\ blocked = num_goroutines

\* Some signalled goroutine has not yet got as far as goo_sched_block_end.
WakeupPending == \E t \in Goroutines : Woken(t)

\* One iteration of the polling loop of goo_scheduler_wait.  A woken goroutine
\* is off the blocked count from its goo_sched_block_end to the next
\* goo_sched_block_begin: a poll that falls in between ends the streak, even
\* when the goroutine wakes in vain and parks again in the step that models it.
WaitPoll ==
    /\ Doing(Main, "wait", {})
    /\ num_goroutines > 0
    /\ \/ AllAsleep /\ asleep_streak' = asleep_streak + 1
       \/ (~AllAsleep \/ WakeupPending) /\ asleep_streak' = 0
    /\ TimelyWakeups /\ WakeupPending => asleep_streak' < Polls
    /\ outcome' = IF asleep_streak' >= Polls THEN "deadlock" ELSE outcome
    /\ UNCHANGED <<chanVars, waitVars, prog, ip, pc, blocked, num_goroutines, history>>

WaitDone ==
    /\ Doing(Main, "wait", {})
    /\ num_goroutines = 0
    /\ Return(Main)
    /\ asleep_streak' = 0
    /\ UNCHANGED <<chanVars, waitVars, prog, blocked, num_goroutines, outcome, history>>

\* pthread_cond_wait may return without a signal.
SpuriousWakeup(t) ==
    /\ outcome = "running"
    /\ Asleep(t)
    /\ not_empty' = not_empty \ {t}
    /\ not_full' = not_full \ {t}
    /\ UNCHANGED <<chanVars, prog, ip, pc, schedVars, outcome, history>>

\* The process is gone.
Terminated ==
    /\ outcome # "running"
    /\ UNCHANGED vars

-----------------------------------------------------------------------------
goo_chan_send(t) ==
    \/ SendOnClosed(t)
    \/ SendWaitFull(t) \/ SendBuffered(t)
    \/ SendWaitSlot(t) \/ SendPark(t)
    \/ SendWaitTaken(t) \/ SendUntaken(t) \/ SendTaken(t)

goo_chan_recv(t) ==
    RecvWait(t) \/ RecvClosed(t) \/ RecvBuffered(t) \/ RecvSlot(t)

goo_chan_close(t) == Close(t) \/ CloseClosed(t)

goo_chan_try_send(t) == TrySend(t) \/ TrySendClosed(t) \/ TrySendNotReady(t)

goo_chan_try_recv(t) == TryRecv(t) \/ TryRecvNothing(t)

goo_select(t) == goo_chan_try_send(t) \/ goo_chan_try_recv(t)

Step(t) ==
    \/ goo_chan_send(t) \/ goo_chan_recv(t) \/ goo_chan_close(t)
    \/ goo_select(t)
    \/ NilBlock(t)
    \/ GoroutineExit(t)

MainStep == MainReturn \/ WaitPoll \/ WaitDone

Next ==
    \/ \E t \in Threads : Step(t) \/ SpuriousWakeup(t)
    \/ MainStep
    \/ Terminated

Spec == Init /\ [][Next]_vars

\* Every runnable thread gets its CPU and, in time, the mutex.  Nothing is
\* promised about spurious wakeups.
Fairness ==
    /\ \A t \in Threads : WF_vars(Step(t))
    /\ WF_vars(MainStep)

FairSpec == Spec /\ Fairness

-----------------------------------------------------------------------------
(* Properties *)

\* Positions in the ring; an unbuffered channel's head and tail stay at 0.
Index == IF Capacity > 0 THEN 0..(Capacity - 1) ELSE {0}

ChanTypeOK ==
    /\ buf \in [0..(Capacity - 1) -> Values]
    /\ head \in Index /\ tail \in Index /\ length \in 0..Capacity
    /\ rv_slot \in Values

FlagTypeOK == rv_full \in BOOLEAN /\ closed \in BOOLEAN

ThreadTypeOK ==
    /\ not_empty \subseteq Threads /\ not_full \subseteq Threads
    /\ prog \in Programs
    /\ ip \in [Threads -> Nat]
    /\ pc \in [Threads -> PCs]

SchedTypeOK ==
    /\ blocked \in Nat /\ num_goroutines \in Int /\ asleep_streak \in Nat
    /\ outcome \in Outcomes

HistoryTypeOK ==
    sent \in Seq(Values) /\ rcvd \in Seq(Values) /\ returned \subseteq Values

TypeOK == ChanTypeOK /\ FlagTypeOK /\ ThreadTypeOK /\ SchedTypeOK /\ HistoryTypeOK

\* The values in the channel, oldest first.
Contents ==
    IF Capacity > 0
    THEN [i \in 1..length |-> buf[(head + i - 1) % Capacity]]
    ELSE IF rv_full THEN <<rv_slot>> ELSE <<>>

\* No value is lost, duplicated, reordered or read from memory nobody wrote:
\* what was accepted is what was taken, in order, followed by what is stored.
FIFO == sent = rcvd \o Contents

Available == IF Capacity > 0 THEN length ELSE IF rv_full THEN 1 ELSE 0

WokenReceivers == {t \in Threads : pc[t] = "recv_wait" /\ t \notin not_empty}

\* A send signals one receiver (pthread_cond_signal), so several signals can be
\* in flight: while any receiver still sleeps the channel is open and every
\* value in it has a receiver already woken to come for it.
ReceiversWoken ==
    not_empty # {} => ~closed /\ Available <= Cardinality(WokenReceivers)

\* Two kinds of sender sleep on not_full, hence the broadcasts of recv: a
\* sender sleeps only while the channel is open and its ring or slot is full.
SendersWoken ==
    not_full # {} => ~closed /\ IF Capacity > 0 THEN length = Capacity ELSE rv_full

\* "send returns only after the value has been delivered" (channels.c:331-333),
\* even when another sender has refilled the slot in the meantime.
RendezvousDelivers ==
    Capacity = 0 => \A v \in returned : \E i \in 1..Len(rcvd) : rcvd[i] = v

Stuck(t) == pc[t] \in {"exited", "nil_block"} \/ Asleep(t)

BlockedGoroutines == {t \in Goroutines : pc[t] \in Parking \cup {"nil_block"}}

LiveGoroutines == {t \in Goroutines : pc[t] # "exited"}

\* The counters the detector reads agree with the goroutines themselves: a
\* goroutine is counted from its first goo_sched_block_begin to the matching
\* goo_sched_block_end, signalled or not, however often it wakes in vain.
CountersExact ==
    /\ blocked = Cardinality(BlockedGoroutines)
    /\ num_goroutines = Cardinality(LiveGoroutines)

\* "A correct program must never trip the detector": when the process is
\* aborted for deadlock, no goroutine could have taken another step.
AbortIsDeadlock == outcome = "deadlock" => \A t \in Goroutines : Stuck(t)

\* The comment at channels.c:365-369: "a delivery that DID complete still
\* returns success below even if the channel was closed immediately after".
DeliveredSendSucceeds ==
    \A t \in Threads : pc[t] = "panicked" /\ Op(t) = "send" =>
        \A i \in 1..Len(rcvd) : rcvd[i] # Value(t)

SendOps == {"send", "selsend"}

RecvOps == {"recv", "selrecv"}

\* The calls of the given kinds, as thread and place in its program.
Calls(ops) ==
    UNION {{<<t, i>> : i \in {j \in 1..Len(prog[t]) : prog[t][j] \in ops}} : t \in Threads}

Only(t, ops) == \A i \in 1..Len(prog[t]) : prog[t][i] \in ops

\* As many receives as sends, no thread doing both; selects poll a ring.
Balanced ==
    /\ \A t \in Threads : \/ Only(t, SendOps) \/ Only(t, RecvOps)
                          \/ t = Main /\ Only(t, {"wait"})
    /\ Capacity = 0 => Calls({"selsend", "selrecv"}) = {}
    /\ Cardinality(Calls(SendOps)) = Cardinality(Calls(RecvOps))

\* In a select whose case is not ready, or in goo_scheduler_wait.
Polling(t) ==
    /\ pc[t] = "run"
    /\ \/ Op(t) = "selsend" /\ length >= Capacity
       \/ Op(t) = "selrecv" /\ length = 0
       \/ Op(t) = "wait" /\ num_goroutines > 0

\* With as many receives as sends nobody is left behind, whichever sleeper each
\* signal happens to wake: until the process ends some thread has a step to
\* make, and the detector has nothing to report.
BalancedGoesOn ==
    outcome = "deadlock" \/ (outcome = "running" /\ \A t \in Threads : Stuck(t) \/ Polling(t))
        => ~Balanced

Rested == [][~\E t \in Threads : SpuriousWakeup(t)]_vars

\* The bounded FIFO queue the channel promises to be.
Abstract == INSTANCE ChanSpec WITH
    Bound <- IF Capacity > 0 THEN Capacity ELSE 1, queue <- Contents

ImplementsQueue == Abstract!Spec
=============================================================================
