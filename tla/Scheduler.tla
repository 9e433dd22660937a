----------------------------- MODULE Scheduler -----------------------------
(***************************************************************************)
(* The goroutine scheduler (src/src/runtime/concurrency.c): a fixed pool   *)
(* of OS threads, the workers, that pop goroutines from one LIFO list and  *)
(* switch onto their stacks with ucontext.  A goroutine that waits on a    *)
(* channel sleeps in pthread_cond_wait on its worker's own thread, so it   *)
(* keeps the worker; only yielding and exiting give the worker back.       *)
(*                                                                         *)
(* Each access to the scheduler under scheduler_mutex is one action, and   *)
(* so is each context switch.  The program the goroutines run uses one     *)
(* buffered channel that is never full (its own protocol is Channel's      *)
(* subject) as its only means of waiting.                                  *)
(***************************************************************************)
EXTENDS Integers, Sequences, FiniteSets

CONSTANTS
    Workers,        \* the OS threads of goo_scheduler_init
    Goroutines,     \* every goroutine a program may start
    Main,           \* the main thread
    NULL,
    Programs        \* the programs explored: thread -> operations

Threads == Goroutines \cup {Main}

\* One operation: start goroutine g, yield, use the channel, or (main only)
\* wait for the goroutines or shut the scheduler down.
Ops == ({"go"} \X Goroutines)
       \cup {<<"yield">>, <<"send">>, <<"recv">>, <<"wait">>, <<"shutdown">>}

ASSUME SchedulerAssumption ==
    /\ IsFiniteSet(Goroutines) /\ IsFiniteSet(Workers) /\ Workers # {}
    /\ Main \notin Goroutines /\ Main \notin Workers
    /\ NULL \notin Goroutines \cup {Main}
    /\ Programs \subseteq [Threads -> Seq(Ops)]

\* main starts no goroutine after goo_scheduler_shutdown, which forgets the
\* goroutines still in the queue.
ASSUME ShutdownAssumption ==
    \A p \in Programs : \A i, j \in 1..Len(p[Main]) :
        p[Main][i] = <<"shutdown">> /\ i < j => p[Main][j][1] # "go"

VARIABLES
    g_scheduler,            \* "none" before goo_scheduler_init, then "up"
    running,                \* g_scheduler->running
    ready_queue,            \* the list, its head first
    num_goroutines, blocked,
    state,                  \* goroutine->state, "none" before goo_go
    ctx,                    \* goroutine->context: "none", "saved", or "live"
    freed,                  \* goroutines whose stack has been freed
    wpc,                    \* where each worker is
    t_current, t_reap, t_requeue,
    prog, ip, pc,           \* each thread's program and place in it
    tokens, waiting,        \* values in the channel; threads asleep on it
    outcome

schedVars  == <<g_scheduler, running, num_goroutines, blocked>>
workerVars == <<wpc, t_current, t_reap, t_requeue>>
chanVars   == <<tokens, waiting>>
vars == <<schedVars, ready_queue, state, ctx, freed, workerVars, prog, ip, pc,
          chanVars, outcome>>

Init ==
    /\ g_scheduler = "none" /\ running = FALSE
    /\ ready_queue = <<>>
    /\ num_goroutines = 0 /\ blocked = 0
    /\ state = [g \in Goroutines |-> "none"]
    /\ ctx = [g \in Goroutines |-> "none"]
    /\ freed = {}
    /\ wpc = [w \in Workers |-> "off"]
    /\ t_current = [w \in Workers |-> NULL]
    /\ t_reap = [w \in Workers |-> NULL]
    /\ t_requeue = [w \in Workers |-> NULL]
    /\ prog \in Programs
    /\ ip = [p \in Threads |-> 1]
    /\ pc = [p \in Threads |-> "run"]
    /\ tokens = 0 /\ waiting = {}
    /\ outcome = "running"

-----------------------------------------------------------------------------
(* The code of a program runs on a carrier: a worker switched onto a       *)
(* goroutine's stack, or the main thread.                                  *)

Carriers == Workers \cup {Main}

Self(k) == IF k = Main THEN Main ELSE t_current[k]

Op(p) == IF ip[p] <= Len(prog[p]) THEN prog[p][ip[p]] ELSE <<"exit">>

\* Carrier k executes at place c of its thread's code.
At(k, c) ==
    /\ outcome = "running"
    /\ k \in Workers => wpc[k] = "on"
    /\ pc[Self(k)] = c

Calls(k, op) == At(k, "run") /\ Op(Self(k))[1] = op

Goto(p, c) == pc' = [pc EXCEPT ![p] = c] /\ UNCHANGED ip

Return(p) == pc' = [pc EXCEPT ![p] = "run"] /\ ip' = [ip EXCEPT ![p] = @ + 1]

-----------------------------------------------------------------------------
(* The list and the counter.  An operator marked as a mutant is a wrong     *)
(* version of the definition after it; no action uses one.                 *)

\* Mutant: the new head is not linked to the old list.
PushedAlone(g) == <<g>>

\* scheduler_add_goroutine puts a goroutine at the head.
Pushed(g) == <<g>> \o ready_queue

\* Mutant: the head is read but not unlinked.
StillQueued == ready_queue

Popped == Tail(ready_queue)

\* Mutant: a new goroutine is not counted.
Uncounted == num_goroutines

CountedIn == num_goroutines + 1

\* Mutant: only goroutines that no worker has picked up are waited for.
QueueEmpty == ready_queue = <<>>

\* goo_scheduler_wait's done, and goo_sched_block_begin's check for main.
AllDone == num_goroutines = 0 /\ ready_queue = <<>>

-----------------------------------------------------------------------------
(* goo_go *)

\* Start the scheduler if need be and count the goroutine.
GoCount(k) ==
    /\ Calls(k, "go")
    /\ LET g == Op(Self(k))[2] IN
        /\ state[g] = "none"
        /\ state' = [state EXCEPT ![g] = "ready"]
    /\ num_goroutines' = CountedIn
    /\ IF g_scheduler = "none"
       THEN /\ g_scheduler' = "up" /\ running' = TRUE
            /\ wpc' = [w \in Workers |-> "loop"]
       ELSE UNCHANGED <<g_scheduler, running, wpc>>
    /\ Goto(Self(k), "go_enqueue")
    /\ UNCHANGED <<ready_queue, blocked, ctx, freed, t_current, t_reap, t_requeue,
                   prog, chanVars, outcome>>

\* makecontext, then scheduler_add_goroutine.
GoEnqueue(k) ==
    /\ At(k, "go_enqueue")
    /\ LET g == Op(Self(k))[2] IN
        /\ ctx' = [ctx EXCEPT ![g] = "saved"]
        /\ ready_queue' = Pushed(g)
    /\ Return(Self(k))
    /\ UNCHANGED <<schedVars, state, freed, workerVars, prog, chanVars, outcome>>

-----------------------------------------------------------------------------
(* scheduler_main_loop *)

\* scheduler_get_next_goroutine found one.
GetNext(w) ==
    /\ outcome = "running"
    /\ wpc[w] = "loop" /\ running /\ ready_queue # <<>>
    /\ t_current' = [t_current EXCEPT ![w] = Head(ready_queue)]
    /\ t_reap' = [t_reap EXCEPT ![w] = NULL]
    /\ t_requeue' = [t_requeue EXCEPT ![w] = NULL]
    /\ state' = [state EXCEPT ![Head(ready_queue)] = "running"]
    /\ ready_queue' = Popped
    /\ wpc' = [wpc EXCEPT ![w] = "switch"]
    /\ UNCHANGED <<schedVars, ctx, freed, prog, ip, pc, chanVars, outcome>>

\* swapcontext onto the goroutine's stack.
SwitchTo(w) ==
    /\ outcome = "running"
    /\ wpc[w] = "switch"
    /\ ctx' = [ctx EXCEPT ![t_current[w]] = "live"]
    /\ wpc' = [wpc EXCEPT ![w] = "on"]
    /\ UNCHANGED <<schedVars, ready_queue, state, freed, t_current, t_reap, t_requeue,
                   prog, ip, pc, chanVars, outcome>>

\* Mutant: whatever ran is freed, exited or not.
WhateverRan(w) == t_current[w]

ToReap(w) == t_reap[w]

\* Back on the worker's stack: free a goroutine that exited ...
Reap(w) ==
    /\ outcome = "running"
    /\ wpc[w] = "back" /\ ToReap(w) # NULL
    /\ freed' = freed \cup {ToReap(w)}
    /\ t_reap' = [t_reap EXCEPT ![w] = NULL]
    /\ UNCHANGED <<schedVars, ready_queue, state, ctx, wpc, t_current, t_requeue,
                   prog, ip, pc, chanVars, outcome>>

Yielded(w) == t_requeue[w] # NULL

\* ... publish one that yielded ...
Requeue(w) ==
    /\ outcome = "running"
    /\ wpc[w] = "back" /\ t_reap[w] = NULL /\ Yielded(w)
    /\ ready_queue' = Pushed(t_requeue[w])
    /\ t_requeue' = [t_requeue EXCEPT ![w] = NULL]
    /\ UNCHANGED <<schedVars, state, ctx, freed, wpc, t_current, t_reap,
                   prog, ip, pc, chanVars, outcome>>

\* ... and go round again.
LoopAgain(w) ==
    /\ outcome = "running"
    /\ wpc[w] = "back" /\ t_reap[w] = NULL /\ t_requeue[w] = NULL
    /\ t_current' = [t_current EXCEPT ![w] = NULL]
    /\ wpc' = [wpc EXCEPT ![w] = "loop"]
    /\ UNCHANGED <<schedVars, ready_queue, state, ctx, freed, t_reap, t_requeue,
                   prog, ip, pc, chanVars, outcome>>

\* The loop's test finds the scheduler stopped; the thread ends.
WorkerStops(w) ==
    /\ outcome = "running"
    /\ wpc[w] = "loop" /\ ~running
    /\ wpc' = [wpc EXCEPT ![w] = "stopped"]
    /\ UNCHANGED <<schedVars, ready_queue, state, ctx, freed, t_current, t_reap, t_requeue,
                   prog, ip, pc, chanVars, outcome>>

-----------------------------------------------------------------------------
(* goo_yield and goo_goroutine_exit, still on the goroutine's stack *)

\* Mutant: the goroutine is published before its context is saved.
YieldPublished(w) ==
    /\ Calls(w, "yield")
    /\ state' = [state EXCEPT ![t_current[w]] = "ready"]
    /\ ready_queue' = Pushed(t_current[w])
    /\ Goto(t_current[w], "yield_swap")
    /\ UNCHANGED <<schedVars, ctx, freed, workerVars, prog, chanVars, outcome>>

YieldHandOff(w) ==
    /\ Calls(w, "yield")
    /\ state' = [state EXCEPT ![t_current[w]] = "ready"]
    /\ t_requeue' = [t_requeue EXCEPT ![w] = t_current[w]]
    /\ Goto(t_current[w], "yield_swap")
    /\ UNCHANGED <<schedVars, ready_queue, ctx, freed, wpc, t_current, t_reap,
                   prog, chanVars, outcome>>

\* swapcontext saves the goroutine and resumes the worker's own context.
YieldSwap(w) ==
    /\ At(w, "yield_swap")
    /\ ctx' = [ctx EXCEPT ![t_current[w]] = "saved"]
    /\ wpc' = [wpc EXCEPT ![w] = "back"]
    /\ Return(t_current[w])
    /\ UNCHANGED <<schedVars, ready_queue, state, freed, t_current, t_reap, t_requeue,
                   prog, chanVars, outcome>>

ExitCount(w) ==
    /\ Calls(w, "exit")
    /\ state' = [state EXCEPT ![t_current[w]] = "done"]
    /\ num_goroutines' = num_goroutines - 1
    /\ t_reap' = [t_reap EXCEPT ![w] = t_current[w]]
    /\ Goto(t_current[w], "exit_swap")
    /\ UNCHANGED <<g_scheduler, running, ready_queue, blocked, ctx, freed, wpc, t_current,
                   t_requeue, prog, chanVars, outcome>>

\* setcontext: nothing is saved, the goroutine never runs again.
ExitSwap(w) ==
    /\ At(w, "exit_swap")
    /\ wpc' = [wpc EXCEPT ![w] = "back"]
    /\ UNCHANGED <<schedVars, ready_queue, state, ctx, freed, t_current, t_reap, t_requeue,
                   prog, ip, pc, chanVars, outcome>>

-----------------------------------------------------------------------------
(* Waiting on a channel, which keeps the carrier *)

ChanSend(k) ==
    /\ Calls(k, "send")
    /\ tokens' = tokens + 1
    /\ waiting' \in IF waiting = {} THEN {{}} ELSE {waiting \ {p} : p \in waiting}
    /\ Return(Self(k))
    /\ UNCHANGED <<schedVars, ready_queue, state, ctx, freed, workerVars, prog, outcome>>

AtRecv(k) == Calls(k, "recv") \/ (At(k, "parked") /\ Self(k) \notin waiting)

\* goo_sched_block_end for a thread that has come back from cond_wait.
block_end(p) == IF pc[p] = "parked" /\ p # Main /\ blocked > 0 THEN blocked - 1 ELSE blocked

ChanRecv(k) ==
    /\ AtRecv(k)
    /\ tokens > 0
    /\ tokens' = tokens - 1
    /\ blocked' = block_end(Self(k))
    /\ state' = IF k = Main THEN state ELSE [state EXCEPT ![Self(k)] = "running"]
    /\ Return(Self(k))
    /\ UNCHANGED <<g_scheduler, running, num_goroutines, ready_queue, ctx, freed,
                   workerVars, prog, waiting, outcome>>

\* goo_sched_block_begin's check for main.
NobodyLeft == g_scheduler = "none" \/ AllDone

ChanPark(k) ==
    /\ AtRecv(k)
    /\ tokens = 0
    /\ IF k = Main
       THEN /\ outcome' = IF NobodyLeft THEN "deadlock" ELSE outcome
            /\ UNCHANGED <<blocked, state>>
       ELSE /\ blocked' = block_end(Self(k)) + 1
            /\ state' = [state EXCEPT ![Self(k)] = "blocked"]
            /\ UNCHANGED outcome
    /\ waiting' = IF outcome' = "running" THEN waiting \cup {Self(k)} ELSE waiting
    /\ Goto(Self(k), "parked")
    /\ UNCHANGED <<g_scheduler, running, num_goroutines, ready_queue, ctx, freed,
                   workerVars, prog, tokens>>

-----------------------------------------------------------------------------
(* main: goo_scheduler_wait, goo_scheduler_shutdown, and its return *)

WaitDone ==
    /\ Calls(Main, "wait")
    /\ g_scheduler = "none" \/ AllDone \/ ~running
    /\ Return(Main)
    /\ UNCHANGED <<schedVars, ready_queue, state, ctx, freed, workerVars, prog,
                   chanVars, outcome>>

\* A full streak of all-asleep polls (Channel models the streak itself): every
\* live goroutine sleeps, and none of them has been signalled.
WaitAbort ==
    /\ Calls(Main, "wait")
    /\ g_scheduler = "up" /\ running
    /\ num_goroutines > 0 /\ blocked = num_goroutines /\ ready_queue = <<>>
    /\ \A g \in Goroutines : pc[g] = "parked" => g \in waiting
    /\ outcome' = "deadlock"
    /\ UNCHANGED <<schedVars, ready_queue, state, ctx, freed, workerVars, prog, ip, pc,
                   chanVars>>

\* goo_yield returns at once on a thread that is not a goroutine.
YieldMain ==
    /\ Calls(Main, "yield")
    /\ Return(Main)
    /\ UNCHANGED <<schedVars, ready_queue, state, ctx, freed, workerVars, prog,
                   chanVars, outcome>>

ShutdownFlag ==
    /\ Calls(Main, "shutdown")
    /\ running' = FALSE
    /\ Goto(Main, "join")
    /\ UNCHANGED <<g_scheduler, num_goroutines, blocked, ready_queue, state, ctx, freed,
                   workerVars, prog, chanVars, outcome>>

\* Every worker joined; the scheduler is freed.
ShutdownJoined ==
    /\ At(Main, "join")
    /\ \A w \in Workers : wpc[w] \in {"off", "stopped"}
    /\ g_scheduler' = "none"
    /\ wpc' = [w \in Workers |-> "off"]
    /\ num_goroutines' = 0 /\ blocked' = 0 /\ ready_queue' = <<>>
    /\ Return(Main)
    /\ UNCHANGED <<running, state, ctx, freed, t_current, t_reap, t_requeue, prog,
                   chanVars, outcome>>

MainReturn ==
    /\ Calls(Main, "exit")
    /\ outcome' = "exit"
    /\ UNCHANGED <<schedVars, ready_queue, state, ctx, freed, workerVars, prog, ip, pc,
                   chanVars>>

Terminated == outcome # "running" /\ UNCHANGED vars

-----------------------------------------------------------------------------
\* One step of the code a carrier is executing.
Exec(k) ==
    \/ GoCount(k) \/ GoEnqueue(k)
    \/ ChanSend(k) \/ ChanRecv(k) \/ ChanPark(k)

Worker(w) ==
    \/ GetNext(w) \/ SwitchTo(w)
    \/ Exec(w)
    \/ YieldHandOff(w) \/ YieldSwap(w) \/ ExitCount(w) \/ ExitSwap(w)
    \/ Reap(w) \/ Requeue(w) \/ LoopAgain(w)
    \/ WorkerStops(w)

MainThread ==
    \/ Exec(Main)
    \/ YieldMain
    \/ WaitDone \/ WaitAbort
    \/ ShutdownFlag \/ ShutdownJoined
    \/ MainReturn

Next ==
    \/ \E w \in Workers : Worker(w)
    \/ MainThread
    \/ Terminated

Spec == Init /\ [][Next]_vars

\* The operating system runs every thread that can run.
FairSpec ==
    /\ Spec
    /\ \A w \in Workers : WF_vars(Worker(w))
    /\ WF_vars(MainThread)

-----------------------------------------------------------------------------
(* Properties *)

\* Every variable holds what its declaration says; only goroutines, never a
\* null left in t_requeue or t_reap, are in the ready queue or freed.
TypeOK ==
    /\ g_scheduler \in {"none", "up"} /\ running \in BOOLEAN
    /\ ready_queue \in Seq(Goroutines)
    /\ num_goroutines \in Nat /\ blocked \in Nat
    /\ state \in [Goroutines -> {"none", "ready", "running", "blocked", "done"}]
    /\ ctx \in [Goroutines -> {"none", "saved", "live"}]
    /\ freed \subseteq Goroutines
    /\ wpc \in [Workers -> {"off", "loop", "switch", "on", "back", "stopped"}]
    /\ t_current \in [Workers -> Goroutines \cup {NULL}]
    /\ t_reap \in [Workers -> Goroutines \cup {NULL}]
    /\ t_requeue \in [Workers -> Goroutines \cup {NULL}]
    /\ prog \in Programs /\ ip \in [Threads -> Nat \ {0}]
    /\ pc \in [Threads -> {"run", "go_enqueue", "yield_swap", "exit_swap", "parked", "join"}]
    /\ tokens \in Nat /\ waiting \subseteq Threads
    /\ outcome \in {"running", "deadlock", "exit"}

InQueue(g) == \E i \in 1..Len(ready_queue) : ready_queue[i] = g

\* Workers that are running g, about to, or about to put it back.
Holders(g) ==
    {w \in Workers :
        \/ wpc[w] \in {"switch", "on"} /\ t_current[w] = g
        \/ wpc[w] = "back" /\ g \in {t_reap[w], t_requeue[w]}}

\* A goroutine is in one place: once in the queue or with one worker.
OnePlace ==
    \A g \in Goroutines :
        /\ \A i, j \in 1..Len(ready_queue) : ready_queue[i] = g /\ ready_queue[j] = g => i = j
        /\ InQueue(g) => Holders(g) = {}
        /\ \A v, w \in Holders(g) : v = w

\* A goroutine that a worker can pick up has its context saved and its stack
\* still allocated: goo_yield publishes it only after the switch away.
SafeToSwitch ==
    \A g \in Goroutines :
        (InQueue(g) \/ \E w \in Workers : wpc[w] = "switch" /\ t_current[w] = g)
            => ctx[g] = "saved" /\ g \notin freed

\* No worker runs on a stack that has been freed, and only stacks of finished
\* goroutines are freed.
NoRunAfterFree ==
    /\ \A w \in Workers : wpc[w] = "on" => t_current[w] \notin freed
    /\ \A g \in freed : state[g] = "done"

\* num_goroutines counts from goo_go to goo_goroutine_exit, so a goroutine in
\* the ready queue is always counted and main's deadlock check cannot miss one
\* that is between the two lists.
CountExact ==
    g_scheduler = "up" =>
        num_goroutines = Cardinality({g \in Goroutines : state[g] \notin {"none", "done"}})

\* goo_scheduler_wait is a barrier ("block the calling thread until all
\* spawned goroutines have finished"), goroutines started by goroutines included.
WaitIsBarrier ==
    [][WaitDone /\ running => \A g \in Goroutines : state[g] \in {"none", "done"}]_vars

\* goo_scheduler_wait does not wait in vain: a goroutine that has been started
\* when main waits finishes, unless the program is found to be deadlocked.
StartedFinishes ==
    \A g \in Goroutines :
        (Op(Main) = <<"wait">> /\ state[g] \in {"ready", "running", "blocked"})
            ~> (state[g] = "done" \/ outcome # "running")
=============================================================================
