-------------------------- MODULE Scheduler_proof --------------------------
(***************************************************************************)
(* Theorems about Scheduler, for any number of workers and goroutines and  *)
(* any programs.  Inv below is the inductive invariant.                    *)
(***************************************************************************)
EXTENDS Scheduler, FiniteSetTheorems, TLAPS

(* Worker w runs g, is about to, or is about to put it back or free it.    *)
Has(w, g) ==
    \/ wpc[w] \in {"switch", "on"} /\ t_current[w] = g
    \/ wpc[w] = "back" /\ (t_reap[w] = g \/ t_requeue[w] = g)

(* A goroutine that has been published is ready, saved, allocated, and not *)
(* in the middle of a call.                                                *)
Resumable(g) == ctx[g] = "saved" /\ g \notin freed /\ pc[g] = "run"

(* What each place of the worker's loop says about its goroutine.          *)
Working ==
    \A w \in Workers :
        /\ wpc[w] \notin {"on", "back"} => t_reap[w] = NULL /\ t_requeue[w] = NULL
        /\ wpc[w] \in {"switch", "on"} => t_current[w] \in Goroutines
        /\ wpc[w] = "switch" => state[t_current[w]] = "running" /\ Resumable(t_current[w])
        /\ wpc[w] = "on" =>
              /\ ctx[t_current[w]] = "live" /\ t_current[w] \notin freed
              /\ t_reap[w] = IF pc[t_current[w]] = "exit_swap" THEN t_current[w] ELSE NULL
              /\ t_requeue[w] = IF pc[t_current[w]] = "yield_swap" THEN t_current[w] ELSE NULL
              /\ pc[t_current[w]] = "exit_swap" => state[t_current[w]] = "done"
              /\ pc[t_current[w]] = "yield_swap" => state[t_current[w]] = "ready"
              /\ pc[t_current[w]] \notin {"exit_swap", "yield_swap"} =>
                    state[t_current[w]] \in {"running", "blocked"}
        /\ wpc[w] = "back" =>
              /\ t_reap[w] = NULL \/ t_requeue[w] = NULL
              /\ t_reap[w] # NULL => state[t_reap[w]] = "done"
              /\ t_requeue[w] # NULL =>
                    state[t_requeue[w]] = "ready" /\ Resumable(t_requeue[w])

Queued ==
    \A i \in 1..Len(ready_queue) :
        state[ready_queue[i]] = "ready" /\ Resumable(ready_queue[i])

(* OnePlace, element by element.                                           *)
Alone ==
    /\ \A i, j \in 1..Len(ready_queue) : ready_queue[i] = ready_queue[j] => i = j
    /\ \A i \in 1..Len(ready_queue), w \in Workers : ~Has(w, ready_queue[i])
    /\ \A g \in Goroutines : \A v, w \in Workers : Has(v, g) /\ Has(w, g) => v = w

(* A goroutine without a context has not been published.                   *)
Unpublished ==
    \A g \in Goroutines :
        /\ state[g] = "none" => ctx[g] = "none"
        /\ ctx[g] = "none" => state[g] \in {"none", "ready"} /\ pc[g] = "run"

(* Between the two halves of goo_go the new goroutine belongs to its       *)
(* starter alone.                                                          *)
Starting ==
    /\ \A p \in Threads : pc[p] = "go_enqueue" =>
          /\ Op(p)[2] \in Goroutines
          /\ state[Op(p)[2]] = "ready" /\ ctx[Op(p)[2]] = "none"
    /\ \A p, q \in Threads :
          pc[p] = "go_enqueue" /\ pc[q] = "go_enqueue" /\ Op(p)[2] = Op(q)[2] => p = q

Freed == \A g \in freed : state[g] = "done"

Live == {g \in Goroutines : state[g] \notin {"none", "done"}}

ShutDown == \E i \in 1..Len(prog[Main]) : i < ip[Main] /\ prog[Main][i] = <<"shutdown">>

(* Before goo_scheduler_init and after goo_scheduler_shutdown.             *)
Down ==
    /\ g_scheduler = "none" =>
          /\ ~running /\ num_goroutines = 0 /\ \A w \in Workers : wpc[w] = "off"
          /\ Live = {} \/ ShutDown
    /\ pc[Main] = "join" => Op(Main) = <<"shutdown">> /\ ~running

Counted == g_scheduler = "up" => num_goroutines = Cardinality(Live)

Inv ==
    /\ TypeOK /\ Working /\ Queued /\ Alone /\ Unpublished /\ Starting /\ Freed
    /\ Down /\ Counted

-----------------------------------------------------------------------------
(* The list.                                                               *)
LEMMA PushedSeq ==
    ASSUME ready_queue \in Seq(Goroutines), NEW g \in Goroutines
    PROVE  /\ Pushed(g) \in Seq(Goroutines)
           /\ Len(Pushed(g)) = Len(ready_queue) + 1
           /\ Pushed(g)[1] = g
           /\ \A i \in 2..Len(Pushed(g)) :
                 i - 1 \in 1..Len(ready_queue) /\ Pushed(g)[i] = ready_queue[i - 1]
  BY DEF Pushed

LEMMA PoppedSeq ==
    ASSUME ready_queue \in Seq(Goroutines), ready_queue # <<>>
    PROVE  /\ Popped \in Seq(Goroutines)
           /\ Len(Popped) = Len(ready_queue) - 1
           /\ Head(ready_queue) = ready_queue[1] /\ Head(ready_queue) \in Goroutines
           /\ 1 \in 1..Len(ready_queue)
           /\ \A i \in 1..Len(Popped) :
                 i + 1 \in 2..Len(ready_queue) /\ Popped[i] = ready_queue[i + 1]
  BY DEF Popped

(* A thread that starts a goroutine names one.                             *)
LEMMA OpType ==
    ASSUME TypeOK, NEW p \in Threads
    PROVE  /\ Op(p) \in Ops \cup {<<"exit">>}
           /\ Op(p)[1] = "go" => Op(p)[2] \in Goroutines
  <1>1. prog[p] \in Seq(Ops) /\ ip[p] \in Nat \ {0}
    BY SchedulerAssumption DEF TypeOK
  <1>2. Op(p) \in Ops \cup {<<"exit">>}
    BY <1>1 DEF Op
  <1>3. ASSUME Op(p)[1] = "go" PROVE Op(p)[2] \in Goroutines
    BY <1>2, <1>3 DEF Ops
  <1> QED
    BY <1>2, <1>3

(* Who executes the program's code.                                        *)
LEMMA SelfOf ==
    ASSUME Inv, NEW k \in Carriers, NEW c, At(k, c)
    PROVE  /\ Self(k) \in Threads /\ pc[Self(k)] = c
           /\ \/ k = Main /\ Self(k) = Main
              \/ k \in Workers /\ k # Main /\ wpc[k] = "on" /\ Self(k) = t_current[k]
                 /\ Self(k) \in Goroutines /\ Self(k) # Main
  BY SchedulerAssumption DEF Inv, Working, At, Self, Carriers, Threads

(* The parts of the invariant that an action leaves alone.                 *)
LEMMA OpSame ==
    ASSUME UNCHANGED <<prog, ip>> PROVE \A p : Op(p)' = Op(p)
  BY DEF Op

LEMMA LiveSame ==
    ASSUME \A g \in Goroutines : state'[g] \in {"none", "done"} <=> state[g] \in {"none", "done"}
    PROVE  Live' = Live
  BY DEF Live

LEMMA LiveFinite == IsFiniteSet(Live) /\ Cardinality(Live) \in Nat
  <1>1. Live \subseteq Goroutines
    BY DEF Live
  <1> QED
    BY <1>1, SchedulerAssumption, FS_Subset, FS_CardinalityType

LEMMA StartingKept ==
    ASSUME Starting,
           \A p \in Threads : pc'[p] = "go_enqueue" => pc[p] = "go_enqueue" /\ Op(p)' = Op(p),
           \A g \in Goroutines : state[g] = "ready" /\ ctx[g] = "none"
                                    => state'[g] = "ready" /\ ctx'[g] = "none"
    PROVE  Starting'
  BY DEF Starting

LEMMA AloneKept ==
    ASSUME Alone, UNCHANGED ready_queue, ready_queue \in Seq(Goroutines),
           \A v \in Workers, g \in Goroutines : Has(v, g)' => Has(v, g)
    PROVE  Alone'
  BY DEF Alone

LEMMA NotQueued ==
    ASSUME Alone, NEW v \in Workers, NEW g, Has(v, g)
    PROVE  \A i \in 1..Len(ready_queue) : ready_queue[i] # g
  BY DEF Alone

(* A goroutine that is nowhere is put into the list.                       *)
LEMMA PushKeeps ==
    ASSUME Alone, Queued, ready_queue \in Seq(Goroutines), NEW g \in Goroutines,
           ready_queue' = Pushed(g),
           \A i \in 1..Len(ready_queue) : ready_queue[i] # g,
           \A v \in Workers, x \in Goroutines : Has(v, x)' => Has(v, x) /\ x # g,
           state'[g] = "ready", Resumable(g)',
           \A x \in Goroutines \ {g} : state[x] = "ready" /\ Resumable(x)
                                           => state'[x] = "ready" /\ Resumable(x)'
    PROVE  Alone' /\ Queued'
  <1>1. /\ ready_queue' \in Seq(Goroutines) /\ Len(ready_queue') = Len(ready_queue) + 1
        /\ ready_queue'[1] = g
    BY PushedSeq
  <1>2. ASSUME NEW i \in 1..Len(ready_queue'), i # 1
        PROVE  i - 1 \in 1..Len(ready_queue) /\ ready_queue'[i] = ready_queue[i - 1]
               /\ ready_queue'[i] # g /\ ready_queue'[i] \in Goroutines
    <2>1. i \in 2..Len(Pushed(g))
      BY <1>1, <1>2
    <2>2. i - 1 \in 1..Len(ready_queue) /\ ready_queue'[i] = ready_queue[i - 1]
      BY <2>1, PushedSeq
    <2> QED
      BY <2>2
  <1>3. ASSUME NEW i \in 1..Len(ready_queue'), NEW j \in 1..Len(ready_queue'),
               ready_queue'[i] = ready_queue'[j]
        PROVE  i = j
    <2>1. CASE i = 1 \/ j = 1
      BY <2>1, <1>1, <1>2, <1>3
    <2>2. CASE i # 1 /\ j # 1
      <3>1. ready_queue[i - 1] = ready_queue[j - 1] /\ i - 1 \in 1..Len(ready_queue)
            /\ j - 1 \in 1..Len(ready_queue)
        BY <2>2, <1>2, <1>3
      <3>2. i - 1 = j - 1
        BY <3>1 DEF Alone
      <3> QED
        BY <3>2
    <2> QED
      BY <2>1, <2>2
  <1>4. ASSUME NEW i \in 1..Len(ready_queue'), NEW v \in Workers
        PROVE  ~Has(v, ready_queue[i])'
    <2>1. CASE i = 1
      BY <2>1, <1>1
    <2>2. CASE i # 1
      BY <2>2, <1>2 DEF Alone
    <2> QED
      BY <2>1, <2>2
  <1>5. ASSUME NEW i \in 1..Len(ready_queue')
        PROVE  state'[ready_queue'[i]] = "ready" /\ Resumable(ready_queue[i])'
    <2>1. CASE i = 1
      BY <2>1, <1>1
    <2>2. CASE i # 1
      BY <2>2, <1>2 DEF Queued
    <2> QED
      BY <2>1, <2>2
  <1>6. Alone'
    BY <1>3, <1>4 DEF Alone
  <1> QED
    BY <1>5, <1>6 DEF Queued

-----------------------------------------------------------------------------
(* The steps of a worker on its own stack.                                 *)
LEMMA GetNextInv ==
    ASSUME Inv, NEW w \in Workers, GetNext(w) PROVE Inv'
  <1> USE SchedulerAssumption
  <1>1. TypeOK'
    BY PoppedSeq DEF GetNext, Inv, TypeOK, schedVars, chanVars
  <1>2. Working'
    BY PoppedSeq DEF GetNext, Inv, TypeOK, Working, Resumable, Queued, Alone, Has
  <1>3. Queued'
    BY PoppedSeq DEF GetNext, Inv, TypeOK, Resumable, Queued, Alone
  <1>4. Alone'
    BY PoppedSeq DEF GetNext, Inv, TypeOK, Alone, Has
  <1>a. Head(ready_queue) \in Goroutines /\ state[Head(ready_queue)] = "ready"
        /\ ctx[Head(ready_queue)] = "saved"
    BY PoppedSeq DEF GetNext, Inv, TypeOK, Queued, Resumable
  <1>b. \A p : Op(p)' = Op(p)
    BY OpSame DEF GetNext
  <1>c. Live' = Live
    BY <1>a, LiveSame DEF GetNext, Inv, TypeOK
  <1>5. Unpublished'
    BY <1>a DEF GetNext, Inv, TypeOK, Unpublished
  <1>6. Starting'
    BY <1>a, <1>b DEF GetNext, Inv, TypeOK, Starting
  <1>7. Freed'
    BY <1>a DEF GetNext, Inv, TypeOK, Freed
  <1>8. Down'
    BY <1>b, <1>c DEF GetNext, Inv, Down, ShutDown, schedVars
  <1>9. Counted'
    BY <1>c DEF GetNext, Inv, Counted, schedVars
  <1> QED
    BY <1>1, <1>2, <1>3, <1>4, <1>5, <1>6, <1>7, <1>8, <1>9 DEF Inv

LEMMA SwitchToInv ==
    ASSUME Inv, NEW w \in Workers, SwitchTo(w) PROVE Inv'
  <1> USE SchedulerAssumption
  <1>1. TypeOK'
    BY DEF SwitchTo, Inv, TypeOK, Working, schedVars, chanVars
  <1>2. Working'
    BY DEF SwitchTo, Inv, TypeOK, Working, Resumable, Alone, Has
  <1>a. \A i \in 1..Len(ready_queue) : ready_queue[i] # t_current[w]
    BY NotQueued DEF SwitchTo, Inv, Has
  <1>3. Queued'
    BY <1>a DEF SwitchTo, Inv, TypeOK, Resumable, Queued
  <1>d. \A v \in Workers, g \in Goroutines : Has(v, g)' => Has(v, g)
    BY DEF SwitchTo, Inv, TypeOK, Has
  <1>4. Alone'
    BY <1>d, AloneKept DEF SwitchTo, Inv, TypeOK
  <1>b. \A p : Op(p)' = Op(p)
    BY OpSame DEF SwitchTo
  <1>c. Live' = Live
    BY DEF SwitchTo, Live
  <1>5. Unpublished'
    BY DEF SwitchTo, Inv, TypeOK, Unpublished, Working, Resumable
  <1>6. Starting'
    BY <1>b DEF SwitchTo, Inv, TypeOK, Starting, Working, Resumable
  <1>7. Freed'
    BY DEF SwitchTo, Inv, Freed
  <1>8. Down'
    BY <1>b, <1>c DEF SwitchTo, Inv, TypeOK, Down, ShutDown, schedVars
  <1>9. Counted'
    BY <1>c DEF SwitchTo, Inv, Counted, schedVars
  <1> QED
    BY <1>1, <1>2, <1>3, <1>4, <1>5, <1>6, <1>7, <1>8, <1>9 DEF Inv

LEMMA ReapInv ==
    ASSUME Inv, NEW w \in Workers, Reap(w) PROVE Inv'
  <1> USE SchedulerAssumption DEF ToReap
  <1>1. TypeOK'
    BY DEF Reap, Inv, TypeOK, schedVars, chanVars
  <1>2. Working'
    BY DEF Reap, Inv, TypeOK, Working, Resumable, Alone, Has
  <1>3. Queued'
    BY DEF Reap, Inv, TypeOK, Resumable, Queued, Alone, Has
  <1>d. \A v \in Workers, g \in Goroutines : Has(v, g)' => Has(v, g)
    BY DEF Reap, Inv, TypeOK, Has
  <1>4. Alone'
    BY <1>d, AloneKept DEF Reap, Inv, TypeOK
  <1>b. \A p : Op(p)' = Op(p)
    BY OpSame DEF Reap
  <1>c. Live' = Live
    BY DEF Reap, Live
  <1>5. Unpublished'
    BY DEF Reap, Inv, Unpublished
  <1>6. Starting'
    BY <1>b DEF Reap, Inv, Starting
  <1>7. Freed'
    BY DEF Reap, Inv, Freed, Working
  <1>8. Down'
    BY <1>b, <1>c DEF Reap, Inv, Down, ShutDown, schedVars
  <1>9. Counted'
    BY <1>c DEF Reap, Inv, Counted, schedVars
  <1> QED
    BY <1>1, <1>2, <1>3, <1>4, <1>5, <1>6, <1>7, <1>8, <1>9 DEF Inv

LEMMA RequeueInv ==
    ASSUME Inv, NEW w \in Workers, Requeue(w) PROVE Inv'
  <1> USE SchedulerAssumption DEF Yielded
  <1>a. t_requeue[w] \in Goroutines /\ Has(w, t_requeue[w])
        /\ state[t_requeue[w]] = "ready" /\ Resumable(t_requeue[w])
    BY DEF Requeue, Inv, TypeOK, Has, Working
  <1>1. TypeOK'
    BY <1>a, PushedSeq DEF Requeue, Inv, TypeOK, schedVars, chanVars
  <1>2. Working'
    BY DEF Requeue, Inv, TypeOK, Working, Resumable
  <1>d. \A v \in Workers, g \in Goroutines : Has(v, g)' => Has(v, g) /\ g # t_requeue[w]
    <2> SUFFICES ASSUME NEW v \in Workers, NEW g \in Goroutines, Has(v, g)'
                 PROVE  Has(v, g) /\ g # t_requeue[w]
      OBVIOUS
    <2>1. Has(v, g)
      BY DEF Requeue, Inv, TypeOK, Has
    <2>2. CASE v = w
      BY <2>2, <1>a DEF Requeue, Inv, TypeOK, Has
    <2>3. CASE v # w
      BY <2>1, <2>3, <1>a DEF Inv, Alone
    <2> QED
      BY <2>1, <2>2, <2>3
  <1>e. \A i \in 1..Len(ready_queue) : ready_queue[i] # t_requeue[w]
    BY <1>a, NotQueued DEF Inv
  <1>4. Alone' /\ Queued'
    <2>1. /\ ready_queue' = Pushed(t_requeue[w]) /\ ready_queue \in Seq(Goroutines)
          /\ UNCHANGED <<state, ctx, freed, pc>>
      BY DEF Requeue, Inv, TypeOK
    <2>2. \A x : Resumable(x)' = Resumable(x)
      BY <2>1 DEF Resumable
    <2> QED
      BY <1>a, <1>d, <1>e, <2>1, <2>2, PushKeeps DEF Inv
  <1>b. \A p : Op(p)' = Op(p)
    BY OpSame DEF Requeue
  <1>c. Live' = Live
    BY DEF Requeue, Live
  <1>5. Unpublished'
    BY DEF Requeue, Inv, Unpublished
  <1>6. Starting'
    BY <1>b DEF Requeue, Inv, Starting
  <1>7. Freed'
    BY DEF Requeue, Inv, Freed
  <1>8. Down'
    BY <1>b, <1>c DEF Requeue, Inv, Down, ShutDown, schedVars
  <1>9. Counted'
    BY <1>c DEF Requeue, Inv, Counted, schedVars
  <1> QED
    BY <1>1, <1>2, <1>4, <1>5, <1>6, <1>7, <1>8, <1>9 DEF Inv

LEMMA LoopAgainInv ==
    ASSUME Inv, NEW w \in Workers, LoopAgain(w) \/ WorkerStops(w) PROVE Inv'
  <1> USE SchedulerAssumption
  <1>1. TypeOK'
    <2>1. CASE LoopAgain(w)
      BY <2>1 DEF LoopAgain, Inv, TypeOK, schedVars, chanVars
    <2>2. CASE WorkerStops(w)
      BY <2>2 DEF WorkerStops, Inv, TypeOK, schedVars, chanVars
    <2> QED
      BY <2>1, <2>2
  <1>2. Working'
    BY DEF LoopAgain, WorkerStops, Inv, TypeOK, Working, Resumable
  <1>3. Queued'
    BY DEF LoopAgain, WorkerStops, Inv, Queued, Resumable
  <1>d. \A v \in Workers, g \in Goroutines : Has(v, g)' => Has(v, g)
    BY DEF LoopAgain, WorkerStops, Inv, TypeOK, Has
  <1>4. Alone'
    BY <1>d, AloneKept DEF LoopAgain, WorkerStops, Inv, TypeOK
  <1>b. \A p : Op(p)' = Op(p)
    BY OpSame DEF LoopAgain, WorkerStops
  <1>c. Live' = Live
    BY DEF LoopAgain, WorkerStops, Live
  <1>5. Unpublished'
    BY DEF LoopAgain, WorkerStops, Inv, Unpublished
  <1>6. Starting'
    BY <1>b DEF LoopAgain, WorkerStops, Inv, Starting
  <1>7. Freed'
    BY DEF LoopAgain, WorkerStops, Inv, Freed
  <1>8. Down'
    BY <1>b, <1>c DEF LoopAgain, WorkerStops, Inv, TypeOK, Down, ShutDown, schedVars
  <1>9. Counted'
    BY <1>c DEF LoopAgain, WorkerStops, Inv, Counted, schedVars
  <1> QED
    BY <1>1, <1>2, <1>3, <1>4, <1>5, <1>6, <1>7, <1>8, <1>9 DEF Inv

-----------------------------------------------------------------------------
(* The steps of a goroutine that gives its worker back.                    *)

(* The goroutine on a worker's stack, and nobody else's.                   *)
LEMMA Own ==
    ASSUME Inv, NEW w \in Workers, NEW c, At(w, c)
    PROVE  /\ wpc[w] = "on" /\ t_current[w] \in Goroutines /\ t_current[w] \in Threads
           /\ pc[t_current[w]] = c /\ ctx[t_current[w]] = "live"
           /\ t_current[w] # Main /\ t_current[w] \notin freed /\ g_scheduler = "up"
           /\ \A i \in 1..Len(ready_queue) : ready_queue[i] # t_current[w]
           /\ \A v \in Workers : Has(v, t_current[w]) => v = w
  <1>1. /\ wpc[w] = "on" /\ t_current[w] \in Goroutines /\ t_current[w] \in Threads
        /\ pc[t_current[w]] = c /\ t_current[w] # Main
    BY SelfOf, SchedulerAssumption DEF Carriers
  <1>2. Has(w, t_current[w])
    BY <1>1 DEF Has
  <1>3. ctx[t_current[w]] = "live" /\ t_current[w] \notin freed
    BY <1>1 DEF Inv, Working
  <1>4. g_scheduler = "up"
    BY <1>1 DEF Inv, Down, TypeOK
  <1>5. \A v \in Workers : Has(v, t_current[w]) => v = w
    BY <1>1, <1>2 DEF Inv, Alone
  <1> QED
    BY <1>1, <1>2, <1>3, <1>4, <1>5, NotQueued DEF Inv

LEMMA YieldHandOffInv ==
    ASSUME Inv, NEW w \in Workers, YieldHandOff(w) PROVE Inv'
  <1> USE SchedulerAssumption
  <1>a. /\ wpc[w] = "on" /\ t_current[w] \in Goroutines /\ t_current[w] \in Threads
        /\ pc[t_current[w]] = "run" /\ ctx[t_current[w]] = "live"
        /\ t_current[w] # Main /\ g_scheduler = "up"
        /\ \A i \in 1..Len(ready_queue) : ready_queue[i] # t_current[w]
        /\ \A v \in Workers : Has(v, t_current[w]) => v = w
    BY Own, SchedulerAssumption DEF YieldHandOff, Calls, Self
  <1>e. state[t_current[w]] \in {"running", "blocked"}
    BY <1>a DEF Inv, Working
  <1>1. TypeOK'
    BY <1>a DEF YieldHandOff, Goto, Inv, TypeOK, schedVars, chanVars
  <1>2. Working'
    BY <1>a DEF YieldHandOff, Goto, Inv, TypeOK, Working, Resumable, Has
  <1>3. Queued'
    BY <1>a DEF YieldHandOff, Goto, Inv, TypeOK, Queued, Resumable
  <1>d. \A v \in Workers, g \in Goroutines : Has(v, g)' => Has(v, g)
    BY <1>a DEF YieldHandOff, Inv, TypeOK, Has
  <1>4. Alone'
    BY <1>d, AloneKept DEF YieldHandOff, Inv, TypeOK
  <1>b. \A p : Op(p)' = Op(p)
    BY OpSame DEF YieldHandOff, Goto
  <1>c. Live' = Live
    BY <1>a, <1>e, LiveSame DEF YieldHandOff, Inv, TypeOK
  <1>5. Unpublished'
    BY <1>a, <1>e DEF YieldHandOff, Goto, Inv, TypeOK, Unpublished
  <1>6. Starting'
    BY <1>a, <1>b DEF YieldHandOff, Goto, Inv, TypeOK, Starting
  <1>7. Freed'
    BY <1>e DEF YieldHandOff, Inv, TypeOK, Freed
  <1>8. Down'
    BY <1>a, <1>b, <1>c DEF YieldHandOff, Goto, Inv, TypeOK, Down, schedVars
  <1>9. Counted'
    BY <1>c DEF YieldHandOff, Inv, Counted, schedVars
  <1> QED
    BY <1>1, <1>2, <1>3, <1>4, <1>5, <1>6, <1>7, <1>8, <1>9 DEF Inv

LEMMA YieldSwapInv ==
    ASSUME Inv, NEW w \in Workers, YieldSwap(w) PROVE Inv'
  <1> USE SchedulerAssumption
  <1>a. /\ wpc[w] = "on" /\ t_current[w] \in Goroutines /\ t_current[w] \in Threads
        /\ pc[t_current[w]] = "yield_swap" /\ ctx[t_current[w]] = "live"
        /\ t_current[w] # Main /\ g_scheduler = "up" /\ t_current[w] \notin freed
        /\ \A i \in 1..Len(ready_queue) : ready_queue[i] # t_current[w]
        /\ \A v \in Workers : Has(v, t_current[w]) => v = w
    BY Own DEF YieldSwap
  <1>e. t_requeue[w] = t_current[w] /\ t_reap[w] = NULL /\ state[t_current[w]] = "ready"
    BY <1>a DEF Inv, Working
  <1>1. TypeOK'
    BY <1>a DEF YieldSwap, Return, Inv, TypeOK, schedVars, chanVars
  <1>2. Working'
    BY <1>a, <1>e DEF YieldSwap, Return, Inv, TypeOK, Working, Resumable, Has
  <1>3. Queued'
    BY <1>a DEF YieldSwap, Return, Inv, TypeOK, Queued, Resumable
  <1>d. \A v \in Workers, g \in Goroutines : Has(v, g)' => Has(v, g)
    BY <1>a, <1>e DEF YieldSwap, Inv, TypeOK, Has
  <1>4. Alone'
    BY <1>d, AloneKept DEF YieldSwap, Inv, TypeOK
  <1>b. \A p \in Threads \ {t_current[w]} : Op(p)' = Op(p) /\ pc'[p] = pc[p]
    BY <1>a DEF YieldSwap, Return, Op, Inv, TypeOK
  <1>c. Live' = Live
    BY DEF YieldSwap, Live
  <1>5. Unpublished'
    BY <1>a DEF YieldSwap, Return, Inv, TypeOK, Unpublished
  <1>f. pc'[t_current[w]] = "run" /\ \A g \in Goroutines : ctx[g] = "none" => ctx'[g] = "none"
    BY <1>a DEF YieldSwap, Return, Inv, TypeOK
  <1>6. Starting'
    BY <1>b, <1>f, StartingKept DEF YieldSwap, Inv
  <1>7. Freed'
    BY DEF YieldSwap, Inv, Freed
  <1>8. Down'
    BY <1>a, <1>b DEF YieldSwap, Inv, TypeOK, Down, schedVars, Threads
  <1>9. Counted'
    BY <1>c DEF YieldSwap, Inv, Counted, schedVars
  <1> QED
    BY <1>1, <1>2, <1>3, <1>4, <1>5, <1>6, <1>7, <1>8, <1>9 DEF Inv

LEMMA ExitCountInv ==
    ASSUME Inv, NEW w \in Workers, ExitCount(w) PROVE Inv'
  <1> USE SchedulerAssumption
  <1>a. /\ wpc[w] = "on" /\ t_current[w] \in Goroutines /\ t_current[w] \in Threads
        /\ pc[t_current[w]] = "run" /\ ctx[t_current[w]] = "live"
        /\ t_current[w] # Main /\ g_scheduler = "up" /\ t_current[w] \notin freed
        /\ \A i \in 1..Len(ready_queue) : ready_queue[i] # t_current[w]
        /\ \A v \in Workers : Has(v, t_current[w]) => v = w
    BY Own, SchedulerAssumption DEF ExitCount, Calls, Self
  <1>e. state[t_current[w]] \in {"running", "blocked"}
    BY <1>a DEF Inv, Working
  <1>f. t_current[w] \in Live /\ Live' = Live \ {t_current[w]}
    BY <1>a, <1>e DEF ExitCount, Live, Inv, TypeOK
  <1>g. Cardinality(Live') = Cardinality(Live) - 1 /\ Cardinality(Live) \in Nat
        /\ Cardinality(Live') \in Nat
    BY <1>f, LiveFinite, FS_RemoveElement, FS_CardinalityType
  <1>9. Counted' /\ num_goroutines' \in Nat
    BY <1>a, <1>g DEF ExitCount, Inv, Counted
  <1>1. TypeOK'
    BY <1>a, <1>9 DEF ExitCount, Goto, Inv, TypeOK, chanVars
  <1>2. Working'
    BY <1>a DEF ExitCount, Goto, Inv, TypeOK, Working, Resumable, Has
  <1>3. Queued'
    BY <1>a DEF ExitCount, Goto, Inv, TypeOK, Queued, Resumable
  <1>d. \A v \in Workers, g \in Goroutines : Has(v, g)' => Has(v, g)
    BY <1>a DEF ExitCount, Inv, TypeOK, Has
  <1>4. Alone'
    BY <1>d, AloneKept DEF ExitCount, Inv, TypeOK
  <1>b. \A p : Op(p)' = Op(p)
    BY OpSame DEF ExitCount, Goto
  <1>5. Unpublished'
    BY <1>a, <1>e DEF ExitCount, Goto, Inv, TypeOK, Unpublished
  <1>6. Starting'
    BY <1>a, <1>b DEF ExitCount, Goto, Inv, TypeOK, Starting
  <1>7. Freed'
    BY <1>a DEF ExitCount, Inv, TypeOK, Freed
  <1>8. Down'
    BY <1>a, <1>b DEF ExitCount, Goto, Inv, TypeOK, Down
  <1> QED
    BY <1>1, <1>2, <1>3, <1>4, <1>5, <1>6, <1>7, <1>8, <1>9 DEF Inv

LEMMA ExitSwapInv ==
    ASSUME Inv, NEW w \in Workers, ExitSwap(w) PROVE Inv'
  <1> USE SchedulerAssumption
  <1>a. /\ wpc[w] = "on" /\ t_current[w] \in Goroutines /\ pc[t_current[w]] = "exit_swap"
        /\ g_scheduler = "up"
    BY Own DEF ExitSwap
  <1>e. t_reap[w] = t_current[w] /\ t_requeue[w] = NULL /\ state[t_current[w]] = "done"
    BY <1>a DEF Inv, Working
  <1>1. TypeOK'
    BY DEF ExitSwap, Inv, TypeOK, schedVars, chanVars
  <1>2. Working'
    BY <1>a, <1>e DEF ExitSwap, Inv, TypeOK, Working, Resumable
  <1>3. Queued'
    BY DEF ExitSwap, Inv, Queued, Resumable
  <1>d. \A v \in Workers, g \in Goroutines : Has(v, g)' => Has(v, g)
    BY <1>a, <1>e DEF ExitSwap, Inv, TypeOK, Has
  <1>4. Alone'
    BY <1>d, AloneKept DEF ExitSwap, Inv, TypeOK
  <1>b. \A p : Op(p)' = Op(p)
    BY OpSame DEF ExitSwap
  <1>c. Live' = Live
    BY DEF ExitSwap, Live
  <1>5. Unpublished' /\ Freed'
    BY DEF ExitSwap, Inv, Unpublished, Freed
  <1>6. Starting'
    BY <1>b DEF ExitSwap, Inv, Starting
  <1>8. Down'
    BY <1>a, <1>b DEF ExitSwap, Inv, TypeOK, Down, schedVars
  <1>9. Counted'
    BY <1>c DEF ExitSwap, Inv, Counted, schedVars
  <1> QED
    BY <1>1, <1>2, <1>3, <1>4, <1>5, <1>6, <1>8, <1>9 DEF Inv

-----------------------------------------------------------------------------
(* The steps of the program's code, on a worker or on the main thread, that *)
(* neither start a goroutine nor give the worker back.                      *)
Moves(k) ==
    /\ pc[Self(k)] \in {"run", "parked"}
    /\ \E c \in {"run", "parked"} : pc' = [pc EXCEPT ![Self(k)] = c]
    /\ ip' = ip \/ ip' = [ip EXCEPT ![Self(k)] = @ + 1]
    /\ \/ state' = state
       \/ k # Main /\ \E s \in {"running", "blocked"} : state' = [state EXCEPT ![Self(k)] = s]
    /\ UNCHANGED <<g_scheduler, running, num_goroutines, ready_queue, ctx, freed, workerVars, prog>>

LEMMA MovesInv ==
    ASSUME Inv, TypeOK', NEW k \in Carriers, NEW c, At(k, c), Moves(k) PROVE Inv'
  <1> USE SchedulerAssumption
  <1>a. /\ Self(k) \in Threads
        /\ k \in Workers \/ Self(k) = Main
        /\ Self(k) # Main => k # Main /\ k \in Workers /\ Self(k) = t_current[k]
    BY SelfOf
  <1>b. /\ pc'[Self(k)] \in {"run", "parked"}
        /\ \A p \in Threads \ {Self(k)} : pc'[p] = pc[p] /\ Op(p)' = Op(p)
    BY <1>a DEF Moves, Inv, TypeOK, Op
  <1>c. /\ Working' /\ Queued' /\ Unpublished' /\ Freed' /\ Live' = Live
        /\ \A g \in Goroutines : ctx[g] = "none" => state'[g] = state[g]
    <2>1. CASE k = Main
      <3>1. Self(k) = Main /\ UNCHANGED <<state, ctx, freed, ready_queue, workerVars>>
        BY <2>1 DEF Self, Moves
      <3>2. \A g \in Goroutines : pc'[g] = pc[g]
        BY <1>b, <3>1 DEF Threads
      <3>3. Working'
        BY <3>1, <3>2 DEF Inv, Working, Resumable, workerVars, TypeOK
      <3>4. Queued'
        BY <3>1, <3>2 DEF Inv, Queued, Resumable, TypeOK
      <3>5. Unpublished' /\ Freed' /\ Live' = Live
        BY <3>1, <3>2 DEF Inv, Unpublished, Freed, Live
      <3> QED
        BY <3>1, <3>3, <3>4, <3>5
    <2>2. CASE k \in Workers
      <3> DEFINE g == t_current[k]
      <3>1. /\ wpc[k] = "on" /\ g \in Goroutines /\ g \in Threads /\ pc[g] = c
            /\ ctx[g] = "live" /\ g # Main /\ g \notin freed
            /\ \A i \in 1..Len(ready_queue) : ready_queue[i] # g
            /\ \A v \in Workers : Has(v, g) => v = k
        BY <2>2, Own
      <3>2. Self(k) = g /\ pc[g] \in {"run", "parked"} /\ pc'[g] \in {"run", "parked"}
        BY <1>b, <2>2 DEF Self, Moves
      <3>3. state[g] \in {"running", "blocked"} /\ t_reap[k] = NULL /\ t_requeue[k] = NULL
        BY <2>2, <3>1, <3>2 DEF Inv, Working
      <3>4. /\ state'[g] \in {"running", "blocked"}
            /\ \A x \in Goroutines \ {g} : state'[x] = state[x] /\ pc'[x] = pc[x]
        <4>1. \A x \in Goroutines \ {g} : pc'[x] = pc[x]
          BY <1>b, <3>2 DEF Threads
        <4>2. CASE state' = state
          BY <4>1, <4>2, <3>3
        <4>3. CASE \E s \in {"running", "blocked"} : state' = [state EXCEPT ![Self(k)] = s]
          BY <4>1, <4>3, <3>1, <3>2 DEF Inv, TypeOK
        <4> QED
          BY <4>2, <4>3 DEF Moves
      <3>5. UNCHANGED <<ctx, freed, ready_queue, workerVars>>
        BY DEF Moves
      <3>6. ASSUME NEW v \in Workers, v # k, NEW x, Has(v, x)
            PROVE  x # g
        BY <3>1, <3>6
      <3>7. Working'
        BY <2>2, <3>1, <3>2, <3>3, <3>4, <3>5, <3>6
           DEF Inv, Working, Resumable, workerVars, TypeOK, Has
      <3>8. Queued'
        BY <3>1, <3>4, <3>5 DEF Inv, Queued, Resumable, TypeOK
      <3>9. Unpublished' /\ Freed'
        BY <3>1, <3>3, <3>4, <3>5 DEF Inv, Unpublished, Freed, TypeOK
      <3>10. Live' = Live
        BY <3>3, <3>4, LiveSame
      <3> QED
        BY <3>1, <3>4, <3>7, <3>8, <3>9, <3>10
    <2> QED
      BY <2>1, <2>2 DEF Carriers
  <1>d. \A v \in Workers, g \in Goroutines : Has(v, g)' => Has(v, g)
    BY DEF Moves, workerVars, Has
  <1>4. Alone'
    BY <1>d, AloneKept DEF Moves, Inv, TypeOK
  <1>6. Starting'
    BY <1>a, <1>b, <1>c, StartingKept DEF Moves, Inv
  <1>8. Down'
    <2>1. ShutDown => ShutDown'
      BY <1>a DEF Moves, ShutDown, Inv, TypeOK, Threads
    <2>2. pc'[Main] = "join" => pc[Main] = "join" /\ Op(Main)' = Op(Main)
      BY <1>b DEF Threads
    <2> QED
      BY <1>c, <2>1, <2>2 DEF Moves, Inv, Down, workerVars
  <1>9. Counted'
    BY <1>c DEF Moves, Inv, Counted
  <1> QED
    BY <1>c, <1>4, <1>6, <1>8, <1>9 DEF Inv

LEMMA ChanInv ==
    ASSUME Inv, NEW k \in Carriers, ChanSend(k) \/ ChanRecv(k) \/ ChanPark(k) PROVE Inv'
  <1> USE SchedulerAssumption
  <1>1. PICK c \in {"run", "parked"} : At(k, c)
    BY DEF ChanSend, ChanRecv, ChanPark, AtRecv, Calls
  <1>2. /\ Self(k) \in Threads /\ pc[Self(k)] = c
        /\ k # Main => Self(k) \in Goroutines
    BY <1>1, SelfOf
  <1>3. Moves(k)
    <2>1. CASE ChanSend(k)
      BY <1>2, <2>1 DEF ChanSend, Return, Moves, schedVars
    <2>2. CASE ChanRecv(k)
      BY <1>2, <2>2 DEF ChanRecv, Return, Moves
    <2>3. CASE ChanPark(k)
      BY <1>2, <2>3 DEF ChanPark, Goto, Moves
    <2> QED
      BY <2>1, <2>2, <2>3
  <1>4. \A p : block_end(p) \in Nat
    BY DEF block_end, Inv, TypeOK
  <1>5. TypeOK'
    <2>1. CASE ChanSend(k)
      BY <1>2, <2>1 DEF ChanSend, Return, Inv, TypeOK, schedVars, workerVars
    <2>2. CASE ChanRecv(k)
      BY <1>2, <1>4, <2>2 DEF ChanRecv, Return, Inv, TypeOK, workerVars
    <2>3. CASE ChanPark(k)
      <3>1. outcome' \in {"running", "deadlock", "exit"} /\ blocked' \in Nat
        BY <1>4, <2>3 DEF ChanPark, Inv, TypeOK
      <3>2. state' \in [Goroutines -> {"none", "ready", "running", "blocked", "done"}]
        BY <1>2, <2>3 DEF ChanPark, Inv, TypeOK
      <3>3. waiting' \subseteq Threads
        BY <1>2, <2>3 DEF ChanPark, Inv, TypeOK
      <3>4. /\ pc' = [pc EXCEPT ![Self(k)] = "parked"]
            /\ UNCHANGED <<g_scheduler, running, num_goroutines, ready_queue, ctx, freed,
                           workerVars, prog, ip, tokens>>
        BY <2>3 DEF ChanPark, Goto
      <3> QED
        BY <3>1, <3>2, <3>3, <3>4 DEF Inv, TypeOK, workerVars
    <2> QED
      BY <2>1, <2>2, <2>3
  <1> QED
    BY <1>1, <1>3, <1>5, MovesInv

LEMMA MainMovesInv ==
    ASSUME Inv, YieldMain \/ WaitDone PROVE Inv'
  <1>1. At(Main, "run") /\ Main \in Carriers /\ Self(Main) = Main
    BY DEF YieldMain, WaitDone, Calls, Carriers, Self
  <1>2. Return(Main) /\ UNCHANGED <<schedVars, ready_queue, state, ctx, freed, workerVars, prog,
                                     chanVars, outcome>>
    BY DEF YieldMain, WaitDone
  <1>3. Moves(Main)
    BY <1>1, <1>2 DEF At, Return, Moves, schedVars
  <1>4. TypeOK'
    BY <1>2 DEF Return, Inv, TypeOK, Threads, schedVars, workerVars, chanVars
  <1> QED
    BY <1>1, <1>3, <1>4, MovesInv

-----------------------------------------------------------------------------
(* goo_go *)
LEMMA GoCountInv ==
    ASSUME Inv, NEW k \in Carriers, GoCount(k) PROVE Inv'
  <1> USE SchedulerAssumption
  <1> DEFINE p == Self(k)
             g == Op(p)[2]
  <1>a. /\ p \in Threads /\ pc[p] = "run" /\ Op(p)[1] = "go" /\ At(k, "run")
        /\ \/ k = Main /\ p = Main
           \/ k \in Workers /\ wpc[k] = "on" /\ p = t_current[k] /\ p \in Goroutines
    BY SelfOf DEF GoCount, Calls
  <1>b. /\ g \in Goroutines /\ state[g] = "none" /\ state' = [state EXCEPT ![g] = "ready"]
        /\ pc' = [pc EXCEPT ![p] = "go_enqueue"] /\ ctx[g] = "none" /\ g \notin freed
    BY <1>a, OpType DEF GoCount, Goto, Inv, Unpublished, Freed
  <1>c. UNCHANGED <<ready_queue, blocked, ctx, freed, t_current, t_reap, t_requeue,
                    prog, ip, chanVars, outcome>>
    BY DEF GoCount, Goto
  <1>e. p # g
    BY <1>a, <1>b DEF Inv, Working
  <1>f. g \notin Live /\ Live' = Live \cup {g}
    BY <1>b DEF Live, Inv, TypeOK
  <1>g. Cardinality(Live') = Cardinality(Live) + 1
    BY <1>f, LiveFinite, FS_AddElement
  <1>h. num_goroutines' = num_goroutines + 1
    BY DEF GoCount, CountedIn
  <1>i. /\ g_scheduler' = "up" /\ running' \in BOOLEAN
        /\ wpc' \in [Workers -> {"off", "loop", "switch", "on", "back", "stopped"}]
        /\ \A v \in Workers : wpc'[v] = wpc[v] \/ (wpc[v] = "off" /\ wpc'[v] = "loop")
        /\ pc[Main] = "join" => running' = running
        /\ num_goroutines = Cardinality(Live)
    <2>1. CASE g_scheduler = "up"
      BY <2>1 DEF GoCount, Inv, TypeOK, Counted
    <2>2. CASE g_scheduler = "none"
      <3>1. num_goroutines = 0 /\ (\A v \in Workers : wpc[v] = "off") /\ (Live = {} \/ ShutDown)
        BY <2>2 DEF Inv, Down
      <3>2. p = Main
        BY <1>a, <3>1
      <3>3. /\ prog \in Programs /\ prog[Main] \in Seq(Ops) /\ ip[Main] \in Nat \ {0}
            /\ ip[Main] <= Len(prog[Main]) /\ prog[Main][ip[Main]][1] = "go"
        BY <1>a, <3>2 DEF Op, Inv, TypeOK, Threads
      <3>4. ~ShutDown
        BY <3>3, ShutdownAssumption DEF ShutDown
      <3>5. Cardinality(Live) = 0
        BY <3>1, <3>4, FS_EmptySet
      <3>6. pc[Main] # "join"
        BY <1>a, <3>2
      <3> QED
        BY <2>2, <3>1, <3>5, <3>6 DEF GoCount
    <2> QED
      BY <2>1, <2>2 DEF Inv, TypeOK
  <1>1. TypeOK'
    BY <1>a, <1>b, <1>c, <1>h, <1>i DEF Inv, TypeOK, chanVars
  <1>k. /\ \A x \in Goroutines \ {g} : state'[x] = state[x]
        /\ \A q \in Threads \ {p} : pc'[q] = pc[q]
        /\ pc'[p] = "go_enqueue" /\ state'[g] = "ready"
    BY <1>a, <1>b DEF Inv, TypeOK
  <1>d. \A v \in Workers, x \in Goroutines : Has(v, x)' => Has(v, x)
    BY <1>c, <1>i DEF Has
  <1>2. Working'
    <2>1. \A v \in Workers : wpc[v] = "on" /\ t_current[v] = p => pc[p] = "run"
      BY <1>a
    <2> QED
      BY <1>a, <1>b, <1>c, <1>e, <1>i, <1>k DEF Inv, TypeOK, Working, Resumable, Alone, Has, Threads
  <1>3. Queued'
    <2>1. \A i \in 1..Len(ready_queue) : ready_queue[i] # g
      BY <1>b DEF Inv, Queued
    <2>2. \A i \in 1..Len(ready_queue) : ready_queue[i] # p
      BY <1>a, Own DEF Inv, TypeOK
    <2> QED
      BY <1>c, <1>k, <2>1, <2>2 DEF Inv, TypeOK, Queued, Resumable, Threads
  <1>4. Alone'
    BY <1>c, <1>d, AloneKept DEF Inv, TypeOK
  <1>l. \A q : Op(q)' = Op(q)
    BY <1>c, OpSame
  <1>5. Unpublished'
    BY <1>a, <1>b, <1>c, <1>e, <1>k DEF Inv, Unpublished, Threads, Working
  <1>6. Starting'
    BY <1>b, <1>c, <1>k, <1>l DEF Inv, Starting
  <1>7. Freed'
    BY <1>b, <1>c, <1>k DEF Inv, TypeOK, Freed
  <1>8. Down'
    BY <1>a, <1>i, <1>k, <1>l DEF Inv, Down, Threads
  <1>9. Counted'
    BY <1>g, <1>h, <1>i DEF Counted
  <1> QED
    BY <1>1, <1>2, <1>3, <1>4, <1>5, <1>6, <1>7, <1>8, <1>9 DEF Inv

LEMMA GoEnqueueInv ==
    ASSUME Inv, NEW k \in Carriers, GoEnqueue(k) PROVE Inv'
  <1> USE SchedulerAssumption
  <1>p. PICK p, g : p = Self(k) /\ g = Op(p)[2]
    OBVIOUS
  <1>a. /\ p \in Threads /\ pc[p] = "go_enqueue" /\ At(k, "go_enqueue")
        /\ \/ k = Main /\ p = Main
           \/ k \in Workers /\ wpc[k] = "on" /\ p = t_current[k] /\ p \in Goroutines
    BY <1>p, SelfOf DEF GoEnqueue
  <1>b. /\ g \in Goroutines /\ state[g] = "ready" /\ ctx[g] = "none" /\ pc[g] = "run"
        /\ g \notin freed /\ ctx' = [ctx EXCEPT ![g] = "saved"] /\ ready_queue' = Pushed(g)
        /\ pc' = [pc EXCEPT ![p] = "run"] /\ ip' = [ip EXCEPT ![p] = @ + 1]
    BY <1>a, <1>p DEF GoEnqueue, Return, Inv, Starting, Unpublished, Freed
  <1>c. UNCHANGED <<schedVars, state, freed, workerVars, prog, chanVars, outcome>>
    BY DEF GoEnqueue
  <1>1. TypeOK'
    BY <1>a, <1>b, <1>c, PushedSeq DEF Inv, TypeOK, schedVars, workerVars, chanVars
  <1>k. /\ \A x \in Goroutines \ {g} : ctx'[x] = ctx[x]
        /\ \A q \in Threads \ {p} : pc'[q] = pc[q] /\ Op(q)' = Op(q)
        /\ pc'[p] = "run" /\ ctx'[g] = "saved" /\ pc'[g] = "run"
    BY <1>a, <1>b, <1>c DEF Inv, TypeOK, Op, Threads
  <1>2. Working'
    BY <1>a, <1>b, <1>c, <1>k DEF Inv, TypeOK, Working, Resumable, Alone, Has, Threads, workerVars
  <1>d. \A v \in Workers, x \in Goroutines : Has(v, x)' => Has(v, x) /\ x # g
    BY <1>b, <1>c DEF Inv, TypeOK, Working, Resumable, Has, workerVars
  <1>e. \A i \in 1..Len(ready_queue) : ready_queue[i] # g
    BY <1>b DEF Inv, Queued, Resumable
  <1>3. Alone' /\ Queued'
    <2>1. state'[g] = "ready" /\ Resumable(g)'
      BY <1>b, <1>c, <1>k DEF Resumable
    <2>2. \A x \in Goroutines \ {g} : state[x] = "ready" /\ Resumable(x)
                                          => state'[x] = "ready" /\ Resumable(x)'
      BY <1>a, <1>c, <1>k DEF Resumable, Threads
    <2> QED
      BY <1>b, <1>d, <1>e, <2>1, <2>2, PushKeeps DEF Inv, TypeOK
  <1>5. Unpublished'
    BY <1>b, <1>c, <1>k DEF Inv, Unpublished, Threads
  <1>6. Starting'
    <2>1. \A q \in Threads : pc'[q] = "go_enqueue" =>
             pc[q] = "go_enqueue" /\ Op(q)' = Op(q) /\ Op(q)[2] # g
      BY <1>a, <1>k, <1>p DEF Inv, Starting
    <2> QED
      BY <1>c, <1>k, <2>1 DEF Inv, Starting
  <1>7. Freed'
    BY <1>c DEF Inv, Freed
  <1>8. Down'
    <2>4. prog' = prog /\ ip[Main] \in Nat /\ ip'[Main] \in Nat /\ ip[Main] <= ip'[Main]
      BY <1>a, <1>b, <1>c DEF Inv, TypeOK, Threads
    <2>1. ShutDown => ShutDown'
      BY <2>4 DEF ShutDown
    <2>2. pc'[Main] = "join" => pc[Main] = "join" /\ Op(Main)' = Op(Main)
      BY <1>k DEF Threads
    <2>3. Live' = Live
      BY <1>c DEF Live
    <2> QED
      BY <1>c, <2>1, <2>2, <2>3 DEF Inv, Down, workerVars, schedVars
  <1>9. Counted'
    BY <1>c DEF Inv, Counted, Live, schedVars
  <1> QED
    BY <1>1, <1>2, <1>3, <1>5, <1>6, <1>7, <1>8, <1>9 DEF Inv

-----------------------------------------------------------------------------
(* main stops the scheduler, or the process ends.                          *)
LEMMA ShutdownFlagInv ==
    ASSUME Inv, ShutdownFlag PROVE Inv'
  <1> USE SchedulerAssumption
  <1>a. /\ pc[Main] = "run" /\ Op(Main)[1] = "shutdown" /\ Main \in Threads
        /\ pc' = [pc EXCEPT ![Main] = "join"] /\ running' = FALSE
        /\ UNCHANGED <<g_scheduler, num_goroutines, blocked, ready_queue, state, ctx, freed,
                       workerVars, prog, ip, chanVars, outcome>>
    BY DEF ShutdownFlag, Calls, At, Self, Goto, Threads
  <1>b. Op(Main) = <<"shutdown">>
    BY <1>a, OpType DEF Ops, Inv
  <1>k. \A g \in Goroutines : pc'[g] = pc[g]
    BY <1>a DEF Inv, TypeOK, Threads
  <1>1. TypeOK'
    BY <1>a DEF Inv, TypeOK, workerVars, chanVars
  <1>2. Working'
    BY <1>a, <1>k DEF Inv, TypeOK, Working, Resumable, workerVars
  <1>3. Queued'
    BY <1>a, <1>k DEF Inv, TypeOK, Queued, Resumable
  <1>d. \A v \in Workers, g \in Goroutines : Has(v, g)' => Has(v, g)
    BY <1>a DEF Has, workerVars
  <1>4. Alone'
    BY <1>a, <1>d, AloneKept DEF Inv, TypeOK
  <1>5. Unpublished' /\ Freed'
    BY <1>a, <1>k DEF Inv, Unpublished, Freed
  <1>l. \A q : Op(q)' = Op(q)
    BY <1>a, OpSame
  <1>6. Starting'
    BY <1>a, <1>l, StartingKept DEF Inv, TypeOK
  <1>8. Down'
    BY <1>a, <1>b, <1>l DEF Inv, Down, Live, ShutDown, workerVars
  <1>9. Counted'
    BY <1>a DEF Inv, Counted, Live
  <1> QED
    BY <1>1, <1>2, <1>3, <1>4, <1>5, <1>6, <1>8, <1>9 DEF Inv

LEMMA ShutdownJoinedInv ==
    ASSUME Inv, ShutdownJoined PROVE Inv'
  <1> USE SchedulerAssumption
  <1>a. /\ pc[Main] = "join" /\ Main \in Threads /\ Op(Main) = <<"shutdown">> /\ ~running
        /\ pc' = [pc EXCEPT ![Main] = "run"] /\ ip' = [ip EXCEPT ![Main] = @ + 1]
        /\ UNCHANGED <<running, state, ctx, freed, t_current, t_reap, t_requeue, prog,
                       chanVars, outcome>>
        /\ \A w \in Workers : wpc[w] \in {"off", "stopped"}
        /\ wpc' = [w \in Workers |-> "off"]
        /\ g_scheduler' = "none" /\ num_goroutines' = 0 /\ blocked' = 0 /\ ready_queue' = <<>>
    BY DEF ShutdownJoined, At, Self, Return, Threads, Inv, Down
  <1>k. \A g \in Goroutines : pc'[g] = pc[g]
    BY <1>a DEF Inv, TypeOK, Threads
  <1>1. TypeOK'
    BY <1>a DEF Inv, TypeOK, chanVars
  <1>2. Working'
    BY <1>a DEF Inv, TypeOK, Working
  <1>3. Queued'
    BY <1>a DEF Queued
  <1>4. Alone'
    BY <1>a DEF Alone, Has
  <1>5. Unpublished' /\ Freed'
    BY <1>a, <1>k DEF Inv, Unpublished, Freed
  <1>6. Starting'
    <2>1. \A q \in Threads : pc'[q] = "go_enqueue" => pc[q] = "go_enqueue" /\ Op(q)' = Op(q)
      BY <1>a DEF Op, Inv, TypeOK
    <2> QED
      BY <1>a, <2>1, StartingKept DEF Inv
  <1>8. Down'
    <2>1. ip[Main] \in Nat \ {0} /\ ip'[Main] = ip[Main] + 1 /\ prog' = prog
          /\ prog[Main] \in Seq(Ops)
      BY <1>a DEF Inv, TypeOK
    <2>2. ip[Main] \in 1..Len(prog[Main]) /\ prog[Main][ip[Main]] = <<"shutdown">>
      BY <1>a, <2>1 DEF Op
    <2>3. ShutDown'
      <3>1. ip[Main] < ip'[Main]
        BY <2>1
      <3>2. \E i \in 1..Len(prog'[Main]) : i < ip'[Main] /\ prog'[Main][i] = <<"shutdown">>
        BY <2>1, <2>2, <3>1, Zenon
      <3> QED
        BY <3>2 DEF ShutDown
    <2>4. pc'[Main] = "run"
      BY <1>a DEF Inv, TypeOK
    <2> QED
      BY <1>a, <2>3, <2>4 DEF Down
  <1>9. Counted'
    BY <1>a DEF Counted
  <1> QED
    BY <1>1, <1>2, <1>3, <1>4, <1>5, <1>6, <1>8, <1>9 DEF Inv

(* Nothing but the outcome changes.                                        *)
LEMMA OutcomeInv ==
    ASSUME Inv, outcome' \in {"running", "deadlock", "exit"},
           UNCHANGED <<schedVars, ready_queue, state, ctx, freed, workerVars, prog, ip, pc, chanVars>>
    PROVE  Inv'
  <1>1. TypeOK'
    BY DEF Inv, TypeOK, schedVars, workerVars, chanVars
  <1>2. \A p : Op(p)' = Op(p)
    BY OpSame
  <1>3. \A w, g : Has(w, g)' = Has(w, g)
    BY DEF Has, workerVars
  <1>4. Working'
    BY DEF Inv, Working, Resumable, workerVars
  <1>5. Queued'
    BY DEF Inv, Queued, Resumable
  <1>6. Alone'
    BY <1>3 DEF Inv, Alone
  <1>7. Unpublished' /\ Freed'
    BY DEF Inv, Unpublished, Freed
  <1>8. Starting'
    BY <1>2 DEF Inv, Starting
  <1>9. Down' /\ Counted'
    BY <1>2 DEF Inv, Down, Counted, Live, ShutDown, schedVars, workerVars
  <1> QED
    BY <1>1, <1>4, <1>5, <1>6, <1>7, <1>8, <1>9 DEF Inv

-----------------------------------------------------------------------------
LEMMA InitInv == Init => Inv
  <1> SUFFICES ASSUME Init PROVE Inv
    OBVIOUS
  <1> USE SchedulerAssumption
  <1>1. TypeOK
    <2>1. <<>> \in Seq(Goroutines)
      OBVIOUS
    <2>2. running \in BOOLEAN
      BY Zenon DEF Init
    <2>3. ip \in [Threads -> Nat \ {0}] /\ waiting \subseteq Threads /\ freed \subseteq Goroutines
      BY DEF Init
    <2>4. /\ t_current \in [Workers -> Goroutines \cup {NULL}]
          /\ t_reap \in [Workers -> Goroutines \cup {NULL}]
          /\ t_requeue \in [Workers -> Goroutines \cup {NULL}]
      BY DEF Init
    <2>5. /\ state \in [Goroutines -> {"none", "ready", "running", "blocked", "done"}]
          /\ ctx \in [Goroutines -> {"none", "saved", "live"}]
          /\ wpc \in [Workers -> {"off", "loop", "switch", "on", "back", "stopped"}]
          /\ pc \in [Threads -> {"run", "go_enqueue", "yield_swap", "exit_swap", "parked", "join"}]
      BY DEF Init
    <2> QED
      BY <2>1, <2>2, <2>3, <2>4, <2>5 DEF Init, TypeOK
  <1>2. Working /\ Unpublished /\ Freed
    BY DEF Init, Working, Unpublished, Freed, Threads
  <1>3. Queued /\ Alone
    BY DEF Init, Queued, Alone, Has
  <1>4. Starting
    BY DEF Init, Starting, Threads
  <1>5. Live = {}
    BY DEF Init, Live
  <1>6. Down /\ Counted
    BY <1>5 DEF Init, Down, Counted, Threads
  <1> QED
    BY <1>1, <1>2, <1>3, <1>4, <1>6 DEF Inv

LEMMA NextInv == Inv /\ [Next]_vars => Inv'
  <1> SUFFICES ASSUME Inv, [Next]_vars PROVE Inv'
    OBVIOUS
  <1>0. outcome \in {"running", "deadlock", "exit"}
    BY DEF Inv, TypeOK
  <1>1. ASSUME NEW w \in Workers, Worker(w) PROVE Inv'
    <2>1. w \in Carriers
      BY DEF Carriers
    <2>2. CASE GetNext(w)
      BY <2>2, GetNextInv
    <2>3. CASE SwitchTo(w)
      BY <2>3, SwitchToInv
    <2>4. CASE GoCount(w)
      BY <2>1, <2>4, GoCountInv
    <2>5. CASE GoEnqueue(w)
      BY <2>1, <2>5, GoEnqueueInv
    <2>6. CASE ChanSend(w) \/ ChanRecv(w) \/ ChanPark(w)
      BY <2>1, <2>6, ChanInv
    <2>7. CASE YieldHandOff(w)
      BY <2>7, YieldHandOffInv
    <2>8. CASE YieldSwap(w)
      BY <2>8, YieldSwapInv
    <2>9. CASE ExitCount(w)
      BY <2>9, ExitCountInv
    <2>10. CASE ExitSwap(w)
      BY <2>10, ExitSwapInv
    <2>11. CASE Reap(w)
      BY <2>11, ReapInv
    <2>12. CASE Requeue(w)
      BY <2>12, RequeueInv
    <2>13. CASE LoopAgain(w) \/ WorkerStops(w)
      BY <2>13, LoopAgainInv
    <2> QED
      BY <1>1, <2>2, <2>3, <2>4, <2>5, <2>6, <2>7, <2>8, <2>9, <2>10, <2>11, <2>12, <2>13
         DEF Worker, Exec
  <1>2. ASSUME MainThread PROVE Inv'
    <2>1. Main \in Carriers
      BY DEF Carriers
    <2>2. CASE GoCount(Main)
      BY <2>1, <2>2, GoCountInv
    <2>3. CASE GoEnqueue(Main)
      BY <2>1, <2>3, GoEnqueueInv
    <2>4. CASE ChanSend(Main) \/ ChanRecv(Main) \/ ChanPark(Main)
      BY <2>1, <2>4, ChanInv
    <2>5. CASE YieldMain \/ WaitDone
      BY <2>5, MainMovesInv
    <2>6. CASE ShutdownFlag
      BY <2>6, ShutdownFlagInv
    <2>7. CASE ShutdownJoined
      BY <2>7, ShutdownJoinedInv
    <2>8. CASE WaitAbort
      BY <2>8, OutcomeInv DEF WaitAbort
    <2>9. CASE MainReturn
      BY <2>9, OutcomeInv DEF MainReturn
    <2> QED
      BY <1>2, <2>2, <2>3, <2>4, <2>5, <2>6, <2>7, <2>8, <2>9 DEF MainThread, Exec
  <1>3. ASSUME UNCHANGED vars PROVE Inv'
    BY <1>0, <1>3, OutcomeInv DEF vars
  <1> QED
    BY <1>1, <1>2, <1>3 DEF Next, Terminated

(* Inv holds in every state the scheduler reaches.                         *)
THEOREM Invariance == Spec => []Inv
  BY InitInv, NextInv, PTL DEF Spec

-----------------------------------------------------------------------------
(* The scheduler's variables keep their types: num_goroutines never drops  *)
(* below zero, and no null is left in t_requeue or t_reap to be published  *)
(* or freed.                                                               *)
THEOREM SchedulerTypeCorrect == Spec => []TypeOK
  <1>1. Inv => TypeOK
    BY DEF Inv
  <1> QED
    BY <1>1, Invariance, PTL

(* goo_yield publishes a goroutine only when its context is saved, and     *)
(* what a worker pops can be switched onto.                                *)
THEOREM SwitchIsSafe == Spec => []SafeToSwitch
  <1>1. Inv => SafeToSwitch
    BY DEF Inv, SafeToSwitch, InQueue, Queued, Working, Resumable
  <1> QED
    BY <1>1, Invariance, PTL

(* A goroutine is never queued twice, nor queued while a worker has it,    *)
(* nor with two workers.                                                   *)
THEOREM GoroutineInOnePlace == Spec => []OnePlace
  <1>1. ASSUME Inv PROVE OnePlace
    <2>1. \A g \in Goroutines, w \in Workers : w \in Holders(g) => Has(w, g)
      BY DEF Holders, Has
    <2>2. \A g \in Goroutines : \A w \in Holders(g) : w \in Workers
      BY DEF Holders
    <2>3. ASSUME NEW g \in Goroutines, InQueue(g) PROVE Holders(g) = {}
      BY <1>1, <2>1, <2>2, <2>3 DEF InQueue, Inv, Alone
    <2>4. ASSUME NEW g \in Goroutines, NEW v \in Holders(g), NEW w \in Holders(g) PROVE v = w
      BY <1>1, <2>1, <2>2 DEF Inv, Alone
    <2> QED
      BY <1>1, <2>3, <2>4 DEF OnePlace, Inv, Alone
  <1> QED
    BY <1>1, Invariance, PTL

(* goo_goroutine_exit leaves the stack it runs on to its worker, which     *)
(* frees it only when nobody is on it and nobody will be.                  *)
THEOREM StackOutlivesGoroutine == Spec => []NoRunAfterFree
  <1>1. Inv => NoRunAfterFree
    BY DEF Inv, NoRunAfterFree, Working, Freed
  <1> QED
    BY <1>1, Invariance, PTL

(* num_goroutines is the number of goroutines that have been started and   *)
(* have not exited.                                                        *)
THEOREM CounterCorrect == Spec => []CountExact
  <1>1. Inv => CountExact
    BY DEF Inv, CountExact, Counted, Live
  <1> QED
    BY <1>1, Invariance, PTL

(* goo_scheduler_wait returns, unless the scheduler was shut down, only    *)
(* when every goroutine that was started has finished.                     *)
THEOREM WaitWaitsForAll == Spec => WaitIsBarrier
  <1>1. ASSUME Inv, WaitDone, running
        PROVE  \A g \in Goroutines : state[g] \in {"none", "done"}
    <2>1. g_scheduler = "up" /\ num_goroutines = 0
      BY <1>1 DEF WaitDone, AllDone, Inv, Down, TypeOK
    <2>2. Cardinality(Live) = 0
      BY <1>1, <2>1 DEF Inv, Counted
    <2>3. Live = {}
      BY <2>2, LiveFinite, FS_EmptySet
    <2> QED
      BY <2>3 DEF Live
  <1>2. Inv /\ [Next]_vars
        => [WaitDone /\ running => \A g \in Goroutines : state[g] \in {"none", "done"}]_vars
    BY <1>1
  <1> QED
    BY <1>2, Invariance, PTL DEF Spec, WaitIsBarrier
=============================================================================
