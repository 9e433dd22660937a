# A TLA+ model of the goo run-time system and of its control flow

goo is a compiler, written in C, for a language close to Go. A goo program is
compiled to LLVM IR and linked with a run-time library that provides
goroutines, channels, the `sync` package and, above them, the `lanes` package
of the standard library. The run-time library is the concurrent part of the
system: it works directly with POSIX threads, mutexes and condition variables,
and its mistakes show up as lost wakeups, freed stacks and hangs that tests
meet once in many runs. Of the compiler, the part whose mistakes are hardest to
test is the lowering of statements: jumps through nested loops, switches and
arena blocks, where what is right depends on combinations nobody writes a test
for. This project models both, checks the models with TLC and proves the safety
properties of channels, of the scheduler, of the `sync` package and of lanes in
one and in several processes with TLAPS, the absence of deadlock among them.

Paths below are relative to the repository: `src/runtime/channels.c` is
`src/src/runtime/channels.c` in `PROJECT.json`.

## 1. Inventory

| Part | State | Operations | Hard behaviour |
|---|---|---|---|
| Channels (`src/runtime/channels.c`) | ring buffer (`buf`, `head`, `tail`, `length`), rendezvous slot (`rv_slot`, `rv_full`), `closed`, a mutex, condition variables `not_empty` and `not_full` | make, send, recv, close, free, try_send, try_recv, `goo_select`, PUB/SUB, REQ/REP and PUSH/PULL patterns | wakeups signalled to one of several sleepers, two kinds of sender on one condition variable, close against parked threads, spurious wakeups |
| Scheduler (`src/runtime/concurrency.c`) | one LIFO ready list, counters `num_goroutines` and `blocked_goroutines`, per worker `t_current`, `t_reap`, `t_requeue` | `goo_go`, `goo_yield`, `goo_goroutine_exit`, the worker loop, `goo_scheduler_wait`, `_shutdown` | publishing a goroutine before its context is saved, freeing the stack one runs on, waiting for goroutines that are in no list |
| Deadlock detector (`concurrency.c`: `goo_sched_block_begin`, `_end`, the poll in `goo_scheduler_wait`) | the blocked counter, the poll streak | count in, count out, poll, abort | a signalled goroutine still counts as blocked; main is checked only when it parks |
| Lanes (`goostd/lanes/lanes.go`) | halo channels of capacity one, collective channels, the join channel | `Run`, `Publish`, `HaloLeft`, `HaloRight`, `StencilStep`, `AllReduce`, `Step`, `RunFar` | neighbours a round apart, combination order, goroutines that keep their workers; across processes, pumps that must be stopped in the right order |
| sync package (`src/runtime/sync_shim.c`, `sync.c`) | a slot with a lazily made object, `locked`, `counter` | Lock, Unlock, Add, Done, Wait | double-checked creation, an unsynchronised read of `locked`, waking waiters at zero |
| Far transport (`src/runtime/far_transport.c`) | a table of handles, sockets with bounded buffers | listen, dial, send, receive, close | close that drops what is buffered, handles closed under their users |
| Ownership at run time (`src/runtime/runtime.c`) | reference counts, slices, maps | alloc, retain, release, append, map operations | immortal counts, aliasing |
| Arena, defer stack (`arena.c`, `defer.c`) | chunks; a stack of calls | new, alloc, reset, free; push, run | every exit must free and run them, once |
| Terminating statements (`src/types/terminating_stmt.c`) | a function body | is the end of the body out of reach? | breaks through nested scopes, goto, panics |
| Control flow of the code generator (`src/codegen/statement_codegen.c`, `cfctx.c`) | basic blocks, a stack of break scopes, the pending label, open arenas, blocks of labels, defers, locals to release | one function per kind of statement | which frame a jump means, what it frees, which deferred calls an exit makes |
| Other compiler analyses (`src/types/*.c`, `src/package/import_resolver.c`) | syntax trees, a graph of packages | type checking, escape and release decisions, import search | cycles, paths through control flow |
| Lexer, parser, the rest of the code generator, comptime, tools | text and syntax trees | translation | not state machines |

How they interact: the generated code calls `goo_go` and the channel functions;
each channel wait is bracketed by `goo_sched_block_begin` and `_end`, which
write the scheduler's counters; a goroutine that waits for a channel sleeps in
`pthread_cond_wait` on its worker's own thread, so it keeps the worker; the
`lanes` package is goo code over goroutines and channels. The `sync` package
uses its own mutexes and is not seen by the deadlock detector. `RunFar` runs
`lanes` in several processes over the far transport. The compiler decides at
compile time what the run-time library is asked to do: the type checker rejects
bodies that can run off their end and gotos into arena blocks, and the code
generator places the calls of `goo_arena_new` and `goo_arena_free`, of
`goo_defer_push` and `goo_defer_run`, and the releases of locals.

What makes each part correct:

- Channels: values come out once each, in order; no thread sleeps when it could
  go on; an unbuffered send returns after its value was taken; nothing enters
  after a close.
- Scheduler: a goroutine is in one place at a time and is switched onto only
  with a saved context; a stack is freed once nobody runs on it;
  `goo_scheduler_wait` returns when all goroutines are done.
- Deadlock detector: it aborts deadlocked programs, and no others.
- Lanes: a lane computes from cells of the right round; a reduction has every
  lane's value of one round in id order; `Run` returns with all work done.
- RunFar: a rank reads the value its place in the protocol means; closing loses
  no data; every rank returns; no handle is used after it was closed.
- Control flow: a body judged terminating does not run off its end; each jump
  goes where Go says; an arena, and the heap object of a local, is freed once on
  every way out of its block and not used afterwards; deferred calls are made
  once each, in reverse order.
- sync: one object per variable; mutual exclusion; no holder is accused of
  unlocking an unlocked mutex; waiters wake.

## 2. Modules

| Module | What it is |
|---|---|
| `ChanSpec` | abstract specification: a bounded FIFO queue with close |
| `Channel` | one channel with its threads and the deadlock detector |
| `Channel_proof`, `ChannelWaits_proof` | theorems about `Channel`: safety, and that balanced programs go on |
| `Scheduler` | workers, goroutines, context switches, wait and shutdown |
| `Scheduler_proof` | theorems about `Scheduler` |
| `Lanes` | `lanes.Run` in one process |
| `Lanes_proof`, `LanesWaits_proof` | theorems about `Lanes`: safety, and that lanes never wait in a circle |
| `Sync` | one `sync.Mutex` and one `sync.WaitGroup` |
| `Sync_proof` | theorems about `Sync` |
| `FarLinks` | abstract specification: links that carry the value of each round once, in order |
| `RunFar` | `lanes.RunFar` in several processes, with its transport |
| `RunFar_proof`, `RunFarWaits_proof` | theorems about `RunFar`: safety, and that ranks and pumps never wait in a circle |
| `Terminating` | the missing-return analysis |
| `Lowering` | the type checker's rules for jumps, and statements turned into basic blocks |
| `ControlFlow` | execution of the compiled function |
| `MCChannel`, `MCScheduler`, `MCLanes`, `MCSync`, `MCRunFar`, `MCControlFlow` | instances for TLC |

They build on one another. `Channel` implements `ChanSpec`; `Lanes` uses
channels as queues of that kind. `Scheduler` shows that a waiting goroutine
keeps its worker; `Lanes` takes from it that only as many lanes run as there
are workers. `RunFar` takes the lanes of one process from `Lanes` as a single
thread; its links implement `FarLinks`. `ControlFlow` extends `Lowering`, which extends `Terminating`: the three
are one pipeline, from a function body through the judgement and the
translation to the execution.

Each module has, next to some operators, a wrong version of that operator
marked "Mutant": an off-by-one, a dropped test, a missing wakeup. No action
uses one. They are the counterpart of the properties: with the mutant in the
operator's place, TLC must report the property violated, which shows that the
property depends on that piece of code. `PROJECT.json` pairs them.

### Channel

One action is a stretch of code from taking the channel's mutex, or returning
from `pthread_cond_wait`, to the next `cond_wait` or unlock. The variables have
the names of the C fields; `not_empty` and `not_full` are the sets of threads
asleep on each condition variable. A thread that has been signalled leaves the
set but stays at its parking place until it has the mutex again; in between,
other threads may run, which is where the code's hazards are. A signal takes
any one sleeper, a broadcast all, and `SpuriousWakeup` any sleeper at any time.

`goo_chan_send` becomes `SendOnClosed`, `SendWaitFull` and `SendBuffered` for a
ring, and `SendWaitSlot`, `SendPark`, `SendWaitTaken`, `SendTaken` and
`SendUntaken` for an unbuffered channel; `goo_chan_recv` becomes `RecvWait`,
`RecvClosed`, `RecvBuffered` and `RecvSlot`. `block_begin` and `block_end` are
part of the action they run in. `WaitPoll` is one turn of the polling loop of
`goo_scheduler_wait`, with `Polls` for the code's 100. A woken goroutine that finds
nothing is off the blocked count for a moment and back on it, which is one action
here; a poll may fall into that moment, so while a wakeup is pending `WaitPoll` may
also find the streak broken.

What a thread does is its program, a sequence of operations chosen at the start
from `Programs`. A value is the thread and the index of the operation that sends
it, so all values differ and lost, repeated or swapped ones show. `sent`, `rcvd`
and `returned` are history variables no action reads.

`goo_select` polls its cases. With a default it polls once (the operations
`trysend` and `tryrecv`), without one until a case is ready (`selsend` and
`selrecv`). The failure of `goo_mutex_try_lock` is `Contended`: it is possible while some
other thread is about to take the mutex, since the model's stretches are atomic.

`TimelyWakeups` is the detector's assumption made explicit: a thread that has
been signalled gets as far as `goo_sched_block_end` before the streak is full.
With the code's 100 polls of 0.5 ms this is true of an idle machine and is promised
by nothing. With `TimelyWakeups = FALSE` TLC finds `AbortIsDeadlock` violated: a
signalled goroutine is slow to get its CPU, the streak fills, and a program that
could go on is aborted.

`BalancedGoesOn` is the safety half of "a balanced program ends". `Balanced` is a
condition on the programs alone: as many receives as sends, no thread with both,
and no select on an unbuffered channel. For such a program there is no state in
which every thread is asleep or polls in vain, and none in which it was aborted
for deadlock, however the signals were distributed.

### Scheduler

`GoCount` and `GoEnqueue` are the two halves of `goo_go`, between which the
goroutine is counted but in no list. A worker goes through `GetNext`,
`SwitchTo`, the goroutine's own steps, and, back on its own stack, `Reap` or
`Requeue` and `LoopAgain`. `ctx` says whether a goroutine's context is saved or
is being run. The two steps of a yield (`YieldHandOff`, `YieldSwap`) and of an
exit (`ExitCount`, `ExitSwap`) are separate, because the goroutine must not be
published or freed between them. The channel here is a counter of values, its
protocol being `Channel`'s subject.

### Lanes

A cell is the number of times its tile has been computed and its distance from
the edge. This is all that is needed to see a halo of the wrong round or in the
wrong place. `Publish` is two sends, `HaloLeft` and `HaloRight` are receives, and
`StencilStep` repeats them `Radius` times before `Compute`. `allReduce` is
`SendPartial`, lane 0's `Combine`, `Broadcast` and `ReduceReturns`, and
`RecvResult`. `Start` gives a lane a worker, which it keeps until `Finish`.
`LaneWaits` and `MainWaits` say when a lane or main has no step to make; they
spell out the guards, since ENABLED is beyond the prover, and TLC has confirmed
that `Stuck` is the negation of `ENABLED Next`. `NeverStuck` asks for a worker per
lane; without that it is false, as `LanesPinned` shows. `RoundCount` is the number of
rounds: `Steps`, but 1 when that is 0, because `Step` is asked after a round.

### Sync

The fast path of `sync_mutex_ensure` and `sync_wg_ensure` is `Ensure`; the slow
path is `InitLock`, `LostRace` or `WonRace`, and `NewMutex` or `NewWaitGroup`.
Objects are numbered in the order they are made, so that making two is a state
the model can reach. The write and the read of `locked` are steps of their own
(`MarkLocked`, `CheckLocked`, `Clear`, `Release`). `held` and `misused` are
history: who is between Lock and Unlock, and whether some thread has unlocked
what it did not hold, after which Go promises nothing either.

### RunFar

A rank is one thread that follows a script, the calls its lane and `RunFar`
around it make: set-up, for each round the two sends and two receives of the
halos and perhaps a collective, then the teardown. A script is a set of calls,
each with its round, its stage in the round (a loop or a statement of the code)
and its turn in that stage; `Before` orders them by these three, and `Advance`
goes to the next one. With one lane a rank
has the left and the right edge at once, and what its other lanes would do is
`Lanes`' subject. Each halo link has, at each end, a send-pump and a receive-pump
(`PumpTake`, `PumpQuit`, `DrainNothing`, `PumpSend`, `PumpAck`; `LookUp`,
`PumpRecv`, `PumpPut`, `PumpClosed`), goroutines between two channels of capacity
one and the socket. A socket is a send and a receive buffer of `Depth` values,
between which `Transmit` moves a value while both ends are open; `Close` throws
away what its own end has buffered and keeps a note of it in `lost`. A call that
finds its handle freed panics, which ends the rank's process (`InvalidHandle`).
A value is what it is, its round, and for partials and results which ranks'
partials were combined and in which order, so that a value read at the wrong
place in the protocol shows.

`Wire(s)` is what is under way from socket `s` to its peer: the send-pump's
channel and hand, the two buffers, the receive-pump's hand and the lane's channel,
laid end to end. `ImplementsLinks` maps it, the rounds of the calls made at either
end and the closed sockets to the variables of `FarLinks`: a step of a pump or of
NNG is a stutter, a put or send is `Put`, a get or receive of the same round is
`Take`, and `Close` loses the marker or nothing. `SendsNeverBlock` is the comment
at `far_transport.c:21-26`, "sends never block on remote progress". `NeverStuck` is
the comment at `lanes.go:739-743`, that the wait graph has no cycle for any world
size: `RankWaits`, `SendPumpWaits`, `RecvPumpWaits` and `TransportWaits` say when
each part has no step to make, and all of them together only when every rank has
returned. It is stated, like `RunFarReturns`, for executions in which no marker was
lost and no process died.

### Terminating, Lowering, ControlFlow

A statement is a record of its kind, a label, a number and the lists of
statements it holds. Expressions are left out: a condition is a free choice
between the branches, and a plain statement only notes from which arena it
would allocate. A declaration or an assignment puts a fresh heap object into a
local, which is the case `release_decision.c` calls owned. `Terminating` translates `terminating_stmt.c` function by function.
`type_check_body` has the rules the type checker applies to labels, goto and
fallthrough, and that an unsafe block is an unknown statement to it. `Gen` and the `Gen...` operators translate
`codegen_generate_statement`. The tables of fixed size are constants: a push past
`MaxFrames` and a label past `MaxLabels` are errors, an arena past `MaxArenas` is left
off the stack in silence. The argument `cg` of the `Gen...` operators is the code generator's state:
the blocks made so far and the current one, the stack of break scopes, the
pending label, the fallthrough targets, the open arenas, the blocks of labels,
the defers and the locals to release met so far, and two decisions taken before:
whether a defer lies in a loop, so that all the function's defers use the
run-time stack (`defer_prepass_needs_stack`), and whether the body is one whose
locals are released at all (`readable`). As in LLVM, a block is its instructions and a terminator, and `malformed`
records what LLVM's verifier would reject. `Compiles` keeps the bodies for which
neither the code generator nor the verifier reports an error.

`ControlFlow` then executes the blocks, one instruction a step. `live` holds the
arenas and the locals' objects that exist, `stale` the locals whose slot points to
an object already freed, where another release would be a double free; `active`
has the flags of defers without the stack, `frame` is the stack, `called` and the
history variable `defers` are what was called and what should be. The properties
are about executions and not about the translation's own bookkeeping, so that a
wrong frame, a skipped free or a wrong judgement shows whatever its cause. For
the jumps there is a reference: `Leaves` defines, from the meaning Go gives to
statements and without blocks or stacks, the ways in which control may leave a
statement, and `EndsAsInGo` compares the two.

## 3. Runs

Passing runs:

| Run | Instance | Shows |
|---|---|---|
| `ChannelRing` | capacity 2, three goroutines and main; programs of sends, receives, selects with and without a default, closes and nil operations, programs with as many receives as sends, and programs of any kind with main in `goo_scheduler_wait` | `FIFO`, `ReceiversWoken`, `SendersWoken`, `CountersExact`, `AbortIsDeadlock`, `BalancedGoesOn`, the refinement `ImplementsQueue`; `Completes`: a balanced program ends normally; `Ends`: a program that main waits for finishes, panics or is reported |
| `ChannelSlot` | the same, unbuffered, balanced programs included | `RendezvousDelivers`, `Completes`; the other invariants of `ChannelRing` are proved for every capacity |
| `SchedulerAll` | two workers, three goroutines that start one another, yield and exchange values; main waits, yields, receives, shuts down or returns | `SafeToSwitch`, `OnePlace`, `NoRunAfterFree`, `CountExact`, `WaitIsBarrier`, `StartedFinishes` |
| `LanesRun` | four lanes, radius 2, four rounds, the last two with a reduction | `HaloCurrent`, `CollectiveSendsFree`, `ReduceInOrder`, `ReturnsFinished`, `NeverStuck`, `RunReturns` |
| `SyncCalls` | three threads that lock once or twice, unlock what is not theirs, and Add, Done and Wait as they please | `TypeOK`, `MutualExclusion`, `NoFalsePanic`, `WaitersWoken`, and, for the programs that pair their calls, `AllReturn` |
| `FarRun` | two ranks, three rounds of which the first and the last end in a collective, buffers of two values | `InStep`, `OnlyMarkersLost`, `DropFree`, `SendsNeverBlock`, `NeverStuck`, the refinement `ImplementsLinks`, `RunFarReturns` |
| `ControlFlowAll` | some 8 800 function bodies, executed on every path | `NeverFallsOff`, `AliveWhenUsed`, `ReleasedOnExit`, `DefersAsInGo`, `EndsAsInGo` |

Runs that find the code and a text about it in disagreement:

| Run | What happens |
|---|---|
| `ChannelRefill` | A sender's value is received; before it wakes, a second sender fills the slot and the channel is closed. The first sender finds `rv_full` set and panics, although the comment at `channels.c:367-369` says that a completed delivery returns success. |
| `LanesPinned` | Three lanes, two workers: the lanes that wait for the third keep both workers, and `Run` never returns. `docs/lanes.md:225-227` promises completion "independent of scheduler-thread count". |
| `FarHandle` | A receive-pump has delivered the marker and is about to call `far.RecvF64` again when the teardown closes its handle; the lookup of the freed handle panics. `far_transport.c:59-62` says that handles are closed only after every such caller has stopped or is blocked in the call. |
| `ControlFlowContinue` | `for c { arena { switch x { default: continue } } }`: the switch's own frame makes the arena look as if it belonged to an outer scope, and each iteration leaves one arena allocated; the objects of locals declared in the loop before the switch are passed over in the same way. `docs/02-LANGUAGE-SPECIFICATION.md:785-788` promises a free on every exit. |
| `ControlFlowLabel` | `L: { for { break L } }`: the loop takes the label meant for the block. The function is accepted as one without a reachable end, and runs off it. `codegen_cfctx.h:57-58` says that the label tags only the frame it directly wraps. |

Four things the models show have no run of their own.

The first is a known gap of the detector: main looks at the counters only when
it parks itself (`concurrency.c:317`), so when main waits on a channel and the
goroutines end afterwards, nothing looks again and main sleeps for ever. `Ends` is
therefore stated for programs whose main waits in `goo_scheduler_wait` or whose
sends and receives balance.

The second is a select on an unbuffered channel. Its polls look at the ring only
(`channels.c:534` and `:563`), so neither case is ever ready there, whoever is
parked on the channel, and since a poller is not counted as blocked, the detector
does not notice. With capacity 0 and the programs `SelectingClients` TLC finds
`Completes` violated at once. The repository's texts promise a blocking select
and rendezvous channels, but nowhere the two together.

The third is a goto back over a defer. A defer outside loops has one flag and is
called at the exits emitted after it; executed a second time by way of a goto, or
followed by a jump back to a return that precedes it in the text, it loses a
call, where `docs/02-LANGUAGE-SPECIFICATION.md:577` says that deferred calls run at
function exit. `DefersAsInGo` fails for such bodies, which `ControlFlowAll`
therefore leaves out.

The fourth is the stack of arenas. `codegen_arena_push` drops an arena that finds the
stack full (`codegen.c:898`), the pop after the block takes one away all the same, and
the type checker, whose own chain of arenas has the same limit, accepts the body. With
`MaxArenas = 2` TLC finds `ReleasedOnExit` violated by a return from the innermost of
three nested arena blocks, whose arena is not freed; after that block the stack is one
short for the blocks around it. In the code this takes seventeen nested blocks.

Where `docs/lanes.md:224` says that every halo send finds a free slot, a lane that
is a round ahead may find it full; `RunReturns` shows that no harm follows.

### Bounds

- Channel: capacity 2 is the least at which `head` and `tail` differ from both
  ends and wrap at different times; 1 wraps on every operation, 0 is the other
  half of the code. Three goroutines and main give two senders and two
  receivers, or three sleepers of one kind and a waker, and the refill hazard
  needs two senders, a receiver and a closer. `Polls` is 2, the least at which the
  streak can be broken.
- Scheduler: two workers are needed for one to resume what the other has not
  saved. Three goroutines allow one started by another.
- Lanes: four lanes have two inner lanes that are neighbours; radius 2 has a
  first and a last sub-exchange. A reduction is a barrier, so the first two rounds
  have none, which lets a lane be a round ahead, and the last two have one each,
  which lets two reductions follow one another.
- Sync: three threads allow a winner and two losers of the creation race, and a
  thread that unlocks what another holds while a third waits.

- RunFar: two ranks have every kind of link and of message, and rank 0 and
  another one. The invariants were also explored with three ranks, where the
  middle one has two halo links, for one and two rounds (about 2.9 million states,
  no violation); the run is kept to the size that can be repeated at will. The
  code's `FAR_BUF_DEPTH` is 128; with 2 the buffers do fill, and
  `SendsNeverBlock` says that no send finds them full.
- ControlFlow: a body is a jump of any kind inside two nested statements of any
  kind, with statements before and after, and each of these once more inside a
  loop, inside an arena block, after the label of a goto and before one. Every
  interaction of a jump with two scopes is among them, and of a jump with three
  the ones with a loop or an arena outermost. `MaxChain`, the number of labels on
  one statement the analysis follows, is 2 for the code's 8. The bodies of the two
  findings above are excluded by what causes them: `ContinueSkips`, and labels
  on statements that are not break scopes themselves. `LocalsAndDefers` puts a
  local or a defer at three depths around a way out of two nested statements.
  `MaxFrames`, `MaxArenas` and `MaxLabels` are 3 each, for the code's 32, 16 and 64: the
  deepest bodies fill the three tables, and none goes past them.
  `MaxDefers`, the defers executed in one call, is 3: one before a loop and two in
  it, or one at each depth.

No symmetry reduction is used, since most runs check liveness; `MCChannel` keeps
one of the programs that differ only in which goroutine does what.

### Fairness

Weak fairness of each thread's next step, nothing more: workers, goroutines in
`Channel` and main are POSIX threads, and the operating system runs a thread
that can run. In `Channel` and `Sync` it also stands for the mutex being given in
time to a thread that wants it; the programs are finite, so no thread can take
it infinitely often. Spurious wakeups and polls that fail have no fairness.
`Ends` supposes that spurious wakeups stop: a thread that is woken for nothing over
and over can have every streak broken by a poll that falls between its wakeup and
its next wait. `RunFarReturns` adds that
NNG goes on delivering between two sockets that stay open; it asks for a return
in every rank unless a marker was lost or a process has panicked. `StartedFinishes` is
checked for programs in which fewer goroutines wait than there are workers;
beyond that a goroutine that is never started stays unstarted, the situation
`LanesPinned` shows.

### Deadlock checking

`CHECK_DEADLOCK FALSE` stands in every run: goo programs may wait for each other
for ever, and all others end. That programs which should end do is what the
liveness properties say.

## 4. Theorems

They hold for any finite set of goroutines, any capacity, and any programs; those
about lanes for any number of lanes and any radius, those about `RunFar` for any
number of ranks and rounds and any depth of the buffers.

### Channel_proof

From `ConstantsAssumption` only. `Invariance` proves the inductive invariant

    Inv == TypeOK /\ Places /\ Ring /\ FIFO /\ ReceiversWoken /\ SendersWoken
           /\ Handed /\ RendezvousDelivers /\ CountersExact

in which the properties need the following help. `Places` says which threads
can be in which wait set, so that a sleeping thread is known to be counted as
blocked. `Ring` relates `tail` to `head` and `length`, so that a value written at
`tail` is the last of `Contents`. `Handed` says that a sender waiting for its value
to be taken has its own value in the slot or has had it received; without it a
refilled slot could not be told from an untaken one. `ReceiversWoken` is itself a
counting argument: a send adds one value and wakes one receiver, a receive takes
one value and is one receiver less, and a receiver goes back to sleep only when
there is nothing to take.

`TypeCorrect`, `ChannelFIFO`, `NoReceiverForgotten`, `NoSenderForgotten`,
`RendezvousCorrect` and `CountersCorrect` are its parts. `NoFalseAbort` adds
`TimelyWakeups`: if the blocked counter equals the number of live goroutines and no
wakeup is pending, every goroutine is asleep or in a nil operation.
`ChannelRefinesQueue` shows that every step of `Channel` is a `Put`, `Take`, `Close`
or nothing to the queue `Contents`.

### ChannelWaits_proof

`BalancedProgramsGoOn` (`BalancedGoesOn`) adds `BalancedInv` to `Inv`, for programs
that are balanced. It counts calls: `Done(ops)` are the calls of the kinds `ops` that
have returned, read off each thread's place in its program, and `Accepted` are the
sends that have returned and those waiting to have their value taken. `BalancedInv`
says that the sends that returned are `Done(SendOps)`, that as many values were taken
as receives have returned, and that as many entered the channel as were accepted;
that a parked thread is in a call of its kind (`AtCall`); and what an abort finds
(`AbortOK`): main polling, or main parked as a sender with a value in the channel or
as a receiver with none, and nobody else left.

Suppose nobody has a step to make. A sleeping or polling sender means that there is
a value in the channel (`SendersWoken`), a sleeping or polling receiver that there is
none: `ReceiversWoken` bounds the values by the receivers already woken, and nobody
has been woken (`StuckIsIdle`). If there is a value, no receiver waits; all receives
have returned, so as many values were taken as the program sends, and none can be
left. If there is none, no sender waits; all sends have returned, so as many values
were taken as there are receives, and no receive is left to wait in. Hence all
goroutines have exited, the counter is zero (`CountersExact`), main does not wait
either, and the process has ended. The aborts follow with `NoFalseAbort`, which is
where `TimelyWakeups` is needed.

### Sync_proof

From `SyncAssumption` only. The invariant is

    Inv == TypeOK /\ OneObject /\ (~misused => OneOwner) /\ NoFalsePanic

`OneObject`: only the holder of `g_sync_init_lock` is between the second look at
the slot and its publication, so at most one object of each kind is made, and it
is number 1. `OneOwner`: a thread that holds the lock, or is in the middle of
taking or giving it up, owns the pthread mutex of that object alone, and `locked`
is 1 while it holds the lock. `LocksExclude` (`MutualExclusion`) and `UnlockIsFair`
(`NoFalsePanic`) follow; `SyncTypeCorrect` says that no call works on an object
that does not exist. `NobodySleepsAtZero` (`WaitersWoken`) needs of the invariant
only that all threads use the one WaitGroup: a thread parks while the counter is
not zero, and the step that makes it zero wakes all.

### Scheduler_proof

From `SchedulerAssumption` and `ShutdownAssumption` (main starts no goroutine after
`goo_scheduler_shutdown`, which forgets those still in the queue). The invariant has these parts:

- `Working` says what each place of the worker loop implies about the goroutine
  the worker has in hand: its context is saved until `SwitchTo` and again after
  the swap, and `t_reap` and `t_requeue` are set between the swap and the place
  that reads them.
- `Queued` and `Resumable`: what is in the ready list has a saved context and an
  unfreed stack, once.
- `Alone`: two workers never have the same goroutine in hand, nor one that is in
  the ready list. This is `OnePlace`, element by element.
- `Unpublished` and `Starting`: between the two halves of `goo_go` a goroutine
  has no context and belongs to the thread that starts it.
- `Freed`: a freed stack belonged to a goroutine that has exited.
- `Down` and `Counted`: the counter is the number of goroutines started and not
  yet exited, from initialisation to shutdown.

`SwitchIsSafe`, `GoroutineInOnePlace`, `StackOutlivesGoroutine`, `CounterCorrect` and
`WaitWaitsForAll` are its consequences, for any number of workers and goroutines
and any programs.

### Lanes_proof

From `LanesAssumption` only: any number of lanes and workers, any `Steps` (0 included,
`StepCounts`), any radius,
and any choice of the rounds that reduce. The invariant has these parts:

- `Spawning`: the queue holds each lane that waits for a worker once.
- `Rounds`: where a lane is in its body decides how its `own`, `step` and `sub`
  are related; a tile is computed once a round.
- `Links`: every halo channel is empty and its writer and reader are at the same
  cell, or it holds the cell its reader takes next and its writer is one cell
  ahead. `ToSendR` and its like name the cell a lane handles next, across the ends
  of sub-exchanges and rounds, so that one formula covers neighbours in different
  rounds.
- `Filled`: the halos received so far in this round.
- `Collecting`, `Gathering` and `Answering`: for each lane and each round that
  reduces, whether the lane has contributed, lane 0 has taken the contribution,
  lane 0 has answered, and the lane is back. A partial in a channel is the
  difference between the first two, an answer that between the last two. That
  lane 0 and the lane it takes from or answers are in the same round follows.
- `Joining`: the lanes that have finished are as many as main has joined and
  `done` still holds.

`LanesTypeCorrect`, `HalosCurrent`, `ReductionInOrder`, `CollectiveNeverBlocks`
and `RunReturnsFinished` are its consequences.

### LanesWaits_proof

`LanesNeverStuck` (`NeverStuck`) needs one more part of the invariant, `Queued`: a lane
that was spawned and has no worker is in the ready queue. Suppose nobody has a step
to make and there is a worker for every lane. Then every lane has been given its
worker, since otherwise fewer than all workers are taken and the head of the queue
could start (`FewerThanAll`). No lane waits in a send of the collective
(`CollectiveFreeHere`) or on `done`, which has room for all. What is left are waits for
a neighbour's cell, for a partial and for the result, and each is a wait for a lane
that is behind the waiting one: at an earlier round, or at an earlier place of the
same round. For a halo this is `Links`, which says how far apart writer and reader
are (`ExchangeWaits`); for a collective it is `Gathering` and `Answering`
(`CombineWaits`, `ResultWaits`). The lane that is furthest behind (`FurthestBehind`)
can therefore not be waiting; so all lanes have finished, `done` is empty, and with
`Joining` main has returned.

### RunFar_proof

From `FarAssumption` only: any number of ranks and of rounds, any choice of the
rounds with a collective, any depth of the buffers. The variables that hold a
value on its way are six per halo link and two per collective link, and almost
every action moves values between two of them; the proof replaces them by one
queue, `Wire(s)`. Which values are in it is read off the places of the two ranks in
their scripts: `Sent(s)` are the rounds whose sending call the owner has made,
`Got` of the peer those whose receiving call the peer has made, and `Pending(s)` is
the difference. The invariant `FarInv` has these parts:

- `FarTypeOK`: the types, and every rank is at a call of its own script.
- `LinkOK`: what was got was sent, and the wire holds the values of the pending
  rounds, in their order and each once; of a closed socket the marker may be
  missing. This is the part the other properties follow from.
- `PumpOK`: a send-pump leaves its loop only after its owner's quit, has ended when
  the owner goes on from the acknowledgement, and has nothing in its channel then.
- `ClosedOK`: a closed socket's owner has made the call that closes it.
- `AccOK`: the partials a rank holds are those of the ranks it has gathered from
  in this round, in their order.
- `OnlyMarkersLost`, which `CloseSafe` rests on: a rank that closes a socket has
  the peer's marker; the peer sent it in its teardown, so it has taken everything
  of the rounds before, and only the rank's own marker can still be pending.

The script enters through a few lemmas: `Places` (what a call at a stage can be),
`Keyed` (no two calls have the same place), `InScript` and `CallOfSock` (the calls
that send and receive on a socket are those of its rounds), and `Advanced` (a
step makes exactly the call the rank was at). `WireStep` says what a step does to
a wire: nothing, a value put on it, its first taken off, or a close.

`FarInStep`, `OnlyMarkersCanBeLost` and `PumpsDropFree` state the invariants of
`FarRun`, `WireHoldsPending` is `LinkOK` itself. `ReadBefore` adds the argument for how
far ranks can be apart: a rank past round b has read the values of round b, and
whoever sent those had read all values of the rounds before. Hence at most two
values are under way on a link, and one when another is about to be sent
(`UnderWay`), from which `FarSendsNeverBlock` follows for buffers of two values or
more, and neighbours are never more than a round apart
(`NeighboursOneRoundApart`). `FarImplementsLinks` is the refinement: by `OneMover`
a step moves one link at most, and what `WireStep` says of that link is a step of
`FarLinks`. `OnlyLookUpsPanic` bounds the finding of `FarHandle`: no other step can
end a process.

### RunFarWaits_proof

`FarNeverStuck` (`NeverStuck`) rests on `FarInv` and on `WaitInv` (`WaitInvariance`),
which ties whoever waits to what it waits for. `OpenOK`: a socket is in use from
set-up to close. `TurnOK`: a quit that was sent is in the channel or has been taken by
the send-pump, and so is its acknowledgement by the rank; a receive-pump has ended
only if its socket was closed. `JoinOK`: the receive-pumps of a rank that have ended
are those it has joined and those `pumpDone` still counts. `WholeOK`: while no marker is
lost, a link holds everything that is pending on it.

Suppose nobody has a step to make. Values on a link have then moved as far as they
can, so a link with something pending has it in the reach of its receiver, and a
rank waits in a get or a receive only if nothing is pending: its peer has not made
the sending call. By `UnderWay` no put and no send waits, and by `TurnOK` and `JoinOK` no
acknowledgement and no join does. Every unfinished rank thus waits for a peer that
is at an earlier call; calls are ordered by round, stage and turn, and of the
unfinished ranks one is the least far. It has nobody to wait for.

### What the proofs changed

The attempt to prove `InStep` found an ambiguity in its first statement: two arms
of a `CASE` overlapped in teardown, where TLC took the first and the logic either.
The expected value is now `Value`, the same operator `FarLinks` is instantiated
with.

### Only model-checked

- Liveness (`Completes`, `Ends`, `StartedFinishes`, `RunReturns`, `AllReturn`,
  `RunFarReturns`), which TLAPS does not reach.
- `NeverFallsOff`, `AliveWhenUsed`, `ReleasedOnExit`, `DefersAsInGo` and `EndsAsInGo`:
  `Terminating`, `Lowering` and `ControlFlow` are recursive over syntax trees, which
  needs `RECURSIVE` operators and induction over data. They are also not true of all
  bodies: the runs state for which they were checked.
- That `Stuck` of `Lanes` and of `RunFar`, and the waiting of `BalancedGoesOn`, are the
  states in which no action is enabled: TLC compared them with ENABLED on the
  instances of the runs.
- `HandlesValid`, `DeliveredSendSucceeds` and the like are violated, and are the
  subject of runs only.

## 5. What is left out

- In the run-time library: allocation failures; `goo_chan_free`, which only
  `time_shim.c:81` calls, on a channel no goroutine has seen; the order in which
  `goo_select` looks at several ready channels, and its timeouts, which the compiler
  does not use (one channel's cases are in `Channel`, the select of a pump over two
  in `RunFar`); the messaging patterns, which nothing calls; the Windows branches; Add with deltas other than 1 and its
  narrowing to `int`. The threads of `Channel` start together and have a worker
  each, which is `Scheduler`'s subject. Failures of NNG to open a
  socket (`far_transport.c:85-90`, `:119-126`) and arguments that `RunFar`
  (`lanes.go:759-770`) or `StencilStep` (`lanes.go:542-551`) rejects panic before the
  first exchange. `nng_close` and the release of the handle after it are one step of
  `RunFar`, as are the test of `running` and the pop in `Scheduler`'s `GetNext`, and in
  `Sync` the publication of a new object and the unlock after it: in each pair nobody
  else can do anything in between that it could not do before or after.
- In the control flow: expressions, and with them escapes, borrows, the exits of
  `try` and function literals; objects with more than one owner (the code
  generator emits no `goo_retain` today); deferred calls that panic; the bodies for which compilation fails (a return just before a
  label in the same block, statements after a return in a clause: LLVM's verifier
  rejects the module), since they have no execution.
- Memory model: variables are sequentially consistent. The channel and the
  scheduler touch shared state under a mutex; the slots of `sync` are
  acquire/release; `locked` is a plain `int`, and the only read of it that matters,
  by the thread that holds the mutex, follows that thread's own write.
- The lexer, the parser, the type checker as a whole, code generation for
  expressions and types, comptime evaluation and the tools are translations of
  text and trees: long case distinctions without state that later steps could
  find stale. They are most of the repository's lines, and a model of them would
  restate them case by case; this is why the modules cover a small share of the
  lines. Shims over time, I/O and the platform are thin.

## 6. Plan

1. Done: channels, the detector, the scheduler, lanes in one and in several
   processes, sync, control flow with arenas, defers and releases; proofs for
   channels, scheduler, lanes in one and in several processes and sync. Every
   invariant and every refinement the runs of these parts check is a theorem, and
   the absence of deadlock is one for balanced channel programs, for lanes and for
   `RunFar`.
2. Next models, in this order:
   - `Select`: `goo_select` over several channels and the order of its scan.
   - `Ownership`: shared and immortal counts; the arena allocator.
   - Import resolution and its cycle detection, against a reference definition on
     small graphs.
3. Next proofs: what the script of a rank with several lanes adds to `RunFar`, and
   the parts of `Lowering` that need no recursion (the stack of break scopes and the
   arenas freed for a jump).
