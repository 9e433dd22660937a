-------------------------------- MODULE Sync --------------------------------
(***************************************************************************)
(* The sync package: one sync.Mutex and one sync.WaitGroup, both zero      *)
(* values at first (src/src/runtime/sync_shim.c over sync.c).  Each call   *)
(* first finds, or creates under g_sync_init_lock, the primitive behind    *)
(* its slot; the fast path reads the slot without the lock.  The locked    *)
(* flag of a mutex is written under the pthread mutex and read by Unlock   *)
(* without regard to it, so each of these accesses is a step of its own.   *)
(*                                                                         *)
(* An operator marked as a mutant is a wrong version of the definition     *)
(* after it; no action uses one.                                           *)
(***************************************************************************)
EXTENDS Integers, Sequences, FiniteSets

CONSTANTS
    Threads,    \* goroutines and main: callers of the package
    NULL,
    Programs    \* the client programs explored: thread -> calls

Ops == {"lock", "unlock", "add", "done", "wait"}

Kinds == {"mutex", "waitgroup"}

Kind(op) == IF op \in {"lock", "unlock"} THEN "mutex" ELSE "waitgroup"

ASSUME SyncAssumption ==
    /\ NULL \notin Threads /\ NULL \notin Nat
    /\ Programs \subseteq [Threads -> Seq(Ops)]

VARIABLES
    slot,               \* kind -> the object published in the variable, or NULL
    made,               \* kind -> number of objects allocated; they are 1..made
    g_sync_init_lock,   \* its holder, or NULL
    owner,              \* object -> thread in the pthread mutex, or NULL
    locked,             \* object -> mutex->locked
    counter, sleeping,  \* object -> wg->counter; threads in its cond_wait
    ptr,                \* thread -> the object its call works on
    prog, ip, pc,       \* thread -> its calls, and where it is
    outcome,            \* "running", or why the process panicked
    held, misused       \* history: threads between Lock and Unlock; a thread
                        \* that was not one of them has called Unlock

initVars == <<slot, made, g_sync_init_lock>>
mutexVars == <<owner, locked>>
wgVars == <<counter, sleeping>>
vars == <<initVars, mutexVars, wgVars, ptr, prog, ip, pc, outcome, held, misused>>

Init ==
    /\ slot = [k \in Kinds |-> NULL]
    /\ made = [k \in Kinds |-> 0]
    /\ g_sync_init_lock = NULL
    /\ owner = <<>> /\ locked = <<>>
    /\ counter = <<>> /\ sleeping = <<>>
    /\ ptr = [t \in Threads |-> NULL]
    /\ prog \in Programs
    /\ ip = [t \in Threads |-> 1]
    /\ pc = [t \in Threads |-> "run"]
    /\ outcome = "running"
    /\ held = {} /\ misused = FALSE

Op(t) == IF ip[t] <= Len(prog[t]) THEN prog[t][ip[t]] ELSE "exit"

At(t, place, ops) == outcome = "running" /\ pc[t] = place /\ Op(t) \in ops

Goto(t, place) == pc' = [pc EXCEPT ![t] = place] /\ UNCHANGED ip

Return(t) == pc' = [pc EXCEPT ![t] = "run"] /\ ip' = [ip EXCEPT ![t] = @ + 1]

-----------------------------------------------------------------------------
(* sync_mutex_ensure and sync_wg_ensure *)

\* The acquire load: the object if it is there, else the slow path.
Ensure(t) ==
    /\ At(t, "run", Ops)
    /\ LET p == slot[Kind(Op(t))] IN
        /\ ptr' = [ptr EXCEPT ![t] = p]
        /\ Goto(t, IF p # NULL THEN "call" ELSE "init")
    /\ UNCHANGED <<initVars, mutexVars, wgVars, prog, outcome, held, misused>>

InitLock(t) ==
    /\ At(t, "init", Ops)
    /\ g_sync_init_lock = NULL
    /\ g_sync_init_lock' = t
    /\ Goto(t, "recheck")
    /\ UNCHANGED <<slot, made, mutexVars, wgVars, ptr, prog, outcome, held, misused>>

\* Mutant: the slot is not read again under the lock.
NotRechecked(k) == TRUE

StillEmpty(k) == slot[k] = NULL

\* Mutant: what was read before the lock is returned.
FirstLoad(t) == ptr[t]

SecondLoad(t) == slot[Kind(Op(t))]

\* Mutant: the early way out forgets to unlock.
LeftLocked == g_sync_init_lock

UnlockInit == NULL

\* Somebody else has made it: use what is published.
LostRace(t) ==
    /\ At(t, "recheck", Ops)
    /\ ~StillEmpty(Kind(Op(t)))
    /\ ptr' = [ptr EXCEPT ![t] = SecondLoad(t)]
    /\ g_sync_init_lock' = UnlockInit
    /\ Goto(t, "call")
    /\ UNCHANGED <<slot, made, mutexVars, wgVars, prog, outcome, held, misused>>

WonRace(t) ==
    /\ At(t, "recheck", Ops)
    /\ StillEmpty(Kind(Op(t)))
    /\ Goto(t, "make")
    /\ UNCHANGED <<initVars, mutexVars, wgVars, ptr, prog, outcome, held, misused>>

\* goo_mutex_new, and the release store of the pointer.
NewMutex(t) ==
    /\ At(t, "make", {"lock", "unlock"})
    /\ made' = [made EXCEPT !["mutex"] = @ + 1]
    /\ slot' = [slot EXCEPT !["mutex"] = made'["mutex"]]
    /\ owner' = Append(owner, NULL)
    /\ locked' = Append(locked, 0)
    /\ ptr' = [ptr EXCEPT ![t] = made'["mutex"]]
    /\ g_sync_init_lock' = NULL
    /\ Goto(t, "call")
    /\ UNCHANGED <<wgVars, prog, outcome, held, misused>>

\* goo_waitgroup_new.
NewWaitGroup(t) ==
    /\ At(t, "make", {"add", "done", "wait"})
    /\ made' = [made EXCEPT !["waitgroup"] = @ + 1]
    /\ slot' = [slot EXCEPT !["waitgroup"] = made'["waitgroup"]]
    /\ counter' = Append(counter, 0)
    /\ sleeping' = Append(sleeping, {})
    /\ ptr' = [ptr EXCEPT ![t] = made'["waitgroup"]]
    /\ g_sync_init_lock' = NULL
    /\ Goto(t, "call")
    /\ UNCHANGED <<mutexVars, prog, outcome, held, misused>>

-----------------------------------------------------------------------------
(* Lock and Unlock *)

Acquire(t) ==
    /\ At(t, "call", {"lock"})
    /\ owner[ptr[t]] = NULL
    /\ owner' = [owner EXCEPT ![ptr[t]] = t]
    /\ Goto(t, "acquired")
    /\ UNCHANGED <<initVars, locked, wgVars, ptr, prog, outcome, held, misused>>

MarkLocked(t) ==
    /\ At(t, "acquired", {"lock"})
    /\ locked' = [locked EXCEPT ![ptr[t]] = 1]
    /\ Return(t)
    /\ held' = held \cup {t}
    /\ UNCHANGED <<initVars, owner, wgVars, ptr, prog, outcome, misused>>

\* The unsynchronised read of locked.
CheckLocked(t) ==
    /\ At(t, "call", {"unlock"})
    /\ IF locked[ptr[t]] = 0
       THEN outcome' = "unlock of unlocked mutex" /\ Goto(t, "call")
       ELSE outcome' = outcome /\ Goto(t, "unlock1")
    /\ misused' = (misused \/ t \notin held)
    /\ held' = held \ {t}
    /\ UNCHANGED <<initVars, mutexVars, wgVars, ptr, prog>>

\* Mutant: the flag is cleared after the pthread mutex is released.
ClearLast(place) == place = "unlock2"

\* goo_mutex_unlock makes two writes: which one a thread is about to make.
ClearsFlag(place) == place = "unlock1"

Clear(t) ==
    /\ pc[t] \in {"unlock1", "unlock2"} /\ ClearsFlag(pc[t])
    /\ At(t, pc[t], {"unlock"})
    /\ locked' = [locked EXCEPT ![ptr[t]] = 0]
    /\ IF pc[t] = "unlock1" THEN Goto(t, "unlock2") ELSE Return(t)
    /\ UNCHANGED <<initVars, owner, wgVars, ptr, prog, outcome, held, misused>>

Release(t) ==
    /\ pc[t] \in {"unlock1", "unlock2"} /\ ~ClearsFlag(pc[t])
    /\ At(t, pc[t], {"unlock"})
    /\ owner' = [owner EXCEPT ![ptr[t]] = NULL]
    /\ IF pc[t] = "unlock1" THEN Goto(t, "unlock2") ELSE Return(t)
    /\ UNCHANGED <<initVars, locked, wgVars, ptr, prog, outcome, held, misused>>

-----------------------------------------------------------------------------
(* Add, Done and Wait *)

\* Mutant: one waiter is woken.
WakesOne(waiters) == IF waiters = {} THEN {{}} ELSE {waiters \ {w} : w \in waiters}

\* pthread_cond_broadcast: nobody is left asleep.
WakesAll(waiters) == {{}}

\* goo_waitgroup_add with delta 1 or, for Done, -1, under the group's mutex.
Add(t) ==
    /\ At(t, "call", {"add", "done"})
    /\ LET n == counter[ptr[t]] + (IF Op(t) = "add" THEN 1 ELSE -1) IN
        /\ counter' = [counter EXCEPT ![ptr[t]] = n]
        /\ outcome' = IF n < 0 THEN "negative WaitGroup counter" ELSE outcome
        /\ \E left \in IF n = 0 THEN WakesAll(sleeping[ptr[t]]) ELSE {sleeping[ptr[t]]} :
               sleeping' = [sleeping EXCEPT ![ptr[t]] = left]
    /\ Return(t)
    /\ UNCHANGED <<initVars, mutexVars, ptr, prog, held, misused>>

\* t has just called Wait, or is back from its cond_wait.
Waits(t) ==
    \/ At(t, "call", {"wait"})
    \/ At(t, "parked", {"wait"}) /\ t \notin sleeping[ptr[t]]

MustPark(t) == counter[ptr[t]] > 0

Park(t) ==
    /\ Waits(t) /\ MustPark(t)
    /\ sleeping' = [sleeping EXCEPT ![ptr[t]] = @ \cup {t}]
    /\ Goto(t, "parked")
    /\ UNCHANGED <<initVars, mutexVars, counter, ptr, prog, outcome, held, misused>>

WaitReturns(t) ==
    /\ Waits(t) /\ ~MustPark(t)
    /\ Return(t)
    /\ UNCHANGED <<initVars, mutexVars, wgVars, ptr, prog, outcome, held, misused>>

\* pthread_cond_wait may return without a broadcast.
SpuriousWakeup(t) ==
    /\ At(t, "parked", {"wait"}) /\ t \in sleeping[ptr[t]]
    /\ sleeping' = [sleeping EXCEPT ![ptr[t]] = @ \ {t}]
    /\ UNCHANGED <<initVars, mutexVars, counter, ptr, prog, ip, pc, outcome, held, misused>>

-----------------------------------------------------------------------------
Call(t) ==
    \/ Ensure(t) \/ InitLock(t) \/ LostRace(t) \/ WonRace(t)
    \/ NewMutex(t) \/ NewWaitGroup(t)
    \/ Acquire(t) \/ MarkLocked(t)
    \/ CheckLocked(t) \/ Clear(t) \/ Release(t)
    \/ Add(t) \/ Park(t) \/ WaitReturns(t)

Next == \E t \in Threads : Call(t) \/ SpuriousWakeup(t)

Spec == Init /\ [][Next]_vars

\* Threads run when they can.
FairSpec == Spec /\ \A t \in Threads : WF_vars(Call(t))

-----------------------------------------------------------------------------
(* Properties *)

Places ==
    {"run", "init", "recheck", "make", "call", "acquired", "unlock1", "unlock2", "parked"}

\* Where a thread works on the object ptr points to.
Using == {"call", "acquired", "unlock1", "unlock2", "parked"}

ObjectTypeOK ==
    /\ made \in [Kinds -> Nat]
    /\ slot \in [Kinds -> Nat \cup {NULL}]
    /\ g_sync_init_lock \in Threads \cup {NULL}

MutexTypeOK ==
    /\ owner \in Seq(Threads \cup {NULL}) /\ Len(owner) = made["mutex"]
    /\ locked \in Seq({0, 1}) /\ Len(locked) = made["mutex"]

GroupTypeOK ==
    /\ counter \in Seq(Int) /\ Len(counter) = made["waitgroup"]
    /\ sleeping \in Seq(SUBSET Threads) /\ Len(sleeping) = made["waitgroup"]

ThreadTypeOK ==
    /\ ptr \in [Threads -> Nat \cup {NULL}]
    /\ prog \in Programs /\ ip \in [Threads -> Nat] /\ pc \in [Threads -> Places]
    /\ outcome \in {"running", "unlock of unlocked mutex", "negative WaitGroup counter"}
    /\ held \subseteq Threads /\ misused \in BOOLEAN

PointersOK == \A t \in Threads : pc[t] \in Using => ptr[t] \in 1..made[Kind(Op(t))]

\* The objects are those that were made, and a thread past its ensure call
\* has one of them, never the null it may have read at first.
TypeOK == ObjectTypeOK /\ MutexTypeOK /\ GroupTypeOK /\ ThreadTypeOK /\ PointersOK

\* "splitting subsequent callers across two distinct mutexes that no longer
\* serialize each other" (sync_shim.c:18-21) does not happen: between Lock and
\* Unlock a thread is alone, unless some thread has unlocked another's lock.
MutualExclusion == ~misused => \A t, u \in held : t = u

\* Unlock's unsynchronised look at locked never accuses a thread that holds
\* the mutex, whatever other threads' Lock and Unlock are in the middle of.
NoFalsePanic == outcome = "unlock of unlocked mutex" => misused

\* Wait re-tests the counter only when it is woken, and only the Add or Done
\* that brings the counter to zero wakes anybody: nobody sleeps at zero.
WaitersWoken ==
    \A k \in 1..Len(counter) : sleeping[k] # {} => counter[k] # 0
=============================================================================
