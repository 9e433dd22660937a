----------------------------- MODULE Sync_proof -----------------------------
(***************************************************************************)
(* Theorems about Sync, for any threads and client programs: the locks of  *)
(* a zero-value sync.Mutex exclude one another, and Unlock accuses nobody  *)
(* falsely.                                                                *)
(***************************************************************************)
EXTENDS Sync, TLAPS, SequenceTheorems

USE DEF StillEmpty, SecondLoad, UnlockInit, ClearsFlag

\* At most one object of each kind is made, because only the holder of
\* g_sync_init_lock makes one, having looked again.
OneObject ==
    /\ \A k \in Kinds : \/ made[k] = 0 /\ slot[k] = NULL
                        \/ made[k] = 1 /\ slot[k] = 1
    /\ \A t \in Threads : pc[t] \in {"recheck", "make"} => g_sync_init_lock = t
    /\ \A t \in Threads : pc[t] = "make" => slot[Kind(Op(t))] = NULL

\* The threads that own the pthread mutex: those that hold the lock, and those
\* in the middle of Lock or Unlock.
Owning(t) == t \in held \/ pc[t] \in {"acquired", "unlock1", "unlock2"}

\* They own it alone, and locked is set while one of them holds the lock.
OneOwner ==
    \A t \in Threads :
        /\ Owning(t) => made["mutex"] = 1 /\ owner[1] = t
        /\ t \in held => locked[1] = 1
        /\ pc[t] \in {"unlock1", "unlock2"} => t \notin held
        /\ pc[t] = "acquired" => Op(t) = "lock"
        /\ pc[t] \in {"unlock1", "unlock2"} => Op(t) = "unlock"

Inv == TypeOK /\ OneObject /\ (~misused => OneOwner) /\ NoFalsePanic

-----------------------------------------------------------------------------
LEMMA KindType == ASSUME NEW op PROVE Kind(op) \in Kinds
  BY DEF Kind, Kinds

LEMMA InitInv == Init => Inv
  <1> SUFFICES ASSUME Init PROVE Inv
    OBVIOUS
  <1>1. \A S : <<>> \in Seq(S) /\ Len(<<>>) = 0
    BY EmptySeq
  <1>2. TypeOK
    BY <1>1 DEF Init, TypeOK, ObjectTypeOK, MutexTypeOK, GroupTypeOK, ThreadTypeOK, PointersOK,
              Kinds, Places, Using
  <1>3. OneObject
    BY DEF Init, OneObject
  <1>4. OneOwner
    BY DEF Init, OneOwner, Owning
  <1> QED
    BY <1>2, <1>3, <1>4 DEF Inv, NoFalsePanic, Init

-----------------------------------------------------------------------------
\* The steps of t: those that find the object, those of Lock and Unlock, and
\* those of Add, Done and Wait.
EnsureStep(t) ==
    Ensure(t) \/ InitLock(t) \/ LostRace(t) \/ WonRace(t) \/ NewMutex(t) \/ NewWaitGroup(t)

MutexStep(t) ==
    Acquire(t) \/ MarkLocked(t) \/ CheckLocked(t) \/ Clear(t) \/ Release(t)

GroupStep(t) ==
    Add(t) \/ Park(t) \/ WaitReturns(t) \/ SpuriousWakeup(t)

\* What the calls of the other threads are is not for t to change.
LEMMA OthersKeepOp ==
  ASSUME TypeOK, NEW t \in Threads, prog' = prog, NEW place, Goto(t, place) \/ Return(t)
  PROVE  /\ \A u \in Threads \ {t} : pc'[u] = pc[u] /\ Op(u)' = Op(u)
         /\ Goto(t, place) => pc'[t] = place /\ Op(t)' = Op(t)
         /\ Return(t) => pc'[t] = "run"
  BY DEF TypeOK, ThreadTypeOK, Goto, Return, Op

\* An object of a kind that threads use is the only one, number 1.
LEMMA OnlyOne ==
  ASSUME TypeOK, OneObject, NEW t \in Threads, pc[t] \in Using
  PROVE  ptr[t] = 1 /\ made[Kind(Op(t))] = 1
  <1>1. Kind(Op(t)) \in Kinds
    BY KindType
  <1>2. ptr[t] \in 1..made[Kind(Op(t))]
    BY DEF TypeOK, PointersOK
  <1> QED
    BY <1>1, <1>2 DEF OneObject

LEMMA EnsureType ==
  ASSUME Inv, NEW t \in Threads, EnsureStep(t)
  PROVE  TypeOK'
  <1> USE DEF Inv
  <1>k. Kind(Op(t)) \in Kinds /\ "mutex" \in Kinds /\ "waitgroup" \in Kinds
    BY KindType DEF Kinds
  <1>1. CASE Ensure(t)
    <2>1. slot[Kind(Op(t))] \in Nat \cup {NULL}
      BY <1>k DEF TypeOK, ObjectTypeOK
    <2>2. ThreadTypeOK'
      BY <1>1, <2>1 DEF Ensure, Goto, TypeOK, ThreadTypeOK, Places
    <2>3. slot[Kind(Op(t))] # NULL => slot[Kind(Op(t))] \in 1..made[Kind(Op(t))]
      BY <1>k DEF OneObject
    <2>4. /\ \A u \in Threads \ {t} : pc'[u] = pc[u] /\ Op(u)' = Op(u) /\ ptr'[u] = ptr[u]
          /\ Op(t)' = Op(t) /\ ptr'[t] = slot[Kind(Op(t))]
          /\ pc'[t] = IF slot[Kind(Op(t))] # NULL THEN "call" ELSE "init"
          /\ made' = made
      BY <1>1 DEF Ensure, Goto, TypeOK, ThreadTypeOK, Op, initVars
    <2>5. PointersOK'
      BY <2>3, <2>4 DEF TypeOK, PointersOK, Using
    <2> QED
      BY <1>1, <2>2, <2>5
         DEF Ensure, TypeOK, ObjectTypeOK, MutexTypeOK, GroupTypeOK, initVars, mutexVars, wgVars
  <1>2. CASE InitLock(t)
    <2>1. ThreadTypeOK'
      BY <1>2 DEF InitLock, Goto, TypeOK, ThreadTypeOK, Places
    <2>2. PointersOK'
      BY <1>2, OthersKeepOp DEF InitLock, TypeOK, PointersOK, Using
    <2> QED
      BY <1>2, <2>1, <2>2
         DEF InitLock, TypeOK, ObjectTypeOK, MutexTypeOK, GroupTypeOK, mutexVars, wgVars
  <1>3. CASE LostRace(t)
    <2>1. slot[Kind(Op(t))] \in Nat \cup {NULL}
      BY <1>k DEF TypeOK, ObjectTypeOK
    <2>2. ThreadTypeOK'
      BY <1>3, <2>1 DEF LostRace, Goto, TypeOK, ThreadTypeOK, Places
    <2>3. slot[Kind(Op(t))] \in 1..made[Kind(Op(t))]
      BY <1>3, <1>k DEF LostRace, OneObject
    <2>4. PointersOK'
      BY <1>3, <2>3, OthersKeepOp DEF LostRace, TypeOK, ThreadTypeOK, PointersOK, Using
    <2> QED
      BY <1>3, <2>2, <2>4
         DEF LostRace, TypeOK, ObjectTypeOK, MutexTypeOK, GroupTypeOK, mutexVars, wgVars
  <1>4. CASE WonRace(t)
    <2>1. ThreadTypeOK'
      BY <1>4 DEF WonRace, Goto, TypeOK, ThreadTypeOK, Places
    <2>2. PointersOK'
      BY <1>4, OthersKeepOp DEF WonRace, TypeOK, PointersOK, Using, initVars
    <2> QED
      BY <1>4, <2>1, <2>2
         DEF WonRace, TypeOK, ObjectTypeOK, MutexTypeOK, GroupTypeOK, initVars, mutexVars, wgVars
  <1>5. CASE NewMutex(t)
    <2>1. made["mutex"] \in Nat /\ made'["mutex"] = made["mutex"] + 1 /\ made'["mutex"] \in Nat
      BY <1>5, <1>k DEF NewMutex, TypeOK, ObjectTypeOK
    <2>2. ObjectTypeOK'
      BY <1>5, <2>1 DEF NewMutex, TypeOK, ObjectTypeOK
    <2>3. MutexTypeOK'
      BY <1>5, <2>1, AppendProperties DEF NewMutex, TypeOK, MutexTypeOK
    <2>4. GroupTypeOK'
      BY <1>5 DEF NewMutex, TypeOK, ObjectTypeOK, GroupTypeOK, wgVars
    <2>5. ThreadTypeOK'
      BY <1>5, <2>1 DEF NewMutex, Goto, TypeOK, ThreadTypeOK, Places
    <2>6. \A k \in Kinds : made[k] \in Nat /\ made'[k] \in Nat /\ made[k] <= made'[k]
      BY <1>5, <2>1 DEF NewMutex, TypeOK, ObjectTypeOK
    <2>7. Kind(Op(t)) = "mutex" /\ Op(t)' = Op(t) /\ ptr'[t] = made'["mutex"]
      BY <1>5 DEF NewMutex, At, Kind, Goto, Op, TypeOK, ThreadTypeOK
    <2>8. \A u \in Threads \ {t} : Op(u)' = Op(u) /\ pc'[u] = pc[u] /\ ptr'[u] = ptr[u]
      BY <1>5, OthersKeepOp DEF NewMutex, TypeOK, ThreadTypeOK
    <2>9. \A u \in Threads : Kind(Op(u)) \in Kinds
      BY KindType
    <2>10. PointersOK'
      BY <2>1, <2>6, <2>7, <2>8, <2>9 DEF TypeOK, PointersOK
    <2> QED
      BY <2>2, <2>3, <2>4, <2>5, <2>10 DEF TypeOK
  <1>6. CASE NewWaitGroup(t)
    <2>1. made["waitgroup"] \in Nat /\ made'["waitgroup"] = made["waitgroup"] + 1 /\ made'["waitgroup"] \in Nat
      BY <1>6, <1>k DEF NewWaitGroup, TypeOK, ObjectTypeOK
    <2>2. ObjectTypeOK'
      BY <1>6, <2>1 DEF NewWaitGroup, TypeOK, ObjectTypeOK
    <2>3. GroupTypeOK'
      BY <1>6, <2>1, AppendProperties DEF NewWaitGroup, TypeOK, GroupTypeOK
    <2>4. MutexTypeOK'
      BY <1>6 DEF NewWaitGroup, TypeOK, ObjectTypeOK, MutexTypeOK, mutexVars
    <2>5. ThreadTypeOK'
      BY <1>6, <2>1 DEF NewWaitGroup, Goto, TypeOK, ThreadTypeOK, Places
    <2>6. \A k \in Kinds : made[k] \in Nat /\ made'[k] \in Nat /\ made[k] <= made'[k]
      BY <1>6, <2>1 DEF NewWaitGroup, TypeOK, ObjectTypeOK
    <2>7. Kind(Op(t)) = "waitgroup" /\ Op(t)' = Op(t) /\ ptr'[t] = made'["waitgroup"]
      BY <1>6 DEF NewWaitGroup, At, Kind, Goto, Op, TypeOK, ThreadTypeOK
    <2>8. \A u \in Threads \ {t} : Op(u)' = Op(u) /\ pc'[u] = pc[u] /\ ptr'[u] = ptr[u]
      BY <1>6, OthersKeepOp DEF NewWaitGroup, TypeOK, ThreadTypeOK
    <2>9. \A u \in Threads : Kind(Op(u)) \in Kinds
      BY KindType
    <2>10. PointersOK'
      BY <2>1, <2>6, <2>7, <2>8, <2>9 DEF TypeOK, PointersOK
    <2> QED
      BY <2>2, <2>3, <2>4, <2>5, <2>10 DEF TypeOK
  <1> QED
    BY <1>1, <1>2, <1>3, <1>4, <1>5, <1>6 DEF EnsureStep

LEMMA MutexType ==
  ASSUME Inv, NEW t \in Threads, MutexStep(t)
  PROVE  TypeOK'
  <1> USE DEF Inv
  <1>1. UNCHANGED <<initVars, wgVars, ptr, prog>>
    BY DEF MutexStep, Acquire, MarkLocked, CheckLocked, Clear, Release
  <1>2. ObjectTypeOK' /\ GroupTypeOK'
    BY <1>1 DEF TypeOK, ObjectTypeOK, GroupTypeOK, initVars, wgVars
  <1>a. pc[t] \in Using
    BY DEF MutexStep, Acquire, MarkLocked, CheckLocked, Clear, Release, At, Using
  <1>b. \/ Goto(t, "acquired") \/ Goto(t, "call") \/ Goto(t, "unlock1") \/ Goto(t, "unlock2")
        \/ Return(t)
    BY DEF MutexStep, Acquire, MarkLocked, CheckLocked, Clear, Release
  <1>3. PICK place \in Using \cup {"run"} :
            Goto(t, place) \/ (place = "run" /\ Return(t))
    BY <1>b DEF Using
  <1>4. PointersOK'
    BY <1>1, <1>a, <1>3, OthersKeepOp DEF TypeOK, PointersOK, Using, initVars
  <1>5. pc' \in [Threads -> Places] /\ ip' \in [Threads -> Nat]
    <2>0. ip \in [Threads -> Nat]
      BY DEF TypeOK, ThreadTypeOK
    <2>1. ip[t] \in Nat /\ ip[t] + 1 \in Nat
      BY <2>0
    <2>2. CASE Goto(t, place)
      BY <2>2 DEF TypeOK, ThreadTypeOK, Goto, Using, Places
    <2>3. CASE Return(t)
      BY <2>1, <2>3 DEF TypeOK, ThreadTypeOK, Return, Places
    <2> QED
      BY <1>3, <2>2, <2>3
  <1>6. held' \subseteq Threads
    BY DEF TypeOK, ThreadTypeOK, MutexStep, Acquire, MarkLocked, CheckLocked, Clear, Release
  <1>7. misused' \in BOOLEAN
    BY DEF TypeOK, ThreadTypeOK, MutexStep, Acquire, MarkLocked, CheckLocked, Clear, Release
  <1>8. outcome' \in {"running", "unlock of unlocked mutex", "negative WaitGroup counter"}
    BY DEF TypeOK, ThreadTypeOK, MutexStep, Acquire, MarkLocked, CheckLocked, Clear, Release
  <1>9. MutexTypeOK'
    <2>1. owner' = owner \/ \E v \in Threads \cup {NULL} : owner' = [owner EXCEPT ![ptr[t]] = v]
      BY DEF MutexStep, Acquire, MarkLocked, CheckLocked, Clear, Release, mutexVars
    <2>2. locked' = locked \/ \E v \in {0, 1} : locked' = [locked EXCEPT ![ptr[t]] = v]
      BY DEF MutexStep, Acquire, MarkLocked, CheckLocked, Clear, Release, mutexVars
    <2>3. owner' \in Seq(Threads \cup {NULL}) /\ Len(owner') = Len(owner)
      BY <2>1 DEF TypeOK, MutexTypeOK
    <2>4. locked' \in Seq({0, 1}) /\ Len(locked') = Len(locked)
      BY <2>2 DEF TypeOK, MutexTypeOK
    <2> QED
      BY <1>1, <2>3, <2>4 DEF TypeOK, MutexTypeOK, initVars
  <1> QED
    BY <1>1, <1>2, <1>4, <1>5, <1>6, <1>7, <1>8, <1>9 DEF TypeOK, ThreadTypeOK

LEMMA GroupType ==
  ASSUME Inv, NEW t \in Threads, GroupStep(t)
  PROVE  TypeOK'
  <1> USE DEF Inv
  <1>1. UNCHANGED <<initVars, mutexVars, ptr, prog, held, misused>>
    BY DEF GroupStep, Add, Park, WaitReturns, SpuriousWakeup
  <1>2. ObjectTypeOK' /\ MutexTypeOK'
    BY <1>1 DEF TypeOK, ObjectTypeOK, MutexTypeOK, initVars, mutexVars
  <1>3. \/ UNCHANGED <<pc, ip>>
        \/ Goto(t, "parked") /\ pc[t] \in Using
        \/ Return(t)
    BY DEF GroupStep, Add, Park, WaitReturns, SpuriousWakeup, Waits, At, Using
  <1>4. PointersOK'
    <2>1. CASE UNCHANGED <<pc, ip>>
      BY <1>1, <2>1 DEF TypeOK, PointersOK, Op, initVars
    <2>2. CASE Goto(t, "parked") /\ pc[t] \in Using
      BY <1>1, <2>2, OthersKeepOp DEF TypeOK, PointersOK, initVars
    <2>3. CASE Return(t)
      BY <1>1, <2>3, OthersKeepOp DEF TypeOK, PointersOK, Using, initVars
    <2> QED
      BY <1>3, <2>1, <2>2, <2>3
  <1>5. pc' \in [Threads -> Places] /\ ip' \in [Threads -> Nat]
    <2>0. ip \in [Threads -> Nat]
      BY DEF TypeOK, ThreadTypeOK
    <2>1. ip[t] \in Nat /\ ip[t] + 1 \in Nat
      BY <2>0
    <2>2. CASE UNCHANGED <<pc, ip>>
      BY <2>2 DEF TypeOK, ThreadTypeOK
    <2>3. CASE Goto(t, "parked")
      BY <2>3 DEF TypeOK, ThreadTypeOK, Goto, Places
    <2>4. CASE Return(t)
      BY <2>1, <2>4 DEF TypeOK, ThreadTypeOK, Return, Places
    <2> QED
      BY <1>3, <2>2, <2>3, <2>4
  <1>6. outcome' \in {"running", "unlock of unlocked mutex", "negative WaitGroup counter"}
    BY DEF TypeOK, ThreadTypeOK, GroupStep, Add, Park, WaitReturns, SpuriousWakeup
  <1>7. Op(t) \in {"add", "done", "wait"} /\ pc[t] \in Using
    BY DEF GroupStep, Add, Park, WaitReturns, SpuriousWakeup, Waits, At, Using
  <1>8. Kind(Op(t)) = "waitgroup"
    BY <1>7 DEF Kind
  <1>9. GroupTypeOK'
    <2>1. CASE WaitReturns(t)
      BY <1>1, <2>1 DEF WaitReturns, TypeOK, GroupTypeOK, initVars, wgVars
    <2>2. CASE ~WaitReturns(t)
      <3>1. ptr[t] \in 1..Len(counter) /\ ptr[t] \in 1..Len(sleeping)
        BY <1>7, <1>8 DEF TypeOK, PointersOK, GroupTypeOK
      <3>2. counter[ptr[t]] \in Int /\ sleeping[ptr[t]] \subseteq Threads
        BY <3>1 DEF TypeOK, GroupTypeOK
      <3>3. counter' = counter \/ \E v \in Int : counter' = [counter EXCEPT ![ptr[t]] = v]
        <4>1. CASE Add(t)
          <5>1. counter[ptr[t]] + (IF Op(t) = "add" THEN 1 ELSE -1) \in Int
            BY <3>2
          <5> QED
            BY <4>1, <5>1 DEF Add
        <4>2. CASE Park(t) \/ SpuriousWakeup(t)
          BY <4>2 DEF Park, SpuriousWakeup
        <4> QED
          BY <2>2, <4>1, <4>2 DEF GroupStep
      <3>4. \E v \in SUBSET Threads : sleeping' = [sleeping EXCEPT ![ptr[t]] = v]
        <4>1. CASE Add(t)
          BY <4>1, <3>2 DEF Add, WakesAll
        <4>2. CASE Park(t)
          <5>1. sleeping[ptr[t]] \cup {t} \in SUBSET Threads
            BY <3>2
          <5> QED
            BY <4>2, <5>1 DEF Park
        <4>3. CASE SpuriousWakeup(t)
          <5>1. sleeping[ptr[t]] \ {t} \in SUBSET Threads
            BY <3>2
          <5> QED
            BY <4>3, <5>1 DEF SpuriousWakeup
        <4> QED
          BY <2>2, <4>1, <4>2, <4>3 DEF GroupStep
      <3>5. counter' \in Seq(Int) /\ Len(counter') = Len(counter)
        BY <3>3, <3>1 DEF TypeOK, GroupTypeOK
      <3>6. sleeping' \in Seq(SUBSET Threads) /\ Len(sleeping') = Len(sleeping)
        BY <3>4, <3>1 DEF TypeOK, GroupTypeOK
      <3> QED
        BY <1>1, <3>5, <3>6 DEF TypeOK, GroupTypeOK, initVars
    <2> QED
      BY <2>1, <2>2
  <1> QED
    BY <1>1, <1>2, <1>4, <1>5, <1>6, <1>9 DEF TypeOK, ThreadTypeOK

LEMMA TypeStep ==
  ASSUME Inv, NEW t \in Threads, EnsureStep(t) \/ MutexStep(t) \/ GroupStep(t)
  PROVE  TypeOK'
  BY EnsureType, MutexType, GroupType

LEMMA OneObjectStep ==
  ASSUME Inv, NEW t \in Threads, EnsureStep(t) \/ MutexStep(t) \/ GroupStep(t)
  PROVE  OneObject'
  <1> USE DEF Inv, TypeOK, ThreadTypeOK, ObjectTypeOK, OneObject, Goto, Return, At, Op
  <1>k. \A op : Kind(op) \in Kinds
    BY KindType
  <1>1. ASSUME EnsureStep(t) PROVE OneObject'
    <2>k. Kind(Op(t)) \in Kinds /\ \A u \in Threads : Kind(Op(u)) \in Kinds
      BY KindType
    <2>1. CASE Ensure(t)
      <3>1. pc'[t] \in {"call", "init"} /\ \A u \in Threads \ {t} : pc'[u] = pc[u]
        BY <2>1 DEF Ensure
      <3>2. \A u \in Threads : Op(u)' = Op(u)
        BY <2>1 DEF Ensure
      <3> QED
        BY <2>1, <3>1, <3>2 DEF Ensure, initVars
    <2>2. CASE InitLock(t)
      BY <2>2, <1>k, SyncAssumption DEF InitLock
    <2>3. CASE LostRace(t)
      <3>1. pc'[t] = "call" /\ \A u \in Threads \ {t} : pc'[u] = pc[u]
        BY <2>3 DEF LostRace
      <3>2. \A u \in Threads \ {t} : pc[u] \notin {"recheck", "make"}
        BY <2>3 DEF LostRace
      <3> QED
        BY <2>3, <3>1, <3>2 DEF LostRace
    <2>4. CASE WonRace(t)
      BY <2>4 DEF WonRace, initVars
    <2>5. CASE NewMutex(t)
      <3>1. pc'[t] = "call" /\ \A u \in Threads \ {t} : pc'[u] = pc[u]
        BY <2>5 DEF NewMutex
      <3>2. \A u \in Threads \ {t} : pc[u] \notin {"recheck", "make"}
        BY <2>5 DEF NewMutex
      <3>3. made["mutex"] = 0
        BY <2>5, SyncAssumption DEF NewMutex, Kind, Kinds
      <3>4. \A k \in Kinds : \/ made'[k] = 0 /\ slot'[k] = NULL
                             \/ made'[k] = 1 /\ slot'[k] = 1
        BY <2>5, <3>3 DEF NewMutex
      <3> QED
        BY <3>1, <3>2, <3>4
    <2>6. CASE NewWaitGroup(t)
      <3>1. pc'[t] = "call" /\ \A u \in Threads \ {t} : pc'[u] = pc[u]
        BY <2>6 DEF NewWaitGroup
      <3>2. \A u \in Threads \ {t} : pc[u] \notin {"recheck", "make"}
        BY <2>6 DEF NewWaitGroup
      <3>o. Op(t) \in {"add", "done", "wait"} => Kind(Op(t)) = "waitgroup"
        BY DEF Kind
      <3>3. made["waitgroup"] = 0
        <4>1. Kind(Op(t)) = "waitgroup" /\ pc[t] = "make"
          BY <2>6, <3>o DEF NewWaitGroup
        <4>2. slot["waitgroup"] = NULL /\ "waitgroup" \in Kinds
          BY <4>1 DEF Kinds
        <4> QED
          BY <4>2, SyncAssumption
      <3>4. \A k \in Kinds : \/ made'[k] = 0 /\ slot'[k] = NULL
                             \/ made'[k] = 1 /\ slot'[k] = 1
        BY <2>6, <3>3 DEF NewWaitGroup
      <3> QED
        BY <3>1, <3>2, <3>4
    <2> QED
      BY <1>1, <2>1, <2>2, <2>3, <2>4, <2>5, <2>6 DEF EnsureStep
  <1>2. ASSUME MutexStep(t) \/ GroupStep(t) PROVE OneObject'
    BY <1>2 DEF MutexStep, GroupStep, Acquire, MarkLocked, CheckLocked, Clear, Release,
       Add, Park, WaitReturns, SpuriousWakeup, Waits, initVars
  <1> QED
    BY <1>1, <1>2

\* A step that touches neither the mutex nor the threads that own it.
LEMMA OwnersKept ==
  ASSUME OneOwner, UNCHANGED <<held, owner, locked>>, made'["mutex"] = made["mutex"],
         \A u \in Threads : \/ pc'[u] = pc[u] /\ Op(u)' = Op(u)
                            \/ pc'[u] \notin {"acquired", "unlock1", "unlock2"}
  PROVE  OneOwner'
  BY DEF OneOwner, Owning

LEMMA OneOwnerStep ==
  ASSUME Inv, NEW t \in Threads, EnsureStep(t) \/ MutexStep(t) \/ GroupStep(t), ~misused'
  PROVE  OneOwner'
  <1>m. ~misused
    BY DEF EnsureStep, MutexStep, GroupStep, Ensure, InitLock, LostRace, WonRace, NewMutex,
       NewWaitGroup, Acquire, MarkLocked, CheckLocked, Clear, Release, Add, Park, WaitReturns,
       SpuriousWakeup
  <1>o. OneOwner
    BY <1>m DEF Inv
  <1>t. TypeOK
    BY DEF Inv
  <1>k. "mutex" \in Kinds /\ "waitgroup" \in Kinds /\ "mutex" # "waitgroup"
    BY DEF Kinds
  <1>1. ASSUME EnsureStep(t) PROVE OneOwner'
    <2>1. UNCHANGED <<held, prog>>
      BY <1>1 DEF EnsureStep, Ensure, InitLock, LostRace, WonRace, NewMutex, NewWaitGroup
    <2>2. PICK place \in {"init", "recheck", "make", "call"} : Goto(t, place)
      BY <1>1 DEF EnsureStep, Ensure, InitLock, LostRace, WonRace, NewMutex, NewWaitGroup
    <2>3. \A u \in Threads : \/ pc'[u] = pc[u] /\ Op(u)' = Op(u)
                             \/ pc'[u] \notin {"acquired", "unlock1", "unlock2"}
      BY <2>1, <2>2, <1>t, OthersKeepOp
    <2>4. CASE NewMutex(t)
      <3>1. Kind(Op(t)) = "mutex" /\ pc[t] = "make"
        BY <2>4 DEF NewMutex, At, Kind
      <3>2. made["mutex"] = 0
        BY <3>1, <1>k, SyncAssumption DEF Inv, OneObject
      <3>3. \A u \in Threads : u \notin held /\ pc[u] \notin {"acquired", "unlock1", "unlock2"}
        BY <3>2, <1>o DEF OneOwner, Owning
      <3> QED
        BY <2>1, <2>2, <2>3, <3>3 DEF OneOwner, Owning
    <2>5. CASE ~NewMutex(t)
      <3>1. UNCHANGED <<owner, locked>>
        BY <1>1, <2>5 DEF EnsureStep, Ensure, InitLock, LostRace, WonRace, NewWaitGroup, mutexVars
      <3>2. made'["mutex"] = made["mutex"]
        BY <1>1, <2>5, <1>k, <1>t DEF EnsureStep, Ensure, InitLock, LostRace, WonRace,
           NewWaitGroup, initVars, TypeOK, ObjectTypeOK
      <3> QED
        BY <2>1, <2>3, <3>1, <3>2, <1>o, OwnersKept
    <2> QED
      BY <2>4, <2>5
  <1>2. ASSUME MutexStep(t) PROVE OneOwner'
    <2>1. pc[t] \in Using /\ Kind(Op(t)) = "mutex"
      BY <1>2 DEF MutexStep, Acquire, MarkLocked, CheckLocked, Clear, Release, At, Using, Kind
    <2>2. made["mutex"] = 1 /\ ptr[t] = 1
      BY <2>1, OnlyOne DEF Inv
    <2>3. made' = made /\ prog' = prog
      BY <1>2 DEF MutexStep, Acquire, MarkLocked, CheckLocked, Clear, Release, initVars
    <2>t. Len(owner) = 1 /\ Len(locked) = 1 /\ owner \in Seq(Threads \cup {NULL})
          /\ locked \in Seq({0, 1})
      BY <1>t, <2>2 DEF TypeOK, MutexTypeOK
    <2>4. CASE Acquire(t)
      <3>1. \A u \in Threads : u \notin held /\ pc[u] \notin {"acquired", "unlock1", "unlock2"}
        BY <2>2, <2>4, <1>o, SyncAssumption DEF Acquire, OneOwner, Owning
      <3>2. owner'[1] = t /\ held' = held /\ Op(t) = "lock"
        BY <2>2, <2>4, <2>t DEF Acquire, At
      <3>3. /\ \A u \in Threads \ {t} : pc'[u] = pc[u]
            /\ pc'[t] = "acquired" /\ Op(t)' = Op(t)
        BY <2>3, <2>4, <1>t, OthersKeepOp DEF Acquire
      <3> QED
        BY <2>2, <2>3, <3>1, <3>2, <3>3 DEF OneOwner, Owning
    <2>5. CASE MarkLocked(t)
      <3>1. pc[t] = "acquired" /\ owner[1] = t /\ owner' = owner /\ held' = held \cup {t}
        BY <2>5, <1>o DEF MarkLocked, At, OneOwner, Owning
      <3>2. \A u \in Threads \ {t} : ~Owning(u)
        BY <3>1, <1>o DEF OneOwner
      <3>3. pc'[t] = "run" /\ \A u \in Threads \ {t} : pc'[u] = pc[u]
        BY <2>3, <2>5, <1>t, OthersKeepOp DEF MarkLocked
      <3>4. locked'[1] = 1
        BY <2>2, <2>5, <2>t DEF MarkLocked
      <3> QED
        BY <2>2, <2>3, <3>1, <3>2, <3>3, <3>4 DEF OneOwner, Owning
    <2>6. CASE CheckLocked(t)
      <3>1. t \in held /\ held' = held \ {t} /\ owner' = owner /\ locked' = locked
        BY <2>6 DEF CheckLocked, mutexVars
      <3>2. owner[1] = t /\ Op(t) = "unlock"
        BY <2>6, <3>1, <1>o DEF CheckLocked, At, OneOwner, Owning
      <3>3. \A u \in Threads \ {t} : ~Owning(u)
        BY <3>2, <1>o DEF OneOwner
      <3>4. /\ pc'[t] \in {"call", "unlock1"} /\ Op(t)' = Op(t)
            /\ \A u \in Threads \ {t} : pc'[u] = pc[u]
        BY <2>3, <2>6, <1>t, OthersKeepOp DEF CheckLocked
      <3> QED
        BY <2>2, <2>3, <3>1, <3>2, <3>3, <3>4 DEF OneOwner, Owning
    <2>7. CASE Clear(t)
      <3>1. pc[t] = "unlock1" /\ owner' = owner /\ held' = held
        BY <2>7 DEF Clear
      <3>2. owner[1] = t /\ t \notin held /\ Op(t) = "unlock"
        BY <3>1, <1>o DEF OneOwner, Owning
      <3>3. \A u \in Threads \ {t} : ~Owning(u)
        BY <3>2, <1>o DEF OneOwner
      <3>4. /\ pc'[t] = "unlock2" /\ Op(t)' = Op(t)
            /\ \A u \in Threads \ {t} : pc'[u] = pc[u]
        BY <2>3, <2>7, <3>1, <1>t, OthersKeepOp DEF Clear
      <3> QED
        BY <2>2, <2>3, <3>1, <3>2, <3>3, <3>4 DEF OneOwner, Owning
    <2>8. CASE Release(t)
      <3>1. pc[t] = "unlock2" /\ locked' = locked /\ held' = held
        BY <2>8 DEF Release
      <3>2. owner[1] = t /\ t \notin held
        BY <3>1, <1>o DEF OneOwner, Owning
      <3>3. \A u \in Threads \ {t} : ~Owning(u)
        BY <3>2, <1>o DEF OneOwner
      <3>4. pc'[t] = "run" /\ \A u \in Threads \ {t} : pc'[u] = pc[u]
        BY <2>3, <2>8, <3>1, <1>t, OthersKeepOp DEF Release
      <3> QED
        BY <2>3, <3>1, <3>2, <3>3, <3>4 DEF OneOwner, Owning
    <2> QED
      BY <1>2, <2>4, <2>5, <2>6, <2>7, <2>8 DEF MutexStep
  <1>3. ASSUME GroupStep(t) PROVE OneOwner'
    <2>1. UNCHANGED <<held, owner, locked, made, prog>>
      BY <1>3 DEF GroupStep, Add, Park, WaitReturns, SpuriousWakeup, initVars, mutexVars
    <2>2. \/ UNCHANGED <<pc, ip>> \/ Goto(t, "parked") \/ Return(t)
      BY <1>3 DEF GroupStep, Add, Park, WaitReturns, SpuriousWakeup
    <2>3. \A u \in Threads : \/ pc'[u] = pc[u] /\ Op(u)' = Op(u)
                             \/ pc'[u] \notin {"acquired", "unlock1", "unlock2"}
      <3>1. CASE UNCHANGED <<pc, ip>>
        BY <2>1, <3>1 DEF Op
      <3>2. CASE Goto(t, "parked") \/ Return(t)
        BY <2>1, <3>2, <1>t, OthersKeepOp
      <3> QED
        BY <2>2, <3>1, <3>2
    <2> QED
      BY <2>1, <2>3, <1>o, OwnersKept
  <1> QED
    BY <1>1, <1>2, <1>3

LEMMA PanicStep ==
  ASSUME Inv, NEW t \in Threads, EnsureStep(t) \/ MutexStep(t) \/ GroupStep(t)
  PROVE  NoFalsePanic'
  <1>0. 0 # 1
    OBVIOUS
  <1>1. CASE CheckLocked(t)
    <2> SUFFICES ASSUME outcome' = "unlock of unlocked mutex", ~misused' PROVE FALSE
      BY DEF NoFalsePanic
    <2>1. pc[t] \in Using /\ outcome = "running"
      BY <1>1 DEF CheckLocked, At, Using
    <2>2. locked[ptr[t]] = 0
      BY <1>1, <2>1 DEF CheckLocked
    <2>3. ptr[t] = 1
      BY <2>1, OnlyOne DEF Inv
    <2>4. ~misused /\ t \in held
      BY <1>1 DEF CheckLocked
    <2>5. locked[1] = 1
      BY <2>4 DEF Inv, OneOwner
    <2> QED
      BY <1>0, <2>2, <2>3, <2>5, Zenon
  <1>2. CASE ~CheckLocked(t)
    <2>1. misused' = misused
      BY <1>2 DEF EnsureStep, MutexStep, GroupStep, Ensure, InitLock, LostRace, WonRace, NewMutex,
         NewWaitGroup, Acquire, MarkLocked, Clear, Release, Add, Park, WaitReturns, SpuriousWakeup
    <2>2. outcome' = outcome \/ outcome' = "negative WaitGroup counter"
      BY <1>2 DEF EnsureStep, MutexStep, GroupStep, Ensure, InitLock, LostRace, WonRace, NewMutex,
         NewWaitGroup, Acquire, MarkLocked, Clear, Release, Add, Park, WaitReturns, SpuriousWakeup
    <2> QED
      BY <2>1, <2>2 DEF Inv, NoFalsePanic
  <1> QED
    BY <1>1, <1>2

\* Inv is inductive: from g_sync_init_lock follows one object, from one object
\* one owner, and from one owner that the flag Unlock reads is its holder's.
THEOREM Invariance == Spec => []Inv
  <1>1. Init => Inv
    BY InitInv
  <1>2. Inv /\ [Next]_vars => Inv'
    <2> SUFFICES ASSUME Inv, [Next]_vars PROVE Inv'
      OBVIOUS
    <2>1. CASE UNCHANGED vars
      BY <2>1 DEF vars, initVars, mutexVars, wgVars, Inv, TypeOK, ObjectTypeOK, MutexTypeOK,
         GroupTypeOK, ThreadTypeOK, PointersOK, OneObject, OneOwner, Owning, NoFalsePanic, Op
    <2>2. CASE Next
      <3>1. PICK t \in Threads : EnsureStep(t) \/ MutexStep(t) \/ GroupStep(t)
        BY <2>2 DEF Next, Call, EnsureStep, MutexStep, GroupStep
      <3> QED
        BY <3>1, TypeStep, OneObjectStep, OneOwnerStep, PanicStep DEF Inv
    <2> QED
      BY <2>1, <2>2
  <1> QED
    BY <1>1, <1>2, PTL DEF Spec

\* A zero-value Mutex that many threads lock for the first time at once still
\* lets one of them in at a time (sync_mutex_ensure, goo_mutex_lock).
THEOREM LocksExclude == Spec => []MutualExclusion
  <1>1. Inv => MutualExclusion
    BY DEF Inv, OneOwner, Owning, MutualExclusion, TypeOK, ThreadTypeOK
  <1> QED
    BY <1>1, Invariance, PTL

\* goo_sync_mutex_unlock panics only in a program that unlocks what it has not
\* locked, although it reads the flag without synchronisation.
THEOREM UnlockIsFair == Spec => []NoFalsePanic
  <1>1. Inv => NoFalsePanic
    BY DEF Inv
  <1> QED
    BY <1>1, Invariance, PTL

\* No call works on a null or missing object.
THEOREM SyncTypeCorrect == Spec => []TypeOK
  <1>1. Inv => TypeOK
    BY DEF Inv
  <1> QED
    BY <1>1, Invariance, PTL

LEMMA WokenStep ==
  ASSUME Inv, WaitersWoken, NEW t \in Threads, EnsureStep(t) \/ MutexStep(t) \/ GroupStep(t)
  PROVE  WaitersWoken'
  <1>t. /\ counter \in Seq(Int) /\ sleeping \in Seq(SUBSET Threads)
        /\ Len(counter) = Len(sleeping)
    BY DEF Inv, TypeOK, GroupTypeOK
  <1>1. CASE UNCHANGED wgVars
    BY <1>1 DEF wgVars, WaitersWoken
  <1>2. CASE NewWaitGroup(t)
    <2>1. counter' = Append(counter, 0) /\ sleeping' = Append(sleeping, {})
      BY <1>2 DEF NewWaitGroup
    <2>2. /\ Len(counter') = Len(counter) + 1 /\ sleeping'[Len(counter) + 1] = {}
          /\ \A k \in 1..Len(counter) : counter'[k] = counter[k] /\ sleeping'[k] = sleeping[k]
      BY <1>t, <2>1
    <2> QED
      BY <1>t, <2>2 DEF WaitersWoken
  <1>3. CASE Add(t) \/ Park(t) \/ SpuriousWakeup(t)
    <2>1. pc[t] \in Using /\ Kind(Op(t)) = "waitgroup"
      BY <1>3 DEF Add, Park, SpuriousWakeup, Waits, At, Using, Kind
    <2>2. ptr[t] \in 1..Len(counter)
      BY <2>1 DEF Inv, TypeOK, PointersOK, GroupTypeOK
    <2>3. counter[ptr[t]] \in Int
      BY <1>t, <2>2
    <2>4. CASE Add(t)
      <3>1. PICK n \in Int, left \in SUBSET Threads :
              /\ counter' = [counter EXCEPT ![ptr[t]] = n]
              /\ sleeping' = [sleeping EXCEPT ![ptr[t]] = left]
              /\ n = 0 => left = {}
        <4>1. /\ counter[ptr[t]] + (IF Op(t) = "add" THEN 1 ELSE -1) \in Int
              /\ sleeping[ptr[t]] \in SUBSET Threads /\ {} \in SUBSET Threads
          BY <1>t, <2>2, <2>3
        <4> QED
          BY <2>4, <4>1 DEF Add, WakesAll
      <3>2. /\ Len(counter') = Len(counter)
            /\ counter'[ptr[t]] = n /\ sleeping'[ptr[t]] = left
            /\ \A k \in 1..Len(counter) \ {ptr[t]} :
                  counter'[k] = counter[k] /\ sleeping'[k] = sleeping[k]
        BY <1>t, <2>2, <3>1
      <3> QED
        BY <3>1, <3>2 DEF WaitersWoken
    <2>5. CASE Park(t)
      <3>1. counter' = counter /\ counter[ptr[t]] # 0
        BY <2>3, <2>5 DEF Park, MustPark
      <3>2. \A k \in 1..Len(counter) \ {ptr[t]} : sleeping'[k] = sleeping[k]
        BY <1>t, <2>5 DEF Park
      <3> QED
        BY <3>1, <3>2 DEF WaitersWoken
    <2>6. CASE SpuriousWakeup(t)
      <3>1. counter' = counter
        BY <2>6 DEF SpuriousWakeup
      <3>2. \A k \in 1..Len(counter) : sleeping'[k] # {} => sleeping[k] # {}
        BY <1>t, <2>6 DEF SpuriousWakeup
      <3> QED
        BY <3>1, <3>2 DEF WaitersWoken
    <2> QED
      BY <1>3, <2>4, <2>5, <2>6
  <1> QED
    BY <1>1, <1>2, <1>3 DEF EnsureStep, MutexStep, GroupStep, Ensure, InitLock, LostRace, WonRace,
       NewMutex, Acquire, MarkLocked, CheckLocked, Clear, Release, WaitReturns

\* goo_waitgroup_wait sleeps only while the counter is not zero: the one
\* broadcast, by the Add or Done that reaches zero, comes when all who sleep
\* must hear it, whatever calls are made around that moment.
THEOREM NobodySleepsAtZero == Spec => []WaitersWoken
  <1>1. Init => WaitersWoken
    BY DEF Init, WaitersWoken
  <1>2. Inv /\ WaitersWoken /\ [Next]_vars => WaitersWoken'
    <2> SUFFICES ASSUME Inv, WaitersWoken, [Next]_vars PROVE WaitersWoken'
      OBVIOUS
    <2>1. CASE UNCHANGED vars
      BY <2>1 DEF vars, wgVars, WaitersWoken
    <2>2. CASE Next
      <3>1. PICK t \in Threads : EnsureStep(t) \/ MutexStep(t) \/ GroupStep(t)
        BY <2>2 DEF Next, Call, EnsureStep, MutexStep, GroupStep
      <3> QED
        BY <3>1, WokenStep
    <2> QED
      BY <2>1, <2>2
  <1> QED
    BY <1>1, <1>2, Invariance, PTL DEF Spec
=============================================================================
