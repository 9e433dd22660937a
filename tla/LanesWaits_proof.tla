-------------------------- MODULE LanesWaits_proof --------------------------
(***************************************************************************)
(* lanes.Run cannot deadlock when the scheduler has a worker for every     *)
(* lane: a proof for any number of lanes and of rounds, any radius and any *)
(* rounds that end in a reduction.                                         *)
(*                                                                         *)
(* Queued adds to the invariant of Lanes_proof that a lane without a       *)
(* worker is not forgotten.  If everybody waits, every lane has a worker   *)
(* or has finished, none waits in a send of the collective or on `done`,   *)
(* and each of the others waits for a lane that is behind it: in an        *)
(* earlier round, or at an earlier place of the same round.  So the lane   *)
(* that is furthest behind has nobody to wait for.                         *)
(***************************************************************************)
EXTENDS Lanes_proof, WellFoundedInduction

(* A lane that was spawned and has no worker yet is in the queue.          *)
Queued ==
    \A i \in Ids : pc[i] = "queued" => \E k \in 1..Len(ready_queue) : ready_queue[k] = i

-----------------------------------------------------------------------------
(* Nothing that a lane or the combiner does once it has a worker touches   *)
(* the queue.                                                              *)
LEMMA QueuedKept ==
    ASSUME Queued, ready_queue' = ready_queue,
           \A i \in Ids : pc'[i] = "queued" => pc[i] = "queued"
    PROVE  Queued'
  BY DEF Queued

LEMMA QueuedStart ==
    ASSUME Inv, Queued, NEW i \in Ids, Start(i)
    PROVE  Queued'
  <1>1. /\ ready_queue \in Seq(Ids) /\ pc \in [Ids -> Places]
        /\ ready_queue # <<>> /\ i = Head(ready_queue)
        /\ ready_queue' = Tail(ready_queue) /\ pc' = [pc EXCEPT ![i] = "sendR"]
    BY DEF Inv, TypeOK, Start, Goto
  <1> SUFFICES ASSUME NEW j \in Ids, pc'[j] = "queued"
      PROVE  \E k \in 1..Len(ready_queue') : ready_queue'[k] = j
    BY DEF Queued
  <1>2. j # i /\ pc[j] = "queued"
    BY <1>1
  <1>3. PICK k \in 1..Len(ready_queue) : ready_queue[k] = j
    BY <1>2 DEF Queued
  <1>4. k # 1
    BY <1>1, <1>2, <1>3
  <1>5. k - 1 \in 1..Len(ready_queue') /\ ready_queue'[k - 1] = j
    BY <1>1, <1>3, <1>4
  <1> QED
    BY <1>5

LEMMA QueuedSpawn ==
    ASSUME Inv, Queued, Spawn
    PROVE  Queued'
  <1>1. /\ ready_queue \in Seq(Ids) /\ pc \in [Ids -> Places] /\ spawned \in Ids
        /\ ready_queue' = <<spawned>> \o ready_queue /\ pc' = [pc EXCEPT ![spawned] = "queued"]
    BY Sizes DEF Inv, TypeOK, Spawn, Goto, Ids
  <1>2. /\ Len(ready_queue') = Len(ready_queue) + 1 /\ ready_queue'[1] = spawned
        /\ \A k \in 1..Len(ready_queue) : ready_queue'[k + 1] = ready_queue[k]
    BY <1>1
  <1>3. Len(ready_queue) \in Nat
    BY <1>1
  <1> SUFFICES ASSUME NEW j \in Ids, pc'[j] = "queued"
      PROVE  \E k \in 1..Len(ready_queue') : ready_queue'[k] = j
    BY DEF Queued
  <1>4. CASE j = spawned
    BY <1>2, <1>3, <1>4
  <1>5. CASE j # spawned
    <2>1. PICK k \in 1..Len(ready_queue) : ready_queue[k] = j
      BY <1>1, <1>5 DEF Queued
    <2>2. k + 1 \in 1..Len(ready_queue') /\ ready_queue'[k + 1] = j
      BY <1>2, <1>3, <2>1
    <2> QED
      BY <2>2
  <1> QED
    BY <1>4, <1>5

LEMMA QueuedStep ==
    ASSUME Inv, Queued, [Next]_vars
    PROVE  Queued'
  <1>t. pc \in [Ids -> Places] /\ 0 \in Ids
    BY Neighbours DEF Inv, TypeOK
  <1>1. ASSUME NEW i \in Ids, Lane(i) PROVE Queued'
    <2>1. CASE Start(i)
      BY <2>1, QueuedStart
    <2>2. CASE PublishRight(i) \/ PublishLeft(i) \/ HaloLeft(i) \/ HaloRight(i)
      BY <1>t, <2>2, QueuedKept
         DEF PublishRight, PublishLeft, HaloLeft, HaloRight, Goto, mainVars
    <2>3. CASE Compute(i) \/ SendPartial(i) \/ RecvResult(i)
      BY <1>t, <2>3, QueuedKept DEF Compute, SendPartial, RecvResult, Goto, mainVars
    <2>4. CASE Step(i) \/ Finish(i)
      BY <1>t, <2>4, QueuedKept DEF Step, Finish, Goto, mainVars
    <2> QED
      BY <1>1, <2>1, <2>2, <2>3, <2>4 DEF Lane
  <1>2. CASE Combiner
    BY <1>t, <1>2, QueuedKept DEF Combiner, Combine, Broadcast, ReduceReturns, Goto, mainVars
  <1>3. CASE Spawn
    BY <1>3, QueuedSpawn
  <1>4. CASE Join
    BY <1>t, <1>4, QueuedKept DEF Join
  <1>5. CASE UNCHANGED vars
    BY <1>5, QueuedKept DEF vars, mainVars
  <1> QED
    BY <1>1, <1>2, <1>3, <1>4, <1>5 DEF Next, Main

LEMMA QueuedInvariance == Spec => [](Inv /\ Queued)
  <1>1. Init => Queued
    BY DEF Init, Queued
  <1>2. Inv /\ Queued /\ [Next]_vars => Queued'
    BY QueuedStep
  <1> QED
    BY <1>1, <1>2, Invariance, PTL DEF Spec

-----------------------------------------------------------------------------
(* Everybody waits.                                                        *)

(* A lane that has not finished leaves room among its kind: of the others  *)
(* there are fewer than Count.                                             *)
LEMMA FewerThanAll ==
    ASSUME NEW S \in SUBSET Ids, NEW i \in Ids, i \notin S
    PROVE  Cardinality(S) \in Nat /\ Cardinality(S) < Count
  <1>1. IsFiniteSet(S) /\ Cardinality(S) \in Nat /\ Cardinality(S) <= Cardinality(Ids)
    BY FiniteIds, FS_Subset, FS_CardinalityType
  <1>2. S # Ids
    OBVIOUS
  <1>3. Cardinality(S) # Cardinality(Ids)
    BY <1>2, FiniteIds, FS_Subset
  <1> QED
    BY <1>1, <1>3, FiniteIds, Sizes

(* Where a lane with a worker may wait.                                    *)
LEMMA WhereLanesWait ==
    ASSUME Inv, Queued, Stuck, Workers >= Count
    PROVE  \A i \in Ids : pc[i] \in Exchanging \cup {"combine", "result", "exited"}
  <1> USE Sizes
  <1>1. spawned = Count /\ \A i \in Ids : LaneWaits(i)
    BY DEF Stuck, MainWaits
  <1>2. \A i \in Ids : pc[i] # "unborn"
    BY <1>1 DEF Inv, Spawning, Ids
  <1>3. \A i \in Ids : pc[i] # "queued"
    <2> SUFFICES ASSUME NEW i \in Ids, pc[i] = "queued" PROVE FALSE
      OBVIOUS
    <2>1. ready_queue \in Seq(Ids) /\ ready_queue # <<>>
      BY DEF Inv, TypeOK, Queued
    <2>2. PICK h \in Ids : h = Head(ready_queue) /\ pc[h] = "queued"
      <3>1. 1 \in 1..Len(ready_queue) /\ ready_queue[1] = Head(ready_queue)
            /\ Head(ready_queue) \in Ids
        BY <2>1
      <3> QED
        BY <3>1 DEF Inv, Spawning
    <2>3. Cardinality(OnWorker) \in Nat /\ Cardinality(OnWorker) < Count
      <3>1. OnWorker \in SUBSET Ids /\ h \notin OnWorker
        BY <2>2 DEF OnWorker
      <3> QED
        BY <3>1, FewerThanAll
    <2>4. LaneWaits(h)
      BY <1>1
    <2> QED
      BY <2>1, <2>2, <2>3, <2>4 DEF LaneWaits
  <1>4. \A i \in Ids : pc[i] # "done"
    <2> SUFFICES ASSUME NEW i \in Ids, pc[i] = "done" PROVE FALSE
      OBVIOUS
    <2>1. Cardinality(Finished) \in Nat /\ Cardinality(Finished) < Count
      <3>1. Finished \in SUBSET Ids /\ i \notin Finished
        BY DEF Finished
      <3> QED
        BY <3>1, FewerThanAll
    <2>2. Len(done) \in Nat /\ joined \in Nat /\ Cardinality(Finished) = joined + Len(done)
      BY DEF Inv, TypeOK, Joining
    <2>3. LaneWaits(i)
      BY <1>1
    <2> QED
      BY <2>1, <2>2, <2>3 DEF LaneWaits
  <1>5. \A i \in Ids : pc[i] # "partial"
    <2> SUFFICES ASSUME NEW i \in Ids, pc[i] = "partial" PROVE FALSE
      OBVIOUS
    <2>1. HasRoom(partials[i])
      BY CollectiveFreeHere DEF CollectiveSendsFree
    <2>2. LaneWaits(i)
      BY <1>1
    <2> QED
      BY <2>1, <2>2 DEF LaneWaits
  <1>6. \A i \in Ids : pc[i] # "compute" /\ pc[i] # "step"
    BY <1>1 DEF LaneWaits
  <1>7. \A i \in Ids : pc[i] \in Places
    BY DEF Inv, TypeOK
  <1> QED
    BY <1>2, <1>3, <1>4, <1>5, <1>6, <1>7 DEF Places, Exchanging

-----------------------------------------------------------------------------
(* How far a lane that waits has come in its round.                        *)
Stage(p) ==
    IF p = "sendR" THEN 0 ELSE IF p = "sendL" THEN 1 ELSE IF p = "recvL" THEN 2 ELSE 3

InRound(i) ==
    IF pc[i] \in Exchanging THEN 4 * sub[i] + Stage(pc[i])
    ELSE IF pc[i] = "combine" THEN 4 * Radius
    ELSE 4 * Radius + 1

(* Lane j is behind lane i.                                                *)
Behind(j, i) == step[j] < step[i] \/ (step[j] = step[i] /\ InRound(j) < InRound(i))

Waiting == Exchanging \cup {"combine", "result", "exited"}

LEMMA StageType ==
    ASSUME NEW p \in Exchanging PROVE Stage(p) \in 0..3
  BY DEF Exchanging, Stage

LEMMA InRoundType ==
    ASSUME TypeOK, NEW i \in Ids
    PROVE  /\ InRound(i) \in Nat
           /\ pc[i] \in Exchanging => InRound(i) < 4 * Radius
  <1>1. sub[i] \in Nat /\ sub[i] < Radius /\ Radius \in Nat
    BY Sizes DEF TypeOK
  <1>2. CASE pc[i] \in Exchanging
    <2>1. Stage(pc[i]) \in 0..3
      BY <1>2, StageType
    <2>2. InRound(i) = 4 * sub[i] + Stage(pc[i])
      BY <1>2 DEF InRound, Exchanging
    <2> QED
      BY <1>1, <2>1, <2>2
  <1>3. CASE pc[i] \notin Exchanging
    <2>1. InRound(i) = 4 * Radius \/ InRound(i) = 4 * Radius + 1
      BY <1>3 DEF InRound
    <2> QED
      BY <1>1, <1>3, <2>1
  <1> QED
    BY <1>2, <1>3

(* A lane in the exchange is ahead of every lane at an earlier cell,       *)
LEMMA EarlierCell ==
    ASSUME Inv, NEW i \in Ids, NEW j \in Ids, pc[i] \in Exchanging, pc[j] \in Waiting,
           own[j] < own[i] \/ (own[j] = own[i] /\ sub[j] < sub[i])
    PROVE  Behind(j, i)
  <1>1. /\ own[i] = step[i] /\ step[i] < RoundCount /\ own[i] \in Nat /\ own[j] \in Nat
        /\ step[j] \in Nat /\ sub[i] \in Nat /\ sub[j] \in Nat
    BY Sizes DEF Inv, TypeOK, Rounds
  <1>2. CASE pc[j] \in Exchanging
    <2>1. own[j] = step[j]
      BY <1>2 DEF Inv, Rounds
    <2>2. /\ InRound(i) = 4 * sub[i] + Stage(pc[i]) /\ InRound(j) = 4 * sub[j] + Stage(pc[j])
          /\ Stage(pc[i]) \in 0..3 /\ Stage(pc[j]) \in 0..3
      BY <1>2, StageType DEF InRound
    <2> QED
      BY <1>1, <2>1, <2>2 DEF Behind
  <1>3. CASE pc[j] \in {"combine", "result"}
    <2>1. own[j] = step[j] + 1
      BY <1>3 DEF Inv, Rounds, Reduction
    <2> QED
      BY <1>1, <2>1 DEF Behind
  <1>4. CASE pc[j] = "exited"
    <2>1. own[j] = RoundCount
      BY <1>4 DEF Inv, Rounds
    <2> QED
      BY <1>1, <2>1, Sizes
  <1> QED
    BY <1>2, <1>3, <1>4 DEF Waiting

(* and of those at the same cell that have not come as far with it.        *)
LEMMA SameCell ==
    ASSUME Inv, NEW i \in Ids, NEW j \in Ids, pc[i] \in Exchanging, pc[j] \in Waiting,
           Cell(j) = Cell(i), pc[j] \in Exchanging => Stage(pc[j]) < Stage(pc[i])
    PROVE  Behind(j, i)
  <1>1. /\ own[i] = step[i] /\ step[i] < RoundCount /\ own[j] = own[i] /\ sub[j] = sub[i]
        /\ own[i] \in Nat /\ step[j] \in Nat /\ sub[i] \in Nat
    BY Sizes DEF Inv, TypeOK, Rounds, Cell
  <1>2. CASE pc[j] \in Exchanging
    <2>1. own[j] = step[j]
      BY <1>2 DEF Inv, Rounds
    <2>2. /\ InRound(i) = 4 * sub[i] + Stage(pc[i]) /\ InRound(j) = 4 * sub[j] + Stage(pc[j])
          /\ Stage(pc[i]) \in 0..3 /\ Stage(pc[j]) \in 0..3
      BY <1>2, StageType DEF InRound
    <2> QED
      BY <1>1, <1>2, <2>1, <2>2 DEF Behind
  <1>3. CASE pc[j] \in {"combine", "result"}
    <2>1. own[j] = step[j] + 1
      BY <1>3 DEF Inv, Rounds, Reduction
    <2> QED
      BY <1>1, <2>1 DEF Behind
  <1>4. CASE pc[j] = "exited"
    <2>1. own[j] = RoundCount
      BY <1>4 DEF Inv, Rounds
    <2> QED
      BY <1>1, <2>1, Sizes
  <1> QED
    BY <1>2, <1>3, <1>4 DEF Waiting

(* The next cell of a waiting lane is its own or the one after it.         *)
LEMMA AtOrAfter ==
    ASSUME Inv, NEW j \in Ids, pc[j] \in Waiting
    PROVE  /\ ToRecvL(j) \in {Cell(j), Succ(Cell(j))}
           /\ ToRecvR(j) = Cell(j)
           /\ ToSendR(j) = IF pc[j] \in {"sendL", "recvL", "recvR"} THEN Succ(Cell(j)) ELSE Cell(j)
           /\ ToSendL(j) = IF pc[j] \in {"recvL", "recvR"} THEN Succ(Cell(j)) ELSE Cell(j)
  BY DEF ToRecvL, ToRecvR, ToSendR, ToSendL, NextCell, Waiting, Exchanging

LEMMA SuccLater ==
    ASSUME Inv, NEW i \in Ids, NEW j \in Ids,
           Cell(i) = Succ(Cell(j)) \/ Cell(i) = Succ(Succ(Cell(j)))
    PROVE  own[j] < own[i] \/ (own[j] = own[i] /\ sub[j] < sub[i])
  <1>1. own[i] \in Nat /\ own[j] \in Nat /\ sub[i] \in Nat /\ sub[j] \in Nat /\ Radius \in Nat
    BY Sizes DEF Inv, TypeOK
  <1>2. Cell(i) = <<own[i], sub[i]>> /\ Cell(j) = <<own[j], sub[j]>>
    BY DEF Cell
  <1>3. Succ(Cell(j)) = IF sub[j] + 1 = Radius THEN <<own[j] + 1, 0>> ELSE <<own[j], sub[j] + 1>>
    BY <1>2 DEF Succ
  <1>4. CASE Cell(i) = Succ(Cell(j))
    BY <1>1, <1>2, <1>3, <1>4
  <1>5. CASE Cell(i) = Succ(Succ(Cell(j)))
    <2>1. CASE sub[j] + 1 = Radius
      <3>1. Cell(i) = IF 0 + 1 = Radius THEN <<own[j] + 2, 0>> ELSE <<own[j] + 1, 0 + 1>>
        BY <1>1, <1>3, <1>5, <2>1 DEF Succ
      <3> QED
        BY <1>1, <1>2, <3>1
    <2>2. CASE sub[j] + 1 # Radius
      <3>1. Cell(i) = IF sub[j] + 2 = Radius THEN <<own[j] + 1, 0>> ELSE <<own[j], sub[j] + 2>>
        BY <1>1, <1>3, <1>5, <2>2 DEF Succ
      <3> QED
        BY <1>1, <1>2, <3>1
    <2> QED
      BY <2>1, <2>2
  <1> QED
    BY <1>4, <1>5

-----------------------------------------------------------------------------
(* Both ends of an empty channel are at the same cell.                     *)
LEMMA EmptyLink ==
    ASSUME NEW ch, NEW write, NEW read, Linked(ch, write, read), ~HasValue(ch)
    PROVE  write = read
  BY DEF Linked, HasValue

(* A lane that waits in the exchange waits for a neighbour behind it: one  *)
(* that has not taken the cell before, or not sent the one that is needed. *)
LEMMA ExchangeWaits ==
    ASSUME Inv, NEW i \in Ids, pc[i] \in Exchanging, LaneWaits(i),
           \A j \in Ids : pc[j] \in Waiting
    PROVE  \E j \in Ids : Behind(j, i)
  <1> USE Neighbours
  <1>2. CASE pc[i] = "sendR"
    <2>1. i \in Pairs /\ i + 1 \in Ids /\ ~HasRoom(rightward[i])
      BY <1>2 DEF LaneWaits
    <2>2. rightward[i] # <<>>
      BY <2>1 DEF HasRoom
    <2>3. ToSendR(i) = Succ(ToRecvL(i + 1))
      BY <2>1, <2>2 DEF Inv, Links, Linked
    <2>4. ToSendR(i) = Cell(i)
      BY <1>2, AtOrAfter
    <2>5. ToRecvL(i + 1) \in {Cell(i + 1), Succ(Cell(i + 1))}
      BY <2>1, AtOrAfter
    <2>6. Behind(i + 1, i)
      BY <2>1, <2>3, <2>4, <2>5, SuccLater, EarlierCell
    <2> QED
      BY <2>1, <2>6
  <1>3. CASE pc[i] = "sendL"
    <2>1. PICK p \in Pairs : p = i - 1 /\ p \in Ids /\ p + 1 = i /\ ~HasRoom(leftward[p])
      BY <1>3 DEF LaneWaits, Ids
    <2>2. leftward[p] # <<>>
      BY <2>1 DEF HasRoom
    <2>3. ToSendL(i) = Succ(ToRecvR(p))
      BY <2>1, <2>2 DEF Inv, Links, Linked
    <2>4. ToSendL(i) = Cell(i)
      BY <1>3, AtOrAfter
    <2>5. ToRecvR(p) = Cell(p)
      BY <2>1, AtOrAfter
    <2>6. Behind(p, i)
      BY <2>1, <2>3, <2>4, <2>5, SuccLater, EarlierCell
    <2> QED
      BY <2>1, <2>6
  <1>4. CASE pc[i] = "recvL"
    <2>1. PICK p \in Pairs : p = i - 1 /\ p \in Ids /\ p + 1 = i /\ ~HasValue(rightward[p])
      BY <1>4 DEF LaneWaits, Ids
    <2>2. ToSendR(p) = ToRecvL(i)
      <3>1. Linked(rightward[p], ToSendR(p), ToRecvL(i))
        BY <2>1 DEF Inv, Links
      <3> QED
        BY <2>1, <3>1, EmptyLink
    <2>3. ToRecvL(i) = Cell(i)
      BY <1>4 DEF ToRecvL, NextCell
    <2>4. CASE pc[p] \in {"sendL", "recvL", "recvR"}
      <3>1. Cell(i) = Succ(Cell(p))
        BY <2>1, <2>2, <2>3, <2>4, AtOrAfter
      <3> QED
        BY <2>1, <3>1, SuccLater, EarlierCell
    <2>5. CASE pc[p] \notin {"sendL", "recvL", "recvR"}
      <3>1. Cell(p) = Cell(i)
        BY <2>1, <2>2, <2>3, <2>5, AtOrAfter
      <3>2. pc[p] \in Exchanging => Stage(pc[p]) < Stage(pc[i])
        BY <1>4, <2>5 DEF Exchanging, Stage
      <3> QED
        BY <2>1, <3>1, <3>2, SameCell
    <2> QED
      BY <2>4, <2>5
  <1>5. CASE pc[i] = "recvR"
    <2>1. i \in Pairs /\ i + 1 \in Ids /\ ~HasValue(leftward[i])
      BY <1>5 DEF LaneWaits
    <2>2. PICK p \in Ids : p = i + 1
      BY <2>1
    <2>3. ToSendL(p) = ToRecvR(i)
      <3>1. Linked(leftward[i], ToSendL(p), ToRecvR(i))
        BY <2>1, <2>2 DEF Inv, Links
      <3> QED
        BY <2>1, <3>1, EmptyLink
    <2>4. ToRecvR(i) = Cell(i)
      BY AtOrAfter
    <2>5. CASE pc[p] \in {"recvL", "recvR"}
      <3>1. Cell(i) = Succ(Cell(p))
        BY <2>3, <2>4, <2>5, AtOrAfter
      <3> QED
        BY <3>1, SuccLater, EarlierCell
    <2>6. CASE pc[p] \notin {"recvL", "recvR"}
      <3>1. Cell(p) = Cell(i)
        BY <2>3, <2>4, <2>6, AtOrAfter
      <3>2. pc[p] \in Exchanging => Stage(pc[p]) < Stage(pc[i])
        BY <1>5, <2>6 DEF Exchanging, Stage
      <3> QED
        BY <3>1, <3>2, SameCell
    <2> QED
      BY <2>5, <2>6
  <1> QED
    BY <1>2, <1>3, <1>4, <1>5 DEF Exchanging

(* A lane that is in the exchange of the round of a reduction, or in an    *)
(* earlier round, is behind those in the reduction.                        *)
LEMMA BeforeReduction ==
    ASSUME Inv, NEW i \in Ids, NEW j \in Ids, pc[i] \in {"combine", "result"},
           pc[j] \in Waiting,
           step[j] < step[i] \/ (step[j] = step[i] /\ pc[j] \notin {"combine", "result"})
    PROVE  Behind(j, i)
  <1>1. step[i] < RoundCount /\ step[i] \in Nat /\ step[j] \in Nat /\ RoundCount \in Nat
    BY Sizes DEF Inv, TypeOK, Rounds, Reduction
  <1>2. CASE step[j] < step[i]
    BY <1>2 DEF Behind
  <1>3. CASE step[j] = step[i] /\ pc[j] \notin {"combine", "result"}
    <2>1. pc[j] \in Exchanging
      BY <1>1, <1>3 DEF Waiting, Inv, Rounds
    <2>2. InRound(j) \in Nat /\ InRound(j) < 4 * Radius
      BY <2>1, InRoundType DEF Inv
    <2>3. InRound(i) = 4 * Radius \/ InRound(i) = 4 * Radius + 1
      BY DEF InRound, Exchanging
    <2> QED
      BY <1>3, <2>2, <2>3, Sizes DEF Behind
  <1> QED
    BY <1>2, <1>3

(* Lane 0 waits for the partial of a lane behind it ...                    *)
LEMMA CombineWaits ==
    ASSUME Inv, NEW i \in Ids, pc[i] = "combine", LaneWaits(i),
           \A j \in Ids : pc[j] \in Waiting
    PROVE  \E j \in Ids : Behind(j, i)
  <1> USE Sizes
  <1>1. i = 0 /\ step[i] \in Reducing
    BY DEF Inv, Collecting, Reduction
  <1>2. ~Combined
    <2> SUFFICES ASSUME Combined PROVE FALSE
      OBVIOUS
    <2>1. bcast \in 1..Count /\ ~Answered /\ ~HasRoom(results[bcast])
      BY DEF LaneWaits, Inv, TypeOK
    <2>2. HasRoom(results[bcast])
      BY <1>1, <2>1, CollectiveFreeHere DEF CollectiveSendsFree, Answered
    <2> QED
      BY <2>1, <2>2
  <1>3. PICK j \in Ids : j = Len(acc)
    <2>1. Len(acc) \in Nat /\ Len(acc) <= Count /\ Len(acc) # Count
      BY <1>2 DEF Inv, TypeOK, Collecting, Combined
    <2> QED
      BY <2>1 DEF Ids
  <1>4. partials[j] = <<>>
    BY <1>2, <1>3 DEF LaneWaits, NextPartial, HasValue
  <1>5. Contributed(j, step[i]) <=> Taken(j, step[i])
    <2>1. partials[j] # <<<<j, own[j]>>>>
      BY <1>4
    <2> QED
      BY <1>1, <2>1 DEF Inv, Gathering
  <1>6. step[i] \in Nat /\ step[j] \in Nat /\ Len(acc) \in Nat
    BY DEF Inv, TypeOK
  <1>7. ~Taken(j, step[i])
    BY <1>1, <1>3, <1>6 DEF Taken, BackFrom
  <1>8. step[j] < step[i] \/ (step[j] = step[i] /\ pc[j] \notin {"combine", "result"})
    BY <1>5, <1>6, <1>7 DEF Contributed, BackFrom
  <1>9. Behind(j, i)
    BY <1>8, BeforeReduction
  <1> QED
    BY <1>9

(* ... and the others wait for lane 0.                                     *)
LEMMA ResultWaits ==
    ASSUME Inv, NEW i \in Ids, pc[i] = "result", LaneWaits(i),
           \A j \in Ids : pc[j] \in Waiting
    PROVE  \E j \in Ids : Behind(j, i)
  <1> USE Sizes, Neighbours
  <1>1. i # 0 /\ step[i] \in Reducing
    BY DEF Inv, Collecting, Reduction
  <1>2. results[i] = <<>>
    BY DEF LaneWaits, HasValue
  <1>3. BackFrom(i, step[i]) <=> Replied(i, step[i])
    <2>1. results[i] # <<InIdOrder(own[i])>>
      BY <1>2
    <2> QED
      BY <1>1, <2>1 DEF Inv, Answering
  <1>4. step[i] \in Nat /\ step[0] \in Nat
    BY DEF Inv, TypeOK
  <1>5. ~BackFrom(0, step[i])
    BY <1>3, <1>4 DEF BackFrom, Replied
  <1>6. step[0] <= step[i]
    BY <1>4, <1>5 DEF BackFrom
  <1>7. CASE step[0] = step[i] /\ pc[0] = "combine"
    <2>1. InRound(0) = 4 * Radius /\ InRound(i) = 4 * Radius + 1
      BY <1>7 DEF InRound, Exchanging
    <2>2. Behind(0, i)
      BY <1>7, <2>1 DEF Behind
    <2> QED
      BY <2>2
  <1>8. CASE ~(step[0] = step[i] /\ pc[0] = "combine")
    <2>1. pc[0] # "result"
      BY DEF Inv, Collecting
    <2>2. Behind(0, i)
      BY <1>4, <1>6, <1>8, <2>1, BeforeReduction
    <2> QED
      BY <2>2
  <1> QED
    BY <1>7, <1>8

-----------------------------------------------------------------------------
(* A nonempty set of numbers has a least element.                          *)
LEMMA LeastNat ==
    ASSUME NEW T \in SUBSET Nat, T # {}
    PROVE  \E x \in T : \A y \in T : x <= y
  <1> DEFINE R == {ss \in Nat \X Nat : ss[1] < ss[2]}
  <1>1. IsWellFoundedOn(R, Nat)
    BY NatLessThanWellFounded DEF OpToRel
  <1>2. PICK x \in T : \A y \in T : ~(<<y, x>> \in R)
    BY <1>1, WFMin
  <1>3. ASSUME NEW y \in T PROVE x <= y
    <2>1. x \in Nat /\ y \in Nat
      OBVIOUS
    <2>2. <<y, x>> \in R <=> y < x
      BY <2>1
    <2> QED
      BY <1>2, <2>1, <2>2
  <1> QED
    BY <1>3

(* A lane that nobody is behind.                                           *)
LEMMA FurthestBehind ==
    ASSUME TypeOK
    PROVE  \E i \in Ids : \A j \in Ids : ~Behind(j, i)
  <1>1. \A i \in Ids : step[i] \in Nat /\ InRound(i) \in Nat
    <2>1. \A i \in Ids : step[i] \in Nat
      BY Sizes DEF TypeOK
    <2> QED
      BY <2>1, InRoundType
  <1>2. PICK i \in Ids : \A j \in Ids : step[i] <= step[j]
    <2>1. {step[i] : i \in Ids} \in SUBSET Nat /\ {step[i] : i \in Ids} # {}
      BY <1>1, Neighbours
    <2>2. PICK n \in {step[i] : i \in Ids} : \A y \in {step[i] : i \in Ids} : n <= y
      BY <2>1, LeastNat
    <2> QED
      BY <2>2
  <1>3. PICK k \in Ids : /\ step[k] = step[i]
                         /\ \A j \in Ids : step[j] = step[i] => InRound(k) <= InRound(j)
    <2> DEFINE L == {j \in Ids : step[j] = step[i]}
    <2>1. {InRound(j) : j \in L} \in SUBSET Nat /\ {InRound(j) : j \in L} # {}
      BY <1>1
    <2>2. PICK n \in {InRound(j) : j \in L} : \A y \in {InRound(j) : j \in L} : n <= y
      BY <2>1, LeastNat
    <2> QED
      BY <2>2
  <1>4. \A j \in Ids : ~Behind(j, k)
    BY <1>1, <1>2, <1>3 DEF Behind
  <1> QED
    BY <1>4

(* If everybody waits, every lane has finished ...                         *)
LEMMA AllFinished ==
    ASSUME Inv, Queued, Stuck, Workers >= Count
    PROVE  \A i \in Ids : pc[i] = "exited"
  <1>1. \A i \in Ids : pc[i] \in Waiting /\ LaneWaits(i)
    BY WhereLanesWait DEF Waiting, Stuck
  <1>2. PICK k \in Ids : \A j \in Ids : ~Behind(j, k)
    BY FurthestBehind DEF Inv
  <1>3. pc[k] = "exited"
    BY <1>1, <1>2, ExchangeWaits, CombineWaits, ResultWaits DEF Waiting
  <1>4. step[k] = RoundCount /\ \A j \in Ids : step[j] \in 0..RoundCount
    BY <1>3 DEF Inv, Rounds, TypeOK
  <1>5. ASSUME NEW j \in Ids PROVE pc[j] = "exited"
    <2>1. step[j] >= RoundCount
      BY <1>2, <1>4, Sizes DEF Behind
    <2> QED
      BY <1>1, <1>4, <2>1, Sizes DEF Waiting, Inv, Rounds, Reduction
  <1> QED
    BY <1>5

(* ... and main has heard of all of them.                                  *)
LEMMA NeverStuckHere ==
    ASSUME Inv, Queued PROVE NeverStuck
  <1> SUFFICES ASSUME Workers >= Count, Stuck PROVE Returned
    BY DEF NeverStuck
  <1>1. Finished = Ids
    BY AllFinished DEF Finished
  <1>2. joined \in Nat /\ joined <= Count /\ Len(done) \in Nat /\ joined + Len(done) = Count
    BY <1>1, FiniteIds, Sizes DEF Inv, TypeOK, Joining
  <1>3. spawned = Count /\ (StillJoining => done = <<>>)
    BY DEF Stuck, MainWaits, HasValue
  <1>4. done = <<>> => Len(done) = 0
    OBVIOUS
  <1> QED
    BY <1>2, <1>3, <1>4, Sizes DEF Returned, StillJoining

(* runCore, its lanes and their channels of capacity one cannot deadlock   *)
(* when the scheduler has a worker for every lane: as long as Run has not  *)
(* returned, main or some lane has a step to make, whatever the number of  *)
(* lanes, the radius and the rounds that call AllReduce.                   *)
THEOREM LanesNeverStuck == Spec => []NeverStuck
  BY NeverStuckHere, QueuedInvariance, PTL
=============================================================================
