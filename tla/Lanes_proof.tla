---------------------------- MODULE Lanes_proof ----------------------------
(***************************************************************************)
(* Theorems about Lanes, for any number of lanes, rounds and workers, any  *)
(* radius and any choice of the rounds that end in a reduction.  Inv below *)
(* is the inductive invariant.                                             *)
(***************************************************************************)
EXTENDS Lanes, FiniteSetTheorems, TLAPS

Exchanging == {"sendR", "sendL", "recvL", "recvR"}
Reduction == {"partial", "combine", "result"}

(* Lanes up to `spawned` have been started; the queue holds each of those  *)
(* without a worker once.                                                  *)
Spawning ==
    /\ \A i \in Ids : pc[i] = "unborn" <=> spawned <= i
    /\ \A k \in 1..Len(ready_queue) : pc[ready_queue[k]] = "queued"
    /\ \A j, k \in 1..Len(ready_queue) : ready_queue[j] = ready_queue[k] => j = k

(* A tile is computed once a round.                                        *)
Rounds ==
    \A i \in Ids :
        /\ pc[i] \in {"unborn", "queued", "compute"} \cup Exchanging =>
              own[i] = step[i] /\ step[i] < RoundCount
        /\ pc[i] \in {"step"} \cup Reduction => own[i] = step[i] + 1 /\ step[i] < RoundCount
        /\ pc[i] \in {"done", "exited"} => own[i] = RoundCount /\ step[i] = RoundCount
        /\ pc[i] \notin Exchanging => sub[i] = 0

(* The cell after a cell, in the order in which a lane sends them.         *)
Succ(c) == IF c[2] + 1 = Radius THEN <<c[1] + 1, 0>> ELSE <<c[1], c[2] + 1>>

(* The next cell lane i handles in an operation that it has already been   *)
(* through, in the current sub-exchange, at the places `past`.             *)
NextCell(i, past) ==
    IF pc[i] \in past THEN Succ(Cell(i))
    ELSE IF pc[i] = "compute" THEN <<own[i] + 1, 0>>
    ELSE Cell(i)

ToSendR(i) == NextCell(i, {"sendL", "recvL", "recvR"})
ToSendL(i) == NextCell(i, {"recvL", "recvR"})
ToRecvL(i) == NextCell(i, {"recvR"})
ToRecvR(i) == NextCell(i, {})

(* A halo channel holds the cell its reader takes next, and its writer is  *)
(* one cell ahead, or it is empty and they are level.                      *)
Linked(ch, write, read) ==
    \/ ch = <<>> /\ write = read
    \/ ch = <<read>> /\ write = Succ(read)

Links ==
    \A p \in Pairs :
        /\ Linked(rightward[p], ToSendR(p), ToRecvL(p + 1))
        /\ Linked(leftward[p], ToSendL(p + 1), ToRecvR(p))

(* The halos a lane has received in this round.                            *)
Filled ==
    \A i \in Ids : \A k \in 0..(Radius - 1) :
        /\ ~edgeL(i) /\ (k < sub[i] \/ pc[i] = "compute" \/ (pc[i] = "recvR" /\ k = sub[i]))
              => haloL[i][k] = <<own[i], k>>
        /\ ~edgeR(i) /\ (k < sub[i] \/ pc[i] = "compute") => haloR[i][k] = <<own[i], k>>

-----------------------------------------------------------------------------
(* The reduction of round r: lane i has contributed to it, lane 0 has      *)
(* taken the contribution, lane 0 has answered lane i, lane i has returned *)
(* from it.                                                                *)
BackFrom(i, r) == r < step[i] \/ (r = step[i] /\ pc[i] = "step")
Contributed(i, r) == BackFrom(i, r) \/ (r = step[i] /\ pc[i] \in {"combine", "result"})
Taken(i, r) == BackFrom(0, r) \/ (r = step[0] /\ pc[0] = "combine" /\ i < Len(acc))
Replied(i, r) == BackFrom(0, r) \/ (r = step[0] /\ pc[0] = "combine" /\ i < bcast)

Collecting ==
    /\ \A i \in Ids :
          /\ pc[i] \in Reduction => step[i] \in Reducing
          /\ pc[i] = "combine" => i = 0
          /\ pc[i] = "result" => i # 0
    /\ Len(acc) <= Count
    /\ \A k \in 1..Len(acc) : acc[k] = <<k - 1, own[0]>>
    /\ pc[0] # "combine" => acc = <<>> /\ bcast = 1
    /\ bcast > 1 => Len(acc) = Count

Gathering ==
    \A i \in Ids :
        \/ /\ partials[i] = <<>>
           /\ \A r \in Reducing : Contributed(i, r) <=> Taken(i, r)
        \/ /\ partials[i] = <<<<i, own[i]>>>>
           /\ pc[i] \in {"combine", "result"} /\ ~Taken(i, step[i])
           /\ \A r \in Reducing : Contributed(i, r) <=> (Taken(i, r) \/ r = step[i])

Answering ==
    \A i \in Ids :
        \/ /\ results[i] = <<>>
           /\ i # 0 => (\A r \in Reducing : BackFrom(i, r) <=> Replied(i, r))
        \/ /\ results[i] = <<InIdOrder(own[i])>>
           /\ pc[i] = "result"
           /\ \A r \in Reducing : Replied(i, r) <=> (BackFrom(i, r) \/ r = step[i])

(* main has been told of each lane that has finished, and of no other.     *)
Finished == {i \in Ids : pc[i] = "exited"}
Joining == Cardinality(Finished) = joined + Len(done)

Inv ==
    /\ TypeOK /\ Spawning /\ Rounds /\ Links /\ Filled
    /\ Collecting /\ Gathering /\ Answering /\ ReduceInOrder /\ Joining

-----------------------------------------------------------------------------
(* The constants as the proofs use them, and the test of Step: asked after *)
(* a round, it counts RoundCount rounds, also when Steps is 0.             *)
LEMMA Sizes ==
    /\ Count \in Nat \ {0} /\ RoundCount \in Nat \ {0} /\ Radius \in Nat \ {0}
    /\ Workers \in Nat \ {0} /\ Reducing \subseteq 0..(RoundCount - 1)
  BY LanesAssumption DEF RoundCount

LEMMA StepCounts == \A n \in Nat : n + 1 < Steps <=> n + 1 < RoundCount
  BY LanesAssumption DEF RoundCount

(* The halo channels.                                                      *)
LEMMA Neighbours ==
    /\ \A p \in Pairs : p \in Ids /\ p + 1 \in Ids /\ ~edgeR(p) /\ ~edgeL(p + 1)
    /\ \A i \in Ids : (~edgeR(i) => i \in Pairs) /\ (~edgeL(i) => i - 1 \in Pairs)
    /\ 0 \in Ids
  BY Sizes DEF Pairs, Ids, edgeL, edgeR

LEMMA FiniteIds == IsFiniteSet(Ids) /\ Cardinality(Ids) = Count
  <1>1. 0 \in Int /\ Count - 1 \in Int /\ ~(0 > Count - 1)
    BY Sizes
  <1>2. IsFiniteSet(0..(Count - 1)) /\ Cardinality(0..(Count - 1)) = (Count - 1) - 0 + 1
    BY <1>1, FS_Interval
  <1> QED
    BY <1>2, Sizes DEF Ids

(* Nothing is sent or received, and every lane has the same cells before   *)
(* it.                                                                     *)
LEMMA LinksKept ==
    ASSUME Links, UNCHANGED haloVars,
           \A i \in Ids : /\ ToSendR(i)' = ToSendR(i) /\ ToSendL(i)' = ToSendL(i)
                          /\ ToRecvL(i)' = ToRecvL(i) /\ ToRecvR(i)' = ToRecvR(i)
    PROVE  Links'
  BY Neighbours DEF Links, Linked, haloVars

(* A lane that does not move has the same cells before it.                 *)
LEMMA SameCells ==
    ASSUME NEW i \in Ids, pc'[i] = pc[i], own'[i] = own[i], sub'[i] = sub[i]
    PROVE  /\ ToSendR(i)' = ToSendR(i) /\ ToSendL(i)' = ToSendL(i)
           /\ ToRecvL(i)' = ToRecvL(i) /\ ToRecvR(i)' = ToRecvR(i)
  BY DEF ToSendR, ToSendL, ToRecvL, ToRecvR, NextCell, Cell

(* A writer finds the channel empty and puts the cell both are at.         *)
LEMMA Written ==
    ASSUME NEW ch, NEW write, NEW read, Linked(ch, write, read), HasRoom(ch)
    PROVE  Linked(Append(ch, write), Succ(write), read)
  <1>1. ch = <<>> /\ write = read
    BY DEF Linked, HasRoom
  <1> QED
    BY <1>1 DEF Linked

(* A reader finds the cell it is at.                                       *)
LEMMA Read ==
    ASSUME NEW ch, NEW write, NEW read, Linked(ch, write, read), HasValue(ch)
    PROVE  Head(ch) = read /\ Linked(Tail(ch), write, Succ(read))
  <1>1. ch = <<read>> /\ write = Succ(read)
    BY DEF Linked, HasValue
  <1> QED
    BY <1>1 DEF Linked

(* A step of lane i outside the collective, or to its door.                *)
LEMMA CollectiveKept ==
    ASSUME Inv, TypeOK', UNCHANGED collVars, NEW i \in Ids,
           \A j \in Ids \ {i} : pc'[j] = pc[j] /\ step'[j] = step[j] /\ own'[j] = own[j],
           pc[i] \notin Reduction, pc'[i] \notin {"combine", "result"},
           pc'[i] = "partial" => step'[i] \in Reducing,
           pc'[i] = "step" => step'[i] \notin Reducing,
           \A r \in Reducing : BackFrom(i, r)' <=> BackFrom(i, r)
    PROVE  Collecting' /\ Gathering' /\ Answering' /\ ReduceInOrder'
  <1> USE Neighbours
  <1>i. TypeOK /\ Collecting /\ Gathering /\ Answering /\ ReduceInOrder
    BY DEF Inv
  <1>1. pc[i] \notin {"partial", "combine", "result"}
    BY DEF Reduction
  <1>2. Collecting'
    <2>1. pc'[0] # "combine" => acc' = <<>> /\ bcast' = 1
      BY <1>i, <1>1 DEF Collecting, collVars
    <2>2. \A k \in 1..Len(acc') : acc'[k] = <<k - 1, own'[0]>>
      BY <1>i, <1>1, <2>1 DEF Collecting, collVars
    <2> QED
      BY <1>i, <1>1, <2>1, <2>2 DEF Collecting, Reduction, collVars
  <1>3. \A j \in Ids : \A r \in Reducing :
           /\ BackFrom(j, r)' <=> BackFrom(j, r)
           /\ Contributed(j, r)' <=> Contributed(j, r)
    BY <1>1 DEF BackFrom, Contributed
  <1>4. \A j \in Ids : \A r \in Reducing :
           /\ Taken(j, r)' <=> Taken(j, r)
           /\ Replied(j, r)' <=> Replied(j, r)
    BY <1>1, <1>3 DEF Taken, Replied, collVars
  <1>5. Gathering'
    <2> SUFFICES ASSUME NEW j \in Ids
        PROVE \/ /\ partials'[j] = <<>>
                 /\ \A r \in Reducing : Contributed(j, r)' <=> Taken(j, r)'
              \/ /\ partials'[j] = <<<<j, own'[j]>>>>
                 /\ pc'[j] \in {"combine", "result"} /\ ~Taken(j, step[j])'
                 /\ \A r \in Reducing : Contributed(j, r)' <=> (Taken(j, r)' \/ r = step'[j])
      BY DEF Gathering
    <2>1. CASE partials[j] = <<>> /\ \A r \in Reducing : Contributed(j, r) <=> Taken(j, r)
      BY <2>1, <1>3, <1>4 DEF collVars
    <2>2. CASE /\ partials[j] = <<<<j, own[j]>>>>
               /\ pc[j] \in {"combine", "result"} /\ ~Taken(j, step[j])
               /\ \A r \in Reducing : Contributed(j, r) <=> (Taken(j, r) \/ r = step[j])
      <3>1. j # i /\ step[j] \in Reducing
        BY <2>2, <1>1, <1>i DEF Collecting, Reduction
      <3> QED
        BY <2>2, <3>1, <1>3, <1>4 DEF collVars
    <2> QED
      BY <1>i, <2>1, <2>2 DEF Gathering
  <1>6. Answering'
    <2> SUFFICES ASSUME NEW j \in Ids
        PROVE \/ /\ results'[j] = <<>>
                 /\ j # 0 => (\A r \in Reducing : BackFrom(j, r)' <=> Replied(j, r)')
              \/ /\ results'[j] = <<InIdOrder(own[j])>>'
                 /\ pc'[j] = "result"
                 /\ \A r \in Reducing : Replied(j, r)' <=> (BackFrom(j, r)' \/ r = step'[j])
      BY DEF Answering
    <2>1. CASE /\ results[j] = <<>>
               /\ j # 0 => (\A r \in Reducing : BackFrom(j, r) <=> Replied(j, r))
      BY <2>1, <1>3, <1>4 DEF collVars
    <2>2. CASE /\ results[j] = <<InIdOrder(own[j])>> /\ pc[j] = "result"
               /\ \A r \in Reducing : Replied(j, r) <=> (BackFrom(j, r) \/ r = step[j])
      <3>1. j # i
        BY <2>2, <1>1
      <3> QED
        BY <2>2, <3>1, <1>3, <1>4 DEF collVars, InIdOrder
    <2> QED
      BY <1>i, <2>1, <2>2 DEF Answering
  <1>7. ReduceInOrder'
    BY <1>i, <1>1 DEF ReduceInOrder, InIdOrder, collVars
  <1> QED
    BY <1>2, <1>5, <1>6, <1>7

LEMMA JoiningKept ==
    ASSUME Joining, UNCHANGED <<done, joined>>,
           \A i \in Ids : pc'[i] = "exited" <=> pc[i] = "exited"
    PROVE  Joining'
  <1>1. Finished' = Finished
    BY DEF Finished
  <1> QED
    BY <1>1 DEF Joining

(* Channels keep their type and capacity.                                  *)
LEMMA Put ==
    ASSUME NEW D, NEW S, NEW chans \in [D -> Seq(S)], \A x \in D : Len(chans[x]) <= 1,
           NEW d \in D, NEW v \in S, HasRoom(chans[d])
    PROVE  /\ [chans EXCEPT ![d] = Append(@, v)] \in [D -> Seq(S)]
           /\ \A x \in D : Len([chans EXCEPT ![d] = Append(@, v)][x]) <= 1
  <1>1. Append(chans[d], v) \in Seq(S) /\ Len(Append(chans[d], v)) <= 1
    BY DEF HasRoom
  <1> QED
    BY <1>1

LEMMA Took ==
    ASSUME NEW D, NEW S, NEW chans \in [D -> Seq(S)], \A x \in D : Len(chans[x]) <= 1,
           NEW d \in D, HasValue(chans[d])
    PROVE  /\ [chans EXCEPT ![d] = Tail(@)] \in [D -> Seq(S)]
           /\ \A x \in D : Len([chans EXCEPT ![d] = Tail(@)][x]) <= 1
           /\ Head(chans[d]) \in S
  <1>1. Tail(chans[d]) \in Seq(S) /\ Len(Tail(chans[d])) <= 1 /\ Head(chans[d]) \in S
    BY DEF HasValue
  <1> QED
    BY <1>1

(* A lane that runs goes on to another place.                              *)
LEMMA Moved ==
    ASSUME TypeOK, Spawning, NEW i \in Ids, NEW place \in Places,
           {pc[i], place} \cap {"unborn", "queued"} = {},
           Goto(i, place), UNCHANGED <<ready_queue, spawned>>
    PROVE  /\ pc' \in [Ids -> Places] /\ pc'[i] = place
           /\ \A j \in Ids \ {i} : pc'[j] = pc[j]
           /\ Spawning'
  <1>1. /\ pc' \in [Ids -> Places] /\ pc'[i] = place
        /\ \A j \in Ids \ {i} : pc'[j] = pc[j]
    BY DEF TypeOK, Goto
  <1>2. \A j \in Ids : (pc'[j] = "unborn" <=> pc[j] = "unborn")
                       /\ (pc'[j] = "queued" <=> pc[j] = "queued")
    BY <1>1
  <1>3. \A k \in 1..Len(ready_queue) : ready_queue[k] \in Ids
    BY DEF TypeOK
  <1> QED
    BY <1>1, <1>2, <1>3 DEF Spawning

-----------------------------------------------------------------------------
(* The sub-exchange.                                                       *)
LEMMA PublishRightInv ==
    ASSUME Inv, NEW i \in Ids, PublishRight(i) PROVE Inv'
  <1> USE Sizes, Neighbours
  <1>i. TypeOK /\ Spawning /\ Rounds /\ Links /\ Filled
    BY DEF Inv
  <1>a. /\ pc[i] = "sendR" /\ Goto(i, "sendL")
        /\ UNCHANGED <<leftward, collVars, done, step, own, sub, haloL, haloR, mainVars>>
    BY DEF PublishRight
  <1>2. /\ pc' \in [Ids -> Places] /\ pc'[i] = "sendL"
        /\ \A j \in Ids \ {i} : pc'[j] = pc[j]
        /\ Spawning'
    BY <1>i, <1>a, Moved DEF Places, mainVars
  <1>c. own[i] \in Nat /\ sub[i] \in 0..(Radius - 1) /\ Cell(i) \in Cells
    BY DEF Inv, TypeOK, Cell, Cells
  <1>1. TypeOK'
    <2>1. rightward' \in [Pairs -> Seq(Cells)] /\ \A p \in Pairs : Len(rightward'[p]) <= 1
      <3>1. CASE rightward' = rightward
        BY <1>i, <3>1 DEF TypeOK
      <3>2. CASE ~edgeR(i) /\ HasRoom(rightward[i])
                 /\ rightward' = [rightward EXCEPT ![i] = Append(@, Cell(i))]
        <4>1. /\ i \in Pairs /\ rightward \in [Pairs -> Seq(Cells)]
              /\ \A p \in Pairs : Len(rightward[p]) <= 1
          BY <1>i, <3>2 DEF TypeOK
        <4> QED
          BY <1>c, <3>2, <4>1, Put
      <3> QED
        BY <3>1, <3>2 DEF PublishRight
    <2> QED
      BY <1>i, <1>a, <1>2, <2>1 DEF TypeOK, collVars, mainVars
  <1>3. Rounds'
    BY <1>i, <1>a, <1>2 DEF Rounds, Exchanging, Reduction
  <1>4. Links'
    <2>1. /\ \A j \in Ids : /\ ToSendL(j)' = ToSendL(j) /\ ToRecvL(j)' = ToRecvL(j)
                            /\ ToRecvR(j)' = ToRecvR(j)
          /\ \A j \in Ids : j # i => ToSendR(j)' = ToSendR(j)
          /\ ToSendR(i) = Cell(i) /\ ToSendR(i)' = Succ(Cell(i))
      BY <1>a, <1>2 DEF Inv, TypeOK, ToSendR, ToSendL, ToRecvL, ToRecvR, NextCell, Cell
    <2>2. ASSUME NEW p \in Pairs PROVE Linked(rightward'[p], ToSendR(p)', ToRecvL(p + 1)')
      <3>1. CASE p = i
        <4>1. HasRoom(rightward[i]) /\ rightward' = [rightward EXCEPT ![i] = Append(@, Cell(i))]
          BY <3>1 DEF PublishRight
        <4>2. rightward'[i] = Append(rightward[i], Cell(i))
          BY <3>1, <4>1 DEF Inv, TypeOK
        <4>3. Linked(rightward[i], Cell(i), ToRecvL(i + 1))
          BY <3>1, <2>1 DEF Inv, Links
        <4> QED
          BY <3>1, <2>1, <4>1, <4>2, <4>3, Written
      <3>2. CASE p # i
        BY <3>2, <2>1 DEF PublishRight, Inv, TypeOK, Links
      <3> QED
        BY <3>1, <3>2
    <2>3. ASSUME NEW p \in Pairs PROVE Linked(leftward'[p], ToSendL(p + 1)', ToRecvR(p)')
      BY <1>a, <1>2, <2>1 DEF Inv, Links
    <2> QED
      BY <2>2, <2>3 DEF Links, Linked
  <1>5. Filled'
    BY <1>i, <1>a, <1>2 DEF Filled
  <1>6. Collecting' /\ Gathering' /\ Answering' /\ ReduceInOrder'
    BY <1>a, <1>2, <1>1, CollectiveKept DEF BackFrom, Reduction
  <1>7. Joining'
    BY <1>a, <1>2, JoiningKept DEF Inv, TypeOK, mainVars
  <1> QED
    BY <1>1, <1>2, <1>3, <1>4, <1>5, <1>6, <1>7 DEF Inv

LEMMA PublishLeftInv ==
    ASSUME Inv, NEW i \in Ids, PublishLeft(i) PROVE Inv'
  <1> USE Sizes, Neighbours
  <1>i. TypeOK /\ Spawning /\ Rounds /\ Links /\ Filled
    BY DEF Inv
  <1>a. /\ pc[i] = "sendL" /\ Goto(i, "recvL")
        /\ UNCHANGED <<rightward, collVars, done, step, own, sub, haloL, haloR, mainVars>>
    BY DEF PublishLeft
  <1>2. /\ pc' \in [Ids -> Places] /\ pc'[i] = "recvL"
        /\ \A j \in Ids \ {i} : pc'[j] = pc[j]
        /\ Spawning'
    BY <1>i, <1>a, Moved DEF Places, mainVars
  <1>c. own[i] \in Nat /\ sub[i] \in 0..(Radius - 1) /\ Cell(i) \in Cells
    BY <1>i DEF TypeOK, Cell, Cells
  <1>1. TypeOK'
    <2>1. leftward' \in [Pairs -> Seq(Cells)] /\ \A p \in Pairs : Len(leftward'[p]) <= 1
      <3>1. CASE leftward' = leftward
        BY <1>i, <3>1 DEF TypeOK
      <3>2. CASE ~edgeL(i) /\ HasRoom(leftward[i - 1])
                 /\ leftward' = [leftward EXCEPT ![i - 1] = Append(@, Cell(i))]
        <4>1. PICK p \in Pairs : p = i - 1
          BY <3>2
        <4>2. /\ leftward \in [Pairs -> Seq(Cells)] /\ \A q \in Pairs : Len(leftward[q]) <= 1
              /\ HasRoom(leftward[p]) /\ leftward' = [leftward EXCEPT ![p] = Append(@, Cell(i))]
          BY <1>i, <3>2, <4>1 DEF TypeOK
        <4> QED
          BY <1>c, <4>2, Put
      <3> QED
        BY <3>1, <3>2 DEF PublishLeft
    <2> QED
      BY <1>i, <1>a, <1>2, <2>1 DEF TypeOK, collVars, mainVars
  <1>3. Rounds'
    BY <1>i, <1>a, <1>2 DEF Rounds, Exchanging, Reduction
  <1>4. Links'
    <2>1. /\ \A j \in Ids : /\ ToSendR(j)' = ToSendR(j) /\ ToRecvL(j)' = ToRecvL(j)
                            /\ ToRecvR(j)' = ToRecvR(j)
          /\ \A j \in Ids : j # i => ToSendL(j)' = ToSendL(j)
          /\ ToSendL(i) = Cell(i) /\ ToSendL(i)' = Succ(Cell(i))
      BY <1>a, <1>2 DEF ToSendR, ToSendL, ToRecvL, ToRecvR, NextCell, Cell, Succ
    <2>2. ASSUME NEW p \in Pairs PROVE Linked(leftward'[p], ToSendL(p + 1)', ToRecvR(p)')
      <3>1. CASE p + 1 = i
        <4>1. /\ p = i - 1 /\ HasRoom(leftward[p])
              /\ leftward' = [leftward EXCEPT ![p] = Append(@, Cell(i))]
          BY <3>1 DEF PublishLeft, Pairs
        <4>2. leftward'[p] = Append(leftward[p], Cell(i))
          BY <1>i, <4>1 DEF TypeOK
        <4>3. Linked(leftward[p], Cell(i), ToRecvR(p))
          BY <1>i, <3>1, <2>1 DEF Links
        <4> QED
          BY <3>1, <2>1, <4>1, <4>2, <4>3, Written
      <3>2. CASE p + 1 # i
        <4>0. p # i - 1
          BY <3>2 DEF Pairs, Ids
        <4>1. leftward'[p] = leftward[p]
          BY <1>i, <4>0 DEF PublishLeft, TypeOK
        <4> QED
          BY <1>i, <3>2, <2>1, <4>1 DEF Links
      <3> QED
        BY <3>1, <3>2
    <2>3. ASSUME NEW p \in Pairs PROVE Linked(rightward'[p], ToSendR(p)', ToRecvL(p + 1)')
      BY <1>i, <1>a, <2>1 DEF Links
    <2> QED
      BY <2>2, <2>3 DEF Links, Linked
  <1>5. Filled'
    BY <1>i, <1>a, <1>2 DEF Filled
  <1>6. Collecting' /\ Gathering' /\ Answering' /\ ReduceInOrder'
    BY <1>a, <1>2, <1>1, CollectiveKept DEF BackFrom, Reduction
  <1>7. Joining'
    BY <1>a, <1>2, JoiningKept DEF Inv, mainVars
  <1> QED
    BY <1>1, <1>2, <1>3, <1>4, <1>5, <1>6, <1>7 DEF Inv

LEMMA HaloLeftInv ==
    ASSUME Inv, NEW i \in Ids, HaloLeft(i) PROVE Inv'
  <1> USE Sizes, Neighbours
  <1>i. TypeOK /\ Spawning /\ Rounds /\ Links /\ Filled
    BY DEF Inv
  <1>a. /\ pc[i] = "recvL" /\ Goto(i, "recvR")
        /\ UNCHANGED <<leftward, collVars, done, step, own, sub, haloR, mainVars>>
    BY DEF HaloLeft
  <1>2. /\ pc' \in [Ids -> Places] /\ pc'[i] = "recvR"
        /\ \A j \in Ids \ {i} : pc'[j] = pc[j]
        /\ Spawning'
    BY <1>i, <1>a, Moved DEF Places, mainVars
  <1>c. own[i] \in Nat /\ sub[i] \in 0..(Radius - 1) /\ Cell(i) \in Cells
    BY <1>i DEF TypeOK, Cell, Cells
  <1>l. /\ \A j \in Ids : /\ ToSendR(j)' = ToSendR(j) /\ ToSendL(j)' = ToSendL(j)
                          /\ ToRecvR(j)' = ToRecvR(j)
        /\ \A j \in Ids : j # i => ToRecvL(j)' = ToRecvL(j)
        /\ ToRecvL(i) = Cell(i) /\ ToRecvL(i)' = Succ(Cell(i))
    BY <1>a, <1>2 DEF ToSendR, ToSendL, ToRecvL, ToRecvR, NextCell, Cell, Succ
  <1>q. ASSUME ~edgeL(i)
        PROVE  /\ i - 1 \in Pairs /\ HasValue(rightward[i - 1])
               /\ rightward' = [rightward EXCEPT ![i - 1] = Tail(@)]
               /\ haloL' = [haloL EXCEPT ![i][sub[i]] = Cell(i)]
               /\ Linked(Tail(rightward[i - 1]), ToSendR(i - 1), Succ(Cell(i)))
    <2>1. i - 1 \in Pairs /\ (i - 1) + 1 = i
      BY <1>q DEF Ids
    <2>2. Linked(rightward[i - 1], ToSendR(i - 1), Cell(i)) /\ HasValue(rightward[i - 1])
      BY <1>i, <1>l, <1>q, <2>1 DEF Links, HaloLeft
    <2>3. /\ Head(rightward[i - 1]) = Cell(i)
          /\ Linked(Tail(rightward[i - 1]), ToSendR(i - 1), Succ(Cell(i)))
      BY <2>2, Read
    <2> QED
      BY <1>q, <2>1, <2>2, <2>3 DEF HaloLeft
  <1>h. haloL' = [haloL EXCEPT ![i][sub[i]] = IF edgeL(i) THEN Boundary ELSE Cell(i)]
    BY <1>q DEF HaloLeft
  <1>1. TypeOK'
    <2>1. rightward' \in [Pairs -> Seq(Cells)] /\ \A p \in Pairs : Len(rightward'[p]) <= 1
      <3>1. CASE rightward' = rightward
        BY <1>i, <3>1 DEF TypeOK
      <3>2. CASE ~edgeL(i)
        <4>1. PICK p \in Pairs : p = i - 1
          BY <3>2
        <4>2. /\ rightward \in [Pairs -> Seq(Cells)] /\ \A q \in Pairs : Len(rightward[q]) <= 1
              /\ HasValue(rightward[p]) /\ rightward' = [rightward EXCEPT ![p] = Tail(@)]
          BY <1>i, <1>q, <3>2, <4>1 DEF TypeOK
        <4> QED
          BY <4>2, Took
      <3> QED
        BY <3>1, <3>2 DEF HaloLeft
    <2>2. haloL' \in [Ids -> Halos]
      BY <1>i, <1>c, <1>h DEF TypeOK, Halos
    <2> QED
      BY <1>i, <1>a, <1>2, <2>1, <2>2 DEF TypeOK, collVars, mainVars
  <1>3. Rounds'
    BY <1>i, <1>a, <1>2 DEF Rounds, Exchanging, Reduction
  <1>4. Links'
    <2>2. ASSUME NEW p \in Pairs PROVE Linked(rightward'[p], ToSendR(p)', ToRecvL(p + 1)')
      <3>1. CASE p + 1 = i
        <4>1. p = i - 1 /\ ~edgeL(i)
          BY <3>1 DEF Pairs
        <4>2. rightward'[p] = Tail(rightward[p])
          BY <1>i, <1>q, <4>1 DEF TypeOK
        <4> QED
          BY <1>l, <1>q, <3>1, <4>1, <4>2
      <3>2. CASE p + 1 # i
        <4>0. p # i - 1
          BY <3>2 DEF Pairs, Ids
        <4>1. rightward'[p] = rightward[p]
          BY <1>i, <4>0 DEF HaloLeft, TypeOK
        <4> QED
          BY <1>i, <1>l, <3>2, <4>1 DEF Links
      <3> QED
        BY <3>1, <3>2
    <2>3. ASSUME NEW p \in Pairs PROVE Linked(leftward'[p], ToSendL(p + 1)', ToRecvR(p)')
      BY <1>i, <1>a, <1>l DEF Links
    <2> QED
      BY <2>2, <2>3 DEF Links, Linked
  <1>5. Filled'
    <2>1. \A j \in Ids : \A k \in 0..(Radius - 1) :
             haloL'[j][k] = IF j = i /\ k = sub[i] THEN (IF edgeL(i) THEN Boundary ELSE Cell(i))
                            ELSE haloL[j][k]
      BY <1>i, <1>c, <1>h DEF TypeOK, Halos
    <2> QED
      BY <1>i, <1>a, <1>2, <1>c, <2>1 DEF Filled, Cell, edgeL, edgeR
  <1>6. Collecting' /\ Gathering' /\ Answering' /\ ReduceInOrder'
    BY <1>a, <1>2, <1>1, CollectiveKept DEF BackFrom, Reduction
  <1>7. Joining'
    BY <1>a, <1>2, JoiningKept DEF Inv, mainVars
  <1> QED
    BY <1>1, <1>2, <1>3, <1>4, <1>5, <1>6, <1>7 DEF Inv

LEMMA HaloRightInv ==
    ASSUME Inv, NEW i \in Ids, HaloRight(i) PROVE Inv'
  <1> USE Sizes, Neighbours
  <1>i. TypeOK /\ Spawning /\ Rounds /\ Links /\ Filled
    BY DEF Inv
  <1>a. /\ pc[i] = "recvR" /\ Goto(i, IF Exchanged(i) THEN "compute" ELSE "sendR")
        /\ sub' = [sub EXCEPT ![i] = IF Exchanged(i) THEN 0 ELSE sub[i] + 1]
        /\ UNCHANGED <<rightward, collVars, done, step, own, haloL, mainVars>>
    BY DEF HaloRight
  <1>2. /\ pc' \in [Ids -> Places] /\ pc'[i] = IF Exchanged(i) THEN "compute" ELSE "sendR"
        /\ \A j \in Ids \ {i} : pc'[j] = pc[j]
        /\ Spawning'
    BY <1>i, <1>a, Moved DEF Places, mainVars
  <1>c. own[i] \in Nat /\ sub[i] \in 0..(Radius - 1) /\ Cell(i) \in Cells
    BY <1>i DEF TypeOK, Cell, Cells
  <1>s. /\ sub' \in [Ids -> 0..(Radius - 1)]
        /\ sub'[i] = IF sub[i] + 1 = Radius THEN 0 ELSE sub[i] + 1
        /\ \A j \in Ids \ {i} : sub'[j] = sub[j]
    <2>1. (IF sub[i] + 1 = Radius THEN 0 ELSE sub[i] + 1) \in 0..(Radius - 1)
      BY <1>c
    <2>2. sub \in [Ids -> 0..(Radius - 1)]
      BY <1>i DEF TypeOK
    <2> QED
      BY <1>a, <2>1, <2>2 DEF Exchanged
  <1>l. /\ \A j \in Ids : /\ ToSendR(j)' = ToSendR(j) /\ ToSendL(j)' = ToSendL(j)
                          /\ ToRecvL(j)' = ToRecvL(j)
        /\ \A j \in Ids : j # i => ToRecvR(j)' = ToRecvR(j)
        /\ ToRecvR(i) = Cell(i) /\ ToRecvR(i)' = Succ(Cell(i))
    <2>1. ASSUME NEW j \in Ids \ {i}
          PROVE  /\ ToSendR(j)' = ToSendR(j) /\ ToSendL(j)' = ToSendL(j)
                 /\ ToRecvL(j)' = ToRecvL(j) /\ ToRecvR(j)' = ToRecvR(j)
      BY <1>a, <1>2, <1>s, SameCells
    <2>2. /\ ToSendR(i) = Succ(Cell(i)) /\ ToSendL(i) = Succ(Cell(i)) /\ ToRecvL(i) = Succ(Cell(i))
          /\ ToRecvR(i) = Cell(i)
      BY <1>a DEF ToSendR, ToSendL, ToRecvL, ToRecvR, NextCell
    <2>3. Succ(Cell(i)) = IF Exchanged(i) THEN <<own[i] + 1, 0>> ELSE <<own[i], sub[i] + 1>>
      BY <1>c DEF Succ, Cell, Exchanged
    <2>4. /\ ToSendR(i)' = Succ(Cell(i)) /\ ToSendL(i)' = Succ(Cell(i))
          /\ ToRecvL(i)' = Succ(Cell(i)) /\ ToRecvR(i)' = Succ(Cell(i))
      BY <1>a, <1>2, <1>s, <2>3 DEF ToSendR, ToSendL, ToRecvL, ToRecvR, NextCell, Cell, Exchanged
    <2> QED
      BY <2>1, <2>2, <2>4
  <1>q. ASSUME ~edgeR(i)
        PROVE  /\ i \in Pairs /\ HasValue(leftward[i])
               /\ leftward' = [leftward EXCEPT ![i] = Tail(@)]
               /\ haloR' = [haloR EXCEPT ![i][sub[i]] = Cell(i)]
               /\ Linked(Tail(leftward[i]), ToSendL(i + 1), Succ(Cell(i)))
    <2>1. Linked(leftward[i], ToSendL(i + 1), Cell(i)) /\ HasValue(leftward[i])
      BY <1>i, <1>l, <1>q DEF Links, HaloRight
    <2>2. /\ Head(leftward[i]) = Cell(i)
          /\ Linked(Tail(leftward[i]), ToSendL(i + 1), Succ(Cell(i)))
      BY <2>1, Read
    <2> QED
      BY <1>q, <2>1, <2>2 DEF HaloRight
  <1>h. haloR' = [haloR EXCEPT ![i][sub[i]] = IF edgeR(i) THEN Boundary ELSE Cell(i)]
    BY <1>q DEF HaloRight
  <1>1. TypeOK'
    <2>1. leftward' \in [Pairs -> Seq(Cells)] /\ \A p \in Pairs : Len(leftward'[p]) <= 1
      <3>1. CASE leftward' = leftward
        BY <1>i, <3>1 DEF TypeOK
      <3>2. CASE ~edgeR(i)
        <4>1. /\ leftward \in [Pairs -> Seq(Cells)] /\ \A p \in Pairs : Len(leftward[p]) <= 1
              /\ i \in Pairs /\ HasValue(leftward[i])
              /\ leftward' = [leftward EXCEPT ![i] = Tail(@)]
          BY <1>i, <1>q, <3>2 DEF TypeOK
        <4> QED
          BY <4>1, Took
      <3> QED
        BY <3>1, <3>2 DEF HaloRight
    <2>2. haloR' \in [Ids -> Halos]
      BY <1>i, <1>c, <1>h DEF TypeOK, Halos
    <2> QED
      BY <1>i, <1>a, <1>2, <1>s, <2>1, <2>2 DEF TypeOK, collVars, mainVars
  <1>3. Rounds'
    BY <1>i, <1>a, <1>2, <1>s DEF Rounds, Exchanging, Reduction, Exchanged
  <1>4. Links'
    <2>2. ASSUME NEW p \in Pairs PROVE Linked(leftward'[p], ToSendL(p + 1)', ToRecvR(p)')
      <3>1. CASE p = i
        <4>1. leftward'[p] = Tail(leftward[p])
          BY <1>i, <1>q, <3>1 DEF TypeOK
        <4> QED
          BY <1>l, <1>q, <3>1, <4>1
      <3>2. CASE p # i
        <4>1. leftward'[p] = leftward[p]
          BY <1>i, <3>2 DEF HaloRight, TypeOK
        <4> QED
          BY <1>i, <1>l, <3>2, <4>1 DEF Links
      <3> QED
        BY <3>1, <3>2
    <2>3. ASSUME NEW p \in Pairs PROVE Linked(rightward'[p], ToSendR(p)', ToRecvL(p + 1)')
      BY <1>i, <1>a, <1>l DEF Links
    <2> QED
      BY <2>2, <2>3 DEF Links, Linked
  <1>5. Filled'
    <2>1. \A j \in Ids : \A k \in 0..(Radius - 1) :
             haloR'[j][k] = IF j = i /\ k = sub[i] THEN (IF edgeR(i) THEN Boundary ELSE Cell(i))
                            ELSE haloR[j][k]
      BY <1>i, <1>c, <1>h DEF TypeOK, Halos
    <2>2. ASSUME NEW k \in 0..(Radius - 1),
                 k < sub'[i] \/ pc'[i] = "compute" \/ (pc'[i] = "recvR" /\ k = sub'[i])
          PROVE  k < sub[i] \/ k = sub[i]
      BY <1>c, <1>s, <1>2, <2>2 DEF Exchanged
    <2> QED
      BY <1>i, <1>a, <1>2, <1>c, <1>s, <2>1, <2>2 DEF Filled, Cell, edgeL, edgeR
  <1>6. Collecting' /\ Gathering' /\ Answering' /\ ReduceInOrder'
    BY <1>a, <1>2, <1>1, CollectiveKept DEF BackFrom, Reduction
  <1>7. Joining'
    BY <1>a, <1>2, JoiningKept DEF Inv, mainVars
  <1> QED
    BY <1>1, <1>2, <1>3, <1>4, <1>5, <1>6, <1>7 DEF Inv

LEMMA ComputeInv ==
    ASSUME Inv, NEW i \in Ids, Compute(i) PROVE Inv'
  <1> USE Sizes, Neighbours
  <1>i. TypeOK /\ Spawning /\ Rounds /\ Links /\ Filled
    BY DEF Inv
  <1>a. /\ pc[i] = "compute" /\ Goto(i, IF step[i] \in Reducing THEN "partial" ELSE "step")
        /\ own' = [own EXCEPT ![i] = @ + 1]
        /\ UNCHANGED <<haloVars, collVars, done, step, sub, haloL, haloR, mainVars>>
    BY DEF Compute
  <1>2. /\ pc' \in [Ids -> Places] /\ pc'[i] = IF step[i] \in Reducing THEN "partial" ELSE "step"
        /\ \A j \in Ids \ {i} : pc'[j] = pc[j]
        /\ Spawning'
    BY <1>i, <1>a, Moved DEF Places, mainVars
  <1>c. own[i] = step[i] /\ step[i] < RoundCount /\ step[i] \in Nat /\ sub[i] = 0
    <2>1. step[i] \in Nat /\ RoundCount \in Nat
      BY <1>i DEF TypeOK
    <2> QED
      BY <1>i, <1>a, <2>1 DEF Rounds, Exchanging
  <1>o. /\ own' \in [Ids -> 0..RoundCount] /\ own'[i] = own[i] + 1
        /\ \A j \in Ids \ {i} : own'[j] = own[j]
    BY <1>i, <1>a, <1>c DEF TypeOK
  <1>1. TypeOK'
    BY <1>i, <1>a, <1>2, <1>o DEF TypeOK, haloVars, collVars, mainVars
  <1>3. Rounds'
    BY <1>i, <1>a, <1>2, <1>c, <1>o DEF Rounds, Exchanging, Reduction
  <1>4. Links'
    <2>1. ASSUME NEW j \in Ids \ {i}
          PROVE  /\ ToSendR(j)' = ToSendR(j) /\ ToSendL(j)' = ToSendL(j)
                 /\ ToRecvL(j)' = ToRecvL(j) /\ ToRecvR(j)' = ToRecvR(j)
      BY <1>a, <1>2, <1>o, SameCells
    <2>2. /\ ToSendR(i)' = ToSendR(i) /\ ToSendL(i)' = ToSendL(i)
          /\ ToRecvL(i)' = ToRecvL(i) /\ ToRecvR(i)' = ToRecvR(i)
      BY <1>a, <1>2, <1>c, <1>o DEF ToSendR, ToSendL, ToRecvL, ToRecvR, NextCell, Cell
    <2> QED
      BY <1>i, <1>a, <2>1, <2>2, LinksKept
  <1>5. Filled'
    BY <1>i, <1>a, <1>2, <1>c, <1>o DEF Filled
  <1>6. Collecting' /\ Gathering' /\ Answering' /\ ReduceInOrder'
    <2>1. \A r \in Reducing : BackFrom(i, r)' <=> BackFrom(i, r)
      BY <1>a, <1>2 DEF BackFrom
    <2> QED
      BY <1>a, <1>2, <1>1, <1>o, <2>1, CollectiveKept DEF Reduction
  <1>7. Joining'
    BY <1>a, <1>2, JoiningKept DEF Inv, mainVars
  <1> QED
    BY <1>1, <1>2, <1>3, <1>4, <1>5, <1>6, <1>7 DEF Inv

LEMMA StepInv ==
    ASSUME Inv, NEW i \in Ids, Step(i) PROVE Inv'
  <1> USE Sizes, Neighbours
  <1>i. TypeOK /\ Spawning /\ Rounds /\ Links /\ Filled
    BY DEF Inv
  <1>a. /\ pc[i] = "step" /\ Goto(i, IF AnotherRound(i) THEN "sendR" ELSE "done")
        /\ step' = [step EXCEPT ![i] = @ + 1]
        /\ UNCHANGED <<haloVars, collVars, done, own, sub, haloL, haloR, mainVars>>
    BY DEF Step
  <1>2. /\ pc' \in [Ids -> Places] /\ pc'[i] = IF AnotherRound(i) THEN "sendR" ELSE "done"
        /\ \A j \in Ids \ {i} : pc'[j] = pc[j]
        /\ Spawning'
    BY <1>i, <1>a, Moved DEF Places, mainVars
  <1>c. own[i] = step[i] + 1 /\ step[i] < RoundCount /\ step[i] \in Nat /\ sub[i] = 0
    <2>1. step[i] \in Nat /\ RoundCount \in Nat
      BY <1>i DEF TypeOK
    <2> QED
      BY <1>i, <1>a, <2>1 DEF Rounds, Exchanging
  <1>o. /\ step' \in [Ids -> 0..RoundCount] /\ step'[i] = step[i] + 1
        /\ \A j \in Ids \ {i} : step'[j] = step[j]
    BY <1>i, <1>a, <1>c DEF TypeOK
  <1>1. TypeOK'
    BY <1>i, <1>a, <1>2, <1>o DEF TypeOK, haloVars, collVars, mainVars
  <1>3. Rounds'
    BY <1>i, <1>a, <1>2, <1>c, <1>o, StepCounts DEF Rounds, Exchanging, Reduction, AnotherRound
  <1>4. Links'
    <2>1. ASSUME NEW j \in Ids
          PROVE  /\ ToSendR(j)' = ToSendR(j) /\ ToSendL(j)' = ToSendL(j)
                 /\ ToRecvL(j)' = ToRecvL(j) /\ ToRecvR(j)' = ToRecvR(j)
      BY <1>a, <1>2 DEF ToSendR, ToSendL, ToRecvL, ToRecvR, NextCell, Cell
    <2> QED
      BY <1>i, <1>a, <2>1, LinksKept
  <1>5. Filled'
    BY <1>i, <1>a, <1>2, <1>c DEF Filled
  <1>6. Collecting' /\ Gathering' /\ Answering' /\ ReduceInOrder'
    <2>1. \A r \in Reducing : BackFrom(i, r)' <=> BackFrom(i, r)
      BY <1>a, <1>2, <1>c, <1>o DEF BackFrom
    <2> QED
      BY <1>a, <1>2, <1>1, <1>o, <2>1, CollectiveKept DEF Reduction
  <1>7. Joining'
    BY <1>a, <1>2, JoiningKept DEF Inv, mainVars
  <1> QED
    BY <1>1, <1>2, <1>3, <1>4, <1>5, <1>6, <1>7 DEF Inv

-----------------------------------------------------------------------------
(* main, and the scheduler.                                                *)

(* Nothing happens at the halo channels.                                   *)
LEMMA HalosKept ==
    ASSUME Links, Filled, UNCHANGED <<haloVars, own, sub, haloL, haloR>>,
           \A j \in Ids : \/ pc'[j] = pc[j]
                          \/ {pc[j], pc'[j]} \cap {"sendL", "recvL", "recvR", "compute"} = {}
    PROVE  Links' /\ Filled'
  <1>1. ASSUME NEW j \in Ids
        PROVE  /\ ToSendR(j)' = ToSendR(j) /\ ToSendL(j)' = ToSendL(j)
               /\ ToRecvL(j)' = ToRecvL(j) /\ ToRecvR(j)' = ToRecvR(j)
    BY DEF ToSendR, ToSendL, ToRecvL, ToRecvR, NextCell, Cell
  <1>2. Links'
    BY <1>1, LinksKept
  <1>3. Filled'
    BY DEF Filled
  <1> QED
    BY <1>2, <1>3

LEMMA SpawnInv ==
    ASSUME Inv, Spawn PROVE Inv'
  <1> USE Sizes, Neighbours
  <1>i. TypeOK /\ Spawning /\ Rounds /\ Links /\ Filled
    BY DEF Inv
  <1>a. /\ ready_queue' = <<spawned>> \o ready_queue /\ spawned' = spawned + 1
        /\ pc' = [pc EXCEPT ![spawned] = "queued"]
        /\ UNCHANGED <<haloVars, collVars, done, step, own, sub, haloL, haloR, joined>>
    BY DEF Spawn, Goto
  <1>b. spawned \in Ids /\ spawned + 1 \in 0..Count
    BY <1>i DEF Spawn, TypeOK, Ids
  <1>c. pc[spawned] = "unborn"
    BY <1>i, <1>b DEF Spawning, Ids
  <1>p. /\ pc' \in [Ids -> Places] /\ pc'[spawned] = "queued"
        /\ \A j \in Ids \ {spawned} : pc'[j] = pc[j]
    BY <1>i, <1>a, <1>b DEF TypeOK, Places
  <1>q. /\ ready_queue \in Seq(Ids) /\ ready_queue' \in Seq(Ids)
        /\ Len(ready_queue') = Len(ready_queue) + 1 /\ ready_queue'[1] = spawned
        /\ \A k \in 2..Len(ready_queue') :
              k - 1 \in 1..Len(ready_queue) /\ ready_queue'[k] = ready_queue[k - 1]
    BY <1>i, <1>a, <1>b DEF TypeOK
  <1>1. TypeOK'
    BY <1>i, <1>a, <1>b, <1>p, <1>q DEF TypeOK, haloVars, collVars
  <1>2. Spawning'
    <2>1. \A j \in Ids : pc'[j] = "unborn" <=> spawned' <= j
      BY <1>i, <1>a, <1>b, <1>p DEF Spawning, Ids
    <2>2. \A k \in 1..Len(ready_queue) :
             ready_queue[k] \in Ids \ {spawned} /\ pc[ready_queue[k]] = "queued"
      BY <1>i, <1>c, <1>q DEF Spawning
    <2>3. \A k \in 1..Len(ready_queue') : pc'[ready_queue'[k]] = "queued"
      BY <1>p, <1>q, <2>2
    <2>4. \A j, k \in 1..Len(ready_queue') : ready_queue'[j] = ready_queue'[k] => j = k
      <3>1. ASSUME NEW j \in 1..Len(ready_queue'), NEW k \in 1..Len(ready_queue'),
                   ready_queue'[j] = ready_queue'[k], j = 1
            PROVE  k = 1
        BY <1>q, <2>2, <3>1
      <3>2. ASSUME NEW j \in 2..Len(ready_queue'), NEW k \in 2..Len(ready_queue'),
                   ready_queue'[j] = ready_queue'[k]
            PROVE  j = k
        <4>1. j - 1 = k - 1
          BY <1>i, <1>q, <3>2 DEF Spawning
        <4> QED
          BY <4>1
      <3> QED
        BY <3>1, <3>2, <1>q
    <2> QED
      BY <2>1, <2>3, <2>4 DEF Spawning
  <1>3. Rounds'
    BY <1>i, <1>a, <1>b, <1>c, <1>p DEF Rounds, Exchanging, Reduction
  <1>4. Links' /\ Filled'
    BY <1>i, <1>a, <1>c, <1>p, HalosKept
  <1>5. Collecting' /\ Gathering' /\ Answering' /\ ReduceInOrder'
    BY <1>a, <1>b, <1>c, <1>p, <1>1, CollectiveKept DEF BackFrom, Reduction
  <1>6. Joining'
    BY <1>a, <1>b, <1>c, <1>p, JoiningKept DEF Inv
  <1> QED
    BY <1>1, <1>2, <1>3, <1>4, <1>5, <1>6 DEF Inv

LEMMA StartInv ==
    ASSUME Inv, NEW i \in Ids, Start(i) PROVE Inv'
  <1> USE Sizes, Neighbours
  <1>i. TypeOK /\ Spawning /\ Rounds /\ Links /\ Filled
    BY DEF Inv
  <1>a. /\ ready_queue # <<>> /\ i = Head(ready_queue) /\ ready_queue' = Tail(ready_queue)
        /\ pc' = [pc EXCEPT ![i] = "sendR"]
        /\ UNCHANGED <<haloVars, collVars, done, step, own, sub, haloL, haloR, spawned, joined>>
    BY DEF Start, Goto
  <1>q. /\ ready_queue' \in Seq(Ids) /\ 1 \in 1..Len(ready_queue) /\ i = ready_queue[1]
        /\ \A k \in 1..Len(ready_queue') :
              k + 1 \in 2..Len(ready_queue) /\ ready_queue'[k] = ready_queue[k + 1]
    BY <1>i, <1>a DEF TypeOK
  <1>c. pc[i] = "queued"
    BY <1>i, <1>q DEF Spawning
  <1>p. /\ pc' \in [Ids -> Places] /\ pc'[i] = "sendR" /\ \A j \in Ids \ {i} : pc'[j] = pc[j]
    BY <1>i, <1>a DEF TypeOK, Places
  <1>1. TypeOK'
    BY <1>i, <1>a, <1>p, <1>q DEF TypeOK, haloVars, collVars
  <1>2. Spawning'
    <2>1. \A j \in Ids : pc'[j] = "unborn" <=> spawned' <= j
      BY <1>i, <1>a, <1>c, <1>p DEF Spawning
    <2>2. ASSUME NEW k \in 1..Len(ready_queue') PROVE pc'[ready_queue'[k]] = "queued"
      <3>1. k + 1 \in 1..Len(ready_queue) /\ k + 1 # 1 /\ ready_queue'[k] = ready_queue[k + 1]
        BY <1>q
      <3>2. ready_queue[k + 1] # i /\ pc[ready_queue[k + 1]] = "queued"
        BY <1>i, <1>q, <3>1 DEF Spawning
      <3>3. ready_queue[k + 1] \in Ids
        <4>1. ready_queue \in Seq(Ids)
          BY <1>i DEF TypeOK
        <4> QED
          BY <3>1, <4>1
      <3> QED
        BY <1>p, <3>1, <3>2, <3>3
    <2>3. ASSUME NEW j \in 1..Len(ready_queue'), NEW k \in 1..Len(ready_queue'),
                 ready_queue'[j] = ready_queue'[k]
          PROVE  j = k
      <3>1. j + 1 \in 1..Len(ready_queue) /\ k + 1 \in 1..Len(ready_queue)
            /\ ready_queue[j + 1] = ready_queue[k + 1]
        BY <1>q, <2>3
      <3>2. j + 1 = k + 1
        BY <1>i, <3>1 DEF Spawning
      <3> QED
        BY <3>2
    <2> QED
      BY <2>1, <2>2, <2>3 DEF Spawning
  <1>3. Rounds'
    BY <1>i, <1>a, <1>c, <1>p DEF Rounds, Exchanging, Reduction
  <1>4. Links' /\ Filled'
    BY <1>i, <1>a, <1>c, <1>p, HalosKept
  <1>5. Collecting' /\ Gathering' /\ Answering' /\ ReduceInOrder'
    BY <1>a, <1>c, <1>p, <1>1, CollectiveKept DEF BackFrom, Reduction
  <1>6. Joining'
    BY <1>a, <1>c, <1>p, JoiningKept DEF Inv
  <1> QED
    BY <1>1, <1>2, <1>3, <1>4, <1>5, <1>6 DEF Inv

LEMMA JoinInv ==
    ASSUME Inv, Join PROVE Inv'
  <1> USE Sizes, Neighbours
  <1>i. TypeOK /\ Spawning /\ Rounds /\ Links /\ Filled
    BY DEF Inv
  <1>a. /\ done # <<>> /\ done' = Tail(done) /\ joined < Count /\ joined' = joined + 1
        /\ UNCHANGED <<haloVars, collVars, pc, step, own, sub, haloL, haloR, ready_queue, spawned>>
    BY DEF Join, HasValue, StillJoining
  <1>d. done' \in Seq(Ids) /\ Len(done') = Len(done) - 1 /\ Len(done) \in Nat
    BY <1>i, <1>a DEF TypeOK
  <1>j. joined' \in 0..Count
    BY <1>i, <1>a DEF TypeOK
  <1>1. TypeOK'
    BY <1>i, <1>a, <1>d, <1>j DEF TypeOK, haloVars, collVars
  <1>2. Spawning' /\ Rounds'
    BY <1>i, <1>a DEF Spawning, Rounds
  <1>3. Links' /\ Filled'
    BY <1>i, <1>a, HalosKept
  <1>4. Collecting' /\ Gathering' /\ Answering' /\ ReduceInOrder'
    <2>1. Collecting' /\ ReduceInOrder'
      BY <1>a DEF Inv, Collecting, ReduceInOrder, InIdOrder, collVars
    <2>2. \A j, r : /\ BackFrom(j, r)' <=> BackFrom(j, r)
                    /\ Contributed(j, r)' <=> Contributed(j, r)
                    /\ Taken(j, r)' <=> Taken(j, r)
                    /\ Replied(j, r)' <=> Replied(j, r)
      BY <1>a DEF BackFrom, Contributed, Taken, Replied, collVars
    <2>3. Gathering'
      BY <1>a, <2>2 DEF Inv, Gathering, collVars
    <2>4. Answering'
      BY <1>a, <2>2 DEF Inv, Answering, InIdOrder, collVars
    <2> QED
      BY <2>1, <2>3, <2>4
  <1>5. Joining'
    <2>1. Finished' = Finished
      BY <1>a DEF Finished
    <2>2. joined \in Nat
      BY <1>i DEF TypeOK
    <2> QED
      BY <1>a, <1>d, <2>1, <2>2 DEF Inv, Joining
  <1> QED
    BY <1>1, <1>2, <1>3, <1>4, <1>5 DEF Inv

LEMMA FinishInv ==
    ASSUME Inv, NEW i \in Ids, Finish(i) PROVE Inv'
  <1> USE Sizes, Neighbours
  <1>i. TypeOK /\ Spawning /\ Rounds /\ Links /\ Filled
    BY DEF Inv
  <1>a. /\ pc[i] = "done" /\ done' = Append(done, i) /\ Goto(i, "exited")
        /\ UNCHANGED <<haloVars, collVars, step, own, sub, haloL, haloR, mainVars>>
    BY DEF Finish
  <1>2. /\ pc' \in [Ids -> Places] /\ pc'[i] = "exited"
        /\ \A j \in Ids \ {i} : pc'[j] = pc[j]
        /\ Spawning'
    BY <1>i, <1>a, Moved DEF Places, mainVars
  <1>d. done' \in Seq(Ids) /\ Len(done') = Len(done) + 1 /\ Len(done) \in Nat
    BY <1>i, <1>a DEF TypeOK
  <1>1. TypeOK'
    BY <1>i, <1>a, <1>d, <1>2 DEF TypeOK, haloVars, collVars, mainVars
  <1>3. Rounds'
    BY <1>i, <1>a, <1>2 DEF Rounds, Exchanging, Reduction
  <1>4. Links' /\ Filled'
    BY <1>i, <1>a, <1>2, HalosKept
  <1>5. Collecting' /\ Gathering' /\ Answering' /\ ReduceInOrder'
    BY <1>a, <1>2, <1>1, CollectiveKept DEF BackFrom, Reduction
  <1>6. Joining'
    <2>1. Finished' = Finished \cup {i} /\ i \notin Finished
      BY <1>a, <1>2 DEF Finished
    <2>2. IsFiniteSet(Finished)
      BY FiniteIds, FS_Subset DEF Finished
    <2>3. Cardinality(Finished') = Cardinality(Finished) + 1
      BY <2>1, <2>2, FS_AddElement
    <2>4. joined \in Nat /\ UNCHANGED joined
      BY <1>i, <1>a DEF TypeOK, mainVars
    <2> QED
      BY <1>d, <2>3, <2>4 DEF Inv, Joining
  <1> QED
    BY <1>1, <1>2, <1>3, <1>4, <1>5, <1>6 DEF Inv

-----------------------------------------------------------------------------
(* The collective.                                                         *)

(* Lane 0 answers once it has every contribution.                          *)
LEMMA TakenBeforeReply ==
    ASSUME TypeOK, Collecting, NEW i \in Ids, i # 0, NEW r, Replied(i, r)
    PROVE  Taken(i, r)
  <1>1. CASE BackFrom(0, r)
    BY <1>1 DEF Taken
  <1>2. CASE r = step[0] /\ pc[0] = "combine" /\ i < bcast
    <2>1. bcast > 1
      BY <1>2, Sizes DEF TypeOK, Ids
    <2>2. i < Len(acc)
      BY <2>1, Sizes DEF Collecting, Ids
    <2> QED
      BY <1>2, <2>2 DEF Taken
  <1> QED
    BY <1>1, <1>2 DEF Replied

(* A lane whose contribution lane 0 waits for is in the same round.        *)
LEMMA SameRound ==
    ASSUME Inv, NEW i \in Ids, pc[0] = "combine", i = Len(acc), HasValue(partials[i])
    PROVE  /\ step[i] = step[0] /\ own[i] = own[0] /\ partials[i] = <<<<i, own[i]>>>>
           /\ pc[i] \in {"combine", "result"}
           /\ \A r \in Reducing : Contributed(i, r) <=> (Taken(i, r) \/ r = step[i])
  <1> USE Neighbours
  <1>t. step[i] \in Nat /\ step[0] \in Nat /\ step[0] \in Reducing
    BY DEF Inv, TypeOK, Collecting, Reduction
  <1>1. /\ partials[i] = <<<<i, own[i]>>>>
        /\ pc[i] \in {"combine", "result"} /\ ~Taken(i, step[i])
        /\ \A r \in Reducing : Contributed(i, r) <=> (Taken(i, r) \/ r = step[i])
    BY DEF Inv, Gathering, HasValue
  <1>2. ~Taken(i, step[0])
    BY <1>t DEF Taken, BackFrom
  <1>3. ~(step[i] > step[0])
    <2>1. step[i] > step[0] => Contributed(i, step[0])
      BY <1>t DEF Contributed, BackFrom
    <2> QED
      BY <1>t, <1>1, <1>2, <2>1
  <1>4. ~(step[i] < step[0])
    BY <1>t, <1>1 DEF Taken, BackFrom
  <1>5. step[i] = step[0]
    BY <1>t, <1>3, <1>4
  <1>6. own[i] = step[i] + 1 /\ own[0] = step[0] + 1
    BY <1>1 DEF Inv, Rounds, Reduction
  <1> QED
    BY <1>1, <1>5, <1>6

(* So is a lane that lane 0 is about to answer.                            *)
LEMMA AwaitsAnswer ==
    ASSUME Inv, pc[0] = "combine", Combined, NEW b \in Ids, b = bcast
    PROVE  /\ pc[b] = "result" /\ step[b] = step[0] /\ own[b] = own[0]
           /\ results[b] = <<>>
           /\ \A r \in Reducing : BackFrom(b, r) <=> Replied(b, r)
  <1> USE Neighbours
  <1>t. /\ step[b] \in Nat /\ step[0] \in Nat /\ step[0] \in Reducing
        /\ b # 0 /\ b < Len(acc) /\ Len(acc) = Count /\ b \in Nat
    <2>1. b \in Nat /\ b # 0 /\ b < Count
      BY Sizes DEF Inv, TypeOK, Ids
    <2>2. step[b] \in Nat /\ step[0] \in Nat
      BY DEF Inv, TypeOK
    <2>3. step[0] \in Reducing
      BY DEF Inv, Collecting, Reduction
    <2> QED
      BY <2>1, <2>2, <2>3 DEF Combined
  <1>1. Contributed(b, step[0])
    BY <1>t DEF Inv, Gathering, Taken
  <1>2. ~Replied(b, step[0])
    BY <1>t DEF Replied, BackFrom
  <1>3. ASSUME results[b] # <<>> PROVE FALSE
    <2>1. /\ pc[b] = "result"
          /\ \A r \in Reducing : Replied(b, r) <=> (BackFrom(b, r) \/ r = step[b])
      BY <1>3 DEF Inv, Answering
    <2>2. ~BackFrom(b, step[0]) /\ step[b] # step[0]
      BY <1>t, <1>2, <2>1
    <2> QED
      BY <1>t, <1>1, <2>1, <2>2 DEF Contributed
  <1>4. results[b] = <<>> /\ \A r \in Reducing : BackFrom(b, r) <=> Replied(b, r)
    <2>1. results[b] = <<>> /\ <<InIdOrder(own[b])>> # <<>>
      BY <1>3
    <2> QED
      BY <1>t, <2>1 DEF Inv, Answering
  <1>5. ~BackFrom(b, step[0])
    BY <1>t, <1>2, <1>4
  <1>6. step[b] = step[0] /\ pc[b] = "result"
    BY <1>t, <1>1, <1>5 DEF Contributed, Inv, Collecting
  <1>7. own[b] = step[b] + 1 /\ own[0] = step[0] + 1
    BY <1>6 DEF Inv, Rounds, Reduction
  <1> QED
    BY <1>4, <1>6, <1>7

(* What lane 0 has combined when it has everything.                        *)
LEMMA CombinedInOrder ==
    ASSUME TypeOK, Collecting, Combined PROVE acc = InIdOrder(own[0])
  BY DEF TypeOK, Collecting, Combined, InIdOrder

LEMMA SendPartialInv ==
    ASSUME Inv, NEW i \in Ids, SendPartial(i) PROVE Inv'
  <1> USE Sizes, Neighbours
  <1>i. TypeOK /\ Spawning /\ Rounds /\ Links /\ Filled /\ Collecting /\ Gathering /\ Answering
    BY DEF Inv
  <1>a. /\ pc[i] = "partial" /\ Goto(i, IF i = 0 THEN "combine" ELSE "result")
        /\ HasRoom(partials[i]) /\ partials' = [partials EXCEPT ![i] = Append(@, <<i, own[i]>>)]
        /\ UNCHANGED <<haloVars, results, acc, bcast, reduced, done, step, own, sub, haloL, haloR,
                       mainVars>>
    BY DEF SendPartial
  <1>2. /\ pc' \in [Ids -> Places] /\ pc'[i] = IF i = 0 THEN "combine" ELSE "result"
        /\ \A j \in Ids \ {i} : pc'[j] = pc[j]
        /\ Spawning'
    BY <1>i, <1>a, Moved DEF Places, mainVars
  <1>c. <<i, own[i]>> \in Ids \X Nat
    BY <1>i DEF TypeOK
  <1>p. /\ partials' \in [Ids -> Seq(Ids \X Nat)] /\ \A j \in Ids : Len(partials'[j]) <= 1
        /\ partials'[i] = Append(partials[i], <<i, own[i]>>)
        /\ \A j \in Ids \ {i} : partials'[j] = partials[j]
    <2>1. partials \in [Ids -> Seq(Ids \X Nat)] /\ \A j \in Ids : Len(partials[j]) <= 1
      BY <1>i DEF TypeOK
    <2>2. partials' \in [Ids -> Seq(Ids \X Nat)] /\ \A j \in Ids : Len(partials'[j]) <= 1
      BY <1>a, <1>c, <2>1, Put
    <2> QED
      BY <1>a, <2>1, <2>2
  <1>1. TypeOK'
    BY <1>i, <1>a, <1>2, <1>p DEF TypeOK, haloVars, mainVars
  <1>3. Rounds'
    BY <1>i, <1>a, <1>2 DEF Rounds, Exchanging, Reduction
  <1>4. Links' /\ Filled'
    BY <1>i, <1>a, <1>2, HalosKept
  <1>s. /\ step[i] \in Reducing /\ step[i] \in Nat
        /\ i = 0 => acc = <<>> /\ bcast = 1
    BY <1>i, <1>a DEF Collecting, Reduction, TypeOK
  <1>r. \A j \in Ids, r \in Reducing :
          /\ BackFrom(j, r)' <=> BackFrom(j, r)
          /\ Contributed(j, r)' <=> (Contributed(j, r) \/ (j = i /\ r = step[i]))
    BY <1>a, <1>2 DEF BackFrom, Contributed
  <1>t. \A j \in Ids, r \in Reducing :
          /\ Taken(j, r)' <=> Taken(j, r)
          /\ j # 0 => (Replied(j, r)' <=> Replied(j, r))
    BY <1>a, <1>2, <1>r, <1>s DEF Taken, Replied, Ids
  <1>5. Collecting'
    BY <1>i, <1>a, <1>2, <1>s DEF Collecting, Reduction
  <1>6. Gathering'
    <2>1. /\ partials[i] = <<>> /\ \A r \in Reducing : Contributed(i, r) <=> Taken(i, r)
      BY <1>i, <1>a DEF Gathering
    <2>2. ~Taken(i, step[i])
      BY <1>a, <1>s, <2>1 DEF Contributed, BackFrom
    <2>3. /\ partials'[i] = <<<<i, own'[i]>>>> /\ pc'[i] \in {"combine", "result"}
          /\ ~Taken(i, step[i])'
          /\ \A r \in Reducing : Contributed(i, r)' <=> (Taken(i, r)' \/ r = step'[i])
      BY <1>a, <1>2, <1>p, <1>r, <1>t, <1>s, <2>1, <2>2
    <2>4. ASSUME NEW j \in Ids \ {i}
          PROVE  \/ /\ partials'[j] = <<>>
                    /\ \A r \in Reducing : Contributed(j, r)' <=> Taken(j, r)'
                 \/ /\ partials'[j] = <<<<j, own'[j]>>>>
                    /\ pc'[j] \in {"combine", "result"} /\ ~Taken(j, step[j])'
                    /\ \A r \in Reducing : Contributed(j, r)' <=> (Taken(j, r)' \/ r = step'[j])
      <3>1. pc[j] \in {"combine", "result"} => step[j] \in Reducing
        BY <1>i DEF Collecting, Reduction
      <3> QED
        BY <1>i, <1>a, <1>2, <1>p, <1>r, <1>t, <3>1 DEF Gathering
    <2> QED
      BY <2>3, <2>4 DEF Gathering
  <1>7. Answering'
    <2>1. ASSUME NEW j \in Ids
          PROVE  \/ /\ results'[j] = <<>>
                    /\ j # 0 => (\A r \in Reducing : BackFrom(j, r)' <=> Replied(j, r)')
                 \/ /\ results'[j] = <<InIdOrder(own[j])>>'
                    /\ pc'[j] = "result"
                    /\ \A r \in Reducing : Replied(j, r)' <=> (BackFrom(j, r)' \/ r = step'[j])
      <3>1. CASE results[j] = <<>>
        <4>1. j # 0 => \A r \in Reducing : BackFrom(j, r) <=> Replied(j, r)
          BY <1>i, <3>1 DEF Answering
        <4> QED
          BY <1>a, <1>r, <1>t, <3>1, <4>1
      <3>2. CASE results[j] # <<>>
        <4>1. j # i /\ j # 0
          BY <1>i, <1>a, <3>2 DEF Answering, Collecting
        <4> QED
          BY <1>i, <1>a, <1>2, <1>r, <1>t, <3>2, <4>1 DEF Answering, InIdOrder
      <3> QED
        BY <3>1, <3>2
    <2> QED
      BY <2>1 DEF Answering
  <1>8. ReduceInOrder'
    BY <1>a, <1>2 DEF Inv, ReduceInOrder, InIdOrder
  <1>9. Joining'
    BY <1>a, <1>2, JoiningKept DEF Inv, mainVars
  <1> QED
    BY <1>1, <1>2, <1>3, <1>4, <1>5, <1>6, <1>7, <1>8, <1>9 DEF Inv

LEMMA CombineInv ==
    ASSUME Inv, Combine PROVE Inv'
  <1> USE Sizes, Neighbours
  <1>i. TypeOK /\ Spawning /\ Rounds /\ Links /\ Filled /\ Collecting /\ Gathering /\ Answering
    BY DEF Inv
  <1>0. PICK i \in Ids :
          /\ i = Len(acc) /\ HasValue(partials[i]) /\ acc' = Append(acc, Head(partials[i]))
          /\ partials' = [partials EXCEPT ![i] = Tail(@)]
    BY DEF Combine, NextPartial, WithoutFirst
  <1>a. /\ pc[0] = "combine" /\ Len(acc) < Count
        /\ UNCHANGED <<haloVars, results, bcast, reduced, done, pc, step, own, sub, haloL, haloR,
                       mainVars>>
    BY DEF Combine
  <1>b. /\ step[i] = step[0] /\ own[i] = own[0] /\ partials[i] = <<<<i, own[i]>>>>
        /\ pc[i] \in {"combine", "result"}
        /\ \A r \in Reducing : Contributed(i, r) <=> (Taken(i, r) \/ r = step[i])
    BY <1>0, <1>a, SameRound
  <1>p. /\ partials' \in [Ids -> Seq(Ids \X Nat)] /\ \A j \in Ids : Len(partials'[j]) <= 1
        /\ partials'[i] = <<>> /\ \A j \in Ids \ {i} : partials'[j] = partials[j]
    <2>1. partials \in [Ids -> Seq(Ids \X Nat)] /\ \A j \in Ids : Len(partials[j]) <= 1
      BY <1>i DEF TypeOK
    <2>2. partials' \in [Ids -> Seq(Ids \X Nat)] /\ \A j \in Ids : Len(partials'[j]) <= 1
      <3>1. HasValue(partials[i]) /\ partials' = [partials EXCEPT ![i] = Tail(@)]
        BY <1>0
      <3> QED
        BY <2>1, <3>1, Took
    <2> QED
      BY <1>0, <1>b, <2>1, <2>2
  <1>c. /\ acc' = Append(acc, <<i, own[0]>>) /\ acc' \in Seq(Ids \X Nat)
        /\ Len(acc') = Len(acc) + 1 /\ acc'[Len(acc) + 1] = <<Len(acc), own[0]>>
        /\ \A k \in 1..Len(acc) : acc'[k] = acc[k]
    <2>1. acc \in Seq(Ids \X Nat) /\ own[0] \in Nat
      BY <1>i DEF TypeOK
    <2>2. acc' = Append(acc, <<i, own[0]>>)
      BY <1>0, <1>b
    <2>3. <<i, own[0]>> \in Ids \X Nat /\ i = Len(acc)
      BY <1>0, <2>1
    <2> QED
      BY <2>1, <2>2, <2>3
  <1>1. TypeOK'
    BY <1>i, <1>a, <1>p, <1>c DEF TypeOK, haloVars, mainVars
  <1>2. Spawning' /\ Rounds'
    BY <1>i, <1>a DEF Spawning, Rounds, mainVars
  <1>4. Links' /\ Filled'
    BY <1>i, <1>a, HalosKept
  <1>n. Len(acc) \in Nat /\ \A j \in Ids : j \in Nat
    BY <1>i DEF TypeOK, Ids
  <1>r. \A j, r : /\ BackFrom(j, r)' <=> BackFrom(j, r)
                  /\ Contributed(j, r)' <=> Contributed(j, r)
                  /\ Replied(j, r)' <=> Replied(j, r)
    BY <1>a DEF BackFrom, Contributed, Replied
  <1>t. \A j \in Ids, r \in Reducing :
          Taken(j, r)' <=> (Taken(j, r) \/ (j = i /\ r = step[0]))
    BY <1>a, <1>r, <1>c, <1>n, <1>0 DEF Taken
  <1>5. Collecting'
    <2>1. \A k \in 1..Len(acc') : acc'[k] = <<k - 1, own'[0]>>
      <3>1. ASSUME NEW k \in 1..Len(acc'), k # Len(acc) + 1 PROVE acc'[k] = <<k - 1, own'[0]>>
        <4>1. k \in 1..Len(acc)
          BY <1>c, <1>n, <3>1
        <4>2. acc[k] = <<k - 1, own[0]>>
          BY <1>i, <4>1 DEF Collecting
        <4> QED
          BY <1>a, <1>c, <4>1, <4>2
      <3>2. acc'[Len(acc) + 1] = <<Len(acc) + 1 - 1, own'[0]>>
        BY <1>a, <1>c, <1>n
      <3> QED
        BY <3>1, <3>2
    <2> QED
      BY <1>i, <1>a, <1>c, <1>n, <2>1 DEF Collecting
  <1>6. Gathering'
    <2>1. /\ partials'[i] = <<>> /\ \A r \in Reducing : Contributed(i, r)' <=> Taken(i, r)'
      BY <1>b, <1>p, <1>r, <1>t
    <2>2. ASSUME NEW j \in Ids \ {i}
          PROVE  \/ /\ partials'[j] = <<>>
                    /\ \A r \in Reducing : Contributed(j, r)' <=> Taken(j, r)'
                 \/ /\ partials'[j] = <<<<j, own'[j]>>>>
                    /\ pc'[j] \in {"combine", "result"} /\ ~Taken(j, step[j])'
                    /\ \A r \in Reducing : Contributed(j, r)' <=> (Taken(j, r)' \/ r = step'[j])
      <3>1. pc[j] \in {"combine", "result"} => step[j] \in Reducing
        BY <1>i DEF Collecting, Reduction
      <3>2. \A r \in Reducing : Taken(j, r)' <=> Taken(j, r)
        BY <1>t
      <3> QED
        BY <1>i, <1>a, <1>p, <1>r, <3>1, <3>2 DEF Gathering
    <2> QED
      BY <2>1, <2>2 DEF Gathering
  <1>7. Answering'
    BY <1>i, <1>a, <1>r DEF Answering, InIdOrder
  <1>8. ReduceInOrder'
    BY <1>a DEF Inv, ReduceInOrder, InIdOrder
  <1>9. Joining'
    BY <1>a, JoiningKept DEF Inv, mainVars
  <1> QED
    BY <1>1, <1>2, <1>4, <1>5, <1>6, <1>7, <1>8, <1>9 DEF Inv

LEMMA BroadcastInv ==
    ASSUME Inv, Broadcast PROVE Inv'
  <1> USE Sizes, Neighbours
  <1>i. TypeOK /\ Spawning /\ Rounds /\ Links /\ Filled /\ Collecting /\ Gathering /\ Answering
    BY DEF Inv
  <1>0. PICK b \in Ids : b = bcast
    BY <1>i DEF Broadcast, TypeOK, Ids
  <1>a. /\ pc[0] = "combine" /\ Combined /\ bcast < Count /\ HasRoom(results[b])
        /\ results' = [results EXCEPT ![b] = Append(@, acc)] /\ bcast' = bcast + 1
        /\ UNCHANGED <<haloVars, partials, acc, reduced, done, pc, step, own, sub, haloL, haloR,
                       mainVars>>
    BY <1>0 DEF Broadcast
  <1>b. /\ pc[b] = "result" /\ step[b] = step[0] /\ own[b] = own[0] /\ results[b] = <<>>
        /\ \A r \in Reducing : BackFrom(b, r) <=> Replied(b, r)
    BY <1>0, <1>a, AwaitsAnswer
  <1>c. acc = InIdOrder(own[b])
    BY <1>i, <1>a, <1>b, CombinedInOrder
  <1>p. /\ results' \in [Ids -> Seq(Seq(Ids \X Nat))] /\ \A j \in Ids : Len(results'[j]) <= 1
        /\ results'[b] = <<acc>> /\ \A j \in Ids \ {b} : results'[j] = results[j]
    <2>1. /\ results \in [Ids -> Seq(Seq(Ids \X Nat))] /\ \A j \in Ids : Len(results[j]) <= 1
          /\ acc \in Seq(Ids \X Nat)
      BY <1>i DEF TypeOK
    <2>2. results' \in [Ids -> Seq(Seq(Ids \X Nat))] /\ \A j \in Ids : Len(results'[j]) <= 1
      BY <1>a, <2>1, Put
    <2>3. results'[b] = Append(<<>>, acc) /\ \A j \in Ids \ {b} : results'[j] = results[j]
      BY <1>a, <1>b, <2>1
    <2> QED
      BY <2>1, <2>2, <2>3
  <1>n. /\ bcast \in Nat /\ bcast' \in 1..Count /\ b # 0 /\ Len(acc) = Count
        /\ \A j \in Ids : j \in Nat /\ (j < bcast' <=> (j < bcast \/ j = b))
    <2>1. bcast \in 1..Count
      BY <1>i DEF TypeOK
    <2>2. bcast \in Nat /\ bcast' \in 1..Count /\ b # 0 /\ Len(acc) = Count
      BY <1>0, <1>a, <2>1 DEF Combined
    <2>3. \A j \in Ids : j \in Nat
      BY DEF Ids
    <2> QED
      BY <1>0, <1>a, <2>2, <2>3
  <1>1. TypeOK'
    BY <1>i, <1>a, <1>p, <1>n DEF TypeOK, haloVars, mainVars
  <1>2. Spawning' /\ Rounds'
    BY <1>i, <1>a DEF Spawning, Rounds, mainVars
  <1>4. Links' /\ Filled'
    BY <1>i, <1>a, HalosKept
  <1>r. \A j, r : /\ BackFrom(j, r)' <=> BackFrom(j, r)
                  /\ Contributed(j, r)' <=> Contributed(j, r)
                  /\ Taken(j, r)' <=> Taken(j, r)
    BY <1>a DEF BackFrom, Contributed, Taken
  <1>t. \A j \in Ids, r \in Reducing :
          Replied(j, r)' <=> (Replied(j, r) \/ (j = b /\ r = step[0]))
    BY <1>a, <1>r, <1>n DEF Replied
  <1>5. Collecting'
    BY <1>i, <1>a, <1>n DEF Collecting
  <1>6. Gathering'
    BY <1>i, <1>a, <1>r DEF Gathering
  <1>7. Answering'
    <2>1. /\ results'[b] = <<InIdOrder(own[b])>>' /\ pc'[b] = "result"
          /\ \A r \in Reducing : Replied(b, r)' <=> (BackFrom(b, r)' \/ r = step'[b])
      BY <1>a, <1>b, <1>c, <1>p, <1>r, <1>t DEF InIdOrder
    <2>2. ASSUME NEW j \in Ids \ {b}
          PROVE  \/ /\ results'[j] = <<>>
                    /\ j # 0 => (\A r \in Reducing : BackFrom(j, r)' <=> Replied(j, r)')
                 \/ /\ results'[j] = <<InIdOrder(own[j])>>'
                    /\ pc'[j] = "result"
                    /\ \A r \in Reducing : Replied(j, r)' <=> (BackFrom(j, r)' \/ r = step'[j])
      <3>1. \A r \in Reducing : Replied(j, r)' <=> Replied(j, r)
        BY <1>t
      <3> QED
        BY <1>i, <1>a, <1>p, <1>r, <3>1 DEF Answering, InIdOrder
    <2> QED
      BY <2>1, <2>2 DEF Answering
  <1>8. ReduceInOrder'
    BY <1>a DEF Inv, ReduceInOrder, InIdOrder
  <1>9. Joining'
    BY <1>a, JoiningKept DEF Inv, mainVars
  <1> QED
    BY <1>1, <1>2, <1>4, <1>5, <1>6, <1>7, <1>8, <1>9 DEF Inv

LEMMA ReduceReturnsInv ==
    ASSUME Inv, ReduceReturns PROVE Inv'
  <1> USE Sizes, Neighbours
  <1>i. TypeOK /\ Spawning /\ Rounds /\ Links /\ Filled /\ Collecting /\ Gathering /\ Answering
    BY DEF Inv
  <1>a. /\ pc[0] = "combine" /\ Combined /\ bcast = Count
        /\ reduced' = [reduced EXCEPT ![0] = acc] /\ acc' = <<>> /\ bcast' = 1 /\ Goto(0, "step")
        /\ UNCHANGED <<haloVars, partials, results, done, step, own, sub, haloL, haloR, mainVars>>
    BY DEF ReduceReturns, Answered
  <1>2. /\ pc' \in [Ids -> Places] /\ pc'[0] = "step"
        /\ \A j \in Ids \ {0} : pc'[j] = pc[j]
        /\ Spawning'
    BY <1>i, <1>a, Moved DEF Places, mainVars
  <1>c. /\ acc \in Seq(Ids \X Nat) /\ acc = InIdOrder(own[0]) /\ Len(acc) = Count
        /\ \A j \in Ids : j < Count /\ step[j] \in Nat
    <2>1. acc \in Seq(Ids \X Nat) /\ acc = InIdOrder(own[0]) /\ Len(acc) = Count
      BY <1>i, <1>a, CombinedInOrder DEF TypeOK, Combined
    <2>2. \A j \in Ids : step[j] \in Nat
      BY <1>i DEF TypeOK
    <2>3. \A j \in Ids : j < Count
      BY DEF Ids
    <2> QED
      BY <2>1, <2>2, <2>3
  <1>e. \A j \in Ids : InIdOrder(own[j])' = InIdOrder(own[j])
    BY <1>a DEF InIdOrder
  <1>d. /\ reduced' \in [Ids -> Seq(Ids \X Nat)] /\ reduced'[0] = acc
        /\ \A j \in Ids \ {0} : reduced'[j] = reduced[j]
    BY <1>i, <1>a, <1>c DEF TypeOK
  <1>1. TypeOK'
    <2>1. acc' \in Seq(Ids \X Nat) /\ bcast' \in 1..Count
      BY <1>a
    <2> QED
      BY <1>i, <1>a, <1>2, <1>d, <2>1 DEF TypeOK, haloVars, mainVars
  <1>3. Rounds'
    BY <1>i, <1>a, <1>2 DEF Rounds, Exchanging, Reduction
  <1>4. Links' /\ Filled'
    BY <1>i, <1>a, <1>2, HalosKept
  <1>r. /\ \A r \in Reducing : BackFrom(0, r)' <=> (BackFrom(0, r) \/ r = step[0])
        /\ \A j \in Ids \ {0}, r \in Reducing : BackFrom(j, r)' <=> BackFrom(j, r)
        /\ \A j \in Ids, r \in Reducing : Contributed(j, r)' <=> Contributed(j, r)
    BY <1>a, <1>2 DEF BackFrom, Contributed
  <1>t. \A j \in Ids, r \in Reducing : /\ Taken(j, r)' <=> Taken(j, r)
                                       /\ Replied(j, r)' <=> Replied(j, r)
    BY <1>a, <1>2, <1>c, <1>r DEF Taken, Replied
  <1>5. Collecting'
    <2>1. Len(acc') = 0
      BY <1>a
    <2> QED
      BY <1>i, <1>a, <1>2, <2>1 DEF Collecting, Reduction
  <1>6. Gathering'
    <2> SUFFICES ASSUME NEW j \in Ids
        PROVE \/ /\ partials'[j] = <<>>
                 /\ \A r \in Reducing : Contributed(j, r)' <=> Taken(j, r)'
              \/ /\ partials'[j] = <<<<j, own'[j]>>>>
                 /\ pc'[j] \in {"combine", "result"} /\ ~Taken(j, step[j])'
                 /\ \A r \in Reducing : Contributed(j, r)' <=> (Taken(j, r)' \/ r = step'[j])
      BY DEF Gathering
    <2>1. CASE j = 0
      <3>1. Taken(0, step[0])
        BY <1>a, <1>c DEF Taken
      <3>2. partials[0] = <<>> /\ \A r \in Reducing : Contributed(0, r) <=> Taken(0, r)
        BY <1>i, <3>1 DEF Gathering
      <3> QED
        BY <1>a, <1>r, <1>t, <2>1, <3>2
    <2>2. CASE j # 0
      <3>1. pc[j] \in {"combine", "result"} => step[j] \in Reducing
        BY <1>i DEF Collecting, Reduction
      <3> QED
        BY <1>i, <1>a, <1>2, <1>r, <1>t, <2>2, <3>1 DEF Gathering
    <2> QED
      BY <2>1, <2>2
  <1>7. Answering'
    <2> SUFFICES ASSUME NEW j \in Ids
        PROVE \/ /\ results'[j] = <<>>
                 /\ j # 0 => (\A r \in Reducing : BackFrom(j, r)' <=> Replied(j, r)')
              \/ /\ results'[j] = <<InIdOrder(own[j])>>'
                 /\ pc'[j] = "result"
                 /\ \A r \in Reducing : Replied(j, r)' <=> (BackFrom(j, r)' \/ r = step'[j])
      BY DEF Answering
    <2>1. CASE j = 0
      BY <1>i, <1>a, <2>1 DEF Answering
    <2>2. CASE j # 0
      BY <1>i, <1>a, <1>2, <1>r, <1>t, <2>2 DEF Answering, InIdOrder
    <2> QED
      BY <2>1, <2>2
  <1>8. ReduceInOrder'
    <2>1. reduced'[0] = InIdOrder(own[0])
      BY <1>c, <1>d
    <2> QED
      BY <1>a, <1>2, <1>d, <1>e, <2>1 DEF Inv, ReduceInOrder
  <1>9. Joining'
    BY <1>a, <1>2, JoiningKept DEF Inv, mainVars
  <1> QED
    BY <1>1, <1>2, <1>3, <1>4, <1>5, <1>6, <1>7, <1>8, <1>9 DEF Inv

LEMMA RecvResultInv ==
    ASSUME Inv, NEW i \in Ids, RecvResult(i) PROVE Inv'
  <1> USE Sizes, Neighbours
  <1>i. TypeOK /\ Spawning /\ Rounds /\ Links /\ Filled /\ Collecting /\ Gathering /\ Answering
    BY DEF Inv
  <1>a. /\ pc[i] = "result" /\ HasValue(results[i]) /\ Goto(i, "step")
        /\ reduced' = [reduced EXCEPT ![i] = Head(results[i])]
        /\ results' = [results EXCEPT ![i] = Tail(@)]
        /\ UNCHANGED <<haloVars, partials, acc, bcast, done, step, own, sub, haloL, haloR,
                       mainVars>>
    BY DEF RecvResult
  <1>2. /\ pc' \in [Ids -> Places] /\ pc'[i] = "step"
        /\ \A j \in Ids \ {i} : pc'[j] = pc[j]
        /\ Spawning'
    BY <1>i, <1>a, Moved DEF Places, mainVars
  <1>c. /\ results[i] = <<InIdOrder(own[i])>>
        /\ \A r \in Reducing : Replied(i, r) <=> (BackFrom(i, r) \/ r = step[i])
    BY <1>i, <1>a DEF Answering, HasValue
  <1>s. i # 0 /\ step[i] \in Reducing
    BY <1>i, <1>a DEF Collecting, Reduction
  <1>e. \A j \in Ids : InIdOrder(own[j])' = InIdOrder(own[j])
    BY <1>a DEF InIdOrder
  <1>p. /\ results' \in [Ids -> Seq(Seq(Ids \X Nat))] /\ \A j \in Ids : Len(results'[j]) <= 1
        /\ Head(results[i]) \in Seq(Ids \X Nat)
        /\ results'[i] = <<>> /\ \A j \in Ids \ {i} : results'[j] = results[j]
    <2>1. results \in [Ids -> Seq(Seq(Ids \X Nat))] /\ \A j \in Ids : Len(results[j]) <= 1
      BY <1>i DEF TypeOK
    <2>2. /\ results' \in [Ids -> Seq(Seq(Ids \X Nat))] /\ \A j \in Ids : Len(results'[j]) <= 1
          /\ Head(results[i]) \in Seq(Ids \X Nat)
      <3>1. HasValue(results[i]) /\ results' = [results EXCEPT ![i] = Tail(@)]
        BY <1>a
      <3> QED
        BY <2>1, <3>1, Took
    <2>3. Tail(results[i]) = <<>>
      BY <1>c
    <2> QED
      BY <1>a, <2>1, <2>2, <2>3
  <1>d. /\ reduced' \in [Ids -> Seq(Ids \X Nat)] /\ reduced'[i] = InIdOrder(own[i])
        /\ \A j \in Ids \ {i} : reduced'[j] = reduced[j]
    BY <1>i, <1>a, <1>c, <1>p DEF TypeOK
  <1>1. TypeOK'
    BY <1>i, <1>a, <1>2, <1>p, <1>d DEF TypeOK, haloVars, mainVars
  <1>3. Rounds'
    BY <1>i, <1>a, <1>2 DEF Rounds, Exchanging, Reduction
  <1>4. Links' /\ Filled'
    BY <1>i, <1>a, <1>2, HalosKept
  <1>r. /\ \A j \in Ids, r \in Reducing :
             /\ BackFrom(j, r)' <=> (BackFrom(j, r) \/ (j = i /\ r = step[i]))
             /\ Contributed(j, r)' <=> Contributed(j, r)
    BY <1>a, <1>2 DEF BackFrom, Contributed
  <1>t. \A j \in Ids, r \in Reducing : /\ Taken(j, r)' <=> Taken(j, r)
                                       /\ Replied(j, r)' <=> Replied(j, r)
    BY <1>a, <1>2, <1>s, <1>r DEF Taken, Replied
  <1>5. Collecting'
    BY <1>i, <1>a, <1>2, <1>s DEF Collecting, Reduction
  <1>6. Gathering'
    <2> SUFFICES ASSUME NEW j \in Ids
        PROVE \/ /\ partials'[j] = <<>>
                 /\ \A r \in Reducing : Contributed(j, r)' <=> Taken(j, r)'
              \/ /\ partials'[j] = <<<<j, own'[j]>>>>
                 /\ pc'[j] \in {"combine", "result"} /\ ~Taken(j, step[j])'
                 /\ \A r \in Reducing : Contributed(j, r)' <=> (Taken(j, r)' \/ r = step'[j])
      BY DEF Gathering
    <2>1. CASE j = i
      <3>1. Taken(i, step[i])
        BY <1>i, <1>c, <1>s, TakenBeforeReply
      <3>2. partials[i] = <<>> /\ \A r \in Reducing : Contributed(i, r) <=> Taken(i, r)
        BY <1>i, <3>1 DEF Gathering
      <3> QED
        BY <1>a, <1>r, <1>t, <2>1, <3>2
    <2>2. CASE j # i
      <3>1. pc[j] \in {"combine", "result"} => step[j] \in Reducing
        BY <1>i DEF Collecting, Reduction
      <3> QED
        BY <1>i, <1>a, <1>2, <1>r, <1>t, <2>2, <3>1 DEF Gathering
    <2> QED
      BY <2>1, <2>2
  <1>7. Answering'
    <2> SUFFICES ASSUME NEW j \in Ids
        PROVE \/ /\ results'[j] = <<>>
                 /\ j # 0 => (\A r \in Reducing : BackFrom(j, r)' <=> Replied(j, r)')
              \/ /\ results'[j] = <<InIdOrder(own[j])>>'
                 /\ pc'[j] = "result"
                 /\ \A r \in Reducing : Replied(j, r)' <=> (BackFrom(j, r)' \/ r = step'[j])
      BY DEF Answering
    <2>1. CASE j = i
      BY <1>c, <1>p, <1>r, <1>t, <2>1
    <2>2. CASE j # i
      <3>1. \A r \in Reducing : BackFrom(j, r)' <=> BackFrom(j, r)
        BY <1>r, <2>2
      <3> QED
        BY <1>i, <1>a, <1>2, <1>e, <1>p, <1>t, <2>2, <3>1 DEF Answering
    <2> QED
      BY <2>1, <2>2
  <1>8. ReduceInOrder'
    <2>1. reduced'[i] = InIdOrder(own[i])
      BY <1>c, <1>d
    <2> QED
      BY <1>a, <1>2, <1>d, <1>e, <2>1 DEF Inv, ReduceInOrder
  <1>9. Joining'
    BY <1>a, <1>2, JoiningKept DEF Inv, mainVars
  <1> QED
    BY <1>1, <1>2, <1>3, <1>4, <1>5, <1>6, <1>7, <1>8, <1>9 DEF Inv

-----------------------------------------------------------------------------
(* The theorems.                                                           *)
LEMMA InitInv == ASSUME Init PROVE Inv
  <1> USE Sizes, Neighbours
  <1>1. TypeOK
    BY DEF Init, TypeOK, Places, Halos
  <1>2. Spawning /\ Rounds /\ Filled
    BY DEF Init, Spawning, Rounds, Filled, Exchanging, Reduction, Ids
  <1>3. Links
    BY DEF Init, Links, Linked, ToSendR, ToSendL, ToRecvL, ToRecvR, NextCell, Cell
  <1>4. Collecting /\ ReduceInOrder
    BY DEF Init, Collecting, Reduction, ReduceInOrder
  <1>r. \A i \in Ids, r \in Reducing :
          ~BackFrom(i, r) /\ ~Contributed(i, r) /\ ~Taken(i, r) /\ ~Replied(i, r)
    BY DEF Init, BackFrom, Contributed, Taken, Replied
  <1>5. Gathering /\ Answering
    BY <1>r DEF Init, Gathering, Answering
  <1>6. Joining
    <2>1. Finished = {}
      BY DEF Init, Finished
    <2> QED
      BY <2>1, FS_EmptySet DEF Init, Joining
  <1> QED
    BY <1>1, <1>2, <1>3, <1>4, <1>5, <1>6 DEF Inv

LEMMA StutterInv == ASSUME Inv, UNCHANGED vars PROVE Inv'
  <1>a. UNCHANGED <<haloVars, collVars, done, pc, step, own, sub, haloL, haloR, mainVars>>
    BY DEF vars
  <1>i. TypeOK /\ Spawning /\ Rounds /\ Links /\ Filled
    BY DEF Inv
  <1>1. TypeOK'
    BY <1>i, <1>a DEF TypeOK, haloVars, collVars, mainVars
  <1>2. Spawning' /\ Rounds'
    BY <1>i, <1>a DEF Spawning, Rounds, mainVars
  <1>3. Links' /\ Filled'
    BY <1>i, <1>a, HalosKept
  <1>4. Collecting' /\ ReduceInOrder'
    BY <1>a DEF Inv, Collecting, ReduceInOrder, InIdOrder, collVars
  <1>r. \A j, r : /\ BackFrom(j, r)' <=> BackFrom(j, r)
                  /\ Contributed(j, r)' <=> Contributed(j, r)
                  /\ Taken(j, r)' <=> Taken(j, r)
                  /\ Replied(j, r)' <=> Replied(j, r)
    BY <1>a DEF BackFrom, Contributed, Taken, Replied, collVars
  <1>5. Gathering'
    BY <1>a, <1>r DEF Inv, Gathering, collVars
  <1>6. Answering'
    BY <1>a, <1>r DEF Inv, Answering, InIdOrder, collVars
  <1>7. Joining'
    BY <1>a, JoiningKept DEF Inv, mainVars
  <1> QED
    BY <1>1, <1>2, <1>3, <1>4, <1>5, <1>6, <1>7 DEF Inv

LEMMA Invariance == Spec => []Inv
  <1>1. ASSUME Inv, [Next]_vars PROVE Inv'
    <2>1. ASSUME NEW i \in Ids, Lane(i) PROVE Inv'
      BY <1>1, <2>1, StartInv, PublishRightInv, PublishLeftInv, HaloLeftInv, HaloRightInv,
         ComputeInv, SendPartialInv, RecvResultInv, StepInv, FinishInv DEF Lane
    <2>2. CASE Combiner
      BY <1>1, <2>2, CombineInv, BroadcastInv, ReduceReturnsInv DEF Combiner
    <2>3. CASE Main
      BY <1>1, <2>3, SpawnInv, JoinInv DEF Main
    <2>4. CASE UNCHANGED vars
      BY <1>1, <2>4, StutterInv
    <2> QED
      BY <1>1, <2>1, <2>2, <2>3, <2>4 DEF Next
  <1> QED
    BY <1>1, InitInv, PTL DEF Spec

(* The channels of lanes.Run never hold more than the capacity they are    *)
(* made with, and no lane computes more rounds than Run was asked for.     *)
THEOREM LanesTypeCorrect == Spec => []TypeOK
  <1>1. Inv => TypeOK
    BY DEF Inv
  <1> QED
    BY <1>1, Invariance, PTL

(* Ctx.Publish, HaloLeft and HaloRight hand a lane, in every round, its    *)
(* neighbours' boundary cells of that very round, for any number of lanes, *)
(* any radius and any relative speed, with no barrier between rounds.      *)
THEOREM HalosCurrent == Spec => []HaloCurrent
  <1>1. ASSUME Inv PROVE HaloCurrent
    <2> SUFFICES ASSUME NEW i \in Ids, pc[i] = "compute"
        PROVE  /\ ~edgeL(i) => haloL[i] = FreshHalo(own[i])
               /\ ~edgeR(i) => haloR[i] = FreshHalo(own[i])
      BY DEF HaloCurrent
    <2>1. haloL[i] \in Halos /\ haloR[i] \in Halos
      BY <1>1 DEF Inv, TypeOK
    <2>2. \A k \in 0..(Radius - 1) : /\ ~edgeL(i) => haloL[i][k] = <<own[i], k>>
                                     /\ ~edgeR(i) => haloR[i][k] = <<own[i], k>>
      BY <1>1 DEF Inv, Filled
    <2> QED
      BY <2>1, <2>2 DEF FreshHalo, Halos
  <1> QED
    BY <1>1, Invariance, PTL

(* allReduce returns to every lane the values all lanes computed in this   *)
(* round, combined in the order of their ids.                              *)
THEOREM ReductionInOrder == Spec => []ReduceInOrder
  <1>1. Inv => ReduceInOrder
    BY DEF Inv
  <1> QED
    BY <1>1, Invariance, PTL

(* No lane ever waits to send on a channel of the collective, although     *)
(* each holds one value and rounds follow each other without a barrier     *)
(* between them.                                                           *)
LEMMA CollectiveFreeHere == ASSUME Inv PROVE CollectiveSendsFree
  <1>1. ASSUME NEW i \in Ids, pc[i] = "partial" PROVE HasRoom(partials[i])
    <2>1. partials[i] = <<>>
      BY <1>1 DEF Inv, Gathering
    <2> QED
      BY <2>1 DEF HasRoom
  <1>2. ASSUME pc[0] = "combine", bcast < Count, Combined PROVE HasRoom(results[bcast])
    <2>1. PICK b \in Ids : b = bcast
      BY <1>2, Sizes DEF Inv, TypeOK, Ids
    <2>2. results[b] = <<>>
      BY <1>2, <2>1, AwaitsAnswer
    <2> QED
      BY <2>1, <2>2 DEF HasRoom
  <1> QED
    BY <1>1, <1>2 DEF CollectiveSendsFree

THEOREM CollectiveNeverBlocks == Spec => []CollectiveSendsFree
  BY CollectiveFreeHere, Invariance, PTL

(* When runCore has taken a value from `done` for every lane, every lane   *)
(* has been through all of its rounds, and no channel holds anything.      *)
THEOREM RunReturnsFinished == Spec => []ReturnsFinished
  <1>1. ASSUME Inv, Returned PROVE ReturnsFinished
    <2> USE Sizes, Neighbours
    <2>1. Finished = Ids
      <3>1. joined \in 0..Count /\ Len(done) \in Nat
        BY <1>1 DEF Inv, TypeOK
      <3>2. Cardinality(Finished) = Count + Len(done)
        BY <1>1, <3>1 DEF Inv, Joining, Returned, StillJoining
      <3>3. Finished \in SUBSET Ids
        BY DEF Finished
      <3>4. Cardinality(Finished) <= Count /\ (Cardinality(Finished) = Count => Finished = Ids)
        BY <3>3, FiniteIds, FS_Subset
      <3> QED
        BY <3>1, <3>2, <3>4
    <2>2. \A i \in Ids : pc[i] = "exited"
      BY <2>1 DEF Finished
    <2>3. \A i \in Ids : own[i] = RoundCount /\ sub[i] = 0
      BY <1>1, <2>2 DEF Inv, Rounds, Exchanging
    <2>4. ASSUME NEW p \in Pairs PROVE rightward[p] = <<>> /\ leftward[p] = <<>>
      <3>1. \A i \in Ids : /\ ToSendR(i) = <<RoundCount, 0>> /\ ToSendL(i) = <<RoundCount, 0>>
                           /\ ToRecvL(i) = <<RoundCount, 0>> /\ ToRecvR(i) = <<RoundCount, 0>>
        BY <2>2, <2>3 DEF ToSendR, ToSendL, ToRecvL, ToRecvR, NextCell, Cell
      <3>2. Succ(<<RoundCount, 0>>) # <<RoundCount, 0>>
        BY DEF Succ
      <3> QED
        BY <1>1, <3>1, <3>2 DEF Inv, Links, Linked
    <2>5. \A i \in Ids : partials[i] = <<>> /\ results[i] = <<>>
      BY <1>1, <2>2 DEF Inv, Gathering, Answering
    <2> QED
      BY <2>2, <2>3, <2>4, <2>5 DEF ReturnsFinished
  <1>2. Inv => ReturnsFinished
    BY <1>1 DEF ReturnsFinished
  <1> QED
    BY <1>2, Invariance, PTL
=============================================================================
