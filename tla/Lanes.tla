------------------------------- MODULE Lanes -------------------------------
(***************************************************************************)
(* lanes.Run (src/goostd/lanes/lanes.go): one goroutine per tile of an     *)
(* array, in rounds.  A round exchanges Radius boundary cells with each    *)
(* neighbour over channels of capacity one, computes the new tile, and may *)
(* end in an allReduce, in which lane 0 gathers a value of every lane and  *)
(* hands the combination out.                                              *)
(*                                                                         *)
(* A cell is represented by the number of times its tile has been computed *)
(* and its distance from the edge of the tile; whose cell it is, the       *)
(* channel says.  Channels are the bounded FIFO queues of ChanSpec, which  *)
(* Channel implements, and a goroutine holds its worker from its first     *)
(* step to its last, waiting included (see Scheduler).                     *)
(*                                                                         *)
(* An operator marked as a mutant is a wrong version of the definition     *)
(* after it; no action uses one.                                           *)
(***************************************************************************)
EXTENDS Integers, Sequences, FiniteSets

CONSTANTS
    Count,          \* number of lanes
    Steps,          \* the steps argument of Run
    Radius,         \* cells exchanged per side and round
    Workers,        \* OS threads of the scheduler
    Reducing        \* the rounds in which the body calls AllReduce

\* The rounds that run: Step is asked after a round, so there is always one,
\* also when Steps is 0 (docs/lanes.md:282).
RoundCount == IF Steps = 0 THEN 1 ELSE Steps

ASSUME LanesAssumption ==
    /\ Count \in Nat \ {0} /\ Steps \in Nat /\ Radius \in Nat \ {0}
    /\ Workers \in Nat \ {0}
    /\ Reducing \subseteq 0..(RoundCount - 1)

Ids == 0..(Count - 1)

Pairs == 0..(Count - 2)

Cells == Nat \X (0..(Radius - 1))

\* The Dirichlet value beyond the first and the last lane.
Boundary == <<-1, -1>>

VARIABLES
    rightward, leftward,    \* pair -> its two halo channels
    partials, results,      \* lane -> its two collective channels
    done,                   \* the channel main joins on
    ready_queue,            \* lanes that are spawned and have no worker yet
    pc,                     \* lane -> where it is in the body
    step,                   \* lane -> ctx.step
    own,                    \* lane -> how often its tile has been computed
    sub,                    \* lane -> the sub-exchange it is in
    haloL, haloR,           \* lane -> haloBufL, haloBufR
    acc, bcast,             \* lane 0: partials in combining order; next lane to answer
    reduced,                \* lane -> the last value AllReduce returned to it
    spawned, joined         \* main: goroutines started, values taken from done

haloVars == <<rightward, leftward>>
collVars == <<partials, results, acc, bcast, reduced>>
mainVars == <<ready_queue, spawned, joined>>
vars == <<haloVars, collVars, done, pc, step, own, sub, haloL, haloR, mainVars>>

\* runCore up to its spawning loop.
Init ==
    /\ rightward = [p \in Pairs |-> <<>>] /\ leftward = [p \in Pairs |-> <<>>]
    /\ partials = [i \in Ids |-> <<>>] /\ results = [i \in Ids |-> <<>>]
    /\ done = <<>>
    /\ ready_queue = <<>>
    /\ pc = [i \in Ids |-> "unborn"]
    /\ step = [i \in Ids |-> 0] /\ own = [i \in Ids |-> 0] /\ sub = [i \in Ids |-> 0]
    /\ haloL = [i \in Ids |-> [k \in 0..(Radius - 1) |-> Boundary]]
    /\ haloR = [i \in Ids |-> [k \in 0..(Radius - 1) |-> Boundary]]
    /\ acc = <<>> /\ bcast = 1
    /\ reduced = [i \in Ids |-> <<>>]
    /\ spawned = 0 /\ joined = 0

edgeL(i) == i = 0

edgeR(i) == i = Count - 1

\* A channel made with capacity 1 takes a value.
HasRoom(ch) == Len(ch) < 1

HasValue(ch) == ch # <<>>

Goto(i, place) == pc' = [pc EXCEPT ![i] = place]

-----------------------------------------------------------------------------
(* main, and the scheduler *)

Spawn ==
    /\ spawned < Count
    /\ ready_queue' = <<spawned>> \o ready_queue
    /\ Goto(spawned, "queued")
    /\ spawned' = spawned + 1
    /\ UNCHANGED <<haloVars, collVars, done, step, own, sub, haloL, haloR, joined>>

\* The lanes that hold a worker.
OnWorker == {i \in Ids : pc[i] \notin {"unborn", "queued", "exited"}}

\* A free worker takes the head of the queue.
Start(i) ==
    /\ ready_queue # <<>> /\ i = Head(ready_queue)
    /\ Cardinality(OnWorker) < Workers
    /\ ready_queue' = Tail(ready_queue)
    /\ Goto(i, "sendR")
    /\ UNCHANGED <<haloVars, collVars, done, step, own, sub, haloL, haloR, spawned, joined>>

\* Mutant: main joins all lanes but one.
AllButOne == joined < Count - 1

\* Mutant: main waits for one lane more than there are.
OneTooMany == joined <= Count

StillJoining == joined < Count

Join ==
    /\ spawned = Count /\ StillJoining /\ HasValue(done)
    /\ done' = Tail(done)
    /\ joined' = joined + 1
    /\ UNCHANGED <<haloVars, collVars, pc, step, own, sub, haloL, haloR, ready_queue, spawned>>

-----------------------------------------------------------------------------
(* One sub-exchange: Publish, HaloLeft, HaloRight *)

Cell(i) == <<own[i], sub[i]>>

PublishRight(i) ==
    /\ pc[i] = "sendR"
    /\ \/ edgeR(i) /\ UNCHANGED rightward
       \/ /\ ~edgeR(i) /\ HasRoom(rightward[i])
          /\ rightward' = [rightward EXCEPT ![i] = Append(@, Cell(i))]
    /\ Goto(i, "sendL")
    /\ UNCHANGED <<leftward, collVars, done, step, own, sub, haloL, haloR, mainVars>>

PublishLeft(i) ==
    /\ pc[i] = "sendL"
    /\ \/ edgeL(i) /\ UNCHANGED leftward
       \/ /\ ~edgeL(i) /\ HasRoom(leftward[i - 1])
          /\ leftward' = [leftward EXCEPT ![i - 1] = Append(@, Cell(i))]
    /\ Goto(i, "recvL")
    /\ UNCHANGED <<rightward, collVars, done, step, own, sub, haloL, haloR, mainVars>>

HaloLeft(i) ==
    /\ pc[i] = "recvL"
    /\ \/ /\ edgeL(i)
          /\ haloL' = [haloL EXCEPT ![i][sub[i]] = Boundary]
          /\ UNCHANGED rightward
       \/ /\ ~edgeL(i) /\ HasValue(rightward[i - 1])
          /\ haloL' = [haloL EXCEPT ![i][sub[i]] = Head(rightward[i - 1])]
          /\ rightward' = [rightward EXCEPT ![i - 1] = Tail(@)]
    /\ Goto(i, "recvR")
    /\ UNCHANGED <<leftward, collVars, done, step, own, sub, haloR, mainVars>>

\* Mutant: the last sub-exchange is left out.
LastButOne(i) == sub[i] + 2 >= Radius

Exchanged(i) == sub[i] + 1 = Radius

\* The receive from the right ends the sub-exchange.
HaloRight(i) ==
    /\ pc[i] = "recvR"
    /\ \/ /\ edgeR(i)
          /\ haloR' = [haloR EXCEPT ![i][sub[i]] = Boundary]
          /\ UNCHANGED leftward
       \/ /\ ~edgeR(i) /\ HasValue(leftward[i])
          /\ haloR' = [haloR EXCEPT ![i][sub[i]] = Head(leftward[i])]
          /\ leftward' = [leftward EXCEPT ![i] = Tail(@)]
    /\ IF Exchanged(i)
       THEN Goto(i, "compute") /\ sub' = [sub EXCEPT ![i] = 0]
       ELSE Goto(i, "sendR") /\ sub' = [sub EXCEPT ![i] = @ + 1]
    /\ UNCHANGED <<rightward, collVars, done, step, own, haloL, mainVars>>

-----------------------------------------------------------------------------
(* The kernel and the collective *)

\* The sweep into scratch and the copy back into own.
Compute(i) ==
    /\ pc[i] = "compute"
    /\ own' = [own EXCEPT ![i] = @ + 1]
    /\ Goto(i, IF step[i] \in Reducing THEN "partial" ELSE "step")
    /\ UNCHANGED <<haloVars, collVars, done, step, sub, haloL, haloR, mainVars>>

\* allReduce: every lane sends its contribution ...
SendPartial(i) ==
    /\ pc[i] = "partial" /\ HasRoom(partials[i])
    /\ partials' = [partials EXCEPT ![i] = Append(@, <<i, own[i]>>)]
    /\ Goto(i, IF i = 0 THEN "combine" ELSE "result")
    /\ UNCHANGED <<haloVars, results, acc, bcast, reduced, done, step, own, sub, haloL, haloR, mainVars>>

\* Mutant: partials are combined as they arrive.
Arrived == {i \in Ids : HasValue(partials[i]) /\ \A k \in 1..Len(acc) : acc[k][1] # i}

\* The lane whose partial lane 0 takes next: the lowest id not yet combined.
NextPartial == {Len(acc)} \cap Ids

\* Mutant: the partial is read but stays in its channel.
Peeked(i) == partials[i]

WithoutFirst(i) == Tail(partials[i])

\* ... lane 0 takes them in the order of the lanes' ids ...
Combine ==
    /\ pc[0] = "combine" /\ Len(acc) < Count
    /\ \E i \in NextPartial :
        /\ HasValue(partials[i])
        /\ acc' = Append(acc, Head(partials[i]))
        /\ partials' = [partials EXCEPT ![i] = WithoutFirst(i)]
    /\ UNCHANGED <<haloVars, results, bcast, reduced, done, pc, step, own, sub, haloL, haloR, mainVars>>

Combined == Len(acc) = Count

\* ... hands the combination to the others, one after the other ...
Broadcast ==
    /\ pc[0] = "combine" /\ Combined
    /\ bcast < Count /\ HasRoom(results[bcast])
    /\ results' = [results EXCEPT ![bcast] = Append(@, acc)]
    /\ bcast' = bcast + 1
    /\ UNCHANGED <<haloVars, partials, acc, reduced, done, pc, step, own, sub, haloL, haloR,
                   mainVars>>

\* Mutant: the last lane gets no answer.
AnsweredAlmostAll == bcast >= Count - 1

Answered == bcast = Count

\* ... and returns it,
ReduceReturns ==
    /\ pc[0] = "combine" /\ Combined /\ Answered
    /\ reduced' = [reduced EXCEPT ![0] = acc]
    /\ acc' = <<>> /\ bcast' = 1
    /\ Goto(0, "step")
    /\ UNCHANGED <<haloVars, partials, results, done, step, own, sub, haloL, haloR, mainVars>>

\* as does every other lane when its copy arrives.
RecvResult(i) ==
    /\ pc[i] = "result" /\ HasValue(results[i])
    /\ reduced' = [reduced EXCEPT ![i] = Head(results[i])]
    /\ results' = [results EXCEPT ![i] = Tail(@)]
    /\ Goto(i, "step")
    /\ UNCHANGED <<haloVars, partials, acc, bcast, done, step, own, sub, haloL, haloR, mainVars>>

-----------------------------------------------------------------------------
AnotherRound(i) == step[i] + 1 < Steps

\* Step, and the loop of the body around it.
Step(i) ==
    /\ pc[i] = "step"
    /\ step' = [step EXCEPT ![i] = @ + 1]
    /\ Goto(i, IF AnotherRound(i) THEN "sendR" ELSE "done")
    /\ UNCHANGED <<haloVars, collVars, done, own, sub, haloL, haloR, mainVars>>

\* The body has returned: tell main, and give the worker back.
Finish(i) ==
    /\ pc[i] = "done" /\ Len(done) < Count
    /\ done' = Append(done, i)
    /\ Goto(i, "exited")
    /\ UNCHANGED <<haloVars, collVars, step, own, sub, haloL, haloR, mainVars>>

\* runCore has returned.
Returned == spawned = Count /\ ~StillJoining

Lane(i) ==
    \/ Start(i)
    \/ PublishRight(i) \/ PublishLeft(i) \/ HaloLeft(i) \/ HaloRight(i)
    \/ Compute(i)
    \/ SendPartial(i) \/ RecvResult(i)
    \/ Step(i) \/ Finish(i)

Combiner == Combine \/ Broadcast \/ ReduceReturns

Main == Spawn \/ Join

Next == (\E i \in Ids : Lane(i)) \/ Combiner \/ Main

Spec == Init /\ [][Next]_vars

\* Workers and the main thread are OS threads that run whenever they can.
FairSpec ==
    /\ Spec
    /\ \A i \in Ids : WF_vars(Lane(i))
    /\ WF_vars(Combiner) /\ WF_vars(Main)

-----------------------------------------------------------------------------
(* Properties *)

Places == {"unborn", "queued", "sendR", "sendL", "recvL", "recvR", "compute", "partial",
           "combine", "result", "step", "done", "exited"}

Halos == [0..(Radius - 1) -> Cells \cup {Boundary}]

\* Channels hold at most what their capacity allows, and no lane computes more
\* than the rounds there are.
TypeOK ==
    /\ rightward \in [Pairs -> Seq(Cells)] /\ leftward \in [Pairs -> Seq(Cells)]
    /\ partials \in [Ids -> Seq(Ids \X Nat)] /\ results \in [Ids -> Seq(Seq(Ids \X Nat))]
    /\ \A p \in Pairs : Len(rightward[p]) <= 1 /\ Len(leftward[p]) <= 1
    /\ \A i \in Ids : Len(partials[i]) <= 1 /\ Len(results[i]) <= 1
    /\ done \in Seq(Ids) /\ ready_queue \in Seq(Ids)
    /\ pc \in [Ids -> Places]
    /\ step \in [Ids -> 0..RoundCount] /\ own \in [Ids -> 0..RoundCount]
    /\ sub \in [Ids -> 0..(Radius - 1)]
    /\ haloL \in [Ids -> Halos] /\ haloR \in [Ids -> Halos]
    /\ acc \in Seq(Ids \X Nat) /\ bcast \in 1..Count
    /\ reduced \in [Ids -> Seq(Ids \X Nat)]
    /\ spawned \in 0..Count /\ joined \in 0..Count

\* The halo a lane at round n must see on a side that has a neighbour: that
\* neighbour's cells after n computations, each in its own place.
FreshHalo(n) == [k \in 0..(Radius - 1) |-> <<n, k>>]

\* When a lane computes, its halos are its neighbours' cells of this very
\* round, none from the round before or after and none out of place, however
\* far ahead or behind a neighbour runs.
HaloCurrent ==
    \A i \in Ids : pc[i] = "compute" =>
        /\ ~edgeL(i) => haloL[i] = FreshHalo(own[i])
        /\ ~edgeR(i) => haloR[i] = FreshHalo(own[i])

\* The combination of a round: every lane's value of that round, in id order.
InIdOrder(n) == [k \in 1..Count |-> <<k - 1, n>>]

\* AllReduce returns the same to every lane, combined "in FIXED lane-ID order"
\* (lanes.go:354-363), never mixing two rounds; and it "is also a barrier"
\* (lanes.go:364), since the value holds what every lane computed this round.
ReduceInOrder ==
    \A i \in Ids : pc[i] = "step" /\ step[i] \in Reducing => reduced[i] = InIdOrder(own[i])

\* "no send ever blocks" in a collective (lanes.go:365-369): its channels are
\* empty whenever a lane is about to send on them.
CollectiveSendsFree ==
    /\ \A i \in Ids : pc[i] = "partial" => HasRoom(partials[i])
    /\ pc[0] = "combine" /\ bcast < Count /\ Combined => HasRoom(results[bcast])

\* Run returns the array only when every lane has done all of its rounds, and
\* leaves no cell or partial behind in a channel.
ReturnsFinished ==
    Returned =>
        /\ \A i \in Ids : pc[i] = "exited" /\ own[i] = RoundCount
        /\ \A p \in Pairs : rightward[p] = <<>> /\ leftward[p] = <<>>
        /\ \A i \in Ids : partials[i] = <<>> /\ results[i] = <<>>

\* Lane i has no step to make: it is not running, its neighbour has not taken
\* its last cell or not sent the one it needs, a partial or the combination is
\* missing.  Lanes at "compute" and "step" always have one.
LaneWaits(i) ==
    \/ pc[i] \in {"unborn", "exited"}
    \/ /\ pc[i] = "queued"
       /\ ready_queue = <<>> \/ i # Head(ready_queue) \/ Cardinality(OnWorker) >= Workers
    \/ pc[i] = "sendR" /\ ~edgeR(i) /\ ~HasRoom(rightward[i])
    \/ pc[i] = "sendL" /\ ~edgeL(i) /\ ~HasRoom(leftward[i - 1])
    \/ pc[i] = "recvL" /\ ~edgeL(i) /\ ~HasValue(rightward[i - 1])
    \/ pc[i] = "recvR" /\ ~edgeR(i) /\ ~HasValue(leftward[i])
    \/ pc[i] = "partial" /\ ~HasRoom(partials[i])
    \/ pc[i] = "combine" /\ ~Combined /\ (\A j \in NextPartial : ~HasValue(partials[j]))
    \/ pc[i] = "combine" /\ Combined /\ ~Answered /\ ~HasRoom(results[bcast])
    \/ pc[i] = "result" /\ ~HasValue(results[i])
    \/ pc[i] = "done" /\ Len(done) >= Count

MainWaits == spawned = Count /\ (StillJoining => ~HasValue(done))

\* Nobody has a step to make.
Stuck == MainWaits /\ \A i \in Ids : LaneWaits(i)

\* Given a worker for every lane, lanes and main never all wait for each other
\* (lanes.go:281-291, 365-369): when nobody has a step to make, Run has returned.
NeverStuck == Workers >= Count /\ Stuck => Returned

\* "all lanes complete step s given step s-1 complete ... for any count and
\* independent of scheduler-thread count" (docs/lanes.md:225-227).
RunReturns == <>Returned
=============================================================================
