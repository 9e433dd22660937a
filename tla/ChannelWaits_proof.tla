-------------------------- MODULE ChannelWaits_proof --------------------------
(***************************************************************************)
(* A program with as many receives as sends, no thread doing both, never   *)
(* comes to a halt and is never reported as deadlocked: a proof for every  *)
(* capacity, every finite set of goroutines and every such program.        *)
(*                                                                         *)
(* BalancedInv adds to the invariant of Channel_proof how many calls have  *)
(* been made: the sends that have returned, the values taken and those     *)
(* accepted are counted against the threads' places in their programs.  If *)
(* nobody has a step to make, a waiting sender means a value in the        *)
(* channel and a waiting receiver means none, so only one kind waits.  The *)
(* calls of the other kind have all been made, and as there are as many of *)
(* either kind, there is no call left to wait in.                          *)
(***************************************************************************)
EXTENDS Channel_proof

(* The calls of the given kinds that have returned.                        *)
Done(ops) == {x \in Calls(ops) : x[2] < ip[x[1]]}

(* The sends whose value the channel has accepted.                         *)
Handing == {t \in Threads : pc[t] = "send_taken"}
Accepted == returned \cup {Value(t) : t \in Handing}

(* A thread waits in the call it has come to, and exits after its last.    *)
AtCall(t) ==
    /\ ip[t] >= 1
    /\ pc[t] \notin {"nil_block", "panicked"}
    /\ pc[t] = "exited" => ip[t] > Len(prog[t])
    /\ pc[t] \in SenderPlaces => Op(t) = "send"
    /\ pc[t] = "recv_wait" => Op(t) = "recv"

(* An abort found main polling, or about to wait with nobody else left.    *)
AbortOK ==
    outcome = "deadlock" =>
        \/ pc[Main] = "run" /\ Op(Main) = "wait" /\ num_goroutines > 0
        \/ /\ pc[Main] \in Parking /\ num_goroutines = 0
           /\ (pc[Main] = "recv_wait" <=> Available = 0)

BalancedInv ==
    /\ ~closed
    /\ \A t \in Threads : AtCall(t)
    /\ pc[Main] = "exited" => outcome = "exit"
    /\ returned = Done(SendOps)
    /\ Len(rcvd) = Cardinality(Done(RecvOps))
    /\ Len(sent) = Cardinality(Accepted)
    /\ AbortOK

-----------------------------------------------------------------------------
(* Calls *)

LEMMA CallsAre ==
    ASSUME NEW ops
    PROVE  \A x : x \in Calls(ops) <=>
               \E t \in Threads : \E i \in 1..Len(prog[t]) : prog[t][i] \in ops /\ x = <<t, i>>
  BY DEF Calls

LEMMA ProgType ==
    ASSUME TypeOK, NEW t \in Threads
    PROVE  prog[t] \in Seq(Ops) /\ Len(prog[t]) \in Nat /\ ip[t] \in Nat
  BY ConstantsAssumption DEF TypeOK, ThreadTypeOK

(* A program has finitely many calls.                                      *)
LEMMA CallsFinite ==
    ASSUME TypeOK, NEW ops
    PROVE  IsFiniteSet(Calls(ops)) /\ Cardinality(Calls(ops)) \in Nat
  <1> DEFINE J(t) == {j \in 1..Len(prog[t]) : prog[t][j] \in ops}
             C(t) == {<<t, i>> : i \in J(t)}
  <1>1. ASSUME NEW t \in Threads PROVE IsFiniteSet(C(t))
    <2>1. IsFiniteSet(J(t))
      <3>1. IsFiniteSet(1..Len(prog[t]))
        BY ProgType, FS_Interval
      <3> QED
        BY <3>1, FS_Subset
    <2>2. [i \in J(t) |-> <<t, i>>] \in Surjection(J(t), C(t))
      BY DEF Surjection
    <2> QED
      BY <2>1, <2>2, FS_Surjection
  <1>2. IsFiniteSet({C(t) : t \in Threads})
    <2>1. [t \in Threads |-> C(t)] \in Surjection(Threads, {C(t) : t \in Threads})
      BY DEF Surjection
    <2> QED
      BY <2>1, ThreadsFinite, FS_Surjection
  <1>3. IsFiniteSet(UNION {C(t) : t \in Threads})
    BY <1>1, <1>2, FS_UNION
  <1>4. Calls(ops) = UNION {C(t) : t \in Threads}
    BY DEF Calls
  <1> QED
    BY <1>3, <1>4, FS_CardinalityType

LEMMA DoneFinite ==
    ASSUME TypeOK, NEW ops
    PROVE  IsFiniteSet(Done(ops)) /\ Cardinality(Done(ops)) \in Nat
  BY CallsFinite, FS_Subset, FS_CardinalityType DEF Done

(* The call a thread is in has not returned.                               *)
LEMMA NotDone ==
    ASSUME TypeOK, NEW t \in Threads, NEW ops
    PROVE  Value(t) \notin Done(ops)
  BY ProgType DEF Done, Value

LEMMA ValueIsCall ==
    ASSUME TypeOK, NEW t \in Threads, NEW ops, ip[t] >= 1, Op(t) \in ops, "exit" \notin ops
    PROVE  Value(t) \in Calls(ops)
  BY ProgType, CallsAre DEF Op, Value

(* A call returns.                                                         *)
LEMMA DoneReturn ==
    ASSUME TypeOK, NEW t \in Threads, NEW ops, "exit" \notin ops, ip[t] >= 1,
           prog' = prog, ip' = [ip EXCEPT ![t] = @ + 1]
    PROVE  Done(ops)' = IF Op(t) \in ops THEN Done(ops) \cup {Value(t)} ELSE Done(ops)
  <1>1. Calls(ops)' = Calls(ops)
    BY DEF Calls
  <1>2. ip \in [Threads -> Nat]
    BY DEF TypeOK, ThreadTypeOK
  <1>3. ASSUME NEW u \in Threads, NEW i \in 1..Len(prog[u])
        PROVE  i < ip'[u] <=> i < ip[u] \/ <<u, i>> = Value(t)
    BY <1>2, ProgType DEF Value
  <1>4. \A x \in Calls(ops) : x[2] < ip'[x[1]] <=> x[2] < ip[x[1]] \/ x = Value(t)
    BY <1>3, CallsAre
  <1>5. Done(ops)' = {x \in Calls(ops) : x[2] < ip'[x[1]]}
    BY <1>1 DEF Done
  <1>6. CASE Op(t) \in ops
    <2>1. Value(t) \in Calls(ops)
      BY <1>6, ValueIsCall
    <2> QED
      BY <1>4, <1>5, <1>6, <2>1 DEF Done
  <1>7. CASE Op(t) \notin ops
    <2>1. Value(t) \notin Calls(ops)
      <3> SUFFICES ASSUME Value(t) \in Calls(ops) PROVE FALSE
        OBVIOUS
      <3>1. PICK u \in Threads : \E i \in 1..Len(prog[u]) : prog[u][i] \in ops /\ Value(t) = <<u, i>>
        BY CallsAre
      <3>2. u = t /\ ip[t] \in 1..Len(prog[t]) /\ prog[t][ip[t]] \in ops
        BY <3>1 DEF Value
      <3> QED
        BY <1>7, <3>2, ProgType DEF Op
    <2> QED
      BY <1>4, <1>5, <1>7, <2>1 DEF Done
  <1> QED
    BY <1>6, <1>7

LEMMA DoneKept ==
    ASSUME NEW ops, UNCHANGED <<prog, ip>> PROVE Done(ops)' = Done(ops)
  BY DEF Done, Calls

(* The accepted sends are sends of the program.                            *)
LEMMA AcceptedAre ==
    ASSUME TypeOK, BalancedInv
    PROVE  /\ Accepted \in SUBSET Calls(SendOps)
           /\ IsFiniteSet(Accepted) /\ Cardinality(Accepted) \in Nat
  <1>1. ASSUME NEW t \in Handing PROVE Value(t) \in Calls(SendOps)
    <2>1. t \in Threads /\ ip[t] >= 1 /\ Op(t) = "send"
      BY DEF Handing, BalancedInv, AtCall, SenderPlaces
    <2> QED
      BY <2>1, ValueIsCall DEF SendOps
  <1>2. Accepted \in SUBSET Calls(SendOps)
    BY <1>1 DEF Accepted, BalancedInv, Done
  <1> QED
    BY <1>2, CallsFinite, FS_Subset, FS_CardinalityType

-----------------------------------------------------------------------------
(* Steps *)

(* What a thread of a balanced program may be about to call.               *)
LEMMA BalancedOps ==
    ASSUME TypeOK, Balanced, NEW t \in Threads, ip[t] >= 1
    PROVE  /\ Op(t) \in {"send", "selsend", "recv", "selrecv", "wait", "exit"}
           /\ Op(t) = "wait" => t = Main
           /\ Capacity = 0 => Op(t) \notin {"selsend", "selrecv"}
  <1>1. CASE ip[t] <= Len(prog[t])
    <2>1. ip[t] \in 1..Len(prog[t]) /\ Op(t) = prog[t][ip[t]]
      BY <1>1, ProgType DEF Op
    <2>2. Only(t, SendOps) \/ Only(t, RecvOps) \/ (t = Main /\ Only(t, {"wait"}))
      BY DEF Balanced
    <2>3. Op(t) \in SendOps \cup RecvOps \/ (t = Main /\ Op(t) = "wait")
      BY <2>1, <2>2 DEF Only
    <2>4. ASSUME Op(t) \in {"selsend", "selrecv"} PROVE Capacity # 0
      <3>1. Value(t) \in Calls({"selsend", "selrecv"})
        BY <2>4, ValueIsCall
      <3> QED
        BY <3>1 DEF Balanced
    <2> QED
      BY <2>3, <2>4 DEF SendOps, RecvOps
  <1>2. CASE ~(ip[t] <= Len(prog[t]))
    BY <1>2 DEF Op
  <1> QED
    BY <1>1, <1>2

(* The steps that a thread may make: nothing is closed, and there is no    *)
(* call of another kind.                                                   *)
Parks(t) == SendWaitFull(t) \/ SendWaitSlot(t) \/ SendWaitTaken(t) \/ RecvWait(t)
Sends(t) == SendBuffered(t) \/ TrySend(t)
Receives(t) == RecvBuffered(t) \/ RecvSlot(t) \/ TryRecv(t)

LEMMA BalancedSteps ==
    ASSUME TypeOK, BalancedInv, Balanced, NEW t \in Threads, Step(t)
    PROVE  Parks(t) \/ SendPark(t) \/ SendTaken(t) \/ Sends(t) \/ Receives(t) \/ GoroutineExit(t)
  <1>1. ~closed /\ Op(t) \in {"send", "selsend", "recv", "selrecv", "wait", "exit"}
    BY BalancedOps DEF BalancedInv, AtCall
  <1>2. ~SendOnClosed(t) /\ ~SendUntaken(t) /\ ~RecvClosed(t) /\ ~TrySendClosed(t)
    BY <1>1 DEF SendOnClosed, SendUntaken, RecvClosed, TrySendClosed
  <1>3. ~Close(t) /\ ~CloseClosed(t) /\ ~NilBlock(t) /\ ~TrySendNotReady(t) /\ ~TryRecvNothing(t)
    BY <1>1 DEF Close, CloseClosed, NilBlock, TrySendNotReady, TryRecvNothing, Doing
  <1> QED
    BY <1>2, <1>3 DEF Step, goo_chan_send, goo_chan_recv, goo_chan_close, goo_select,
        goo_chan_try_send, goo_chan_try_recv, Parks, Sends, Receives

(* What each of them calls.                                                *)
LEMMA StepCalls ==
    ASSUME TypeOK, BalancedInv, Balanced, NEW t \in Threads
    PROVE  /\ Parks(t) \/ SendPark(t) \/ SendTaken(t) => Op(t) \in {"send", "recv"}
           /\ SendPark(t) \/ SendTaken(t) => Op(t) = "send"
           /\ SendTaken(t) => pc[t] = "send_taken"
           /\ Sends(t) => Op(t) \in SendOps /\ pc[t] # "send_taken"
           /\ Receives(t) => Op(t) \in RecvOps /\ pc[t] # "send_taken"
           /\ SendPark(t) => pc[t] # "send_taken"
  <1>1. AtCall(t)
    BY DEF BalancedInv
  <1>2. /\ pc[t] \in SenderPlaces => Op(t) = "send"
        /\ pc[t] = "recv_wait" => Op(t) = "recv"
        /\ Op(t) \notin {"trysend", "tryrecv"}
    BY <1>1, BalancedOps DEF AtCall
  <1>3. Parks(t) => Op(t) \in {"send", "recv"}
    BY <1>2 DEF SenderPlaces, Parks, SendWaitFull, SendWaitSlot, SendWaitTaken, RecvWait, Doing
  <1>4. SendPark(t) => Op(t) = "send" /\ pc[t] # "send_taken"
    BY <1>2 DEF SenderPlaces, SendPark, Doing
  <1>5. SendTaken(t) => Op(t) = "send" /\ pc[t] = "send_taken"
    BY <1>2 DEF SenderPlaces, SendTaken
  <1>6. Sends(t) => Op(t) \in SendOps /\ pc[t] # "send_taken"
    BY <1>2 DEF SenderPlaces, Sends, SendBuffered, TrySend, Doing, SendOps
  <1>7. Receives(t) => Op(t) \in RecvOps /\ pc[t] # "send_taken"
    BY <1>2 DEF Receives, RecvBuffered, RecvSlot, TryRecv, Doing, RecvOps
  <1> QED
    BY <1>3, <1>4, <1>5, <1>6, <1>7

(* What they change of the places and of the history.                      *)
LEMMA StepEffects ==
    ASSUME TypeOK, NEW t \in Threads
    PROVE  /\ Parks(t) => /\ UNCHANGED <<prog, ip, sent, rcvd, returned, closed>>
                          /\ \E place \in Parking : pc' = [pc EXCEPT ![t] = place]
           /\ SendPark(t) => /\ UNCHANGED <<prog, ip, rcvd, returned, closed>>
                             /\ sent' = Append(sent, Value(t))
                             /\ pc' = [pc EXCEPT ![t] = "send_taken"]
           /\ SendTaken(t) => /\ UNCHANGED <<prog, sent, rcvd, closed>> /\ Return(t)
                              /\ returned' = returned \cup {Value(t)}
           /\ Sends(t) => /\ UNCHANGED <<prog, rcvd, closed>> /\ Return(t)
                          /\ sent' = Append(sent, Value(t))
                          /\ returned' = returned \cup {Value(t)}
           /\ Receives(t) => /\ UNCHANGED <<prog, sent, returned, closed>> /\ Return(t)
                             /\ \E v : rcvd' = Append(rcvd, v)
           /\ GoroutineExit(t) => /\ UNCHANGED <<prog, ip, sent, rcvd, returned, closed>>
                                  /\ pc' = [pc EXCEPT ![t] = "exited"]
           /\ SpuriousWakeup(t) => UNCHANGED <<prog, ip, pc, sent, rcvd, returned, closed>>
  <1>1. Parks(t) => /\ UNCHANGED <<prog, ip, sent, rcvd, returned, closed>>
                    /\ \E place \in Parking : pc' = [pc EXCEPT ![t] = place]
    BY DEF Parks, SendWaitFull, SendWaitSlot, SendWaitTaken, RecvWait, block_begin, history,
           chanVars, Parking
  <1>2. SendPark(t) => /\ UNCHANGED <<prog, ip, rcvd, returned, closed>>
                       /\ sent' = Append(sent, Value(t))
                       /\ pc' = [pc EXCEPT ![t] = "send_taken"]
    BY DEF SendPark, block_begin
  <1>3. SendTaken(t) => /\ UNCHANGED <<prog, sent, rcvd, closed>> /\ Return(t)
                        /\ returned' = returned \cup {Value(t)}
    BY DEF SendTaken, chanVars
  <1>4. Sends(t) => /\ UNCHANGED <<prog, rcvd, closed>> /\ Return(t)
                    /\ sent' = Append(sent, Value(t))
                    /\ returned' = returned \cup {Value(t)}
    BY DEF Sends, SendBuffered, TrySend, Enqueue
  <1>5. Receives(t) => /\ UNCHANGED <<prog, sent, returned, closed>> /\ Return(t)
                       /\ \E v : rcvd' = Append(rcvd, v)
    BY DEF Receives, RecvBuffered, RecvSlot, TryRecv, Dequeue
  <1>6. GoroutineExit(t) => /\ UNCHANGED <<prog, ip, sent, rcvd, returned, closed>>
                            /\ pc' = [pc EXCEPT ![t] = "exited"]
    BY DEF GoroutineExit, chanVars, history
  <1>7. SpuriousWakeup(t) => UNCHANGED <<prog, ip, pc, sent, rcvd, returned, closed>>
    BY DEF SpuriousWakeup, chanVars, history
  <1> QED
    BY <1>1, <1>2, <1>3, <1>4, <1>5, <1>6, <1>7

LEMMA MainEffects ==
    ASSUME TypeOK, MainStep
    PROVE  /\ UNCHANGED <<prog, sent, rcvd, returned, closed>>
           /\ \/ UNCHANGED <<ip, pc>>
              \/ /\ pc[Main] = "run" /\ Op(Main) = "wait"
                 /\ Return(Main)
              \/ /\ pc[Main] = "run" /\ Op(Main) = "exit" /\ outcome' = "exit"
                 /\ pc' = [pc EXCEPT ![Main] = "exited"] /\ ip' = ip
  BY DEF MainStep, MainReturn, WaitPoll, WaitDone, Doing, chanVars, history

-----------------------------------------------------------------------------
(* The invariant is kept.                                                  *)

LEMMA ParkPlace ==
    ASSUME TypeOK, BalancedInv, Balanced, NEW t \in Threads, Parks(t) \/ SendPark(t)
    PROVE  \E place \in Parking : /\ pc' = [pc EXCEPT ![t] = place]
                                  /\ place \in SenderPlaces => Op(t) = "send"
                                  /\ place = "recv_wait" => Op(t) = "recv"
  <1>1. AtCall(t)
    BY DEF BalancedInv
  <1>2. CASE SendWaitFull(t) \/ SendWaitSlot(t) \/ SendWaitTaken(t) \/ SendPark(t)
    <2>1. Op(t) = "send"
      BY <1>1, <1>2 DEF SendWaitFull, SendWaitSlot, SendWaitTaken, SendPark, Doing, AtCall, SenderPlaces
    <2>2. \E place \in SenderPlaces : pc' = [pc EXCEPT ![t] = place]
      BY <1>2 DEF SendWaitFull, SendWaitSlot, SendWaitTaken, SendPark, block_begin, SenderPlaces
    <2> QED
      BY <2>1, <2>2 DEF SenderPlaces, Parking
  <1>3. CASE RecvWait(t)
    <2>1. Op(t) = "recv" /\ pc' = [pc EXCEPT ![t] = "recv_wait"]
      BY <1>1, <1>3 DEF RecvWait, Doing, AtCall, block_begin
    <2> QED
      BY <2>1 DEF SenderPlaces, Parking
  <1> QED
    BY <1>2, <1>3 DEF Parks

(* A thread whose call returns, or that stays where it is.                 *)
LEMMA AtCallReturn ==
    ASSUME TypeOK, NEW t \in Threads, \A u \in Threads : AtCall(u), prog' = prog, Return(t)
    PROVE  \A u \in Threads : AtCall(u)'
  <1>1. ip \in [Threads -> Nat] /\ pc \in [Threads -> PCs]
    BY DEF TypeOK, ThreadTypeOK
  <1>2. ASSUME NEW u \in Threads, u # t PROVE AtCall(u)'
    BY <1>1, <1>2 DEF AtCall, Return, Op
  <1>3. AtCall(t)'
    BY <1>1 DEF AtCall, Return, SenderPlaces
  <1> QED
    BY <1>2, <1>3

LEMMA AtCallGoto ==
    ASSUME TypeOK, NEW t \in Threads, \A u \in Threads : AtCall(u), UNCHANGED <<prog, ip>>,
           NEW place, pc' = [pc EXCEPT ![t] = place],
           place \notin {"nil_block", "panicked"},
           place = "exited" => ip[t] > Len(prog[t]),
           place \in SenderPlaces => Op(t) = "send",
           place = "recv_wait" => Op(t) = "recv"
    PROVE  \A u \in Threads : AtCall(u)'
  <1>1. ip \in [Threads -> Nat] /\ pc \in [Threads -> PCs]
    BY DEF TypeOK, ThreadTypeOK
  <1>2. ASSUME NEW u \in Threads, u # t PROVE AtCall(u)'
    BY <1>1, <1>2 DEF AtCall, Op
  <1>3. AtCall(t)'
    BY <1>1 DEF AtCall, Op
  <1> QED
    BY <1>2, <1>3

LEMMA ThreadsStep ==
    ASSUME TypeOK, BalancedInv, Balanced, NEW t \in Threads, Step(t) \/ SpuriousWakeup(t)
    PROVE  /\ prog' = prog /\ ~closed'
           /\ \A u \in Threads : AtCall(u)'
           /\ pc'[Main] = "exited" => outcome' = "exit"
  <1>i. ~closed /\ (\A u \in Threads : AtCall(u)) /\ (pc[Main] = "exited" => outcome = "exit")
    BY DEF BalancedInv
  <1>p. pc \in [Threads -> PCs] /\ ip \in [Threads -> Nat]
    BY DEF TypeOK, ThreadTypeOK
  <1>1. CASE Parks(t) \/ SendPark(t)
    <2>1. PICK place \in Parking : /\ pc' = [pc EXCEPT ![t] = place]
                                   /\ place \in SenderPlaces => Op(t) = "send"
                                   /\ place = "recv_wait" => Op(t) = "recv"
      BY <1>1, ParkPlace
    <2>2. prog' = prog /\ ip' = ip /\ closed' = closed
      BY <1>1, StepEffects
    <2>3. \A u \in Threads : AtCall(u)'
      BY <1>i, <2>1, <2>2, AtCallGoto DEF Parking
    <2>4. outcome = "running"
      BY <1>1 DEF Parks, SendWaitFull, SendWaitSlot, SendWaitTaken, RecvWait, SendPark, Doing, CanRun
    <2>5. pc'[Main] # "exited"
      BY <1>i, <1>p, <2>1, <2>4 DEF Parking
    <2> QED
      BY <1>i, <2>2, <2>3, <2>5
  <1>2. CASE SendTaken(t) \/ Sends(t) \/ Receives(t)
    <2>1. prog' = prog /\ closed' = closed /\ Return(t)
      BY <1>2, StepEffects
    <2>2. \A u \in Threads : AtCall(u)'
      BY <1>i, <2>1, AtCallReturn
    <2>3. outcome = "running"
      BY <1>2 DEF SendTaken, Sends, SendBuffered, TrySend, Receives, RecvBuffered, RecvSlot,
                  TryRecv, Doing, CanRun
    <2>4. pc'[Main] # "exited"
      BY <1>i, <1>p, <2>1, <2>3 DEF Return
    <2> QED
      BY <1>i, <2>1, <2>2, <2>4
  <1>3. CASE GoroutineExit(t)
    <2>1. /\ UNCHANGED <<prog, ip, closed>> /\ pc' = [pc EXCEPT ![t] = "exited"]
      BY <1>3, StepEffects
    <2>2. Op(t) = "exit" /\ t # Main /\ outcome' = outcome
      BY <1>3 DEF GoroutineExit, Doing
    <2>3. ip[t] > Len(prog[t])
      <3>1. CASE ip[t] <= Len(prog[t])
        <4>1. prog[t][ip[t]] \in Ops
          BY <3>1, <1>i, ProgType DEF AtCall
        <4> QED
          BY <2>2, <3>1, <4>1 DEF Op, Ops
      <3> QED
        BY <3>1, ProgType
    <2>4. \A u \in Threads : AtCall(u)'
      BY <1>i, <2>1, <2>3, AtCallGoto DEF SenderPlaces
    <2> QED
      BY <1>i, <1>p, <2>1, <2>2, <2>4
  <1>4. CASE SpuriousWakeup(t)
    <2>1. UNCHANGED <<prog, ip, pc, closed>> /\ outcome' = outcome
      BY <1>4, StepEffects DEF SpuriousWakeup
    <2> QED
      BY <1>i, <2>1 DEF AtCall, Op
  <1> QED
    BY <1>1, <1>2, <1>3, <1>4, BalancedSteps

LEMMA CountsStep ==
    ASSUME TypeOK, TypeOK', BalancedInv, Balanced, NEW t \in Threads, Step(t) \/ SpuriousWakeup(t)
    PROVE  /\ returned' = Done(SendOps)'
           /\ Len(rcvd') = Cardinality(Done(RecvOps)')
  <1>i. returned = Done(SendOps) /\ Len(rcvd) = Cardinality(Done(RecvOps)) /\ ip[t] >= 1
    BY DEF BalancedInv, AtCall
  <1>o. "exit" \notin SendOps /\ "exit" \notin RecvOps /\ SendOps \cap RecvOps = {}
    BY DEF SendOps, RecvOps
  <1>r. rcvd \in Seq(Values)
    BY DEF TypeOK, HistoryTypeOK
  <1>1. CASE Parks(t) \/ SendPark(t) \/ GoroutineExit(t) \/ SpuriousWakeup(t)
    <2>1. UNCHANGED <<prog, ip, rcvd, returned>>
      BY <1>1, StepEffects
    <2> QED
      BY <1>i, <2>1, DoneKept
  <1>2. CASE SendTaken(t) \/ Sends(t)
    <2>1. /\ UNCHANGED <<prog, rcvd>> /\ returned' = returned \cup {Value(t)} /\ Return(t)
          /\ Op(t) \in SendOps
      BY <1>2, StepEffects, StepCalls DEF SendOps
    <2>2. Done(SendOps)' = Done(SendOps) \cup {Value(t)} /\ Done(RecvOps)' = Done(RecvOps)
      BY <1>i, <1>o, <2>1, DoneReturn DEF Return
    <2> QED
      BY <1>i, <2>1, <2>2
  <1>3. CASE Receives(t)
    <2>1. /\ UNCHANGED <<prog, returned>> /\ Return(t) /\ Op(t) \in RecvOps
          /\ \E v : rcvd' = Append(rcvd, v)
      BY <1>3, StepEffects, StepCalls
    <2>2. Done(SendOps)' = Done(SendOps) /\ Done(RecvOps)' = Done(RecvOps) \cup {Value(t)}
      BY <1>i, <1>o, <2>1, DoneReturn DEF Return
    <2>3. Cardinality(Done(RecvOps) \cup {Value(t)}) = Cardinality(Done(RecvOps)) + 1
      BY NotDone, DoneFinite, FS_AddElement
    <2>4. Len(rcvd') = Len(rcvd) + 1
      BY <1>r, <2>1
    <2> QED
      BY <1>i, <2>1, <2>2, <2>3, <2>4
  <1> QED
    BY <1>1, <1>2, <1>3, BalancedSteps

(* A value is accepted where the send's place or its return shows it.      *)
LEMMA AcceptedStep ==
    ASSUME TypeOK, TypeOK', BalancedInv, Balanced, NEW t \in Threads, Step(t) \/ SpuriousWakeup(t)
    PROVE  Len(sent') = Cardinality(Accepted')
  <1>i. /\ returned = Done(SendOps) /\ Len(sent) = Cardinality(Accepted)
        /\ ip \in [Threads -> Nat] /\ pc \in [Threads -> PCs] /\ sent \in Seq(Values)
    BY DEF BalancedInv, TypeOK, ThreadTypeOK, HistoryTypeOK
  <1>f. IsFiniteSet(Accepted) /\ Cardinality(Accepted) \in Nat
    BY AcceptedAre
  <1>n. Value(t) \notin returned
    BY <1>i, NotDone
  <1>u. \A u \in Threads : u # t => Value(u) # Value(t)
    BY DEF Value
  <1>a. pc[t] # "send_taken" => Value(t) \notin Accepted
    BY <1>n, <1>u DEF Accepted, Handing
  <1>v. Value(t) \in Values
    BY <1>i DEF Value, Values
  <1>1. CASE Parks(t) /\ pc[t] # "send_taken"
    <2>1. /\ UNCHANGED <<ip, sent, returned>> /\ Op(t) \in {"send", "recv"}
          /\ \E place \in Parking : pc' = [pc EXCEPT ![t] = place] /\ place # "send_taken"
      <3>1. ~SendWaitTaken(t)
        BY <1>1 DEF SendWaitTaken
      <3> QED
        BY <1>1, <3>1, StepEffects, StepCalls DEF Parks, SendWaitFull, SendWaitSlot, RecvWait,
           block_begin, Parking
    <2>2. Handing' = Handing
      BY <1>1, <1>i, <2>1 DEF Handing
    <2>3. Accepted' = Accepted
      BY <2>1, <2>2 DEF Accepted, Value
    <2> QED
      BY <1>i, <2>1, <2>3
  <1>2. CASE Parks(t) /\ pc[t] = "send_taken"
    <2>1. SendWaitTaken(t)
      BY <1>2 DEF Parks, SendWaitFull, SendWaitSlot, RecvWait, Doing
    <2>2. /\ UNCHANGED <<ip, sent, returned>> /\ pc' = [pc EXCEPT ![t] = "send_taken"]
      BY <1>2, <2>1, StepEffects DEF SendWaitTaken, block_begin
    <2>3. Handing' = Handing
      BY <1>2, <1>i, <2>2 DEF Handing
    <2>4. Accepted' = Accepted
      BY <2>2, <2>3 DEF Accepted, Value
    <2> QED
      BY <1>i, <2>2, <2>4
  <1>3. CASE SendPark(t)
    <2>1. /\ UNCHANGED <<ip, returned>> /\ sent' = Append(sent, Value(t))
          /\ pc' = [pc EXCEPT ![t] = "send_taken"] /\ pc[t] # "send_taken"
      BY <1>3, StepEffects, StepCalls
    <2>2. Handing' = Handing \cup {t}
      BY <1>i, <2>1 DEF Handing
    <2>3. Accepted' = Accepted \cup {Value(t)}
      BY <2>1, <2>2 DEF Accepted, Value
    <2>4. Cardinality(Accepted \cup {Value(t)}) = Cardinality(Accepted) + 1
      BY <1>f, <1>a, <2>1, FS_AddElement
    <2>5. Len(sent') = Len(sent) + 1
      BY <1>i, <1>v, <2>1
    <2> QED
      BY <1>i, <2>3, <2>4, <2>5
  <1>4. CASE SendTaken(t)
    <2>1. /\ UNCHANGED sent /\ returned' = returned \cup {Value(t)} /\ Return(t)
          /\ pc[t] = "send_taken"
      BY <1>4, StepEffects, StepCalls
    <2>2. Handing' = Handing \ {t} /\ t \in Handing
      BY <1>i, <2>1 DEF Handing, Return
    <2>3. \A u \in Handing' : Value(u)' = Value(u)
      BY <1>i, <2>1, <2>2 DEF Handing, Value, Return
    <2>4. Accepted' = Accepted
      BY <2>1, <2>2, <2>3 DEF Accepted
    <2> QED
      BY <1>i, <2>1, <2>4
  <1>5. CASE Sends(t)
    <2>1. /\ sent' = Append(sent, Value(t)) /\ returned' = returned \cup {Value(t)} /\ Return(t)
          /\ pc[t] # "send_taken"
      BY <1>5, StepEffects, StepCalls
    <2>2. Handing' = Handing /\ t \notin Handing
      BY <1>i, <2>1 DEF Handing, Return
    <2>3. \A u \in Handing : Value(u)' = Value(u)
      BY <1>i, <2>1, <2>2 DEF Handing, Value, Return
    <2>4. Accepted' = Accepted \cup {Value(t)}
      BY <2>1, <2>2, <2>3 DEF Accepted
    <2>5. Cardinality(Accepted \cup {Value(t)}) = Cardinality(Accepted) + 1
      BY <1>f, <1>a, <2>1, FS_AddElement
    <2>6. Len(sent') = Len(sent) + 1
      BY <1>i, <1>v, <2>1
    <2> QED
      BY <1>i, <2>4, <2>5, <2>6
  <1>6. CASE Receives(t)
    <2>1. UNCHANGED <<sent, returned>> /\ Return(t) /\ pc[t] # "send_taken"
      BY <1>6, StepEffects, StepCalls
    <2>2. Handing' = Handing /\ t \notin Handing
      BY <1>i, <2>1 DEF Handing, Return
    <2>3. \A u \in Handing : Value(u)' = Value(u)
      BY <1>i, <2>1, <2>2 DEF Handing, Value, Return
    <2>4. Accepted' = Accepted
      BY <2>1, <2>2, <2>3 DEF Accepted
    <2> QED
      BY <1>i, <2>1, <2>4
  <1>7. CASE GoroutineExit(t) \/ SpuriousWakeup(t)
    <2>1. UNCHANGED <<ip, sent, returned>>
      BY <1>7, StepEffects
    <2>2. Handing' = Handing
      BY <1>7, <1>i DEF GoroutineExit, SpuriousWakeup, Doing, Handing
    <2>3. Accepted' = Accepted
      BY <2>1, <2>2 DEF Accepted, Value
    <2> QED
      BY <1>i, <2>1, <2>3
  <1> QED
    BY <1>1, <1>2, <1>3, <1>4, <1>5, <1>6, <1>7, BalancedSteps


(* What an abort finds: the step that parks main has seen why it must.     *)
LEMMA AbortFinds ==
    ASSUME TypeOK, TypeOK', Places, BalancedInv, Balanced,
           NEW t \in Threads, Step(t) \/ SpuriousWakeup(t)
    PROVE  AbortOK'
  <1>p. pc \in [Threads -> PCs] /\ num_goroutines \in Int /\ outcome \in Outcomes
    BY DEF TypeOK, ThreadTypeOK, SchedTypeOK
  <1>r. outcome # "deadlock"
    BY DEF Step, goo_chan_send, goo_chan_recv, goo_chan_close, goo_select, goo_chan_try_send,
        goo_chan_try_recv, SendOnClosed, SendWaitFull, SendBuffered, SendWaitSlot, SendPark,
        SendWaitTaken, SendUntaken, SendTaken, RecvWait, RecvClosed, RecvBuffered, RecvSlot,
        Close, CloseClosed, TrySend, TrySendClosed, TrySendNotReady, TryRecv, TryRecvNothing,
        NilBlock, GoroutineExit, SpuriousWakeup, Doing, CanRun
  <1>b. ASSUME NEW place \in Parking, block_begin(t, place),
               (place = "recv_wait" <=> Available' = 0)
        PROVE  AbortOK'
    BY <1>b, <1>p, <1>r DEF block_begin, NobodyLeft, AbortOK
  <1>1. CASE SendWaitFull(t)
    <2>1. Available' # 0
      BY <1>1, ConstantsAssumption DEF SendWaitFull, Available, chanVars, TypeOK, ChanTypeOK
    <2> QED
      BY <1>1, <1>b, <2>1 DEF SendWaitFull, Parking
  <1>2. CASE SendWaitSlot(t)
    <2>1. Available' # 0
      BY <1>2 DEF SendWaitSlot, Available, chanVars
    <2> QED
      BY <1>2, <1>b, <2>1 DEF SendWaitSlot, Parking
  <1>3. CASE SendPark(t)
    <2>1. Available' # 0
      BY <1>3 DEF SendPark, Available
    <2> QED
      BY <1>3, <1>b, <2>1 DEF SendPark, Parking
  <1>4. CASE SendWaitTaken(t)
    <2>1. Available' # 0
      BY <1>4 DEF SendWaitTaken, Available, chanVars, Places
    <2> QED
      BY <1>4, <1>b, <2>1 DEF SendWaitTaken, Parking
  <1>5. CASE RecvWait(t)
    <2>1. Available' = 0
      BY <1>5 DEF RecvWait, Available, NothingToTake, chanVars
    <2> QED
      BY <1>5, <1>b, <2>1 DEF RecvWait, Parking
  <1>6. CASE SendTaken(t) \/ Sends(t) \/ Receives(t) \/ GoroutineExit(t) \/ SpuriousWakeup(t)
    <2>1. outcome' = outcome
      BY <1>6 DEF SendTaken, Sends, SendBuffered, TrySend, Receives, RecvBuffered, RecvSlot,
                  TryRecv, Unblocked, GoroutineExit, SpuriousWakeup
    <2> QED
      BY <1>r, <2>1 DEF AbortOK
  <1> QED
    BY <1>1, <1>2, <1>3, <1>4, <1>5, <1>6, BalancedSteps DEF Parks

(* Main's own steps: a call of goo_scheduler_wait sends and takes nothing. *)
LEMMA MainBalanced ==
    ASSUME TypeOK, TypeOK', BalancedInv, Balanced, MainStep
    PROVE  prog' = prog /\ BalancedInv'
  <1>m. Main \in Threads
    BY DEF Threads
  <1>i. /\ ~closed /\ (\A u \in Threads : AtCall(u)) /\ (pc[Main] = "exited" => outcome = "exit")
        /\ returned = Done(SendOps) /\ Len(rcvd) = Cardinality(Done(RecvOps))
        /\ Len(sent) = Cardinality(Accepted) /\ ip[Main] >= 1
    BY <1>m DEF BalancedInv, AtCall
  <1>p. pc \in [Threads -> PCs] /\ ip \in [Threads -> Nat]
    BY DEF TypeOK, ThreadTypeOK
  <1>e. UNCHANGED <<prog, sent, rcvd, returned, closed>> /\ outcome = "running" /\ pc[Main] = "run"
    BY MainEffects DEF MainStep, MainReturn, WaitPoll, WaitDone, Doing, CanRun
  <1>1. AbortOK'
    BY <1>e DEF MainStep, MainReturn, WaitPoll, WaitDone, Doing, AbortOK, Op
  <1>2. Handing' = Handing
    <2>1. pc' = pc \/ pc' = [pc EXCEPT ![Main] = "run"] \/ pc' = [pc EXCEPT ![Main] = "exited"]
      BY MainEffects DEF Return
    <2> QED
      BY <1>e, <1>p, <2>1 DEF Handing
  <1>3. CASE UNCHANGED <<ip, pc>>
    <2>1. Accepted' = Accepted
      BY <1>e, <1>2, <1>3 DEF Accepted, Value
    <2>2. Done(SendOps)' = Done(SendOps) /\ Done(RecvOps)' = Done(RecvOps)
      BY <1>e, <1>3, DoneKept
    <2>3. \A u \in Threads : AtCall(u)'
      BY <1>e, <1>i, <1>3 DEF AtCall, Op
    <2> QED
      BY <1>e, <1>i, <1>1, <1>3, <2>1, <2>2, <2>3 DEF BalancedInv
  <1>4. CASE Op(Main) = "wait" /\ Return(Main)
    <2>1. \A u \in Handing : Value(u)' = Value(u)
      BY <1>e, <1>p, <1>4 DEF Handing, Value, Return
    <2>2. Accepted' = Accepted
      BY <1>e, <1>2, <2>1 DEF Accepted
    <2>3. "exit" \notin SendOps /\ "exit" \notin RecvOps /\ "wait" \notin SendOps /\ "wait" \notin RecvOps
      BY DEF SendOps, RecvOps
    <2>4. Done(SendOps)' = Done(SendOps) /\ Done(RecvOps)' = Done(RecvOps)
      BY <1>e, <1>i, <1>m, <1>4, <2>3, DoneReturn DEF Return
    <2>5. \A u \in Threads : AtCall(u)'
      BY <1>e, <1>i, <1>m, <1>4, AtCallReturn
    <2>6. pc'[Main] # "exited"
      BY <1>p, <1>m, <1>4 DEF Return
    <2> QED
      BY <1>e, <1>i, <1>1, <2>2, <2>4, <2>5, <2>6 DEF BalancedInv
  <1>5. CASE /\ Op(Main) = "exit" /\ outcome' = "exit"
             /\ pc' = [pc EXCEPT ![Main] = "exited"] /\ ip' = ip
    <2>1. Accepted' = Accepted
      BY <1>e, <1>2, <1>5 DEF Accepted, Value
    <2>2. Done(SendOps)' = Done(SendOps) /\ Done(RecvOps)' = Done(RecvOps)
      BY <1>e, <1>5, DoneKept
    <2>3. ip[Main] > Len(prog[Main])
      <3>1. CASE ip[Main] <= Len(prog[Main])
        <4>1. prog[Main][ip[Main]] \in Ops
          BY <3>1, <1>i, <1>m, ProgType
        <4> QED
          BY <1>5, <3>1, <4>1 DEF Op, Ops
      <3> QED
        BY <3>1, <1>m, ProgType
    <2>4. \A u \in Threads : AtCall(u)'
      BY <1>e, <1>i, <1>m, <1>5, <2>3, AtCallGoto DEF SenderPlaces
    <2> QED
      BY <1>e, <1>i, <1>1, <1>5, <2>1, <2>2, <2>4 DEF BalancedInv
  <1> QED
    BY <1>e, <1>3, <1>4, <1>5, MainEffects

LEMMA BalancedStays == ASSUME prog' = prog PROVE Balanced' <=> Balanced
  BY DEF Balanced, Only, Calls

LEMMA BalancedInit == ASSUME Init, Balanced PROVE BalancedInv
  <1>t. TypeOK
    BY TypeInit
  <1>1. ~closed /\ outcome = "running" /\ returned = {} /\ Len(sent) = 0 /\ Len(rcvd) = 0
    BY DEF Init
  <1>2. \A u \in Threads : ip[u] = 1 /\ pc[u] = "run"
    BY DEF Init
  <1>3. \A u \in Threads : AtCall(u)
    BY <1>2 DEF AtCall, SenderPlaces
  <1>4. ASSUME NEW ops PROVE Done(ops) = {}
    <2> SUFFICES ASSUME NEW x \in Done(ops) PROVE FALSE
      OBVIOUS
    <2>1. x \in Calls(ops) /\ x[2] < ip[x[1]]
      BY DEF Done
    <2>2. PICK u \in Threads : \E i \in 1..Len(prog[u]) : prog[u][i] \in ops /\ x = <<u, i>>
      BY <2>1, CallsAre
    <2> QED
      BY <1>2, <1>t, <2>1, <2>2, ProgType
  <1>5. Accepted = {}
    BY <1>1, <1>2 DEF Accepted, Handing
  <1>6. Main \in Threads
    BY DEF Threads
  <1> QED
    BY <1>1, <1>2, <1>3, <1>4, <1>5, <1>6, FS_EmptySet DEF BalancedInv, AbortOK

LEMMA BalancedNext ==
    ASSUME Inv, Inv', Balanced => BalancedInv, [Next]_vars
    PROVE  Balanced' => BalancedInv'
  <1>t. TypeOK /\ TypeOK' /\ Places
    BY DEF Inv
  <1>1. ASSUME NEW t \in Threads, Step(t) \/ SpuriousWakeup(t), Balanced, BalancedInv
        PROVE  BalancedInv'
    <2>1. ~closed' /\ (\A u \in Threads : AtCall(u)') /\ (pc'[Main] = "exited" => outcome' = "exit")
      BY <1>1, <1>t, ThreadsStep
    <2>2. returned' = Done(SendOps)' /\ Len(rcvd') = Cardinality(Done(RecvOps)')
      BY <1>1, <1>t, CountsStep
    <2>3. Len(sent') = Cardinality(Accepted')
      BY <1>1, <1>t, AcceptedStep
    <2>4. AbortOK'
      BY <1>1, <1>t, AbortFinds
    <2> QED
      BY <2>1, <2>2, <2>3, <2>4 DEF BalancedInv
  <1>2. ASSUME MainStep, Balanced, BalancedInv PROVE BalancedInv'
    BY <1>2, <1>t, MainBalanced
  <1>3. ASSUME UNCHANGED vars, BalancedInv PROVE BalancedInv'
    <2>1. UNCHANGED <<closed, prog, ip, pc, num_goroutines, outcome, sent, rcvd, returned,
                      length, rv_full>>
      BY <1>3 DEF vars, chanVars, schedVars, history
    <2>2. UNCHANGED <<Done(SendOps), Done(RecvOps), Accepted>>
      BY <2>1, DoneKept DEF Accepted, Handing, Value
    <2>3. AbortOK'
      BY <1>3, <2>1 DEF BalancedInv, AbortOK, Op, Available
    <2>4. \A u \in Threads : AtCall(u)'
      BY <1>3, <2>1 DEF BalancedInv, AtCall, Op
    <2> QED
      BY <1>3, <2>1, <2>2, <2>3, <2>4 DEF BalancedInv
  <1>4. prog' = prog
    <2>1. ASSUME NEW t \in Threads, Step(t) \/ SpuriousWakeup(t) PROVE prog' = prog
      BY <2>1 DEF Step, goo_chan_send, goo_chan_recv, goo_chan_close, goo_select, goo_chan_try_send,
        goo_chan_try_recv, SendOnClosed, SendWaitFull, SendBuffered, SendWaitSlot, SendPark,
        SendWaitTaken, SendUntaken, SendTaken, RecvWait, RecvClosed, RecvBuffered, RecvSlot,
        Close, CloseClosed, TrySend, TrySendClosed, TrySendNotReady, TryRecv, TryRecvNothing,
        NilBlock, GoroutineExit, SpuriousWakeup, Panic
    <2>2. MainStep => prog' = prog
      BY DEF MainStep, MainReturn, WaitPoll, WaitDone
    <2> QED
      BY <2>1, <2>2 DEF Next, Terminated, vars
  <1> QED
    BY <1>1, <1>2, <1>3, <1>4, BalancedStays DEF Next, Terminated

-----------------------------------------------------------------------------
(* Nobody is left behind.                                                  *)

(* A thread that can go no further, and what that says of the channel.     *)
Idle(t) ==
    \/ pc[t] = "exited"
    \/ Op(t) \in SendOps /\ Available > 0
    \/ Op(t) \in RecvOps /\ Available = 0
    \/ t = Main /\ Op(t) = "wait" /\ num_goroutines > 0

(* A thread that makes calls of one kind is in one of them or has none.    *)
LEMMA KindOfThread ==
    ASSUME TypeOK, Balanced, BalancedInv, NEW ops \in {SendOps, RecvOps},
           NEW t \in Threads, NEW i \in 1..Len(prog[t]), prog[t][i] \in ops,
           Op(t) \in ops => pc[t] = "exited", Idle(t)
    PROVE  i < ip[t]
  <1>1. Only(t, ops)
    <2>1. Only(t, SendOps) \/ Only(t, RecvOps) \/ Only(t, {"wait"})
      BY DEF Balanced
    <2> QED
      BY <2>1 DEF Only, SendOps, RecvOps
  <1>2. ip[t] \in Nat /\ ip[t] >= 1 /\ Len(prog[t]) \in Nat
    BY ProgType DEF BalancedInv, AtCall
  <1>3. CASE pc[t] = "exited"
    BY <1>2, <1>3 DEF BalancedInv, AtCall
  <1>4. CASE ip[t] > Len(prog[t])
    BY <1>2, <1>4
  <1>5. CASE ip[t] <= Len(prog[t])
    <2>1. Op(t) \in ops
      BY <1>1, <1>2, <1>5 DEF Only, Op
    <2> QED
      BY <1>3, <2>1
  <1> QED
    BY <1>2, <1>4, <1>5

(* All calls of a kind have returned when no thread is idle in one.        *)
LEMMA AllReturned ==
    ASSUME TypeOK, Balanced, BalancedInv, NEW ops \in {SendOps, RecvOps},
           \A t \in Threads : Idle(t) /\ (Op(t) \in ops => pc[t] = "exited")
    PROVE  Done(ops) = Calls(ops)
  <1> SUFFICES ASSUME NEW x \in Calls(ops) PROVE x[2] < ip[x[1]]
    BY DEF Done
  <1>1. PICK t \in Threads : \E i \in 1..Len(prog[t]) : prog[t][i] \in ops /\ x = <<t, i>>
    BY CallsAre
  <1> QED
    BY <1>1, KindOfThread

(* What was accepted is what was taken and what is in the channel.         *)
LEMMA AcceptedIsTaken ==
    ASSUME Inv
    PROVE  /\ Len(sent) = Len(rcvd) + Available
           /\ Len(rcvd) \in Nat /\ Available \in Nat
  <1>1. rcvd \in Seq(Values) /\ Contents \in Seq(Values) /\ Len(Contents) = Available
    BY ContentsType DEF Inv, TypeOK, HistoryTypeOK
  <1>2. sent = rcvd \o Contents
    BY DEF Inv, FIFO
  <1>3. Len(rcvd \o Contents) = Len(rcvd) + Len(Contents)
    BY <1>1, ConcatProperties
  <1>4. Len(rcvd) \in Nat /\ Len(Contents) \in Nat
    BY <1>1, LenProperties
  <1> QED
    BY <1>1, <1>2, <1>3, <1>4

(* With as many receives as sends, everybody idle means everybody gone.    *)
LEMMA NobodyLeftBehind ==
    ASSUME Inv, Balanced, BalancedInv, \A t \in Threads : Idle(t)
    PROVE  pc[Main] = "exited"
  <1>t. TypeOK
    BY DEF Inv
  <1>n. /\ Cardinality(Calls(SendOps)) = Cardinality(Calls(RecvOps))
        /\ Cardinality(Calls(SendOps)) \in Nat
        /\ IsFiniteSet(Calls(SendOps)) /\ IsFiniteSet(Calls(RecvOps))
    BY <1>t, CallsFinite DEF Balanced
  <1>s. SendOps \cap RecvOps = {} /\ "wait" \notin SendOps /\ "wait" \notin RecvOps
        /\ "exit" \notin SendOps /\ "exit" \notin RecvOps
    BY DEF SendOps, RecvOps
  <1>c. /\ Len(sent) = Len(rcvd) + Available
        /\ Len(rcvd) \in Nat /\ Available \in Nat
    BY AcceptedIsTaken
  <1>b. /\ Len(sent) = Cardinality(Accepted) /\ returned = Done(SendOps)
        /\ Len(rcvd) = Cardinality(Done(RecvOps))
    BY DEF BalancedInv
  <1>a. Accepted \in SUBSET Calls(SendOps) /\ Cardinality(Accepted) <= Cardinality(Calls(SendOps))
    BY <1>t, <1>n, AcceptedAre, FS_Subset
  <1>1. Available = 0
    <2> SUFFICES ASSUME Available > 0 PROVE FALSE
      BY <1>c
    <2>1. \A t \in Threads : Idle(t) /\ (Op(t) \in RecvOps => pc[t] = "exited")
      BY <1>s DEF Idle
    <2>2. Done(RecvOps) = Calls(RecvOps)
      BY <1>t, <2>1, AllReturned
    <2> QED
      BY <1>n, <1>c, <1>b, <1>a, <2>2
  <1>2. Done(RecvOps) = Calls(RecvOps)
    <2>1. \A t \in Threads : Idle(t) /\ (Op(t) \in SendOps => pc[t] = "exited")
      BY <1>1, <1>s DEF Idle
    <2>2. Done(SendOps) = Calls(SendOps)
      BY <1>t, <2>1, AllReturned
    <2>3. Accepted = Calls(SendOps)
      BY <1>a, <1>b, <2>2 DEF Accepted
    <2>4. Cardinality(Done(RecvOps)) = Cardinality(Calls(RecvOps))
      BY <1>n, <1>c, <1>b, <1>1, <2>3
    <2>5. Done(RecvOps) \in SUBSET Calls(RecvOps)
      BY DEF Done
    <2> QED
      BY <1>n, <2>4, <2>5, FS_Subset
  <1>3. ASSUME NEW t \in Threads, Op(t) \in RecvOps PROVE FALSE
    <2>1. Value(t) \in Calls(RecvOps)
      BY <1>3, <1>t, <1>s, ValueIsCall DEF BalancedInv, AtCall
    <2> QED
      BY <1>2, <1>t, <2>1, NotDone
  <1>4. \A t \in Threads : pc[t] = "exited" \/ (t = Main /\ num_goroutines > 0)
    BY <1>1, <1>3 DEF Idle
  <1>5. \A t \in Goroutines : pc[t] = "exited"
    BY <1>4, ConstantsAssumption DEF Threads
  <1>6. num_goroutines = 0
    <2>1. LiveGoroutines = {}
      BY <1>5 DEF LiveGoroutines
    <2> QED
      BY <2>1, FS_EmptySet DEF Inv, CountersExact
  <1> QED
    BY <1>4, <1>6 DEF Threads

(* A thread asleep or polling is idle: no wakeup is lost.                  *)
LEMMA StuckIsIdle ==
    ASSUME Inv, Balanced, BalancedInv, \A t \in Threads : Stuck(t) \/ Polling(t)
    PROVE  \A t \in Threads : Idle(t)
  <1>t. /\ TypeOK /\ Places /\ ReceiversWoken /\ SendersWoken
        /\ Available \in Nat /\ Capacity \in Nat /\ length \in Nat
    BY AcceptedIsTaken, ConstantsAssumption DEF Inv, TypeOK, ChanTypeOK
  <1>w. WokenReceivers = {}
    <2> SUFFICES ASSUME NEW t \in Threads, pc[t] = "recv_wait", t \notin not_empty PROVE FALSE
      BY DEF WokenReceivers
    <2> QED
      BY <1>t DEF Stuck, Polling, Asleep, Places, SenderPlaces
  <1> SUFFICES ASSUME NEW t \in Threads PROVE Idle(t)
    OBVIOUS
  <1>a. AtCall(t)
    BY DEF BalancedInv
  <1>1. CASE pc[t] \in {"exited", "nil_block"}
    BY <1>1, <1>a DEF AtCall, Idle
  <1>2. CASE t \in not_empty
    <2>1. Op(t) = "recv"
      BY <1>2, <1>a, <1>t DEF AtCall, Places
    <2>2. Available = 0
      BY <1>2, <1>w, <1>t, FS_EmptySet DEF ReceiversWoken
    <2> QED
      BY <2>1, <2>2 DEF Idle, RecvOps
  <1>3. CASE t \in not_full
    <2>1. Op(t) = "send"
      BY <1>3, <1>a, <1>t DEF AtCall, Places
    <2>2. Available > 0
      BY <1>3, <1>t DEF SendersWoken, Available
    <2> QED
      BY <2>1, <2>2 DEF Idle, SendOps
  <1>4. CASE Polling(t)
    <2>1. /\ Op(t) = "wait" => t = Main
          /\ Capacity = 0 => Op(t) \notin {"selsend", "selrecv"}
      BY <1>a, <1>t, BalancedOps DEF AtCall
    <2> QED
      BY <1>4, <1>t, <2>1 DEF Polling, Idle, SendOps, RecvOps, Available
  <1> QED
    BY <1>1, <1>2, <1>3, <1>4 DEF Stuck, Asleep

(* So is everybody when the process has been aborted.                      *)
LEMMA AbortedIsIdle ==
    ASSUME Inv, Balanced, BalancedInv, AbortIsDeadlock, outcome = "deadlock"
    PROVE  \A t \in Threads : Idle(t)
  <1>1. CASE pc[Main] = "run" /\ Op(Main) = "wait" /\ num_goroutines > 0
    <2>1. \A t \in Threads : Stuck(t) \/ Polling(t)
      BY <1>1 DEF Threads, AbortIsDeadlock, Polling
    <2> QED
      BY <2>1, StuckIsIdle
  <1>2. CASE /\ pc[Main] \in Parking /\ num_goroutines = 0
             /\ (pc[Main] = "recv_wait" <=> Available = 0)
    <2>1. LiveGoroutines = {}
      BY <1>2, GoroutineSetsFinite, FS_EmptySet DEF Inv, CountersExact
    <2>2. \A t \in Goroutines : Idle(t)
      BY <2>1 DEF LiveGoroutines, Idle
    <2>3. AtCall(Main) /\ Available \in Nat
      BY AcceptedIsTaken DEF BalancedInv, Threads
    <2>4. Idle(Main)
      BY <1>2, <2>3 DEF AtCall, Idle, Parking, SenderPlaces, SendOps, RecvOps
    <2> QED
      BY <2>2, <2>4 DEF Threads
  <1> QED
    BY <1>1, <1>2 DEF BalancedInv, AbortOK

LEMMA BalancedGoesOnHere ==
    ASSUME Inv, AbortIsDeadlock, Balanced => BalancedInv
    PROVE  BalancedGoesOn
  <1> SUFFICES ASSUME Balanced, BalancedInv,
                      \/ outcome = "deadlock"
                      \/ outcome = "running" /\ \A t \in Threads : Stuck(t) \/ Polling(t)
               PROVE  FALSE
    BY DEF BalancedGoesOn
  <1>1. \A t \in Threads : Idle(t)
    BY StuckIsIdle, AbortedIsIdle
  <1>2. pc[Main] = "exited"
    BY <1>1, NobodyLeftBehind
  <1> QED
    BY <1>2 DEF BalancedInv

(* A program with as many receives as sends, none of whose threads does    *)
(* both, is never left with everybody asleep or polling in vain, and given *)
(* timely wakeups it is never aborted for deadlock: for every capacity,    *)
(* every number of senders and receivers and every schedule.               *)
THEOREM BalancedProgramsGoOn == ASSUME TimelyWakeups PROVE Spec => []BalancedGoesOn
  <1>1. Init => (Balanced => BalancedInv)
    BY BalancedInit
  <1>2. Inv /\ Inv' /\ (Balanced => BalancedInv) /\ [Next]_vars => (Balanced => BalancedInv)'
    BY BalancedNext
  <1>3. Inv /\ AbortIsDeadlock /\ (Balanced => BalancedInv) => BalancedGoesOn
    BY BalancedGoesOnHere
  <1> QED
    BY <1>1, <1>2, <1>3, Invariance, NoFalseAbort, PTL DEF Spec
=============================================================================
