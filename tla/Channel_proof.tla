---------------------------- MODULE Channel_proof ----------------------------
(***************************************************************************)
(* Theorems about Channel, for every capacity, every finite set of         *)
(* goroutines and every client program.  One inductive invariant, Inv,     *)
(* carries all of the safety properties; its parts are proved preserved    *)
(* one at a time, each from TypeOK and the parts it needs.                 *)
(***************************************************************************)
EXTENDS Channel, TLAPS, FiniteSetTheorems, SequenceTheorems

USE DEF Threads, Advance, Broadcast, WakeSenders, SignalReceiver, Room, SlotFree, Taken, Oldest

SenderPlaces == {"send_full", "send_slot", "send_taken"}

\* Threads sleep where the code that parked them says, and the rendezvous
\* places are reached on unbuffered channels only.
Places ==
    /\ \A t \in not_empty : pc[t] = "recv_wait"
    /\ \A t \in not_full : pc[t] \in SenderPlaces
    /\ \A t \in Threads : pc[t] \in {"send_slot", "send_taken"} => Capacity = 0
    /\ \A t \in Threads : pc[t] = "send_full" => Capacity > 0

\* The three ring indices determine each other.
Ring == Capacity > 0 => tail = (head + length) % Capacity

\* A sender past the hand-over: its value is in the slot or has been taken.
Handed ==
    Capacity = 0 =>
        \A t \in Threads : pc[t] = "send_taken" =>
            \/ rv_full /\ rv_slot = Value(t)
            \/ \E i \in 1..Len(rcvd) : rcvd[i] = Value(t)

Inv ==
    /\ TypeOK /\ Places
    /\ Ring /\ FIFO
    /\ ReceiversWoken /\ SendersWoken
    /\ Handed /\ RendezvousDelivers
    /\ CountersExact

-----------------------------------------------------------------------------
(* Arithmetic and cardinalities *)

\* An index taken modulo the capacity stays in the ring.
LEMMA ModIsIndex ==
    ASSUME NEW c \in Nat, c > 0, NEW a \in Nat
    PROVE  a % c \in 0..(c - 1)
  OBVIOUS

\* Less than two turns around the ring, % is one conditional subtraction.
LEMMA ModWrap ==
    ASSUME NEW c \in Nat, c > 0, NEW a \in 0..(2 * c - 1)
    PROVE  a % c = IF a < c THEN a ELSE a - c
  OBVIOUS

\* Taking away one element lowers a cardinality by at most one.
LEMMA RemoveOne ==
    ASSUME NEW S, IsFiniteSet(S), NEW x
    PROVE  /\ Cardinality(S \ {x}) \in Nat
           /\ Cardinality(S \ {x}) >= Cardinality(S) - 1
  <1>1. IsFiniteSet(S \ {x}) /\ Cardinality(S \ {x}) =
            IF x \in S THEN Cardinality(S) - 1 ELSE Cardinality(S)
    BY FS_RemoveElement
  <1>2. Cardinality(S) \in Nat /\ Cardinality(S \ {x}) \in Nat
    BY <1>1, FS_CardinalityType
  <1> QED
    BY <1>1, <1>2

\* The program has finitely many threads.
LEMMA ThreadsFinite == IsFiniteSet(Threads)
  BY ConstantsAssumption, FS_AddElement

\* The receivers that have been woken can be counted.
LEMMA WokenFinite == IsFiniteSet(WokenReceivers) /\ Cardinality(WokenReceivers) \in Nat
  BY ThreadsFinite, FS_Subset, FS_CardinalityType DEF WokenReceivers

\* So can the blocked and the live goroutines.
LEMMA GoroutineSetsFinite ==
    /\ IsFiniteSet(BlockedGoroutines) /\ Cardinality(BlockedGoroutines) \in Nat
    /\ IsFiniteSet(LiveGoroutines) /\ Cardinality(LiveGoroutines) \in Nat
  BY ConstantsAssumption, FS_Subset, FS_CardinalityType DEF BlockedGoroutines, LiveGoroutines

-----------------------------------------------------------------------------
(* Type correctness *)

\* The channel goo_make_chan returns is well typed.
LEMMA TypeInit == Init => TypeOK
  <1> SUFFICES ASSUME Init PROVE TypeOK
    OBVIOUS
  <1>1. Cardinality(Goroutines) \in Nat
    BY FS_CardinalityType, ConstantsAssumption
  <1>2. Garbage \in Values
    BY DEF Garbage, Values
  <1>3. ChanTypeOK
    BY <1>2, ConstantsAssumption DEF Init, Index, ChanTypeOK
  <1>4. FlagTypeOK
    BY DEF Init, FlagTypeOK
  <1>5. ThreadTypeOK
    BY DEF Init, ThreadTypeOK, PCs
  <1>6. SchedTypeOK
    BY <1>1 DEF Init, SchedTypeOK, Outcomes
  <1>7. HistoryTypeOK
    BY DEF Init, HistoryTypeOK
  <1> QED
    BY <1>3, <1>4, <1>5, <1>6, <1>7 DEF TypeOK

\* Every channel operation, and every spurious wakeup, keeps the types.
LEMMA StepType ==
    ASSUME TypeOK, NEW t \in Threads, Step(t) \/ SpuriousWakeup(t)
    PROVE  TypeOK'
  <1>v. Value(t) \in Values
    BY DEF Value, Values, TypeOK, ThreadTypeOK
  <1>b. block_end(t) \in Nat
    BY DEF block_end, TypeOK, SchedTypeOK
  <1>m. Capacity > 0 => (head + 1) % Capacity \in Index /\ (tail + 1) % Capacity \in Index
    BY ConstantsAssumption, ModIsIndex DEF Index, TypeOK, ChanTypeOK
  <1>h. rv_slot \in Values /\ (Capacity > 0 => buf[head] \in Values)
    BY ConstantsAssumption DEF Index, TypeOK, ChanTypeOK
  <1>1. CASE SendWaitFull(t) \/ SendWaitSlot(t) \/ SendWaitTaken(t) \/ RecvWait(t) \/ NilBlock(t)
    <2> USE DEF SendWaitFull, SendWaitSlot, SendWaitTaken, RecvWait, NilBlock, block_begin, Sleepers
    <2>1. ChanTypeOK'
      BY <1>1, <1>v, <1>m, ConstantsAssumption DEF TypeOK, ChanTypeOK, Index, chanVars
    <2>2. FlagTypeOK'
      BY <1>1 DEF TypeOK, FlagTypeOK, chanVars
    <2>3. ThreadTypeOK'
      BY <1>1 DEF TypeOK, ThreadTypeOK, waitVars, PCs, Parking
    <2>4. SchedTypeOK'
      BY <1>1, <1>b DEF TypeOK, SchedTypeOK, schedVars, Outcomes
    <2>5. HistoryTypeOK'
      BY <1>1, <1>v DEF TypeOK, HistoryTypeOK, history
    <2> QED
      BY <2>1, <2>2, <2>3, <2>4, <2>5 DEF TypeOK
  <1>2. CASE SendPark(t)
    <2> USE DEF SendPark, block_begin, Sleepers, Signal
    <2>1. ChanTypeOK'
      BY <1>2, <1>v, <1>m, ConstantsAssumption DEF TypeOK, ChanTypeOK, Index, chanVars
    <2>2. FlagTypeOK'
      BY <1>2 DEF TypeOK, FlagTypeOK, chanVars
    <2>3. ThreadTypeOK'
      BY <1>2 DEF TypeOK, ThreadTypeOK, waitVars, PCs, Parking
    <2>4. SchedTypeOK'
      BY <1>2, <1>b DEF TypeOK, SchedTypeOK, schedVars, Outcomes
    <2>5. HistoryTypeOK'
      BY <1>2, <1>v DEF TypeOK, HistoryTypeOK, history
    <2> QED
      BY <2>1, <2>2, <2>3, <2>4, <2>5 DEF TypeOK
  <1>3. CASE SendBuffered(t) \/ TrySend(t)
    <2> USE DEF SendBuffered, TrySend, Enqueue, Return, Unblocked, Signal
    <2>1. ChanTypeOK'
      BY <1>3, <1>v, <1>m, ConstantsAssumption DEF TypeOK, ChanTypeOK, Index, chanVars
    <2>2. FlagTypeOK'
      BY <1>3 DEF TypeOK, FlagTypeOK, chanVars
    <2>3. ThreadTypeOK'
      BY <1>3 DEF TypeOK, ThreadTypeOK, waitVars, PCs, Parking
    <2>4. SchedTypeOK'
      BY <1>3, <1>b DEF TypeOK, SchedTypeOK, schedVars, Outcomes
    <2>5. HistoryTypeOK'
      <3>1. sent' = Append(sent, Value(t)) /\ rcvd' = rcvd /\ returned' = returned \cup {Value(t)}
        BY <1>3
      <3> QED
        BY <3>1, <1>v DEF TypeOK, HistoryTypeOK
    <2> QED
      BY <2>1, <2>2, <2>3, <2>4, <2>5 DEF TypeOK
  <1>4. CASE RecvBuffered(t) \/ TryRecv(t)
    <2> USE DEF RecvBuffered, TryRecv, Dequeue, Return, Unblocked
    <2>1. ChanTypeOK'
      BY <1>4, <1>v, <1>m, ConstantsAssumption DEF TypeOK, ChanTypeOK, Index, chanVars
    <2>2. FlagTypeOK'
      BY <1>4 DEF TypeOK, FlagTypeOK, chanVars
    <2>3. ThreadTypeOK'
      BY <1>4 DEF TypeOK, ThreadTypeOK, waitVars, PCs, Parking
    <2>4. SchedTypeOK'
      BY <1>4, <1>b DEF TypeOK, SchedTypeOK, schedVars, Outcomes
    <2>5. HistoryTypeOK'
      <3>1. Capacity > 0 /\ sent' = sent /\ rcvd' = Append(rcvd, buf[head]) /\ returned' = returned
        BY <1>4
      <3> QED
        BY <3>1, <1>h DEF TypeOK, HistoryTypeOK
    <2> QED
      BY <2>1, <2>2, <2>3, <2>4, <2>5 DEF TypeOK
  <1>5. CASE RecvSlot(t) \/ Close(t)
    <2> USE DEF RecvSlot, Close, Return, Unblocked
    <2>1. ChanTypeOK'
      BY <1>5, <1>v, <1>m, ConstantsAssumption DEF TypeOK, ChanTypeOK, Index, chanVars
    <2>2. FlagTypeOK'
      BY <1>5 DEF TypeOK, FlagTypeOK, chanVars
    <2>3. ThreadTypeOK'
      BY <1>5 DEF TypeOK, ThreadTypeOK, waitVars, PCs, Parking
    <2>4. SchedTypeOK'
      BY <1>5, <1>b DEF TypeOK, SchedTypeOK, schedVars, Outcomes
    <2>5. HistoryTypeOK'
      BY <1>5, <1>v, <1>h, AppendProperties DEF TypeOK, HistoryTypeOK, history
    <2> QED
      BY <2>1, <2>2, <2>3, <2>4, <2>5 DEF TypeOK
  <1>6. CASE SendTaken(t) \/ RecvClosed(t) \/ TrySendNotReady(t) \/ TryRecvNothing(t)
    <2> USE DEF SendTaken, RecvClosed, TrySendNotReady, TryRecvNothing, Return, Unblocked
    <2>1. ChanTypeOK'
      BY <1>6, <1>v, <1>m, ConstantsAssumption DEF TypeOK, ChanTypeOK, Index, chanVars
    <2>2. FlagTypeOK'
      BY <1>6 DEF TypeOK, FlagTypeOK, chanVars
    <2>3. ThreadTypeOK'
      BY <1>6 DEF TypeOK, ThreadTypeOK, waitVars, PCs, Parking
    <2>4. SchedTypeOK'
      BY <1>6, <1>b DEF TypeOK, SchedTypeOK, schedVars, Outcomes
    <2>5. HistoryTypeOK'
      BY <1>6, <1>v DEF TypeOK, HistoryTypeOK, history
    <2> QED
      BY <2>1, <2>2, <2>3, <2>4, <2>5 DEF TypeOK
  <1>7. CASE SendOnClosed(t) \/ SendUntaken(t) \/ CloseClosed(t) \/ TrySendClosed(t)
    <2> USE DEF SendOnClosed, SendUntaken, CloseClosed, TrySendClosed, Panic
    <2>1. ChanTypeOK'
      BY <1>7, <1>v, <1>m, ConstantsAssumption DEF TypeOK, ChanTypeOK, Index, chanVars
    <2>2. FlagTypeOK'
      BY <1>7 DEF TypeOK, FlagTypeOK, chanVars
    <2>3. ThreadTypeOK'
      BY <1>7 DEF TypeOK, ThreadTypeOK, waitVars, PCs, Parking
    <2>4. SchedTypeOK'
      BY <1>7, <1>b DEF TypeOK, SchedTypeOK, schedVars, Outcomes
    <2>5. HistoryTypeOK'
      BY <1>7, <1>v DEF TypeOK, HistoryTypeOK, history
    <2> QED
      BY <2>1, <2>2, <2>3, <2>4, <2>5 DEF TypeOK
  <1>8. CASE GoroutineExit(t) \/ SpuriousWakeup(t)
    <2> USE DEF GoroutineExit, SpuriousWakeup
    <2>1. ChanTypeOK'
      BY <1>8, <1>v, <1>m, ConstantsAssumption DEF TypeOK, ChanTypeOK, Index, chanVars
    <2>2. FlagTypeOK'
      BY <1>8 DEF TypeOK, FlagTypeOK, chanVars
    <2>3. ThreadTypeOK'
      BY <1>8 DEF TypeOK, ThreadTypeOK, waitVars, PCs, Parking
    <2>4. SchedTypeOK'
      BY <1>8, <1>b DEF TypeOK, SchedTypeOK, schedVars, Outcomes
    <2>5. HistoryTypeOK'
      BY <1>8, <1>v DEF TypeOK, HistoryTypeOK, history
    <2> QED
      BY <2>1, <2>2, <2>3, <2>4, <2>5 DEF TypeOK
  <1> QED
    BY <1>1, <1>2, <1>3, <1>4, <1>5, <1>6, <1>7, <1>8
    DEF Step, goo_chan_send, goo_chan_recv, goo_chan_close,
        goo_select, goo_chan_try_send, goo_chan_try_recv

\* So do main's return and the polling loop of goo_scheduler_wait.
LEMMA MainType == ASSUME TypeOK, MainStep PROVE TypeOK'
  <1> USE DEF MainReturn, WaitPoll, WaitDone, Return
  <1>1. ChanTypeOK'
    BY DEF TypeOK, ChanTypeOK, Index, chanVars, MainStep
  <1>2. FlagTypeOK'
    BY DEF TypeOK, FlagTypeOK, chanVars, MainStep
  <1>3. ThreadTypeOK'
    BY DEF TypeOK, ThreadTypeOK, waitVars, PCs, MainStep
  <1>4. SchedTypeOK'
    BY DEF TypeOK, SchedTypeOK, schedVars, Outcomes, MainStep
  <1>5. HistoryTypeOK'
    BY DEF TypeOK, HistoryTypeOK, history, MainStep
  <1> QED
    BY <1>1, <1>2, <1>3, <1>4, <1>5 DEF TypeOK

-----------------------------------------------------------------------------
(* Wakeups *)

\* Places is kept by every step of a thread.
LEMMA PlacesStep ==
    ASSUME TypeOK, Places, NEW t \in Threads, Step(t) \/ SpuriousWakeup(t)
    PROVE  Places'
  <1> USE DEF Places, SenderPlaces, TypeOK, ThreadTypeOK, CanRun, Doing, Asleep, Woken
  <1>1. CASE SendWaitFull(t)
    BY <1>1 DEF SendWaitFull, block_begin, Sleepers
  <1>2. CASE SendWaitSlot(t)
    BY <1>2 DEF SendWaitSlot, block_begin, Sleepers
  <1>3. CASE SendPark(t)
    BY <1>3 DEF SendPark, block_begin, Sleepers, Signal
  <1>4. CASE SendWaitTaken(t)
    BY <1>4 DEF SendWaitTaken, block_begin, Sleepers
  <1>5. CASE RecvWait(t)
    BY <1>5 DEF RecvWait, block_begin, Sleepers
  <1>6. CASE NilBlock(t)
    BY <1>6 DEF NilBlock, block_begin, waitVars
  <1>7. CASE SendBuffered(t) \/ TrySend(t)
    BY <1>7 DEF SendBuffered, TrySend, Enqueue, Signal, Return
  <1>8. CASE RecvBuffered(t) \/ TryRecv(t)
    BY <1>8 DEF RecvBuffered, TryRecv, Dequeue, Return
  <1>9. CASE RecvSlot(t) \/ Close(t) \/ SpuriousWakeup(t)
    BY <1>9 DEF RecvSlot, Close, Return, SpuriousWakeup
  <1>10. CASE SendTaken(t) \/ RecvClosed(t) \/ TrySendNotReady(t) \/ TryRecvNothing(t)
    BY <1>10 DEF SendTaken, RecvClosed, TrySendNotReady, TryRecvNothing, Return, waitVars
  <1>11. CASE SendOnClosed(t) \/ SendUntaken(t) \/ CloseClosed(t) \/ TrySendClosed(t)
    BY <1>11 DEF SendOnClosed, SendUntaken, CloseClosed, TrySendClosed, Panic, waitVars
  <1>12. CASE GoroutineExit(t)
    BY <1>12 DEF GoroutineExit, waitVars
  <1> QED
    BY <1>1, <1>2, <1>3, <1>4, <1>5, <1>6, <1>7, <1>8, <1>9, <1>10, <1>11, <1>12
    DEF Step, goo_chan_send, goo_chan_recv, goo_chan_close,
        goo_select, goo_chan_try_send, goo_chan_try_recv

\* No sender is left asleep by a channel that has room: the broadcasts of
\* goo_chan_recv and goo_chan_try_recv reach both kinds of waiting sender.
LEMMA SendersWokenStep ==
    ASSUME TypeOK, Places, SendersWoken, NEW t \in Threads, Step(t) \/ SpuriousWakeup(t)
    PROVE  SendersWoken'
  <1> USE ConstantsAssumption DEF Places, SendersWoken, TypeOK, ThreadTypeOK, ChanTypeOK, CanRun, Doing, chanVars, waitVars
  <1>1. CASE SendWaitFull(t)
    BY <1>1 DEF SendWaitFull, block_begin, Sleepers
  <1>2. CASE SendWaitSlot(t)
    BY <1>2 DEF SendWaitSlot, block_begin, Sleepers
  <1>3. CASE SendPark(t)
    BY <1>3 DEF SendPark, block_begin, Sleepers, Signal
  <1>4. CASE SendWaitTaken(t)
    BY <1>4 DEF SendWaitTaken, block_begin, Sleepers
  <1>5. CASE RecvWait(t)
    BY <1>5 DEF RecvWait, block_begin, Sleepers
  <1>6. CASE NilBlock(t)
    BY <1>6 DEF NilBlock, block_begin, waitVars
  <1>7. CASE SendBuffered(t) \/ TrySend(t)
    BY <1>7 DEF SendBuffered, TrySend, Enqueue, Signal, Return
  <1>8. CASE RecvBuffered(t) \/ TryRecv(t)
    BY <1>8 DEF RecvBuffered, TryRecv, Dequeue, Return
  <1>9. CASE RecvSlot(t) \/ Close(t) \/ SpuriousWakeup(t)
    BY <1>9 DEF RecvSlot, Close, Return, SpuriousWakeup
  <1>10. CASE SendTaken(t) \/ RecvClosed(t) \/ TrySendNotReady(t) \/ TryRecvNothing(t)
    BY <1>10 DEF SendTaken, RecvClosed, TrySendNotReady, TryRecvNothing, Return, waitVars
  <1>11. CASE SendOnClosed(t) \/ SendUntaken(t) \/ CloseClosed(t) \/ TrySendClosed(t)
    BY <1>11 DEF SendOnClosed, SendUntaken, CloseClosed, TrySendClosed, Panic, waitVars
  <1>12. CASE GoroutineExit(t)
    BY <1>12 DEF GoroutineExit, waitVars
  <1> QED
    BY <1>1, <1>2, <1>3, <1>4, <1>5, <1>6, <1>7, <1>8, <1>9, <1>10, <1>11, <1>12
    DEF Step, goo_chan_send, goo_chan_recv, goo_chan_close,
        goo_select, goo_chan_try_send, goo_chan_try_recv

\* No receiver is left asleep by a value nobody is coming for, although a
\* send signals only one: signals in flight are never fewer than values.
LEMMA ReceiversWokenStep ==
    ASSUME TypeOK, Places, ReceiversWoken, NEW t \in Threads, Step(t) \/ SpuriousWakeup(t)
    PROVE  ReceiversWoken'
  <1> USE ConstantsAssumption DEF Places, SenderPlaces, TypeOK, FlagTypeOK, ThreadTypeOK, ChanTypeOK, CanRun, Doing, Woken, Asleep, chanVars, waitVars
  <1>0. Cardinality(WokenReceivers) \in Nat /\ IsFiniteSet(WokenReceivers)
    BY WokenFinite
  <1>s. ASSUME NEW w \in not_empty, not_empty' = not_empty \ {w}, w # t, pc[t] # "recv_wait",
               \E p \in PCs : p # "recv_wait" /\ pc' = [pc EXCEPT ![t] = p]
        PROVE  Cardinality(WokenReceivers') = Cardinality(WokenReceivers) + 1
    <2>1. WokenReceivers' = WokenReceivers \cup {w}
      BY <1>s DEF WokenReceivers
    <2>2. w \notin WokenReceivers
      BY <1>s DEF WokenReceivers
    <2> QED
      BY <2>1, <2>2, <1>0, FS_AddElement
  <1>f. ASSUME not_empty' = not_empty, closed' = closed, Available' = Available,
               WokenReceivers' = WokenReceivers
        PROVE  ReceiversWoken'
    BY <1>f DEF ReceiversWoken
  <1>1. CASE SendWaitFull(t) \/ SendWaitSlot(t) \/ SendWaitTaken(t) \/ NilBlock(t)
    <2>1. not_empty' = not_empty /\ closed' = closed /\ Available' = Available
      BY <1>1 DEF SendWaitFull, SendWaitSlot, SendWaitTaken, NilBlock, Available
    <2>2. WokenReceivers' = WokenReceivers
      BY <1>1 DEF SendWaitFull, SendWaitSlot, SendWaitTaken, NilBlock, block_begin, WokenReceivers
    <2> QED
      BY <1>f, <2>1, <2>2
  <1>2. CASE SendPark(t)
    <2> SUFFICES ASSUME not_empty # {} PROVE ReceiversWoken'
      BY <1>2 DEF SendPark, Signal, ReceiversWoken
    <2>1. PICK w \in not_empty : not_empty' = not_empty \ {w}
      BY <1>2 DEF SendPark, Signal
    <2>2. Cardinality(WokenReceivers') = Cardinality(WokenReceivers) + 1
      BY <1>2, <1>s, <2>1 DEF SendPark, block_begin, PCs, Parking
    <2> QED
      BY <1>2, <1>0, <2>2 DEF SendPark, ReceiversWoken, Available
  <1>3. CASE RecvWait(t)
    <2>1. Available' = 0 /\ ~closed'
      BY <1>3 DEF RecvWait, NothingToTake, Available
    <2>2. Cardinality(WokenReceivers') \in Nat
      BY ThreadsFinite, FS_Subset, FS_CardinalityType DEF WokenReceivers
    <2> QED
      BY <2>1, <2>2 DEF ReceiversWoken
  <1>4. CASE SendBuffered(t) \/ TrySend(t)
    <2> SUFFICES ASSUME not_empty # {} PROVE ReceiversWoken'
      BY <1>4 DEF SendBuffered, TrySend, Enqueue, Signal, ReceiversWoken
    <2>1. PICK w \in not_empty : not_empty' = not_empty \ {w}
      BY <1>4 DEF SendBuffered, TrySend, Enqueue, Signal
    <2>2. Cardinality(WokenReceivers') = Cardinality(WokenReceivers) + 1
      BY <1>4, <1>s, <2>1 DEF SendBuffered, TrySend, Return, PCs, Parking
    <2> QED
      BY <1>4, <1>0, <2>2 DEF SendBuffered, TrySend, Enqueue, ReceiversWoken, Available
  <1>5. CASE RecvBuffered(t) \/ TryRecv(t) \/ RecvSlot(t)
    <2>1. not_empty' = not_empty /\ closed' = closed /\ Available' = Available - 1
      BY <1>5 DEF RecvBuffered, TryRecv, RecvSlot, Dequeue, Available
    <2>2. WokenReceivers' = WokenReceivers \ {t}
      BY <1>5, <2>1 DEF RecvBuffered, TryRecv, RecvSlot, Return, WokenReceivers
    <2>3. Cardinality(WokenReceivers \ {t}) \in Nat
          /\ Cardinality(WokenReceivers \ {t}) >= Cardinality(WokenReceivers) - 1
      BY <1>0, RemoveOne
    <2>4. Available \in Nat
      BY DEF Available
    <2> QED
      BY <2>1, <2>2, <2>3, <2>4, <1>0 DEF ReceiversWoken
  <1>6. CASE SpuriousWakeup(t)
    <2>1. WokenReceivers \subseteq WokenReceivers'
      BY <1>6 DEF SpuriousWakeup, WokenReceivers
    <2>2. IsFiniteSet(WokenReceivers')
      BY ThreadsFinite, FS_Subset DEF WokenReceivers
    <2>3. /\ Cardinality(WokenReceivers) <= Cardinality(WokenReceivers')
          /\ Cardinality(WokenReceivers') \in Nat
      BY <2>1, <2>2, FS_Subset, FS_CardinalityType
    <2>4. Available \in Nat /\ Available' = Available
      BY <1>6 DEF SpuriousWakeup, Available
    <2> QED
      BY <1>6, <2>3, <2>4, <1>0 DEF SpuriousWakeup, ReceiversWoken
  <1>7. CASE SendTaken(t) \/ TrySendNotReady(t) \/ TryRecvNothing(t)
    <2>1. not_empty' = not_empty /\ closed' = closed /\ Available' = Available
      BY <1>7 DEF SendTaken, TrySendNotReady, TryRecvNothing, Available
    <2>2. WokenReceivers' = WokenReceivers
      BY <1>7 DEF SendTaken, TrySendNotReady, TryRecvNothing, Return, WokenReceivers
    <2> QED
      BY <1>f, <2>1, <2>2
  <1>8. CASE GoroutineExit(t)
    <2>1. not_empty' = not_empty /\ closed' = closed /\ Available' = Available
      BY <1>8 DEF GoroutineExit, Available
    <2>2. WokenReceivers' = WokenReceivers
      BY <1>8 DEF GoroutineExit, WokenReceivers
    <2> QED
      BY <1>f, <2>1, <2>2
  <1>9. CASE \/ Close(t) \/ RecvClosed(t) \/ SendOnClosed(t) \/ SendUntaken(t)
             \/ CloseClosed(t) \/ TrySendClosed(t)
    <2>1. not_empty' = {}
      BY <1>9 DEF Close, RecvClosed, SendOnClosed, SendUntaken, CloseClosed, TrySendClosed, Panic, ReceiversWoken
    <2> QED
      BY <2>1 DEF ReceiversWoken
  <1> QED
    BY <1>1, <1>2, <1>3, <1>4, <1>5, <1>6, <1>7, <1>8, <1>9
    DEF Step, goo_chan_send, goo_chan_recv, goo_chan_close,
        goo_select, goo_chan_try_send, goo_chan_try_recv

-----------------------------------------------------------------------------
(* The contents of the channel *)

\* Contents is a sequence of values, as long as the channel says it is.
LEMMA ContentsType == TypeOK => Contents \in Seq(Values) /\ Len(Contents) = Available
  <1> SUFFICES ASSUME TypeOK PROVE Contents \in Seq(Values) /\ Len(Contents) = Available
    OBVIOUS
  <1> USE ConstantsAssumption DEF TypeOK, ChanTypeOK, FlagTypeOK, Index
  <1>1. CASE Capacity > 0
    <2>1. \A i \in 1..length : (head + i - 1) % Capacity \in 0..(Capacity - 1)
      BY <1>1
    <2>2. Contents = [i \in 1..length |-> buf[(head + i - 1) % Capacity]]
      BY <1>1 DEF Contents
    <2> QED
      BY <1>1, <2>1, <2>2 DEF Available
  <1>2. CASE Capacity = 0
    BY <1>2 DEF Contents, Available
  <1> QED
    BY <1>1, <1>2

\* The same after a step.
LEMMA ContentsTypeNext ==
    TypeOK' => (Contents \in Seq(Values) /\ Len(Contents) = Available)'
  BY ContentsType, PTL

\* Storing at tail appends to the contents, wherever the ring has wrapped.
LEMMA EnqueueContents ==
    ASSUME TypeOK, TypeOK', Ring, Capacity > 0, length < Capacity, NEW v \in Values, Enqueue(v)
    PROVE  Contents' = Append(Contents, v) /\ Ring'
  <1> USE ConstantsAssumption DEF TypeOK, ChanTypeOK, Index
  <1>1. buf' = [buf EXCEPT ![tail] = v] /\ length' = length + 1 /\ head' = head
        /\ tail' = (tail + 1) % Capacity
    BY DEF Enqueue
  <1>2. tail = IF head + length < Capacity THEN head + length ELSE head + length - Capacity
    BY ModWrap DEF Ring
  <1>3. \A i \in 1..length :
          /\ (head + i - 1) % Capacity \in 0..(Capacity - 1)
          /\ (head + i - 1) % Capacity # tail
    <2> SUFFICES ASSUME NEW i \in 1..length
                 PROVE  /\ (head + i - 1) % Capacity \in 0..(Capacity - 1)
                        /\ (head + i - 1) % Capacity # tail
      OBVIOUS
    <2>1. (head + i - 1) % Capacity =
            IF head + i - 1 < Capacity THEN head + i - 1 ELSE head + i - 1 - Capacity
      BY ModWrap
    <2> QED
      BY <2>1, <1>2
  <1>4. (head + (length + 1) - 1) % Capacity = tail
    BY DEF Ring
  <1>5. Contents \in Seq(Values) /\ Len(Contents) = length
    BY ContentsType DEF Available
  <1>6. Contents = [i \in 1..length |-> buf[(head + i - 1) % Capacity]]
        /\ Contents' = [i \in 1..(length + 1) |-> buf'[(head + i - 1) % Capacity]]
    BY <1>1 DEF Contents
  <1>7. \A i \in 1..length : Contents'[i] = Contents[i]
    BY <1>1, <1>3, <1>6
  <1>8. Contents'[length + 1] = v
    BY <1>1, <1>4, <1>6
  <1>9. Contents' \in Seq(Values) /\ Len(Contents') = length + 1
    BY <1>1, ContentsTypeNext DEF Available
  <1>10. Contents' = Append(Contents, v)
    <2> DEFINE s == Contents'
    <2> DEFINE u == Append(Contents, v)
    <2>1. u \in Seq(Values) /\ Len(u) = length + 1
      BY <1>5
    <2>2. \A i \in 1..(length + 1) : s[i] = u[i]
      BY <1>5, <1>7, <1>8
    <2> HIDE DEF s, u
    <2>3. s \in Seq(Values) /\ Len(s) = length + 1
      BY <1>9 DEF s
    <2>4. s = u
      BY <2>1, <2>2, <2>3, SeqEqual
    <2> QED
      BY <2>4 DEF s, u
  <1>11. Ring'
    <2>1. (tail + 1) % Capacity = IF tail + 1 < Capacity THEN tail + 1 ELSE tail + 1 - Capacity
      BY ModWrap
    <2>2. (head + (length + 1)) % Capacity =
            IF head + length + 1 < Capacity THEN head + length + 1 ELSE head + length + 1 - Capacity
      BY ModWrap
    <2> QED
      BY <1>1, <1>2, <2>1, <2>2 DEF Ring
  <1> QED
    BY <1>10, <1>11

\* Taking from head removes the oldest value.
LEMMA DequeueContents ==
    ASSUME TypeOK, TypeOK', Ring, Capacity > 0, length > 0, Dequeue
    PROVE  /\ Contents # <<>> /\ Head(Contents) = buf[head]
           /\ Contents' = Tail(Contents)
           /\ Ring'
  <1> USE ConstantsAssumption DEF TypeOK, ChanTypeOK, Index
  <1>1. buf' = buf /\ length' = length - 1 /\ head' = (head + 1) % Capacity
        /\ tail' = tail
    BY DEF Dequeue
  <1>2. Contents \in Seq(Values) /\ Len(Contents) = length
    BY ContentsType DEF Available
  <1>3. Contents = [i \in 1..length |-> buf[(head + i - 1) % Capacity]]
        /\ Contents' = [i \in 1..(length - 1) |-> buf[(head' + i - 1) % Capacity]]
    BY <1>1 DEF Contents
  <1>4. (head + 1 - 1) % Capacity = head
    BY ModWrap
  <1>5. \A i \in 1..(length - 1) : (head' + i - 1) % Capacity = (head + (i + 1) - 1) % Capacity
    <2> SUFFICES ASSUME NEW i \in 1..(length - 1)
                 PROVE  (head' + i - 1) % Capacity = (head + (i + 1) - 1) % Capacity
      OBVIOUS
    <2>1. head' = IF head + 1 < Capacity THEN head + 1 ELSE 0
      BY <1>1, ModWrap
    <2>2. (head' + i - 1) % Capacity =
            IF head' + i - 1 < Capacity THEN head' + i - 1 ELSE head' + i - 1 - Capacity
      BY <2>1, ModWrap
    <2>3. (head + (i + 1) - 1) % Capacity =
            IF head + i < Capacity THEN head + i ELSE head + i - Capacity
      BY ModWrap
    <2> QED
      BY <2>1, <2>2, <2>3
  <1>6. Contents # <<>> /\ Head(Contents) = buf[head]
    <2>1. Contents[1] = buf[(head + 1 - 1) % Capacity]
      BY <1>3
    <2>2. Contents # <<>>
      BY <1>2
    <2>3. Head(Contents) = Contents[1]
      BY <1>2
    <2> QED
      BY <1>4, <2>1, <2>2, <2>3
  <1>7. \A i \in 1..(length - 1) : Contents'[i] = Contents[i + 1]
    <2> SUFFICES ASSUME NEW i \in 1..(length - 1) PROVE Contents'[i] = Contents[i + 1]
      OBVIOUS
    <2>1. Contents'[i] = buf[(head' + i - 1) % Capacity]
      BY <1>3
    <2>2. i + 1 \in 1..length
      OBVIOUS
    <2>3. Contents[i + 1] = buf[(head + (i + 1) - 1) % Capacity]
      BY <1>3, <2>2
    <2> QED
      BY <1>5, <2>1, <2>3
  <1>8. Contents' = Tail(Contents)
    <2> DEFINE s == Contents'
    <2> DEFINE u == Tail(Contents)
    <2>1. u \in Seq(Values) /\ Len(u) = length - 1 /\ \A i \in 1..(length - 1) : u[i] = Contents[i + 1]
      BY <1>2, <1>6, HeadTailProperties
    <2>2. s \in Seq(Values) /\ Len(s) = length - 1
      BY <1>1, ContentsTypeNext DEF Available
    <2>3. \A i \in 1..(length - 1) : s[i] = Contents[i + 1]
      BY <1>7
    <2> HIDE DEF s, u
    <2>4. s = u
      BY <2>1, <2>2, <2>3, SeqEqual
    <2> QED
      BY <2>4 DEF s, u
  <1>9. Ring'
    <2>1. head' = IF head + 1 < Capacity THEN head + 1 ELSE 0
      BY <1>1, ModWrap
    <2>2. (head' + (length - 1)) % Capacity =
            IF head' + length - 1 < Capacity THEN head' + length - 1 ELSE head' + length - 1 - Capacity
      BY <2>1, ModWrap
    <2>3. tail = IF head + length < Capacity THEN head + length ELSE head + length - Capacity
      BY ModWrap DEF Ring
    <2> QED
      BY <1>1, <2>1, <2>2, <2>3 DEF Ring
  <1> QED
    BY <1>6, <1>8, <1>9

\* Order, loss and duplication: every step keeps the history in agreement
\* with the channel's memory.
LEMMA FIFOStep ==
    ASSUME TypeOK, TypeOK', Ring, FIFO, NEW t \in Threads, Step(t) \/ SpuriousWakeup(t)
    PROVE  Ring' /\ FIFO'
  <1>t. /\ Value(t) \in Values /\ rcvd \in Seq(Values) /\ sent \in Seq(Values)
        /\ rv_full \in BOOLEAN /\ Capacity \in Nat
    BY ConstantsAssumption DEF TypeOK, ThreadTypeOK, HistoryTypeOK, FlagTypeOK, Value, Values
  <1>c. Contents \in Seq(Values) /\ Contents' \in Seq(Values)
    BY ContentsType, ContentsTypeNext
  <1>e. ASSUME sent' = Append(sent, Value(t)), rcvd' = rcvd, Contents' = Append(Contents, Value(t))
        PROVE  FIFO'
    <2>1. Append(rcvd \o Contents, Value(t)) = (rcvd \o Contents) \o <<Value(t)>>
      BY <1>t, <1>c, ConcatProperties, AppendIsConcat
    <2>2. Append(Contents, Value(t)) = Contents \o <<Value(t)>>
      BY <1>t, <1>c, AppendIsConcat
    <2>3. (rcvd \o Contents) \o <<Value(t)>> = rcvd \o (Contents \o <<Value(t)>>)
      BY <1>t, <1>c, ConcatAssociative
    <2> QED
      BY <1>e, <2>1, <2>2, <2>3 DEF FIFO
  <1>d. ASSUME sent' = sent, Contents # <<>>, rcvd' = Append(rcvd, Head(Contents)), Contents' = Tail(Contents)
        PROVE  FIFO'
    <2>1. rcvd \o Contents = Append(rcvd, Head(Contents)) \o Tail(Contents)
      BY <1>t, <1>c, <1>d
    <2> QED
      BY <1>d, <2>1 DEF FIFO
  <1>1. CASE SendBuffered(t) \/ TrySend(t)
    <2>1. Contents' = Append(Contents, Value(t)) /\ Ring'
      BY <1>1, <1>t, EnqueueContents DEF SendBuffered, TrySend
    <2> QED
      BY <1>1, <1>e, <2>1 DEF SendBuffered, TrySend, Enqueue
  <1>2. CASE RecvBuffered(t) \/ TryRecv(t)
    <2>1. Contents # <<>> /\ Head(Contents) = buf[head] /\ Contents' = Tail(Contents) /\ Ring'
      BY <1>2, DequeueContents DEF RecvBuffered, TryRecv
    <2> QED
      BY <1>2, <1>d, <2>1 DEF RecvBuffered, TryRecv, Dequeue
  <1>3. CASE SendPark(t)
    <2>1. Contents = <<>> /\ Contents' = <<Value(t)>> /\ Ring'
      BY <1>3, <1>t DEF SendPark, Contents, Ring
    <2> QED
      BY <1>3, <1>e, <1>t, <2>1 DEF SendPark
  <1>4. CASE RecvSlot(t)
    <2>1. Contents = <<rv_slot>> /\ Contents' = <<>> /\ Ring'
      BY <1>4, <1>t DEF RecvSlot, Contents, Ring
    <2> QED
      BY <1>4, <1>d, <1>c, <2>1 DEF RecvSlot
  <1>5. CASE UNCHANGED <<buf, head, tail, length, rv_slot, rv_full, sent, rcvd>>
    BY <1>5 DEF FIFO, Ring, Contents
  <1>6. CASE Close(t) \/ SpuriousWakeup(t)
    BY <1>6, <1>5 DEF Close, SpuriousWakeup, chanVars, history
  <1>7. CASE SendWaitFull(t) \/ SendWaitSlot(t) \/ SendWaitTaken(t) \/ RecvWait(t) \/ NilBlock(t)
    BY <1>7, <1>5 DEF SendWaitFull, SendWaitSlot, SendWaitTaken, RecvWait, NilBlock, chanVars, history
  <1>8. CASE \/ SendTaken(t) \/ RecvClosed(t) \/ TrySendNotReady(t) \/ TryRecvNothing(t)
             \/ GoroutineExit(t)
    BY <1>8, <1>5 DEF SendTaken, RecvClosed, TrySendNotReady, TryRecvNothing, GoroutineExit, chanVars, history
  <1>9. CASE SendOnClosed(t) \/ SendUntaken(t) \/ CloseClosed(t) \/ TrySendClosed(t)
    BY <1>9, <1>5 DEF SendOnClosed, SendUntaken, CloseClosed, TrySendClosed, Panic, chanVars, history
  <1> QED
    BY <1>1, <1>2, <1>3, <1>4, <1>6, <1>7, <1>8, <1>9
    DEF Step, goo_chan_send, goo_chan_recv, goo_chan_close,
        goo_select, goo_chan_try_send, goo_chan_try_recv

\* A rendezvous send that returns has been received.
LEMMA HandedStep ==
    ASSUME TypeOK, Handed, RendezvousDelivers,
           NEW t \in Threads, Step(t) \/ SpuriousWakeup(t)
    PROVE  Handed' /\ RendezvousDelivers'
  <1> SUFFICES ASSUME Capacity = 0 PROVE Handed' /\ RendezvousDelivers'
    BY DEF Handed, RendezvousDelivers
  <1> USE DEF Handed, RendezvousDelivers, TypeOK, ThreadTypeOK, HistoryTypeOK, ChanTypeOK, Value
  <1>1. CASE SendPark(t)
    BY <1>1 DEF SendPark, block_begin
  <1>2. CASE RecvSlot(t)
    <2>1. \A v : (v = rv_slot \/ \E i \in 1..Len(rcvd) : rcvd[i] = v)
                 => \E i \in 1..Len(rcvd') : rcvd'[i] = v
      BY <1>2 DEF RecvSlot
    <2> QED
      BY <1>2, <2>1 DEF RecvSlot, Return
  <1>3. CASE SendTaken(t)
    BY <1>3 DEF SendTaken, Return, chanVars
  <1>f. ASSUME UNCHANGED <<rcvd, returned, rv_slot>>, rv_full' = rv_full,
               \A u \in Threads : pc'[u] = "send_taken" => pc[u] = "send_taken" /\ ip'[u] = ip[u]
        PROVE  Handed' /\ RendezvousDelivers'
    BY <1>f
  <1>4. CASE SendWaitSlot(t) \/ SendWaitTaken(t) \/ RecvWait(t) \/ NilBlock(t)
    BY <1>4, <1>f DEF SendWaitSlot, SendWaitTaken, RecvWait, NilBlock, block_begin, chanVars, history
  <1>5. CASE RecvClosed(t) \/ TrySendNotReady(t) \/ TryRecvNothing(t)
    BY <1>5, <1>f DEF RecvClosed, TrySendNotReady, TryRecvNothing, Return, chanVars, history
  <1>6. CASE GoroutineExit(t) \/ Close(t) \/ SpuriousWakeup(t)
    BY <1>6, <1>f DEF GoroutineExit, Close, SpuriousWakeup, Return, chanVars, history
  <1>7. CASE SendOnClosed(t) \/ SendUntaken(t) \/ CloseClosed(t) \/ TrySendClosed(t)
    BY <1>7, <1>f DEF SendOnClosed, SendUntaken, CloseClosed, TrySendClosed, Panic, chanVars, history
  <1>8. CASE \/ SendWaitFull(t) \/ SendBuffered(t) \/ TrySend(t)
             \/ RecvBuffered(t) \/ TryRecv(t)
    BY <1>8 DEF SendWaitFull, SendBuffered, TrySend, RecvBuffered, TryRecv
  <1> QED
    BY <1>1, <1>2, <1>3, <1>4, <1>5, <1>6, <1>7, <1>8
    DEF Step, goo_chan_send, goo_chan_recv, goo_chan_close,
        goo_select, goo_chan_try_send, goo_chan_try_recv

-----------------------------------------------------------------------------
(* The deadlock detector *)

\* goo_sched_block_begin counts a goroutine once, also when it re-parks.
LEMMA BlockCounts ==
    ASSUME TypeOK, CountersExact, NEW t \in Threads, CanRun(t),
           NEW place \in Parking \cup {"nil_block"}, block_begin(t, place)
    PROVE  CountersExact'
  <1> USE DEF TypeOK, ThreadTypeOK, SchedTypeOK, block_begin
  <1>1. LiveGoroutines' = LiveGoroutines /\ num_goroutines' = num_goroutines
    BY DEF LiveGoroutines, CanRun, Woken, Parking
  <1>2. CASE t = Main
    <2>1. BlockedGoroutines' = BlockedGoroutines
      BY <1>2, ConstantsAssumption DEF BlockedGoroutines
    <2> QED
      BY <1>1, <1>2, <2>1 DEF CountersExact
  <1>3. CASE t # Main /\ pc[t] \in Parking
    <2>1. t \in BlockedGoroutines /\ BlockedGoroutines' = BlockedGoroutines
      BY <1>3 DEF BlockedGoroutines
    <2>2. blocked > 0
      BY <2>1, GoroutineSetsFinite, FS_EmptySet DEF CountersExact
    <2>3. blocked' = blocked
      BY <1>3, <2>2 DEF block_end
    <2> QED
      BY <1>1, <2>1, <2>3 DEF CountersExact
  <1>4. CASE t # Main /\ pc[t] = "run"
    <2>1. t \notin BlockedGoroutines /\ BlockedGoroutines' = BlockedGoroutines \cup {t}
      BY <1>4 DEF BlockedGoroutines, Parking
    <2>2. blocked' = blocked + 1
      BY <1>4 DEF block_end, Parking
    <2>3. Cardinality(BlockedGoroutines \cup {t}) = Cardinality(BlockedGoroutines) + 1
      BY <2>1, GoroutineSetsFinite, FS_AddElement
    <2> QED
      BY <1>1, <2>1, <2>2, <2>3 DEF CountersExact
  <1> QED
    BY <1>2, <1>3, <1>4 DEF CanRun, Woken

\* goo_sched_block_end takes it back, on every way out of the wait.
LEMMA UnblockCounts ==
    ASSUME TypeOK, CountersExact, NEW t \in Threads, CanRun(t),
           NEW place \in {"run", "panicked"}, pc' = [pc EXCEPT ![t] = place],
           blocked' = block_end(t), num_goroutines' = num_goroutines
    PROVE  CountersExact'
  <1> USE DEF TypeOK, ThreadTypeOK, SchedTypeOK
  <1>1. LiveGoroutines' = LiveGoroutines
    BY DEF LiveGoroutines, CanRun, Woken, Parking
  <1>2. CASE t = Main \/ pc[t] = "run"
    <2>1. BlockedGoroutines' = BlockedGoroutines
      BY <1>2, ConstantsAssumption DEF BlockedGoroutines, Parking
    <2>2. blocked' = blocked
      BY <1>2 DEF block_end, Parking
    <2> QED
      BY <1>1, <2>1, <2>2 DEF CountersExact
  <1>3. CASE t # Main /\ pc[t] \in Parking
    <2>1. t \in BlockedGoroutines /\ BlockedGoroutines' = BlockedGoroutines \ {t}
      BY <1>3 DEF BlockedGoroutines, Parking
    <2>2. blocked > 0
      BY <2>1, GoroutineSetsFinite, FS_EmptySet DEF CountersExact
    <2>3. blocked' = blocked - 1
      BY <1>3, <2>2 DEF block_end
    <2>4. Cardinality(BlockedGoroutines \ {t}) = Cardinality(BlockedGoroutines) - 1
      BY <2>1, GoroutineSetsFinite, FS_RemoveElement
    <2> QED
      BY <1>1, <2>1, <2>3, <2>4 DEF CountersExact
  <1> QED
    BY <1>2, <1>3 DEF CanRun, Woken

\* The detector's counters stay exact.
LEMMA CountersStep ==
    ASSUME TypeOK, CountersExact, NEW t \in Threads, Step(t) \/ SpuriousWakeup(t)
    PROVE  CountersExact'
  <1> USE DEF Doing
  <1>1. CASE \/ SendWaitFull(t) \/ SendWaitSlot(t) \/ SendPark(t) \/ SendWaitTaken(t)
             \/ RecvWait(t) \/ NilBlock(t)
    BY <1>1, BlockCounts DEF SendWaitFull, SendWaitSlot, SendPark, SendWaitTaken, RecvWait, NilBlock, Parking
  <1>2. CASE SendOnClosed(t) \/ SendUntaken(t) \/ CloseClosed(t) \/ TrySendClosed(t)
    BY <1>2, UnblockCounts DEF SendOnClosed, SendUntaken, CloseClosed, TrySendClosed, Panic
  <1>3. CASE \/ SendBuffered(t) \/ SendTaken(t) \/ RecvClosed(t) \/ RecvBuffered(t) \/ RecvSlot(t)
    BY <1>3, UnblockCounts
    DEF SendBuffered, SendTaken, RecvClosed, RecvBuffered, RecvSlot, Return, Unblocked
  <1>4. CASE \/ Close(t) \/ TrySend(t) \/ TrySendNotReady(t) \/ TryRecv(t) \/ TryRecvNothing(t)
    BY <1>4, UnblockCounts
    DEF Close, TrySend, TrySendNotReady, TryRecv, TryRecvNothing, Return, Unblocked
  <1>5. CASE GoroutineExit(t)
    <2>1. pc[t] = "run" /\ t \in Goroutines /\ pc' = [pc EXCEPT ![t] = "exited"]
          /\ num_goroutines' = num_goroutines - 1 /\ blocked' = blocked
      BY <1>5 DEF GoroutineExit
    <2>2. BlockedGoroutines' = BlockedGoroutines
      BY <2>1 DEF BlockedGoroutines, Parking, TypeOK, ThreadTypeOK
    <2>3. t \in LiveGoroutines /\ LiveGoroutines' = LiveGoroutines \ {t}
      BY <2>1 DEF LiveGoroutines, TypeOK, ThreadTypeOK
    <2>4. Cardinality(LiveGoroutines \ {t}) = Cardinality(LiveGoroutines) - 1
      BY <2>3, GoroutineSetsFinite, FS_RemoveElement
    <2> QED
      BY <2>1, <2>2, <2>3, <2>4 DEF CountersExact
  <1>6. CASE SpuriousWakeup(t)
    BY <1>6 DEF SpuriousWakeup, schedVars, CountersExact, BlockedGoroutines, LiveGoroutines
  <1> QED
    BY <1>1, <1>2, <1>3, <1>4, <1>5, <1>6
    DEF Step, goo_chan_send, goo_chan_recv, goo_chan_close,
        goo_select, goo_chan_try_send, goo_chan_try_recv

\* main's check in goo_sched_block_begin aborts only when nobody is left.
LEMMA AbortStep ==
    ASSUME TypeOK, CountersExact, AbortIsDeadlock,
           NEW t \in Threads, Step(t) \/ SpuriousWakeup(t)
    PROVE  AbortIsDeadlock'
  <1> USE DEF Doing, CanRun, AbortIsDeadlock
  <1>0. num_goroutines = 0 => \A u \in Goroutines : pc[u] = "exited"
    <2>1. num_goroutines = 0 => LiveGoroutines = {}
      BY GoroutineSetsFinite, FS_EmptySet DEF CountersExact
    <2> QED
      BY <2>1 DEF LiveGoroutines
  <1>b. ASSUME NEW place, outcome = "running", block_begin(t, place) PROVE AbortIsDeadlock'
    <2> SUFFICES ASSUME t = Main, num_goroutines = 0 PROVE \A u \in Goroutines : Stuck(u)'
      BY <1>b DEF block_begin, NobodyLeft
    <2> QED
      BY <1>b, <1>0, ConstantsAssumption DEF block_begin, Stuck, TypeOK, ThreadTypeOK
  <1>1. CASE \/ SendWaitFull(t) \/ SendWaitSlot(t) \/ SendPark(t) \/ SendWaitTaken(t)
             \/ RecvWait(t) \/ NilBlock(t)
    BY <1>1, <1>b DEF SendWaitFull, SendWaitSlot, SendPark, SendWaitTaken, RecvWait, NilBlock
  <1>2. CASE SendOnClosed(t) \/ SendUntaken(t) \/ CloseClosed(t) \/ TrySendClosed(t)
    BY <1>2 DEF SendOnClosed, SendUntaken, CloseClosed, TrySendClosed, Panic
  <1>3. CASE \/ SendBuffered(t) \/ SendTaken(t) \/ RecvClosed(t) \/ RecvBuffered(t) \/ RecvSlot(t)
    BY <1>3 DEF SendBuffered, SendTaken, RecvClosed, RecvBuffered, RecvSlot, Unblocked
  <1>4. CASE \/ Close(t) \/ TrySend(t) \/ TrySendNotReady(t) \/ TryRecv(t) \/ TryRecvNothing(t)
    BY <1>4 DEF Close, TrySend, TrySendNotReady, TryRecv, TryRecvNothing, Unblocked
  <1>5. CASE GoroutineExit(t) \/ SpuriousWakeup(t)
    BY <1>5 DEF GoroutineExit, SpuriousWakeup
  <1> QED
    BY <1>1, <1>2, <1>3, <1>4, <1>5
    DEF Step, goo_chan_send, goo_chan_recv, goo_chan_close,
        goo_select, goo_chan_try_send, goo_chan_try_recv

\* The polling loop aborts only when everybody sleeps, provided that no
\* signalled goroutine stays off its CPU for the whole streak of polls.
LEMMA MainAbort ==
    ASSUME TypeOK, CountersExact, TimelyWakeups, MainStep
    PROVE  CountersExact' /\ AbortIsDeadlock'
  <1> USE DEF Doing, CanRun, TypeOK, ThreadTypeOK, SchedTypeOK
  <1>1. CASE MainReturn
    BY <1>1, ConstantsAssumption
    DEF MainReturn, AbortIsDeadlock, CountersExact, BlockedGoroutines, LiveGoroutines, schedVars
  <1>2. CASE WaitDone
    BY <1>2, ConstantsAssumption
    DEF WaitDone, Return, AbortIsDeadlock, CountersExact, BlockedGoroutines, LiveGoroutines
  <1>3. CASE WaitPoll
    <2>1. CountersExact'
      BY <1>3 DEF WaitPoll, CountersExact, BlockedGoroutines, LiveGoroutines
    <2>2. ASSUME outcome' = "deadlock" PROVE \A u \in Goroutines : Stuck(u)'
      <3>1. AllAsleep /\ ~WakeupPending
        BY <1>3, <2>2, ConstantsAssumption DEF WaitPoll
      <3>2. BlockedGoroutines \subseteq LiveGoroutines
        BY DEF BlockedGoroutines, LiveGoroutines, Parking
      <3>3. BlockedGoroutines = LiveGoroutines
        BY <3>1, <3>2, GoroutineSetsFinite, FS_Subset DEF AllAsleep, CountersExact
      <3>4. \A u \in Goroutines : Stuck(u)
        BY <3>1, <3>3 DEF Stuck, WakeupPending, Woken, BlockedGoroutines, LiveGoroutines
      <3> QED
        BY <1>3, <3>4 DEF WaitPoll, Stuck, Asleep, waitVars
    <2> QED
      BY <2>1, <2>2 DEF AbortIsDeadlock
  <1> QED
    BY <1>1, <1>2, <1>3 DEF MainStep

-----------------------------------------------------------------------------
(* The theorems *)

\* The initial state satisfies the invariant.
LEMMA InvInit == Init => Inv
  <1> SUFFICES ASSUME Init PROVE Inv
    OBVIOUS
  <1>1. TypeOK
    BY TypeInit
  <1>2. Places /\ ReceiversWoken /\ SendersWoken /\ RendezvousDelivers
    BY DEF Init, Places, ReceiversWoken, SendersWoken, RendezvousDelivers
  <1>3. Handed
    BY DEF Init, Handed
  <1>4. Ring
    BY ConstantsAssumption, ModWrap DEF Init, Ring
  <1>5. Contents = <<>>
    BY ConstantsAssumption DEF Init, Contents
  <1>6. FIFO
    BY <1>5 DEF Init, FIFO
  <1>7. BlockedGoroutines = {} /\ LiveGoroutines = Goroutines
    BY DEF Init, BlockedGoroutines, LiveGoroutines, Parking
  <1>8. CountersExact
    BY <1>7, FS_EmptySet DEF Init, CountersExact
  <1> QED
    BY <1>1, <1>2, <1>3, <1>4, <1>6, <1>8 DEF Inv

\* main's own steps move no value and wake or park nobody.
LEMMA MainInv == ASSUME Inv, MainStep PROVE Inv'
  <1>1. TypeOK'
    BY MainType DEF Inv
  <1>2. UNCHANGED <<buf, head, tail, length, rv_slot, rv_full, closed, not_empty, not_full,
                    sent, rcvd, returned>>
    BY DEF MainStep, MainReturn, WaitPoll, WaitDone, chanVars, waitVars, history
  <1>3. \A t \in Threads : pc'[t] = pc[t] \/ (t = Main /\ pc[t] = "run" /\ pc'[t] \in {"run", "exited"})
    BY DEF MainStep, MainReturn, WaitPoll, WaitDone, Return, Doing, Inv, TypeOK, ThreadTypeOK
  <1>4. \A t \in Threads : ip'[t] = ip[t] \/ pc'[t] # "send_taken"
    BY DEF MainStep, MainReturn, WaitPoll, WaitDone, Return, Inv, TypeOK, ThreadTypeOK
  <1>5. Places' /\ SendersWoken'
    BY <1>2, <1>3 DEF Inv, TypeOK, ThreadTypeOK, Places, SenderPlaces, SendersWoken
  <1>6. ReceiversWoken'
    <2>1. WokenReceivers' = WokenReceivers /\ Available' = Available
      BY <1>2, <1>3 DEF WokenReceivers, Available
    <2> QED
      BY <1>2, <2>1 DEF Inv, ReceiversWoken
  <1>7. Ring' /\ FIFO'
    BY <1>2 DEF Inv, Ring, FIFO, Contents
  <1>8. Handed' /\ RendezvousDelivers'
    BY <1>2, <1>3, <1>4 DEF Inv, Handed, RendezvousDelivers, Value
  <1>9. CountersExact'
    <2>1. BlockedGoroutines' = BlockedGoroutines /\ LiveGoroutines' = LiveGoroutines
      BY <1>3, ConstantsAssumption DEF BlockedGoroutines, LiveGoroutines
    <2> QED
      BY <2>1 DEF Inv, CountersExact, MainStep, MainReturn, WaitPoll, WaitDone, schedVars
  <1> QED
    BY <1>1, <1>5, <1>6, <1>7, <1>8, <1>9 DEF Inv

\* Every step keeps the invariant.
LEMMA InvNext == Inv /\ [Next]_vars => Inv'
  <1> SUFFICES ASSUME Inv, [Next]_vars PROVE Inv'
    OBVIOUS
  <1>1. ASSUME NEW t \in Threads, Step(t) \/ SpuriousWakeup(t) PROVE Inv'
    <2>1. TypeOK'
      BY <1>1, StepType DEF Inv
    <2>2. Places' /\ SendersWoken' /\ ReceiversWoken'
      BY <1>1, PlacesStep, SendersWokenStep, ReceiversWokenStep DEF Inv
    <2>3. Ring' /\ FIFO'
      BY <1>1, <2>1, FIFOStep DEF Inv
    <2>4. Handed' /\ RendezvousDelivers'
      BY <1>1, HandedStep DEF Inv
    <2>5. CountersExact'
      BY <1>1, CountersStep DEF Inv
    <2> QED
      BY <2>1, <2>2, <2>3, <2>4, <2>5 DEF Inv
  <1>2. CASE MainStep
    BY <1>2, MainInv
  <1>3. CASE UNCHANGED vars
    <2>1. TypeOK'
      BY <1>3 DEF Inv, vars, chanVars, waitVars, schedVars, history, TypeOK, ChanTypeOK, FlagTypeOK,
                  ThreadTypeOK, SchedTypeOK, HistoryTypeOK, Index
    <2>2. Places' /\ SendersWoken'
      BY <1>3 DEF Inv, vars, chanVars, waitVars, Places, SendersWoken
    <2>3. ReceiversWoken'
      BY <1>3 DEF Inv, vars, chanVars, waitVars, ReceiversWoken, WokenReceivers, Available
    <2>4. Ring' /\ FIFO'
      BY <1>3 DEF Inv, vars, chanVars, history, Ring, FIFO, Contents
    <2>5. Handed' /\ RendezvousDelivers'
      BY <1>3 DEF Inv, vars, chanVars, history, Handed, RendezvousDelivers, Value
    <2>6. CountersExact'
      BY <1>3 DEF Inv, vars, schedVars, CountersExact, BlockedGoroutines, LiveGoroutines
    <2> QED
      BY <2>1, <2>2, <2>3, <2>4, <2>5, <2>6 DEF Inv
  <1> QED
    BY <1>1, <1>2, <1>3 DEF Next, Terminated

\* The invariant holds in every reachable state.
THEOREM Invariance == Spec => []Inv
  BY InvInit, InvNext, PTL DEF Spec

\* Every variable of the channel, its threads and the scheduler keeps its type.
THEOREM TypeCorrect == Spec => []TypeOK
  BY Invariance, PTL DEF Inv

\* Values leave the channel in the order they were accepted, none lost or
\* duplicated, for every capacity including 0.
THEOREM ChannelFIFO == Spec => []FIFO
  BY Invariance, PTL DEF Inv

\* Signalling one receiver per send loses no wakeup.
THEOREM NoReceiverForgotten == Spec => []ReceiversWoken
  BY Invariance, PTL DEF Inv

\* Broadcasting to senders on every receive and on close loses no wakeup.
THEOREM NoSenderForgotten == Spec => []SendersWoken
  BY Invariance, PTL DEF Inv

\* An unbuffered send returns only after its own value has been received.
THEOREM RendezvousCorrect == Spec => []RendezvousDelivers
  BY Invariance, PTL DEF Inv

\* The counters behind the deadlock detector are exact.
THEOREM CountersCorrect == Spec => []CountersExact
  BY Invariance, PTL DEF Inv

\* Given timely wakeups, the detector never aborts a program in which some
\* goroutine can still move.
THEOREM NoFalseAbort == ASSUME TimelyWakeups PROVE Spec => []AbortIsDeadlock
  <1>1. Init => AbortIsDeadlock
    BY DEF Init, AbortIsDeadlock
  <1>2. Inv /\ AbortIsDeadlock /\ [Next]_vars => AbortIsDeadlock'
    <2> SUFFICES ASSUME Inv, AbortIsDeadlock, [Next]_vars PROVE AbortIsDeadlock'
      OBVIOUS
    <2>1. ASSUME NEW t \in Threads, Step(t) \/ SpuriousWakeup(t) PROVE AbortIsDeadlock'
      BY <2>1, AbortStep DEF Inv
    <2>2. CASE MainStep
      BY <2>2, MainAbort DEF Inv
    <2>3. CASE UNCHANGED vars
      BY <2>3 DEF vars, waitVars, AbortIsDeadlock, Stuck, Asleep
    <2> QED
      BY <2>1, <2>2, <2>3 DEF Next, Terminated
  <1> QED
    BY <1>1, <1>2, Invariance, PTL DEF Spec

\* Operations that store or take a value, and close, are steps of the
\* abstract queue; everything else leaves it alone.
LEMMA StepRefines ==
    ASSUME Inv, Inv', NEW t \in Threads, Step(t) \/ SpuriousWakeup(t)
    PROVE  [Abstract!Next]_<<Contents, closed>>
  <1> USE DEF Abstract!Next
  <1>t. /\ TypeOK /\ TypeOK' /\ Ring /\ Value(t) \in Values
        /\ rv_full \in BOOLEAN /\ Capacity \in Nat /\ length \in 0..Capacity
    BY ConstantsAssumption DEF Inv, TypeOK, ChanTypeOK, ThreadTypeOK, FlagTypeOK, Value, Values
  <1>c. Contents \in Seq(Values) /\ Len(Contents) = Available
    BY <1>t, ContentsType
  <1>p. ASSUME Contents' = Append(Contents, Value(t)), ~closed, closed' = closed,
               Available < IF Capacity > 0 THEN Capacity ELSE 1
        PROVE  Abstract!Put
    <2>1. Len(Contents') = Len(Contents) + 1
      BY <1>p, <1>c, <1>t
    <2>2. SubSeq(Contents', 1, Len(Contents)) = Contents
      BY <1>p, <1>c, <1>t
    <2> QED
      BY <1>p, <1>c, <2>1, <2>2 DEF Abstract!Put
  <1>1. CASE SendBuffered(t) \/ TrySend(t)
    <2>1. Contents' = Append(Contents, Value(t))
      BY <1>1, <1>t, EnqueueContents DEF SendBuffered, TrySend
    <2>2. Available < IF Capacity > 0 THEN Capacity ELSE 1
      BY <1>1, <1>t DEF SendBuffered, TrySend, Available
    <2> QED
      BY <1>1, <1>p, <2>1, <2>2 DEF SendBuffered, TrySend, Enqueue
  <1>2. CASE RecvBuffered(t) \/ TryRecv(t)
    <2>1. Contents # <<>> /\ Contents' = Tail(Contents)
      BY <1>2, <1>t, DequeueContents DEF RecvBuffered, TryRecv
    <2> QED
      BY <1>2, <2>1 DEF RecvBuffered, TryRecv, Dequeue, Abstract!Take
  <1>3. CASE SendPark(t)
    <2>1. Contents = <<>> /\ Contents' = <<Value(t)>>
      BY <1>3, <1>t DEF SendPark, Contents
    <2>2. Available < IF Capacity > 0 THEN Capacity ELSE 1
      BY <1>3, <1>t DEF SendPark, Available
    <2>3. Contents' = Append(Contents, Value(t))
      BY <2>1
    <2> QED
      BY <1>3, <1>p, <2>2, <2>3 DEF SendPark
  <1>4. CASE RecvSlot(t)
    <2>1. Contents = <<rv_slot>> /\ Contents' = <<>>
      BY <1>4, <1>t DEF RecvSlot, Contents
    <2> QED
      BY <1>4, <2>1 DEF RecvSlot, Abstract!Take
  <1>5. CASE Close(t)
    <2>1. Contents' = Contents
      BY <1>5 DEF Close, Contents
    <2> QED
      BY <1>5, <2>1 DEF Close, Abstract!Close
  <1>6. CASE UNCHANGED <<buf, head, length, rv_slot, rv_full, closed>>
    BY <1>6 DEF Contents
  <1>7. CASE \/ SendWaitFull(t) \/ SendWaitSlot(t) \/ SendWaitTaken(t) \/ RecvWait(t)
             \/ NilBlock(t) \/ SpuriousWakeup(t)
    BY <1>7, <1>6
    DEF SendWaitFull, SendWaitSlot, SendWaitTaken, RecvWait, NilBlock, SpuriousWakeup, chanVars
  <1>8. CASE \/ SendTaken(t) \/ RecvClosed(t) \/ TrySendNotReady(t) \/ TryRecvNothing(t)
             \/ GoroutineExit(t)
    BY <1>8, <1>6
    DEF SendTaken, RecvClosed, TrySendNotReady, TryRecvNothing, GoroutineExit, chanVars
  <1>9. CASE SendOnClosed(t) \/ SendUntaken(t) \/ CloseClosed(t) \/ TrySendClosed(t)
    BY <1>9, <1>6 DEF SendOnClosed, SendUntaken, CloseClosed, TrySendClosed, Panic, chanVars
  <1> QED
    BY <1>1, <1>2, <1>3, <1>4, <1>5, <1>7, <1>8, <1>9
    DEF Step, goo_chan_send, goo_chan_recv, goo_chan_close,
        goo_select, goo_chan_try_send, goo_chan_try_recv

\* The mutex-and-condvar channel implements the bounded FIFO queue of ChanSpec.
THEOREM ChannelRefinesQueue == Spec => ImplementsQueue
  <1>1. Init => Abstract!Init
    BY ConstantsAssumption DEF Init, Contents, Abstract!Init
  <1>2. Inv /\ Inv' /\ [Next]_vars => [Abstract!Next]_<<Contents, closed>>
    <2> SUFFICES ASSUME Inv, Inv', [Next]_vars PROVE [Abstract!Next]_<<Contents, closed>>
      OBVIOUS
    <2>1. ASSUME NEW t \in Threads, Step(t) \/ SpuriousWakeup(t)
          PROVE  [Abstract!Next]_<<Contents, closed>>
      BY <2>1, StepRefines
    <2>2. CASE MainStep \/ UNCHANGED vars
      <3>1. UNCHANGED <<buf, head, length, rv_slot, rv_full, closed>>
        BY <2>2 DEF MainStep, MainReturn, WaitPoll, WaitDone, chanVars, vars
      <3> QED
        BY <3>1 DEF Contents
    <2> QED
      BY <2>1, <2>2 DEF Next, Terminated
  <1> QED
    BY <1>1, <1>2, Invariance, PTL DEF Spec, ImplementsQueue, Abstract!Spec
=============================================================================
