-------------------------- MODULE RunFarWaits_proof --------------------------
(***************************************************************************)
(* RunFar cannot deadlock: a proof for any number of ranks and of rounds,  *)
(* any rounds with a collective and buffers of any depth.                  *)
(*                                                                         *)
(* WaitInv adds to the invariant of RunFar_proof what ties a waiting part  *)
(* to the one it waits for: a stop told to a send-pump or its answer is    *)
(* not forgotten, a handle is open from setup to close, the receive-pumps  *)
(* that have ended are those joined and those to be joined, and as long as *)
(* nothing was lost a wire holds all that is pending.                      *)
(* If all wait, no put, send, ack or join is among the calls they wait in, *)
(* a rank waits in a get or a recv only for a call its peer has not made,  *)
(* and the unfinished rank that is least far in its script has no peer     *)
(* that is behind it.                                                      *)
(***************************************************************************)
EXTENDS RunFar_proof, WellFoundedInduction

JoinCall(s) == Call("join", s, Steps, 7, s[3])

(* A socket is open from setup to close, and nothing is sent after that.   *)
OpenOK(s) ==
    /\ used[s] = "no" <=> at[s[2]].op = "setup"
    /\ Made(CloseCall(s), s[2]) => used[s] = "freed"
    /\ used[s] = "freed" => out[s] = <<>>

(* A pump runs from setup on; the stop it was told and its answer are kept *)
(* until they are read.                                                    *)
TurnOK(s) ==
    /\ spc[s] = "unborn" \/ rpc[s] = "unborn" => at[s[2]].op = "setup"
    /\ Made(QuitCall(s), s[2]) => quit[s] \/ spc[s] \in {"drain", "last", "ack", "gone"}
    /\ spc[s] = "gone" => sendDone[s] \/ Made(AckCall(s), s[2])
    /\ rpc[s] = "gone" => used[s] = "freed"

(* The receive-pumps of a rank that have ended, and those it has joined.   *)
One(b) == IF b THEN 1 ELSE 0
Ended(r, q) == One(Halo(r, q) \in HaloSocks /\ rpc[Halo(r, q)] = "gone")
Joined(r, q) == One(Halo(r, q) \in HaloSocks /\ Made(JoinCall(Halo(r, q)), r))

JoinOK(r) ==
    pumpDone[r] + (Joined(r, r - 1) + Joined(r, r + 1)) = Ended(r, r - 1) + Ended(r, r + 1)

(* Nothing is missing on a link as long as nothing was lost.               *)
WholeOK(s) == lost = {} => Linked(Wire(s), Pending(s), Values(s), {})

WaitInv ==
    /\ pumpDone \in [Ranks -> Int]
    /\ \A s \in Socks : OpenOK(s)
    /\ \A s \in HaloSocks : TurnOK(s)
    /\ \A r \in Ranks : JoinOK(r)
    /\ \A s \in Socks : WholeOK(s)

-----------------------------------------------------------------------------
(* A nonempty set of natural numbers has a least element.                  *)
LEMMA Least ==
    ASSUME NEW T \in SUBSET Nat, T # {}
    PROVE  \E x \in T : \A y \in T : x <= y
<1> DEFINE R == {ss \in Nat \X Nat : ss[1] < ss[2]}
<1>1. IsWellFoundedOn(R, Nat)
  BY NatLessThanWellFounded DEF OpToRel
<1>2. PICK x \in T : \A y \in T : ~(<<y, x>> \in R)
  BY <1>1, WFMin
<1>3. ASSUME NEW y \in T
      PROVE  x <= y
  <2>1. x \in Nat /\ y \in Nat
    OBVIOUS
  <2>2. <<y, x>> \in R <=> y < x
    BY <2>1
  <2> QED
    BY <1>2, <2>1, <2>2
<1> QED
  BY <1>3

-----------------------------------------------------------------------------
(* Everybody waits.                                                        *)

(* Then everybody has started.                                             *)
LEMMA AllStarted ==
    ASSUME FarTypeOK, WaitInv, Stuck
    PROVE  /\ \A r \in Ranks : at[r].op \in {"put", "get", "send", "recv", "ack", "join", "end"}
           /\ \A s \in Socks : used[s] \in {"yes", "freed"}
           /\ \A s \in HaloSocks : spc[s] # "unborn" /\ rpc[s] # "unborn"
<1>1. ASSUME NEW r \in Ranks
      PROVE  at[r].op \in {"put", "get", "send", "recv", "ack", "join", "end"}
  BY DEF Stuck, RankWaits, Finished
<1>2. ASSUME NEW s \in Socks
      PROVE  used[s] \in {"yes", "freed"}
  <2>1. at[s[2]].op # "setup" /\ used[s] \in {"no", "yes", "freed"} /\ OpenOK(s)
    BY <1>1, SockEnds DEF FarTypeOK, WaitInv
  <2> QED
    BY <2>1 DEF OpenOK
<1>3. ASSUME NEW s \in HaloSocks
      PROVE  spc[s] # "unborn" /\ rpc[s] # "unborn"
  <2>1. at[s[2]].op # "setup" /\ TurnOK(s)
    BY <1>1, HaloIsSock, SockEnds DEF WaitInv
  <2> QED
    BY <2>1 DEF TurnOK
<1> QED
  BY <1>1, <1>2, <1>3

(* A rank that has closed a socket has taken all that was to come on it.   *)
LEMMA ClosedIsRead ==
    ASSUME FarInv, NEW s \in Socks, Made(CloseCall(s), s[2])
    PROVE  Pending(Peer(s)) = {} /\ Wire(Peer(s)) = <<>>
<1> DEFINE p == Peer(s)
<1>1. /\ p \in Socks /\ Peer(p) = s /\ Numbers(p) = Numbers(s) /\ Numbers(s) \subseteq 0..Steps
      /\ Steps \in Nat /\ s[2] \in Ranks /\ s[3] \in Int
  BY SockEnds, NumbersType
<1>2. Placed(at[s[2]], s[2])
  BY <1>1, Places DEF FarInv, FarTypeOK
<1>3. at[s[2]].n \in Int /\ at[s[2]].stage \in Int /\ at[s[2]].turn \in Int
  BY <1>2, <1>1 DEF Placed
<1>4. Got(s) = Numbers(s)
  <2>1. ASSUME NEW n \in Numbers(s)
        PROVE  Before(InCall(s, n), at[s[2]])
    <3>1. Before(CloseCall(s), at[s[2]])
      BY DEF Made
    <3> QED
      BY <1>1, <1>3, <3>1 DEF Before, InCall, CloseCall, Call
  <2> QED
    BY <2>1 DEF Got, Made
<1>5. Pending(p) = {}
  BY <1>1, <1>4, PendingType DEF Pending
<1>6. Linked(Wire(p), {}, Values(p), Gap(p)) /\ Wire(p) \in Seq(Msgs)
  BY <1>1, <1>5, WireType DEF FarInv, LinkOK
<1> QED
  BY <1>5, <1>6, LinkEmpty

LEMMA OpenIfWire ==
    ASSUME FarInv, NEW s \in Socks, Wire(s) # <<>>
    PROVE  used[Peer(s)] # "freed"
<1>1. Peer(s) \in Socks /\ Peer(Peer(s)) = s
  BY SockEnds
<1> QED
  BY <1>1, ClosedIsRead DEF FarInv, ClosedOK

(* NNG delivers what it has to an empty buffer.                            *)
LEMMA Delivered ==
    ASSUME FarInv, WaitInv, Stuck, panicked = {}, NEW s \in Socks, Len(inb[Peer(s)]) = 0
    PROVE  out[s] = <<>>
<1> SUFFICES ASSUME out[s] # <<>>
             PROVE  FALSE
  OBVIOUS
<1>1. FarTypeOK /\ Peer(s) \in Socks /\ OpenOK(s) /\ TransportWaits(s)
  BY SockEnds DEF FarInv, WaitInv, Stuck
<1>2. used[s] = "yes"
  BY <1>1, AllStarted DEF OpenOK
<1>3. PICK w \in Nat, i \in Nat, o \in Nat, x \in Nat :
        /\ w = Len(Wire(s)) /\ i = Len(inb[Peer(s)]) /\ o = Len(out[s]) /\ x = Len(SendSide(s))
        /\ i + o <= w /\ o + x <= w
  BY <1>1, WireLength
<1>4. Len(out[s]) # 0
  BY <1>1, WireType, EmptySeq
<1>5. w # 0
  BY <1>3, <1>4
<1>6. Len(<<>>) = 0
  BY EmptySeq
<1>7. Wire(s) # <<>>
  BY <1>3, <1>5, <1>6
<1>8. used[Peer(s)] = "yes"
  BY <1>1, <1>7, AllStarted, OpenIfWire
<1> QED
  BY <1>1, <1>2, <1>8, FarAssumption DEF TransportWaits, Connected

(* A rank that waits for a value waits for one that was not sent.          *)
LEMMA NothingUnderWay ==
    ASSUME FarInv, WaitInv, Stuck, panicked = {}, NEW s \in Socks, NEW n \in Numbers(s),
           at[s[2]] = InCall(s, n)
    PROVE  Wire(Peer(s)) = <<>>
<1> DEFINE p == Peer(s)
<1>1. /\ FarTypeOK /\ p \in Socks /\ Peer(p) = s /\ s[2] \in Ranks /\ (s \in HaloSocks <=> p \in HaloSocks)
      /\ s[3] \in Int /\ Steps \in Nat /\ n \in 0..Steps
  BY SockEnds, NumbersType DEF FarInv
<1>2. used[s] = "yes"
  <2>1. ~Before(CloseCall(s), InCall(s, n))
    BY <1>1 DEF Before, CloseCall, InCall, Call
  <2> QED
    BY <1>1, <2>1, AllStarted DEF FarInv, ClosedOK, Made
<1>3. at[s[2]].s = s /\ at[s[2]].op = (IF s \in HaloSocks THEN "get" ELSE "recv")
  BY DEF InCall, Call
<1>4. RankWaits(s[2])
  BY <1>1 DEF Stuck
<1>5. inb[s] \in Seq(Msgs) /\ Len(<<>>) = 0
  BY <1>1, WireType, EmptySeq
<1>6. CASE s \in HaloSocks
  <2>1. recv[s] = <<>>
    BY <1>3, <1>4, <1>6 DEF RankWaits, Sock, Finished
  <2>2. RecvPumpWaits(s) /\ SendPumpWaits(p) /\ TurnOK(s) /\ PumpOK(p)
    BY <1>1, <1>6 DEF Stuck, WaitInv, FarInv
  <2>3. rpc[s] = "recv" /\ inb[s] = <<>>
    <3>1. rpc[s] # "unborn" /\ rpc[s] # "gone"
      BY <1>1, <1>2, <1>6, <2>2, AllStarted DEF TurnOK
    <3> QED
      BY <1>2, <2>1, <2>2, <3>1 DEF RecvPumpWaits
  <2>4. out[p] = <<>>
    BY <1>1, <1>5, <2>3, Delivered
  <2>5. send[p] = <<>> /\ spc[p] \notin {"send", "last"}
    <3>1. Len(out[p]) = 0 /\ Depth \in Nat /\ Depth # 0 /\ used[p] # "no" /\ spc[p] # "unborn"
      BY <1>1, <1>5, <1>6, <2>4, AllStarted, FarAssumption
    <3> QED
      BY <2>2, <3>1 DEF SendPumpWaits, PumpOK
  <2>6. <<>> \o <<>> = <<>>
    BY ConcatEmpty, EmptySeq
  <2>7. RecvSide(s) = <<>> /\ SendSide(p) = <<>>
    BY <1>1, <1>6, <2>1, <2>3, <2>5, <2>6 DEF RecvSide, SendSide, Hand
  <2> QED
    BY <1>1, <2>3, <2>4, <2>6, <2>7 DEF Wire
<1>7. CASE s \notin HaloSocks
  <2>1. inb[s] = <<>>
    BY <1>2, <1>3, <1>4, <1>7 DEF RankWaits, Sock, Finished
  <2>2. out[p] = <<>>
    BY <1>1, <1>5, <2>1, Delivered
  <2>3. <<>> \o <<>> = <<>>
    BY ConcatEmpty, EmptySeq
  <2>4. RecvSide(s) = <<>> /\ SendSide(p) = <<>>
    BY <1>1, <1>7 DEF RecvSide, SendSide
  <2> QED
    BY <1>1, <2>1, <2>2, <2>3, <2>4 DEF Wire
<1> QED
  BY <1>6, <1>7

LEMMA WaitsForUnsent ==
    ASSUME FarInv, WaitInv, Stuck, panicked = {}, lost = {}, NEW s \in Socks, NEW n \in Numbers(s),
           at[s[2]] = InCall(s, n)
    PROVE  ~Made(OutCall(Peer(s), n), s[3])
<1> DEFINE p == Peer(s)
<1>1. /\ FarTypeOK /\ p \in Socks /\ Peer(p) = s /\ p[2] = s[3] /\ Numbers(p) = Numbers(s)
  BY SockEnds, NumbersType DEF FarInv
<1>2. Len(Wire(p)) = 0
  BY NothingUnderWay, EmptySeq
<1>3. Linked(Wire(p), Pending(p), Values(p), {})
  BY <1>1 DEF WaitInv, WholeOK
<1>4. n \notin Pending(p)
  BY <1>2, <1>3 DEF Linked
<1>5. n \notin Got(s)
  <2>1. n \in Int
    BY NumbersType
  <2> QED
    BY <1>1, <2>1, InOrder
<1> QED
  BY <1>1, <1>4, <1>5 DEF Pending, Sent

(* How much is in a socket's buffers and with its send-pump.               *)
LEMMA Load ==
    ASSUME FarTypeOK, NEW s \in HaloSocks, spc[s] \in {"send", "last"}
    PROVE  \E w, i, o, c \in Nat :
              /\ w = Len(Wire(s)) /\ i = Len(inb[Peer(s)]) /\ o = Len(out[s]) /\ c = Len(send[s])
              /\ i + o <= w /\ o + (1 + c) <= w /\ i + (o + (1 + c)) <= w
<1>1. s \in Socks /\ Peer(s) \in Socks
  BY HaloIsSock, SockEnds
<1>2. /\ RecvSide(Peer(s)) \in Seq(Msgs) /\ inb[Peer(s)] \in Seq(Msgs)
      /\ out[s] \in Seq(Msgs) /\ SendSide(s) \in Seq(Msgs)
  BY <1>1, WireType
<1>3. PICK a \in Seq(Msgs) : a = RecvSide(Peer(s)) \o inb[Peer(s)]
  BY <1>2, ConcatType
<1>4. PICK b \in Seq(Msgs) : b = out[s] \o SendSide(s)
  BY <1>2, ConcatType
<1>5. sheld[s] \in Msgs /\ send[s] \in Seq(Msgs)
  BY DEF FarTypeOK
<1>6. <<sheld[s]>> \in Seq(Msgs) /\ Len(<<sheld[s]>>) = 1
  BY <1>5
<1>7. PICK h \in Seq(Msgs) : h = <<sheld[s]>> /\ Len(h) = 1
  BY <1>6
<1>8. SendSide(s) = h \o send[s]
  BY <1>7 DEF SendSide, Hand
<1>9. PICK r, i, o, c \in Nat :
        r = Len(RecvSide(Peer(s))) /\ i = Len(inb[Peer(s)]) /\ o = Len(out[s]) /\ c = Len(send[s])
  BY <1>2, <1>5, LenProperties
<1>10. Len(SendSide(s)) = 1 + c
  BY <1>5, <1>7, <1>8, <1>9, ConcatType
<1>a. PICK x \in Nat : x = 1 + c
  OBVIOUS
<1>b. Len(SendSide(s)) = x
  BY <1>10, <1>a
<1>11. Len(a) = r + i /\ Len(b) = o + x /\ Len(a \o b) = Len(a) + Len(b)
  BY <1>2, <1>3, <1>4, <1>9, <1>b, ConcatType
<1>12. Len(Wire(s)) = (r + i) + (o + x)
  BY <1>3, <1>4, <1>11 DEF Wire
<1>13. PICK w \in Nat : w = (r + i) + (o + x)
  OBVIOUS
<1>14. i + o <= w /\ o + (1 + c) <= w /\ i + (o + (1 + c)) <= w
  BY <1>13, <1>a
<1> QED
  BY <1>9, <1>12, <1>13, <1>14

(* So a send-pump can hand over what it carries.                           *)
LEMMA PumpSends ==
    ASSUME FarInv, WaitInv, Stuck, panicked = {}, NEW s \in HaloSocks
    PROVE  spc[s] \notin {"send", "last"}
<1> SUFFICES ASSUME spc[s] \in {"send", "last"}
             PROVE  FALSE
  OBVIOUS
<1>1. FarTypeOK /\ s \in Socks /\ SendPumpWaits(s) /\ Depth \in Nat /\ Depth # 0
  BY HaloIsSock, FarAssumption DEF FarInv, Stuck
<1>2. Len(out[s]) >= Depth
  BY <1>1, AllStarted DEF SendPumpWaits
<1>3. PICK w, i, o, c \in Nat :
        /\ w = Len(Wire(s)) /\ i = Len(inb[Peer(s)]) /\ o = Len(out[s]) /\ c = Len(send[s])
        /\ i + o <= w /\ o + (1 + c) <= w /\ i + (o + (1 + c)) <= w
  BY <1>1, Load
<1>4. w <= 2
  BY <1>1, <1>3, SockEnds, UnderWay DEF FarInv
<1>a. o >= Depth /\ Depth \in Nat /\ Depth # 0
  BY <1>1, <1>2, <1>3
<1>b. i + (o + (1 + c)) <= w
  BY <1>3
<1>5. o >= 1 /\ i = 0
  BY <1>4, <1>a, <1>b
<1>6. out[s] = <<>>
  BY <1>1, <1>3, <1>5, Delivered
<1>7. Len(<<>>) = 0
  BY EmptySeq
<1> QED
  BY <1>3, <1>5, <1>6, <1>7

(* Nobody waits to publish or to send.                                     *)
LEMMA SendsPass ==
    ASSUME FarInv, WaitInv, Stuck, panicked = {}, NEW r \in Ranks
    PROVE  at[r].op \notin {"put", "send"}
<1> SUFFICES ASSUME at[r].op \in {"put", "send"}
             PROVE  FALSE
  OBVIOUS
<1> DEFINE s == at[r].s
           n == at[r].n
<1>1. FarTypeOK /\ at[r] \in Script[r] /\ RankWaits(r) /\ Depth \in Nat /\ Depth # 0
  BY FarAssumption DEF FarInv, FarTypeOK, Stuck
<1>2. s \in Socks /\ s[2] = r /\ n \in Numbers(s) /\ at[r] = OutCall(s, n) /\ (at[r].op = "put" <=> s \in HaloSocks)
  BY <1>1, CallOfSock
<1> HIDE DEF s, n
<1>3. used[s] = "yes"
  <2>1. ~Before(CloseCall(s), OutCall(s, n))
    <3>1. s[3] \in Int /\ n \in 0..Steps /\ Steps \in Nat
      BY <1>2, SockEnds, NumbersType
    <3> QED
      BY <3>1 DEF Before, CloseCall, OutCall, Call
  <2> QED
    BY <1>1, <1>2, <2>1, AllStarted DEF FarInv, ClosedOK, Made
<1>4. Len(Wire(s)) <= 1
  BY <1>1, <1>2, SockEnds, UnderWay DEF FarInv
<1>5. CASE at[r].op = "put"
  <2>1. s \in HaloSocks /\ send[s] # <<>> /\ PumpOK(s) /\ SendPumpWaits(s)
    BY <1>1, <1>2, <1>5 DEF RankWaits, Sock, Finished, FarInv, Stuck, s
  <2>2. spc[s] # "unborn" /\ spc[s] \notin {"send", "last"}
    BY <1>1, <2>1, AllStarted, PumpSends
  <2> QED
    BY <2>1, <2>2 DEF SendPumpWaits, PumpOK
<1>6. CASE at[r].op = "send"
  <2>1. Len(out[s]) >= Depth
    BY <1>1, <1>3, <1>6 DEF RankWaits, Sock, Finished, s
  <2>2. PICK w \in Nat, i \in Nat, o \in Nat, x \in Nat :
          /\ w = Len(Wire(s)) /\ i = Len(inb[Peer(s)]) /\ o = Len(out[s]) /\ x = Len(SendSide(s))
          /\ i + o <= w /\ o + x <= w
    BY <1>1, <1>2, WireLength
  <2>a. o >= Depth /\ Depth \in Nat /\ Depth # 0 /\ w <= 1
    BY <1>1, <1>4, <2>1, <2>2
  <2>b. i + o <= w
    BY <2>2
  <2>3. o >= 1 /\ i = 0
    BY <2>a, <2>b
  <2>4. out[s] = <<>>
    BY <1>2, <2>2, <2>3, Delivered
  <2>5. Len(<<>>) = 0
    BY EmptySeq
  <2> QED
    BY <2>2, <2>3, <2>4, <2>5
<1> QED
  BY <1>5, <1>6

(* Nobody waits for a send-pump to stop.                                   *)
LEMMA AcksCome ==
    ASSUME FarInv, WaitInv, Stuck, panicked = {}, NEW r \in Ranks
    PROVE  at[r].op # "ack"
<1> SUFFICES ASSUME at[r].op = "ack"
             PROVE  FALSE
  OBVIOUS
<1> DEFINE s == at[r].s
<1>1. FarTypeOK /\ at[r] \in Script[r] /\ RankWaits(r)
  BY DEF FarInv, FarTypeOK, Stuck
<1>2. s \in HaloSocks /\ s[2] = r /\ at[r] = AckCall(s)
  BY <1>1, CallOfSock
<1>3. ~sendDone[s]
  BY <1>1 DEF RankWaits, Sock, Finished
<1> HIDE DEF s
<1>4. s[3] \in Int
  BY <1>2, HaloIsSock, SockEnds
<1>5. Made(QuitCall(s), s[2]) /\ ~Made(AckCall(s), s[2])
  <2>1. Before(QuitCall(s), AckCall(s)) /\ ~Before(AckCall(s), AckCall(s))
    BY <1>4, FarAssumption DEF Before, QuitCall, AckCall, Call
  <2> QED
    BY <1>2, <2>1 DEF Made
<1>6. spc[s] # "unborn" /\ spc[s] \notin {"send", "last"}
  BY <1>1, <1>2, AllStarted, PumpSends
<1>7. TurnOK(s) /\ SendPumpWaits(s)
  BY <1>2 DEF WaitInv, Stuck
<1> QED
  BY <1>3, <1>5, <1>6, <1>7 DEF TurnOK, SendPumpWaits

LEMMA JoinPlace ==
    ASSUME NEW r \in Ranks, NEW c \in Script[r], c.op = "join"
    PROVE  /\ c.s \in HaloSocks /\ c.s[2] = r /\ c = JoinCall(c.s)
<1>1. Placed(c, r)
  BY Places
<1>2. c = Call(c.op, c.s, c.n, c.stage, c.turn) /\ c.stage \in 0..9
  BY <1>1 DEF Placed
<1>3. c.stage = 7
  <2>1. CASE c.stage \in {0, 9}
    BY <2>1, <1>1 DEF Placed, Alone, Call
  <2>2. CASE c.stage \in {1, 2, 4, 6, 8}
    BY <2>2, <1>1 DEF Placed
  <2>3. CASE c.stage = 3
    BY <2>3, <1>1 DEF Placed, Alone, Call
  <2>4. CASE c.stage = 5
    BY <2>4, <1>1 DEF Placed
  <2> QED
    BY <1>2, <2>1, <2>2, <2>3, <2>4
<1>4. c.n = Steps /\ c.s \in Halos(r) /\ c.turn = c.s[3]
  BY <1>1, <1>3 DEF Placed
<1> QED
  BY <1>2, <1>3, <1>4, OwnSocks DEF JoinCall

(* The halo sockets of a rank.                                             *)
LEMMA HaloOf ==
    ASSUME NEW r \in Ranks
    PROVE  /\ \A q : Halo(r, q) \in HaloSocks => Halo(r, q)[2] = r /\ Halo(r, q)[3] = q
           /\ \A s \in HaloSocks : s[2] = r =>
                s[3] \in {r - 1, r + 1} /\ s = Halo(r, s[3])
BY DEF Halo, HaloSocks

(* Nobody waits for a receive-pump to end.                                 *)
LEMMA JoinsCome ==
    ASSUME FarInv, WaitInv, Stuck, panicked = {}, NEW r \in Ranks
    PROVE  at[r].op # "join"
<1> SUFFICES ASSUME at[r].op = "join"
             PROVE  FALSE
  OBVIOUS
<1> DEFINE s == at[r].s
<1>1. FarTypeOK /\ at[r] \in Script[r] /\ RankWaits(r) /\ JoinOK(r) /\ pumpDone[r] \in Int
  BY DEF FarInv, FarTypeOK, Stuck, WaitInv
<1>2. s \in HaloSocks /\ s[2] = r /\ at[r] = JoinCall(s)
  BY <1>1, JoinPlace
<1>3. pumpDone[r] = 0
  BY <1>1 DEF RankWaits, Finished
<1> HIDE DEF s
<1>4. s[3] \in Int
  BY <1>2, HaloIsSock, SockEnds
<1>5. ASSUME NEW h \in HaloSocks, h[2] = r
      PROVE  rpc[h] = "gone"
  <2>1. h \in Socks /\ h[3] \in Int /\ Peer(h) \in Socks /\ OpenOK(h) /\ RecvPumpWaits(h)
    BY HaloIsSock, SockEnds DEF WaitInv, Stuck
  <2>2. Made(CloseCall(h), h[2])
    <3>1. Before(CloseCall(h), JoinCall(s))
      BY <1>4, <2>1, FarAssumption DEF Before, CloseCall, JoinCall, Call
    <3> QED
      BY <1>2, <1>5, <3>1 DEF Made
  <2>3. used[h] = "freed" /\ Wire(Peer(h)) = <<>>
    BY <2>1, <2>2, ClosedIsRead DEF OpenOK
  <2>4. rpc[h] # "unborn" /\ recv[h] = <<>>
    BY <1>1, <2>1, <2>3, AllStarted, FrontOfWire
  <2> QED
    BY <2>1, <2>3, <2>4 DEF RecvPumpWaits
<1> DEFINE L == Halo(r, r - 1)
           R == Halo(r, r + 1)
<1>6. /\ L \in HaloSocks => L[2] = r /\ rpc[L] = "gone"
      /\ R \in HaloSocks => R[2] = r /\ rpc[R] = "gone"
      /\ s = L \/ s = R
  BY <1>2, <1>5, HaloOf
<1>7. ~Made(JoinCall(s), r)
  <2>1. ~Before(JoinCall(s), JoinCall(s))
    BY <1>4, FarAssumption DEF Before, JoinCall, Call
  <2> QED
    BY <1>2, <2>1 DEF Made
<1>8. pumpDone[r] + (One(L \in HaloSocks /\ Made(JoinCall(L), r)) + One(R \in HaloSocks /\ Made(JoinCall(R), r)))
        = One(L \in HaloSocks /\ rpc[L] = "gone") + One(R \in HaloSocks /\ rpc[R] = "gone")
  BY <1>1 DEF JoinOK, Joined, Ended
<1> HIDE DEF L, R
<1>9. pumpDone[r] # 0
  BY <1>1, <1>2, <1>6, <1>7, <1>8 DEF One
<1> QED
  BY <1>3, <1>9

(* How far a rank is in its script.                                        *)
Progress(r) == 10 * at[r].n + at[r].stage

(* The wait graph has no cycle: a rank waits in a get or a recv for one    *)
(* that is less far, or for one that is about to send.                     *)
LEMMA WaitsForLess ==
    ASSUME FarInv, WaitInv, Stuck, panicked = {}, lost = {}, NEW r \in Ranks, ~Finished(r)
    PROVE  \E q \in Ranks : ~Finished(q) /\ Progress(q) < Progress(r)
<1>1. FarTypeOK /\ at[r] \in Script[r]
  BY DEF FarInv, FarTypeOK
<1>2. ASSUME NEW q \in Ranks, ~Finished(q)
      PROVE  at[q].op \in {"get", "recv"}
  BY <1>1, <1>2, AllStarted, SendsPass, AcksCome, JoinsCome DEF Finished
<1> DEFINE s == at[r].s
           n == at[r].n
           p == Peer(s)
           q == s[3]
<1>3. s \in Socks /\ s[2] = r /\ n \in Numbers(s) /\ at[r] = InCall(s, n)
  BY <1>1, <1>2, CallOfSock
<1> HIDE DEF s, n
<1>4. /\ p \in Socks /\ p[2] = q /\ p[3] = r /\ q \in Ranks /\ (s \in HaloSocks <=> p \in HaloSocks)
      /\ (s \notin HaloSocks => (r = 0 /\ q # 0) \/ (r # 0 /\ q = 0))
      /\ n \in 0..Steps /\ Steps \in Nat /\ r \in Int /\ q \in Int
  BY <1>3, SockEnds, NumbersType
<1>5. ~Before(OutCall(p, n), at[q])
  BY <1>3, WaitsForUnsent DEF Made
<1>6. Placed(at[q], q)
  BY <1>1, <1>4, Places DEF FarTypeOK
<1>7. at[q].n \in 0..Steps /\ at[q].stage \in 0..9 /\ at[q].turn \in Int
  BY <1>6 DEF Placed
<1>8. ~Finished(q)
  <2> SUFFICES ASSUME Finished(q)
               PROVE  FALSE
    OBVIOUS
  <2>1. at[q].stage = 9 /\ at[q].n = Steps
    <3>1. at[q].op = "end"
      BY DEF Finished
    <3>2. CASE at[q].stage \in {0, 3}
      BY <3>1, <3>2, <1>6 DEF Placed, Alone, Call
    <3>3. CASE at[q].stage \in {1, 2, 4, 6, 7, 8}
      BY <3>1, <3>3, <1>6 DEF Placed
    <3>4. CASE at[q].stage = 5
      BY <3>1, <3>4, <1>6 DEF Placed
    <3>5. CASE at[q].stage = 9
      BY <3>5, <1>6 DEF Placed
    <3> QED
      BY <1>7, <3>2, <3>3, <3>4, <3>5
  <2> QED
    BY <1>4, <1>5, <2>1 DEF Before, OutCall, Call
<1>9. at[q].op \in {"get", "recv"}
  BY <1>2, <1>4, <1>8
<1>10. at[q].n < n \/ (at[q].n = n /\ at[q].stage <= OutCall(p, n).stage)
  <2>1. OutCall(p, n).n = n /\ OutCall(p, n).stage \in Int
    BY DEF OutCall, Call
  <2> QED
    BY <1>4, <1>5, <1>7, <2>1 DEF Before
<1>11. at[r].n = n /\ at[r].stage = InCall(s, n).stage
  BY <1>3 DEF n
<1>12. at[q].n = n => at[q].stage < at[r].stage
  <2> SUFFICES ASSUME at[q].n = n
               PROVE  at[q].stage < at[r].stage
    OBVIOUS
  <2>1. at[q].stage <= OutCall(p, n).stage
    BY <1>4, <1>10
  <2>2. CASE s \in HaloSocks
    BY <1>4, <1>7, <1>11, <2>1, <2>2 DEF OutCall, InCall, Call
  <2>3. CASE s \notin HaloSocks /\ n = Steps
    BY <1>4, <1>7, <1>11, <2>1, <2>3 DEF OutCall, InCall, Call
  <2>4. CASE s \notin HaloSocks /\ n # Steps /\ r = 0
    <3>1. at[q].stage <= 4 /\ at[r].stage = 4 /\ q # 0
      BY <1>3, <1>4, <1>11, <2>1, <2>4 DEF OutCall, InCall, Call
    <3>2. at[q].stage # 4
      BY <1>6, <1>9, <2>4, <3>1 DEF Placed
    <3> QED
      BY <1>7, <3>1, <3>2
  <2>5. CASE s \notin HaloSocks /\ n # Steps /\ r # 0
    <3>1. at[q].stage <= 5 /\ at[r].stage = 5 /\ q = 0
      BY <1>3, <1>4, <1>11, <2>1, <2>5 DEF OutCall, InCall, Call
    <3>2. at[q].stage # 5
      BY <1>6, <1>9, <2>5, <3>1 DEF Placed
    <3> QED
      BY <1>7, <3>1, <3>2
  <2> QED
    BY <2>2, <2>3, <2>4, <2>5
<1>13. Progress(q) < Progress(r)
  <2>1. at[r].stage \in 0..9
    BY <1>1, Places DEF Placed
  <2> QED
    BY <1>4, <1>7, <1>10, <1>11, <1>12, <2>1 DEF Progress
<1> QED
  BY <1>4, <1>8, <1>13

LEMMA NeverStuckHere ==
    ASSUME FarInv, WaitInv
    PROVE  NeverStuck
<1> SUFFICES ASSUME lost = {}, panicked = {}, Stuck, NEW r \in Ranks, ~Finished(r)
             PROVE  FALSE
  BY DEF NeverStuck
<1> DEFINE T == {Progress(q) : q \in {q \in Ranks : ~Finished(q)}}
<1>1. ASSUME NEW q \in Ranks
      PROVE  Progress(q) \in Nat
  <2>1. Placed(at[q], q)
    BY Places DEF FarInv, FarTypeOK
  <2> QED
    BY <2>1, FarAssumption DEF Placed, Progress
<1>2. T \in SUBSET Nat /\ T # {}
  BY <1>1
<1>3. PICK x \in T : \A y \in T : x <= y
  BY <1>2, Least
<1>4. PICK q \in Ranks : ~Finished(q) /\ x = Progress(q)
  BY <1>3
<1>5. PICK u \in Ranks : ~Finished(u) /\ Progress(u) < Progress(q)
  BY <1>4, WaitsForLess
<1>6. x <= Progress(u)
  BY <1>3, <1>5
<1> QED
  BY <1>1, <1>4, <1>5, <1>6

-----------------------------------------------------------------------------
(* The invariant is inductive.                                             *)

(* Which call a rank makes with a step.                                    *)
LEMMA RankSteps ==
    ASSUME NEW r \in Ranks, Rank(r)
    PROVE  /\ Advance(r)
           /\ \/ Setup(r) /\ at[r].op = "setup"
              \/ Close(r) /\ at[r].op = "close"
              \/ Send(r) /\ at[r].op = "send"
              \/ used' = used /\ out' = out /\ at[r].op \notin {"setup", "close", "send"}
BY DEF Rank, Setup, Put, Get, Own, Send, Recv, Quit, Ack, Close, Join, At, sockVars

(* A step of a rank makes the call it is at, and no call of another rank.  *)
LEMMA MadeBy ==
    ASSUME FarTypeOK, NEW r \in Ranks, Advance(r), NEW q \in Ranks, NEW c \in Script[q]
    PROVE  /\ at'[q].op = "setup" <=> at[q].op = "setup" /\ q # r
           /\ Made(c, q)' <=> Made(c, q) \/ (q = r /\ c = at[r])
<1>1. CASE q = r
  BY <1>1, PastSetup, MadeStep
<1>2. CASE q # r
  <2>1. at'[q] = at[q]
    BY <1>2, AtType
  <2> QED
    BY <1>2, <2>1 DEF Made
<1> QED
  BY <1>1, <1>2

LEMMA OpenStep ==
    ASSUME FarInv, \A s \in Socks : OpenOK(s), [Next]_vars, NEW q \in Socks
    PROVE  OpenOK(q)'
<1>a. /\ FarTypeOK /\ OpenOK(q) /\ q[2] \in Ranks /\ CloseCall(q) \in Script[q[2]] /\ q[3] \in Int
      /\ used \in [Socks -> {"no", "yes", "freed"}] /\ out \in [Socks -> Seq(Msgs)]
  BY SockEnds, InScript DEF FarInv, FarTypeOK
<1>1. ASSUME NEW r \in Ranks, Rank(r)
      PROVE  OpenOK(q)'
  <2>1. /\ Advance(r)
        /\ at'[q[2]].op = "setup" <=> at[q[2]].op = "setup" /\ q[2] # r
        /\ Made(CloseCall(q), q[2])' <=> Made(CloseCall(q), q[2]) \/ (q[2] = r /\ CloseCall(q) = at[r])
    BY <1>1, <1>a, RankSteps, MadeBy
  <2>2. CASE Setup(r) /\ at[r].op = "setup"
    <3>1. used'[q] = (IF q[2] = r THEN "yes" ELSE used[q]) /\ out' = out
      BY <2>2 DEF Setup, Owner
    <3>2. CloseCall(q) # at[r]
      BY <2>2 DEF CloseCall, Call
    <3>3. q[2] = r => used[q] = "no" /\ ~Made(CloseCall(q), q[2])
      BY <1>a, <2>2 DEF OpenOK
    <3> QED
      BY <1>a, <2>1, <3>1, <3>2, <3>3 DEF OpenOK
  <2>3. CASE Close(r) /\ at[r].op = "close"
    <3>1. Sock(r) \in Socks /\ Sock(r)[2] = r /\ at[r] = CloseCall(Sock(r))
      BY <1>a, <2>3, SockOfRank, CallOfSock DEF Sock
    <3>2. used' = [used EXCEPT ![Sock(r)] = "freed"] /\ out' = [out EXCEPT ![Sock(r)] = <<>>]
      BY <2>3 DEF Close
    <3>3. CASE q = Sock(r)
      BY <1>a, <2>1, <2>3, <3>1, <3>2, <3>3 DEF OpenOK
    <3>4. CASE q # Sock(r)
      <4>1. used'[q] = used[q] /\ out'[q] = out[q]
        BY <1>a, <3>1, <3>2, <3>4
      <4>2. CloseCall(q) # at[r]
        BY <3>1, <3>4 DEF CloseCall, Call
      <4>3. q[2] = r => at[q[2]].op # "setup"
        BY <2>3
      <4> QED
        BY <1>a, <2>1, <4>1, <4>2, <4>3 DEF OpenOK
    <3> QED
      BY <3>3, <3>4
  <2>4. CASE Send(r) /\ at[r].op = "send"
    <3>1. used' = used /\ used[Sock(r)] = "yes" /\ (q # Sock(r) => out'[q] = out[q])
      BY <1>a, <2>4 DEF Send, Buffer
    <3>2. CloseCall(q) # at[r]
      BY <2>4 DEF CloseCall, Call
    <3>3. q[2] = r => at[q[2]].op # "setup"
      BY <2>4
    <3> QED
      BY <1>a, <2>1, <3>1, <3>2, <3>3 DEF OpenOK
  <2>5. CASE used' = used /\ out' = out /\ at[r].op \notin {"setup", "close", "send"}
    <3>1. CloseCall(q) # at[r] /\ (q[2] = r => at[q[2]].op # "setup")
      BY <2>5 DEF CloseCall, Call
    <3> QED
      BY <1>a, <2>1, <2>5, <3>1 DEF OpenOK
  <2> QED
    BY <1>1, <2>2, <2>3, <2>4, <2>5, RankSteps
<1>2. CASE at' = at /\ used' = used /\ (out'[q] = out[q] \/ used[q] = "yes" \/ used[q] = "no")
  BY <1>2, <1>a DEF OpenOK, Made
<1>3. ASSUME NEW s \in HaloSocks, SendPump(s)
      PROVE  OpenOK(q)'
  <2>1. at' = at /\ used' = used
    BY <1>3 DEF SendPump, PumpTake, PumpQuit, DrainNothing, PumpSend, Buffer, Panic, PumpAck, rankVars, sockVars
  <2>2. CASE PumpSend(s)
    BY <1>2, <1>a, <2>1, <2>2 DEF PumpSend, Buffer, Panic, sockVars
  <2>3. CASE ~PumpSend(s)
    BY <1>2, <1>3, <2>1, <2>3 DEF SendPump, PumpTake, PumpQuit, DrainNothing, PumpAck, sockVars
  <2> QED
    BY <2>2, <2>3
<1>4. ASSUME NEW s \in HaloSocks, RecvPump(s)
      PROVE  OpenOK(q)'
  <2>1. at' = at /\ used' = used /\ out' = out
    BY <1>4 DEF RecvPump, LookUp, InvalidHandle, Panic, PumpRecv, PumpPut, PumpClosed, rankVars, sockVars
  <2> QED
    BY <1>2, <2>1
<1>5. ASSUME NEW s \in Socks, Transmit(s)
      PROVE  OpenOK(q)'
  <2>1. at' = at /\ used' = used /\ used[s] = "yes" /\ out' = [out EXCEPT ![s] = Tail(@)]
    BY <1>5 DEF Transmit, Connected, rankVars
  <2>2. out'[q] = out[q] \/ q = s
    BY <1>a, <2>1
  <2> QED
    BY <1>2, <2>1, <2>2
<1>6. CASE UNCHANGED vars
  BY <1>2, <1>6 DEF vars, rankVars, sockVars
<1> QED
  BY <1>1, <1>3, <1>4, <1>5, <1>6 DEF Next

LEMMA TurnStep ==
    ASSUME FarInv, \A s \in Socks : OpenOK(s), \A s \in HaloSocks : TurnOK(s), [Next]_vars, NEW q \in HaloSocks
    PROVE  TurnOK(q)'
<1>a. /\ FarTypeOK /\ TurnOK(q) /\ PumpOK(q) /\ OpenOK(q) /\ q \in Socks /\ q[2] \in Ranks
      /\ QuitCall(q) \in Script[q[2]] /\ AckCall(q) \in Script[q[2]] /\ q[3] \in Int
  BY HaloIsSock, SockEnds, InScript DEF FarInv
<1>b. /\ used \in [Socks -> {"no", "yes", "freed"}]
      /\ spc \in [HaloSocks -> {"unborn", "select", "send", "drain", "last", "ack", "gone"}]
      /\ rpc \in [HaloSocks -> {"unborn", "handle", "recv", "put", "gone"}]
      /\ quit \in [HaloSocks -> BOOLEAN] /\ sendDone \in [HaloSocks -> BOOLEAN]
  BY <1>a DEF FarTypeOK
<1>1. ASSUME NEW r \in Ranks, Rank(r)
      PROVE  TurnOK(q)'
  <2>1. /\ Advance(r)
        /\ at'[q[2]].op = "setup" <=> at[q[2]].op = "setup" /\ q[2] # r
        /\ Made(QuitCall(q), q[2])' <=> Made(QuitCall(q), q[2]) \/ (q[2] = r /\ QuitCall(q) = at[r])
        /\ Made(AckCall(q), q[2])' <=> Made(AckCall(q), q[2]) \/ (q[2] = r /\ AckCall(q) = at[r])
    BY <1>1, <1>a, RankSteps, MadeBy
  <2>2. CASE Setup(r)
    <3>1. /\ at[r].op = "setup" /\ quit' = quit /\ sendDone' = sendDone
          /\ spc'[q] = (IF q[2] = r THEN "select" ELSE spc[q])
          /\ rpc'[q] = (IF q[2] = r THEN "handle" ELSE rpc[q])
          /\ used'[q] = (IF q[2] = r THEN "yes" ELSE used[q])
      BY <2>2, <1>a DEF Setup, At, Owner, chanVars
    <3>2. CASE q[2] = r
      <4>1. at[r].n = 0 /\ at[r].stage = 0
        BY <1>a, <3>1, CallOfSock DEF FarTypeOK
      <4>2. ~Made(QuitCall(q), q[2]) /\ QuitCall(q) # at[r]
        BY <3>1, <3>2, <4>1, FarAssumption DEF Made, Before, QuitCall, Call
      <4> QED
        BY <2>1, <3>1, <3>2, <4>2 DEF TurnOK
    <3>3. CASE q[2] # r
      BY <1>a, <2>1, <3>1, <3>3 DEF TurnOK
    <3> QED
      BY <3>2, <3>3
  <2>3. CASE Quit(r)
    <3>1. /\ at[r].op = "quit" /\ at[r] = QuitCall(Sock(r)) /\ Sock(r)[2] = r /\ Sock(r) \in HaloSocks
          /\ spc' = spc /\ rpc' = rpc /\ sendDone' = sendDone /\ used' = used
          /\ quit' = [quit EXCEPT ![Sock(r)] = TRUE]
      BY <1>a, <2>3, SockOfRank, CallOfSock DEF Quit, At, Sock, pumpVars, sockVars
    <3>2. quit'[q] = (quit[q] \/ q = Sock(r))
      BY <1>b, <3>1
    <3>3. q # Sock(r) => QuitCall(q) # at[r]
      BY <3>1 DEF QuitCall, Call
    <3>4. AckCall(q) # at[r]
      BY <3>1 DEF AckCall, Call
    <3> QED
      BY <1>a, <2>1, <3>1, <3>2, <3>3, <3>4 DEF TurnOK
  <2>4. CASE Ack(r)
    <3>1. /\ at[r].op = "ack" /\ at[r] = AckCall(Sock(r)) /\ Sock(r)[2] = r /\ Sock(r) \in HaloSocks
          /\ spc' = spc /\ rpc' = rpc /\ quit' = quit /\ used' = used
          /\ sendDone' = [sendDone EXCEPT ![Sock(r)] = FALSE]
      BY <1>a, <2>4, SockOfRank, CallOfSock DEF Ack, At, Sock, pumpVars, sockVars
    <3>2. q # Sock(r) => sendDone'[q] = sendDone[q]
      BY <1>b, <3>1
    <3>3. QuitCall(q) # at[r]
      BY <3>1 DEF QuitCall, Call
    <3>4. q = Sock(r) => Made(AckCall(q), q[2])'
      BY <2>1, <3>1
    <3> QED
      BY <1>a, <2>1, <3>1, <3>2, <3>3, <3>4 DEF TurnOK
  <2>5. CASE Put(r) \/ Get(r) \/ Own(r) \/ Send(r) \/ Recv(r) \/ Close(r) \/ Join(r)
    <3>1. /\ at[r].op \in {"put", "get", "own", "send", "recv", "close", "join"}
          /\ spc' = spc /\ rpc' = rpc /\ quit' = quit /\ sendDone' = sendDone
          /\ used[q] = "freed" => used'[q] = "freed"
      BY <1>a, <1>b, <2>5
      DEF Put, Get, Own, Send, Buffer, Recv, Close, Join, At, pumpVars, chanVars, sockVars
    <3>2. QuitCall(q) # at[r] /\ AckCall(q) # at[r]
      BY <3>1 DEF QuitCall, AckCall, Call
    <3>3. q[2] = r => at[q[2]].op # "setup"
      BY <3>1
    <3> QED
      BY <1>a, <2>1, <3>1, <3>2, <3>3 DEF TurnOK
  <2> QED
    BY <1>1, <2>2, <2>3, <2>4, <2>5 DEF Rank
<1>2. ASSUME NEW s \in HaloSocks, SendPump(s)
      PROVE  TurnOK(q)'
  <2>1. at' = at /\ used' = used /\ rpc' = rpc
    BY <1>2
    DEF SendPump, PumpTake, PumpQuit, DrainNothing, PumpSend, Buffer, Panic, PumpAck, rankVars, sockVars, pumpVars
  <2>2. CASE q # s
    <3>1. spc'[q] = spc[q] /\ quit'[q] = quit[q] /\ sendDone'[q] = sendDone[q]
      BY <1>2, <1>b, <2>2
      DEF SendPump, PumpTake, PumpQuit, DrainNothing, PumpSend, Panic, PumpAck, chanVars, pumpVars
    <3> QED
      BY <1>a, <2>1, <3>1 DEF TurnOK, Made
  <2>3. CASE q = s
    <3>1. \/ /\ spc[q] \in {"select", "drain"} /\ quit' = quit /\ sendDone' = sendDone
             /\ spc'[q] = IF spc[q] = "select" THEN "send" ELSE "last"
          \/ spc[q] = "select" /\ spc'[q] = "drain" /\ sendDone' = sendDone
          \/ spc[q] = "drain" /\ spc'[q] = "ack" /\ quit' = quit /\ sendDone' = sendDone
          \/ spc' = spc /\ quit' = quit /\ sendDone' = sendDone
          \/ /\ spc[q] \in {"send", "last"} /\ quit' = quit /\ sendDone' = sendDone
             /\ spc'[q] = IF spc[q] = "send" THEN "select" ELSE "ack"
          \/ spc[q] = "ack" /\ spc'[q] = "gone" /\ sendDone'[q]
      BY <1>2, <1>b, <2>3
      DEF SendPump, PumpTake, PumpQuit, AfterQuit, DrainNothing, PumpSend, Panic, PumpAck, chanVars, pumpVars
    <3> QED
      BY <1>a, <2>1, <3>1 DEF TurnOK, Made
  <2> QED
    BY <2>2, <2>3
<1>3. ASSUME NEW s \in HaloSocks, RecvPump(s)
      PROVE  TurnOK(q)'
  <2>1. /\ at' = at /\ used' = used /\ spc' = spc /\ quit' = quit /\ sendDone' = sendDone
        /\ rpc'[q] = "unborn" <=> rpc[q] = "unborn"
        /\ rpc'[q] = "gone" => rpc[q] = "gone" \/ used[q] = "freed"
    BY <1>3, <1>b
    DEF RecvPump, LookUp, InvalidHandle, Panic, PumpRecv, PumpPut, PumpClosed, rankVars, chanVars, pumpVars, sockVars
  <2> QED
    BY <1>a, <2>1 DEF TurnOK, Made
<1>4. CASE UNCHANGED <<rankVars, used, chanVars, pumpVars>>
  BY <1>4, <1>a DEF TurnOK, Made, rankVars, chanVars, pumpVars
<1>5. ASSUME NEW s \in Socks, Transmit(s)
      PROVE  UNCHANGED <<rankVars, used, chanVars, pumpVars>>
  BY <1>5 DEF Transmit
<1> QED
  BY <1>1, <1>2, <1>3, <1>4, <1>5 DEF Next, vars, sockVars

LEMMA JoinInScript ==
    ASSUME NEW s \in HaloSocks
    PROVE  JoinCall(s) \in Script[s[2]]
<1>1. s[2] \in Ranks
  BY HaloIsSock, SockEnds
<1>2. s \in Halos(s[2])
  BY DEF Halos, Owner
<1>3. JoinCall(s) \in Teardown(s[2])
  BY <1>2 DEF Teardown, JoinCall, Ascending
<1> QED
  BY <1>1, <1>3 DEF Script

(* What a step changes of the count, on the link to a neighbour or on none.*)
LEMMA JoinKept ==
    ASSUME NEW r \in Ranks, JoinOK(r), pumpDone'[r] = pumpDone[r],
           \A h \in HaloSocks : h[2] = r =>
               /\ rpc'[h] = "gone" <=> rpc[h] = "gone"
               /\ Made(JoinCall(h), r)' <=> Made(JoinCall(h), r)
    PROVE  JoinOK(r)'
<1> DEFINE L == Halo(r, r - 1)
           R == Halo(r, r + 1)
<1>1. (L \in HaloSocks => L[2] = r) /\ (R \in HaloSocks => R[2] = r)
  BY HaloOf
<1>2. /\ (L \in HaloSocks /\ rpc'[L] = "gone") <=> (L \in HaloSocks /\ rpc[L] = "gone")
      /\ (R \in HaloSocks /\ rpc'[R] = "gone") <=> (R \in HaloSocks /\ rpc[R] = "gone")
      /\ (L \in HaloSocks /\ Made(JoinCall(L), r)') <=> (L \in HaloSocks /\ Made(JoinCall(L), r))
      /\ (R \in HaloSocks /\ Made(JoinCall(R), r)') <=> (R \in HaloSocks /\ Made(JoinCall(R), r))
  BY <1>1
<1>3. /\ Ended(r, r - 1)' = Ended(r, r - 1) /\ Ended(r, r + 1)' = Ended(r, r + 1)
      /\ Joined(r, r - 1)' = Joined(r, r - 1) /\ Joined(r, r + 1)' = Joined(r, r + 1)
  BY <1>2 DEF Ended, Joined, One
<1> QED
  BY <1>3 DEF JoinOK

LEMMA JoinOne ==
    ASSUME NEW r \in Ranks, pumpDone[r] \in Int, JoinOK(r), NEW s \in HaloSocks, s[2] = r,
           \/ /\ pumpDone'[r] = pumpDone[r] + 1
              /\ rpc[s] # "gone" /\ rpc'[s] = "gone"
              /\ Made(JoinCall(s), r)' <=> Made(JoinCall(s), r)
           \/ /\ pumpDone'[r] = pumpDone[r] - 1
              /\ rpc'[s] = "gone" <=> rpc[s] = "gone"
              /\ ~Made(JoinCall(s), r) /\ Made(JoinCall(s), r)',
           \A h \in HaloSocks : h[2] = r /\ h # s =>
               /\ rpc'[h] = "gone" <=> rpc[h] = "gone"
               /\ Made(JoinCall(h), r)' <=> Made(JoinCall(h), r)
    PROVE  JoinOK(r)'
<1> DEFINE L == Halo(r, r - 1)
           R == Halo(r, r + 1)
<1>1. /\ (L \in HaloSocks => L[2] = r) /\ (R \in HaloSocks => R[2] = r)
      /\ s = L \/ s = R
  BY HaloOf
<1>2. L # R
  BY DEF Halo, Ranks
<1>3. pumpDone[r] + (Joined(r, r - 1) + Joined(r, r + 1)) = Ended(r, r - 1) + Ended(r, r + 1)
  BY DEF JoinOK
<1>4. CASE s = L
  <2>1. Ended(r, r + 1)' = Ended(r, r + 1) /\ Joined(r, r + 1)' = Joined(r, r + 1)
    BY <1>1, <1>2, <1>4 DEF Ended, Joined, One
  <2>2. /\ Ended(r, r - 1) = One(rpc[s] = "gone") /\ Ended(r, r - 1)' = One(rpc'[s] = "gone")
        /\ Joined(r, r - 1) = One(Made(JoinCall(s), r)) /\ Joined(r, r - 1)' = One(Made(JoinCall(s), r)')
    BY <1>4 DEF Ended, Joined, One
  <2>3. Ended(r, r + 1) \in Int /\ Joined(r, r + 1) \in Int
    BY DEF Ended, Joined, One
  <2> QED
    BY <1>3, <2>1, <2>2, <2>3 DEF JoinOK, One
<1>5. CASE s = R
  <2>1. Ended(r, r - 1)' = Ended(r, r - 1) /\ Joined(r, r - 1)' = Joined(r, r - 1)
    BY <1>1, <1>2, <1>5 DEF Ended, Joined, One
  <2>2. /\ Ended(r, r + 1) = One(rpc[s] = "gone") /\ Ended(r, r + 1)' = One(rpc'[s] = "gone")
        /\ Joined(r, r + 1) = One(Made(JoinCall(s), r)) /\ Joined(r, r + 1)' = One(Made(JoinCall(s), r)')
    BY <1>5 DEF Ended, Joined, One
  <2>3. Ended(r, r - 1) \in Int /\ Joined(r, r - 1) \in Int
    BY DEF Ended, Joined, One
  <2> QED
    BY <1>3, <2>1, <2>2, <2>3 DEF JoinOK, One
<1> QED
  BY <1>1, <1>4, <1>5

LEMMA JoinStep ==
    ASSUME FarInv, pumpDone \in [Ranks -> Int], \A r \in Ranks : JoinOK(r), [Next]_vars
    PROVE  pumpDone' \in [Ranks -> Int] /\ \A q \in Ranks : JoinOK(q)'
<1>a. /\ FarTypeOK /\ rpc \in [HaloSocks -> {"unborn", "handle", "recv", "put", "gone"}]
      /\ \A h \in HaloSocks : PumpOK(h) /\ JoinCall(h) \in Script[h[2]] /\ h[2] \in Ranks /\ h[3] \in Int
  BY JoinInScript, HaloIsSock, SockEnds DEF FarInv, FarTypeOK
<1>1. ASSUME NEW r \in Ranks, Rank(r), ~Join(r), NEW q \in Ranks
      PROVE  pumpDone' = pumpDone /\ JoinOK(q)'
  <2>1. Advance(r) /\ pumpDone' = pumpDone /\ at[r].op # "join"
    BY <1>1 DEF Rank, Setup, Put, Get, Own, Send, Recv, Quit, Ack, Close, At, chanVars
  <2>2. ASSUME NEW h \in HaloSocks
        PROVE  rpc'[h] = "gone" <=> rpc[h] = "gone"
    <3>1. CASE Setup(r)
      <4>1. at[r].op = "setup" /\ rpc'[h] = (IF h[2] = r THEN "handle" ELSE rpc[h])
        BY <3>1 DEF Setup, At, Owner
      <4>2. h[2] = r => rpc[h] = "unborn"
        BY <1>a, <4>1 DEF PumpOK
      <4> QED
        BY <4>1, <4>2
    <3>2. CASE ~Setup(r)
      BY <1>1, <3>2 DEF Rank, Put, Get, Own, Send, Recv, Quit, Ack, Close, pumpVars
    <3> QED
      BY <3>1, <3>2
  <2>3. ASSUME NEW h \in HaloSocks, h[2] = q
        PROVE  Made(JoinCall(h), q)' <=> Made(JoinCall(h), q)
    <3>1. JoinCall(h) # at[r]
      BY <2>1 DEF JoinCall, Call
    <3> QED
      BY <1>a, <2>1, <2>3, <3>1, MadeBy
  <2> QED
    BY <2>1, <2>2, <2>3, JoinKept
<1>2. ASSUME NEW r \in Ranks, Join(r), NEW q \in Ranks
      PROVE  pumpDone' \in [Ranks -> Int] /\ JoinOK(q)'
  <2>1. /\ Advance(r) /\ at[r].op = "join" /\ rpc' = rpc
        /\ pumpDone' = [pumpDone EXCEPT ![r] = @ - 1]
    BY <1>2 DEF Join, At, pumpVars
  <2>a. at[r] \in Script[r]
    BY <1>a DEF FarTypeOK
  <2>2. PICK s \in HaloSocks : s[2] = r /\ at[r] = JoinCall(s)
    BY <2>1, <2>a, JoinPlace
  <2>3. ASSUME NEW h \in HaloSocks, h[2] = q
        PROVE  Made(JoinCall(h), q)' <=> Made(JoinCall(h), q) \/ h = s
    <3>1. JoinCall(h) = at[r] <=> h = s
      BY <2>2 DEF JoinCall, Call
    <3> QED
      BY <1>a, <2>1, <2>2, <2>3, <3>1, MadeBy
  <2>4. ~Made(JoinCall(s), r)
    <3>1. ~Before(JoinCall(s), JoinCall(s))
      BY <1>a, <2>2, FarAssumption DEF Before, JoinCall, Call
    <3> QED
      BY <2>2, <3>1 DEF Made
  <2>5. CASE q = r
    <3>1. pumpDone'[q] = pumpDone[q] - 1 /\ pumpDone[q] \in Int /\ JoinOK(q)
      BY <2>1, <2>5
    <3>2. ~Made(JoinCall(s), q) /\ Made(JoinCall(s), q)' /\ s[2] = q
      BY <2>2, <2>3, <2>4, <2>5
    <3>3. ASSUME NEW h \in HaloSocks, h[2] = q, h # s
          PROVE  /\ rpc'[h] = "gone" <=> rpc[h] = "gone"
                 /\ Made(JoinCall(h), q)' <=> Made(JoinCall(h), q)
      BY <2>1, <2>3, <3>3
    <3>4. rpc'[s] = "gone" <=> rpc[s] = "gone"
      BY <2>1
    <3>5. JoinOK(q)'
      BY <2>2, <3>1, <3>2, <3>3, <3>4, JoinOne
    <3> QED
      BY <2>1, <3>5
  <2>6. CASE q # r
    <3>1. pumpDone'[q] = pumpDone[q]
      BY <2>1, <2>6
    <3>2. ASSUME NEW h \in HaloSocks, h[2] = q
          PROVE  /\ rpc'[h] = "gone" <=> rpc[h] = "gone"
                 /\ Made(JoinCall(h), q)' <=> Made(JoinCall(h), q)
      BY <2>1, <2>2, <2>3, <2>6, <3>2
    <3>3. JoinOK(q)'
      BY <3>1, <3>2, JoinKept
    <3> QED
      BY <2>1, <3>3
  <2> QED
    BY <2>5, <2>6
<1>3. ASSUME NEW s \in HaloSocks, PumpClosed(s), NEW q \in Ranks
      PROVE  pumpDone' \in [Ranks -> Int] /\ JoinOK(q)'
  <2>1. /\ at' = at /\ rpc[s] = "recv" /\ rpc' = [rpc EXCEPT ![s] = "gone"]
        /\ pumpDone' = [pumpDone EXCEPT ![s[2]] = @ + 1]
    BY <1>3 DEF PumpClosed, Owner, rankVars
  <2>2. ASSUME NEW h \in HaloSocks, h # s
        PROVE  rpc'[h] = "gone" <=> rpc[h] = "gone"
    BY <1>a, <2>1, <2>2
  <2>3. ASSUME NEW h \in HaloSocks
        PROVE  Made(JoinCall(h), q)' <=> Made(JoinCall(h), q)
    BY <2>1 DEF Made
  <2>4. CASE q = s[2]
    <3>1. pumpDone'[q] = pumpDone[q] + 1 /\ pumpDone[q] \in Int /\ JoinOK(q)
      BY <2>1, <2>4
    <3>2. rpc[s] # "gone" /\ rpc'[s] = "gone" /\ (Made(JoinCall(s), q)' <=> Made(JoinCall(s), q))
      BY <1>a, <2>1, <2>3
    <3>3. JoinOK(q)'
      BY <2>2, <2>3, <2>4, <3>1, <3>2, JoinOne
    <3> QED
      BY <1>a, <2>1, <3>3
  <2>5. CASE q # s[2]
    <3>1. pumpDone'[q] = pumpDone[q]
      BY <2>1, <2>5
    <3>2. JoinOK(q)'
      BY <2>2, <2>3, <2>5, <3>1, JoinKept
    <3> QED
      BY <1>a, <2>1, <3>2
  <2> QED
    BY <2>4, <2>5
<1>4. ASSUME at' = at, pumpDone' = pumpDone,
             \A h \in HaloSocks : rpc'[h] = "gone" <=> rpc[h] = "gone", NEW q \in Ranks
      PROVE  JoinOK(q)'
  BY <1>4, JoinKept DEF Made
<1>5. ASSUME NEW s \in HaloSocks, SendPump(s)
      PROVE  at' = at /\ pumpDone' = pumpDone /\ rpc' = rpc
  BY <1>5 DEF SendPump, PumpTake, PumpQuit, DrainNothing, PumpSend, Panic, PumpAck, rankVars, chanVars, pumpVars
<1>6. ASSUME NEW s \in HaloSocks, RecvPump(s), ~PumpClosed(s)
      PROVE  /\ at' = at /\ pumpDone' = pumpDone
             /\ \A h \in HaloSocks : rpc'[h] = "gone" <=> rpc[h] = "gone"
  BY <1>a, <1>6 DEF RecvPump, LookUp, InvalidHandle, Panic, PumpRecv, PumpPut, rankVars, chanVars, pumpVars
<1>7. ASSUME NEW s \in Socks, Transmit(s)
      PROVE  at' = at /\ pumpDone' = pumpDone /\ rpc' = rpc
  BY <1>7 DEF Transmit, rankVars, chanVars, pumpVars
<1>8. CASE UNCHANGED vars
  BY <1>4, <1>8 DEF vars, rankVars, chanVars, pumpVars
<1>9. pumpDone' \in [Ranks -> Int]
  <2>1. ASSUME NEW r \in Ranks, Rank(r)
        PROVE  pumpDone' \in [Ranks -> Int]
    BY <1>1, <1>2, <2>1
  <2>2. ASSUME NEW s \in HaloSocks, RecvPump(s)
        PROVE  pumpDone' \in [Ranks -> Int]
    BY <1>a, <1>3, <1>6, <2>2
  <2> QED
    BY <1>5, <1>7, <2>1, <2>2 DEF Next, vars, chanVars
<1>10. ASSUME NEW q \in Ranks
       PROVE  JoinOK(q)'
  <2>1. ASSUME NEW r \in Ranks, Rank(r)
        PROVE  JoinOK(q)'
    BY <1>1, <1>2, <2>1
  <2>2. ASSUME NEW s \in HaloSocks, SendPump(s)
        PROVE  JoinOK(q)'
    BY <1>4, <1>5, <2>2
  <2>3. ASSUME NEW s \in HaloSocks, RecvPump(s)
        PROVE  JoinOK(q)'
    BY <1>3, <1>4, <1>6, <2>3
  <2>4. ASSUME NEW s \in Socks, Transmit(s)
        PROVE  JoinOK(q)'
    BY <1>4, <1>7, <2>4
  <2> QED
    BY <1>8, <2>1, <2>2, <2>3, <2>4 DEF Next
<1> QED
  BY <1>9, <1>10

LEMMA LostGrows ==
    ASSUME [Next]_vars
    PROVE  /\ lost \subseteq lost'
           /\ \A q \in Socks : used'[q] = "freed" /\ used[q] # "freed" =>
                \E r \in Ranks : Close(r) /\ (used \in [Socks -> {"no", "yes", "freed"}] => Sock(r) = q)
<1>1. ASSUME NEW r \in Ranks, Close(r)
      PROVE  /\ lost \subseteq lost'
             /\ \A q \in Socks : used'[q] = "freed" /\ used[q] # "freed"
                  /\ used \in [Socks -> {"no", "yes", "freed"}] => Sock(r) = q
  BY <1>1 DEF Close
<1>2. ASSUME NEW r \in Ranks, Rank(r), ~Close(r)
      PROVE  lost' = lost /\ \A q \in Socks : used'[q] = "freed" => used[q] = "freed"
  <2>1. CASE Setup(r)
    BY <2>1 DEF Setup
  <2>2. CASE ~Setup(r)
    BY <1>2, <2>2 DEF Rank, Put, Get, Own, Send, Buffer, Recv, Quit, Ack, Join, sockVars
  <2> QED
    BY <2>1, <2>2
<1>3. ASSUME NEW s \in HaloSocks, SendPump(s)
      PROVE  lost' = lost /\ used' = used
  BY <1>3 DEF SendPump, PumpTake, PumpQuit, DrainNothing, PumpSend, Buffer, Panic, PumpAck, sockVars
<1>4. ASSUME NEW s \in HaloSocks, RecvPump(s)
      PROVE  lost' = lost /\ used' = used
  BY <1>4 DEF RecvPump, LookUp, InvalidHandle, Panic, PumpRecv, PumpPut, PumpClosed, sockVars
<1>5. ASSUME NEW s \in Socks, Transmit(s)
      PROVE  lost' = lost /\ used' = used
  BY <1>5 DEF Transmit
<1>6. CASE UNCHANGED vars
  BY <1>6 DEF vars, sockVars
<1> QED
  BY <1>1, <1>2, <1>3, <1>4, <1>5, <1>6 DEF Next

LEMMA WholeStep ==
    ASSUME FarInv, \A s \in Socks : WholeOK(s), [Next]_vars, NEW q \in Socks
    PROVE  WholeOK(q)'
<1> SUFFICES ASSUME lost' = {}
             PROVE  Linked(Wire(q)', Pending(q)', Values(q), {})
  BY DEF WholeOK, Linked
<1> DEFINE p == Peer(q)
<1>a. /\ FarTypeOK /\ p \in Socks /\ p # q /\ Peer(p) = q /\ p[2] = q[3] /\ LinkOK(q) /\ LinkOK(p)
      /\ q[2] \in Ranks /\ p[2] \in Ranks /\ Numbers(p) = Numbers(q) /\ ClosedOK(q)
      /\ (q \in HaloSocks => PumpOK(q))
  BY SockEnds, NumbersType DEF FarInv
<1>b. Linked(Wire(q), Pending(q), Values(q), {}) /\ Pending(q) = Sent(q) \ Got(p)
  <2>1. lost = {} /\ WholeOK(q)
    BY LostGrows
  <2> QED
    BY <2>1 DEF WholeOK, Pending
<1>c. /\ Wire(q) \in Seq(Msgs) /\ Pending(q) \in SUBSET (0..Steps) /\ Carries(Values(q))
      /\ {} \in SUBSET {Steps} /\ Numbers(q) \subseteq 0..Steps
  BY <1>a, WireType, PendingType, ValueType, NumbersType
<1>1. CASE Kept(q)
  <2>1. Wire(q)' = Wire(q) /\ Pending(q)' = Pending(q)
    BY <1>1 DEF Kept, Pending
  <2> QED
    BY <1>b, <2>1
<1>2. ASSUME NEW n \in Numbers(q), PutOn(q, n)
      PROVE  Linked(Wire(q)', Pending(q)', Values(q), {})
  <2>1. /\ Advance(q[2]) /\ at[q[2]] = OutCall(q, n) /\ Wire(q)' = Append(Wire(q), Value(q, n))
        /\ n \in 0..Steps
    BY <1>2, <1>c DEF PutOn
  <2>2. at[q[2]].op \in {"put", "send"} /\ at[q[2]].s = q /\ at[q[2]].n = n
    BY <2>1 DEF OutCall, Call
  <2>3. Sent(q)' = Sent(q) \cup {n} /\ Got(p)' = Got(p)
    BY <1>a, <2>1, <2>2, CountStep
  <2>4. n \notin Sent(q) /\ \A m \in Sent(q) : m < n
    BY <1>a, <2>1, InOrder
  <2>5. Got(p) \subseteq Sent(q)
    BY <1>a DEF LinkOK
  <2>6. Pending(q)' = Pending(q) \cup {n} /\ \A m \in Pending(q) : m < n
    BY <1>b, <2>3, <2>4, <2>5 DEF Pending
  <2>7. Linked(Append(Wire(q), Values(q)[n]), Pending(q) \cup {n}, Values(q), {})
    BY <1>b, <1>c, <2>1, <2>6, LinkPut
  <2>8. Values(q)[n] = Value(q, n)
    BY <2>1 DEF Values
  <2> QED
    BY <2>1, <2>6, <2>7, <2>8
<1>3. ASSUME NEW n \in Numbers(q), TakenOff(q, n)
      PROVE  Linked(Wire(q)', Pending(q)', Values(q), {})
  <2>1. /\ Advance(p[2]) /\ at[p[2]] = InCall(p, n) /\ Wire(q) # <<>> /\ Wire(q)' = Tail(Wire(q))
        /\ n \in 0..Steps /\ n \in Numbers(p)
    BY <1>3, <1>a, <1>c DEF TakenOff
  <2>2. at[p[2]].op \in {"get", "recv"} /\ at[p[2]].s = p /\ at[p[2]].n = n
    BY <2>1 DEF InCall, Call
  <2>3. Got(p)' = Got(p) \cup {n} /\ Sent(q)' = Sent(q)
    BY <1>a, <2>1, <2>2, CountStep
  <2>4. n \in Pending(q) /\ Head(Wire(q)) = Value(q, n)
    BY <1>a, <2>1, TakesItsRound
  <2>5. Pending(q)' = Pending(q) \ {n}
    BY <1>b, <2>3 DEF Pending
  <2>6. Values(q)[n] = Value(q, n)
    BY <2>1 DEF Values
  <2>7. Linked(Tail(Wire(q)), Pending(q) \ {n}, Values(q), {})
    BY <1>b, <1>c, <2>1, <2>4, <2>6, LinkGet
  <2> QED
    BY <2>1, <2>5, <2>7
<1>4. CASE ClosedBy(q)
  <2>1. Advance(q[2]) /\ at[q[2]] = CloseCall(q) /\ used'[q] = "freed"
        /\ Wire(q)' = RecvSide(p) \o inb[p]
    BY <1>4 DEF ClosedBy
  <2>2. Sent(q)' = Sent(q) /\ Got(p)' = Got(p)
    <3>1. at[q[2]].op = "close"
      BY <2>1 DEF CloseCall, Call
    <3> QED
      BY <1>a, <2>1, <3>1, CountStep
  <2>3. Pending(q)' = Pending(q)
    BY <2>2 DEF Pending
  <2>4. SendSide(q) = <<>>
    BY <1>a, <2>1, CloseSafe
  <2>5. used[q] # "freed" /\ used \in [Socks -> {"no", "yes", "freed"}]
    <3>1. q[3] \in Int /\ Steps \in Nat
      BY SockEnds, FarAssumption
    <3>2. ~Before(CloseCall(q), CloseCall(q))
      BY <3>1 DEF Before, CloseCall, Call
    <3> QED
      BY <1>a, <2>1, <3>2 DEF ClosedOK, Made, FarTypeOK
  <2>6. PICK r \in Ranks : Close(r) /\ Sock(r) = q
    BY <2>1, <2>5, LostGrows
  <2>7. {out[q][i] : i \in DOMAIN out[q]} = {}
    BY <2>6 DEF Close
  <2>8. out[q] = <<>>
    <3>1. out[q] \in Seq(Msgs) /\ Len(out[q]) \in Nat /\ DOMAIN out[q] = 1..Len(out[q])
      BY <1>a, WireType, LenProperties
    <3>2. 1 \notin DOMAIN out[q]
      BY <2>7
    <3>3. PICK k \in Nat : k = Len(out[q])
      BY <3>1
    <3>4. 1 \notin 1..k
      BY <3>1, <3>2, <3>3
    <3>5. k = 0
      BY <3>4
    <3> QED
      BY <3>1, <3>3, <3>5, EmptySeq
  <2>9. /\ RecvSide(p) \in Seq(Msgs) /\ inb[p] \in Seq(Msgs)
    BY <1>a, WireType
  <2>10. PICK a \in Seq(Msgs) : a = RecvSide(p) \o inb[p]
    BY <2>9, ConcatType
  <2>11. a \o (<<>> \o <<>>) = a
    BY ConcatEmpty, EmptySeq
  <2>12. Wire(q) = a \o (<<>> \o <<>>)
    BY <1>a, <2>4, <2>8, <2>10 DEF Wire
  <2> QED
    BY <1>b, <2>1, <2>3, <2>10, <2>11, <2>12
<1> QED
  BY <1>1, <1>2, <1>3, <1>4, WireStep DEF WireMove, FarInv

LEMMA WaitInit ==
    ASSUME Init
    PROVE  WaitInv
<1>a. ASSUME NEW r \in Ranks
      PROVE  at[r].op = "setup" /\ at[r].n = 0 /\ at[r].stage = 0
  <2>1. at[r] = Alone("setup", r, 0, 0)
    BY DEF Init
  <2> QED
    BY <2>1 DEF Alone, Call
<1>b. ASSUME NEW r \in Ranks, NEW c, c.n = Steps, c.stage \in Nat, c.stage # 0
      PROVE  ~Made(c, r)
  BY <1>a, <1>b, FarAssumption DEF Made, Before
<1>1. pumpDone \in [Ranks -> Int]
  BY DEF Init
<1>2. ASSUME NEW s \in Socks
      PROVE  OpenOK(s)
  <2>1. s[2] \in Ranks
    BY SockEnds
  <2>2. ~Made(CloseCall(s), s[2])
    <3>1. CloseCall(s).n = Steps /\ CloseCall(s).stage \in Nat /\ CloseCall(s).stage # 0
      BY DEF CloseCall, Call
    <3> QED
      BY <1>b, <2>1, <3>1
  <2> QED
    BY <1>a, <2>1, <2>2 DEF Init, OpenOK
<1>3. ASSUME NEW s \in HaloSocks
      PROVE  TurnOK(s)
  <2>1. s[2] \in Ranks
    BY HaloIsSock, SockEnds
  <2>2. ~Made(QuitCall(s), s[2])
    <3>1. QuitCall(s).n = Steps /\ QuitCall(s).stage \in Nat /\ QuitCall(s).stage # 0
      BY DEF QuitCall, Call
    <3> QED
      BY <1>b, <2>1, <3>1
  <2> QED
    BY <1>a, <2>1, <2>2 DEF Init, TurnOK
<1>4. ASSUME NEW r \in Ranks
      PROVE  JoinOK(r)
  <2>1. ASSUME NEW q
        PROVE  Joined(r, q) = 0 /\ Ended(r, q) = 0
    <3>1. JoinCall(Halo(r, q)).n = Steps /\ JoinCall(Halo(r, q)).stage \in Nat /\ JoinCall(Halo(r, q)).stage # 0
      BY DEF JoinCall, Call
    <3>2. ~Made(JoinCall(Halo(r, q)), r)
      BY <1>b, <3>1
    <3>3. Halo(r, q) \in HaloSocks => rpc[Halo(r, q)] = "unborn"
      BY DEF Init
    <3> QED
      BY <3>2, <3>3 DEF Joined, Ended, One
  <2>2. pumpDone[r] = 0
    BY DEF Init
  <2> QED
    BY <2>1, <2>2 DEF JoinOK
<1>5. ASSUME NEW s \in Socks
      PROVE  WholeOK(s)
  <2>1. Len(Wire(s)) = 0 /\ Pending(s) = {}
    BY LinksEmpty, EmptySeq DEF Pending
  <2> QED
    BY <2>1 DEF WholeOK, Linked
<1> QED
  BY <1>1, <1>2, <1>3, <1>4, <1>5 DEF WaitInv

-----------------------------------------------------------------------------
(* Stops, answers, ends of pumps and pending values are accounted for in   *)
(* every state.                                                            *)
THEOREM WaitInvariance ==
    Spec => []WaitInv
<1>1. Init => WaitInv
  BY WaitInit
<1>2. FarInv /\ WaitInv /\ [Next]_vars => WaitInv'
  <2> SUFFICES ASSUME FarInv, WaitInv, [Next]_vars
               PROVE  WaitInv'
    OBVIOUS
  <2>1. \A s \in Socks : OpenOK(s)'
    BY OpenStep DEF WaitInv
  <2>2. \A s \in HaloSocks : TurnOK(s)'
    BY TurnStep DEF WaitInv
  <2>3. pumpDone' \in [Ranks -> Int] /\ \A r \in Ranks : JoinOK(r)'
    BY JoinStep DEF WaitInv
  <2>4. \A s \in Socks : WholeOK(s)'
    BY WholeStep DEF WaitInv
  <2> QED
    BY <2>1, <2>2, <2>3, <2>4 DEF WaitInv
<1> QED
  BY <1>1, <1>2, FarInvariance, PTL DEF Spec

(* No deadlock, for any world size: as long as no marker is lost and no    *)
(* process dies, ranks, pumps and sockets never all wait before RunFar has *)
(* returned in every rank, whatever the rounds, the collectives and the    *)
(* depth of the buffers.                                                   *)
THEOREM FarNeverStuck ==
    Spec => []NeverStuck
<1>1. FarInv /\ WaitInv => NeverStuck
  BY NeverStuckHere
<1> QED
  BY <1>1, FarInvariance, WaitInvariance, PTL
=============================================================================
