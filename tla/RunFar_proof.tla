---------------------------- MODULE RunFar_proof ----------------------------
(***************************************************************************)
(* Proofs about RunFar, for any number of ranks and of rounds, any rounds  *)
(* with a collective and any depth of the buffers.                         *)
(*                                                                         *)
(* What is on its way from a socket to its peer lies in up to six places:  *)
(* the channel of the send-pump, the pump's hand, the two buffers of NNG,  *)
(* the receive-pump's hand and the channel of the lane.  Laid end to end   *)
(* (Wire) they are one queue: a put adds to its back, a get takes its      *)
(* front, a close may cut its back off, and a step of a pump or of NNG     *)
(* changes nothing.  The invariant says that the queue holds the values    *)
(* the sender's calls so far have sent and the receiver's have not taken,  *)
(* in the order of their rounds; which calls these are is read off the two *)
(* ranks' places in their scripts.                                         *)
(* From it follow what a rank reads, what a close can lose, how many       *)
(* values can be under way, and that the links implement FarLinks.         *)
(***************************************************************************)
EXTENDS RunFar, SequenceTheorems, TLAPS

Partials == Seq(Ranks \X (0..Steps))
Msgs == [m : {"marker", "halo", "partial", "result"}, n : 0..Steps, acc : Partials]

(* The calls that put a value on the link of a socket and take one off it. *)
OutCall(s, n) ==
    IF s \in HaloSocks
    THEN Call("put", s, n, 1, IF n = Steps THEN s[3] ELSE -s[3])
    ELSE Call("send", s, n, IF n = Steps THEN 2 ELSE IF s[2] = 0 THEN 5 ELSE 4, s[3])

InCall(s, n) ==
    IF s \in HaloSocks
    THEN Call("get", s, n, IF n = Steps THEN 3 ELSE 2, s[3])
    ELSE Call("recv", s, n, IF n = Steps \/ s[2] = 0 THEN 4 ELSE 5, s[3])

QuitCall(s) == Call("quit", s, Steps, 5, 2 * s[3])
AckCall(s) == Call("ack", s, Steps, 5, 2 * s[3] + 1)
CloseCall(s) == Call("close", s, Steps, IF s \in HaloSocks THEN 6 ELSE 8, s[3])

Made(c, r) == Before(c, at[r])

Sent(s) == {n \in Numbers(s) : Made(OutCall(s, n), s[2])}
Got(s) == {n \in Numbers(s) : Made(InCall(s, n), s[2])}
Pending(s) == Sent(s) \ Got(Peer(s))

(* A queue w holds the values v of the rounds P, in their order; those of  *)
(* the rounds in gap may be missing.                                       *)
Linked(w, P, v, gap) ==
    /\ \A i \in 1..Len(w) : w[i].n \in P /\ w[i] = v[w[i].n]
    /\ \A i, j \in 1..Len(w) : i < j => w[i].n < w[j].n
    /\ \A n \in P : (\E i \in 1..Len(w) : w[i].n = n) \/ n \in gap

Values(s) == [n \in 0..Steps |-> Value(s, n)]

-----------------------------------------------------------------------------
FarTypeOK ==
    /\ at \in [Ranks -> UNION {Script[r] : r \in Ranks}]
    /\ \A r \in Ranks : at[r] \in Script[r]
    /\ acc \in [Ranks -> Partials]
    /\ used \in [Socks -> {"no", "yes", "freed"}]
    /\ out \in [Socks -> Seq(Msgs)] /\ inb \in [Socks -> Seq(Msgs)]
    /\ send \in [HaloSocks -> Seq(Msgs)] /\ recv \in [HaloSocks -> Seq(Msgs)]
    /\ quit \in [HaloSocks -> BOOLEAN] /\ sendDone \in [HaloSocks -> BOOLEAN]
    /\ spc \in [HaloSocks -> {"unborn", "select", "send", "drain", "last", "ack", "gone"}]
    /\ rpc \in [HaloSocks -> {"unborn", "handle", "recv", "put", "gone"}]
    /\ sheld \in [HaloSocks -> Msgs] /\ rheld \in [HaloSocks -> Msgs]

(* Where a pump and its owner can be at the same time.                     *)
PumpOK(s) ==
    /\ at[s[2]].op = "setup" => spc[s] = "unborn" /\ rpc[s] = "unborn"
    /\ quit[s] \/ spc[s] \in {"drain", "last", "ack", "gone"} => Made(QuitCall(s), s[2])
    /\ sendDone[s] \/ Made(AckCall(s), s[2]) => spc[s] = "gone"
    /\ Len(send[s]) <= 1
    /\ spc[s] \in {"last", "ack", "gone"} => send[s] = <<>>

ClosedOK(s) == used[s] = "freed" => Made(CloseCall(s), s[2])

(* The partials a rank holds when it sends or gathers, of its own round.   *)
Gathered(n, k) == [i \in 1..k |-> <<i - 1, n>>]

AccOK(r) ==
    at[r].n # Steps =>
        /\ r = 0 /\ at[r].stage = 4 => acc[r] = Gathered(at[r].n, at[r].turn)
        /\ r = 0 /\ at[r].stage = 5 => acc[r] = Gathered(at[r].n, World)
        /\ r # 0 /\ at[r].stage = 4 => acc[r] = <<<<r, at[r].n>>>>

(* Closing a socket may lose the marker.                                   *)
Gap(s) == IF used[s] = "freed" THEN {Steps} ELSE {}

LinkOK(s) ==
    /\ Got(Peer(s)) \subseteq Sent(s)
    /\ Linked(Wire(s), Pending(s), Values(s), Gap(s))

FarInv ==
    /\ FarTypeOK
    /\ \A s \in HaloSocks : PumpOK(s)
    /\ \A s \in Socks : ClosedOK(s)
    /\ \A r \in Ranks : AccOK(r)
    /\ \A s \in Socks : LinkOK(s)
    /\ OnlyMarkersLost

-----------------------------------------------------------------------------
(* The script: its calls and their order.                                  *)

(* The two ends of a link are two sockets, of two ranks.                   *)
LEMMA SockEnds ==
    ASSUME NEW s \in Socks
    PROVE  /\ s[2] \in Ranks /\ s[3] \in Ranks /\ s[2] # s[3]
           /\ s = <<s[1], s[2], s[3]>>
           /\ Peer(s) \in Socks /\ Peer(s) # s /\ Peer(Peer(s)) = s
           /\ Peer(s)[2] = s[3] /\ Peer(s)[3] = s[2]
           /\ s \in HaloSocks <=> Peer(s) \in HaloSocks
           /\ s \in HaloSocks <=> s \notin CollSocks
           /\ s \in HaloSocks => s[1] = "halo"
           /\ s \notin HaloSocks => s[1] = "coll"
           /\ s \notin HaloSocks => (s[2] = 0 /\ s[3] # 0) \/ (s[2] # 0 /\ s[3] = 0)
           /\ s[2] \in 0..(World - 1) /\ s[3] \in 0..(World - 1)
<1>1. CASE s \in HaloSocks
  BY <1>1, FarAssumption DEF HaloSocks, CollSocks, Socks, Peer, Ranks
<1>2. CASE s \in CollSocks
  BY <1>2, FarAssumption DEF HaloSocks, CollSocks, Socks, Peer, Ranks
<1> QED
  BY <1>1, <1>2 DEF Socks

LEMMA HaloIsSock ==
    HaloSocks \subseteq Socks
BY DEF Socks

(* What a call of a script is, from its place.                             *)
Placed(c, r) ==
    /\ c = Call(c.op, c.s, c.n, c.stage, c.turn)
    /\ c.n \in 0..Steps /\ c.stage \in 0..9 /\ c.turn \in Int
    /\ c.stage = 0 => c = Alone("setup", r, 0, 0)
    /\ c.stage = 1 =>
        c.op = "put" /\ c.s \in Halos(r) /\ c.turn = (IF c.n = Steps THEN c.s[3] ELSE -c.s[3])
    /\ c.stage = 2 /\ c.n # Steps => c.op = "get" /\ c.s \in Halos(r) /\ c.turn = c.s[3]
    /\ c.stage = 2 /\ c.n = Steps => c.op = "send" /\ c.s \in Colls(r) /\ c.turn = c.s[3]
    /\ c.stage = 3 /\ c.n # Steps => c = Alone("own", r, c.n, 3) /\ c.n \in Reducing
    /\ c.stage = 3 /\ c.n = Steps => c.op = "get" /\ c.s \in Halos(r) /\ c.turn = c.s[3]
    /\ c.stage = 4 => c.s \in Colls(r) /\ c.turn = c.s[3] /\ c.n \in Reducing \cup {Steps}
    /\ c.stage = 4 => c.op = (IF c.n = Steps \/ r = 0 THEN "recv" ELSE "send")
    /\ c.stage = 5 /\ c.n # Steps => c.s \in Colls(r) /\ c.turn = c.s[3] /\ c.n \in Reducing
    /\ c.stage = 5 /\ c.n # Steps => c.op = (IF r = 0 THEN "send" ELSE "recv")
    /\ c.stage = 5 /\ c.n = Steps => c.s \in Halos(r)
    /\ c.stage = 5 /\ c.n = Steps =>
        \/ c.op = "quit" /\ c.turn = 2 * c.s[3]
        \/ c.op = "ack" /\ c.turn = 2 * c.s[3] + 1
    /\ c.stage \in 6..9 => c.n = Steps
    /\ c.stage = 6 => c.op = "close" /\ c.s \in Halos(r) /\ c.turn = c.s[3]
    /\ c.stage = 7 => c.op = "join" /\ c.s \in Halos(r) /\ c.turn = c.s[3]
    /\ c.stage = 8 => c.op = "close" /\ c.s \in Colls(r) /\ c.turn = c.s[3]
    /\ c.stage = 9 => c = Alone("end", r, Steps, 9)

LEMMA OwnSocks ==
    ASSUME NEW r \in Ranks
    PROVE  /\ \A s \in Halos(r) : s \in HaloSocks /\ s[2] = r /\ s[3] \in Int
           /\ \A s \in Colls(r) : s \in CollSocks /\ s[2] = r /\ s[3] \in Int
           /\ \A s, q \in Halos(r) : s[3] = q[3] => s = q
           /\ \A s, q \in Colls(r) : s[3] = q[3] => s = q
BY FarAssumption DEF Halos, Colls, HaloSocks, CollSocks, Owner, Ranks

LEMMA Places ==
    ASSUME NEW r \in Ranks, NEW c \in Script[r]
    PROVE  Placed(c, r)
<1>a. Steps \in Nat /\ Steps # 0 /\ Reducing \subseteq 0..(Steps - 1)
  BY FarAssumption
<1>1. CASE c = Alone("setup", r, 0, 0)
  BY <1>1, <1>a DEF Placed, Alone, Call
<1>2. CASE c = Alone("end", r, Steps, 9)
  BY <1>2, <1>a DEF Placed, Alone, Call
<1>3. ASSUME NEW n \in 0..(Steps - 1), c \in Round(r, n)
      PROVE  Placed(c, r)
  <2>1. CASE c \in Descending("put", Halos(r), n, 1)
    BY <2>1, <1>a, OwnSocks DEF Descending, Placed, Call
  <2>2. CASE c \in Ascending("get", Halos(r), n, 2)
    BY <2>2, <1>a, OwnSocks DEF Ascending, Placed, Call
  <2>3. CASE c = Alone("own", r, n, 3) /\ n \in Reducing
    BY <2>3, <1>a DEF Placed, Alone, Call
  <2>4. CASE c \in Ascending("recv", Colls(r), n, IF r = 0 THEN 4 ELSE 5) /\ n \in Reducing
    BY <2>4, <1>a, OwnSocks DEF Ascending, Placed, Call
  <2>5. CASE c \in Ascending("send", Colls(r), n, IF r = 0 THEN 5 ELSE 4) /\ n \in Reducing
    BY <2>5, <1>a, OwnSocks DEF Ascending, Placed, Call
  <2> QED
    BY <1>3, <2>1, <2>2, <2>3, <2>4, <2>5 DEF Round, Collective
<1>4. CASE c \in Teardown(r)
  <2>1. CASE c \in Ascending("put", Halos(r), Steps, 1)
    BY <2>1, <1>a, OwnSocks DEF Ascending, Placed, Call
  <2>2. CASE c \in Ascending("send", Colls(r), Steps, 2)
    BY <2>2, <1>a, OwnSocks DEF Ascending, Placed, Call
  <2>3. CASE c \in Ascending("get", Halos(r), Steps, 3)
    BY <2>3, <1>a, OwnSocks DEF Ascending, Placed, Call
  <2>4. CASE c \in Ascending("recv", Colls(r), Steps, 4)
    BY <2>4, <1>a, OwnSocks DEF Ascending, Placed, Call
  <2>5. ASSUME NEW s \in Halos(r), c \in QuitPump(s)
        PROVE  Placed(c, r)
    BY <2>5, <1>a, OwnSocks DEF QuitPump, Placed, Call
  <2>6. CASE c \in Ascending("close", Halos(r), Steps, 6)
    BY <2>6, <1>a, OwnSocks DEF Ascending, Placed, Call
  <2>7. CASE c \in Ascending("join", Halos(r), Steps, 7)
    BY <2>7, <1>a, OwnSocks DEF Ascending, Placed, Call
  <2>8. CASE c \in Ascending("close", Colls(r), Steps, 8)
    BY <2>8, <1>a, OwnSocks DEF Ascending, Placed, Call
  <2> QED
    BY <1>4, <2>1, <2>2, <2>3, <2>4, <2>5, <2>6, <2>7, <2>8
    DEF Teardown, Exchange, Markers, Awaited
<1> QED
  BY <1>1, <1>2, <1>3, <1>4 DEF Script

(* No two calls of a script have the same place.                           *)
LEMMA Keyed ==
    ASSUME NEW r \in Ranks, NEW c \in Script[r], NEW d \in Script[r],
           c.n = d.n, c.stage = d.stage, c.turn = d.turn
    PROVE  c = d
<1>1. Placed(c, r) /\ Placed(d, r)
  BY Places
<1>2. c = Call(c.op, c.s, c.n, c.stage, c.turn) /\ d = Call(d.op, d.s, d.n, d.stage, d.turn)
  BY <1>1 DEF Placed
<1>3. SUFFICES c.op = d.op /\ c.s = d.s
  BY <1>2
<1>4. c.stage \in 0..9
  BY <1>1 DEF Placed
<1>5. CASE c.stage \in {0, 9}
  BY <1>5, <1>1 DEF Placed, Alone, Call
<1>6. CASE c.stage \in {1, 2, 3, 4}
  <2>1. CASE c.stage = 1
    BY <2>1, <1>1, OwnSocks DEF Placed
  <2>2. CASE c.stage = 2
    BY <2>2, <1>1, OwnSocks DEF Placed
  <2>3. CASE c.stage = 3
    BY <2>3, <1>1, OwnSocks DEF Placed, Alone, Call
  <2>4. CASE c.stage = 4
    BY <2>4, <1>1, OwnSocks DEF Placed
  <2> QED
    BY <1>6, <2>1, <2>2, <2>3, <2>4
<1>7. CASE c.stage = 5
  BY <1>7, <1>1, OwnSocks DEF Placed
<1>8. CASE c.stage \in {6, 7, 8}
  BY <1>8, <1>1, OwnSocks DEF Placed
<1> QED
  BY <1>4, <1>5, <1>6, <1>7, <1>8

(* The calls on a socket are in the script of its owner.                   *)
LEMMA InScript ==
    ASSUME NEW s \in Socks
    PROVE  /\ \A n \in Numbers(s) : OutCall(s, n) \in Script[s[2]]
           /\ \A n \in Numbers(s) : InCall(s, n) \in Script[s[2]]
           /\ s \in HaloSocks => QuitCall(s) \in Script[s[2]] /\ AckCall(s) \in Script[s[2]]
           /\ CloseCall(s) \in Script[s[2]]
<1> DEFINE r == s[2]
<1>a. r \in Ranks /\ Steps \in Nat /\ Steps # 0 /\ Reducing \subseteq 0..(Steps - 1)
  BY FarAssumption, SockEnds
<1>b. s \in HaloSocks => s \in Halos(r)
  BY DEF Halos, Owner
<1>c. s \notin HaloSocks => s \in Colls(r)
  BY SockEnds DEF Colls, Owner
<1>d. \A n \in 0..(Steps - 1) : Round(r, n) \subseteq Script[r]
  BY <1>a DEF Script
<1>e. Teardown(r) \subseteq Script[r]
  BY <1>a DEF Script
<1>1. ASSUME NEW n \in Numbers(s)
      PROVE  OutCall(s, n) \in Script[r] /\ InCall(s, n) \in Script[r]
  <2>1. CASE n = Steps
    <3>1. OutCall(s, n) \in Exchange(r) /\ InCall(s, n) \in Exchange(r)
      BY <2>1, <1>b, <1>c DEF OutCall, InCall, Exchange, Markers, Awaited, Ascending
    <3> QED
      BY <3>1, <1>e DEF Teardown
  <2>2. CASE n # Steps
    <3>1. n \in 0..(Steps - 1)
      BY <2>2, <1>a DEF Numbers
    <3>2. CASE s \in HaloSocks
      <4>1. OutCall(s, n) \in Round(r, n) /\ InCall(s, n) \in Round(r, n)
        BY <3>2, <2>2, <1>b DEF OutCall, InCall, Round, Ascending, Descending
      <4> QED
        BY <4>1, <3>1, <1>d
    <3>3. CASE s \notin HaloSocks
      <4>1. n \in Reducing /\ s \in Colls(r)
        BY <3>3, <2>2, <1>c DEF Numbers
      <4>2. OutCall(s, n) \in Collective(r, n) /\ InCall(s, n) \in Collective(r, n)
        BY <4>1, <3>3, <2>2 DEF OutCall, InCall, Collective, Ascending
      <4> QED
        BY <4>2, <3>1, <1>d DEF Round
    <3> QED
      BY <3>2, <3>3
  <2> QED
    BY <2>1, <2>2
<1>2. s \in HaloSocks => QuitCall(s) \in Teardown(r) /\ AckCall(s) \in Teardown(r)
  BY <1>b DEF Teardown, QuitPump, QuitCall, AckCall
<1>3. CloseCall(s) \in Teardown(r)
  BY <1>b, <1>c DEF Teardown, CloseCall, Ascending
<1> QED
  BY <1>1, <1>2, <1>3, <1>e

(* The converse: a call that sends or receives is one of these.            *)
LEMMA CallOfSock ==
    ASSUME NEW r \in Ranks, NEW c \in Script[r]
    PROVE  /\ c.op \in {"put", "send"} =>
                /\ c.s \in Socks /\ c.s[2] = r /\ c.n \in Numbers(c.s) /\ c = OutCall(c.s, c.n)
                /\ c.op = "put" <=> c.s \in HaloSocks
           /\ c.op \in {"get", "recv"} =>
                /\ c.s \in Socks /\ c.s[2] = r /\ c.n \in Numbers(c.s) /\ c = InCall(c.s, c.n)
                /\ c.op = "get" <=> c.s \in HaloSocks
           /\ c.op = "quit" => c.s \in HaloSocks /\ c.s[2] = r /\ c = QuitCall(c.s)
           /\ c.op = "ack" => c.s \in HaloSocks /\ c.s[2] = r /\ c = AckCall(c.s)
           /\ c.op = "close" => c.s \in Socks /\ c.s[2] = r /\ c = CloseCall(c.s)
           /\ c.op = "setup" => c.n = 0 /\ c.stage = 0 /\ c.turn = 0
           /\ c.op = "own" => c.n \in Reducing /\ c.stage = 3 /\ c.turn = 0
<1>1. Placed(c, r)
  BY Places
<1>2. c = Call(c.op, c.s, c.n, c.stage, c.turn) /\ c.stage \in 0..9 /\ c.n \in 0..Steps
  BY <1>1 DEF Placed
<1>a. \A s \in Halos(r) : s \in HaloSocks /\ s \in Socks /\ s[2] = r
  BY OwnSocks DEF Socks
<1>b. \A s \in Colls(r) : s \in CollSocks /\ s \in Socks /\ s[2] = r /\ s \notin HaloSocks
  BY OwnSocks DEF Socks, CollSocks, HaloSocks
<1>c. Steps \in Nat /\ Steps # 0 /\ Steps \notin Reducing
  BY FarAssumption
<1>3. CASE c.stage \in {0, 9}
  BY <1>3, <1>1 DEF Placed, Alone, Call
<1>4. CASE c.stage = 1
  BY <1>4, <1>1, <1>2, <1>a DEF Placed, Numbers, OutCall
<1>5. CASE c.stage = 2
  BY <1>5, <1>1, <1>2, <1>a, <1>b DEF Placed, Numbers, OutCall, InCall
<1>6. CASE c.stage = 3 /\ c.n # Steps
  BY <1>6, <1>1, <1>2, <1>a DEF Placed, Alone, Call
<1>7. CASE c.stage = 3 /\ c.n = Steps
  BY <1>7, <1>1, <1>2, <1>a DEF Placed, Numbers, InCall
<1>8. CASE c.stage = 4
  BY <1>8, <1>1, <1>2, <1>b, <1>c DEF Placed, Numbers, OutCall, InCall
<1>9. CASE c.stage = 5 /\ c.n # Steps
  BY <1>9, <1>1, <1>2, <1>b, <1>c DEF Placed, Numbers, OutCall, InCall
<1>10. CASE c.stage = 5 /\ c.n = Steps
  BY <1>10, <1>1, <1>2, <1>a DEF Placed, QuitCall, AckCall
<1>11. CASE c.stage \in {6, 7, 8}
  BY <1>11, <1>1, <1>2, <1>a, <1>b DEF Placed, CloseCall
<1> QED
  BY <1>2, <1>3, <1>4, <1>5, <1>6, <1>7, <1>8, <1>9, <1>10, <1>11

(* A step to the next call makes that one call.                            *)
LEMMA Advanced ==
    ASSUME NEW r \in Ranks, FarTypeOK, Advance(r)
    PROVE  /\ at'[r] \in Script[r] /\ Before(at[r], at'[r])
           /\ at' = [at EXCEPT ![r] = at'[r]]
           /\ \A c \in Script[r] : Before(c, at'[r]) <=> Before(c, at[r]) \/ c = at[r]
<1>1. PICK d \in Script[r] :
        /\ Before(at[r], d)
        /\ \A e \in Script[r] : ~(Before(at[r], e) /\ Before(e, d))
        /\ at' = [at EXCEPT ![r] = d]
  BY DEF Advance
<1>2. at'[r] = d /\ at[r] \in Script[r]
  BY <1>1 DEF FarTypeOK
<1>3. ASSUME NEW c \in Script[r]
      PROVE  Before(c, d) <=> Before(c, at[r]) \/ c = at[r]
  <2>1. Placed(c, r) /\ Placed(d, r) /\ Placed(at[r], r)
    BY <1>2, Places
  <2>2. /\ c.n \in Int /\ c.stage \in Int /\ c.turn \in Int
        /\ d.n \in Int /\ d.stage \in Int /\ d.turn \in Int
        /\ at[r].n \in Int /\ at[r].stage \in Int /\ at[r].turn \in Int
    BY <2>1, FarAssumption DEF Placed
  <2>3. Before(c, at[r]) \/ Before(at[r], c)
          \/ (c.n = at[r].n /\ c.stage = at[r].stage /\ c.turn = at[r].turn)
    BY <2>2 DEF Before
  <2>4. Before(c, at[r]) \/ Before(at[r], c) \/ c = at[r]
    BY <2>3, <1>2, Keyed
  <2>5. Before(c, at[r]) => Before(c, d)
    BY <2>2, <1>1 DEF Before
  <2> QED
    BY <2>4, <2>5, <1>1
<1> QED
  BY <1>1, <1>2, <1>3

-----------------------------------------------------------------------------
(* Queues.                                                                 *)

(* Two sequences of the same length with the same elements are equal.      *)
LEMMA Elementwise ==
    ASSUME NEW M, NEW a \in Seq(M), NEW b \in Seq(M), Len(a) = Len(b),
           \A i \in 1..Len(a) : a[i] = b[i]
    PROVE  a = b
BY SeqEqual

LEMMA ConcatType ==
    ASSUME NEW M, NEW a \in Seq(M), NEW b \in Seq(M)
    PROVE  /\ a \o b \in Seq(M) /\ Len(a \o b) = Len(a) + Len(b)
           /\ \A i \in 1..Len(a) + Len(b) : (a \o b)[i] = IF i <= Len(a) THEN a[i] ELSE b[i - Len(a)]
BY ConcatProperties

LEMMA ConcatEmpty ==
    ASSUME NEW M, NEW a \in Seq(M)
    PROVE  a \o <<>> = a /\ <<>> \o a = a /\ <<>> \in Seq(M)
BY ConcatEmptySeq, EmptySeq

(* The first of a queue is moved to the one in front of it.                *)
LEMMA Shift ==
    ASSUME NEW M, NEW a \in Seq(M), NEW b \in Seq(M), b # <<>>
    PROVE  Append(a, Head(b)) \o Tail(b) = a \o b
<1> DEFINE x == Append(a, Head(b)) \o Tail(b)
           y == a \o b
<1>1. Head(b) \in M /\ Tail(b) \in Seq(M) /\ Len(Tail(b)) = Len(b) - 1 /\ Len(b) > 0
      /\ Head(b) = b[1] /\ \A i \in 1..Len(b) - 1 : Tail(b)[i] = b[i + 1]
  OBVIOUS
<1>2. /\ Append(a, Head(b)) \in Seq(M) /\ Len(Append(a, Head(b))) = Len(a) + 1
      /\ \A i \in 1..Len(a) + 1 : Append(a, Head(b))[i] = IF i = Len(a) + 1 THEN Head(b) ELSE a[i]
  BY <1>1
<1>3. x \in Seq(M) /\ y \in Seq(M) /\ Len(x) = Len(y) /\ Len(y) = Len(a) + Len(b)
  BY <1>1, <1>2, ConcatType
<1>4. ASSUME NEW i \in 1..Len(x)
      PROVE  x[i] = y[i]
  <2>1. Len(a) \in Nat /\ Len(b) \in Nat /\ i \in 1..Len(a) + Len(b)
    BY <1>3
  <2>2. x[i] = IF i <= Len(a) + 1 THEN Append(a, Head(b))[i] ELSE Tail(b)[i - (Len(a) + 1)]
    BY <1>1, <1>2, <2>1, ConcatType
  <2>3. y[i] = IF i <= Len(a) THEN a[i] ELSE b[i - Len(a)]
    BY <2>1, ConcatType
  <2>4. CASE i <= Len(a)
    BY <2>1, <2>2, <2>3, <2>4, <1>2
  <2>5. CASE i = Len(a) + 1
    BY <2>1, <2>2, <2>3, <2>5, <1>1, <1>2
  <2>6. CASE i > Len(a) + 1
    BY <2>1, <2>2, <2>3, <2>6, <1>1
  <2> QED
    BY <2>1, <2>4, <2>5, <2>6
<1> HIDE DEF x, y
<1>5. x = y
  BY <1>3, <1>4, Elementwise
<1> QED
  BY <1>5 DEF x, y

Regrouped(a, p, t, b) == (a \o p) \o (t \o b) = a \o ((p \o t) \o b)

LEMMA Regroup ==
    ASSUME NEW M, NEW a \in Seq(M), NEW p \in Seq(M), NEW t \in Seq(M), NEW b \in Seq(M)
    PROVE  Regrouped(a, p, t, b)
<1>1. PICK x \in Seq(M) : x = t \o b
  BY ConcatType
<1>2. (a \o p) \o x = a \o (p \o x)
  BY ConcatAssociative
<1>3. (p \o t) \o b = p \o (t \o b)
  BY ConcatAssociative
<1> QED
  BY <1>1, <1>2, <1>3 DEF Regrouped

Shifted(a, i, o, b) == (a \o Append(i, Head(o))) \o (Tail(o) \o b) = (a \o i) \o (o \o b)

LEMMA ShiftMiddle ==
    ASSUME NEW M, NEW a \in Seq(M), NEW i \in Seq(M), NEW o \in Seq(M), NEW b \in Seq(M), o # <<>>
    PROVE  Shifted(a, i, o, b)
<1>1. Append(i, Head(o)) \in Seq(M) /\ Tail(o) \in Seq(M)
  OBVIOUS
<1>2. Append(i, Head(o)) \o Tail(o) = i \o o
  BY Shift
<1>3. Regrouped(a, Append(i, Head(o)), Tail(o), b)
  BY <1>1, Regroup
<1>4. Regrouped(a, i, o, b)
  BY Regroup
<1> QED
  BY <1>2, <1>3, <1>4 DEF Regrouped, Shifted

(* A queue with one in front of it.                                        *)
LEMMA HeadFirst ==
    ASSUME NEW M, NEW a \in Seq(M), a # <<>>
    PROVE  <<Head(a)>> \o Tail(a) = a
<1>1. Append(<<>>, Head(a)) \o Tail(a) = <<>> \o a
  BY Shift, ConcatEmpty
<1>2. Append(<<>>, Head(a)) = <<Head(a)>>
  OBVIOUS
<1> QED
  BY <1>1, <1>2, ConcatEmpty

LEMMA AppendFirst ==
    ASSUME NEW M, NEW a \in Seq(M), NEW h \in M, NEW b \in Seq(M)
    PROVE  Append(a, h) \o b = a \o (<<h>> \o b)
<1>1. Append(a, h) = a \o <<h>>
  BY AppendIsConcat
<1>2. <<h>> \in Seq(M)
  OBVIOUS
<1> QED
  BY <1>1, <1>2, ConcatAssociative

LEMMA AppendToConcat ==
    ASSUME NEW M, NEW a \in Seq(M), NEW b \in Seq(M), NEW h \in M
    PROVE  a \o Append(b, h) = Append(a \o b, h)
<1>1. Append(b, h) = b \o <<h>> /\ Append(a \o b, h) = (a \o b) \o <<h>>
  BY AppendIsConcat, ConcatType
<1>2. <<h>> \in Seq(M)
  OBVIOUS
<1> QED
  BY <1>1, <1>2, ConcatAssociative

LEMMA TailOfOne ==
    ASSUME NEW M, NEW a \in Seq(M), a # <<>>, Len(a) <= 1
    PROVE  Tail(a) = <<>> /\ Len(Tail(a)) = 0
<1>1. Tail(a) \in Seq(M) /\ Len(Tail(a)) = Len(a) - 1
  BY HeadTailProperties
<1>2. Len(a) \in Nat /\ Len(a) # 0
  BY EmptySeq, LenProperties
<1>3. Len(Tail(a)) = 0
  BY <1>1, <1>2
<1> QED
  BY <1>1, <1>3, EmptySeq

LEMMA FrontOfConcat ==
    ASSUME NEW M, NEW a \in Seq(M), NEW b \in Seq(M), a # <<>>
    PROVE  a \o b # <<>> /\ Head(a \o b) = Head(a) /\ Tail(a \o b) = Tail(a) \o b
<1>1. Tail(a) \in Seq(M) /\ Head(a) \in M /\ Len(a) \in Nat /\ Len(b) \in Nat /\ Len(a) > 0
  OBVIOUS
<1>2. /\ a \o b \in Seq(M) /\ Len(a \o b) = Len(a) + Len(b) /\ (a \o b)[1] = a[1]
  BY <1>1, ConcatType
<1>3. a \o b # <<>> /\ Head(a \o b) = Head(a)
  BY <1>1, <1>2
<1>4. Tail(a \o b) = Tail(a) \o b
  <2>1. /\ Tail(a \o b) \in Seq(M) /\ Tail(a) \o b \in Seq(M)
        /\ Len(Tail(a \o b)) = Len(a) + Len(b) - 1 /\ Len(Tail(a) \o b) = Len(a) + Len(b) - 1
    BY <1>1, <1>2, <1>3, ConcatType
  <2>2. ASSUME NEW i \in 1..(Len(a) + Len(b) - 1)
        PROVE  Tail(a \o b)[i] = (Tail(a) \o b)[i]
    <3>1. Tail(a \o b)[i] = (a \o b)[i + 1]
      BY <1>1, <1>2, <1>3
    <3>2. (a \o b)[i + 1] = IF i + 1 <= Len(a) THEN a[i + 1] ELSE b[i + 1 - Len(a)]
      BY <1>1, ConcatType
    <3>3. (Tail(a) \o b)[i] = IF i <= Len(a) - 1 THEN Tail(a)[i] ELSE b[i - (Len(a) - 1)]
      BY <1>1, ConcatType
    <3> QED
      BY <1>1, <3>1, <3>2, <3>3
  <2> QED
    BY <2>1, <2>2, Elementwise
<1> QED
  BY <1>3, <1>4

-----------------------------------------------------------------------------
(* Linked queues.                                                          *)

Carries(v) == v \in [0..Steps -> Msgs] /\ \A n \in 0..Steps : v[n].n = n

(* The value of a round later than all on the link is added to it.         *)
LEMMA LinkPut ==
    ASSUME NEW w \in Seq(Msgs), NEW P \in SUBSET (0..Steps), NEW v, Carries(v), NEW gap \in SUBSET {Steps},
           Linked(w, P, v, gap), NEW n \in 0..Steps, \A m \in P : m < n
    PROVE  Linked(Append(w, v[n]), P \cup {n}, v, gap)
<1> DEFINE x == Append(w, v[n])
<1>1. /\ Len(x) = Len(w) + 1 /\ Len(w) \in Nat /\ x[Len(w) + 1] = v[n]
      /\ \A i \in 1..Len(w) : x[i] = w[i]
  BY DEF Carries
<1>2. v[n].n = n
  BY DEF Carries
<1>3. \A i \in 1..Len(w) : w[i].n \in P /\ w[i] = v[w[i].n]
  BY DEF Linked
<1>4. \A i, j \in 1..Len(w) : i < j => w[i].n < w[j].n
  BY DEF Linked
<1>5. \A m \in P : (\E i \in 1..Len(w) : w[i].n = m) \/ m \in gap
  BY DEF Linked
<1> HIDE DEF x
<1>6. ASSUME NEW i \in 1..Len(x)
      PROVE  x[i].n \in P \cup {n} /\ x[i] = v[x[i].n]
  BY <1>1, <1>2, <1>3
<1>7. ASSUME NEW i \in 1..Len(x), NEW j \in 1..Len(x), i < j
      PROVE  x[i].n < x[j].n
  <2>1. i \in 1..Len(w)
    BY <1>1, <1>7
  <2>2. CASE j = Len(w) + 1
    BY <2>1, <2>2, <1>1, <1>2, <1>3
  <2>3. CASE j \in 1..Len(w)
    BY <2>1, <2>3, <1>1, <1>4, <1>7
  <2> QED
    BY <2>2, <2>3, <1>1
<1>8. ASSUME NEW m \in P \cup {n}
      PROVE  (\E i \in 1..Len(x) : x[i].n = m) \/ m \in gap
  <2>1. CASE m = n
    BY <2>1, <1>1, <1>2
  <2>2. CASE m \in P
    BY <2>2, <1>1, <1>5
  <2> QED
    BY <2>1, <2>2
<1>9. Linked(x, P \cup {n}, v, gap)
  BY <1>6, <1>7, <1>8 DEF Linked
<1> QED
  BY <1>9 DEF x

(* The first on the link is the value of the earliest round pending.       *)
LEMMA LinkFirst ==
    ASSUME NEW w \in Seq(Msgs), NEW P \in SUBSET (0..Steps), NEW v, Carries(v), NEW gap \in SUBSET {Steps},
           Linked(w, P, v, gap), w # <<>>, NEW n \in P, \A m \in P : n <= m
    PROVE  Head(w) = v[n]
<1>1. Len(w) \in Nat /\ Len(w) > 0 /\ Head(w) = w[1] /\ 1 \in 1..Len(w)
  OBVIOUS
<1>2. w[1].n \in P /\ w[1] = v[w[1].n] /\ w[1].n \in 0..Steps /\ n \in 0..Steps
  BY <1>1 DEF Linked
<1>3. w[1].n <= n
  <2>1. CASE n = Steps
    BY <2>1, <1>2, FarAssumption
  <2>2. CASE n # Steps
    <3>1. PICK i \in 1..Len(w) : w[i].n = n
      BY <2>2 DEF Linked
    <3>2. i = 1 \/ w[1].n < w[i].n
      BY <1>1 DEF Linked
    <3> QED
      BY <3>1, <3>2, <1>2
  <2> QED
    BY <2>1, <2>2
<1>4. w[1].n = n
  BY <1>2, <1>3
<1> QED
  BY <1>1, <1>2, <1>4

(* The first on the link is taken.                                         *)
LEMMA LinkGet ==
    ASSUME NEW w \in Seq(Msgs), NEW P \in SUBSET (0..Steps), NEW v, Carries(v), NEW gap \in SUBSET {Steps},
           Linked(w, P, v, gap), w # <<>>, NEW n \in P, Head(w) = v[n]
    PROVE  Linked(Tail(w), P \ {n}, v, gap)
<1> DEFINE x == Tail(w)
<1>1. /\ Len(w) \in Nat /\ Len(w) > 0 /\ Head(w) = w[1] /\ Len(x) = Len(w) - 1
      /\ \A i \in 1..Len(x) : x[i] = w[i + 1] /\ i + 1 \in 1..Len(w)
  OBVIOUS
<1>2. w[1].n = n /\ n \in 0..Steps
  BY <1>1 DEF Carries
<1>3. \A i \in 1..Len(w) : w[i].n \in P /\ w[i] = v[w[i].n]
  BY DEF Linked
<1>4. \A i, j \in 1..Len(w) : i < j => w[i].n < w[j].n
  BY DEF Linked
<1>5. \A m \in P : (\E i \in 1..Len(w) : w[i].n = m) \/ m \in gap
  BY DEF Linked
<1> HIDE DEF x
<1>6. ASSUME NEW i \in 1..Len(x)
      PROVE  x[i].n \in P \ {n} /\ x[i] = v[x[i].n]
  <2>1. w[1].n < w[i + 1].n
    BY <1>1, <1>4
  <2>2. w[i + 1].n \in P /\ w[i + 1] = v[w[i + 1].n] /\ w[i + 1].n \in 0..Steps
    BY <1>1, <1>3
  <2> QED
    BY <2>1, <2>2, <1>1, <1>2
<1>7. ASSUME NEW i \in 1..Len(x), NEW j \in 1..Len(x), i < j
      PROVE  x[i].n < x[j].n
  BY <1>1, <1>4, <1>7
<1>8. ASSUME NEW m \in P \ {n}
      PROVE  (\E i \in 1..Len(x) : x[i].n = m) \/ m \in gap
  <2>1. CASE m \notin gap
    <3>1. PICK i \in 1..Len(w) : w[i].n = m
      BY <2>1, <1>5
    <3>2. i # 1
      BY <3>1, <1>2
    <3>3. PICK j \in 1..Len(x) : j = i - 1
      BY <3>2, <1>1
    <3>4. x[j].n = m
      BY <3>1, <3>3, <1>1
    <3> QED
      BY <3>4
  <2> QED
    BY <2>1
<1>9. Linked(x, P \ {n}, v, gap)
  BY <1>6, <1>7, <1>8 DEF Linked
<1> QED
  BY <1>9 DEF x

(* Nothing is pending: nothing is on the link.                             *)
LEMMA LinkEmpty ==
    ASSUME NEW w \in Seq(Msgs), NEW v, NEW gap, Linked(w, {}, v, gap)
    PROVE  w = <<>>
<1>1. \A i \in 1..Len(w) : FALSE
  BY DEF Linked
<1>2. Len(w) \in Nat /\ (Len(w) > 0 => 1 \in 1..Len(w))
  OBVIOUS
<1> QED
  BY <1>1, <1>2, EmptySeq

(* The back of the link is cut off when only the marker is pending.        *)
LEMMA LinkCut ==
    ASSUME NEW a \in Seq(Msgs), NEW b \in Seq(Msgs), NEW P \in SUBSET {Steps}, NEW v, NEW gap,
           Linked(a \o b, P, v, gap)
    PROVE  Linked(a, P, v, {Steps})
<1>1. /\ Len(a) \in Nat /\ Len(b) \in Nat /\ Len(a \o b) = Len(a) + Len(b)
      /\ \A i \in 1..Len(a) : (a \o b)[i] = a[i] /\ i \in 1..Len(a \o b)
  BY ConcatType
<1>2. \A i \in 1..Len(a) : a[i].n \in P /\ a[i] = v[a[i].n]
  BY <1>1 DEF Linked
<1>3. \A i, j \in 1..Len(a) : i < j => a[i].n < a[j].n
  BY <1>1 DEF Linked
<1> QED
  BY <1>2, <1>3 DEF Linked

-----------------------------------------------------------------------------
(* Types.                                                                  *)

LEMMA NumbersType ==
    ASSUME NEW s \in Socks
    PROVE  /\ Numbers(s) \subseteq 0..Steps /\ Steps \in Numbers(s) /\ Numbers(Peer(s)) = Numbers(s)
           /\ Steps \in Nat /\ Steps # 0
BY FarAssumption, SockEnds DEF Numbers

LEMMA OnePartial ==
    ASSUME NEW r \in Ranks, NEW n \in 0..Steps
    PROVE  <<<<r, n>>>> \in Partials
BY DEF Partials

LEMMA GatheredType ==
    ASSUME NEW n \in 0..Steps, NEW k \in 0..World
    PROVE  Gathered(n, k) \in Partials /\ Len(Gathered(n, k)) = k
<1>1. \A i \in 1..k : <<i - 1, n>> \in Ranks \X (0..Steps)
  BY FarAssumption DEF Ranks
<1>2. k \in Nat
  BY FarAssumption
<1> QED
  BY <1>1, <1>2 DEF Gathered, Partials

LEMMA ValueType ==
    ASSUME NEW s \in Socks
    PROVE  Carries(Values(s))
<1>1. ASSUME NEW n \in 0..Steps
      PROVE  Value(s, n) \in Msgs /\ Value(s, n).n = n
  <2>1. <<>> \in Partials
    BY EmptySeq DEF Partials
  <2>2. InRankOrder(n) \in Partials
    <3>1. World \in 0..World
      BY FarAssumption
    <3> QED
      BY <3>1, GatheredType DEF InRankOrder, Gathered
  <2>3. <<<<s[2], n>>>> \in Partials
    BY SockEnds, OnePartial
  <2>4. Steps \in 0..Steps
    BY FarAssumption
  <2> QED
    BY <2>1, <2>2, <2>3, <2>4 DEF Value, Owner, Marker, Msg, Msgs
<1> QED
  BY <1>1 DEF Carries, Values

LEMMA MarkerType ==
    Marker \in Msgs
<1>1. <<>> \in Partials
  BY EmptySeq DEF Partials
<1> QED
  BY <1>1, FarAssumption DEF Marker, Msg, Msgs

(* The parts of a wire are sequences of messages.                          *)
LEMMA WireType ==
    ASSUME FarTypeOK, NEW s \in Socks
    PROVE  /\ RecvSide(s) \in Seq(Msgs) /\ SendSide(s) \in Seq(Msgs)
           /\ inb[s] \in Seq(Msgs) /\ out[s] \in Seq(Msgs)
           /\ Wire(s) \in Seq(Msgs)
<1>1. ASSUME NEW q \in Socks
      PROVE  /\ RecvSide(q) \in Seq(Msgs) /\ SendSide(q) \in Seq(Msgs)
             /\ inb[q] \in Seq(Msgs) /\ out[q] \in Seq(Msgs)
  <2>1. inb[q] \in Seq(Msgs) /\ out[q] \in Seq(Msgs)
    BY DEF FarTypeOK
  <2>2. CASE q \in HaloSocks
    <3>1. send[q] \in Seq(Msgs) /\ recv[q] \in Seq(Msgs) /\ sheld[q] \in Msgs /\ rheld[q] \in Msgs
      BY <2>2 DEF FarTypeOK
    <3>2. Hand(spc[q] \in {"send", "last"}, sheld[q]) \in Seq(Msgs)
      BY <3>1 DEF Hand
    <3>3. Hand(rpc[q] = "put", rheld[q]) \in Seq(Msgs)
      BY <3>1 DEF Hand
    <3> QED
      BY <2>1, <2>2, <3>1, <3>2, <3>3, ConcatType DEF RecvSide, SendSide
  <2>3. CASE q \notin HaloSocks
    BY <2>1, <2>3, EmptySeq DEF RecvSide, SendSide
  <2> QED
    BY <2>2, <2>3
<1>2. Peer(s) \in Socks
  BY SockEnds
<1>3. RecvSide(Peer(s)) \o inb[Peer(s)] \in Seq(Msgs)
  BY <1>1, <1>2, ConcatType
<1>4. out[s] \o SendSide(s) \in Seq(Msgs)
  BY <1>1, ConcatType
<1>5. Wire(s) \in Seq(Msgs)
  BY <1>3, <1>4, ConcatType DEF Wire
<1> QED
  BY <1>1, <1>5

(* The socket of the call a rank is at.                                    *)
LEMMA SockOfRank ==
    ASSUME FarTypeOK, NEW r \in Ranks
    PROVE  /\ at[r] \in Script[r]
           /\ at[r].op \in {"put", "get", "quit", "ack"} => Sock(r) \in HaloSocks /\ Sock(r)[2] = r
           /\ at[r].op \in {"send", "recv", "close"} => Sock(r) \in Socks /\ Sock(r)[2] = r
           /\ at[r].op \in {"send", "recv"} => Sock(r) \notin HaloSocks
           /\ at[r].n \in 0..Steps
<1>1. at[r] \in Script[r]
  BY DEF FarTypeOK
<1>2. at[r].n \in 0..Steps
  BY <1>1, Places DEF Placed
<1> QED
  BY <1>1, <1>2, CallOfSock DEF Sock

(* Advance keeps the type of at, and the other ranks where they are.       *)
LEMMA AtType ==
    ASSUME FarTypeOK, NEW r \in Ranks, Advance(r)
    PROVE  /\ at' \in [Ranks -> UNION {Script[q] : q \in Ranks}]
           /\ \A q \in Ranks : at'[q] \in Script[q]
           /\ \A q \in Ranks : q # r => at'[q] = at[q]
<1>1. at'[r] \in Script[r] /\ at' = [at EXCEPT ![r] = at'[r]]
  BY Advanced
<1>2. at \in [Ranks -> UNION {Script[q] : q \in Ranks}] /\ \A q \in Ranks : at[q] \in Script[q]
  BY DEF FarTypeOK
<1>3. at'[r] \in UNION {Script[q] : q \in Ranks}
  BY <1>1
<1> QED
  BY <1>1, <1>2, <1>3

LEMMA TypeStep ==
    ASSUME FarTypeOK, [Next]_vars
    PROVE  FarTypeOK'
<1> USE DEF FarTypeOK
<1>a. ASSUME NEW q \in HaloSocks
      PROVE  q \in Socks /\ Peer(q) \in Socks /\ Owner(q) \in Ranks
  BY HaloIsSock, SockEnds DEF Owner
<1>1. ASSUME NEW r \in Ranks, Setup(r)
      PROVE  FarTypeOK'
  BY <1>1, AtType DEF Setup, chanVars
<1>2. ASSUME NEW r \in Ranks, Put(r)
      PROVE  FarTypeOK'
  <2>1. Sock(r) \in HaloSocks /\ N(r) \in 0..Steps
    BY <1>2, SockOfRank DEF Put, At, N
  <2>2. Msg("halo", N(r), <<>>) \in Msgs
    BY <2>1, EmptySeq DEF Msg, Msgs, Partials
  <2>3. <<IF N(r) = Steps THEN Marker ELSE Msg("halo", N(r), <<>>)>> \in Seq(Msgs)
    BY <2>2, MarkerType
  <2>4. send' \in [HaloSocks -> Seq(Msgs)]
    BY <1>2, <2>1, <2>3 DEF Put
  <2> QED
    BY <1>2, <2>4, AtType DEF Put, sockVars, pumpVars
<1>3. ASSUME NEW r \in Ranks, Get(r)
      PROVE  FarTypeOK'
  <2>1. Sock(r) \in HaloSocks
    BY <1>3, SockOfRank DEF Get, At
  <2>2. Tail(recv[Sock(r)]) \in Seq(Msgs)
    BY <1>3, <2>1 DEF Get
  <2>3. recv' \in [HaloSocks -> Seq(Msgs)]
    BY <1>3, <2>1, <2>2 DEF Get
  <2> QED
    BY <1>3, <2>3, AtType DEF Get, sockVars, pumpVars
<1>4. ASSUME NEW r \in Ranks, Own(r)
      PROVE  FarTypeOK'
  <2>1. <<<<r, N(r)>>>> \in Partials
    BY SockOfRank, OnePartial DEF N
  <2>2. acc' \in [Ranks -> Partials]
    BY <1>4, <2>1 DEF Own
  <2> QED
    BY <1>4, <2>2, AtType DEF Own, sockVars, chanVars, pumpVars
<1>5. ASSUME NEW r \in Ranks, Send(r)
      PROVE  FarTypeOK'
  <2>1. Sock(r) \in Socks /\ N(r) \in 0..Steps
    BY <1>5, SockOfRank DEF Send, At, N
  <2>2. Msg(IF r = 0 THEN "result" ELSE "partial", N(r), acc[r]) \in Msgs
    BY <2>1 DEF Msg, Msgs
  <2>3. PICK v \in Msgs : Buffer(Sock(r), v)
    BY <1>5, <2>2, MarkerType DEF Send
  <2>4. Append(out[Sock(r)], v) \in Seq(Msgs)
    BY <2>1
  <2>5. out' \in [Socks -> Seq(Msgs)]
    BY <2>1, <2>3, <2>4 DEF Buffer
  <2> QED
    BY <1>5, <2>3, <2>5, AtType DEF Send, Buffer, chanVars, pumpVars
<1>6. ASSUME NEW r \in Ranks, Recv(r)
      PROVE  FarTypeOK'
  <2>1. Sock(r) \in Socks
    BY <1>6, SockOfRank DEF Recv, At
  <2>2. Head(inb[Sock(r)]) \in Msgs /\ Tail(inb[Sock(r)]) \in Seq(Msgs)
    BY <1>6, <2>1 DEF Recv
  <2>3. Head(inb[Sock(r)]).acc \in Partials
    BY <2>2 DEF Msgs
  <2>4. acc[r] \o Head(inb[Sock(r)]).acc \in Partials
    BY <2>3, ConcatType DEF Partials
  <2>5. acc' \in [Ranks -> Partials]
    BY <1>6, <2>3, <2>4 DEF Recv, Combined
  <2>6. inb' \in [Socks -> Seq(Msgs)]
    BY <1>6, <2>1, <2>2 DEF Recv
  <2> QED
    BY <1>6, <2>5, <2>6, AtType DEF Recv, chanVars, pumpVars
<1>7. ASSUME NEW r \in Ranks, Quit(r)
      PROVE  FarTypeOK'
  BY <1>7, AtType DEF Quit, sockVars, pumpVars
<1>8. ASSUME NEW r \in Ranks, Ack(r)
      PROVE  FarTypeOK'
  BY <1>8, AtType DEF Ack, sockVars, pumpVars
<1>9. ASSUME NEW r \in Ranks, Close(r)
      PROVE  FarTypeOK'
  <2>1. <<>> \in Seq(Msgs)
    BY EmptySeq
  <2>2. out' \in [Socks -> Seq(Msgs)] /\ inb' \in [Socks -> Seq(Msgs)]
    BY <1>9, <2>1 DEF Close
  <2> QED
    BY <1>9, <2>2, AtType DEF Close, chanVars, pumpVars
<1>10. ASSUME NEW r \in Ranks, Join(r)
       PROVE  FarTypeOK'
  BY <1>10, AtType DEF Join, sockVars, pumpVars
<1>11. ASSUME NEW s \in HaloSocks, SendPump(s)
       PROVE  FarTypeOK'
  <2>1. CASE PumpTake(s)
    <3>1. Head(send[s]) \in Msgs /\ Tail(send[s]) \in Seq(Msgs)
      BY <2>1 DEF PumpTake
    <3> QED
      BY <2>1, <3>1 DEF PumpTake, rankVars, sockVars
  <2>2. CASE PumpQuit(s)
    BY <2>2 DEF PumpQuit, AfterQuit, rankVars, sockVars
  <2>3. CASE DrainNothing(s)
    BY <2>3 DEF DrainNothing, rankVars, sockVars, chanVars
  <2>4. CASE PumpSend(s)
    <3>1. Append(out[s], sheld[s]) \in Seq(Msgs)
      BY <1>a
    <3>2. CASE Panic(Owner(s))
      BY <3>2 DEF Panic, rankVars, sockVars, chanVars, pumpVars
    <3>3. CASE ~Panic(Owner(s))
      <4>1. Buffer(s, sheld[s]) /\ spc' = [spc EXCEPT ![s] = IF @ = "send" THEN "select" ELSE "ack"]
            /\ UNCHANGED <<rankVars, chanVars, sheld, rpc, rheld, panicked>>
        BY <2>4, <3>3 DEF PumpSend
      <4>2. out' \in [Socks -> Seq(Msgs)]
        BY <4>1, <3>1, <1>a DEF Buffer
      <4> QED
        BY <4>1, <4>2 DEF Buffer, rankVars, chanVars
    <3> QED
      BY <3>2, <3>3
  <2>5. CASE PumpAck(s)
    BY <2>5 DEF PumpAck, rankVars, sockVars
  <2> QED
    BY <1>11, <2>1, <2>2, <2>3, <2>4, <2>5 DEF SendPump
<1>12. ASSUME NEW s \in HaloSocks, RecvPump(s)
       PROVE  FarTypeOK'
  <2>1. CASE LookUp(s)
    BY <2>1 DEF LookUp, rankVars, sockVars, chanVars
  <2>2. CASE InvalidHandle(s)
    BY <2>2 DEF InvalidHandle, Panic, rankVars, sockVars, chanVars, pumpVars
  <2>3. CASE PumpRecv(s)
    <3>1. Head(inb[s]) \in Msgs /\ Tail(inb[s]) \in Seq(Msgs)
      BY <2>3, <1>a DEF PumpRecv
    <3> QED
      BY <2>3, <3>1, <1>a DEF PumpRecv, rankVars, chanVars
  <2>4. CASE PumpPut(s)
    <3>1. <<rheld[s]>> \in Seq(Msgs)
      OBVIOUS
    <3> QED
      BY <2>4, <3>1 DEF PumpPut, rankVars, sockVars
  <2>5. CASE PumpClosed(s)
    BY <2>5 DEF PumpClosed, rankVars, sockVars
  <2> QED
    BY <1>12, <2>1, <2>2, <2>3, <2>4, <2>5 DEF RecvPump
<1>13. ASSUME NEW s \in Socks, Transmit(s)
       PROVE  FarTypeOK'
  <2>1. Peer(s) \in Socks
    BY SockEnds
  <2>2. Tail(out[s]) \in Seq(Msgs) /\ Append(inb[Peer(s)], Head(out[s])) \in Seq(Msgs)
    BY <1>13, <2>1 DEF Transmit
  <2> QED
    BY <1>13, <2>1, <2>2 DEF Transmit, rankVars, chanVars, pumpVars
<1>14. CASE UNCHANGED vars
  BY <1>14 DEF vars, rankVars, sockVars, chanVars, pumpVars
<1> QED
  BY <1>1, <1>2, <1>3, <1>4, <1>5, <1>6, <1>7, <1>8, <1>9, <1>10, <1>11, <1>12, <1>13, <1>14
  DEF Next, Rank

-----------------------------------------------------------------------------
(* What has been sent and what has been taken.                             *)

LEMMA MadeStep ==
    ASSUME FarTypeOK, NEW r \in Ranks, Advance(r), NEW c \in Script[r]
    PROVE  Made(c, r)' <=> Made(c, r) \/ c = at[r]
BY Advanced DEF Made

(* The calls on one link are made in the order of their rounds.            *)
LEMMA InOrder ==
    ASSUME FarTypeOK, NEW s \in Socks
    PROVE  /\ \A n \in Numbers(s), m \in Sent(s) : n < m => n \in Sent(s)
           /\ \A n \in Numbers(s) : at[s[2]] = OutCall(s, n) =>
                n \notin Sent(s) /\ \A m \in Sent(s) : m < n
           /\ \A n, m \in Numbers(s) : at[s[2]] = InCall(s, n) => (m \in Got(s) <=> m < n)
<1>1. /\ at[s[2]].n \in Int /\ at[s[2]].stage \in Int /\ at[s[2]].turn \in Int
      /\ \A n \in Numbers(s) : n \in Int
  <2>1. Placed(at[s[2]], s[2])
    BY SockEnds, Places DEF FarTypeOK
  <2> QED
    BY <2>1, NumbersType DEF Placed
<1>2. /\ \A n \in Numbers(s) : OutCall(s, n).n = n /\ InCall(s, n).n = n
      /\ \A n \in Numbers(s) : ~Before(OutCall(s, n), OutCall(s, n))
      /\ \A n \in Numbers(s) : ~Before(InCall(s, n), InCall(s, n))
  <2>1. s[3] \in Int
    BY SockEnds
  <2> QED
    BY <1>1, <2>1 DEF OutCall, InCall, Before, Call
<1>3. \A n, m \in Numbers(s) : n < m => /\ Before(OutCall(s, n), OutCall(s, m))
                                         /\ Before(InCall(s, n), InCall(s, m))
  BY <1>2 DEF Before
<1>4. ASSUME NEW n \in Numbers(s), NEW m \in Sent(s), n < m
      PROVE  n \in Sent(s)
  <2>1. m \in Numbers(s) /\ Before(OutCall(s, m), at[s[2]])
    BY DEF Sent, Made
  <2>2. Before(OutCall(s, n), at[s[2]])
    BY <2>1, <1>1, <1>2, <1>4 DEF Before
  <2> QED
    BY <2>2 DEF Sent, Made
<1>5. ASSUME NEW n \in Numbers(s), at[s[2]] = OutCall(s, n)
      PROVE  n \notin Sent(s) /\ \A m \in Sent(s) : m < n
  <2>1. n \notin Sent(s)
    BY <1>2, <1>5 DEF Sent, Made
  <2>2. ASSUME NEW m \in Sent(s)
        PROVE  m < n
    <3>1. m \in Numbers(s) /\ Before(OutCall(s, m), OutCall(s, n)) /\ m # n
      BY <1>5, <2>1 DEF Sent, Made
    <3>2. OutCall(s, m).n <= OutCall(s, n).n
      BY <3>1, <1>1, <1>2 DEF Before
    <3> QED
      BY <3>1, <3>2, <1>1, <1>2
  <2> QED
    BY <2>1, <2>2
<1>6. ASSUME NEW n \in Numbers(s), NEW m \in Numbers(s), at[s[2]] = InCall(s, n)
      PROVE  m \in Got(s) <=> m < n
  <2>1. m \in Got(s) <=> Before(InCall(s, m), InCall(s, n))
    BY <1>6 DEF Got, Made
  <2>2. m < n => Before(InCall(s, m), InCall(s, n))
    BY <1>3
  <2>3. Before(InCall(s, m), InCall(s, n)) => m <= n /\ m # n
    BY <1>1, <1>2 DEF Before
  <2> QED
    BY <2>1, <2>2, <2>3, <1>1
<1> QED
  BY <1>4, <1>5, <1>6

(* What one call of rank r adds to them.                                   *)
LEMMA CountStep ==
    ASSUME FarTypeOK, NEW r \in Ranks, Advance(r), NEW s \in Socks
    PROVE  /\ Sent(s)' = IF at[r].op \in {"put", "send"} /\ at[r].s = s
                         THEN Sent(s) \cup {at[r].n} ELSE Sent(s)
           /\ Got(s)' = IF at[r].op \in {"get", "recv"} /\ at[r].s = s
                        THEN Got(s) \cup {at[r].n} ELSE Got(s)
<1>1. at[r] \in Script[r] /\ s[2] \in Ranks
  BY SockEnds DEF FarTypeOK
<1>2. CASE s[2] # r
  <2>1. at'[s[2]] = at[s[2]]
    BY <1>1, <1>2, AtType
  <2>2. ~(at[r].op \in {"put", "send"} /\ at[r].s = s) /\ ~(at[r].op \in {"get", "recv"} /\ at[r].s = s)
    BY <1>1, <1>2, CallOfSock
  <2> QED
    BY <2>1, <2>2 DEF Sent, Got, Made
<1>3. CASE s[2] = r
  <2>1. \A n \in Numbers(s) : Made(OutCall(s, n), r)' <=> Made(OutCall(s, n), r) \/ OutCall(s, n) = at[r]
    BY <1>3, InScript, MadeStep
  <2>2. \A n \in Numbers(s) : Made(InCall(s, n), r)' <=> Made(InCall(s, n), r) \/ InCall(s, n) = at[r]
    BY <1>3, InScript, MadeStep
  <2>3. ASSUME NEW n \in Numbers(s)
        PROVE  OutCall(s, n) = at[r] <=> at[r].op \in {"put", "send"} /\ at[r].s = s /\ at[r].n = n
    BY <1>1, CallOfSock DEF OutCall, Call
  <2>4. ASSUME NEW n \in Numbers(s)
        PROVE  InCall(s, n) = at[r] <=> at[r].op \in {"get", "recv"} /\ at[r].s = s /\ at[r].n = n
    BY <1>1, CallOfSock DEF InCall, Call
  <2>5. at[r].op \in {"put", "send", "get", "recv"} /\ at[r].s = s => at[r].n \in Numbers(s)
    BY <1>1, CallOfSock
  <2>6. Sent(s)' = {n \in Numbers(s) : Made(OutCall(s, n), r)'}
        /\ Sent(s) = {n \in Numbers(s) : Made(OutCall(s, n), r)}
    BY <1>3 DEF Sent
  <2>7. Got(s)' = {n \in Numbers(s) : Made(InCall(s, n), r)'}
        /\ Got(s) = {n \in Numbers(s) : Made(InCall(s, n), r)}
    BY <1>3 DEF Got
  <2>8. Sent(s)' = IF at[r].op \in {"put", "send"} /\ at[r].s = s
                   THEN Sent(s) \cup {at[r].n} ELSE Sent(s)
    BY <2>1, <2>3, <2>5, <2>6
  <2>9. Got(s)' = IF at[r].op \in {"get", "recv"} /\ at[r].s = s
                  THEN Got(s) \cup {at[r].n} ELSE Got(s)
    BY <2>2, <2>4, <2>5, <2>7
  <2> QED
    BY <2>8, <2>9
<1> QED
  BY <1>2, <1>3

(* The first on the wire to s is what its owner can take.                  *)
LEMMA FrontOfWire ==
    ASSUME FarTypeOK, NEW s \in Socks
    PROVE  /\ s \in HaloSocks /\ recv[s] # <<>> =>
                Wire(Peer(s)) # <<>> /\ Head(Wire(Peer(s))) = Head(recv[s])
           /\ s \notin HaloSocks /\ inb[s] # <<>> =>
                Wire(Peer(s)) # <<>> /\ Head(Wire(Peer(s))) = Head(inb[s])
<1> DEFINE b == out[Peer(s)] \o SendSide(Peer(s))
<1>1. /\ Peer(s) \in Socks /\ Peer(Peer(s)) = s
  BY SockEnds
<1>2. /\ RecvSide(s) \in Seq(Msgs) /\ inb[s] \in Seq(Msgs)
      /\ out[Peer(s)] \in Seq(Msgs) /\ SendSide(Peer(s)) \in Seq(Msgs)
  BY <1>1, WireType
<1>3. b \in Seq(Msgs)
  BY <1>2, ConcatType
<1>4. Wire(Peer(s)) = (RecvSide(s) \o inb[s]) \o b
  BY <1>1 DEF Wire
<1> HIDE DEF b
<1>5. RecvSide(s) \o inb[s] \in Seq(Msgs)
  BY <1>2, ConcatType
<1>6. CASE s \in HaloSocks /\ recv[s] # <<>>
  <2>1. recv[s] \in Seq(Msgs) /\ rheld[s] \in Msgs
    BY <1>6 DEF FarTypeOK
  <2>a. Hand(rpc[s] = "put", rheld[s]) \in Seq(Msgs)
    BY <2>1 DEF Hand
  <2>2. PICK h \in Seq(Msgs) : h = Hand(rpc[s] = "put", rheld[s])
    BY <2>a
  <2>3. RecvSide(s) = recv[s] \o h
    BY <1>6, <2>2 DEF RecvSide
  <2>4. RecvSide(s) # <<>> /\ Head(RecvSide(s)) = Head(recv[s])
    BY <1>6, <2>1, <2>3, FrontOfConcat
  <2>5. RecvSide(s) \o inb[s] # <<>> /\ Head(RecvSide(s) \o inb[s]) = Head(RecvSide(s))
    BY <1>2, <2>4, FrontOfConcat
  <2> QED
    BY <1>3, <1>4, <1>5, <1>6, <2>4, <2>5, FrontOfConcat
<1>7. CASE s \notin HaloSocks /\ inb[s] # <<>>
  <2>1. RecvSide(s) \o inb[s] = inb[s]
    BY <1>2, <1>7, ConcatEmpty DEF RecvSide
  <2> QED
    BY <1>2, <1>3, <1>4, <1>7, <2>1, FrontOfConcat
<1> QED
  BY <1>6, <1>7

(* What is pending on a link, as set of rounds.                            *)
LEMMA PendingType ==
    ASSUME NEW s \in Socks
    PROVE  /\ Sent(s) \subseteq Numbers(s) /\ Got(s) \subseteq Numbers(s)
           /\ Pending(s) \in SUBSET (0..Steps) /\ Pending(s) \subseteq Numbers(s)
BY NumbersType DEF Sent, Got, Pending

(* A rank that takes the first value on a link takes that of its own       *)
(* round, which has been sent.                                             *)
LEMMA TakesItsRound ==
    ASSUME FarTypeOK, NEW s \in Socks, LinkOK(Peer(s)), NEW n \in Numbers(s),
           at[s[2]] = InCall(s, n), Wire(Peer(s)) # <<>>
    PROVE  n \in Pending(Peer(s)) /\ Head(Wire(Peer(s))) = Value(Peer(s), n)
<1> DEFINE p == Peer(s)
<1>1. p \in Socks /\ Peer(p) = s /\ Numbers(p) = Numbers(s) /\ n \in 0..Steps
      /\ Numbers(s) \subseteq 0..Steps
  BY SockEnds, NumbersType
<1>2. Wire(p) \in Seq(Msgs) /\ Carries(Values(p)) /\ Pending(p) \in SUBSET (0..Steps)
      /\ Pending(p) \subseteq Numbers(s)
  BY <1>1, WireType, ValueType, PendingType
<1>3. Linked(Wire(p), Pending(p), Values(p), Gap(p)) /\ Pending(p) = Sent(p) \ Got(s)
  BY <1>1 DEF LinkOK, Pending
<1>4. \A m \in Numbers(s) : m \in Got(s) <=> m < n
  BY InOrder
<1>5. \A m \in Pending(p) : n <= m
  BY <1>1, <1>2, <1>3, <1>4
<1>6. Wire(p)[1].n \in Pending(p)
  BY <1>2, <1>3 DEF Linked
<1>7. \A i \in Numbers(s), m \in Sent(p) : i < m => i \in Sent(p)
  BY <1>1, InOrder
<1>8. n \in Pending(p)
  <2>1. PICK m \in Pending(p) : TRUE
    BY <1>6
  <2>2. m \in Sent(p) /\ n <= m /\ m \in 0..Steps
    BY <1>2, <1>3, <1>5
  <2>3. n \in Sent(p)
    BY <2>2, <1>1, <1>7
  <2>4. n \notin Got(s)
    BY <1>1, <1>4
  <2> QED
    BY <2>3, <2>4, <1>3
<1>9. Gap(p) \in SUBSET {Steps}
  BY DEF Gap
<1>10. Head(Wire(p)) = Values(p)[n]
  BY <1>2, <1>3, <1>5, <1>8, <1>9, LinkFirst
<1>11. Values(p)[n] = Value(p, n)
  BY <1>1 DEF Values
<1> QED
  BY <1>8, <1>10, <1>11

-----------------------------------------------------------------------------
(* The pumps.                                                              *)

LEMMA PastSetup ==
    ASSUME FarTypeOK, NEW r \in Ranks, Advance(r)
    PROVE  at'[r].op # "setup"
<1>1. at'[r] \in Script[r] /\ at[r] \in Script[r] /\ Before(at[r], at'[r])
  BY Advanced DEF FarTypeOK
<1>2. Placed(at[r], r) /\ Placed(at'[r], r)
  BY <1>1, Places
<1>3. at'[r].op = "setup" => at'[r].n = 0 /\ at'[r].stage = 0 /\ at'[r].turn = 0
  BY <1>1, CallOfSock
<1>4. at[r].n \in Nat /\ at[r].stage \in Nat /\ (at[r].stage = 0 => at[r].turn = 0)
  BY <1>2, FarAssumption DEF Placed, Alone, Call
<1> QED
  BY <1>1, <1>3, <1>4 DEF Before

(* A put comes before the pump is told to stop.                            *)
LEMMA PutBeforeQuit ==
    ASSUME FarTypeOK, NEW s \in HaloSocks, at[s[2]].op = "put"
    PROVE  ~Made(QuitCall(s), s[2])
<1>1. s[2] \in Ranks /\ at[s[2]] \in Script[s[2]]
  BY HaloIsSock, SockEnds DEF FarTypeOK
<1>2. Placed(at[s[2]], s[2]) /\ at[s[2]] = OutCall(at[s[2]].s, at[s[2]].n) /\ at[s[2]].s \in HaloSocks
  BY <1>1, Places, CallOfSock
<1>3. at[s[2]].stage = 1 /\ at[s[2]].n \in 0..Steps
  BY <1>2 DEF OutCall, Call, Placed
<1> QED
  BY <1>3, FarAssumption DEF Made, Before, QuitCall, Call

LEMMA PumpKept ==
    ASSUME FarTypeOK, NEW s \in HaloSocks, PumpOK(s), NEW r \in Ranks, Advance(r),
           at[r].op # "setup", at[r] # AckCall(s),
           spc'[s] = spc[s], rpc'[s] = rpc[s], send'[s] = send[s],
           sendDone'[s] = sendDone[s],
           quit'[s] => quit[s] \/ at[r] = QuitCall(s)
    PROVE  PumpOK(s)'
<1>1. s \in Socks /\ s[2] \in Ranks
  BY HaloIsSock, SockEnds
<1>2. QuitCall(s) \in Script[s[2]] /\ AckCall(s) \in Script[s[2]]
  BY <1>1, InScript
<1>3. CASE s[2] = r
  <2>1. Made(QuitCall(s), s[2])' <=> Made(QuitCall(s), s[2]) \/ QuitCall(s) = at[r]
    BY <1>2, <1>3, MadeStep
  <2>2. Made(AckCall(s), s[2])' <=> Made(AckCall(s), s[2])
    BY <1>2, <1>3, MadeStep
  <2>3. at'[s[2]].op # "setup"
    BY <1>3, PastSetup
  <2> QED
    BY <2>1, <2>2, <2>3 DEF PumpOK
<1>4. CASE s[2] # r
  <2>1. at'[s[2]] = at[s[2]]
    BY <1>1, <1>4, AtType
  <2>2. at[r] # QuitCall(s)
    <3>1. at[r] \in Script[r]
      BY DEF FarTypeOK
    <3>2. at[r].op = "quit" => at[r].s[2] = r
      BY <3>1, CallOfSock
    <3> QED
      BY <3>2, <1>4 DEF QuitCall, Call
  <2> QED
    BY <2>1, <2>2 DEF PumpOK, Made
<1> QED
  BY <1>3, <1>4

LEMMA PumpStep ==
    ASSUME FarTypeOK, \A s \in HaloSocks : PumpOK(s), [Next]_vars, NEW q \in HaloSocks
    PROVE  PumpOK(q)'
<1>a. q \in Socks /\ q[2] \in Ranks
  BY HaloIsSock, SockEnds
<1>b. PumpOK(q)
  OBVIOUS
<1>c. spc \in [HaloSocks -> {"unborn", "select", "send", "drain", "last", "ack", "gone"}]
      /\ rpc \in [HaloSocks -> {"unborn", "handle", "recv", "put", "gone"}]
      /\ send \in [HaloSocks -> Seq(Msgs)] /\ recv \in [HaloSocks -> Seq(Msgs)]
      /\ quit \in [HaloSocks -> BOOLEAN] /\ sendDone \in [HaloSocks -> BOOLEAN]
  BY DEF FarTypeOK
<1>d. ASSUME NEW r \in Ranks, at[r].op # "ack"
      PROVE  at[r] # AckCall(q)
  BY <1>d DEF AckCall, Call
<1>1. ASSUME NEW r \in Ranks, Setup(r)
      PROVE  PumpOK(q)'
  <2>1. at[r].op = "setup" /\ Advance(r)
    BY <1>1 DEF Setup, At
  <2>2. CASE q[2] # r
    <3>1. at'[q[2]] = at[q[2]]
      BY <1>a, <2>1, <2>2, AtType
    <3>2. /\ spc'[q] = spc[q] /\ rpc'[q] = rpc[q] /\ send' = send /\ quit' = quit
          /\ sendDone' = sendDone
      BY <1>1, <2>2 DEF Setup, Owner, chanVars
    <3> QED
      BY <1>b, <3>1, <3>2 DEF PumpOK, Made
  <2>3. CASE q[2] = r
    <3>1. spc'[q] = "select" /\ send' = send /\ quit' = quit /\ sendDone' = sendDone
      BY <1>1, <2>3 DEF Setup, Owner, chanVars
    <3>2. at'[q[2]].op # "setup"
      BY <2>1, <2>3, PastSetup
    <3>3. QuitCall(q) \in Script[q[2]] /\ AckCall(q) \in Script[q[2]]
      BY <1>a, InScript
    <3>4. QuitCall(q) # at[r] /\ AckCall(q) # at[r]
      BY <2>1 DEF QuitCall, AckCall, Call
    <3>5. (Made(QuitCall(q), q[2])' <=> Made(QuitCall(q), q[2]))
          /\ (Made(AckCall(q), q[2])' <=> Made(AckCall(q), q[2]))
      BY <2>1, <2>3, <3>3, <3>4, MadeStep
    <3>6. spc[q] = "unborn"
      BY <1>b, <2>1, <2>3 DEF PumpOK
    <3> QED
      BY <1>b, <3>1, <3>2, <3>5, <3>6 DEF PumpOK
  <2> QED
    BY <2>2, <2>3
<1>2. ASSUME NEW r \in Ranks, Put(r)
      PROVE  PumpOK(q)'
  <2>1. at[r].op = "put" /\ Advance(r) /\ Sock(r) \in HaloSocks /\ Sock(r)[2] = r
    BY <1>2, SockOfRank DEF Put, At
  <2>2. /\ spc' = spc /\ rpc' = rpc /\ quit' = quit /\ sendDone' = sendDone
    BY <1>2 DEF Put, pumpVars
  <2>3. CASE q # Sock(r)
    <3>1. send'[q] = send[q]
      BY <1>2, <1>c, <2>1, <2>3 DEF Put
    <3> QED
      BY <1>b, <1>d, <2>1, <2>2, <3>1, PumpKept
  <2>4. CASE q = Sock(r)
    <3>1. Len(send'[q]) = 1
      BY <1>2, <1>c, <2>4 DEF Put
    <3>2. ~Made(QuitCall(q), q[2])
      BY <2>1, <2>4, PutBeforeQuit
    <3>3. spc[q] \notin {"drain", "last", "ack", "gone"} /\ ~quit[q] /\ ~sendDone[q]
          /\ ~Made(AckCall(q), q[2])
      BY <1>b, <3>2 DEF PumpOK
    <3>4. QuitCall(q) \in Script[q[2]] /\ AckCall(q) \in Script[q[2]]
      BY <1>a, InScript
    <3>5. AckCall(q) # at[r]
      BY <2>1 DEF AckCall, Call
    <3>6. ~Made(AckCall(q), q[2])'
      BY <2>1, <2>4, <3>3, <3>4, <3>5, MadeStep
    <3>7. at'[q[2]].op # "setup"
      BY <2>1, <2>4, PastSetup
    <3> QED
      BY <2>2, <3>1, <3>3, <3>6, <3>7 DEF PumpOK
  <2> QED
    BY <2>3, <2>4
<1>3. ASSUME NEW r \in Ranks, Get(r) \/ Own(r) \/ Send(r) \/ Recv(r) \/ Close(r) \/ Join(r)
      PROVE  PumpOK(q)'
  <2>1. /\ Advance(r) /\ at[r].op \in {"get", "own", "send", "recv", "close", "join"}
        /\ spc' = spc /\ rpc' = rpc /\ send' = send /\ quit' = quit /\ sendDone' = sendDone
    BY <1>3 DEF Get, Own, Send, Recv, Close, Join, At, pumpVars, chanVars
  <2>2. at[r] # AckCall(q)
    BY <2>1, <1>d
  <2> QED
    BY <1>b, <2>1, <2>2, PumpKept
<1>4. ASSUME NEW r \in Ranks, Quit(r)
      PROVE  PumpOK(q)'
  <2>1. /\ Advance(r) /\ at[r].op = "quit" /\ at[r] = QuitCall(Sock(r))
        /\ spc' = spc /\ rpc' = rpc /\ send' = send /\ sendDone' = sendDone
        /\ quit' = [quit EXCEPT ![Sock(r)] = TRUE]
    BY <1>4, SockOfRank, CallOfSock DEF Quit, At, Sock, pumpVars
  <2>2. quit'[q] => quit[q] \/ at[r] = QuitCall(q)
    BY <2>1, <1>c
  <2> QED
    BY <1>b, <1>d, <2>1, <2>2, PumpKept
<1>5. ASSUME NEW r \in Ranks, Ack(r)
      PROVE  PumpOK(q)'
  <2>1. /\ Advance(r) /\ at[r].op = "ack" /\ Sock(r) \in HaloSocks /\ at[r] = AckCall(Sock(r))
        /\ spc' = spc /\ rpc' = rpc /\ send' = send /\ quit' = quit
        /\ sendDone' = [sendDone EXCEPT ![Sock(r)] = FALSE] /\ sendDone[Sock(r)] /\ Sock(r)[2] = r
    BY <1>5, SockOfRank, CallOfSock DEF Ack, At, Sock, pumpVars
  <2>2. CASE q # Sock(r)
    <3>1. sendDone'[q] = sendDone[q] /\ at[r] # AckCall(q)
      BY <1>c, <2>1, <2>2 DEF AckCall, Call
    <3> QED
      BY <1>b, <2>1, <3>1, PumpKept
  <2>3. CASE q = Sock(r)
    <3>1. spc[q] = "gone"
      BY <1>b, <2>1, <2>3 DEF PumpOK
    <3>2. QuitCall(q) \in Script[q[2]]
      BY <1>a, InScript
    <3>3. Made(QuitCall(q), q[2])'
      BY <1>b, <2>1, <2>3, <3>1, <3>2, MadeStep DEF PumpOK
    <3>4. at'[q[2]].op # "setup"
      BY <2>1, <2>3, PastSetup
    <3> QED
      BY <1>b, <2>1, <3>1, <3>3, <3>4 DEF PumpOK
  <2> QED
    BY <2>2, <2>3
<1>6. ASSUME NEW s \in HaloSocks, SendPump(s)
      PROVE  PumpOK(q)'
  <2>1. at' = at /\ rpc' = rpc
    BY <1>6 DEF SendPump, PumpTake, PumpQuit, DrainNothing, PumpSend, Panic, PumpAck, rankVars, pumpVars
  <2>2. CASE q # s
    <3>1. spc'[q] = spc[q] /\ send'[q] = send[q] /\ quit'[q] = quit[q] /\ sendDone'[q] = sendDone[q]
      BY <1>6, <1>c, <2>2
      DEF SendPump, PumpTake, PumpQuit, DrainNothing, PumpSend, Panic, PumpAck, chanVars, pumpVars
    <3> QED
      BY <1>b, <2>1, <3>1 DEF PumpOK, Made
  <2>3. CASE q = s
    <3>1. CASE PumpTake(q)
      <4>1. /\ spc[q] \in {"select", "drain"} /\ send'[q] = Tail(send[q]) /\ send[q] # <<>>
            /\ quit' = quit /\ sendDone' = sendDone
            /\ spc'[q] = IF spc[q] = "select" THEN "send" ELSE "last"
        BY <3>1, <1>c DEF PumpTake
      <4>2. send[q] \in Seq(Msgs) /\ Len(send[q]) <= 1
        BY <1>b, <1>c DEF PumpOK
      <4>3. Tail(send[q]) = <<>> /\ Len(Tail(send[q])) = 0
        BY <4>1, <4>2, TailOfOne
      <4> QED
        BY <1>b, <2>1, <4>1, <4>3 DEF PumpOK, Made
    <3>2. CASE PumpQuit(q)
      <4>1. /\ spc[q] = "select" /\ quit[q] /\ ~quit'[q] /\ spc'[q] = "drain"
            /\ send' = send /\ sendDone' = sendDone
        BY <3>2, <1>c DEF PumpQuit, AfterQuit
      <4> QED
        BY <1>b, <2>1, <4>1 DEF PumpOK, Made
    <3>3. CASE DrainNothing(q)
      <4>1. /\ spc[q] = "drain" /\ spc'[q] = "ack" /\ send' = send /\ quit' = quit
            /\ sendDone' = sendDone
            /\ send[q] = <<>> \/ at[q[2]].op = "put"
        BY <3>3, <1>c DEF DrainNothing, At, Owner, chanVars
      <4>2. Made(QuitCall(q), q[2])
        BY <1>b, <4>1 DEF PumpOK
      <4>3. send[q] = <<>>
        BY <4>1, <4>2, PutBeforeQuit
      <4> QED
        BY <1>b, <2>1, <4>1, <4>3 DEF PumpOK, Made
    <3>4. CASE PumpSend(q)
      <4>1. /\ spc[q] \in {"send", "last"} /\ send' = send /\ quit' = quit /\ sendDone' = sendDone
            /\ \/ spc' = spc
               \/ spc'[q] = IF spc[q] = "send" THEN "select" ELSE "ack"
        BY <3>4, <1>c DEF PumpSend, Panic, chanVars, pumpVars
      <4> QED
        BY <1>b, <2>1, <4>1 DEF PumpOK, Made
    <3>5. CASE PumpAck(q)
      <4>1. spc[q] = "ack" /\ spc'[q] = "gone" /\ send' = send /\ quit' = quit
        BY <3>5, <1>c DEF PumpAck
      <4> QED
        BY <1>b, <2>1, <4>1 DEF PumpOK, Made
    <3> QED
      BY <1>6, <2>3, <3>1, <3>2, <3>3, <3>4, <3>5 DEF SendPump
  <2> QED
    BY <2>2, <2>3
<1>7. ASSUME NEW s \in HaloSocks, RecvPump(s)
      PROVE  PumpOK(q)'
  <2>1. /\ at' = at /\ spc' = spc /\ send' = send /\ quit' = quit /\ sendDone' = sendDone
        /\ rpc'[q] = "unborn" <=> rpc[q] = "unborn"
    BY <1>7, <1>c
    DEF RecvPump, LookUp, InvalidHandle, Panic, PumpRecv, PumpPut, PumpClosed, rankVars, chanVars, pumpVars
  <2> QED
    BY <1>b, <2>1 DEF PumpOK, Made
<1>8. CASE UNCHANGED <<rankVars, chanVars, pumpVars>>
  BY <1>b, <1>8 DEF PumpOK, Made, rankVars, chanVars, pumpVars
<1>9. ASSUME NEW s \in Socks, Transmit(s)
      PROVE  UNCHANGED <<rankVars, chanVars, pumpVars>>
  BY <1>9 DEF Transmit
<1> QED
  BY <1>1, <1>2, <1>3, <1>4, <1>5, <1>6, <1>7, <1>8, <1>9 DEF Next, Rank, vars

-----------------------------------------------------------------------------
(* Closed sockets.                                                         *)

(* A step moves one rank on to its next call or none.                      *)
LEMMA AtMoves ==
    ASSUME [Next]_vars
    PROVE  at' = at \/ \E r \in Ranks : Advance(r)
<1>1. ASSUME NEW r \in Ranks, Rank(r)
      PROVE  Advance(r)
  BY <1>1 DEF Rank, Setup, Put, Get, Own, Send, Recv, Quit, Ack, Close, Join
<1>2. ASSUME NEW s \in HaloSocks, SendPump(s)
      PROVE  at' = at
  BY <1>2 DEF SendPump, PumpTake, PumpQuit, DrainNothing, PumpSend, Panic, PumpAck, rankVars
<1>3. ASSUME NEW s \in HaloSocks, RecvPump(s)
      PROVE  at' = at
  BY <1>3 DEF RecvPump, LookUp, InvalidHandle, Panic, PumpRecv, PumpPut, PumpClosed, rankVars
<1>4. ASSUME NEW s \in Socks, Transmit(s)
      PROVE  at' = at
  BY <1>4 DEF Transmit, rankVars
<1> QED
  BY <1>1, <1>2, <1>3, <1>4 DEF Next, vars, rankVars

LEMMA MadeStays ==
    ASSUME FarTypeOK, [Next]_vars, NEW q \in Ranks, NEW c \in Script[q], Made(c, q)
    PROVE  Made(c, q)'
<1>1. CASE at' = at
  BY <1>1 DEF Made
<1>2. ASSUME NEW r \in Ranks, Advance(r)
      PROVE  Made(c, q)'
  <2>1. CASE q = r
    BY <1>2, <2>1, MadeStep
  <2>2. CASE q # r
    <3>1. at'[q] = at[q]
      BY <1>2, <2>2, AtType
    <3> QED
      BY <3>1 DEF Made
  <2> QED
    BY <2>1, <2>2
<1> QED
  BY <1>1, <1>2, AtMoves

LEMMA ClosedStep ==
    ASSUME FarTypeOK, [Next]_vars, NEW q \in Socks, ClosedOK(q)
    PROVE  ClosedOK(q)'
<1>a. q[2] \in Ranks /\ CloseCall(q) \in Script[q[2]] /\ used \in [Socks -> {"no", "yes", "freed"}]
  BY SockEnds, InScript DEF FarTypeOK
<1>b. Made(CloseCall(q), q[2]) => Made(CloseCall(q), q[2])'
  BY <1>a, MadeStays
<1>1. CASE used'[q] = "freed" => used[q] = "freed"
  BY <1>1, <1>b DEF ClosedOK
<1>2. ASSUME NEW r \in Ranks, Close(r)
      PROVE  ClosedOK(q)'
  <2>1. /\ at[r].op = "close" /\ at[r] \in Script[r] /\ Advance(r)
        /\ used' = [used EXCEPT ![Sock(r)] = "freed"]
    BY <1>2, SockOfRank DEF Close, At
  <2>2. at[r] = CloseCall(Sock(r)) /\ Sock(r)[2] = r
    BY <2>1, CallOfSock DEF Sock
  <2>3. CASE q = Sock(r)
    BY <1>a, <2>1, <2>2, <2>3, MadeStep DEF ClosedOK
  <2>4. CASE q # Sock(r)
    BY <1>1, <1>a, <2>1, <2>4
  <2> QED
    BY <2>3, <2>4
<1>3. ASSUME NEW r \in Ranks, Rank(r), ~Close(r)
      PROVE  used'[q] = "freed" => used[q] = "freed"
  <2>1. CASE Setup(r)
    BY <2>1 DEF Setup
  <2>2. CASE ~Setup(r)
    BY <1>3, <2>2 DEF Rank, Put, Get, Own, Send, Buffer, Recv, Quit, Ack, Join, sockVars
  <2> QED
    BY <2>1, <2>2
<1>4. ASSUME NEW s \in HaloSocks, SendPump(s)
      PROVE  used' = used
  BY <1>4 DEF SendPump, PumpTake, PumpQuit, DrainNothing, PumpSend, Buffer, Panic, PumpAck, sockVars
<1>5. ASSUME NEW s \in HaloSocks, RecvPump(s)
      PROVE  used' = used
  BY <1>5 DEF RecvPump, LookUp, InvalidHandle, Panic, PumpRecv, PumpPut, PumpClosed, sockVars
<1>6. ASSUME NEW s \in Socks, Transmit(s)
      PROVE  used' = used
  BY <1>6 DEF Transmit
<1>7. CASE UNCHANGED vars
  BY <1>1, <1>7 DEF vars, sockVars
<1> QED
  BY <1>1, <1>2, <1>3, <1>4, <1>5, <1>6, <1>7 DEF Next

(* A rank that closes a socket has taken all that was to come on it, its   *)
(* peer all but the marker, and its send-pump has ended.                   *)
LEMMA CloseSafe ==
    ASSUME FarTypeOK, NEW s \in Socks, LinkOK(Peer(s)), s \in HaloSocks => PumpOK(s),
           at[s[2]] = CloseCall(s)
    PROVE  /\ Pending(Peer(s)) = {} /\ Pending(s) \subseteq {Steps}
           /\ s \in HaloSocks => spc[s] = "gone"
           /\ SendSide(s) = <<>>
<1> DEFINE p == Peer(s)
<1>1. /\ p \in Socks /\ Peer(p) = s /\ Numbers(p) = Numbers(s) /\ Numbers(s) \subseteq 0..Steps
      /\ Steps \in Numbers(s) /\ Steps \in Nat /\ p[2] \in Ranks
  BY SockEnds, NumbersType
<1>2. Got(s) = Numbers(s)
  <2>1. ASSUME NEW n \in Numbers(s)
        PROVE  Before(InCall(s, n), CloseCall(s))
    BY <1>1 DEF Before, InCall, CloseCall, Call
  <2> QED
    BY <2>1 DEF Got, Made
<1>3. Pending(p) = {}
  BY <1>1, <1>2, PendingType DEF Pending
<1>4. Steps \in Sent(p)
  BY <1>1, <1>2 DEF LinkOK
<1>5. Pending(s) \subseteq {Steps}
  <2>1. Placed(at[p[2]], p[2])
    BY <1>1, Places DEF FarTypeOK
  <2>2. at[p[2]].n = Steps
    <3>1. Before(OutCall(p, Steps), at[p[2]]) /\ OutCall(p, Steps).n = Steps
      BY <1>4 DEF Sent, Made, OutCall, Call
    <3> QED
      BY <1>1, <2>1, <3>1 DEF Before, Placed
  <2>3. ASSUME NEW n \in Numbers(s), n # Steps
        PROVE  n \in Got(p)
    <3>1. InCall(p, n).n = n /\ n \in 0..Steps
      BY <1>1 DEF InCall, Call
    <3>2. Before(InCall(p, n), at[p[2]])
      BY <1>1, <2>2, <2>3, <3>1 DEF Before
    <3> QED
      BY <1>1, <3>2 DEF Got, Made
  <2> QED
    BY <2>3, PendingType DEF Pending
<1>6. ASSUME s \in HaloSocks
      PROVE  spc[s] = "gone" /\ SendSide(s) = <<>>
  <2>1. Before(AckCall(s), CloseCall(s))
    BY <1>1, <1>6 DEF Before, AckCall, CloseCall, Call
  <2>2. spc[s] = "gone" /\ send[s] = <<>>
    BY <1>6, <2>1 DEF PumpOK, Made
  <2>3. Hand(spc[s] \in {"send", "last"}, sheld[s]) = <<>>
    BY <2>2 DEF Hand
  <2>4. <<>> \o <<>> = <<>>
    BY ConcatEmpty, EmptySeq
  <2> QED
    BY <1>6, <2>2, <2>3, <2>4 DEF SendSide
<1>7. s \notin HaloSocks => SendSide(s) = <<>>
  BY DEF SendSide
<1> QED
  BY <1>3, <1>5, <1>6, <1>7

-----------------------------------------------------------------------------
(* The partials a rank has combined.                                       *)

LEMMA GatherOne ==
    ASSUME NEW n \in 0..Steps, NEW k \in 0..(World - 1)
    PROVE  Gathered(n, k) \o <<<<k, n>>>> = Gathered(n, k + 1)
<1> DEFINE M == Ranks \X (0..Steps)
           a == Gathered(n, k)
           b == <<<<k, n>>>>
           c == Gathered(n, k + 1)
<1>1. k \in 0..World /\ k + 1 \in 0..World /\ k \in Ranks /\ k \in Nat
  BY FarAssumption DEF Ranks
<1>2. a \in Seq(M) /\ b \in Seq(M) /\ c \in Seq(M) /\ Len(a) = k /\ Len(b) = 1 /\ Len(c) = k + 1
  BY <1>1, GatheredType, OnePartial DEF Partials
<1>3. a \o b \in Seq(M) /\ Len(a \o b) = k + 1
      /\ \A i \in 1..k + 1 : (a \o b)[i] = IF i <= k THEN a[i] ELSE b[i - k]
  BY <1>2, ConcatType
<1>4. ASSUME NEW i \in 1..k + 1
      PROVE  (a \o b)[i] = c[i]
  <2>1. c[i] = <<i - 1, n>>
    BY DEF Gathered
  <2>2. CASE i <= k
    <3>1. a[i] = <<i - 1, n>>
      BY <1>1, <2>2 DEF Gathered
    <3> QED
      BY <1>3, <2>1, <2>2, <3>1
  <2>3. CASE i = k + 1
    <3>1. i - k = 1 /\ i - 1 = k /\ ~(i <= k) /\ b[1] = <<k, n>>
      BY <1>1, <2>3
    <3> QED
      BY <1>3, <2>1, <3>1
  <2>4. i <= k \/ i = k + 1
    BY <1>1
  <2> QED
    BY <2>2, <2>3, <2>4
<1> HIDE DEF M, a, b, c
<1>5. a \o b = c
  BY <1>2, <1>3, <1>4, Elementwise
<1> QED
  BY <1>5 DEF a, b, c

(* The call before one of a collective.                                    *)
LEMMA CollectivePrevious ==
    ASSUME FarTypeOK, NEW r \in Ranks, Advance(r), at'[r].n # Steps
    PROVE  /\ at'[r].stage = 4 /\ (r # 0 \/ at'[r].turn = 1) => at[r] = Alone("own", r, at'[r].n, 3)
           /\ at'[r].stage = 4 /\ r = 0 /\ at'[r].turn # 1 =>
                at[r] = InCall(Coll(0, at'[r].turn - 1), at'[r].n) /\ at'[r].turn \in 2..(World - 1)
           /\ at'[r].stage = 5 /\ r = 0 =>
                \/ at[r] = InCall(Coll(0, World - 1), at'[r].n) /\ World - 1 \in 1..(World - 1)
                \/ at[r].stage = 5 /\ at[r].n = at'[r].n
<1> DEFINE d == at'[r]
           n == d.n
<1>1. d \in Script[r] /\ at[r] \in Script[r] /\ Before(at[r], d)
      /\ \A c \in Script[r] : Before(c, d) => Before(c, at[r]) \/ c = at[r]
  BY Advanced DEF FarTypeOK
<1>2. Placed(d, r) /\ Placed(at[r], r)
  BY <1>1, Places
<1>3. /\ n \in 0..Steps /\ d.stage \in 0..9 /\ d.turn \in Int
      /\ at[r].n \in 0..Steps /\ at[r].stage \in 0..9 /\ at[r].turn \in Int
      /\ Steps \in Nat /\ World \in Nat /\ World # 0
  BY <1>2, FarAssumption DEF Placed
<1>4. /\ d.stage \in {4, 5} => n \in Reducing /\ d.s \in Colls(r) /\ d.turn = d.s[3]
      /\ at[r].stage \in {4, 5} /\ at[r].n # Steps => at[r].s \in Colls(r) /\ at[r].turn = at[r].s[3]
      /\ at[r].stage = 3 /\ at[r].n # Steps => at[r].turn = 0
  BY <1>2 DEF Placed, Alone, Call
<1>5. \A s \in Colls(r) : /\ s[3] \in 0..(World - 1) /\ s \in Socks
                          /\ r = 0 => s[3] # 0
                          /\ r # 0 => s[3] = 0
  BY FarAssumption DEF Colls, CollSocks, Owner, Ranks, Socks
<1>6. ASSUME n \in Reducing
      PROVE  Alone("own", r, n, 3) \in Script[r]
  <2>1. n \in 0..(Steps - 1)
    BY <1>6, FarAssumption
  <2>2. Alone("own", r, n, 3) \in Round(r, n)
    BY <1>6 DEF Round, Collective
  <2> QED
    BY <2>1, <2>2 DEF Script
<1>7. ASSUME n \in Reducing, r = 0, NEW q \in 1..(World - 1)
      PROVE  /\ InCall(Coll(0, q), n) \in Script[r] /\ InCall(Coll(0, q), n).n = n
             /\ InCall(Coll(0, q), n).stage = 4 /\ InCall(Coll(0, q), n).turn = q
  <2>1. Coll(0, q) \in CollSocks /\ Coll(0, q)[2] = 0 /\ Coll(0, q)[3] = q
    BY <1>3 DEF CollSocks, Coll, Ranks
  <2>2. Coll(0, q) \in Socks /\ Coll(0, q) \notin HaloSocks
    BY <2>1, SockEnds DEF Socks
  <2>3. n \in Numbers(Coll(0, q))
    BY <1>7, <2>2 DEF Numbers
  <2>4. InCall(Coll(0, q), n) \in Script[r]
    BY <1>7, <2>1, <2>2, <2>3, InScript
  <2> QED
    BY <2>1, <2>2, <2>4 DEF InCall, Call
<1>8. ASSUME d.stage = 4, r # 0 \/ d.turn = 1
      PROVE  at[r] = Alone("own", r, n, 3)
  <2>1. Before(Alone("own", r, n, 3), d)
    BY <1>3, <1>8 DEF Before, Alone, Call
  <2>2. SUFFICES ASSUME Before(Alone("own", r, n, 3), at[r]) PROVE FALSE
    BY <2>1, <1>1, <1>4, <1>6, <1>8
  <2>3. /\ at[r].n = n
        /\ (at[r].stage = 3 /\ at[r].turn > 0) \/ (at[r].stage = 4 /\ at[r].turn < d.turn)
    BY <2>2, <1>1, <1>3, <1>8 DEF Before, Alone, Call
  <2>4. at[r].stage = 4 => at[r].turn \in 0..(World - 1) /\ (r = 0 => at[r].turn # 0)
    BY <2>3, <1>4, <1>5
  <2>5. r # 0 => d.turn = 0
    BY <1>4, <1>5, <1>8
  <2> QED
    BY <2>3, <2>4, <2>5, <1>3, <1>4, <1>8
<1>9. ASSUME d.stage = 4, r = 0, d.turn # 1
      PROVE  at[r] = InCall(Coll(0, d.turn - 1), n) /\ d.turn \in 2..(World - 1)
  <2>1. d.turn \in 2..(World - 1) /\ n \in Reducing
    BY <1>3, <1>4, <1>5, <1>9
  <2>2. PICK q \in 1..(World - 1) : q = d.turn - 1
    BY <2>1, <1>3
  <2>3. Before(InCall(Coll(0, q), n), d)
    BY <2>1, <2>2, <1>3, <1>7, <1>9 DEF Before
  <2>4. ~Before(InCall(Coll(0, q), n), at[r])
    BY <2>1, <2>2, <1>1, <1>3, <1>7, <1>9 DEF Before
  <2> QED
    BY <2>1, <2>2, <2>3, <2>4, <1>1, <1>7, <1>9
<1>10. ASSUME d.stage = 5, r = 0
       PROVE  \/ at[r] = InCall(Coll(0, World - 1), n) /\ World - 1 \in 1..(World - 1)
              \/ at[r].stage = 5 /\ at[r].n = n
  <2>1. n \in Reducing /\ World - 1 \in 1..(World - 1)
    BY <1>3, <1>4, <1>5, <1>10
  <2>2. PICK q \in 1..(World - 1) : q = World - 1
    BY <2>1
  <2>3. Before(InCall(Coll(0, q), n), d)
    BY <2>1, <1>3, <1>7, <1>10 DEF Before
  <2>4. CASE at[r] = InCall(Coll(0, q), n)
    BY <2>1, <2>2, <2>4
  <2>5. CASE Before(InCall(Coll(0, q), n), at[r])
    <3>1. at[r].n = n /\ (at[r].stage = 5 \/ (at[r].stage = 4 /\ at[r].turn > q))
      BY <2>1, <2>5, <1>1, <1>3, <1>7, <1>10 DEF Before
    <3>2. ~(at[r].stage = 4 /\ at[r].turn > q)
      BY <2>2, <3>1, <1>3, <1>4, <1>5
    <3> QED
      BY <3>1, <3>2
  <2> QED
    BY <2>1, <2>3, <2>4, <2>5, <1>1, <1>7, <1>10
<1> QED
  BY <1>8, <1>9, <1>10

(* What a rank combines when it receives: the partial of its round.        *)
LEMMA RecvTakes ==
    ASSUME FarTypeOK, NEW r \in Ranks, Recv(r), \A s \in Socks : LinkOK(s)
    PROVE  Head(inb[Sock(r)]) = Value(Peer(Sock(r)), N(r))
<1>1. /\ at[r].op = "recv" /\ at[r] \in Script[r] /\ inb[Sock(r)] # <<>>
      /\ Sock(r) \in Socks /\ Sock(r)[2] = r /\ Sock(r) \notin HaloSocks
  BY SockOfRank DEF Recv, At
<1>2. at[r] = InCall(Sock(r), N(r)) /\ N(r) \in Numbers(Sock(r))
  BY <1>1, CallOfSock DEF Sock, N
<1>3. Wire(Peer(Sock(r))) # <<>> /\ Head(Wire(Peer(Sock(r)))) = Head(inb[Sock(r)])
  BY <1>1, FrontOfWire
<1>4. LinkOK(Peer(Sock(r)))
  BY <1>1, SockEnds
<1> QED
  BY <1>1, <1>2, <1>3, <1>4, TakesItsRound

LEMMA AccStep ==
    ASSUME FarTypeOK, \A s \in Socks : LinkOK(s), [Next]_vars, NEW q \in Ranks, AccOK(q)
    PROVE  AccOK(q)'
<1>a. acc \in [Ranks -> Partials] /\ at \in [Ranks -> UNION {Script[r] : r \in Ranks}]
  BY DEF FarTypeOK
<1>1. CASE at'[q] = at[q] /\ acc'[q] = acc[q]
  BY <1>1 DEF AccOK
<1>2. ASSUME NEW r \in Ranks, Rank(r)
      PROVE  AccOK(q)'
  <2>1. Advance(r)
    BY <1>2 DEF Rank, Setup, Put, Get, Own, Send, Recv, Quit, Ack, Close, Join
  <2>2. CASE q # r
    <3>1. at'[q] = at[q]
      BY <2>1, <2>2, AtType
    <3>2. acc'[q] = acc[q]
      BY <1>2, <1>a, <2>2 DEF Rank, Setup, Put, Get, Own, Send, Recv, Quit, Ack, Close, Join
    <3> QED
      BY <1>1, <3>1, <3>2
  <2>3. CASE q = r /\ at'[r].n # Steps
    <3> DEFINE n == at'[r].n
    <3>a. n \in 0..Steps
      BY <2>1, Advanced, Places DEF Placed
    <3>b. at[r].op = "own" => acc'[r] = <<<<r, at[r].n>>>>
      BY <1>2, <1>a DEF Rank, Setup, Put, Get, Own, Send, Recv, Quit, Ack, Close, Join, At, N
    <3>c. at[r].op = "recv" => Recv(r)
      BY <1>2 DEF Rank, Setup, Put, Get, Own, Send, Quit, Ack, Close, Join, At
    <3>d. at[r].op = "send" => acc' = acc
      BY <1>2 DEF Rank, Setup, Put, Get, Own, Send, Recv, Quit, Ack, Close, Join, At
    <3>e. ASSUME r = 0, NEW k \in 1..(World - 1), at[r] = InCall(Coll(0, k), n)
          PROVE  acc'[r] = Gathered(n, k + 1)
      <4>1. Coll(0, k) \in CollSocks /\ Coll(0, k)[2] = 0 /\ Coll(0, k)[3] = k
        BY FarAssumption DEF CollSocks, Coll, Ranks
      <4>2. Coll(0, k) \in Socks /\ Coll(0, k) \notin HaloSocks
        BY <4>1, SockEnds DEF Socks
      <4>3. /\ at[r].op = "recv" /\ Sock(r) = Coll(0, k) /\ N(r) = n
            /\ at[r].stage = 4 /\ at[r].turn = k /\ at[r].n = n
        BY <3>e, <4>1, <4>2 DEF InCall, Call, Sock, N
      <4>4. Head(inb[Sock(r)]) = Value(Peer(Coll(0, k)), n)
        BY <3>c, <4>3, RecvTakes
      <4>5. /\ Peer(Coll(0, k)) \notin HaloSocks /\ Peer(Coll(0, k))[2] = k
        BY <4>1, <4>2, SockEnds
      <4>6. Head(inb[Sock(r)]).acc = <<<<k, n>>>>
        BY <2>3, <4>4, <4>5 DEF Value, Owner, Msg
      <4>7. acc'[r] = acc[r] \o <<<<k, n>>>>
        BY <1>a, <3>c, <3>e, <4>3, <4>6 DEF Recv, Combined
      <4>8. acc[r] = Gathered(n, k)
        BY <2>3, <3>e, <4>3 DEF AccOK
      <4>9. k \in 0..(World - 1)
        OBVIOUS
      <4> QED
        BY <3>a, <4>7, <4>8, <4>9, GatherOne
    <3>1. ASSUME r = 0, at'[r].stage = 4
          PROVE  acc'[r] = Gathered(n, at'[r].turn)
      <4>1. CASE at'[r].turn = 1
        <5>1. at[r] = Alone("own", r, n, 3)
          BY <2>1, <2>3, <3>1, <4>1, CollectivePrevious
        <5>2. acc'[r] = <<<<0, n>>>>
          BY <3>1, <3>b, <5>1 DEF Alone, Call
        <5>3. <<<<0, n>>>> = Gathered(n, 1)
          <6>a. PICK k \in 0..(World - 1) : k = 0 /\ k + 1 = 1
            BY FarAssumption
          <6>b. Gathered(n, k) \o <<<<k, n>>>> = Gathered(n, k + 1)
            BY <3>a, GatherOne
          <6>1. Gathered(n, 0) \o <<<<0, n>>>> = Gathered(n, 1)
            BY <6>a, <6>b
          <6>2. Gathered(n, 0) = <<>>
            BY DEF Gathered
          <6>3. <<<<0, n>>>> \in Partials
            BY <3>a, <3>1, OnePartial
          <6>4. <<>> \o <<<<0, n>>>> = <<<<0, n>>>>
            BY <6>3, ConcatEmpty DEF Partials
          <6> QED
            BY <6>1, <6>2, <6>4
        <5> QED
          BY <4>1, <5>2, <5>3
      <4>2. CASE at'[r].turn # 1
        <5>1. at[r] = InCall(Coll(0, at'[r].turn - 1), n) /\ at'[r].turn \in 2..(World - 1)
          BY <2>1, <2>3, <3>1, <4>2, CollectivePrevious
        <5>2. PICK k \in 1..(World - 1) : k = at'[r].turn - 1
          BY <5>1, FarAssumption
        <5>3. acc'[r] = Gathered(n, k + 1)
          BY <3>1, <3>e, <5>1, <5>2
        <5>4. k + 1 = at'[r].turn
          BY <5>1, <5>2
        <5> QED
          BY <5>3, <5>4
      <4> QED
        BY <4>1, <4>2
    <3>2. ASSUME r = 0, at'[r].stage = 5
          PROVE  acc'[r] = Gathered(n, World)
      <4>1. CASE at[r] = InCall(Coll(0, World - 1), n) /\ World - 1 \in 1..(World - 1)
        <5>1. PICK k \in 1..(World - 1) : k = World - 1
          BY <4>1
        <5>2. acc'[r] = Gathered(n, k + 1)
          BY <3>2, <3>e, <4>1, <5>1
        <5>3. k + 1 = World
          BY <5>1, FarAssumption
        <5> QED
          BY <5>2, <5>3
      <4>2. CASE at[r].stage = 5 /\ at[r].n = n
        <5>1. at[r] \in Script[r]
          BY DEF FarTypeOK
        <5>2. at[r].op = "send"
          BY <2>3, <3>2, <4>2, <5>1, Places DEF Placed
        <5> QED
          BY <2>3, <3>2, <3>d, <4>2, <5>2 DEF AccOK
      <4> QED
        BY <2>1, <2>3, <3>2, <4>1, <4>2, CollectivePrevious
    <3>3. ASSUME r # 0, at'[r].stage = 4
          PROVE  acc'[r] = <<<<r, n>>>>
      <4>1. at[r] = Alone("own", r, n, 3)
        BY <2>1, <2>3, <3>3, CollectivePrevious
      <4> QED
        BY <3>b, <4>1 DEF Alone, Call
    <3> QED
      BY <2>3, <3>1, <3>2, <3>3 DEF AccOK
  <2>4. CASE q = r /\ at'[r].n = Steps
    BY <2>4 DEF AccOK
  <2> QED
    BY <2>2, <2>3, <2>4
<1>3. ASSUME NEW s \in HaloSocks, SendPump(s)
      PROVE  at' = at /\ acc' = acc
  BY <1>3 DEF SendPump, PumpTake, PumpQuit, DrainNothing, PumpSend, Panic, PumpAck, rankVars
<1>4. ASSUME NEW s \in HaloSocks, RecvPump(s)
      PROVE  at' = at /\ acc' = acc
  BY <1>4 DEF RecvPump, LookUp, InvalidHandle, Panic, PumpRecv, PumpPut, PumpClosed, rankVars
<1>5. ASSUME NEW s \in Socks, Transmit(s)
      PROVE  at' = at /\ acc' = acc
  BY <1>5 DEF Transmit, rankVars
<1>6. CASE UNCHANGED vars
  BY <1>1, <1>6 DEF vars, rankVars
<1> QED
  BY <1>1, <1>2, <1>3, <1>4, <1>5, <1>6 DEF Next

-----------------------------------------------------------------------------
(* The links.                                                              *)

LEMMA ConcatIsEmpty ==
    ASSUME NEW M, NEW a \in Seq(M), NEW b \in Seq(M), a \o b = <<>>
    PROVE  a = <<>> /\ b = <<>>
<1>1. Len(a) \in Nat /\ Len(b) \in Nat /\ Len(a) + Len(b) = 0
  BY ConcatType, EmptySeq, LenProperties
<1> QED
  BY <1>1, EmptySeq

(* A value put behind all that is on a wire, and the first one taken.      *)
Behind(a, o, h, v) == a \o (o \o (h \o <<v>>)) = Append(a \o (o \o (h \o <<>>)), v)
BehindOut(a, o, v) == a \o (Append(o, v) \o <<>>) = Append(a \o (o \o <<>>), v)
FirstGot(a, h, i, b) == ((Tail(a) \o h) \o i) \o b = Tail(((a \o h) \o i) \o b)
FirstReceived(i, b) == (<<>> \o Tail(i)) \o b = Tail((<<>> \o i) \o b)

LEMMA PutBehind ==
    ASSUME NEW M, NEW a \in Seq(M), NEW o \in Seq(M), NEW h \in Seq(M), NEW v \in M
    PROVE  Behind(a, o, h, v) /\ BehindOut(a, o, v)
<1>1. h \o <<v>> = Append(h, v) /\ h \o <<>> = h
  BY AppendIsConcat, ConcatEmpty
<1>2. o \o Append(h, v) = Append(o \o h, v)
  BY AppendToConcat
<1>3. PICK x \in Seq(M) : x = o \o h
  BY ConcatType
<1>4. a \o Append(x, v) = Append(a \o x, v)
  BY AppendToConcat
<1>5. a \o Append(o, v) = Append(a \o o, v)
  BY AppendToConcat
<1> QED
  <2>1. Behind(a, o, h, v)
    BY <1>1, <1>2, <1>3, <1>4 DEF Behind
  <2>2. Append(o, v) \o <<>> = Append(o, v) /\ o \o <<>> = o
    BY ConcatEmpty
  <2>3. BehindOut(a, o, v)
    BY <1>5, <2>2 DEF BehindOut
  <2> QED
    BY <2>1, <2>3

LEMMA TakeFirst ==
    ASSUME NEW M, NEW a \in Seq(M), NEW h \in Seq(M), NEW i \in Seq(M), NEW b \in Seq(M), a # <<>>
    PROVE  FirstGot(a, h, i, b)
<1>1. PICK x \in Seq(M) : x = a \o h
  BY ConcatType
<1>2. x # <<>> /\ Tail(x) = Tail(a) \o h
  BY <1>1, FrontOfConcat
<1>3. PICK y \in Seq(M) : y = x \o i
  BY ConcatType
<1>4. y # <<>> /\ Tail(y) = Tail(x) \o i
  BY <1>2, <1>3, FrontOfConcat
<1>5. Tail(y \o b) = Tail(y) \o b
  BY <1>4, FrontOfConcat
<1> QED
  BY <1>1, <1>2, <1>3, <1>4, <1>5 DEF FirstGot

LEMMA ReceiveFirst ==
    ASSUME NEW M, NEW i \in Seq(M), NEW b \in Seq(M), i # <<>>
    PROVE  FirstReceived(i, b)
<1>1. Tail(i \o b) = Tail(i) \o b
  BY FrontOfConcat
<1>2. Tail(i) \in Seq(M)
  OBVIOUS
<1>3. <<>> \o Tail(i) = Tail(i) /\ <<>> \o i = i
  BY <1>2, ConcatEmpty
<1> QED
  BY <1>1, <1>3 DEF FirstReceived

LEMMA LinkKept ==
    ASSUME NEW s \in Socks, LinkOK(s), Sent(s)' = Sent(s), Got(Peer(s))' = Got(Peer(s)),
           Wire(s)' = Wire(s), Gap(s)' = Gap(s)
    PROVE  LinkOK(s)'
BY DEF LinkOK, Pending, Linked

(* What a step can do to the link of s: nothing, put the value of a round  *)
(* on it, take one off it, or close it.                                    *)
Kept(s) ==
    /\ Wire(s)' = Wire(s) /\ Gap(s)' = Gap(s)
    /\ Sent(s)' = Sent(s) /\ Got(Peer(s))' = Got(Peer(s))

PutOn(s, n) ==
    /\ Advance(s[2]) /\ at[s[2]] = OutCall(s, n)
    /\ Wire(s)' = Append(Wire(s), Value(s, n)) /\ Gap(s)' = Gap(s)

TakenOff(s, n) ==
    /\ Advance(s[3]) /\ at[s[3]] = InCall(Peer(s), n)
    /\ Wire(s) # <<>> /\ Wire(s)' = Tail(Wire(s)) /\ Gap(s)' = Gap(s)

ClosedBy(s) ==
    /\ Advance(s[2]) /\ at[s[2]] = CloseCall(s) /\ used'[s] = "freed"
    /\ Wire(s)' = RecvSide(Peer(s)) \o inb[Peer(s)]

WireMove(s) ==
    \/ Kept(s) \/ ClosedBy(s)
    \/ \E n \in Numbers(s) : PutOn(s, n) \/ TakenOff(s, n)

(* A step of a rank on another link, or on none, keeps this one.           *)
LEMMA Elsewhere ==
    ASSUME FarTypeOK, NEW s \in Socks, NEW r \in Ranks, Advance(r),
           Wire(s)' = Wire(s), Gap(s)' = Gap(s),
           at[r].op \in {"put", "send"} => at[r].s # s,
           at[r].op \in {"get", "recv"} => at[r].s # Peer(s)
    PROVE  WireMove(s)
<1>1. Peer(s) \in Socks
  BY SockEnds
<1>2. Sent(s)' = Sent(s) /\ Got(Peer(s))' = Got(Peer(s))
  BY <1>1, CountStep
<1> QED
  BY <1>2 DEF Kept, WireMove

LEMMA LinkPutStep ==
    ASSUME FarTypeOK, NEW s \in Socks, LinkOK(s), Advance(s[2]), NEW n \in Numbers(s),
           at[s[2]] = OutCall(s, n), Wire(s)' = Append(Wire(s), Value(s, n)), Gap(s)' = Gap(s)
    PROVE  LinkOK(s)'
<1> DEFINE p == Peer(s)
<1>1. p \in Socks /\ p # s /\ s[2] \in Ranks /\ n \in 0..Steps
  BY SockEnds, NumbersType
<1>2. at[s[2]].op \in {"put", "send"} /\ at[s[2]].s = s /\ at[s[2]].n = n
  BY DEF OutCall, Call
<1>3. Sent(s)' = Sent(s) \cup {n}
  BY <1>1, <1>2, CountStep
<1>4. Got(p)' = Got(p)
  BY <1>1, <1>2, CountStep
<1>5. n \notin Sent(s) /\ \A m \in Sent(s) : m < n
  BY InOrder
<1>6. Got(p) \subseteq Sent(s) /\ Pending(s) = Sent(s) \ Got(p)
      /\ Linked(Wire(s), Pending(s), Values(s), Gap(s))
  BY DEF LinkOK, Pending
<1>7. Pending(s)' = Pending(s) \cup {n}
  BY <1>3, <1>4, <1>5, <1>6 DEF Pending
<1>8. /\ Wire(s) \in Seq(Msgs) /\ Pending(s) \in SUBSET (0..Steps) /\ Carries(Values(s))
      /\ Gap(s) \in SUBSET {Steps} /\ \A m \in Pending(s) : m < n
  BY <1>5, <1>6, WireType, PendingType, ValueType DEF Gap
<1>9. Linked(Append(Wire(s), Values(s)[n]), Pending(s) \cup {n}, Values(s), Gap(s))
  BY <1>1, <1>6, <1>8, LinkPut
<1>10. Values(s)[n] = Value(s, n)
  BY <1>1 DEF Values
<1>11. Linked(Wire(s)', Pending(s)', Values(s), Gap(s)')
  BY <1>7, <1>9, <1>10
<1> QED
  BY <1>3, <1>4, <1>6, <1>11 DEF LinkOK, Linked

LEMMA LinkGetStep ==
    ASSUME FarTypeOK, NEW s \in Socks, LinkOK(Peer(s)), Advance(s[2]), NEW n \in Numbers(s),
           at[s[2]] = InCall(s, n), Wire(Peer(s)) # <<>>,
           Wire(Peer(s))' = Tail(Wire(Peer(s))), Gap(Peer(s))' = Gap(Peer(s))
    PROVE  LinkOK(Peer(s))'
<1> DEFINE p == Peer(s)
<1>1. p \in Socks /\ p # s /\ Peer(p) = s /\ s[2] \in Ranks /\ n \in 0..Steps
  BY SockEnds, NumbersType
<1>2. at[s[2]].op \in {"get", "recv"} /\ at[s[2]].s = s /\ at[s[2]].n = n
  BY DEF InCall, Call
<1>3. Got(s)' = Got(s) \cup {n} /\ Sent(p)' = Sent(p)
  BY <1>1, <1>2, CountStep
<1>4. n \in Pending(p) /\ Head(Wire(p)) = Value(p, n)
  BY TakesItsRound
<1>5. Got(s) \subseteq Sent(p) /\ Pending(p) = Sent(p) \ Got(s)
      /\ Linked(Wire(p), Pending(p), Values(p), Gap(p))
  BY <1>1 DEF LinkOK, Pending
<1>6. Pending(p)' = Pending(p) \ {n}
  BY <1>1, <1>3, <1>5 DEF Pending
<1>7. /\ Wire(p) \in Seq(Msgs) /\ Pending(p) \in SUBSET (0..Steps) /\ Carries(Values(p))
      /\ Gap(p) \in SUBSET {Steps} /\ Values(p)[n] = Value(p, n)
  BY <1>1, WireType, PendingType, ValueType DEF Gap, Values
<1>8. Linked(Tail(Wire(p)), Pending(p) \ {n}, Values(p), Gap(p))
  BY <1>4, <1>5, <1>7, LinkGet
<1>9. Linked(Wire(p)', Pending(p)', Values(p), Gap(p)')
  BY <1>6, <1>8
<1>10. Got(s)' \subseteq Sent(p)'
  BY <1>3, <1>4, <1>5
<1> QED
  BY <1>1, <1>9, <1>10 DEF LinkOK, Linked

(* The two ends of a wire.                                                 *)
LEMMA WireSame ==
    ASSUME NEW s \in Socks, RecvSide(Peer(s))' = RecvSide(Peer(s)), inb'[Peer(s)] = inb[Peer(s)],
           out'[s] = out[s], SendSide(s)' = SendSide(s)
    PROVE  Wire(s)' = Wire(s)
BY DEF Wire

LEMMA SidesSame ==
    ASSUME NEW s \in Socks
    PROVE  /\ (s \in HaloSocks =>
                  spc'[s] = spc[s] /\ sheld'[s] = sheld[s] /\ send'[s] = send[s])
              => SendSide(s)' = SendSide(s)
           /\ (s \in HaloSocks =>
                  rpc'[s] = rpc[s] /\ rheld'[s] = rheld[s] /\ recv'[s] = recv[s])
              => RecvSide(s)' = RecvSide(s)
BY DEF SendSide, RecvSide, Hand

(* A step of a pump or of NNG moves a value along and changes no wire.     *)
LEMMA PumpWire ==
    ASSUME FarTypeOK, NEW q \in Socks, NEW s \in HaloSocks, SendPump(s) \/ RecvPump(s)
    PROVE  Wire(q)' = Wire(q)
<1> DEFINE p == Peer(q)
<1>a. /\ s \in Socks /\ p \in Socks /\ p # q
      /\ send \in [HaloSocks -> Seq(Msgs)] /\ recv \in [HaloSocks -> Seq(Msgs)]
      /\ out \in [Socks -> Seq(Msgs)] /\ inb \in [Socks -> Seq(Msgs)]
      /\ spc \in [HaloSocks -> {"unborn", "select", "send", "drain", "last", "ack", "gone"}]
      /\ rpc \in [HaloSocks -> {"unborn", "handle", "recv", "put", "gone"}]
      /\ sheld \in [HaloSocks -> Msgs] /\ rheld \in [HaloSocks -> Msgs]
  BY HaloIsSock, SockEnds DEF FarTypeOK
<1>1. CASE PumpTake(s)
  <2>1. rpc' = rpc /\ rheld' = rheld /\ recv' = recv /\ out' = out /\ inb' = inb
    BY <1>1 DEF PumpTake, sockVars
  <2>2. SendSide(q)' = SendSide(q)
    <3>1. CASE q # s
      BY <1>1, <1>a, <3>1, SidesSame DEF PumpTake
    <3>2. CASE q = s
      <4>1. /\ spc[q] \in {"select", "drain"} /\ spc'[q] \in {"send", "last"} /\ send[q] # <<>>
            /\ sheld'[q] = Head(send[q]) /\ send'[q] = Tail(send[q]) /\ send[q] \in Seq(Msgs)
        BY <1>1, <1>a, <3>2 DEF PumpTake
      <4>2. <<Head(send[q])>> \o Tail(send[q]) = send[q] /\ <<>> \o send[q] = send[q]
        BY <4>1, HeadFirst, ConcatEmpty
      <4> QED
        BY <3>2, <4>1, <4>2 DEF SendSide, Hand
    <3> QED
      BY <3>1, <3>2
  <2> QED
    BY <1>a, <2>1, <2>2, SidesSame, WireSame
<1>2. CASE PumpQuit(s) \/ DrainNothing(s) \/ PumpAck(s)
  <2>1. /\ rpc' = rpc /\ rheld' = rheld /\ recv' = recv /\ out' = out /\ inb' = inb
        /\ sheld' = sheld /\ send' = send
    BY <1>2 DEF PumpQuit, DrainNothing, PumpAck, sockVars, chanVars
  <2>2. q \in HaloSocks => (spc'[q] \in {"send", "last"} <=> spc[q] \in {"send", "last"})
    BY <1>2, <1>a DEF PumpQuit, DrainNothing, PumpAck, AfterQuit
  <2>3. SendSide(q)' = SendSide(q)
    BY <2>1, <2>2 DEF SendSide, Hand
  <2> QED
    BY <1>a, <2>1, <2>3, SidesSame, WireSame
<1>3. CASE PumpSend(s)
  <2>1. CASE Panic(Owner(s))
    <3>1. /\ rpc' = rpc /\ rheld' = rheld /\ recv' = recv /\ out' = out /\ inb' = inb
          /\ sheld' = sheld /\ send' = send /\ spc' = spc
      BY <2>1 DEF Panic, sockVars, chanVars, pumpVars
    <3> QED
      BY <1>a, <3>1, SidesSame, WireSame
  <2>2. CASE ~Panic(Owner(s))
    <3>1. /\ rpc' = rpc /\ rheld' = rheld /\ recv' = recv /\ inb' = inb
          /\ sheld' = sheld /\ send' = send /\ spc[s] \in {"send", "last"}
          /\ out' = [out EXCEPT ![s] = Append(@, sheld[s])]
          /\ spc' = [spc EXCEPT ![s] = IF @ = "send" THEN "select" ELSE "ack"]
      BY <1>3, <2>2 DEF PumpSend, Buffer, chanVars
    <3>2. RecvSide(p)' = RecvSide(p)
      BY <1>a, <3>1, SidesSame
    <3>3. CASE q # s
      <4>1. out'[q] = out[q] /\ (q \in HaloSocks => spc'[q] = spc[q])
        BY <1>a, <3>1, <3>3
      <4>2. SendSide(q)' = SendSide(q)
        BY <3>1, <4>1, SidesSame
      <4> QED
        BY <3>1, <3>2, <4>1, <4>2, WireSame
    <3>4. CASE q = s
      <4>1. /\ spc'[q] \notin {"send", "last"} /\ out'[q] = Append(out[q], sheld[q])
            /\ out[q] \in Seq(Msgs) /\ sheld[q] \in Msgs /\ send[q] \in Seq(Msgs)
        BY <1>a, <3>1, <3>4
      <4>2. SendSide(q) = <<sheld[q]>> \o send[q]
        BY <3>1, <3>4 DEF SendSide, Hand
      <4>3. SendSide(q)' = send[q]
        BY <3>1, <3>4, <4>1, ConcatEmpty DEF SendSide, Hand
      <4>4. Append(out[q], sheld[q]) \o send[q] = out[q] \o (<<sheld[q]>> \o send[q])
        <5>1. PICK o \in Seq(Msgs), w \in Seq(Msgs), v \in Msgs : o = out[q] /\ w = send[q] /\ v = sheld[q]
          BY <4>1
        <5>2. Append(o, v) \o w = o \o (<<v>> \o w)
          BY AppendFirst
        <5> QED
          BY <5>1, <5>2
      <4> QED
        BY <3>1, <3>2, <4>1, <4>2, <4>3, <4>4 DEF Wire
    <3> QED
      BY <3>3, <3>4
  <2> QED
    BY <2>1, <2>2
<1>4. CASE LookUp(s) \/ InvalidHandle(s) \/ PumpClosed(s)
  <2>1. /\ spc' = spc /\ rheld' = rheld /\ recv' = recv /\ out' = out /\ inb' = inb
        /\ sheld' = sheld /\ send' = send
    BY <1>4 DEF LookUp, InvalidHandle, PumpClosed, Panic, sockVars, chanVars, pumpVars
  <2>2. p \in HaloSocks => (rpc'[p] = "put" <=> rpc[p] = "put")
    BY <1>4, <1>a DEF LookUp, InvalidHandle, PumpClosed, Panic, pumpVars
  <2>3. RecvSide(p)' = RecvSide(p)
    BY <2>1, <2>2 DEF RecvSide, Hand
  <2> QED
    BY <1>a, <2>1, <2>3, SidesSame, WireSame
<1>5. CASE PumpRecv(s)
  <2>1. /\ spc' = spc /\ sheld' = sheld /\ send' = send /\ out' = out /\ recv' = recv
        /\ rpc[s] = "recv" /\ inb[s] # <<>>
        /\ rheld' = [rheld EXCEPT ![s] = Head(inb[s])] /\ inb' = [inb EXCEPT ![s] = Tail(@)]
        /\ rpc' = [rpc EXCEPT ![s] = "put"]
    BY <1>5 DEF PumpRecv, chanVars
  <2>2. SendSide(q)' = SendSide(q)
    BY <1>a, <2>1, SidesSame
  <2>3. CASE p # s
    <3>1. inb'[p] = inb[p] /\ (p \in HaloSocks => rpc'[p] = rpc[p] /\ rheld'[p] = rheld[p])
      BY <1>a, <2>1, <2>3
    <3>2. RecvSide(p)' = RecvSide(p)
      BY <1>a, <2>1, <3>1, SidesSame
    <3> QED
      BY <2>1, <2>2, <3>1, <3>2, WireSame
  <2>4. CASE p = s
    <3>1. /\ rpc'[p] = "put" /\ rheld'[p] = Head(inb[p]) /\ inb'[p] = Tail(inb[p])
          /\ recv[p] \in Seq(Msgs) /\ inb[p] \in Seq(Msgs) /\ inb[p] # <<>> /\ p \in HaloSocks
      BY <1>a, <2>1, <2>4
    <3>2. RecvSide(p) = recv[p]
      BY <2>1, <2>4, <3>1, ConcatEmpty DEF RecvSide, Hand
    <3>3. RecvSide(p)' = recv[p] \o <<Head(inb[p])>>
      BY <2>1, <3>1 DEF RecvSide, Hand
    <3>4. Head(inb[p]) \in Msgs
      BY <3>1
    <3>5. RecvSide(p)' = Append(recv[p], Head(inb[p]))
      BY <3>1, <3>3, <3>4, AppendIsConcat
    <3>6. Append(recv[p], Head(inb[p])) \o Tail(inb[p]) = recv[p] \o inb[p]
      BY <3>1, Shift
    <3> QED
      BY <2>1, <2>2, <3>1, <3>2, <3>5, <3>6 DEF Wire
  <2> QED
    BY <2>3, <2>4
<1>6. CASE PumpPut(s)
  <2>1. /\ spc' = spc /\ sheld' = sheld /\ send' = send /\ out' = out /\ inb' = inb
        /\ rpc[s] = "put" /\ recv[s] = <<>> /\ rheld' = rheld
        /\ recv' = [recv EXCEPT ![s] = <<rheld[s]>>] /\ rpc' = [rpc EXCEPT ![s] = "handle"]
    BY <1>6 DEF PumpPut, sockVars
  <2>2. SendSide(q)' = SendSide(q)
    BY <1>a, <2>1, SidesSame
  <2>3. RecvSide(p)' = RecvSide(p)
    <3>1. CASE p # s
      <4>1. p \in HaloSocks => rpc'[p] = rpc[p] /\ recv'[p] = recv[p]
        BY <1>a, <2>1, <3>1
      <4> QED
        BY <1>a, <2>1, <4>1, SidesSame
    <3>2. CASE p = s
      <4>1. rpc'[p] = "handle" /\ recv'[p] = <<rheld[p]>> /\ rheld[p] \in Msgs
        BY <1>a, <2>1, <3>2
      <4>2. <<rheld[p]>> \in Seq(Msgs)
        BY <4>1
      <4>3. <<rheld[p]>> \o <<>> = <<rheld[p]>> /\ <<>> \o <<rheld[p]>> = <<rheld[p]>>
        BY <4>2, ConcatEmpty
      <4> QED
        BY <2>1, <3>2, <4>1, <4>3 DEF RecvSide, Hand
    <3> QED
      BY <3>1, <3>2
  <2> QED
    BY <1>a, <2>1, <2>2, <2>3, WireSame
<1> QED
  BY <1>1, <1>2, <1>3, <1>4, <1>5, <1>6 DEF SendPump, RecvPump

LEMMA TransmitWire ==
    ASSUME FarTypeOK, NEW q \in Socks, NEW s \in Socks, Transmit(s)
    PROVE  Wire(q)' = Wire(q)
<1> DEFINE p == Peer(q)
<1>a. /\ p \in Socks /\ p # q /\ Peer(s) \in Socks /\ Peer(Peer(s)) = s /\ Peer(p) = q
      /\ out \in [Socks -> Seq(Msgs)] /\ inb \in [Socks -> Seq(Msgs)]
  BY SockEnds DEF FarTypeOK
<1>1. /\ spc' = spc /\ sheld' = sheld /\ send' = send /\ rpc' = rpc /\ rheld' = rheld /\ recv' = recv
      /\ out[s] # <<>> /\ out' = [out EXCEPT ![s] = Tail(@)]
      /\ inb' = [inb EXCEPT ![Peer(s)] = Append(@, Head(out[s]))]
  BY DEF Transmit, pumpVars, chanVars
<1>2. SendSide(q)' = SendSide(q) /\ RecvSide(p)' = RecvSide(p)
  BY <1>a, <1>1, SidesSame
<1>3. CASE q # s
  <2>1. p # Peer(s)
    BY <1>a, <1>3
  <2>2. out'[q] = out[q] /\ inb'[p] = inb[p]
    BY <1>a, <1>1, <1>3, <2>1
  <2> QED
    BY <1>2, <2>2, WireSame
<1>4. CASE q = s
  <2>1. out'[q] = Tail(out[q]) /\ inb'[p] = Append(inb[p], Head(out[q]))
    BY <1>a, <1>1, <1>4
  <2>2. /\ RecvSide(p) \in Seq(Msgs) /\ inb[p] \in Seq(Msgs) /\ out[q] \in Seq(Msgs)
        /\ SendSide(q) \in Seq(Msgs) /\ out[q] # <<>>
    BY <1>a, <1>1, <1>4, WireType
  <2>3. Shifted(RecvSide(p), inb[p], out[q], SendSide(q))
    BY <2>2, ShiftMiddle
  <2> QED
    BY <1>2, <2>1, <2>3 DEF Wire, Shifted
<1> QED
  BY <1>3, <1>4

(* What a rank sends on its collective link is the value of its round.     *)
LEMMA SendsItsValue ==
    ASSUME FarTypeOK, NEW r \in Ranks, AccOK(r), at[r].op = "send"
    PROVE  (IF N(r) = Steps THEN Marker
            ELSE Msg(IF r = 0 THEN "result" ELSE "partial", N(r), acc[r])) = Value(Sock(r), N(r))
<1>1. /\ at[r] \in Script[r] /\ Sock(r) \in Socks /\ Sock(r)[2] = r /\ Sock(r) \notin HaloSocks
  BY SockOfRank
<1>2. at[r] = OutCall(Sock(r), N(r))
  BY <1>1, CallOfSock DEF Sock, N
<1>3. CASE N(r) = Steps
  BY <1>3 DEF Value, Owner
<1>4. CASE N(r) # Steps
  <2>1. at[r].stage = (IF r = 0 THEN 5 ELSE 4) /\ at[r].n = N(r)
    BY <1>1, <1>2, <1>4 DEF OutCall, Call, N
  <2>2. r = 0 => acc[r] = InRankOrder(N(r))
    BY <1>4, <2>1 DEF AccOK, Gathered, InRankOrder
  <2>3. r # 0 => acc[r] = <<<<r, N(r)>>>>
    BY <1>4, <2>1 DEF AccOK
  <2> QED
    BY <1>1, <1>4, <2>2, <2>3 DEF Value, Owner
<1> QED
  BY <1>3, <1>4

(* Every step does one of these to each link.                             *)
LEMMA WireStep ==
    ASSUME FarTypeOK, \A s \in HaloSocks : PumpOK(s), \A s \in Socks : ClosedOK(s),
           \A r \in Ranks : AccOK(r), \A s \in Socks : LinkOK(s), [Next]_vars, NEW q \in Socks
    PROVE  WireMove(q)
<1> DEFINE p == Peer(q)
<1>a. p \in Socks /\ p # q /\ Peer(p) = q /\ p[2] # q[2] /\ LinkOK(q) /\ LinkOK(p)
  BY SockEnds
<1>b. /\ send \in [HaloSocks -> Seq(Msgs)] /\ recv \in [HaloSocks -> Seq(Msgs)]
      /\ out \in [Socks -> Seq(Msgs)] /\ inb \in [Socks -> Seq(Msgs)]
      /\ spc \in [HaloSocks -> {"unborn", "select", "send", "drain", "last", "ack", "gone"}]
      /\ rpc \in [HaloSocks -> {"unborn", "handle", "recv", "put", "gone"}]
      /\ sheld \in [HaloSocks -> Msgs] /\ rheld \in [HaloSocks -> Msgs]
      /\ used \in [Socks -> {"no", "yes", "freed"}]
  BY DEF FarTypeOK
<1>c. /\ RecvSide(p) \in Seq(Msgs) /\ inb[p] \in Seq(Msgs)
      /\ out[q] \in Seq(Msgs) /\ SendSide(q) \in Seq(Msgs)
  BY <1>a, WireType
<1>d. RecvSide(p) \o inb[p] \in Seq(Msgs) /\ out[q] \o SendSide(q) \in Seq(Msgs)
  BY <1>c, ConcatType
<1>e. used'[q] = used[q] => Gap(q)' = Gap(q)
  BY DEF Gap
<1>1. ASSUME NEW r \in Ranks, Setup(r)
      PROVE  WireMove(q)
  <2>1. /\ at[r].op = "setup" /\ Advance(r) /\ out' = out /\ inb' = inb /\ send' = send /\ recv' = recv
        /\ sheld' = sheld /\ rheld' = rheld
        /\ used' = [s \in Socks |-> IF Owner(s) = r THEN "yes" ELSE used[s]]
        /\ spc' = [s \in HaloSocks |-> IF Owner(s) = r THEN "select" ELSE spc[s]]
        /\ rpc' = [s \in HaloSocks |-> IF Owner(s) = r THEN "handle" ELSE rpc[s]]
    BY <1>1 DEF Setup, At, chanVars
  <2>2. Gap(q)' = Gap(q)
    <3>1. CASE q[2] # r
      BY <1>e, <2>1, <3>1 DEF Owner
    <3>2. CASE q[2] = r
      <4>1. at[r] \in Script[r] /\ at[r].n = 0 /\ Steps # 0 /\ Steps \in Nat
        BY <2>1, SockOfRank, CallOfSock, FarAssumption
      <4>2. ~Made(CloseCall(q), r)
        BY <4>1 DEF Made, Before, CloseCall, Call
      <4>3. used[q] # "freed"
        BY <3>2, <4>2 DEF ClosedOK
      <4>4. used'[q] # "freed"
        BY <2>1, <3>2 DEF Owner
      <4> QED
        BY <4>3, <4>4 DEF Gap
    <3> QED
      BY <3>1, <3>2
  <2>3. SendSide(q)' = SendSide(q)
    <3>1. ASSUME q \in HaloSocks
          PROVE  spc'[q] \in {"send", "last"} <=> spc[q] \in {"send", "last"}
      BY <2>1, <3>1 DEF PumpOK, Owner
    <3> QED
      BY <2>1, <3>1 DEF SendSide, Hand
  <2>4. RecvSide(p)' = RecvSide(p)
    <3>1. ASSUME p \in HaloSocks
          PROVE  rpc'[p] = "put" <=> rpc[p] = "put"
      BY <2>1, <3>1 DEF PumpOK, Owner
    <3> QED
      BY <2>1, <3>1 DEF RecvSide, Hand
  <2>5. Wire(q)' = Wire(q)
    BY <2>1, <2>3, <2>4, WireSame
  <2> QED
    BY <1>a, <2>1, <2>2, <2>5, Elsewhere
<1>2. ASSUME NEW r \in Ranks, Put(r)
      PROVE  WireMove(q)
  <2> DEFINE s == Sock(r)
             v == IF N(r) = Steps THEN Marker ELSE Msg("halo", N(r), <<>>)
  <2>1. /\ at[r].op = "put" /\ Advance(r) /\ send[s] = <<>> /\ send' = [send EXCEPT ![s] = <<v>>]
        /\ out' = out /\ inb' = inb /\ recv' = recv /\ used' = used
        /\ sheld' = sheld /\ rheld' = rheld /\ spc' = spc /\ rpc' = rpc
    BY <1>2 DEF Put, At, sockVars, pumpVars
  <2>2. /\ s \in HaloSocks /\ s[2] = r /\ s \in Socks /\ N(r) \in Numbers(s)
        /\ at[r] = OutCall(s, N(r)) /\ at[r].s = s
    BY <2>1, SockOfRank, CallOfSock, HaloIsSock DEF Sock, N
  <2>3. RecvSide(p)' = RecvSide(p) /\ Gap(q)' = Gap(q)
    BY <1>a, <1>e, <2>1, SidesSame
  <2>4. CASE q # s
    <3>1. Wire(q)' = Wire(q)
      BY <1>b, <2>1, <2>3, <2>4, SidesSame, WireSame
    <3> QED
      BY <1>a, <2>1, <2>2, <2>3, <2>4, <3>1, Elsewhere
  <2>5. CASE q = s
    <3>1. v = Value(q, N(r)) /\ v \in Msgs
      <4>1. v = Value(q, N(r))
        BY <2>2, <2>5 DEF Value, Owner
      <4>2. N(r) \in 0..Steps
        BY <2>2, NumbersType
      <4> QED
        BY <4>1, <4>2, ValueType DEF Carries, Values
    <3>2. Hand(spc[q] \in {"send", "last"}, sheld[q]) \in Seq(Msgs)
      BY <1>b, <2>2, <2>5 DEF Hand
    <3>3. PICK h \in Seq(Msgs) : h = Hand(spc[q] \in {"send", "last"}, sheld[q])
      BY <3>2
    <3>4. SendSide(q) = h \o <<>> /\ SendSide(q)' = h \o <<v>>
      BY <1>b, <2>1, <2>2, <2>5, <3>3 DEF SendSide
    <3>5. Behind(RecvSide(p) \o inb[p], out[q], h, v)
      BY <1>c, <1>d, <3>1, PutBehind
    <3>6. Wire(q)' = Append(Wire(q), v)
      BY <2>1, <2>3, <3>4, <3>5 DEF Wire, Behind
    <3> QED
      BY <2>1, <2>2, <2>3, <2>5, <3>1, <3>6 DEF PutOn, WireMove
  <2> QED
    BY <2>4, <2>5
<1>3. ASSUME NEW r \in Ranks, Send(r)
      PROVE  WireMove(q)
  <2> DEFINE s == Sock(r)
  <2>1. at[r].op = "send" /\ Advance(r)
    BY <1>3 DEF Send, At
  <2>2. /\ s \notin HaloSocks /\ s[2] = r /\ s \in Socks /\ N(r) \in Numbers(s)
        /\ at[r] = OutCall(s, N(r)) /\ at[r].s = s
    BY <2>1, SockOfRank, CallOfSock DEF Sock, N
  <2>3. /\ out' = [out EXCEPT ![s] = Append(@, Value(s, N(r)))] /\ inb' = inb /\ used' = used
        /\ send' = send /\ recv' = recv /\ sheld' = sheld /\ rheld' = rheld /\ spc' = spc /\ rpc' = rpc
    BY <1>3, <2>1, SendsItsValue DEF Send, Buffer, chanVars, pumpVars
  <2>4. RecvSide(p)' = RecvSide(p) /\ SendSide(q)' = SendSide(q) /\ Gap(q)' = Gap(q)
    BY <1>a, <1>e, <2>3, SidesSame
  <2>5. CASE q # s
    <3>1. Wire(q)' = Wire(q)
      BY <1>b, <2>3, <2>4, <2>5, WireSame
    <3> QED
      BY <1>a, <2>1, <2>2, <2>4, <2>5, <3>1, Elsewhere
  <2>6. CASE q = s
    <3>1. PICK v \in Msgs : v = Value(q, N(r))
      <4>1. N(r) \in 0..Steps
        BY <2>2, NumbersType
      <4>2. Value(q, N(r)) \in Msgs
        BY <4>1, ValueType DEF Carries, Values
      <4> QED
        BY <4>2
    <3>2. SendSide(q) = <<>>
      BY <2>2, <2>6 DEF SendSide
    <3>3. BehindOut(RecvSide(p) \o inb[p], out[q], v)
      BY <1>c, <1>d, PutBehind
    <3>4. out'[q] = Append(out[q], v) /\ inb'[p] = inb[p]
      BY <1>b, <2>3, <2>6, <3>1
    <3>5. Wire(q)' = Append(Wire(q), v)
      BY <2>4, <3>2, <3>3, <3>4 DEF Wire, BehindOut
    <3> QED
      BY <2>1, <2>2, <2>4, <2>6, <3>1, <3>5 DEF PutOn, WireMove
  <2> QED
    BY <2>5, <2>6
<1>4. ASSUME NEW r \in Ranks, Get(r)
      PROVE  WireMove(q)
  <2> DEFINE s == Sock(r)
  <2>1. /\ at[r].op = "get" /\ Advance(r) /\ recv[s] # <<>> /\ recv' = [recv EXCEPT ![s] = Tail(@)]
        /\ out' = out /\ inb' = inb /\ send' = send /\ used' = used
        /\ sheld' = sheld /\ rheld' = rheld /\ spc' = spc /\ rpc' = rpc
    BY <1>4 DEF Get, At, sockVars, pumpVars
  <2>2. /\ s \in HaloSocks /\ s[2] = r /\ s \in Socks /\ N(r) \in Numbers(s)
        /\ at[r] = InCall(s, N(r)) /\ at[r].s = s
    BY <2>1, SockOfRank, CallOfSock, HaloIsSock DEF Sock, N
  <2>3. SendSide(q)' = SendSide(q) /\ Gap(q)' = Gap(q)
    BY <1>e, <2>1, SidesSame
  <2>4. CASE p # s
    <3>1. RecvSide(p)' = RecvSide(p)
      BY <1>a, <1>b, <2>1, <2>4, SidesSame
    <3>2. Wire(q)' = Wire(q)
      BY <2>1, <2>3, <3>1, WireSame
    <3> QED
      BY <1>a, <2>1, <2>2, <2>3, <2>4, <3>2, Elsewhere
  <2>5. CASE p = s
    <3>1. Hand(rpc[p] = "put", rheld[p]) \in Seq(Msgs) /\ recv[p] \in Seq(Msgs)
      BY <1>b, <2>2, <2>5 DEF Hand
    <3>2. PICK h \in Seq(Msgs) : h = Hand(rpc[p] = "put", rheld[p])
      BY <3>1
    <3>3. RecvSide(p) = recv[p] \o h /\ RecvSide(p)' = Tail(recv[p]) \o h
      BY <1>b, <2>1, <2>2, <2>5, <3>2 DEF RecvSide
    <3>4. FirstGot(recv[p], h, inb[p], out[q] \o SendSide(q))
      BY <1>c, <1>d, <2>1, <2>5, <3>1, TakeFirst
    <3>5. Wire(q)' = Tail(Wire(q))
      BY <2>1, <2>3, <3>3, <3>4 DEF Wire, FirstGot
    <3>6. Wire(q) # <<>>
      BY <1>a, <2>1, <2>2, <2>5, FrontOfWire
    <3>7. p[2] = q[3] /\ Numbers(p) = Numbers(q)
      BY SockEnds, NumbersType
    <3> QED
      BY <2>1, <2>2, <2>3, <2>5, <3>5, <3>6, <3>7 DEF TakenOff, WireMove
  <2> QED
    BY <2>4, <2>5
<1>5. ASSUME NEW r \in Ranks, Recv(r)
      PROVE  WireMove(q)
  <2> DEFINE s == Sock(r)
  <2>1. /\ at[r].op = "recv" /\ Advance(r) /\ inb[s] # <<>> /\ inb' = [inb EXCEPT ![s] = Tail(@)]
        /\ out' = out /\ recv' = recv /\ send' = send /\ used' = used
        /\ sheld' = sheld /\ rheld' = rheld /\ spc' = spc /\ rpc' = rpc
    BY <1>5 DEF Recv, At, chanVars, pumpVars
  <2>2. /\ s \notin HaloSocks /\ s[2] = r /\ s \in Socks /\ N(r) \in Numbers(s)
        /\ at[r] = InCall(s, N(r)) /\ at[r].s = s
    BY <2>1, SockOfRank, CallOfSock DEF Sock, N
  <2>3. SendSide(q)' = SendSide(q) /\ RecvSide(p)' = RecvSide(p) /\ Gap(q)' = Gap(q)
    BY <1>a, <1>e, <2>1, SidesSame
  <2>4. CASE p # s
    <3>1. Wire(q)' = Wire(q)
      BY <1>a, <1>b, <2>1, <2>3, <2>4, WireSame
    <3> QED
      BY <1>a, <2>1, <2>2, <2>3, <2>4, <3>1, Elsewhere
  <2>5. CASE p = s
    <3>1. RecvSide(p) = <<>>
      BY <2>2, <2>5 DEF RecvSide
    <3>2. inb'[p] = Tail(inb[p]) /\ out'[q] = out[q]
      BY <1>a, <1>b, <2>1, <2>5
    <3>3. FirstReceived(inb[p], out[q] \o SendSide(q))
      BY <1>c, <1>d, <2>1, <2>5, ReceiveFirst
    <3>4. Wire(q)' = Tail(Wire(q))
      BY <2>3, <3>1, <3>2, <3>3 DEF Wire, FirstReceived
    <3>5. Wire(q) # <<>>
      BY <1>a, <2>1, <2>2, <2>5, FrontOfWire
    <3>6. p[2] = q[3] /\ Numbers(p) = Numbers(q)
      BY SockEnds, NumbersType
    <3> QED
      BY <2>1, <2>2, <2>3, <2>5, <3>4, <3>5, <3>6 DEF TakenOff, WireMove
  <2> QED
    BY <2>4, <2>5
<1>6. ASSUME NEW r \in Ranks, Close(r)
      PROVE  WireMove(q)
  <2> DEFINE s == Sock(r)
  <2>1. /\ at[r].op = "close" /\ Advance(r) /\ used' = [used EXCEPT ![s] = "freed"]
        /\ out' = [out EXCEPT ![s] = <<>>] /\ inb' = [inb EXCEPT ![s] = <<>>]
        /\ send' = send /\ recv' = recv /\ sheld' = sheld /\ rheld' = rheld /\ spc' = spc /\ rpc' = rpc
    BY <1>6 DEF Close, At, chanVars, pumpVars
  <2>2. s \in Socks /\ s[2] = r /\ at[r] = CloseCall(s)
    BY <2>1, SockOfRank, CallOfSock DEF Sock
  <2>3. SendSide(q)' = SendSide(q) /\ RecvSide(p)' = RecvSide(p)
    BY <1>a, <2>1, SidesSame
  <2>4. LinkOK(Peer(s)) /\ (s \in HaloSocks => PumpOK(s))
    BY <2>2, SockEnds
  <2>5. Pending(Peer(s)) = {} /\ Pending(s) \subseteq {Steps} /\ SendSide(s) = <<>>
    BY <2>2, <2>4, CloseSafe
  <2>6. CASE q = s
    <3>1. out'[q] = <<>> /\ inb'[p] = inb[p] /\ used'[q] = "freed"
      BY <1>a, <1>b, <2>1, <2>6
    <3>2. Wire(q)' = (RecvSide(p) \o inb[p]) \o (<<>> \o <<>>)
      BY <2>3, <2>5, <2>6, <3>1 DEF Wire
    <3>3. Wire(q)' = RecvSide(p) \o inb[p]
      BY <1>d, <3>2, ConcatEmpty, EmptySeq
    <3> QED
      BY <2>1, <2>2, <2>6, <3>1, <3>3 DEF ClosedBy, WireMove
  <2>7. CASE p = s
    <3>1. Pending(q) = {} /\ Wire(q) \in Seq(Msgs)
      BY <1>a, <2>5, <2>7, WireType
    <3>2. Wire(q) = <<>>
      BY <1>a, <3>1, LinkEmpty DEF LinkOK
    <3>3. RecvSide(p) \o inb[p] = <<>>
      BY <1>d, <3>2, ConcatIsEmpty DEF Wire
    <3>4. inb[p] = <<>>
      BY <1>c, <3>3, ConcatIsEmpty
    <3>5. inb'[p] = inb[p] /\ out'[q] = out[q] /\ used'[q] = used[q]
      BY <1>a, <1>b, <2>1, <2>7, <3>4
    <3>6. Wire(q)' = Wire(q)
      BY <2>3, <3>5, WireSame
    <3> QED
      BY <1>a, <1>e, <2>1, <3>5, <3>6, Elsewhere
  <2>8. CASE q # s /\ p # s
    <3>1. inb'[p] = inb[p] /\ out'[q] = out[q] /\ used'[q] = used[q]
      BY <1>a, <1>b, <2>1, <2>8
    <3>2. Wire(q)' = Wire(q)
      BY <2>3, <3>1, WireSame
    <3> QED
      BY <1>a, <1>e, <2>1, <3>1, <3>2, Elsewhere
  <2> QED
    BY <2>6, <2>7, <2>8
<1>7. ASSUME NEW r \in Ranks, Own(r) \/ Quit(r) \/ Ack(r) \/ Join(r)
      PROVE  WireMove(q)
  <2>1. /\ at[r].op \in {"own", "quit", "ack", "join"} /\ Advance(r)
        /\ out' = out /\ inb' = inb /\ send' = send /\ recv' = recv /\ used' = used
        /\ sheld' = sheld /\ rheld' = rheld /\ spc' = spc /\ rpc' = rpc
    BY <1>7 DEF Own, Quit, Ack, Join, At, sockVars, chanVars, pumpVars
  <2>2. SendSide(q)' = SendSide(q) /\ RecvSide(p)' = RecvSide(p)
    BY <1>a, <2>1, SidesSame
  <2>3. Wire(q)' = Wire(q) /\ Gap(q)' = Gap(q)
    BY <1>e, <2>1, <2>2, WireSame
  <2> QED
    BY <1>a, <2>1, <2>3, Elsewhere
<1>8. ASSUME at' = at, used' = used, Wire(q)' = Wire(q)
      PROVE  WireMove(q)
  <2>1. Sent(q)' = Sent(q) /\ Got(p)' = Got(p) /\ Gap(q)' = Gap(q)
    BY <1>8, <1>e DEF Sent, Got, Made
  <2> QED
    BY <1>8, <2>1 DEF Kept, WireMove
<1>9. ASSUME NEW s \in HaloSocks, SendPump(s) \/ RecvPump(s)
      PROVE  WireMove(q)
  <2>1. at' = at /\ used' = used
    <3>1. CASE SendPump(s)
      BY <3>1 DEF SendPump, PumpTake, PumpQuit, DrainNothing, PumpSend, Buffer, Panic, PumpAck,
                  rankVars, sockVars
    <3>2. CASE RecvPump(s)
      BY <3>2 DEF RecvPump, LookUp, InvalidHandle, Panic, PumpRecv, PumpPut, PumpClosed, rankVars, sockVars
    <3> QED
      BY <1>9, <3>1, <3>2
  <2>2. Wire(q)' = Wire(q)
    BY <1>9, PumpWire
  <2> QED
    BY <1>8, <2>1, <2>2
<1>10. ASSUME NEW s \in Socks, Transmit(s)
       PROVE  WireMove(q)
  <2>1. at' = at /\ used' = used
    BY <1>10 DEF Transmit, rankVars
  <2>2. Wire(q)' = Wire(q)
    BY <1>10, TransmitWire
  <2> QED
    BY <1>8, <2>1, <2>2
<1>11. CASE UNCHANGED vars
  <2>1. /\ at' = at /\ out' = out /\ inb' = inb /\ send' = send /\ recv' = recv /\ used' = used
        /\ sheld' = sheld /\ rheld' = rheld /\ spc' = spc /\ rpc' = rpc
    BY <1>11 DEF vars, rankVars, sockVars, chanVars, pumpVars
  <2>2. Wire(q)' = Wire(q)
    BY <1>a, <2>1, SidesSame, WireSame
  <2> QED
    BY <1>8, <2>1, <2>2
<1> QED
  BY <1>1, <1>2, <1>3, <1>4, <1>5, <1>6, <1>7, <1>9, <1>10, <1>11 DEF Next, Rank

LEMMA LinkStep ==
    ASSUME FarTypeOK, \A s \in HaloSocks : PumpOK(s), \A s \in Socks : ClosedOK(s),
           \A r \in Ranks : AccOK(r), \A s \in Socks : LinkOK(s), [Next]_vars, NEW q \in Socks
    PROVE  LinkOK(q)'
<1> DEFINE p == Peer(q)
<1>a. p \in Socks /\ p # q /\ Peer(p) = q /\ p[2] = q[3] /\ LinkOK(q) /\ LinkOK(p)
  BY SockEnds
<1>b. q[2] \in Ranks /\ Numbers(p) = Numbers(q)
  BY SockEnds, NumbersType
<1>1. CASE Kept(q)
  BY <1>1, <1>a, LinkKept DEF Kept
<1>2. ASSUME NEW n \in Numbers(q), PutOn(q, n)
      PROVE  LinkOK(q)'
  BY <1>2, <1>a, LinkPutStep DEF PutOn
<1>3. ASSUME NEW n \in Numbers(q), TakenOff(q, n)
      PROVE  LinkOK(q)'
  BY <1>3, <1>a, <1>b, LinkGetStep DEF TakenOff
<1>4. CASE ClosedBy(q)
  <2>1. Advance(q[2]) /\ at[q[2]] = CloseCall(q) /\ used'[q] = "freed"
        /\ Wire(q)' = RecvSide(p) \o inb[p]
    BY <1>4 DEF ClosedBy
  <2>2. Sent(q)' = Sent(q) /\ Got(p)' = Got(p)
    <3>1. at[q[2]].op = "close"
      BY <2>1 DEF CloseCall, Call
    <3> QED
      BY <1>a, <1>b, <2>1, <3>1, CountStep
  <2>3. Pending(q)' = Pending(q)
    BY <2>2 DEF Pending
  <2>4. Pending(q) \subseteq {Steps}
    BY <1>a, <2>1, CloseSafe
  <2>5. /\ RecvSide(p) \in Seq(Msgs) /\ inb[p] \in Seq(Msgs)
        /\ out[q] \in Seq(Msgs) /\ SendSide(q) \in Seq(Msgs)
    BY <1>a, WireType
  <2>6. RecvSide(p) \o inb[p] \in Seq(Msgs) /\ out[q] \o SendSide(q) \in Seq(Msgs)
    BY <2>5, ConcatType
  <2>7. Linked((RecvSide(p) \o inb[p]) \o (out[q] \o SendSide(q)), Pending(q), Values(q), Gap(q))
    BY <1>a DEF LinkOK, Wire
  <2>8. Linked(RecvSide(p) \o inb[p], Pending(q), Values(q), {Steps})
    BY <2>4, <2>6, <2>7, LinkCut
  <2>9. Gap(q)' = {Steps}
    BY <2>1 DEF Gap
  <2>10. Got(p)' \subseteq Sent(q)'
    BY <1>a, <2>2 DEF LinkOK
  <2> QED
    BY <2>1, <2>3, <2>8, <2>9, <2>10 DEF LinkOK, Linked
<1> QED
  BY <1>1, <1>2, <1>3, <1>4, WireStep DEF WireMove

-----------------------------------------------------------------------------
(* The theorems.                                                           *)

(* What a close throws away when only the marker is pending: markers.      *)
LEMMA LostStep ==
    ASSUME FarTypeOK, \A s \in HaloSocks : PumpOK(s), \A s \in Socks : LinkOK(s), OnlyMarkersLost,
           [Next]_vars
    PROVE  OnlyMarkersLost'
<1>1. ASSUME NEW r \in Ranks, Close(r)
      PROVE  OnlyMarkersLost'
  <2> DEFINE s == Sock(r)
             p == Peer(s)
             a == RecvSide(p) \o inb[p]
             b == out[s] \o SendSide(s)
  <2>1. /\ at[r].op = "close"
        /\ lost' = lost \cup {out[s][i] : i \in DOMAIN out[s]}
    BY <1>1 DEF Close, At
  <2>2. s \in Socks /\ s[2] = r /\ at[r] = CloseCall(s)
    BY <2>1, SockOfRank, CallOfSock DEF Sock
  <2>3. p \in Socks /\ LinkOK(p) /\ LinkOK(s) /\ (s \in HaloSocks => PumpOK(s))
    BY <2>2, SockEnds
  <2>4. Pending(s) \subseteq {Steps} /\ SendSide(s) = <<>>
    BY <2>2, <2>3, CloseSafe
  <2>5. RecvSide(p) \in Seq(Msgs) /\ inb[p] \in Seq(Msgs) /\ out[s] \in Seq(Msgs)
    BY <2>2, <2>3, WireType
  <2>6. a \in Seq(Msgs) /\ b = out[s]
    BY <2>4, <2>5, ConcatType, ConcatEmpty
  <2>7. Linked(a \o b, Pending(s), Values(s), Gap(s))
    BY <2>3 DEF LinkOK, Wire
  <2> HIDE DEF a, b
  <2>8. ASSUME NEW i \in DOMAIN out[s]
        PROVE  out[s][i] = Marker
    <3>1. i \in 1..Len(out[s]) /\ Len(out[s]) \in Nat /\ Len(a) \in Nat
      BY <2>5, <2>6, LenProperties
    <3>2. PICK j \in 1..(Len(a) + Len(out[s])) : j = Len(a) + i
      BY <3>1
    <3>3. Len(a \o b) = Len(a) + Len(out[s]) /\ (a \o b)[j] = out[s][j - Len(a)]
      BY <2>5, <2>6, <3>1, <3>2, ConcatType
    <3>4. j - Len(a) = i
      BY <3>1, <3>2
    <3>5. out[s][i].n \in Pending(s) /\ out[s][i] = Values(s)[out[s][i].n]
      BY <2>7, <3>2, <3>3, <3>4 DEF Linked
    <3>6. Values(s)[Steps] = Marker
      BY FarAssumption DEF Values, Value, Owner
    <3> QED
      BY <2>4, <3>5, <3>6
  <2> QED
    BY <2>1, <2>8 DEF OnlyMarkersLost
<1>2. ASSUME NEW r \in Ranks, Rank(r), ~Close(r)
      PROVE  lost' = lost
  BY <1>2 DEF Rank, Setup, Put, Get, Own, Send, Buffer, Recv, Quit, Ack, Join, sockVars
<1>3. ASSUME NEW s \in HaloSocks, SendPump(s)
      PROVE  lost' = lost
  BY <1>3 DEF SendPump, PumpTake, PumpQuit, DrainNothing, PumpSend, Buffer, Panic, PumpAck, sockVars
<1>4. ASSUME NEW s \in HaloSocks, RecvPump(s)
      PROVE  lost' = lost
  BY <1>4 DEF RecvPump, LookUp, InvalidHandle, Panic, PumpRecv, PumpPut, PumpClosed, sockVars
<1>5. ASSUME NEW s \in Socks, Transmit(s)
      PROVE  lost' = lost
  BY <1>5 DEF Transmit
<1>6. CASE lost' = lost
  BY <1>6 DEF OnlyMarkersLost
<1> QED
  BY <1>1, <1>2, <1>3, <1>4, <1>5, <1>6 DEF Next, vars, sockVars

LEMMA LinksEmpty ==
    ASSUME Init, NEW s \in Socks
    PROVE  Sent(s) = {} /\ Got(s) = {} /\ Wire(s) = <<>>
<1>1. s[2] \in Ranks /\ Peer(s) \in Socks /\ \A n \in Numbers(s) : n \in Nat
  BY SockEnds, NumbersType
<1>2. at[s[2]].n = 0 /\ at[s[2]].stage = 0
  <2>1. at[s[2]] = Alone("setup", s[2], 0, 0)
    BY <1>1 DEF Init
  <2> QED
    BY <2>1 DEF Alone, Call
<1>3. ASSUME NEW n \in Numbers(s)
      PROVE  ~Made(OutCall(s, n), s[2]) /\ ~Made(InCall(s, n), s[2])
  BY <1>1, <1>2 DEF Made, Before, OutCall, InCall, Call
<1>4. <<>> \o <<>> = <<>>
  BY ConcatEmpty, EmptySeq
<1>5. ASSUME NEW q \in Socks
      PROVE  RecvSide(q) = <<>> /\ SendSide(q) = <<>> /\ inb[q] = <<>> /\ out[q] = <<>>
  BY <1>4 DEF Init, RecvSide, SendSide, Hand
<1>6. Wire(s) = <<>>
  BY <1>1, <1>4, <1>5 DEF Wire
<1> QED
  BY <1>3, <1>6 DEF Sent, Got

LEMMA FarInit ==
    ASSUME Init
    PROVE  FarInv
<1>a. Steps \in Nat /\ Steps # 0
  BY FarAssumption
<1>b. ASSUME NEW r \in Ranks
      PROVE  at[r] = Alone("setup", r, 0, 0) /\ at[r] \in Script[r]
  BY DEF Init, Script
<1>c. ASSUME NEW r \in Ranks
      PROVE  at[r].n = 0 /\ at[r].stage = 0 /\ at[r].turn = 0
  <2>1. at[r] = Alone("setup", r, 0, 0)
    BY <1>b
  <2>2. /\ Alone("setup", r, 0, 0).n = 0 /\ Alone("setup", r, 0, 0).stage = 0
        /\ Alone("setup", r, 0, 0).turn = 0
    BY DEF Alone, Call
  <2> QED
    BY <2>1, <2>2
<1>d. ASSUME NEW r \in Ranks, NEW c, c.n \in Nat, c.stage \in Nat, c.stage # 0
      PROVE  ~Made(c, r)
  BY <1>d, <1>c DEF Made, Before
<1>1. FarTypeOK
  <2>1. at \in [Ranks -> UNION {Script[r] : r \in Ranks}]
    <3>1. at = [r \in Ranks |-> Alone("setup", r, 0, 0)]
      BY DEF Init
    <3>2. \A r \in Ranks : Alone("setup", r, 0, 0) \in UNION {Script[q] : q \in Ranks}
      BY DEF Script
    <3> QED
      BY <3>1, <3>2
  <2>2. <<>> \in Partials /\ <<>> \in Seq(Msgs)
    BY EmptySeq DEF Partials
  <2> QED
    BY <1>b, <2>1, <2>2, MarkerType DEF Init, FarTypeOK
<1>2. ASSUME NEW s \in HaloSocks
      PROVE  PumpOK(s)
  <2>1. s[2] \in Ranks
    BY HaloIsSock, SockEnds
  <2>2. ~Made(AckCall(s), s[2])
    BY <1>a, <1>d, <2>1 DEF AckCall, Call
  <2>3. /\ spc[s] = "unborn" /\ rpc[s] = "unborn" /\ ~quit[s] /\ ~sendDone[s] /\ send[s] = <<>>
    BY DEF Init
  <2> QED
    BY <2>2, <2>3 DEF PumpOK
<1>3. ASSUME NEW s \in Socks
      PROVE  ClosedOK(s)
  BY DEF Init, ClosedOK
<1>4. ASSUME NEW r \in Ranks
      PROVE  AccOK(r)
  BY <1>c DEF AccOK
<1>5. ASSUME NEW s \in Socks
      PROVE  LinkOK(s)
  <2>1. Peer(s) \in Socks
    BY SockEnds
  <2>2. Sent(s) = {} /\ Got(Peer(s)) = {} /\ Pending(s) = {}
    BY <2>1, LinksEmpty DEF Pending
  <2>3. Len(Wire(s)) = 0
    BY LinksEmpty, EmptySeq
  <2> QED
    BY <2>2, <2>3 DEF LinkOK, Linked
<1>6. OnlyMarkersLost
  BY DEF Init, OnlyMarkersLost
<1> QED
  BY <1>1, <1>2, <1>3, <1>4, <1>5, <1>6 DEF FarInv

(* The inductive invariant.                                                *)
THEOREM FarInvariance ==
    Spec => []FarInv
<1>1. Init => FarInv
  BY FarInit
<1>2. FarInv /\ [Next]_vars => FarInv'
  <2> SUFFICES ASSUME FarInv, [Next]_vars
               PROVE  FarInv'
    OBVIOUS
  <2>1. /\ FarTypeOK /\ (\A s \in HaloSocks : PumpOK(s)) /\ (\A s \in Socks : ClosedOK(s))
        /\ (\A r \in Ranks : AccOK(r)) /\ (\A s \in Socks : LinkOK(s)) /\ OnlyMarkersLost
    BY DEF FarInv
  <2>2. FarTypeOK'
    BY <2>1, TypeStep
  <2>3. \A s \in HaloSocks : PumpOK(s)'
    BY <2>1, PumpStep
  <2>4. \A s \in Socks : ClosedOK(s)'
    BY <2>1, ClosedStep
  <2>5. \A r \in Ranks : AccOK(r)'
    BY <2>1, AccStep
  <2>6. \A s \in Socks : LinkOK(s)'
    BY <2>1, LinkStep
  <2>7. OnlyMarkersLost'
    BY <2>1, LostStep
  <2> QED
    BY <2>2, <2>3, <2>4, <2>5, <2>6, <2>7 DEF FarInv
<1> QED
  BY <1>1, <1>2, PTL DEF Spec

(* Every value a rank reads is the one its place in the protocol means:    *)
(* its neighbour's cell of the same round, the collective of that round    *)
(* combined in the order of the ranks, the marker after the last round,    *)
(* for any number of ranks and rounds and however far they drift apart.    *)
THEOREM FarInStep ==
    Spec => []InStep
<1>1. FarInv => InStep
  <2> SUFFICES ASSUME FarInv, NEW r \in Ranks
               PROVE  /\ At(r, "get") /\ recv[Sock(r)] # <<>> => Head(recv[Sock(r)]) = Expected(r)
                      /\ At(r, "recv") /\ inb[Sock(r)] # <<>> => Head(inb[Sock(r)]) = Expected(r)
    BY DEF InStep
  <2> DEFINE s == Sock(r)
             p == Peer(s)
  <2>1. FarTypeOK /\ at[r] \in Script[r]
    BY DEF FarInv, FarTypeOK
  <2>2. ASSUME at[r].op \in {"get", "recv"}
        PROVE  /\ s \in Socks /\ s[2] = r /\ N(r) \in Numbers(s) /\ at[r] = InCall(s, N(r))
               /\ p \in Socks /\ p[2] = s[3] /\ (s \in HaloSocks <=> p \in HaloSocks) /\ LinkOK(p)
               /\ at[r].op = "get" <=> s \in HaloSocks
    BY <2>1, <2>2, CallOfSock, SockEnds DEF Sock, N, FarInv
  <2>3. ASSUME At(r, "get"), recv[s] # <<>>
        PROVE  Head(recv[s]) = Expected(r)
    <3>1. at[r].op = "get" /\ s \in HaloSocks
      BY <2>2, <2>3 DEF At
    <3>2. Wire(p) # <<>> /\ Head(Wire(p)) = Head(recv[s])
      BY <2>1, <2>2, <2>3, <3>1, FrontOfWire
    <3>3. Head(recv[s]) = Value(p, N(r))
      BY <2>1, <2>2, <3>1, <3>2, TakesItsRound
    <3> QED
      BY <3>3 DEF Expected
  <2>4. ASSUME At(r, "recv"), inb[s] # <<>>
        PROVE  Head(inb[s]) = Expected(r)
    <3>1. at[r].op = "recv" /\ s \in Socks /\ s \notin HaloSocks /\ ~At(r, "get")
      BY <2>2, <2>4 DEF At
    <3>2. Wire(p) # <<>> /\ Head(Wire(p)) = Head(inb[s])
      BY <2>1, <2>4, <3>1, FrontOfWire
    <3>3. Head(inb[s]) = Value(p, N(r))
      BY <2>1, <2>2, <3>1, <3>2, TakesItsRound
    <3> QED
      BY <3>3 DEF Expected
  <2> QED
    BY <2>3, <2>4
<1> QED
  BY <1>1, FarInvariance, PTL

(* A close loses markers only: the exchange of markers before any close    *)
(* has made sure that the peer has taken every cell, partial and result.   *)
THEOREM OnlyMarkersCanBeLost ==
    Spec => []OnlyMarkersLost
<1>1. FarInv => OnlyMarkersLost
  BY DEF FarInv
<1> QED
  BY <1>1, FarInvariance, PTL

(* A send-pump that is done has left nothing in its channel, and no socket *)
(* is closed under a send-pump.                                            *)
THEOREM PumpsDropFree ==
    Spec => []DropFree
<1>1. FarInv => DropFree
  <2> SUFFICES ASSUME FarInv, NEW s \in HaloSocks
               PROVE  /\ spc[s] \in {"ack", "gone"} => send[s] = <<>>
                      /\ used[s] = "freed" => spc[s] = "gone"
    BY DEF DropFree
  <2>1. FarTypeOK /\ PumpOK(s) /\ ClosedOK(s) /\ s \in Socks /\ s[2] \in Ranks /\ s[3] \in Int
    BY HaloIsSock, SockEnds DEF FarInv
  <2>2. ASSUME used[s] = "freed"
        PROVE  Made(AckCall(s), s[2])
    <3>1. Before(CloseCall(s), at[s[2]])
      BY <2>1, <2>2 DEF ClosedOK, Made
    <3>2. Placed(at[s[2]], s[2])
      BY <2>1, Places DEF FarTypeOK
    <3>3. at[s[2]].n \in Int /\ at[s[2]].stage \in Int /\ at[s[2]].turn \in Int /\ Steps \in Nat
      BY <3>2, FarAssumption DEF Placed
    <3> QED
      BY <2>1, <3>1, <3>3 DEF Made, Before, CloseCall, AckCall, Call
  <2> QED
    BY <2>1, <2>2 DEF PumpOK
<1> QED
  BY <1>1, FarInvariance, PTL

(* No link loses, repeats or reorders a value: what a rank has sent and    *)
(* its peer has not taken is on the wire between them, each value once and *)
(* in the order of the rounds; only the marker of a closed socket may be   *)
(* missing.                                                                *)
THEOREM WireHoldsPending ==
    Spec => [](\A s \in Socks : LinkOK(s))
<1>1. FarInv => \A s \in Socks : LinkOK(s)
  BY DEF FarInv
<1> QED
  BY <1>1, FarInvariance, PTL

-----------------------------------------------------------------------------
(* How far two ranks can be apart.                                         *)

(* A rank past round b has read the values of round b, and who sent those  *)
(* has read all of the rounds before.                                      *)
LEMMA ReadBefore ==
    ASSUME FarTypeOK, NEW s \in Socks, LinkOK(Peer(s)), NEW a \in Numbers(s), NEW b \in Numbers(s),
           a < b, b < at[s[2]].n
    PROVE  a \in Got(Peer(s))
<1> DEFINE p == Peer(s)
<1>1. /\ p \in Socks /\ Peer(p) = s /\ Numbers(p) = Numbers(s) /\ s[2] \in Ranks /\ p[2] \in Ranks
      /\ \A n \in Numbers(s) : n \in Int
  BY SockEnds, NumbersType
<1>2. at[s[2]].n \in Int /\ at[p[2]].n \in Int
  <2>1. Placed(at[s[2]], s[2]) /\ Placed(at[p[2]], p[2])
    BY <1>1, Places DEF FarTypeOK
  <2> QED
    BY <2>1 DEF Placed
<1>3. ASSUME NEW q \in Socks, NEW n \in Numbers(s)
      PROVE  InCall(q, n).n = n /\ OutCall(q, n).n = n
  BY DEF InCall, OutCall, Call
<1>4. b \in Got(s)
  BY <1>1, <1>2, <1>3 DEF Got, Made, Before
<1>5. b \in Sent(p)
  BY <1>1, <1>4 DEF LinkOK
<1>6. b <= at[p[2]].n
  BY <1>1, <1>2, <1>3, <1>5 DEF Sent, Made, Before
<1>7. Before(InCall(p, a), at[p[2]])
  BY <1>1, <1>2, <1>3, <1>6 DEF Before
<1> QED
  BY <1>1, <1>7 DEF Got, Made

(* So at most two values are under way, and at most one when another one   *)
(* is to be sent.                                                          *)
LEMMA UnderWay ==
    ASSUME FarTypeOK, NEW s \in Socks, LinkOK(s), LinkOK(Peer(s))
    PROVE  /\ Len(Wire(s)) \in Nat /\ Len(Wire(s)) <= 2
           /\ \A n \in Numbers(s) : at[s[2]] = OutCall(s, n) => Len(Wire(s)) <= 1
<1> DEFINE w == Wire(s)
<1>1. w \in Seq(Msgs) /\ Linked(w, Pending(s), Values(s), Gap(s)) /\ Pending(s) = Sent(s) \ Got(Peer(s))
  BY WireType DEF LinkOK, Pending
<1>2. /\ Len(w) \in Nat /\ Pending(s) \subseteq Numbers(s) /\ \A n \in Numbers(s) : n \in Int
  BY <1>1, PendingType, NumbersType
<1> HIDE DEF w
<1>3. \A i \in 1..Len(w) : w[i].n \in Pending(s) /\ w[i].n \in Sent(s) /\ w[i].n \notin Got(Peer(s))
                           /\ w[i].n \in Numbers(s)
  BY <1>1, <1>2 DEF Linked
<1>4. \A i, j \in 1..Len(w) : i < j => w[i].n < w[j].n
  BY <1>1 DEF Linked
<1>5. ASSUME Len(w) >= 3
      PROVE  FALSE
  <2>1. 1 \in 1..Len(w) /\ 2 \in 1..Len(w) /\ 3 \in 1..Len(w)
    BY <1>2, <1>5
  <2>2. w[1].n < w[2].n /\ w[2].n < w[3].n
    BY <1>4, <2>1
  <2>3. w[1].n \in Numbers(s) /\ w[2].n \in Numbers(s) /\ w[3].n \in Sent(s) /\ w[3].n \in Int
        /\ w[2].n \in Int /\ w[1].n \notin Got(Peer(s))
    BY <1>2, <1>3, <2>1
  <2>4. w[3].n <= at[s[2]].n /\ at[s[2]].n \in Int
    <3>1. Placed(at[s[2]], s[2])
      BY SockEnds, Places DEF FarTypeOK
    <3>2. at[s[2]].n \in Int /\ OutCall(s, w[3].n).n = w[3].n /\ Before(OutCall(s, w[3].n), at[s[2]])
      BY <2>3, <3>1 DEF Placed, Sent, Made, OutCall, Call
    <3> QED
      BY <2>3, <3>2 DEF Before
  <2>5. w[2].n < at[s[2]].n
    BY <2>2, <2>3, <2>4
  <2> QED
    BY <2>2, <2>3, <2>5, ReadBefore
<1>6. ASSUME NEW n \in Numbers(s), at[s[2]] = OutCall(s, n), Len(w) >= 2
      PROVE  FALSE
  <2>1. 1 \in 1..Len(w) /\ 2 \in 1..Len(w)
    BY <1>2, <1>6
  <2>2. w[1].n < w[2].n
    BY <1>4, <2>1
  <2>3. w[1].n \in Numbers(s) /\ w[2].n \in Numbers(s) /\ w[2].n \in Sent(s) /\ w[1].n \notin Got(Peer(s))
    BY <1>3, <2>1
  <2>4. at[s[2]].n = n /\ w[2].n < n
    <3>1. OutCall(s, n).n = n
      BY DEF OutCall, Call
    <3> QED
      BY <1>6, <2>3, <3>1, InOrder
  <2> QED
    BY <2>2, <2>3, <2>4, ReadBefore
<1> QED
  BY <1>2, <1>5, <1>6 DEF w

LEMMA WireLength ==
    ASSUME FarTypeOK, NEW s \in Socks
    PROVE  \E w, i, o, x \in Nat :
              /\ w = Len(Wire(s)) /\ i = Len(inb[Peer(s)]) /\ o = Len(out[s]) /\ x = Len(SendSide(s))
              /\ i + o <= w /\ o + x <= w
<1>1. Peer(s) \in Socks
  BY SockEnds
<1>2. /\ RecvSide(Peer(s)) \in Seq(Msgs) /\ inb[Peer(s)] \in Seq(Msgs)
      /\ out[s] \in Seq(Msgs) /\ SendSide(s) \in Seq(Msgs)
  BY <1>1, WireType
<1>3. PICK a \in Seq(Msgs) : a = RecvSide(Peer(s)) \o inb[Peer(s)]
  BY <1>2, ConcatType
<1>4. PICK b \in Seq(Msgs) : b = out[s] \o SendSide(s)
  BY <1>2, ConcatType
<1>5. PICK r, i, o, x \in Nat :
        r = Len(RecvSide(Peer(s))) /\ i = Len(inb[Peer(s)]) /\ o = Len(out[s]) /\ x = Len(SendSide(s))
  BY <1>2, LenProperties
<1>6. Len(a) = r + i /\ Len(b) = o + x /\ Len(a \o b) = Len(a) + Len(b)
  BY <1>2, <1>3, <1>4, <1>5, ConcatType
<1>7. Len(Wire(s)) = (r + i) + (o + x)
  BY <1>3, <1>4, <1>6 DEF Wire
<1>8. PICK w \in Nat : w = (r + i) + (o + x)
  OBVIOUS
<1>9. i + o <= w /\ o + x <= w
  BY <1>8
<1> QED
  BY <1>5, <1>7, <1>8, <1>9

(* "Sends never block on remote progress": with buffers of two values or   *)
(* more (the code has 128) no send of a lane or of a pump, and no delivery,*)
(* ever finds a buffer full, for any number of ranks and rounds.           *)
THEOREM FarSendsNeverBlock ==
    Spec => []SendsNeverBlock
<1>1. FarInv => SendsNeverBlock
  <2> SUFFICES ASSUME FarInv, Depth >= 2, NEW s \in Socks
               PROVE  /\ At(Owner(s), "send") /\ Sock(Owner(s)) = s => Len(out[s]) < Depth
                      /\ s \in HaloSocks /\ spc[s] \in {"send", "last"} => Len(out[s]) < Depth
                      /\ out[s] # <<>> => Len(inb[Peer(s)]) < Depth
    BY DEF SendsNeverBlock
  <2>1. FarTypeOK /\ LinkOK(s) /\ LinkOK(Peer(s)) /\ s[2] \in Ranks /\ Peer(s) \in Socks /\ Depth \in Nat
    BY SockEnds, FarAssumption DEF FarInv
  <2>2. /\ Len(Wire(s)) <= 2 /\ \A n \in Numbers(s) : at[s[2]] = OutCall(s, n) => Len(Wire(s)) <= 1
    BY <2>1, UnderWay
  <2>3. PICK w \in Nat, i \in Nat, o \in Nat, x \in Nat :
          /\ w = Len(Wire(s)) /\ i = Len(inb[Peer(s)]) /\ o = Len(out[s]) /\ x = Len(SendSide(s))
          /\ i + o <= w /\ o + x <= w
    BY <2>1, WireLength
  <2>a. i + o <= w /\ o + x <= w /\ Depth \in Nat /\ Depth >= 2
    BY <2>1, <2>3
  <2>4. ASSUME At(Owner(s), "send"), Sock(Owner(s)) = s
        PROVE  Len(out[s]) < Depth
    <3>1. at[s[2]].op = "send" /\ at[s[2]].s = s /\ at[s[2]] \in Script[s[2]]
      BY <2>1, <2>4 DEF At, Sock, Owner, FarTypeOK
    <3>2. at[s[2]].n \in Numbers(s) /\ at[s[2]] = OutCall(s, at[s[2]].n)
      BY <2>1, <3>1, CallOfSock
    <3>3. w <= 1
      BY <2>2, <2>3, <3>2
    <3>4. o < Depth
      BY <2>a, <3>3
    <3> QED
      BY <2>3, <3>4
  <2>5. ASSUME s \in HaloSocks, spc[s] \in {"send", "last"}
        PROVE  Len(out[s]) < Depth
    <3>1. sheld[s] \in Msgs /\ send[s] \in Seq(Msgs)
      BY <2>1, <2>5 DEF FarTypeOK
    <3>a. <<sheld[s]>> \in Seq(Msgs) /\ Len(<<sheld[s]>>) = 1
      BY <3>1
    <3>2. PICK h \in Seq(Msgs) : h = <<sheld[s]>> /\ Len(h) = 1
      BY <3>a
    <3>3. SendSide(s) = h \o send[s]
      BY <2>5, <3>2 DEF SendSide, Hand
    <3>4. Len(SendSide(s)) = 1 + Len(send[s]) /\ Len(send[s]) \in Nat
      BY <3>1, <3>2, <3>3, ConcatType, LenProperties
    <3>5. x >= 1 /\ w <= 2
      BY <2>2, <2>3, <3>4
    <3>6. o < Depth
      BY <2>a, <3>5
    <3> QED
      BY <2>3, <3>6
  <2>6. ASSUME out[s] # <<>>
        PROVE  Len(inb[Peer(s)]) < Depth
    <3>1. Len(out[s]) # 0
      BY <2>1, <2>6, WireType, EmptySeq
    <3>2. o >= 1 /\ w <= 2
      BY <2>2, <2>3, <3>1
    <3>3. i < Depth
      BY <2>a, <3>2
    <3> QED
      BY <2>3, <3>3
  <2> QED
    BY <2>4, <2>5, <2>6
<1> QED
  BY <1>1, FarInvariance, PTL

(* Neighbours are never more than one round apart, whatever the buffers    *)
(* could hold: who is in round n + 1 has the other's cell of round n.      *)
THEOREM NeighboursOneRoundApart ==
    Spec => [](\A s \in HaloSocks : at[s[2]].n <= at[s[3]].n + 1)
<1>1. FarInv => \A s \in HaloSocks : at[s[2]].n <= at[s[3]].n + 1
  <2> SUFFICES ASSUME FarInv, NEW s \in HaloSocks, ~(at[s[2]].n <= at[s[3]].n + 1)
               PROVE  FALSE
    OBVIOUS
  <2> DEFINE p == Peer(s)
  <2>1. /\ FarTypeOK /\ s \in Socks /\ p \in Socks /\ Peer(p) = s /\ p \in HaloSocks /\ p[2] = s[3]
        /\ s[2] \in Ranks /\ s[3] \in Ranks /\ LinkOK(p)
    BY HaloIsSock, SockEnds DEF FarInv
  <2>2. at[s[2]].n \in 0..Steps /\ at[s[3]].n \in 0..Steps /\ Steps \in Nat
    <3>1. Placed(at[s[2]], s[2]) /\ Placed(at[s[3]], s[3])
      BY <2>1, Places DEF FarTypeOK
    <3> QED
      BY <3>1, FarAssumption DEF Placed
  <2>3. PICK n \in 0..Steps : n = at[s[3]].n + 1 /\ n < at[s[2]].n
    BY <2>2
  <2>4. n \in Numbers(s) /\ InCall(s, n).n = n /\ OutCall(p, n).n = n
    BY DEF Numbers, InCall, OutCall, Call
  <2>5. n \in Got(s)
    BY <2>2, <2>3, <2>4 DEF Got, Made, Before
  <2>6. n \in Sent(p)
    BY <2>1, <2>5 DEF LinkOK
  <2>7. Before(OutCall(p, n), at[s[3]])
    BY <2>1, <2>6 DEF Sent, Made
  <2> QED
    BY <2>2, <2>3, <2>4, <2>7 DEF Before
<1> QED
  BY <1>1, FarInvariance, PTL

(* A process dies of nothing but a receive-pump that looks a closed handle *)
(* up: no send-pump ever meets one.                                        *)
THEOREM OnlyLookUpsPanic ==
    Spec => [][panicked' = panicked \/ \E s \in HaloSocks : InvalidHandle(s)]_vars
<1>1. DropFree /\ [Next]_vars => [panicked' = panicked \/ \E s \in HaloSocks : InvalidHandle(s)]_vars
  <2> SUFFICES ASSUME DropFree, Next
               PROVE  panicked' = panicked \/ \E s \in HaloSocks : InvalidHandle(s)
    OBVIOUS
  <2>1. ASSUME NEW r \in Ranks, Rank(r)
        PROVE  panicked' = panicked
    BY <2>1 DEF Rank, Setup, Put, Get, Own, Send, Recv, Quit, Ack, Close, Join
  <2>2. ASSUME NEW s \in HaloSocks, SendPump(s)
        PROVE  panicked' = panicked
    <3>1. CASE PumpSend(s)
      BY <3>1 DEF PumpSend, DropFree
    <3>2. CASE ~PumpSend(s)
      BY <2>2, <3>2 DEF SendPump, PumpTake, PumpQuit, DrainNothing, PumpAck
    <3> QED
      BY <3>1, <3>2
  <2>3. ASSUME NEW s \in HaloSocks, RecvPump(s), ~InvalidHandle(s)
        PROVE  panicked' = panicked
    BY <2>3 DEF RecvPump, LookUp, PumpRecv, PumpPut, PumpClosed
  <2>4. ASSUME NEW s \in Socks, Transmit(s)
        PROVE  panicked' = panicked
    BY <2>4 DEF Transmit
  <2> QED
    BY <2>1, <2>2, <2>3, <2>4 DEF Next
<1> QED
  BY <1>1, PumpsDropFree, PTL DEF Spec

-----------------------------------------------------------------------------
(* The links implement FarLinks.                                           *)

LEMMA RoundsOfCalls ==
    ASSUME NEW s \in Socks, NEW d
    PROVE  /\ {c.n : c \in {c \in Script[s[2]] : c.op \in {"put", "send"} /\ c.s = s /\ Before(c, d)}}
                = {n \in Numbers(s) : Before(OutCall(s, n), d)}
           /\ {c.n : c \in {c \in Script[s[2]] : c.op \in {"get", "recv"} /\ c.s = s /\ Before(c, d)}}
                = {n \in Numbers(s) : Before(InCall(s, n), d)}
<1>1. s[2] \in Ranks
  BY SockEnds
<1>2. ASSUME NEW n \in Numbers(s)
      PROVE  /\ OutCall(s, n) \in Script[s[2]] /\ InCall(s, n) \in Script[s[2]]
             /\ OutCall(s, n).op \in {"put", "send"} /\ OutCall(s, n).s = s /\ OutCall(s, n).n = n
             /\ InCall(s, n).op \in {"get", "recv"} /\ InCall(s, n).s = s /\ InCall(s, n).n = n
  <2>1. OutCall(s, n) \in Script[s[2]] /\ InCall(s, n) \in Script[s[2]]
    BY InScript
  <2> QED
    BY <2>1 DEF OutCall, InCall, Call
<1>3. ASSUME NEW c \in Script[s[2]], c.s = s
      PROVE  /\ c.op \in {"put", "send"} => c.n \in Numbers(s) /\ c = OutCall(s, c.n)
             /\ c.op \in {"get", "recv"} => c.n \in Numbers(s) /\ c = InCall(s, c.n)
  BY <1>1, <1>3, CallOfSock
<1> QED
  BY <1>2, <1>3

LEMMA RoundsAre ==
    /\ RoundsSent = [s \in Socks |-> Sent(s)] /\ RoundsSent' = [s \in Socks |-> Sent(s)']
    /\ RoundsTaken = [s \in Socks |-> Got(Peer(s))] /\ RoundsTaken' = [s \in Socks |-> Got(Peer(s))']
<1>1. ASSUME NEW s \in Socks
      PROVE  /\ Rounds(s, {"put", "send"}) = Sent(s) /\ Rounds(s, {"put", "send"})' = Sent(s)'
             /\ Rounds(s, {"get", "recv"}) = Got(s) /\ Rounds(s, {"get", "recv"})' = Got(s)'
  BY RoundsOfCalls DEF Rounds, Sent, Got, Made, Owner
<1>2. \A s \in Socks : Peer(s) \in Socks
  BY SockEnds
<1> QED
  BY <1>1, <1>2 DEF RoundsSent, RoundsTaken

(* A step moves one link at most: the one the call of the rank is on.      *)
MovedBy(s, r) ==
    /\ Advance(r)
    /\ \/ at[r].op \in {"put", "send", "close"} /\ at[r].s = s
       \/ at[r].op \in {"get", "recv"} /\ at[r].s = Peer(s)

LEMMA OneMover ==
    ASSUME FarTypeOK, NEW r \in Ranks, NEW q \in Ranks, Advance(r), Advance(q)
    PROVE  r = q
<1>1. Before(at[q], at'[q]) /\ at[q] \in Script[q]
  BY Advanced DEF FarTypeOK
<1>2. q # r => at'[q] = at[q]
  BY AtType
<1>3. ~Before(at[q], at[q])
  <2>1. at[q].n \in Int /\ at[q].stage \in Int /\ at[q].turn \in Int
    BY <1>1, Places DEF Placed
  <2> QED
    BY <2>1 DEF Before
<1> QED
  BY <1>1, <1>2, <1>3

LEMMA OneMoved ==
    ASSUME FarTypeOK, NEW s \in Socks, NEW q \in Socks, NEW r \in Ranks, NEW t \in Ranks,
           MovedBy(s, r), MovedBy(q, t)
    PROVE  s = q
<1>1. r = t
  BY OneMover DEF MovedBy
<1>2. Peer(Peer(s)) = s /\ Peer(Peer(q)) = q
  BY SockEnds
<1> QED
  BY <1>1, <1>2 DEF MovedBy

LEMMA MoverOf ==
    ASSUME NEW s \in Socks
    PROVE  /\ ClosedBy(s) => \E r \in Ranks : MovedBy(s, r)
           /\ \A n \in Numbers(s) : PutOn(s, n) \/ TakenOff(s, n) => \E r \in Ranks : MovedBy(s, r)
<1>1. s[2] \in Ranks /\ s[3] \in Ranks
  BY SockEnds
<1>2. CloseCall(s).op = "close" /\ CloseCall(s).s = s
  BY DEF CloseCall, Call
<1>3. ASSUME NEW n \in Numbers(s)
      PROVE  /\ OutCall(s, n).op \in {"put", "send"} /\ OutCall(s, n).s = s
             /\ InCall(Peer(s), n).op \in {"get", "recv"} /\ InCall(Peer(s), n).s = Peer(s)
  BY DEF OutCall, InCall, Call
<1> QED
  BY <1>1, <1>2, <1>3 DEF ClosedBy, PutOn, TakenOff, MovedBy

LEMMA OthersKept ==
    ASSUME FarTypeOK, \A q \in Socks : WireMove(q), NEW s \in Socks, NEW r \in Ranks, MovedBy(s, r)
    PROVE  \A q \in Socks : q # s => Kept(q)
<1> SUFFICES ASSUME NEW q \in Socks, q # s, ~Kept(q)
             PROVE  FALSE
  OBVIOUS
<1>1. \E t \in Ranks : MovedBy(q, t)
  BY MoverOf DEF WireMove
<1> QED
  BY <1>1, OneMoved

(* What is the same on all links but one, as functions on the links.       *)
LEMMA KeptElsewhere ==
    ASSUME NEW s \in Socks, \A q \in Socks : q # s => Kept(q)
    PROVE  /\ RoundsSent' = [RoundsSent EXCEPT ![s] = Sent(s)']
           /\ RoundsTaken' = [RoundsTaken EXCEPT ![s] = Got(Peer(s))']
           /\ Wires' = [Wires EXCEPT ![s] = Wire(s)']
           /\ \A q \in Socks : q # s => (used'[q] = "freed" <=> used[q] = "freed")
<1>1. ASSUME NEW q \in Socks, q # s
      PROVE  /\ Sent(q)' = Sent(q) /\ Got(Peer(q))' = Got(Peer(q)) /\ Wire(q)' = Wire(q)
             /\ used'[q] = "freed" <=> used[q] = "freed"
  BY <1>1 DEF Kept, Gap
<1>2. /\ RoundsSent = [q \in Socks |-> Sent(q)] /\ RoundsSent' = [q \in Socks |-> Sent(q)']
      /\ RoundsTaken = [q \in Socks |-> Got(Peer(q))] /\ RoundsTaken' = [q \in Socks |-> Got(Peer(q))']
  BY RoundsAre
<1>3. Wires = [q \in Socks |-> Wire(q)] /\ Wires' = [q \in Socks |-> Wire(q)']
  BY DEF Wires
<1>4. RoundsSent' = [RoundsSent EXCEPT ![s] = Sent(s)']
  BY <1>1, <1>2
<1>5. RoundsTaken' = [RoundsTaken EXCEPT ![s] = Got(Peer(s))']
  BY <1>1, <1>2
<1>6. Wires' = [Wires EXCEPT ![s] = Wire(s)']
  BY <1>1, <1>3
<1> QED
  BY <1>1, <1>4, <1>5, <1>6

LEMMA ClosedSame ==
    ASSUME \A q \in Socks : used'[q] = "freed" <=> used[q] = "freed"
    PROVE  Closed' = Closed
<1>1. \A q \in Socks : (used'[q] = "freed") = (used[q] = "freed")
  OBVIOUS
<1> QED
  BY <1>1, Zenon DEF Closed

LEMMA AbstractPut ==
    ASSUME FarInv, NEW s \in Socks, NEW n \in Numbers(s), PutOn(s, n),
           \A q \in Socks : q # s => Kept(q)
    PROVE  Abstract!Put(s, n)
<1>1. /\ FarTypeOK /\ LinkOK(s) /\ LinkOK(Peer(s)) /\ ClosedOK(s) /\ s[2] \in Ranks
      /\ Peer(s) \in Socks /\ Peer(s) # s
  BY SockEnds DEF FarInv
<1>2. /\ Advance(s[2]) /\ at[s[2]] = OutCall(s, n) /\ Gap(s)' = Gap(s)
      /\ Wire(s)' = Append(Wire(s), Value(s, n))
  BY DEF PutOn
<1>3. at[s[2]].op \in {"put", "send"} /\ at[s[2]].s = s /\ at[s[2]].n = n
  BY <1>2 DEF OutCall, Call
<1>4. Sent(s)' = Sent(s) \cup {n} /\ Got(Peer(s))' = Got(Peer(s))
  BY <1>1, <1>2, <1>3, CountStep
<1>5. \A m \in Sent(s) : m < n
  BY <1>1, <1>2, InOrder
<1>6. Len(Wire(s)) < 2
  BY <1>1, <1>2, UnderWay
<1>7. used[s] # "freed"
  <2>1. ~Before(CloseCall(s), OutCall(s, n))
    BY NumbersType, SockEnds, FarAssumption DEF Before, CloseCall, OutCall, Call
  <2> QED
    BY <1>1, <1>2, <2>1 DEF ClosedOK, Made
<1>8. /\ RoundsSent' = [RoundsSent EXCEPT ![s] = Sent(s)']
      /\ RoundsTaken' = [RoundsTaken EXCEPT ![s] = Got(Peer(s))']
      /\ Wires' = [Wires EXCEPT ![s] = Wire(s)']
      /\ \A q \in Socks : q # s => (used'[q] = "freed" <=> used[q] = "freed")
  BY KeptElsewhere
<1>9. used'[s] = "freed" <=> used[s] = "freed"
  BY <1>2 DEF Gap
<1>10. Closed' = Closed
  BY <1>8, <1>9, ClosedSame
<1>11. RoundsSent[s] = Sent(s) /\ Wires[s] = Wire(s)
  BY RoundsAre DEF Wires
<1>12. RoundsTaken' = RoundsTaken
  <2>1. RoundsTaken = [q \in Socks |-> Got(Peer(q))]
    BY RoundsAre
  <2> QED
    BY <1>4, <1>8, <2>1
<1>13. ~Closed[s]
  BY <1>7 DEF Closed
<1>14. [q \in Socks |-> [k \in Numbers(q) |-> Value(q, k)]][s][n] = Value(s, n)
       /\ DOMAIN [q \in Socks |-> [k \in Numbers(q) |-> Value(q, k)]][s] = Numbers(s)
  OBVIOUS
<1> QED
  BY <1>2, <1>4, <1>5, <1>6, <1>8, <1>10, <1>11, <1>12, <1>13, <1>14
  DEF Abstract!Put, Abstract!NextRound

LEMMA AbstractTake ==
    ASSUME FarInv, NEW s \in Socks, NEW n \in Numbers(s), TakenOff(s, n),
           \A q \in Socks : q # s => Kept(q)
    PROVE  Abstract!Take(s, n)
<1> DEFINE p == Peer(s)
<1>1. /\ FarTypeOK /\ LinkOK(s) /\ s[3] \in Ranks /\ p \in Socks /\ p # s /\ Peer(p) = s /\ p[2] = s[3]
      /\ Numbers(p) = Numbers(s)
  BY SockEnds, NumbersType DEF FarInv
<1>2. /\ Advance(s[3]) /\ at[s[3]] = InCall(p, n) /\ Gap(s)' = Gap(s)
      /\ Wire(s) # <<>> /\ Wire(s)' = Tail(Wire(s))
  BY DEF TakenOff
<1>3. at[s[3]].op \in {"get", "recv"} /\ at[s[3]].s = p /\ at[s[3]].n = n
  BY <1>2 DEF InCall, Call
<1>4. Sent(s)' = Sent(s) /\ Got(p)' = Got(p) \cup {n}
  BY <1>1, <1>2, <1>3, CountStep
<1>5. \A m \in Got(p) : m < n
  BY <1>1, <1>2, InOrder, PendingType
<1>6. Head(Wire(s)) = Value(s, n)
  BY <1>1, <1>2, TakesItsRound
<1>7. /\ RoundsSent' = [RoundsSent EXCEPT ![s] = Sent(s)']
      /\ RoundsTaken' = [RoundsTaken EXCEPT ![s] = Got(p)']
      /\ Wires' = [Wires EXCEPT ![s] = Wire(s)']
      /\ \A q \in Socks : q # s => (used'[q] = "freed" <=> used[q] = "freed")
  BY KeptElsewhere
<1>8. used'[s] = "freed" <=> used[s] = "freed"
  BY <1>2 DEF Gap
<1>9. Closed' = Closed
  BY <1>7, <1>8, ClosedSame
<1>10. RoundsTaken[s] = Got(p) /\ Wires[s] = Wire(s)
  BY RoundsAre DEF Wires
<1>11. RoundsSent' = RoundsSent
  <2>1. RoundsSent = [q \in Socks |-> Sent(q)]
    BY RoundsAre
  <2> QED
    BY <1>4, <1>7, <2>1
<1>12. [q \in Socks |-> [k \in Numbers(q) |-> Value(q, k)]][s][n] = Value(s, n)
       /\ DOMAIN [q \in Socks |-> [k \in Numbers(q) |-> Value(q, k)]][s] = Numbers(s)
  OBVIOUS
<1> QED
  BY <1>2, <1>4, <1>5, <1>6, <1>7, <1>9, <1>10, <1>11, <1>12
  DEF Abstract!Take, Abstract!NextRound

LEMMA NoneOrOne ==
    ASSUME NEW i \in Nat, NEW j \in Nat, i + j <= 1
    PROVE  /\ i # 0 => j = 0
           /\ i # 1 /\ j = 0 => i = 0
OBVIOUS

LEMMA AbstractClose ==
    ASSUME FarInv, NEW s \in Socks, ClosedBy(s), \A q \in Socks : q # s => Kept(q)
    PROVE  Abstract!Close(s)
<1> DEFINE p == Peer(s)
           a == RecvSide(p) \o inb[p]
           b == out[s] \o SendSide(s)
<1>1. /\ FarTypeOK /\ LinkOK(s) /\ LinkOK(p) /\ ClosedOK(s) /\ s[2] \in Ranks
      /\ p \in Socks /\ p # s /\ (s \in HaloSocks => PumpOK(s))
  BY SockEnds DEF FarInv
<1>2. /\ Advance(s[2]) /\ at[s[2]] = CloseCall(s) /\ used'[s] = "freed" /\ Wire(s)' = a
  BY DEF ClosedBy
<1>3. at[s[2]].op = "close"
  BY <1>2 DEF CloseCall, Call
<1>4. Sent(s)' = Sent(s) /\ Got(p)' = Got(p)
  BY <1>1, <1>2, <1>3, CountStep
<1>5. used[s] # "freed"
  <2>1. ~Before(CloseCall(s), CloseCall(s))
    BY SockEnds, FarAssumption DEF Before, CloseCall, Call
  <2> QED
    BY <1>1, <1>2, <2>1 DEF ClosedOK, Made
<1>6. Pending(s) \subseteq {Steps}
  BY <1>1, <1>2, CloseSafe
<1>7. Wire(s) = a \o b /\ a \in Seq(Msgs) /\ b \in Seq(Msgs) /\ Wire(s) \in Seq(Msgs)
  BY <1>1, WireType, ConcatType DEF Wire
<1> HIDE DEF a, b
<1>8. Wire(s) = <<>> \/ Wire(s) = <<Value(s, Steps)>>
  <2>1. PICK w \in Seq(Msgs) : w = Wire(s)
    BY <1>7
  <2>2. Linked(w, Pending(s), Values(s), Gap(s)) /\ Values(s)[Steps] = Value(s, Steps)
    BY <1>1, <2>1, FarAssumption DEF LinkOK, Values
  <2>3. \A i \in 1..Len(w) : w[i].n = Steps /\ w[i] = Value(s, Steps)
    BY <1>6, <2>2 DEF Linked
  <2>4. Len(w) \in Nat /\ Len(w) <= 1
    <3>1. Len(w) \in Nat
      OBVIOUS
    <3>2. ASSUME Len(w) >= 2
          PROVE  FALSE
      <4>1. 1 \in 1..Len(w) /\ 2 \in 1..Len(w)
        BY <3>1, <3>2
      <4>2. w[1].n < w[2].n
        BY <2>2, <4>1 DEF Linked
      <4> QED
        BY <2>3, <4>1, <4>2, FarAssumption
    <3> QED
      BY <3>1, <3>2
  <2>a. Len(w) = 0 \/ Len(w) = 1
    <3>1. Len(w) + 0 <= 1 /\ 0 \in Nat
      BY <2>4
    <3> QED
      BY <2>4, <3>1, NoneOrOne
  <2>5. CASE Len(w) = 0
    BY <2>1, <2>5, EmptySeq
  <2>6. CASE Len(w) = 1
    <3>1. w[1] = Value(s, Steps) /\ w[1] \in Msgs
      BY <2>3, <2>6
    <3>2. <<w[1]>> \in Seq(Msgs) /\ Len(<<w[1]>>) = 1 /\ <<w[1]>>[1] = w[1]
      BY <3>1
    <3>3. w = <<w[1]>>
      BY <2>6, <3>2, Elementwise
    <3> QED
      BY <2>1, <3>1, <3>3
  <2> QED
    BY <2>a, <2>5, <2>6
<1>9. Wire(s)' = Wire(s) \/ (Wire(s) = <<Value(s, Steps)>> /\ Wire(s)' = <<>>)
  <2>1. CASE a = <<>>
    BY <1>2, <1>8, <2>1
  <2>2. CASE a # <<>>
    <3>1. Len(a) \in Nat /\ Len(b) \in Nat /\ Len(a) # 0 /\ Len(a \o b) = Len(a) + Len(b)
      BY <1>7, <2>2, ConcatType, EmptySeq, LenProperties
    <3>2. Len(Wire(s)) <= 1
      BY <1>8
    <3>3. Len(b) = 0
      <4>1. Len(a) + Len(b) <= 1
        BY <1>7, <3>1, <3>2
      <4> QED
        BY <3>1, <4>1, NoneOrOne
    <3>4. b = <<>>
      BY <1>7, <3>3, EmptySeq
    <3> QED
      BY <1>2, <1>7, <3>4, ConcatEmpty
  <2> QED
    BY <2>1, <2>2
<1>10. /\ RoundsSent' = [RoundsSent EXCEPT ![s] = Sent(s)']
       /\ RoundsTaken' = [RoundsTaken EXCEPT ![s] = Got(p)']
       /\ Wires' = [Wires EXCEPT ![s] = Wire(s)']
       /\ \A q \in Socks : q # s => (used'[q] = "freed" <=> used[q] = "freed")
  BY KeptElsewhere
<1>11. RoundsSent' = RoundsSent /\ RoundsTaken' = RoundsTaken
  <2>1. RoundsSent = [q \in Socks |-> Sent(q)] /\ RoundsTaken = [q \in Socks |-> Got(Peer(q))]
    BY RoundsAre
  <2> QED
    BY <1>4, <1>10, <2>1
<1>12. ~Closed[s] /\ Closed' = [Closed EXCEPT ![s] = TRUE]
  <2>1. Closed = [q \in Socks |-> used[q] = "freed"] /\ Closed' = [q \in Socks |-> used'[q] = "freed"]
    BY DEF Closed
  <2>2. \A q \in Socks : (used'[q] = "freed") = (IF q = s THEN TRUE ELSE used[q] = "freed")
    BY <1>2, <1>10
  <2> QED
    BY <1>5, <2>1, <2>2
<1>13. Wires[s] = Wire(s) /\ Wires = [q \in Socks |-> Wire(q)]
  BY DEF Wires
<1>14. [q \in Socks |-> [k \in Numbers(q) |-> Value(q, k)]][s][Steps] = Value(s, Steps)
  BY NumbersType
<1> QED
  BY <1>9, <1>10, <1>11, <1>12, <1>13, <1>14 DEF Abstract!Close

(* Pumps, channels, buffers and teardown taken together, the links between *)
(* the ranks implement FarLinks: every value once, in the order of the     *)
(* rounds, to the call of its round, never more than two under way and     *)
(* none lost but the marker of a closed socket.                            *)
THEOREM FarImplementsLinks ==
    Spec => ImplementsLinks
<1>1. Init => Abstract!Init
  <2> SUFFICES ASSUME Init
               PROVE  Abstract!Init
    OBVIOUS
  <2>1. \A s \in Socks : Sent(s) = {} /\ Got(Peer(s)) = {} /\ Wire(s) = <<>> /\ used[s] = "no"
    BY LinksEmpty, SockEnds DEF Init
  <2>2. RoundsSent = [s \in Socks |-> {}] /\ RoundsTaken = [s \in Socks |-> {}]
    BY <2>1, RoundsAre
  <2>3. Wires = [s \in Socks |-> <<>>] /\ Closed = [s \in Socks |-> FALSE]
    BY <2>1 DEF Wires, Closed
  <2> QED
    BY <2>2, <2>3 DEF Abstract!Init
<1>2. FarInv /\ [Next]_vars => [Abstract!Next]_<<RoundsSent, RoundsTaken, Wires, Closed>>
  <2> SUFFICES ASSUME FarInv, [Next]_vars
               PROVE  [Abstract!Next]_<<RoundsSent, RoundsTaken, Wires, Closed>>
    OBVIOUS
  <2>1. FarTypeOK /\ \A q \in Socks : WireMove(q)
    BY WireStep DEF FarInv
  <2>2. \A s \in Socks : DOMAIN [q \in Socks |-> [k \in Numbers(q) |-> Value(q, k)]][s] = Numbers(s)
    OBVIOUS
  <2>3. ASSUME NEW s \in Socks, ClosedBy(s)
        PROVE  Abstract!Next
    <3>1. \A q \in Socks : q # s => Kept(q)
      BY <2>1, <2>3, MoverOf, OthersKept
    <3>2. Abstract!Close(s)
      BY <2>3, <3>1, AbstractClose
    <3> QED
      BY <3>2 DEF Abstract!Next
  <2>4. ASSUME NEW s \in Socks, NEW n \in Numbers(s), PutOn(s, n) \/ TakenOff(s, n)
        PROVE  Abstract!Next
    <3>1. \A q \in Socks : q # s => Kept(q)
      BY <2>1, <2>4, MoverOf, OthersKept
    <3>2. Abstract!Put(s, n) \/ Abstract!Take(s, n)
      BY <2>4, <3>1, AbstractPut, AbstractTake
    <3> QED
      BY <2>2, <3>2 DEF Abstract!Next
  <2>5. CASE \A q \in Socks : Kept(q)
    <3>1. /\ \A q \in Socks : Sent(q)' = Sent(q) /\ Got(Peer(q))' = Got(Peer(q)) /\ Wire(q)' = Wire(q)
          /\ \A q \in Socks : used'[q] = "freed" <=> used[q] = "freed"
      BY <2>5 DEF Kept, Gap
    <3>2. RoundsSent' = RoundsSent /\ RoundsTaken' = RoundsTaken
      BY <3>1, RoundsAre
    <3>3. Wires' = Wires /\ Closed' = Closed
      BY <3>1, ClosedSame DEF Wires
    <3> QED
      BY <3>2, <3>3
  <2> QED
    BY <2>1, <2>3, <2>4, <2>5 DEF WireMove
<1> QED
  BY <1>1, <1>2, FarInvariance, PTL DEF Spec, ImplementsLinks, Abstract!Spec
=============================================================================
