------------------------------- MODULE RunFar -------------------------------
(***************************************************************************)
(* lanes.RunFar (src/goostd/lanes/lanes.go): World processes, the ranks,    *)
(* each with a span of the array, run in lockstep over the far transport    *)
(* (src/src/runtime/far_transport.c).  Neighbouring ranks share a halo      *)
(* link, and rank 0 shares a collective link with every other.  On a halo   *)
(* link two pump goroutines carry values between channels of capacity one   *)
(* and the socket; a collective link is used directly.                      *)
(*                                                                          *)
(* A rank has one lane here (Lanes has the lanes of one process), which is  *)
(* its left and right edge at once; the lane and RunFar around it never     *)
(* run at the same time, so a rank is one thread that follows a script,     *)
(* its calls and the order they are made in.  Every goroutine has a         *)
(* worker.  A socket is <<kind, owner, peer>>.                              *)
(*                                                                          *)
(* An operator marked as a mutant is a wrong version of the definition      *)
(* after it; no action uses one.                                            *)
(***************************************************************************)
EXTENDS Integers, Sequences

CONSTANTS
    World,      \* number of ranks
    Steps,      \* rounds: the steps argument, or 1 when that is 0 (see Lanes)
    Reducing,   \* the rounds in which the body calls AllReduce
    Depth       \* FAR_BUF_DEPTH, of the send and of the receive buffer (128)

ASSUME FarAssumption ==
    /\ World \in Nat \ {0} /\ Steps \in Nat \ {0} /\ Depth \in Nat \ {0}
    /\ Reducing \subseteq 0..(Steps - 1)

Ranks == 0..(World - 1)

Halo(r, q) == <<"halo", r, q>>
Coll(r, q) == <<"coll", r, q>>
Owner(s) == s[2]
Peer(s) == <<s[1], s[3], s[2]>>

HaloSocks == {s \in {"halo"} \X Ranks \X Ranks : s[3] = s[2] - 1 \/ s[3] = s[2] + 1}
CollSocks == {s \in {"coll"} \X Ranks \X Ranks : s[2] # s[3] /\ (s[2] = 0 \/ s[3] = 0)}
Socks == HaloSocks \cup CollSocks

(* A value on its way: what it is, its round, and for the result of a       *)
(* collective the ranks' partials in the order they were combined in.       *)
Msg(m, n, acc) == [m |-> m, n |-> n, acc |-> acc]
Marker == Msg("marker", Steps, <<>>)

-----------------------------------------------------------------------------
(* The calls of a rank.  n is the round a call belongs to, Steps in         *)
(* teardown; a round is a sequence of stages, loops or statements of the    *)
(* code, and the calls of one stage are made in the order of their turns.   *)

Call(op, s, n, stage, turn) == [op |-> op, s |-> s, n |-> n, stage |-> stage, turn |-> turn]

(* The order the calls are made in.                                         *)
Before(c, d) ==
    \/ c.n < d.n
    \/ c.n = d.n /\ c.stage < d.stage
    \/ c.n = d.n /\ c.stage = d.stage /\ c.turn < d.turn

Halos(r) == {s \in HaloSocks : Owner(s) = r}
Colls(r) == {s \in CollSocks : Owner(s) = r}

(* A call for each socket, those of the lower ranks first (a left           *)
(* neighbour's before a right one's), or those of the higher ranks.         *)
Ascending(op, socks, n, stage) == {Call(op, s, n, stage, s[3]) : s \in socks}
Descending(op, socks, n, stage) == {Call(op, s, n, stage, -s[3]) : s \in socks}

(* A call on no socket.                                                     *)
Alone(op, r, n, stage) == Call(op, Coll(r, r), n, stage, 0)

(* allReduce between ranks: rank 0 gathers, then answers.                   *)
Collective(r, n) ==
    IF n \notin Reducing THEN {}
    ELSE {Alone("own", r, n, 3)}
         \cup Ascending("recv", Colls(r), n, IF r = 0 THEN 4 ELSE 5)
         \cup Ascending("send", Colls(r), n, IF r = 0 THEN 5 ELSE 4)

\* Mutant: a body that publishes and reads nothing.
Round_Unread(r, n) == Descending("put", Halos(r), n, 1) \cup Collective(r, n)

(* Publish, HaloLeft, HaloRight, the body's AllReduce.                      *)
Round(r, n) ==
    Descending("put", Halos(r), n, 1) \cup Ascending("get", Halos(r), n, 2) \cup Collective(r, n)

Markers(r, stage) ==
    Ascending("put", Halos(r), Steps, stage) \cup Ascending("send", Colls(r), Steps, stage + 1)

\* Mutant: the marker of a peer is not waited for.
Awaited_None(r, stage) == {}

Awaited(r, stage) ==
    Ascending("get", Halos(r), Steps, stage) \cup Ascending("recv", Colls(r), Steps, stage + 1)

\* Mutant: each rank waits for the others' markers before it sends its own.
Exchange_RecvFirst(r) == Awaited(r, 1) \cup Markers(r, 3)

Exchange(r) == Markers(r, 1) \cup Awaited(r, 3)

(* The left send-pump has answered before the right one is told to stop.    *)
QuitPump(s) ==
    {Call("quit", s, Steps, 5, 2 * s[3]), Call("ack", s, Steps, 5, 2 * s[3] + 1)}

Teardown(r) ==
    Exchange(r)
    \cup (UNION {QuitPump(s) : s \in Halos(r)})
    \cup Ascending("close", Halos(r), Steps, 6) \cup Ascending("join", Halos(r), Steps, 7)
    \cup Ascending("close", Colls(r), Steps, 8)

(* All calls of each rank; at "end" RunFar has returned.                    *)
Script ==
    [r \in Ranks |->
        {Alone("setup", r, 0, 0)} \cup (UNION {Round(r, n) : n \in 0..(Steps - 1)})
        \cup Teardown(r) \cup {Alone("end", r, Steps, 9)}]

-----------------------------------------------------------------------------
VARIABLES
    at,                 \* rank -> the call of its script it is at
    acc,                \* rank -> the partials combined in the current collective
    used,               \* socket -> far_used of its handle: "no", "yes", "freed"
    out, inb,           \* socket -> its send and its receive buffer
    send, recv,         \* halo socket -> the channels between lane and pumps
    quit, sendDone,     \* halo socket -> the channels that stop its send-pump
    pumpDone,           \* rank -> receive-pumps that have ended and are not joined
    spc, sheld,         \* halo socket -> its send-pump and the value it carries
    rpc, rheld,         \* halo socket -> its receive-pump and the value it carries
    panicked,           \* the ranks whose process is gone
    lost                \* what closing a socket has thrown away

rankVars == <<at, acc>>
sockVars == <<used, out, inb, lost>>
chanVars == <<send, recv, quit, sendDone, pumpDone>>
pumpVars == <<spc, sheld, rpc, rheld>>
vars == <<rankVars, sockVars, chanVars, pumpVars, panicked>>

Init ==
    /\ at = [r \in Ranks |-> Alone("setup", r, 0, 0)] /\ acc = [r \in Ranks |-> <<>>]
    /\ used = [s \in Socks |-> "no"]
    /\ out = [s \in Socks |-> <<>>] /\ inb = [s \in Socks |-> <<>>]
    /\ send = [s \in HaloSocks |-> <<>>] /\ recv = [s \in HaloSocks |-> <<>>]
    /\ quit = [s \in HaloSocks |-> FALSE] /\ sendDone = [s \in HaloSocks |-> FALSE]
    /\ pumpDone = [r \in Ranks |-> 0]
    /\ spc = [s \in HaloSocks |-> "unborn"] /\ sheld = [s \in HaloSocks |-> Marker]
    /\ rpc = [s \in HaloSocks |-> "unborn"] /\ rheld = [s \in HaloSocks |-> Marker]
    /\ panicked = {} /\ lost = {}

Finished(r) == at[r].op = "end"

At(r, op) == r \notin panicked /\ at[r].op = op
Sock(r) == at[r].s
N(r) == at[r].n

(* On to the next call: none of the script is between the two.              *)
Advance(r) ==
    \E c \in Script[r] :
        /\ Before(at[r], c)
        /\ \A d \in Script[r] : ~(Before(at[r], d) /\ Before(d, c))
        /\ at' = [at EXCEPT ![r] = c]

-----------------------------------------------------------------------------
(* far_transport.c and NNG                                                  *)

Connected(s) ==
    /\ used[s] = "yes" /\ used[Peer(s)] = "yes"
    /\ {Owner(s), Owner(Peer(s))} \cap panicked = {}

Transmit(s) ==
    /\ Connected(s) /\ out[s] # <<>> /\ Len(inb[Peer(s)]) < Depth
    /\ out' = [out EXCEPT ![s] = Tail(@)]
    /\ inb' = [inb EXCEPT ![Peer(s)] = Append(@, Head(out[s]))]
    /\ UNCHANGED <<rankVars, used, lost, chanVars, pumpVars, panicked>>

(* nng_far_send_f64 on an open socket returns once the value is buffered.   *)
Buffer(s, v) ==
    /\ used[s] = "yes" /\ Len(out[s]) < Depth
    /\ out' = [out EXCEPT ![s] = Append(@, v)]
    /\ UNCHANGED <<used, inb, lost>>

(* nng_far_close: nng_close drops what is still buffered, then the handle   *)
(* is given back.  They are one step: between the two only the receive-pump *)
(* can touch the socket (the send-pump has ended), by a LookUp, which has   *)
(* the same outcome just before this step, or by a receive that finds the   *)
(* socket closed, which has the same outcome just after it.                 *)
Close(r) ==
    /\ At(r, "close")
    /\ used' = [used EXCEPT ![Sock(r)] = "freed"]
    /\ lost' = lost \cup {out[Sock(r)][i] : i \in DOMAIN out[Sock(r)]}
    /\ out' = [out EXCEPT ![Sock(r)] = <<>>] /\ inb' = [inb EXCEPT ![Sock(r)] = <<>>]
    /\ Advance(r)
    /\ UNCHANGED <<acc, chanVars, pumpVars, panicked>>

(* goo_panic aborts the process of the rank.                                *)
Panic(r) ==
    /\ panicked' = panicked \cup {r}
    /\ UNCHANGED <<rankVars, sockVars, chanVars, pumpVars>>

-----------------------------------------------------------------------------
(* The lane and RunFar                                                      *)

(* far_open_common for each socket, listening or dialling until there is a  *)
(* peer, and the pumps.  What a rank sends before its peer is there waits   *)
(* in the buffer.                                                           *)
Setup(r) ==
    /\ At(r, "setup")
    /\ used' = [s \in Socks |-> IF Owner(s) = r THEN "yes" ELSE used[s]]
    /\ spc' = [s \in HaloSocks |-> IF Owner(s) = r THEN "select" ELSE spc[s]]
    /\ rpc' = [s \in HaloSocks |-> IF Owner(s) = r THEN "handle" ELSE rpc[s]]
    /\ Advance(r)
    /\ UNCHANGED <<acc, out, inb, lost, chanVars, sheld, rheld, panicked>>

Put(r) ==
    /\ At(r, "put") /\ send[Sock(r)] = <<>>
    /\ send' = [send EXCEPT ![Sock(r)] =
                   <<IF N(r) = Steps THEN Marker ELSE Msg("halo", N(r), <<>>)>>]
    /\ Advance(r)
    /\ UNCHANGED <<acc, sockVars, recv, quit, sendDone, pumpDone, pumpVars, panicked>>

Get(r) ==
    /\ At(r, "get") /\ recv[Sock(r)] # <<>>
    /\ recv' = [recv EXCEPT ![Sock(r)] = Tail(@)]
    /\ Advance(r)
    /\ UNCHANGED <<acc, sockVars, send, quit, sendDone, pumpDone, pumpVars, panicked>>

(* Lane 0's own partial, which it takes from its own channel.               *)
Own(r) ==
    /\ At(r, "own")
    /\ acc' = [acc EXCEPT ![r] = <<<<r, N(r)>>>>]
    /\ Advance(r)
    /\ UNCHANGED <<sockVars, chanVars, pumpVars, panicked>>

(* A partial to rank 0, the result from it, or a marker.                    *)
Send(r) ==
    /\ At(r, "send")
    /\ Buffer(Sock(r), IF N(r) = Steps THEN Marker
                       ELSE Msg(IF r = 0 THEN "result" ELSE "partial", N(r), acc[r]))
    /\ Advance(r)
    /\ UNCHANGED <<acc, chanVars, pumpVars, panicked>>

\* Mutant: partials are combined last first.
Combined_Reversed(r, v) == IF r = 0 THEN v.acc \o acc[r] ELSE v.acc

(* Rank 0 adds a partial to the others, another rank takes over the result. *)
Combined(r, v) == IF r = 0 THEN acc[r] \o v.acc ELSE v.acc

(* farRecvMust                                                              *)
Recv(r) ==
    /\ At(r, "recv") /\ used[Sock(r)] = "yes" /\ inb[Sock(r)] # <<>>
    /\ acc' = [acc EXCEPT ![r] = Combined(r, Head(inb[Sock(r)]))]
    /\ inb' = [inb EXCEPT ![Sock(r)] = Tail(@)]
    /\ Advance(r)
    /\ UNCHANGED <<used, out, lost, chanVars, pumpVars, panicked>>

Quit(r) ==
    /\ At(r, "quit")
    /\ quit' = [quit EXCEPT ![Sock(r)] = TRUE]
    /\ Advance(r)
    /\ UNCHANGED <<acc, sockVars, send, recv, sendDone, pumpDone, pumpVars, panicked>>

Ack(r) ==
    /\ At(r, "ack") /\ sendDone[Sock(r)]
    /\ sendDone' = [sendDone EXCEPT ![Sock(r)] = FALSE]
    /\ Advance(r)
    /\ UNCHANGED <<acc, sockVars, send, recv, quit, pumpDone, pumpVars, panicked>>

Join(r) ==
    /\ At(r, "join") /\ pumpDone[r] > 0
    /\ pumpDone' = [pumpDone EXCEPT ![r] = @ - 1]
    /\ Advance(r)
    /\ UNCHANGED <<acc, sockVars, send, recv, quit, sendDone, pumpVars, panicked>>

-----------------------------------------------------------------------------
(* The send-pump: a select between its channel and quit.  goo_select may    *)
(* pass over a ready case whose channel is locked (channels.c:522), so      *)
(* either ready case may win.                                               *)

Runs(s) == Owner(s) \notin panicked

PumpTake(s) ==
    /\ Runs(s) /\ spc[s] \in {"select", "drain"} /\ send[s] # <<>>
    /\ sheld' = [sheld EXCEPT ![s] = Head(send[s])]
    /\ send' = [send EXCEPT ![s] = Tail(@)]
    /\ spc' = [spc EXCEPT ![s] = IF @ = "select" THEN "send" ELSE "last"]
    /\ UNCHANGED <<rankVars, sockVars, recv, quit, sendDone, pumpDone, rpc, rheld, panicked>>

\* Mutant: no drain.
AfterQuit_Ack == "ack"

AfterQuit == "drain"

PumpQuit(s) ==
    /\ Runs(s) /\ spc[s] = "select" /\ quit[s]
    /\ quit' = [quit EXCEPT ![s] = FALSE]
    /\ spc' = [spc EXCEPT ![s] = AfterQuit]
    /\ UNCHANGED <<rankVars, sockVars, send, recv, sendDone, pumpDone, sheld, rpc, rheld, panicked>>

(* The default case: nothing is there, or the lane is in goo_chan_send on   *)
(* this channel and holds its mutex.                                        *)
DrainNothing(s) ==
    /\ Runs(s) /\ spc[s] = "drain"
    /\ send[s] = <<>> \/ (At(Owner(s), "put") /\ Sock(Owner(s)) = s)
    /\ spc' = [spc EXCEPT ![s] = "ack"]
    /\ UNCHANGED <<rankVars, sockVars, chanVars, sheld, rpc, rheld, panicked>>

(* On a freed handle or a closed socket the send panics.                    *)
PumpSend(s) ==
    /\ Runs(s) /\ spc[s] \in {"send", "last"}
    /\ IF used[s] = "freed" THEN Panic(Owner(s))
       ELSE /\ Buffer(s, sheld[s])
            /\ spc' = [spc EXCEPT ![s] = IF @ = "send" THEN "select" ELSE "ack"]
            /\ UNCHANGED <<rankVars, chanVars, sheld, rpc, rheld, panicked>>

PumpAck(s) ==
    /\ Runs(s) /\ spc[s] = "ack"
    /\ sendDone' = [sendDone EXCEPT ![s] = TRUE]
    /\ spc' = [spc EXCEPT ![s] = "gone"]
    /\ UNCHANGED <<rankVars, sockVars, send, recv, quit, pumpDone, sheld, rpc, rheld, panicked>>

(* The receive-pump: far_sock looks the handle up, nng_recv waits.          *)

LookUp(s) ==
    /\ Runs(s) /\ rpc[s] = "handle" /\ used[s] = "yes"
    /\ rpc' = [rpc EXCEPT ![s] = "recv"]
    /\ UNCHANGED <<rankVars, sockVars, chanVars, spc, sheld, rheld, panicked>>

InvalidHandle(s) ==
    /\ Runs(s) /\ rpc[s] = "handle" /\ used[s] = "freed"
    /\ Panic(Owner(s))

PumpRecv(s) ==
    /\ Runs(s) /\ rpc[s] = "recv" /\ used[s] = "yes" /\ inb[s] # <<>>
    /\ rheld' = [rheld EXCEPT ![s] = Head(inb[s])]
    /\ inb' = [inb EXCEPT ![s] = Tail(@)]
    /\ rpc' = [rpc EXCEPT ![s] = "put"]
    /\ UNCHANGED <<rankVars, used, out, lost, chanVars, spc, sheld, panicked>>

\* Mutant: the pump does not wait for the lane to take the last value.
PumpPut_Overwrites(s) ==
    /\ Runs(s) /\ rpc[s] = "put"
    /\ recv' = [recv EXCEPT ![s] = <<rheld[s]>>]
    /\ rpc' = [rpc EXCEPT ![s] = "handle"]
    /\ UNCHANGED <<rankVars, sockVars, send, quit, sendDone, pumpDone, spc, sheld, rheld, panicked>>

PumpPut(s) ==
    /\ Runs(s) /\ rpc[s] = "put" /\ recv[s] = <<>>
    /\ recv' = [recv EXCEPT ![s] = <<rheld[s]>>]
    /\ rpc' = [rpc EXCEPT ![s] = "handle"]
    /\ UNCHANGED <<rankVars, sockVars, send, quit, sendDone, pumpDone, spc, sheld, rheld, panicked>>

(* "far: closed": the pump ends.                                            *)
PumpClosed(s) ==
    /\ Runs(s) /\ rpc[s] = "recv" /\ used[s] = "freed"
    /\ pumpDone' = [pumpDone EXCEPT ![Owner(s)] = @ + 1]
    /\ rpc' = [rpc EXCEPT ![s] = "gone"]
    /\ UNCHANGED <<rankVars, sockVars, send, recv, quit, sendDone, spc, sheld, rheld, panicked>>

-----------------------------------------------------------------------------
Rank(r) ==
    \/ Setup(r) \/ Put(r) \/ Get(r) \/ Own(r) \/ Send(r) \/ Recv(r)
    \/ Quit(r) \/ Ack(r) \/ Close(r) \/ Join(r)

SendPump(s) ==
    PumpTake(s) \/ PumpQuit(s) \/ DrainNothing(s) \/ PumpSend(s) \/ PumpAck(s)

RecvPump(s) == LookUp(s) \/ InvalidHandle(s) \/ PumpRecv(s) \/ PumpPut(s) \/ PumpClosed(s)

Next ==
    \/ \E r \in Ranks : Rank(r)
    \/ \E s \in HaloSocks : SendPump(s) \/ RecvPump(s)
    \/ \E s \in Socks : Transmit(s)

Spec == Init /\ [][Next]_vars

(* Every goroutine is on a running thread, and NNG delivers between         *)
(* sockets that stay open.                                                  *)
FairSpec ==
    /\ Spec
    /\ \A r \in Ranks : WF_vars(Rank(r))
    /\ \A s \in HaloSocks : WF_vars(SendPump(s)) /\ WF_vars(RecvPump(s))
    /\ \A s \in Socks : WF_vars(Transmit(s))

-----------------------------------------------------------------------------
(* Properties                                                               *)

(* All partials of a round, in the order of the ranks.                      *)
InRankOrder(n) == [k \in 1..World |-> <<k - 1, n>>]

(* The rounds in which a link carries a value from s to its peer, Steps     *)
(* for the marker, and these values.                                        *)
Numbers(s) == IF s \in HaloSocks THEN 0..Steps ELSE Reducing \cup {Steps}

Value(s, n) ==
    IF n = Steps THEN Marker
    ELSE IF s \in HaloSocks THEN Msg("halo", n, <<>>)
    ELSE IF Owner(s) = 0 THEN Msg("result", n, InRankOrder(n))
    ELSE Msg("partial", n, <<<<Owner(s), n>>>>)

Expected(r) == Value(Peer(Sock(r)), N(r))

(* What a rank is about to read is what this place of the protocol means    *)
(* it to be: its neighbour's cell of this very round, the result combined   *)
(* in rank order ("bit-identity", lanes.go:376-385), and after the last     *)
(* round the marker, however far ahead or behind the other ranks are.       *)
InStep ==
    \A r \in Ranks :
        /\ At(r, "get") /\ recv[Sock(r)] # <<>> => Head(recv[Sock(r)]) = Expected(r)
        /\ At(r, "recv") /\ inb[Sock(r)] # <<>> => Head(inb[Sock(r)]) = Expected(r)

(* A socket is closed while its last send may still be buffered, and what   *)
(* is buffered then is lost (lanes.go:690-745).  The exchange of markers    *)
(* before any close leaves only a marker to lose, never a cell, a partial   *)
(* or a result.                                                             *)
OnlyMarkersLost == \A v \in lost : v = Marker

(* "Drop-freedom" (lanes.go:832-851): a send-pump that has said it is done  *)
(* leaves nothing in its channel, whichever case its select took first and  *)
(* though one poll of a locked channel finds nothing; and no socket is      *)
(* closed under a send-pump.                                                *)
DropFree ==
    \A s \in HaloSocks :
        /\ spc[s] \in {"ack", "gone"} => send[s] = <<>>
        /\ used[s] = "freed" => spc[s] = "gone"

(* What is under way from s to its peer, the oldest first: in the channel   *)
(* of the peer's lane, in the hand of its receive-pump, in the two buffers, *)
(* in the hand of the send-pump and in its channel.                         *)
Hand(full, v) == IF full THEN <<v>> ELSE <<>>

SendSide(s) ==
    IF s \in HaloSocks THEN Hand(spc[s] \in {"send", "last"}, sheld[s]) \o send[s] ELSE <<>>
RecvSide(s) ==
    IF s \in HaloSocks THEN recv[s] \o Hand(rpc[s] = "put", rheld[s]) ELSE <<>>

Wire(s) == (RecvSide(Peer(s)) \o inb[Peer(s)]) \o (out[s] \o SendSide(s))

(* "Sends never block on remote progress" (far_transport.c:21-26, and the   *)
(* deadlock-freedom of lanes.go:682-684 rests on it): a buffer of two       *)
(* values is never full when the lane or a pump sends, or NNG delivers.     *)
SendsNeverBlock ==
    Depth >= 2 =>
        \A s \in Socks :
            /\ At(Owner(s), "send") /\ Sock(Owner(s)) = s => Len(out[s]) < Depth
            /\ s \in HaloSocks /\ spc[s] \in {"send", "last"} => Len(out[s]) < Depth
            /\ out[s] # <<>> => Len(inb[Peer(s)]) < Depth

(* The rounds of the calls ops that were made on a socket.                  *)
Rounds(s, ops) ==
    {c.n : c \in {c \in Script[Owner(s)] : c.op \in ops /\ c.s = s /\ Before(c, at[Owner(s)])}}

(* A link as its users see it, named after the socket that sends on it.     *)
RoundsSent == [s \in Socks |-> Rounds(s, {"put", "send"})]
RoundsTaken == [s \in Socks |-> Rounds(Peer(s), {"get", "recv"})]
Wires == [s \in Socks |-> Wire(s)]
Closed == [s \in Socks |-> used[s] = "freed"]

Abstract == INSTANCE FarLinks WITH
    Links <- Socks, Final <- Steps, Bound <- 2,
    Carried <- [s \in Socks |-> [n \in Numbers(s) |-> Value(s, n)]],
    sent <- RoundsSent, taken <- RoundsTaken, wire <- Wires, closed <- Closed

(* Pumps, channels and buffers taken together, a link hands every value on  *)
(* once, in the order of the rounds, to the call of the same round, with    *)
(* at most two under way; closing it can lose nothing but the marker        *)
(* (lanes.go:706-726).                                                      *)
ImplementsLinks == Abstract!Spec

(* "handles are closed only at teardown, after every caller that might      *)
(* still be using them has stopped", but for threads already blocked in     *)
(* nng_recv (far_transport.c:58-63): far_sock never meets a freed handle.   *)
HandlesValid == panicked = {}

(* What each part of the system waits for.                                  *)
RankWaits(r) ==
    \/ Finished(r)
    \/ at[r].op = "put" /\ send[Sock(r)] # <<>>
    \/ at[r].op = "get" /\ recv[Sock(r)] = <<>>
    \/ at[r].op = "send" /\ (used[Sock(r)] # "yes" \/ Len(out[Sock(r)]) >= Depth)
    \/ at[r].op = "recv" /\ (used[Sock(r)] # "yes" \/ inb[Sock(r)] = <<>>)
    \/ at[r].op = "ack" /\ ~sendDone[Sock(r)]
    \/ at[r].op = "join" /\ pumpDone[r] = 0

SendPumpWaits(s) ==
    \/ spc[s] \in {"unborn", "gone"}
    \/ spc[s] = "select" /\ send[s] = <<>> /\ ~quit[s]
    \/ spc[s] \in {"send", "last"} /\ used[s] # "freed" /\ (used[s] = "no" \/ Len(out[s]) >= Depth)

RecvPumpWaits(s) ==
    \/ rpc[s] \in {"unborn", "gone"}
    \/ rpc[s] = "handle" /\ used[s] = "no"
    \/ rpc[s] = "recv" /\ used[s] # "freed" /\ (used[s] = "no" \/ inb[s] = <<>>)
    \/ rpc[s] = "put" /\ recv[s] # <<>>

TransportWaits(s) == ~Connected(s) \/ out[s] = <<>> \/ Len(inb[Peer(s)]) >= Depth

Stuck ==
    /\ \A r \in Ranks : RankWaits(r)
    /\ \A s \in HaloSocks : SendPumpWaits(s) /\ RecvPumpWaits(s)
    /\ \A s \in Socks : TransportWaits(s)

(* "The wait graph has no cycle, for any world size" (lanes.go:739-743):    *)
(* ranks, pumps and sockets never all wait for each other before every rank *)
(* has returned, unless a marker was lost or a process died.                *)
NeverStuck ==
    lost = {} /\ panicked = {} /\ Stuck => \A r \in Ranks : Finished(r)

(* RunFar returns in every rank, unless a marker was lost or a process      *)
(* died.  No rank's wait is behind another's (lanes.go:739-743).            *)
RunFarReturns == <>((\A r \in Ranks : Finished(r)) \/ lost # {} \/ panicked # {})
=============================================================================
