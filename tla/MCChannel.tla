----------------------------- MODULE MCChannel -----------------------------
(***************************************************************************)
(* Instances of Channel.  A run explores every program in the set that its *)
(* configuration gives to Programs, under every interleaving.              *)
(***************************************************************************)
EXTENDS Channel

CONSTANTS g1, g2, g3, m

\* Sequences of at most n operations drawn from ops.
UpTo(n, ops) == UNION {[1..k -> ops] : k \in 0..n}

OpNumber == [send |-> 1, recv |-> 2, close |-> 3, trysend |-> 4, tryrecv |-> 5, nil |-> 6,
             selsend |-> 7, selrecv |-> 8]

\* A number for a program of at most two operations.
Rank(p) ==
    LET digit(i) == IF i <= Len(p) THEN OpNumber[p[i]] ELSE 0
    IN  10 * digit(1) + digit(2)

\* Each goroutine runs one of gs, and main one of ms.  Goroutines are
\* interchangeable: of the programs that differ only in which of them does
\* what, one is kept.
Assign(gs, ms) ==
    {[t \in Threads |-> IF t = Main THEN mp ELSE gp[t]] :
        gp \in {f \in [Goroutines -> gs] :
                  /\ Rank(f[g2]) <= Rank(f[g1])
                  /\ g3 \in Goroutines => Rank(f[g3]) <= Rank(f[g2])},
        mp \in ms}

\* Senders, receivers and a closer, with polls of both kinds among them.
RingClients ==
    Assign({<<"send", "send">>, <<"recv", "recv">>, <<"recv">>, <<"close">>,
            <<"trysend", "selsend">>, <<"tryrecv", "selrecv">>, <<"nil">>},
           {<<"recv">>, <<"send", "close">>, <<"wait">>})

SlotClients ==
    Assign({<<"send", "send">>, <<"recv", "recv">>, <<"recv">>, <<"close">>,
            <<"trysend", "send">>, <<"tryrecv", "selrecv">>},
           {<<"recv">>, <<"send", "recv">>, <<"wait">>})

\* How many operations op there are in p.
Count(p, op) == Cardinality({<<t, i>> \in Threads \X (1..3) : i <= Len(p[t]) /\ p[t][i] = op})

\* As many receives as sends, no thread doing both: nothing need be left waiting.
BalancedClients ==
    {p \in Assign(UpTo(2, {"send"}) \cup UpTo(2, {"recv"}),
                  {<<"recv">>, <<"send">>, <<"recv", "recv">>, <<"wait">>}) :
        Count(p, "send") = Count(p, "recv")}

\* As many receives as sends, some of them in a select without a default.
SelectingClients ==
    {p \in Assign({<<"send", "send">>, <<"recv", "recv">>, <<"selsend", "send">>,
                  <<"selrecv", "selrecv">>},
                 {<<"selrecv", "recv">>, <<"selsend", "selsend">>}) :
        Count(p, "send") + Count(p, "selsend") = Count(p, "recv") + Count(p, "selrecv")}

\* main waits for goroutines that may do anything, deadlock included.
WaitedClients ==
    {p \in Assign(UpTo(2, {"send", "recv", "close"}) \cup {<<"nil">>}, {<<"wait">>}) :
        g3 \in Goroutines => p[g3] = <<>>}

EndingClients == BalancedClients \cup WaitedClients

AllRingClients == RingClients \cup SelectingClients \cup EndingClients
AllSlotClients == SlotClients \cup BalancedClients

\* No wakeup of goo_chan_send or goo_chan_recv is lost, and no select without a
\* default polls in vain for ever: main and the goroutines of a balanced program
\* all get through it.
Completes == prog \in BalancedClients \cup SelectingClients => <>(outcome = "exit")

\* With main in goo_scheduler_wait every program comes to an end: it finishes,
\* panics, or is reported as deadlocked, once pthread_cond_wait has returned
\* without a signal for the last time.
Ends == prog \in EndingClients /\ <>Rested => <>(outcome # "running")
=============================================================================
