---------------------------- MODULE MCScheduler ----------------------------
(* Instances of Scheduler. *)
EXTENDS Scheduler, TLC

CONSTANTS w1, w2, g1, g2, g3, m

Go(g) == <<"go", g>>
Yield == <<"yield">>
Send  == <<"send">>
Recv  == <<"recv">>
Wait  == <<"wait">>
Shut  == <<"shutdown">>

\* main starts two goroutines; g1 may start a third; they yield and exchange
\* a value; main waits and shuts down, receives, or just returns.
ForkPrograms ==
    {(m :> mp @@ g1 :> p1 @@ g2 :> p2 @@ g3 :> p3) :
        mp \in {<<Go(g1), Go(g2), Wait, Shut>>, <<Go(g1), Go(g2), Recv>>, <<Go(g1), Yield, Recv>>,
                <<Wait, Go(g1), Shut>>, <<Recv>>},
        p1 \in {<<Go(g3)>>, <<Yield, Yield>>, <<Recv, Send>>},
        p2 \in {<<Yield, Send>>, <<Recv>>, <<Send, Yield>>},
        p3 \in {<<Yield>>, <<Send>>}}

\* Programs whose receives are matched by sends, two goroutines on two workers.
MatchedPrograms ==
    {(m :> mp @@ g1 :> p1 @@ g2 :> p2 @@ g3 :> <<>>) :
        mp \in {<<Go(g1), Go(g2), Wait>>, <<Go(g2), Go(g1), Wait>>},
        p1 \in {<<Yield, Recv>>, <<Recv, Yield>>, <<Recv>>},
        p2 \in {<<Yield, Send>>, <<Send, Yield>>, <<Yield, Yield, Send>>}}

AllPrograms == ForkPrograms \cup MatchedPrograms
=============================================================================
