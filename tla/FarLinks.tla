------------------------------ MODULE FarLinks ------------------------------
(***************************************************************************)
(* What the links between the ranks promise lanes.RunFar: each carries the *)
(* values of its rounds, every one once and in their order; no more than   *)
(* Bound of them are under way at a time, and nothing is sent on a closed  *)
(* link, whose closing may lose the last value and no other.               *)
(***************************************************************************)
EXTENDS Integers, Sequences

CONSTANTS
    Links,
    Carried,    \* link -> round -> the value it carries in this round
    Final,      \* the last round of every link
    Bound

VARIABLES
    sent,       \* link -> the rounds whose values were sent
    taken,      \* link -> the rounds whose values were taken
    wire,       \* link -> the values under way
    closed      \* link -> its sender has closed it

Init ==
    /\ sent = [l \in Links |-> {}] /\ taken = [l \in Links |-> {}]
    /\ wire = [l \in Links |-> <<>>] /\ closed = [l \in Links |-> FALSE]

(* n is a round of the link after all those of done.                       *)
NextRound(l, n, done) == n \in DOMAIN Carried[l] /\ \A m \in done : m < n

Put(l, n) ==
    /\ ~closed[l] /\ Len(wire[l]) < Bound
    /\ NextRound(l, n, sent[l])
    /\ sent' = [sent EXCEPT ![l] = @ \cup {n}]
    /\ wire' = [wire EXCEPT ![l] = Append(@, Carried[l][n])]
    /\ UNCHANGED <<taken, closed>>

Take(l, n) ==
    /\ wire[l] # <<>> /\ Head(wire[l]) = Carried[l][n]
    /\ NextRound(l, n, taken[l])
    /\ taken' = [taken EXCEPT ![l] = @ \cup {n}]
    /\ wire' = [wire EXCEPT ![l] = Tail(@)]
    /\ UNCHANGED <<sent, closed>>

(* The last value may be lost if it is all that is not taken.              *)
Close(l) ==
    /\ ~closed[l]
    /\ closed' = [closed EXCEPT ![l] = TRUE]
    /\ \/ UNCHANGED wire
       \/ wire[l] = <<Carried[l][Final]>> /\ wire' = [wire EXCEPT ![l] = <<>>]
    /\ UNCHANGED <<sent, taken>>

Next == \E l \in Links : Close(l) \/ \E n \in DOMAIN Carried[l] : Put(l, n) \/ Take(l, n)

Spec == Init /\ [][Next]_<<sent, taken, wire, closed>>
=============================================================================
