------------------------------ MODULE ChanSpec ------------------------------
(***************************************************************************)
(* What a channel promises its users: a FIFO queue of bounded length that  *)
(* takes no value once it is closed and still hands out the values it      *)
(* holds.                                                                  *)
(***************************************************************************)
EXTENDS Integers, Sequences

CONSTANT Bound

VARIABLES queue, closed

Init == queue = <<>> /\ closed = FALSE

\* One value, whatever it is, joins at the end.
Put ==
    /\ ~closed /\ Len(queue) < Bound
    /\ Len(queue') = Len(queue) + 1
    /\ SubSeq(queue', 1, Len(queue)) = queue
    /\ UNCHANGED closed

Take ==
    /\ queue # <<>>
    /\ queue' = Tail(queue)
    /\ UNCHANGED closed

Close ==
    /\ ~closed
    /\ closed' = TRUE
    /\ UNCHANGED queue

Next == Put \/ Take \/ Close

Spec == Init /\ [][Next]_<<queue, closed>>
=============================================================================
