------------------------------- MODULE MCSync -------------------------------
(* Instances of Sync. *)
EXTENDS Sync

CONSTANTS t1, t2, t3

Locking == <<"lock", "unlock">>

\* Threads that lock once or twice, and threads that unlock what is not theirs.
MutexPrograms ==
    [Threads -> {Locking, Locking \o Locking, <<"unlock">>, <<"lock">>}]

\* Every Add has its Done, no Done comes before its Add.
PairedPrograms ==
    [Threads -> {<<"add", "done">>, <<"add", "done", "wait">>, <<"wait">>,
                 <<"add", "lock", "done", "unlock">>}]

\* ... and threads that use the group as they please.
GroupPrograms ==
    [Threads -> {<<"add", "done">>, <<"add", "wait">>, <<"wait", "wait">>, <<"done">>}]

AllPrograms == MutexPrograms \cup PairedPrograms \cup GroupPrograms

\* Lock, goo_waitgroup_wait and the wait for g_sync_init_lock end: in a program
\* that pairs Lock with Unlock and Add with Done every call returns.
AllReturn ==
    prog \in PairedPrograms => \A t \in Threads : <>(Op(t) = "exit")
=============================================================================
